------------------------------- MODULE MCVfs -------------------------------
(* Small instances of Vfs.  Of the three intents a run may use, color and      *)
(* delete are a property change and a deletion of one element of f1, which    *)
(* conflict; width is a property change of an element of f2, or of another    *)
(* element of f1 where that is the only file.                                 *)
EXTENDS Vfs, TLC

CONSTANTS f1, f2, color, delete, width

MCFileOf == [i \in Intent |-> IF i = width /\ f2 \in File THEN f2 ELSE f1]

\* A property change squashes the staged change of the same property.
MCSquash == {<<i, i>> : i \in Intent \ {delete}}

\* A deletion against a change of the same element: rule 12, either way round.
MCReview == {r \in Intent \X Intent : {r[1], r[2]} = {color, delete}}

Symmetry == Permutations(Edit) \cup Permutations(Tx)
=============================================================================
