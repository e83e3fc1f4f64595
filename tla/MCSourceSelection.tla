------------------------- MODULE MCSourceSelection -------------------------
\* A small file system for the model checker.
EXTENDS SourceSelection

DirA == <<"a">>
DirB == <<"a", "b">>
DirC == <<"a", "b", "c">>

Tree    == {DirA, DirB, DirC}
OneLink == <<"a", "l">> :> DirB
Private == {DirC}

\* The nearest mark decides, as in the recursion of inclusionState().
ASSUME StateIsByRecursion ==
  \A inc, exc \in SUBSET Checkable : \A p \in Checkable \cup {Root} :
    StateIn(inc, exc, p) = StateByRecursion(inc, exc, p)

Saved == { <<{}, {}>>, <<{DirA, DirC}, {DirB}>> }
=============================================================================
