------------------------------- MODULE MCKup -------------------------------
\* Values for the model checker.
EXTENDS Kup

CONSTANTS a, b

TwoPlans == {a, b}
=============================================================================
