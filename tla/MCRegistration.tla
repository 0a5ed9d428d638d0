--------------------------- MODULE MCRegistration ---------------------------
\* Model checking of Registration: the first server refuses id 1, the second
\* refuses id 2.
EXTENDS Registration, TLC

CONSTANTS h1, h2

TakenInTurn == (h1 :> {1}) @@ (h2 :> {2})
=============================================================================
