----------------------------- MODULE MCMediator -----------------------------
\* Model checking of Mediator: two servers, the second of which is in one of
\* the two lists only.
EXTENDS Mediator, TLC

CONSTANTS h1, h2

TwoLists == {{h1}, {h1, h2}}
=============================================================================
