---------------------------- MODULE MCTerminal ----------------------------
\* Terminal for model checking: two connections that share one service.
EXTENDS Terminal
============================================================================
