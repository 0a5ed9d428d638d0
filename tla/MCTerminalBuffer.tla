-------------------------- MODULE MCTerminalBuffer --------------------------
\* TerminalBuffer for model checking.
EXTENDS TerminalBuffer
=============================================================================
