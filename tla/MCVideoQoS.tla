----------------------------- MODULE MCVideoQoS -----------------------------
\* VideoQoS for model checking: the code's rates divided by five.
EXTENDS VideoQoS

MCMinFps    == [best |-> 2, balanced |-> 2, low |-> 3]
MCNormalFps == [best |-> 3, balanced |-> 4, low |-> 5]
=============================================================================
