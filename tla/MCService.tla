----------------------------- MODULE MCService -----------------------------
(* Model checking of Service: three connections, so that two can come and  *)
(* go while a third is served, and two values, so that one replaces the    *)
(* other.                                                                  *)
EXTENDS Service, TLC
=============================================================================
