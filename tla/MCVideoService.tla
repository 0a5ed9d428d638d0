--------------------------- MODULE MCVideoService ---------------------------
\* Model checking of VideoService: one desktop viewer and one web viewer, which
\* acknowledges its frames.  The two are not interchangeable.
EXTENDS VideoService, TLC
=============================================================================
