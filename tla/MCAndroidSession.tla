--------------------------- MODULE MCAndroidSession ---------------------------
(* The instance of AndroidSession for TLC.                                  *)
EXTENDS AndroidSession

\* An older announcement of one endpoint, a newer one of two with routes, and
\* one whose endpoint does not parse.
MCAnnouncements ==
    {[ts |-> 1, ends |-> {"old"}, routes |-> {"subnet"}],
     [ts |-> 2, ends |-> {"lan", "wan"}, routes |-> {"subnet", "default"}],
     [ts |-> 2, ends |-> {"bad"}, routes |-> {}]}
=============================================================================
