---------------------------- MODULE MCCegService ----------------------------
(* Instances of CegService for TLC.                                        *)
EXTENDS CegService

\* A call reads the ring once, when it begins.  The ring is explored in full while no call
\* has begun, and the calls while one game is in it.
CallsForOneGame ==
    (\A c \in Calls : pc[c] = "idle") \/ Cardinality({i \in Indices : slots[i].app # None}) <= 1
=============================================================================
