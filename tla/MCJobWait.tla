----------------------------- MODULE MCJobWait ------------------------------
(* Instances of JobWait for TLC.  A tick is one second. *)
EXTENDS JobWait

\* No time at all, less and more than an interval; polls without a pause.
SomeTimeouts == {0, 2, 5}
SomeIntervals == {0, 1, 4}
=============================================================================
