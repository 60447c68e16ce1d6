------------------------------ MODULE MCResume ------------------------------
(* Small instances of Resume for TLC. *)
EXTENDS Resume

CONSTANTS w1, w2

MCWorkers == {w1, w2}
=============================================================================
