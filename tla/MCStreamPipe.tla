---------------------------- MODULE MCStreamPipe ----------------------------
(* StreamPipe on two small buffers for TLC. *)
EXTENDS StreamPipe

SomeLimits == {NoLimit, 1, 2}
=============================================================================
