----------------------------- MODULE MCStreamOps -----------------------------
(* StreamCalls on a small buffer for TLC. *)
EXTENDS StreamCalls

SomeLimits == NoLimit .. Size
OneOrTwo   == {1, 2}
=============================================================================
