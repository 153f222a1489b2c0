---------------------------- MODULE MCStreamLock ----------------------------
(* StreamLock on a small buffer for TLC. *)
EXTENDS StreamLock

SomeBytes == 1 .. Size   \* a lock of at least one byte
=============================================================================
