----------------------------- MODULE MCUnixFd -----------------------------
(* UnixFd for TLC: a buffer with two memories, one with one and two without  *)
(* any, or the first and a last of them.                                     *)
EXTENDS UnixFd

CONSTANTS b1, b2, b3, b4

MCBuffers == {b1, b2, b3, b4}
MCSmallPool == {b1, b4}
MCNumMems == [b \in Buffers |-> CASE b = b1 -> 2 [] b = b2 -> 1 [] OTHER -> 0]
============================================================================
