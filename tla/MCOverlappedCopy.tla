--------------------------- MODULE MCOverlappedCopy ---------------------------
(* Instances of OverlappedCopy for TLC: the cfg files give the sizes. *)
EXTENDS OverlappedCopy

\* Every position that can be reached with a pool of BufferCount buffers.
AnyPosition == 0..(LastChunk + BufferCount)
===============================================================================
