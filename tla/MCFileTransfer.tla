--------------------------- MODULE MCFileTransfer ---------------------------
(* One file of a few chunks beside empty ones. *)
EXTENDS FileTransfer

CONSTANTS Long, LongChunks

MCChunks == [t \in Transfer |-> IF t = Long THEN LongChunks ELSE 0]
=============================================================================
