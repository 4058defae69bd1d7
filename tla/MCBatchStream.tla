--------------------------- MODULE MCBatchStream ---------------------------
(* A batch of three procedures. *)
EXTENDS BatchStream
=============================================================================
