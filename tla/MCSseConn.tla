----------------------------- MODULE MCSseConn -----------------------------
(* Requests for SseConn: a first connection and its reconnections. *)
EXTENDS SseConn

Requests == 1..2
OneBad == {2}
NoneBad == {}
=============================================================================
