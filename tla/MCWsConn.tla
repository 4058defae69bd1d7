------------------------------ MODULE MCWsConn ------------------------------
(* Model values for WsConn: instances are numbered from 1. *)
EXTENDS WsConn

CONSTANTS i1, i2

OneId == {i1}
TwoIds == {i1, i2}
OneSub == 1..1
TwoSubs == 1..2
=============================================================================
