---------------------------- MODULE MCWsConnection ----------------------------
(* Instances of WsConnection for TLC; the cfg files choose the timeouts. *)
EXTENDS WsConnection
================================================================================
