----------------------------- MODULE MCWsSendQueue -----------------------------
(* Instances of WsSendQueue for TLC; the cfg files choose the threads. *)
EXTENDS WsSendQueue
================================================================================
