------------------------------ MODULE MCIrcClient ------------------------------
(* Instances of IrcClient for TLC; the cfg files choose the stream. *)
EXTENDS IrcClient
================================================================================
