------------------------------ MODULE MCIrcReader ------------------------------
(* Instances of IrcReader for TLC; the cfg files choose the stream. *)
EXTENDS IrcReader
================================================================================
