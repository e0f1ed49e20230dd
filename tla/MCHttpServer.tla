------------------------------ MODULE MCHttpServer ------------------------------
(* Instances of HttpServer for TLC; the cfg files choose the client. *)
EXTENDS HttpServer
================================================================================
