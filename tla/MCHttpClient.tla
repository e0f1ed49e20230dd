------------------------------ MODULE MCHttpClient ------------------------------
(* Instances of HttpClient for TLC; the cfg files choose the response. *)
EXTENDS HttpClient
================================================================================
