------------------------------- MODULE MCWsEcho --------------------------------
(* Instances of WsEcho for TLC. *)
EXTENDS WsEcho

\* A digest of whose words one begins with zeros and one is zero.
MCDigests ==
  {<< <<10, 9, 3, 14, 0, 1, 2, 3>>, <<0, 0, 15, 1, 2, 3, 4, 5>>, <<0, 0, 0, 0, 0, 0, 0, 0>>,
      <<1, 2, 3, 4, 5, 6, 7, 8>>, <<11, 12, 13, 14, 15, 0, 1, 2>> >>}
================================================================================
