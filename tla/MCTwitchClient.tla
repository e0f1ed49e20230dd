---------------------------- MODULE MCTwitchClient -----------------------------
(* Instances of TwitchClient for TLC. *)
EXTENDS TwitchClient

\* A message of the channel, one of a word in "PR" and a long number, a ping and the
\* end of the message of the day.
MCMessages == {
  <<":", "srv", " ", "PR", " ", "#c", " ", ":", "hi">>,
  <<"PR", " ", "#c", " ", ":", "PR", " ", Overlong>>,
  <<"PI", " ", ":", "t">>,
  <<"376", " ", "me">>}
================================================================================
