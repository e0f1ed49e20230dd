---------------------------- MODULE OrderedDelivery ----------------------------
(***************************************************************************)
(* What the send path of a WebSocket connection promises to its callers.   *)
(*                                                                         *)
(* A caller of SocketServerBase::send hands over a frame and goes on.      *)
(* Frames are numbered in the order in which the calls were accepted.      *)
(* While the link is up the oldest outstanding frame may be delivered,     *)
(* whole; once the link is down frames are lost, oldest first, and none is *)
(* delivered any more.  No frame is delivered twice, overtakes another     *)
(* one, or is mixed with one.                                              *)
(***************************************************************************)
EXTENDS Naturals

VARIABLES
  accepted,    \* number of frames accepted so far: they are 1 .. accepted
  delivered,   \* the frames the peer has received in full
  lost,        \* the frames given up because the link is down
  link         \* can the peer still receive anything?

vars == <<accepted, delivered, lost, link>>

Outstanding == (1 .. accepted) \ (delivered \cup lost)

Init ==
  /\ accepted = 0
  /\ delivered = {}
  /\ lost = {}
  /\ link = TRUE

Accept ==
  /\ accepted' = accepted + 1
  /\ UNCHANGED <<delivered, lost, link>>

\* The oldest outstanding frame reaches the peer.
Deliver ==
  /\ link
  /\ \E n \in Outstanding :
       /\ \A m \in Outstanding : n <= m
       /\ delivered' = delivered \cup {n}
  /\ UNCHANGED <<accepted, lost, link>>

\* The oldest outstanding frames, one or more, are given up.
Lose ==
  /\ ~link
  /\ \E S \in SUBSET Outstanding :
       /\ S # {}
       /\ \A s \in S, m \in Outstanding \ S : s < m
       /\ lost' = lost \cup S
  /\ UNCHANGED <<accepted, delivered, link>>

Cut ==
  /\ link
  /\ link' = FALSE
  /\ UNCHANGED <<accepted, delivered, lost>>

Next == Accept \/ Deliver \/ Lose \/ Cut

Spec == Init /\ [][Next]_vars

\* Every outstanding frame is dealt with, as long as the peer keeps reading.
LiveSpec == Spec /\ WF_vars(Deliver \/ Lose)
================================================================================
