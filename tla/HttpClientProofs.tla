---------------------------- MODULE HttpClientProofs ----------------------------
(***************************************************************************)
(* Proofs about HttpClient, for responses of any size and any cut of the   *)
(* stream: the callback is called at most once, with all of the content,   *)
(* and throws only over a response that is cut off or no JSON.             *)
(***************************************************************************)
EXTENDS HttpClient, TLAPS

USE ClientAssumption

--------------------------------------------------------------------------------
(* The inductive invariant *)

BeforeResponse ==
  phase \in {"resolve", "connect", "write"} => sent = 0 /\ consumed = 0 /\ calls = 0

\* The status line is read: it is all that leaves the buffer.
InStatus ==
  phase = "status" =>
    consumed = 0 /\ given = 0 /\ calls = 0 /\ (io = "ok" => received >= 1)

\* A wait for headers that succeeds has brought all of them.
InHeaders ==
  phase = "headers" =>
    /\ response.ok
    /\ consumed = 1 /\ given = 0 /\ calls = 0
    /\ io = "ok" => received >= Blank

\* What left the buffer after the headers is in res_.
InContent ==
  phase = "content" =>
    /\ response.ok
    /\ calls = 0
    /\ consumed >= Blank
    /\ given = consumed - Blank
    /\ io = "eof" => link # "up" /\ consumed = received /\ received = sent
    /\ io = "pending" => consumed = received

AfterCall ==
  calls # 0 =>
    /\ calls = 1
    /\ phase \in {"close", "none"}
    /\ response.ok
    /\ link # "up"
    /\ consumed = received /\ received = sent
    /\ sent >= Blank
    /\ given = sent - Blank

Crash == crashed => calls = 1 /\ (~response.json \/ given # response.content)

\* The name resolves to an address at least.
AddressLeft == phase = "resolve" => endpoints > 0

NotYetGiven == phase \in {"resolve", "connect", "write"} => given = 0

IInv ==
  /\ TypeOK
  /\ AddressLeft /\ BeforeResponse /\ NotYetGiven
  /\ InStatus /\ InHeaders /\ InContent
  /\ AfterCall /\ Crash

--------------------------------------------------------------------------------
(* What the type says of a response *)

LEMMA ResponseType ==
  ASSUME response \in Response
  PROVE  /\ response.ok \in BOOLEAN
         /\ response.json \in BOOLEAN
         /\ response.headers \in Nat
         /\ response.content \in Nat
         /\ Blank \in Nat /\ Blank >= 2
         /\ Total \in Nat /\ Total = Blank + response.content
BY DEF Response, Blank, Total

LEMMA InitIInv == Init => IInv
<1> SUFFICES ASSUME Init PROVE IInv
  OBVIOUS
<1>1. response \in Response /\ endpoints \in 1 .. MaxEndpoints
  BY DEF Init
<1>2. response.content \in Nat /\ Total \in Nat
  BY <1>1, ResponseType
<1>3. endpoints \in 0 .. MaxEndpoints
  BY <1>1
<1>4. sent \in 0 .. Total /\ given \in 0 .. response.content
  BY <1>2 DEF Init
<1>5. received \in 0 .. sent /\ consumed \in 0 .. received /\ calls \in Nat
  BY DEF Init
<1>6. TypeOK
  BY <1>1, <1>3, <1>4, <1>5 DEF Init, TypeOK, Phases
<1> QED
  BY <1>1, <1>6 DEF Init, IInv, AddressLeft, BeforeResponse, NotYetGiven, InStatus, InHeaders, InContent,
    AfterCall, Crash

\* Every step but those of the server leaves what the server does alone.
LEMMA NextIInv == IInv /\ [Next]_vars => IInv'
<1> SUFFICES ASSUME IInv, [Next]_vars PROVE IInv'
  OBVIOUS
<1> USE DEF IInv, AddressLeft, BeforeResponse, NotYetGiven, InStatus, InHeaders, InContent,
    AfterCall, Crash
<1>1. /\ response.ok \in BOOLEAN
      /\ response.json \in BOOLEAN
      /\ response.headers \in Nat
      /\ response.content \in Nat
      /\ Blank \in Nat /\ Blank >= 2
      /\ Total \in Nat /\ Total = Blank + response.content
  BY ResponseType DEF TypeOK
<1>2. response' = response => Blank' = Blank /\ Total' = Total
  BY DEF Blank, Total
<1>3. CASE handle_resolve
  BY <1>1, <1>2, <1>3 DEF handle_resolve, Handles, Ok, Begin, End, TypeOK, Phases, serverVars
<1>4. CASE handle_connect
  BY <1>1, <1>2, <1>4 DEF handle_connect, Handles, Ok, Begin, End, TypeOK, Phases, serverVars
<1>5. CASE handle_write_request
  BY <1>1, <1>2, <1>5
  DEF handle_write_request, Handles, Ok, Begin, End, TypeOK, Phases, serverVars
<1>6. CASE handle_read_status_line
  BY <1>1, <1>2, <1>6
  DEF handle_read_status_line, Handles, Ok, Begin, End, TypeOK, Phases, serverVars
<1>7. CASE handle_read_headers
  BY <1>1, <1>2, <1>7
  DEF handle_read_headers, Handles, Ok, Begin, End, TypeOK, Phases, serverVars
<1>8. CASE handle_read_content
  <2>1. CASE Ok
    <3>1. given + (received - consumed) = received - Blank
      BY <1>1, <1>8 DEF handle_read_content, Handles, TypeOK
    <3> QED
      BY <1>1, <1>2, <1>8, <2>1, <3>1
      DEF handle_read_content, Handles, Ok, Begin, TypeOK, Phases, serverVars
  <2>2. CASE io = "eof"
    <3>1. /\ http_cb
          /\ UNCHANGED <<given, consumed, serverVars, endpoints, received, freed>>
      BY <1>8, <2>2 DEF handle_read_content, Ok
    <3>2. phase = "content" /\ calls = 0
      BY <1>8 DEF handle_read_content, Handles
    <3>3. CASE response.json /\ given = response.content
      BY <1>1, <1>2, <2>2, <3>1, <3>2, <3>3
      DEF http_cb, Begin, TypeOK, Phases, serverVars
    <3>4. CASE ~(response.json /\ given = response.content)
      <4>1. phase' = "none" /\ io' = "none" /\ crashed' = TRUE /\ calls' = 1
        BY <3>1, <3>2, <3>4 DEF http_cb, End
      <4>2. UNCHANGED <<response, sent, link, endpoints, received, consumed, given, freed>>
        BY <3>1 DEF serverVars
      <4>3. TypeOK'
        BY <1>1, <1>2, <4>1, <4>2 DEF TypeOK, Phases
      <4>4. Crash'
        BY <3>4, <4>1, <4>2
      <4>5. AfterCall'
        BY <1>1, <1>2, <2>2, <3>2, <4>1, <4>2 DEF TypeOK
      <4> QED
        BY <4>1, <4>2, <4>3, <4>4, <4>5
    <3> QED
      BY <3>3, <3>4
  <2>3. CASE io = "err"
    BY <1>1, <1>2, <1>8, <2>3
    DEF handle_read_content, Handles, Ok, End, TypeOK, Phases, serverVars
  <2> QED
    BY <1>8, <2>1, <2>2, <2>3 DEF handle_read_content, Ok
<1>9. CASE Close
  BY <1>1, <1>2, <1>9 DEF Close, End, TypeOK, Phases, serverVars
<1>10. CASE RunReturns
  BY <1>1, <1>2, <1>10 DEF RunReturns, TypeOK, Phases, serverVars
<1>11. ASSUME NEW result \in {"ok", "err"}, OperationEnds(result) PROVE IInv'
  BY <1>1, <1>2, <1>11 DEF OperationEnds, Pending, Completes, TypeOK, Phases, serverVars
<1>12. ASSUME NEW n \in 0 .. Total, Read(n) PROVE IInv'
  BY <1>1, <1>2, <1>12 DEF Read, Enough, Pending, Completes, TypeOK, Phases, serverVars
<1>13. CASE ReadFails
  BY <1>1, <1>2, <1>13 DEF ReadFails, Enough, Pending, Completes, TypeOK, Phases, serverVars
<1>14. CASE ServerSends
  BY <1>1, <1>2, <1>14 DEF ServerSends, TypeOK, Phases, clientVars
<1>15. ASSUME NEW how \in {"fin", "reset"}, ServerEnds(how) PROVE IInv'
  BY <1>1, <1>2, <1>15 DEF ServerEnds, TypeOK, Phases, clientVars
<1>16. CASE UNCHANGED vars
  BY <1>1, <1>2, <1>16 DEF vars, serverVars, clientVars, TypeOK, Phases
<1> QED
  BY <1>3, <1>4, <1>5, <1>6, <1>7, <1>8, <1>9, <1>10, <1>11, <1>12, <1>13, <1>14,
    <1>15, <1>16 DEF Next

\* The invariant says what the properties say.
LEMMA IInvImplies ==
  IInv => TypeOK /\ CallbackHasAll /\ CrashNeedsBadJson
<1> SUFFICES ASSUME IInv PROVE CallbackHasAll /\ CrashNeedsBadJson
  BY DEF IInv
<1>1. response.content \in Nat /\ Blank \in Nat /\ Total = Blank + response.content
  BY ResponseType DEF IInv, TypeOK
<1>2. calls \in Nat /\ sent \in 0 .. Total
  BY DEF IInv, TypeOK
<1> QED
  BY <1>1, <1>2 DEF IInv, AfterCall, Crash, CallbackHasAll, CrashNeedsBadJson

LEMMA Invariance == Spec => []IInv
BY InitIInv, NextIInv, PTL DEF Spec

\* The callback is called at most once, for an answer of status 200 that the
\* server ended, and is given all the content that was sent.
THEOREM CallbackGetsResponse == Spec => [](TypeOK /\ CallbackHasAll)
BY Invariance, IInvImplies, PTL

\* The callback takes the process down only over content that was cut off or
\* is not JSON.
THEOREM OnlyBadJsonCrashes == Spec => []CrashNeedsBadJson
BY Invariance, IInvImplies, PTL
================================================================================
