---------------------------- MODULE OnceAnswered ----------------------------
(***************************************************************************)
(* What an Idempotency-Key promises its callers (idempotent.decorator.ts,  *)
(* the table of idempotency.interceptor.ts): of the requests that carry    *)
(* the key at most one succeeds by itself; every other success is given to *)
(* the same request, repeated, and is the first one's answer.              *)
(***************************************************************************)
CONSTANTS Requests, Bodies, None

VARIABLES
  asked,    \* request -> its body
  answer,   \* request -> the request whose success it is told; or none yet
  winner    \* the request that succeeded by itself

Declined == "declined"

Init ==
  /\ asked = [r \in Requests |-> None]
  /\ answer = [r \in Requests |-> None]
  /\ winner = None

Ask(r, body) ==
  /\ asked[r] = None
  /\ asked' = [asked EXCEPT ![r] = body]
  /\ UNCHANGED <<answer, winner>>
Succeed(r) ==
  /\ asked[r] # None /\ answer[r] = None /\ winner = None
  /\ answer' = [answer EXCEPT ![r] = r] /\ winner' = r
  /\ UNCHANGED asked
Repeat(r) ==
  /\ answer[r] = None /\ winner # None /\ asked[r] = asked[winner]
  /\ answer' = [answer EXCEPT ![r] = winner]
  /\ UNCHANGED <<asked, winner>>
Decline(r) ==
  /\ asked[r] # None /\ answer[r] = None
  /\ answer' = [answer EXCEPT ![r] = Declined]
  /\ UNCHANGED <<asked, winner>>

Next ==
  \E r \in Requests :
    \/ \E body \in Bodies : Ask(r, body)
    \/ Succeed(r) \/ Repeat(r) \/ Decline(r)

Spec == Init /\ [][Next]_<<asked, answer, winner>>
=============================================================================
