------------------------------ MODULE RankCall ------------------------------
(***************************************************************************)
(* What a caller in the Mozc server may expect of the resident ranker:     *)
(* ai_ranker::Client in rewriter/ai_ranker_client.h.  A call ends with the *)
(* ranker's answer to this very call or with a failure; the ranker runs a  *)
(* call at most once, and it may run it after the caller has given up.     *)
(***************************************************************************)
EXTENDS Naturals

CONSTANT Requests        \* calls, each with its own request id

VARIABLES
  call,                  \* Requests -> "idle", "pending", "answered" or "failed"
  runs                   \* Requests -> how often the ranker has run the call

vars == <<call, runs>>

Init == /\ call = [r \in Requests |-> "idle"]
        /\ runs = [r \in Requests |-> 0]

Begin(r) == /\ call[r] = "idle"
            /\ call' = [call EXCEPT ![r] = "pending"]
            /\ UNCHANGED runs

(* Closing the pipe does not take back what has been sent. *)
Run(r) == /\ call[r] # "idle"
          /\ runs[r] = 0
          /\ runs' = [runs EXCEPT ![r] = 1]
          /\ UNCHANGED call

Answer(r) == /\ call[r] = "pending"
             /\ runs[r] = 1
             /\ call' = [call EXCEPT ![r] = "answered"]
             /\ UNCHANGED runs

Fail(r) == /\ call[r] = "pending"
           /\ call' = [call EXCEPT ![r] = "failed"]
           /\ UNCHANGED runs

Next == \E r \in Requests : Begin(r) \/ Run(r) \/ Answer(r) \/ Fail(r)

Spec == Init /\ [][Next]_vars

(* The explicit conversion path is bounded: every call returns. *)
FairSpec == Spec /\ \A r \in Requests : WF_vars(Answer(r) \/ Fail(r))
=============================================================================
