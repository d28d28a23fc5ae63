--------------------------- MODULE PolicyRegister ---------------------------
(***************************************************************************)
(* What the policy registry promises: at every moment one whole policy is  *)
(* in force, it is always a sound one, and a request is answered from the     *)
(* policy in force at one moment of the request (REQ-BFF-PROXY-021 to 023  *)
(* of src/docs/requirements/bff-resource-proxy-requirements.md).           *)
(***************************************************************************)
CONSTANTS
    Readers,
    Calls,
    Unanswered,
    IsSound(_),      \* the policies that may be in force
    Resolve(_, _)    \* what a policy answers to a call

VARIABLES
    policy,   \* the policy in force
    answer    \* of each reader's request

vars == <<policy, answer>>

Init ==
    /\ IsSound(policy)
    /\ answer = [r \in Readers |-> Unanswered]

Replace ==
    /\ policy' # policy
    /\ IsSound(policy')
    /\ UNCHANGED answer

Request(r) ==
    /\ answer[r] = Unanswered
    /\ \E call \in Calls : answer' = [answer EXCEPT ![r] = Resolve(policy, call)]
    /\ UNCHANGED policy

Finish(r) ==
    /\ answer' = [answer EXCEPT ![r] = Unanswered]
    /\ UNCHANGED policy

Next ==
    \/ Replace
    \/ \E r \in Readers : Request(r) \/ Finish(r)

Spec == Init /\ [][Next]_vars
=============================================================================
