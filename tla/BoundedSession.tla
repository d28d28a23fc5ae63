--------------------------- MODULE BoundedSession ---------------------------
(***************************************************************************)
(* What the BFF promises about one stored session, whatever happens to the *)
(* requests that use it: it has a fixed lifetime counted from its          *)
(* creation; inside that lifetime its tokens are only ever replaced by     *)
(* newer ones; once it has ended it never comes back.  (REQ-012, REQ-013   *)
(* of src/docs/requirements/bff-token-refresh-requirements.md; the code    *)
(* that keeps the promise is the update script of src/src/session.rs.)     *)
(***************************************************************************)
EXTENDS Naturals

CONSTANT MaxLifetime

VARIABLES
    remaining,    \* lifetime left; 0 once the session has ended
    generation    \* the token generation stored; 0 once it has ended

vars == <<remaining, generation>>

Init ==
    /\ remaining \in 1..MaxLifetime
    /\ generation \in Nat

\* Time passes.
Age ==
    /\ remaining > 1
    /\ remaining' = remaining - 1
    /\ UNCHANGED generation

\* A refresh stores newer tokens and leaves the lifetime alone.
Renew ==
    /\ remaining > 0
    /\ generation' \in Nat
    /\ generation' > generation
    /\ UNCHANGED remaining

\* The lifetime is used up, or the session is invalidated.
End ==
    /\ remaining > 0
    /\ remaining' = 0
    /\ generation' = 0

Next == Age \/ Renew \/ End

Spec == Init /\ [][Next]_vars
=============================================================================
