------------------------ MODULE TimelyVerification -------------------------
(***************************************************************************)
(* What the verification of ID tokens promises, with no cache in sight:    *)
(* the verdict follows from the keys the provider had published at some    *)
(* moment between the signing of the token and the verdict.                *)
(*                                                                         *)
(* That is weaker than asking the provider at the moment of the verdict.   *)
(* A key may be retired while the token travels or is verified; whoever    *)
(* asked before accepts the token, whoever asked after refuses it, and the *)
(* machine allows both.  In particular a copy of the keys older than the   *)
(* retirement accepts a token that an online check would refuse.           *)
(***************************************************************************)
EXTENDS Naturals

CONSTANTS
    Callbacks,
    Behind,       \* a retired key stays published for this many rotations
    Faults,       \* what can be wrong with a token; "none" if genuine
    MaxVersion    \* bound: key rotations

VARIABLES
    version,      \* the provider's current signing key
    token,        \* [key, fault] of the ID token of each callback; key 0: none
    verdict       \* "open", "accepted", "refused" or "abandoned"

Init == /\ version = 1
        /\ token = [c \in Callbacks |-> [key |-> 0, fault |-> "none"]]
        /\ verdict = [c \in Callbacks |-> "open"]

Rotate == /\ version < MaxVersion
          /\ version' = version + 1
          /\ UNCHANGED <<token, verdict>>

\* A token is signed with the key current when it is issued.
Issue(c, fault) ==
    /\ verdict[c] = "open" /\ token[c].key = 0
    /\ token' = [token EXCEPT ![c] = [key |-> version, fault |-> fault]]
    /\ UNCHANGED <<version, verdict>>

\* The key sets the provider has published since the token was signed.
Moments(c) == token[c].key..version
Publishes(v, key) == key <= v /\ v <= key + Behind

\* Only a genuine token is accepted.  The keys published when it was signed
\* verify it, so the last condition never fails: a genuine token may be accepted
\* at any later time, also when its key has been retired since.
Accept(c) ==
    /\ verdict[c] = "open" /\ token[c].key # 0 /\ token[c].fault = "none"
    /\ \E v \in Moments(c) : Publishes(v, token[c].key)
    /\ verdict' = [verdict EXCEPT ![c] = "accepted"]
    /\ UNCHANGED <<version, token>>

\* A genuine token is refused only by keys its own is no longer among; it has
\* then been retired, and asking the provider again would not help.
Refuse(c) ==
    /\ verdict[c] = "open" /\ token[c].key # 0
    /\ \/ token[c].fault # "none"
       \/ \E v \in Moments(c) : ~Publishes(v, token[c].key)
    /\ verdict' = [verdict EXCEPT ![c] = "refused"]
    /\ UNCHANGED <<version, token>>

\* An error, a timeout or a disconnecting browser ends a callback.
Abandon(c) ==
    /\ verdict[c] \in {"open", "accepted"}
    /\ verdict' = [verdict EXCEPT ![c] = "abandoned"]
    /\ UNCHANGED <<version, token>>

Next == \/ Rotate
        \/ \E c \in Callbacks :
              \/ \E fault \in Faults : Issue(c, fault)
              \/ Accept(c) \/ Refuse(c) \/ Abandon(c)

Spec == Init /\ [][Next]_<<version, token, verdict>>
=============================================================================
