--------------------------- MODULE SessionRecord ---------------------------
(***************************************************************************)
(* How src/src/session.rs writes an AuthenticatedSession into the fields   *)
(* of a Redis hash and reads it back.  Redis has neither options nor       *)
(* booleans: an absent string is written "", an absent expiry 0, and the   *)
(* three values of email_verified "true", "false" and "".                  *)
(***************************************************************************)
EXTENDS Naturals

CONSTANTS
    Texts,   \* strings
    Empty,   \* ""
    None     \* Rust's None; also the key that does not exist

ASSUME TextsAssumption == Empty \in Texts /\ None \notin Texts

Optional(S) == S \cup {None}

\* AuthenticatedSession with its SessionIdentity.
Sessions == [access_token : Texts, refresh_token : Optional(Texts),
             expires_at : Optional(Nat), issuer : Texts, subject : Texts,
             email : Optional(Texts), email_verified : Optional(BOOLEAN)]

Hashes == [access_token : Texts, refresh_token : Texts, expires_at : Nat,
           issuer : Texts, subject : Texts, email : Texts,
           email_verified : {"true", "false", ""}]

ASSUME NoneAssumption  == None \notin Nat \cup BOOLEAN \cup Sessions \cup Hashes

UnwrapOr(option, default) == IF option = None THEN default ELSE option
Filtered(value, absent)   == IF value = absent THEN None ELSE value

EncodeOptionalBool(option) ==
    CASE option = None  -> ""
      [] option = TRUE  -> "true"
      [] option = FALSE -> "false"

DecodeOptionalBool(text) == IF text = "" THEN None ELSE text = "true"

\* The arguments of HSET in redis_put.
Encode(s) ==
    [access_token   |-> s.access_token,
     refresh_token  |-> UnwrapOr(s.refresh_token, Empty),
     expires_at     |-> UnwrapOr(s.expires_at, 0),
     issuer         |-> s.issuer,
     subject        |-> s.subject,
     email          |-> UnwrapOr(s.email, Empty),
     email_verified |-> EncodeOptionalBool(s.email_verified)]

\* redis_get on the fields that HMGET returns.
BugDecodeKeepsEmpty(h) ==
    IF h = None THEN None
    ELSE [h EXCEPT !.expires_at = Filtered(@, 0),
                   !.email = Filtered(@, Empty),
                   !.email_verified = DecodeOptionalBool(@)]
Decode(h) ==
    IF h = None THEN None
    ELSE IF h.issuer = Empty \/ h.subject = Empty THEN None
    ELSE [access_token   |-> h.access_token,
          refresh_token  |-> Filtered(h.refresh_token, Empty),
          expires_at     |-> Filtered(h.expires_at, 0),
          issuer         |-> h.issuer,
          subject        |-> h.subject,
          email          |-> Filtered(h.email, Empty),
          email_verified |-> IF h.email = Empty
                               THEN None ELSE DecodeOptionalBool(h.email_verified)]

\* The HSET of the refresh script writes the token fields and no others.
BugOverwriteDropsExpiry(h, s) ==
    [h EXCEPT !.access_token = s.access_token,
              !.refresh_token = UnwrapOr(s.refresh_token, Empty)]
Overwrite(h, s) ==
    [h EXCEPT !.access_token  = s.access_token,
              !.refresh_token = UnwrapOr(s.refresh_token, Empty),
              !.expires_at    = UnwrapOr(s.expires_at, 0)]

\* The sessions that storing does not change.  An empty string or an expiry of
\* 0 is read back as None, and without an issuer or a subject the session is
\* not read back at all.
Canonical(s) ==
    /\ s.issuer # Empty /\ s.subject # Empty
    /\ s.refresh_token # Empty /\ s.expires_at # 0 /\ s.email # Empty
    /\ s.email = None => s.email_verified = None
=============================================================================
