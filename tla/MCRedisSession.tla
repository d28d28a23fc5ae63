-------------------------- MODULE MCRedisSession ---------------------------
EXTENDS RedisSession, TLC

\* Two logins and two refreshed token pairs: with and without a refresh token,
\* an expiry, an email address and its verification.
CONSTANTS text1, text2

Session(at, rt, expires, email, verified) ==
    [access_token |-> at, refresh_token |-> rt, expires_at |-> expires,
     issuer |-> text1, subject |-> text2, email |-> email,
     email_verified |-> verified]

MCInputs == {Session(text1, text1, 1, text1, FALSE), Session(text1, None, None, None, None),
             Session(text2, text2, 2, text2, None),  Session(text2, text1, None, text1, TRUE)}
Symmetry == Permutations(Owners)
=============================================================================
