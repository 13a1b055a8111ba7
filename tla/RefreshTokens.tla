--------------------------- MODULE RefreshTokens ---------------------------
(***************************************************************************)
(* What an oauth.Store promises of the refresh tokens it keeps, whatever   *)
(* keeps them: a grant is opened with its first token, a token is renewed  *)
(* by spending it for its successor in one step, and a grant is revoked    *)
(* for good, by whoever asks or because a spent token came back.           *)
(*                                                                         *)
(* Oauth (the tables) and MemoryStore (the maps) are shown to implement it.*)
(***************************************************************************)
CONSTANTS
  Grant, RefreshToken,    \* their ids
  Absent                  \* a refresh token never issued

VARIABLES
  grant,                  \* the standing of each grant
  refreshToken            \* the grant each token renews, and whether it is spent

vars == <<grant, refreshToken>>

Standing == {"none", "live", "revoked"}
Token == [grant: Grant, spent: BOOLEAN]

\* What a store has to grant for the promise to make sense.
AbsentIsNoToken == Absent \notin Token

TypeOK ==
  /\ grant \in [Grant -> Standing]
  /\ refreshToken \in [RefreshToken -> Token \union {Absent}]

Init ==
  /\ grant = [g \in Grant |-> "none"]
  /\ refreshToken = [t \in RefreshToken |-> Absent]

-----------------------------------------------------------------------------
Issued(t) == refreshToken[t] # Absent

Unspent(t) == Issued(t) /\ ~refreshToken[t].spent

\* InsertGrant: the grant and its first refresh token.
Open(g, t) ==
  /\ grant[g] = "none"
  /\ ~Issued(t)
  /\ grant' = [grant EXCEPT ![g] = "live"]
  /\ refreshToken' = [refreshToken EXCEPT ![t] = [grant |-> g, spent |-> FALSE]]

\* RotateRefreshToken: t is spent and its successor u recorded in one step.
Rotate(t, u) ==
  /\ Unspent(t)
  /\ grant[refreshToken[t].grant] = "live"
  /\ ~Issued(u)
  /\ refreshToken' = [refreshToken EXCEPT
       ![t].spent = TRUE,
       ![u] = [grant |-> refreshToken[t].grant, spent |-> FALSE]]
  /\ UNCHANGED grant

\* RevokeRefreshToken, or RotateRefreshToken of a token spent before.
Revoke(t) ==
  /\ Issued(t)
  /\ grant' = [grant EXCEPT ![refreshToken[t].grant] = "revoked"]
  /\ UNCHANGED refreshToken

Next ==
  \E t \in RefreshToken :
    \/ \E g \in Grant : Open(g, t)
    \/ \E u \in RefreshToken : Rotate(t, u)
    \/ Revoke(t)

Spec == Init /\ [][Next]_vars

-----------------------------------------------------------------------------
\* However a grant was renewed, just one of its tokens can renew it again:
\* never two, which two parties could both go on with, and never none, which
\* would cost the client its access.
GrantHasOneToken ==
  \A g \in Grant :
    grant[g] # "none" =>
      \E t \in RefreshToken :
        /\ Unspent(t)
        /\ refreshToken[t].grant = g
        /\ \A u \in RefreshToken : Unspent(u) /\ refreshToken[u].grant = g => u = t

\* A revoked grant stays so, and no token is added to it: revoking it ends
\* every chain of renewals there is.
RevocationEndsRenewal ==
  [][\A g \in Grant :
       grant[g] = "revoked" =>
         /\ grant'[g] = "revoked"
         /\ \A t \in RefreshToken :
              ~Issued(t) => (~Issued(t)' \/ refreshToken'[t].grant # g)]_vars
=============================================================================
