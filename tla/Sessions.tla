------------------------------ MODULE Sessions ------------------------------
(***************************************************************************)
(* Login sessions and refresh token rotation (SessionService, AuthService) *)
(* for the sessions of one user.  Every call is a process; its steps are   *)
(* single SQL statements, for SessionService opens no transaction.         *)
(*                                                                         *)
(* Refresh tokens are random, and stored as hashes.  A token is modelled   *)
(* by what generated it: the session that was opened with it, or the call  *)
(* of refresh that rotated to it.                                          *)
(***************************************************************************)
EXTENDS Naturals

CONSTANTS
    Sessions, Devices,
    Refreshes,  \* calls of AuthService.refresh
    Checks,     \* calls of assertSessionUsable, one per authenticated request
    Revokers,   \* calls of revokeSession (logout, explicit revocation)
    Ttl,        \* REFRESH_TOKEN_TTL_SECONDS
    MaxTime,    \* bound of the clock
    None

ASSUME SessionAssumption ==
    /\ Ttl \in Nat /\ MaxTime \in Nat
    /\ Sessions \cap Refreshes = {}
    /\ None \notin Sessions \cup Refreshes \cup Devices

Tokens == Sessions \cup Refreshes

Times == 0 .. MaxTime

VARIABLES
    status,             \* sessions.status, "ABSENT" when there is no row
    device,
    current, previous,  \* the tokens whose hashes the row stores
    expiresAt,
    userActive,         \* users.is_active
    delivered,          \* tokens that reached a client
    rpc, rin, rses,     \* a refresh's progress, input and session
    kpc, kses,          \* a check's progress and session
    vpc, vses,          \* a revocation's progress and session
    now

rowVars == <<status, device, current, previous, expiresAt>>
refreshVars == <<rpc, rin, rses>>
checkVars == <<kpc, kses>>
revokeVars == <<vpc, vses>>
vars == <<rowVars, userActive, delivered, refreshVars, checkVars, revokeVars, now>>

RefreshStates == {"idle", "rotate", "revoke", "expire", "respond",
                  "rotated", "replay", "failed", "crashed", "lost"}

TypeOK ==
    /\ status \in [Sessions -> {"ABSENT", "ACTIVE", "EXPIRED", "REVOKED"}]
    /\ device \in [Sessions -> Devices \cup {None}]
    /\ current \in [Sessions -> Tokens \cup {None}]
    /\ previous \in [Sessions -> Tokens \cup {None}]
    /\ expiresAt \in [Sessions -> 0 .. MaxTime + Ttl]
    /\ userActive \in BOOLEAN
    /\ delivered \subseteq Tokens
    /\ rpc \in [Refreshes -> RefreshStates]
    /\ rin \in [Refreshes -> Tokens \cup {None}]
    /\ rses \in [Refreshes -> Sessions \cup {None}]
    /\ kpc \in [Checks -> {"idle", "expire", "passed", "failed"}]
    /\ kses \in [Checks -> Sessions \cup {None}]
    /\ vpc \in [Revokers -> {"idle", "update", "done"}]
    /\ vses \in [Revokers -> Sessions \cup {None}]
    /\ now \in Times

Init ==
    /\ status = [s \in Sessions |-> "ABSENT"]
    /\ device = [s \in Sessions |-> None]
    /\ current = [s \in Sessions |-> None]
    /\ previous = [s \in Sessions |-> None]
    /\ expiresAt = [s \in Sessions |-> 0]
    /\ userActive = TRUE
    /\ delivered = {}
    /\ rpc = [c \in Refreshes |-> "idle"]
    /\ rin = [c \in Refreshes |-> None]
    /\ rses = [c \in Refreshes |-> None]
    /\ kpc = [k \in Checks |-> "idle"]
    /\ kses = [k \in Checks |-> None]
    /\ vpc = [v \in Revokers |-> "idle"]
    /\ vses = [v \in Revokers |-> None]
    /\ now = 0

-----------------------------------------------------------------------------
(* The three statements that end a session: each clears both hashes. *)

Close(s, to) ==
    /\ status' = [status EXCEPT ![s] = to]
    /\ current' = [current EXCEPT ![s] = None]
    /\ previous' = [previous EXCEPT ![s] = None]
    /\ UNCHANGED <<device, expiresAt>>

MutantMarkExpired(s) == Close(s, "EXPIRED")

\* UPDATE ... WHERE status = 'ACTIVE'
markExpired(s) ==
    IF status[s] = "ACTIVE" THEN Close(s, "EXPIRED") ELSE UNCHANGED rowVars

MutantRevokeForReplay(s) ==
    IF status[s] = "ACTIVE" THEN Close(s, "REVOKED") ELSE UNCHANGED rowVars

\* UPDATE ... WHERE status <> 'REVOKED'
revokeForReplay(s) ==
    IF status[s] # "REVOKED" THEN Close(s, "REVOKED") ELSE UNCHANGED rowVars

-----------------------------------------------------------------------------
(* issueSession, for login and signup *)

\* login looked at an earlier copy of the user, who may be inactive by now.  The
\* row is created before the response is built, which may get lost.
IssueSession(s, d) ==
    /\ status[s] = "ABSENT"
    /\ status' = [status EXCEPT ![s] = "ACTIVE"]
    /\ device' = [device EXCEPT ![s] = d]
    /\ current' = [current EXCEPT ![s] = s]
    /\ expiresAt' = [expiresAt EXCEPT ![s] = now + Ttl]
    /\ delivered' \in {delivered, delivered \cup {s}}
    /\ UNCHANGED <<previous, userActive, refreshVars, checkVars, revokeVars, now>>

-----------------------------------------------------------------------------
(* refresh *)

MoveRefresh(c, from, to) ==
    /\ rpc[c] = from
    /\ rpc' = [rpc EXCEPT ![c] = to]
    /\ UNCHANGED <<userActive, checkVars, revokeVars, now>>

\* The sessions whose current or previous token this is.
Owners(token) == {s \in Sessions : token \in {current[s], previous[s]}}

\* What rotateRefreshToken decides after its read.
Verdict(s, token, d) ==
    IF device[s] # d THEN "revoke"
    ELSE IF status[s] = "REVOKED" THEN "failed"
    ELSE IF expiresAt[s] < now THEN "expire"
    ELSE IF status[s] # "ACTIVE" \/ ~userActive THEN "failed"
    ELSE IF previous[s] = token THEN "revoke"
    ELSE "rotate"

\* Anybody who saw a token may present it, from any device.
Refresh(c, token, d) ==
    /\ token \in delivered
    /\ \/ /\ Owners(token) = {}
          /\ MoveRefresh(c, "idle", "failed")
          /\ UNCHANGED rses
       \/ \E s \in Owners(token) :
             /\ MoveRefresh(c, "idle", Verdict(s, token, d))
             /\ rses' = [rses EXCEPT ![c] = s]
    /\ rin' = [rin EXCEPT ![c] = token]
    /\ UNCHANGED <<rowVars, delivered>>

MutantMayRotate(c) == status[rses[c]] = "ACTIVE"

\* The WHERE clause of the update: the token is still the current one.
MayRotate(c) ==
    /\ current[rses[c]] = rin[c]
    /\ status[rses[c]] = "ACTIVE"

\* No row updated means that another call was faster: a replay.
rotateRefreshToken(c) ==
    LET s == rses[c]
    IN \/ /\ MoveRefresh(c, "rotate", "respond")
          /\ MayRotate(c)
          /\ previous' = [previous EXCEPT ![s] = rin[c]]
          /\ current' = [current EXCEPT ![s] = c]
          /\ expiresAt' = [expiresAt EXCEPT ![s] = now + Ttl]
          /\ UNCHANGED <<status, device, rin, rses, delivered>>
       \/ /\ MoveRefresh(c, "rotate", "revoke")
          /\ ~MayRotate(c)
          /\ UNCHANGED <<rowVars, rin, rses, delivered>>

\* The session is revoked, the replay audited, the call refused.
DetectReplay(c) ==
    /\ MoveRefresh(c, "revoke", "replay")
    /\ revokeForReplay(rses[c])
    /\ UNCHANGED <<rin, rses, delivered>>

ExpireOnRefresh(c) ==
    /\ MoveRefresh(c, "expire", "failed")
    /\ markExpired(rses[c])
    /\ UNCHANGED <<rin, rses, delivered>>

\* The access token is issued and the new refresh token sent to the client.
RespondRefresh(c) ==
    /\ MoveRefresh(c, "respond", "rotated")
    /\ delivered' = delivered \cup {c}
    /\ UNCHANGED <<rowVars, rin, rses>>

\* A crash or a database error; after the rotation it costs the client the
\* only copy of its new token.
AbandonRefresh(c) ==
    /\ \/ rpc[c] \in {"rotate", "revoke", "expire"} /\ MoveRefresh(c, rpc[c], "crashed")
       \/ MoveRefresh(c, "respond", "lost")
    /\ UNCHANGED <<rowVars, rin, rses, delivered>>

-----------------------------------------------------------------------------
(* assertSessionUsable, run by every authenticated request *)

assertSessionUsable(k, s) ==
    /\ kpc[k] = "idle"
    /\ status[s] # "ABSENT"
    /\ kses' = [kses EXCEPT ![k] = s]
    /\ kpc' = [kpc EXCEPT ![k] =
                  IF status[s] # "REVOKED" /\ expiresAt[s] < now THEN "expire"
                  ELSE IF status[s] = "ACTIVE" /\ userActive THEN "passed"
                  ELSE "failed"]
    /\ UNCHANGED <<rowVars, userActive, delivered, refreshVars, revokeVars, now>>

\* The session may have been refreshed since it was read.
ExpireOnCheck(k) ==
    /\ kpc[k] = "expire"
    /\ kpc' = [kpc EXCEPT ![k] = "failed"]
    /\ markExpired(kses[k])
    /\ UNCHANGED <<userActive, delivered, refreshVars, kses, revokeVars, now>>

-----------------------------------------------------------------------------
(* revokeSession, by the owner or an administrator *)

ReadForRevocation(v, s) ==
    /\ vpc[v] = "idle"
    /\ status[s] # "ABSENT"
    /\ vpc' = [vpc EXCEPT ![v] = IF status[s] = "REVOKED" THEN "done" ELSE "update"]
    /\ vses' = [vses EXCEPT ![v] = s]
    /\ UNCHANGED <<rowVars, userActive, delivered, refreshVars, checkVars, now>>

\* UPDATE by id, whatever happened since the read.
revokeSession(v) ==
    /\ vpc[v] = "update"
    /\ vpc' = [vpc EXCEPT ![v] = "done"]
    /\ Close(vses[v], "REVOKED")
    /\ UNCHANGED <<userActive, delivered, refreshVars, checkVars, vses, now>>

setActive ==
    /\ userActive' = ~userActive
    /\ UNCHANGED <<rowVars, delivered, refreshVars, checkVars, revokeVars, now>>

Tick ==
    /\ now < MaxTime
    /\ now' = now + 1
    /\ UNCHANGED <<rowVars, userActive, delivered, refreshVars, checkVars, revokeVars>>

-----------------------------------------------------------------------------
Next ==
    \/ \E s \in Sessions, d \in Devices : IssueSession(s, d)
    \/ \E c \in Refreshes : \/ \E token \in Tokens, d \in Devices : Refresh(c, token, d)
                            \/ rotateRefreshToken(c)
                            \/ DetectReplay(c)
                            \/ ExpireOnRefresh(c)
                            \/ RespondRefresh(c)
                            \/ AbandonRefresh(c)
    \/ \E k \in Checks : \/ \E s \in Sessions : assertSessionUsable(k, s)
                         \/ ExpireOnCheck(k)
    \/ \E v \in Revokers : \/ \E s \in Sessions : ReadForRevocation(v, s)
                           \/ revokeSession(v)
    \/ setActive
    \/ Tick

Spec == Init /\ [][Next]_vars

-----------------------------------------------------------------------------
(* Properties *)

\* The refreshes whose rotation was committed, answered or not.
Rotated == {c \in Refreshes : rpc[c] \in {"respond", "rotated", "lost"}}

\* However many refreshes present one token at the same moment, at most one of
\* them gets a new one: the chain of tokens of a session never forks.
OneRotationPerToken ==
    \A c, d \in Rotated : rin[c] = rin[d] => c = d

\* A call that was refused as a replay, or a revocation that was confirmed, has
\* left the session REVOKED, and no rotation or expiry that ran at the same
\* time undoes that.
RevocationsStick ==
    /\ \A c \in Refreshes : rpc[c] = "replay" => status[rses[c]] = "REVOKED"
    /\ \A v \in Revokers : vpc[v] = "done" => status[vses[v]] = "REVOKED"

\* A session that ended never comes back, and one that was revoked is never
\* filed as merely expired.
EndedStaysEnded ==
    [][\A s \in Sessions :
         /\ status[s] = "EXPIRED" => status'[s] \in {"EXPIRED", "REVOKED"}
         /\ status[s] = "REVOKED" => status'[s] = "REVOKED"]_vars

\* Once a session has ended or has been refreshed twice, the tokens it gave up
\* are accepted by no session: only the last token of an active session, and
\* the one before it as a trap, are still recognised.
OldTokensAreDead ==
    \A c \in Rotated : \A s \in Sessions :
        /\ current[s] # rin[c]
        /\ previous[s] = rin[c] => s = rses[c] /\ current[s] = c
=============================================================================
