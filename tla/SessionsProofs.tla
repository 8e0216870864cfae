--------------------------- MODULE SessionsProofs ---------------------------
(***************************************************************************)
(* Proofs about Sessions, for any number of sessions, devices and calls.   *)
(* That no token is rotated twice is not inductive: it needs to know where *)
(* every token comes from (Provenance), that nobody presents a token that  *)
(* does not exist yet (PresentedExist), and that a rotated token is no     *)
(* longer current anywhere (OldTokensAreDead).                             *)
(***************************************************************************)
EXTENDS Sessions, TLAPS

\* What a call in progress knows about its session.
CallsKnow ==
    /\ \A c \in Refreshes : rpc[c] \notin {"idle", "failed"} =>
          rses[c] \in Sessions /\ rin[c] \in Tokens /\ status[rses[c]] # "ABSENT"
    /\ \A k \in Checks : kpc[k] # "idle" =>
          kses[k] \in Sessions /\ status[kses[k]] # "ABSENT"
    /\ \A v \in Revokers : vpc[v] # "idle" =>
          vses[v] \in Sessions /\ status[vses[v]] # "ABSENT"

\* A stored token is the session's first one or that of a rotation of it.
Provenance ==
    /\ \A s \in Sessions : \A x \in {current[s], previous[s]} :
          \/ x = None
          \/ x = s
          \/ x \in Rotated /\ rses[x] = s
    /\ \A s \in Sessions : status[s] = "ABSENT" => current[s] = None /\ previous[s] = None

\* A token that reached a client, or was presented, has been generated.
Generated(x) ==
    \/ x \in Sessions /\ status[x] # "ABSENT"
    \/ x \in Refreshes /\ rpc[x] = "rotated"

PresentedExist ==
    /\ \A x \in delivered : Generated(x)
    /\ \A c \in Refreshes : rin[c] # None => Generated(rin[c])

IndInv == TypeOK /\ CallsKnow /\ Provenance /\ PresentedExist
          /\ OldTokensAreDead /\ OneRotationPerToken /\ RevocationsStick

\* The invariant holds before the first login.
LEMMA InitInd == Init => IndInv
<1> SUFFICES ASSUME Init PROVE IndInv
  OBVIOUS
<1>1. TypeOK
  BY SessionAssumption DEF Init, TypeOK, Times, RefreshStates, Tokens
<1>2. QED
  BY <1>1, SessionAssumption DEF Init, IndInv, CallsKnow, Provenance, PresentedExist, OldTokensAreDead,
     OneRotationPerToken, RevocationsStick, Rotated, Generated

\* Ending a session keeps every row well typed.
LEMMA CloseTyped ==
  ASSUME TypeOK, NEW s \in Sessions, NEW to \in {"EXPIRED", "REVOKED"}, Close(s, to)
  PROVE  /\ status' \in [Sessions -> {"ABSENT", "ACTIVE", "EXPIRED", "REVOKED"}]
         /\ device' \in [Sessions -> Devices \cup {None}]
         /\ current' \in [Sessions -> Tokens \cup {None}]
         /\ previous' \in [Sessions -> Tokens \cup {None}]
         /\ expiresAt' \in [Sessions -> 0 .. MaxTime + Ttl]
BY DEF TypeOK, Close

\* Every step keeps the rows and the calls well typed.
LEMMA StepTyped == TypeOK /\ CallsKnow /\ [Next]_vars => TypeOK'
<1> SUFFICES ASSUME TypeOK, CallsKnow, [Next]_vars PROVE TypeOK'
  OBVIOUS
<1> USE SessionAssumption
<1>1. ASSUME NEW s \in Sessions, NEW d \in Devices, IssueSession(s, d) PROVE TypeOK'
  BY <1>1 DEF IssueSession, TypeOK, Tokens, Times, refreshVars, checkVars, revokeVars
<1>2. ASSUME NEW c \in Refreshes, NEW token \in Tokens, NEW d \in Devices, Refresh(c, token, d)
      PROVE TypeOK'
  <2>1. rpc' \in [Refreshes -> RefreshStates]
    BY <1>2 DEF Refresh, MoveRefresh, Verdict, TypeOK, RefreshStates
  <2>2. QED
    BY <1>2, <2>1 DEF Refresh, MoveRefresh, Owners, TypeOK, rowVars, checkVars, revokeVars
<1>3. ASSUME NEW c \in Refreshes, rotateRefreshToken(c) PROVE TypeOK'
  <2>1. rses[c] \in Sessions /\ rin[c] \in Tokens
    BY <1>3 DEF rotateRefreshToken, MoveRefresh, CallsKnow
  <2>2. now + Ttl \in 0 .. MaxTime + Ttl
    BY DEF TypeOK, Times
  <2>3. QED
    BY <1>3, <2>1, <2>2 DEF rotateRefreshToken, MoveRefresh, TypeOK, RefreshStates, Tokens, rowVars,
       checkVars, revokeVars
<1>4. ASSUME NEW c \in Refreshes, DetectReplay(c) PROVE TypeOK'
  <2>1. rses[c] \in Sessions
    BY <1>4 DEF DetectReplay, MoveRefresh, CallsKnow
  <2>2. QED
    BY <1>4, <2>1, CloseTyped DEF DetectReplay, MoveRefresh, revokeForReplay, TypeOK, RefreshStates,
       rowVars, checkVars, revokeVars
<1>5. ASSUME NEW c \in Refreshes, ExpireOnRefresh(c) PROVE TypeOK'
  <2>1. rses[c] \in Sessions
    BY <1>5 DEF ExpireOnRefresh, MoveRefresh, CallsKnow
  <2>2. QED
    BY <1>5, <2>1, CloseTyped DEF ExpireOnRefresh, MoveRefresh, markExpired, TypeOK, RefreshStates,
       rowVars, checkVars, revokeVars
<1>6. ASSUME NEW c \in Refreshes, RespondRefresh(c) \/ AbandonRefresh(c) PROVE TypeOK'
  BY <1>6 DEF RespondRefresh, AbandonRefresh, MoveRefresh, TypeOK, RefreshStates, Tokens,
     rowVars, checkVars, revokeVars
<1>7. ASSUME NEW k \in Checks, NEW s \in Sessions, assertSessionUsable(k, s) PROVE TypeOK'
  BY <1>7 DEF assertSessionUsable, TypeOK, rowVars, refreshVars, revokeVars
<1>8. ASSUME NEW k \in Checks, ExpireOnCheck(k) PROVE TypeOK'
  <2>1. kses[k] \in Sessions
    BY <1>8 DEF ExpireOnCheck, CallsKnow
  <2>2. QED
    BY <1>8, <2>1, CloseTyped DEF ExpireOnCheck, markExpired, TypeOK, rowVars, refreshVars, revokeVars
<1>9. ASSUME NEW v \in Revokers, NEW s \in Sessions, ReadForRevocation(v, s) PROVE TypeOK'
  BY <1>9 DEF ReadForRevocation, TypeOK, rowVars, refreshVars, checkVars
<1>10. ASSUME NEW v \in Revokers, revokeSession(v) PROVE TypeOK'
  <2>1. vses[v] \in Sessions
    BY <1>10 DEF revokeSession, CallsKnow
  <2>2. QED
    BY <1>10, <2>1, CloseTyped DEF revokeSession, TypeOK, refreshVars, checkVars
<1>11. CASE setActive
  <2>1. userActive' \in BOOLEAN
    BY <1>11, Zenon DEF setActive
  <2>2. QED
    BY <1>11, <2>1 DEF setActive, TypeOK, rowVars, refreshVars, checkVars, revokeVars
<1>12. CASE Tick \/ UNCHANGED vars
  BY <1>12 DEF Tick, TypeOK, Times, vars, rowVars, refreshVars, checkVars, revokeVars
<1>13. QED
  BY <1>1, <1>2, <1>3, <1>4, <1>5, <1>6, <1>7, <1>8, <1>9, <1>10, <1>11, <1>12 DEF Next

\* Every step keeps the invariant: one case per action, one step per conjunct.
LEMMA StepInd == IndInv /\ [Next]_vars => IndInv'
<1> SUFFICES ASSUME IndInv, [Next]_vars PROVE IndInv'
  OBVIOUS
<1> USE SessionAssumption DEF IndInv
<1>0. TypeOK'
  BY StepTyped
<1> DEFINE Goal == /\ CallsKnow' /\ Provenance' /\ PresentedExist'
                   /\ OldTokensAreDead' /\ OneRotationPerToken' /\ RevocationsStick'
<1>1. ASSUME NEW s \in Sessions, NEW d \in Devices, IssueSession(s, d) PROVE Goal
  <2> USE <1>0, <1>1 DEF IssueSession, refreshVars, checkVars, revokeVars
  <2>1. CallsKnow'
    BY DEF CallsKnow, TypeOK
  <2>2. Provenance'
    BY DEF CallsKnow, Provenance, TypeOK, Rotated, Tokens
  <2>3. PresentedExist'
    BY DEF CallsKnow, PresentedExist, Generated, TypeOK, Tokens
  <2>4. OldTokensAreDead'
    BY DEF CallsKnow, Provenance, PresentedExist, Generated, OldTokensAreDead, TypeOK, Rotated, Tokens
  <2>5. OneRotationPerToken'
    BY DEF CallsKnow, OldTokensAreDead, OneRotationPerToken, TypeOK, Rotated
  <2>6. RevocationsStick'
    BY DEF CallsKnow, RevocationsStick, TypeOK
  <2>7. QED
    BY <2>1, <2>2, <2>3, <2>4, <2>5, <2>6
<1>2. ASSUME NEW c \in Refreshes, NEW token \in Tokens, NEW d \in Devices, Refresh(c, token, d) PROVE Goal
  <2> USE <1>0, <1>2 DEF Refresh, MoveRefresh, Owners, Verdict, rowVars, checkVars, revokeVars
  <2>1. CallsKnow'
    BY DEF CallsKnow, Provenance, Tokens, TypeOK, Rotated, RefreshStates
  <2>2. Provenance'
    BY DEF CallsKnow, Provenance, TypeOK, Rotated, Tokens
  <2>3. PresentedExist'
    BY DEF CallsKnow, PresentedExist, Generated, TypeOK, Tokens
  <2>4. OldTokensAreDead'
    BY DEF CallsKnow, Provenance, PresentedExist, Generated, OldTokensAreDead, TypeOK, Rotated, Tokens
  <2>5. OneRotationPerToken'
    BY DEF CallsKnow, OldTokensAreDead, OneRotationPerToken, TypeOK, Rotated
  <2>6. RevocationsStick'
    BY DEF CallsKnow, RevocationsStick, TypeOK
  <2>7. QED
    BY <2>1, <2>2, <2>3, <2>4, <2>5, <2>6
<1>3. ASSUME NEW c \in Refreshes, rotateRefreshToken(c) PROVE Goal
  <2> USE <1>0, <1>3 DEF rotateRefreshToken, MayRotate, MoveRefresh, rowVars, checkVars, revokeVars
  <2>1. CallsKnow'
    BY DEF CallsKnow, TypeOK
  <2>2. Provenance'
    BY DEF CallsKnow, Provenance, TypeOK, Rotated, Tokens
  <2>3. PresentedExist'
    BY DEF CallsKnow, PresentedExist, Generated, TypeOK, Tokens
  <2>4. OldTokensAreDead'
    BY DEF CallsKnow, Provenance, PresentedExist, Generated, OldTokensAreDead, TypeOK, Rotated, Tokens
  <2>5. OneRotationPerToken'
    BY DEF CallsKnow, OldTokensAreDead, OneRotationPerToken, TypeOK, Rotated
  <2>6. RevocationsStick'
    BY DEF CallsKnow, RevocationsStick, TypeOK
  <2>7. QED
    BY <2>1, <2>2, <2>3, <2>4, <2>5, <2>6
<1>4. ASSUME NEW c \in Refreshes, DetectReplay(c) PROVE Goal
  <2> USE <1>0, <1>4 DEF DetectReplay, revokeForReplay, Close, MoveRefresh, rowVars, checkVars, revokeVars
  <2>1. CallsKnow'
    BY DEF CallsKnow, TypeOK
  <2>2. Provenance'
    BY DEF CallsKnow, Provenance, TypeOK, Rotated, Tokens
  <2>3. PresentedExist'
    BY DEF CallsKnow, PresentedExist, Generated, TypeOK, Tokens
  <2>4. OldTokensAreDead'
    BY DEF CallsKnow, Provenance, PresentedExist, Generated, OldTokensAreDead, TypeOK, Rotated, Tokens
  <2>5. OneRotationPerToken'
    BY DEF CallsKnow, OldTokensAreDead, OneRotationPerToken, TypeOK, Rotated
  <2>6. RevocationsStick'
    BY DEF CallsKnow, RevocationsStick, TypeOK
  <2>7. QED
    BY <2>1, <2>2, <2>3, <2>4, <2>5, <2>6
<1>5. ASSUME NEW c \in Refreshes, ExpireOnRefresh(c) PROVE Goal
  <2> USE <1>0, <1>5 DEF ExpireOnRefresh, markExpired, Close, MoveRefresh, rowVars, checkVars, revokeVars
  <2>1. CallsKnow'
    BY DEF CallsKnow, TypeOK
  <2>2. Provenance'
    BY DEF CallsKnow, Provenance, TypeOK, Rotated, Tokens
  <2>3. PresentedExist'
    BY DEF CallsKnow, PresentedExist, Generated, TypeOK, Tokens
  <2>4. OldTokensAreDead'
    BY DEF CallsKnow, Provenance, PresentedExist, Generated, OldTokensAreDead, TypeOK, Rotated, Tokens
  <2>5. OneRotationPerToken'
    BY DEF CallsKnow, OldTokensAreDead, OneRotationPerToken, TypeOK, Rotated
  <2>6. RevocationsStick'
    BY DEF CallsKnow, RevocationsStick, TypeOK
  <2>7. QED
    BY <2>1, <2>2, <2>3, <2>4, <2>5, <2>6
<1>6. ASSUME NEW c \in Refreshes, RespondRefresh(c) PROVE Goal
  <2> USE <1>0, <1>6 DEF RespondRefresh, MoveRefresh, rowVars, checkVars, revokeVars
  <2>1. CallsKnow'
    BY DEF CallsKnow, TypeOK
  <2>2. Provenance'
    BY DEF CallsKnow, Provenance, TypeOK, Rotated, Tokens
  <2>3. PresentedExist'
    BY DEF CallsKnow, PresentedExist, Generated, TypeOK, Tokens
  <2>4. OldTokensAreDead'
    BY DEF CallsKnow, Provenance, PresentedExist, Generated, OldTokensAreDead, TypeOK, Rotated, Tokens
  <2>5. OneRotationPerToken'
    BY DEF CallsKnow, OldTokensAreDead, OneRotationPerToken, TypeOK, Rotated
  <2>6. RevocationsStick'
    BY DEF CallsKnow, RevocationsStick, TypeOK
  <2>7. QED
    BY <2>1, <2>2, <2>3, <2>4, <2>5, <2>6
<1>7. ASSUME NEW c \in Refreshes, AbandonRefresh(c) PROVE Goal
  <2> USE <1>0, <1>7 DEF AbandonRefresh, MoveRefresh, rowVars, checkVars, revokeVars
  <2>1. CallsKnow'
    BY DEF CallsKnow, TypeOK
  <2>2. Provenance'
    BY DEF CallsKnow, Provenance, TypeOK, Rotated, Tokens
  <2>3. PresentedExist'
    BY DEF CallsKnow, PresentedExist, Generated, TypeOK, Tokens
  <2>4. OldTokensAreDead'
    BY DEF CallsKnow, Provenance, PresentedExist, Generated, OldTokensAreDead, TypeOK, Rotated, Tokens
  <2>5. OneRotationPerToken'
    BY DEF CallsKnow, OldTokensAreDead, OneRotationPerToken, TypeOK, Rotated
  <2>6. RevocationsStick'
    BY DEF CallsKnow, RevocationsStick, TypeOK
  <2>7. QED
    BY <2>1, <2>2, <2>3, <2>4, <2>5, <2>6
<1>8. ASSUME NEW k \in Checks, NEW s \in Sessions, assertSessionUsable(k, s) PROVE Goal
  <2> USE <1>0, <1>8 DEF assertSessionUsable, rowVars, refreshVars, revokeVars
  <2>1. CallsKnow'
    BY DEF CallsKnow, TypeOK
  <2>2. Provenance'
    BY DEF CallsKnow, Provenance, TypeOK, Rotated, Tokens
  <2>3. PresentedExist'
    BY DEF CallsKnow, PresentedExist, Generated, TypeOK, Tokens
  <2>4. OldTokensAreDead'
    BY DEF CallsKnow, Provenance, PresentedExist, Generated, OldTokensAreDead, TypeOK, Rotated, Tokens
  <2>5. OneRotationPerToken'
    BY DEF CallsKnow, OldTokensAreDead, OneRotationPerToken, TypeOK, Rotated
  <2>6. RevocationsStick'
    BY DEF CallsKnow, RevocationsStick, TypeOK
  <2>7. QED
    BY <2>1, <2>2, <2>3, <2>4, <2>5, <2>6
<1>9. ASSUME NEW k \in Checks, ExpireOnCheck(k) PROVE Goal
  <2> USE <1>0, <1>9 DEF ExpireOnCheck, markExpired, Close, rowVars, refreshVars, revokeVars
  <2>1. CallsKnow'
    BY DEF CallsKnow, TypeOK
  <2>2. Provenance'
    BY DEF CallsKnow, Provenance, TypeOK, Rotated, Tokens
  <2>3. PresentedExist'
    BY DEF CallsKnow, PresentedExist, Generated, TypeOK, Tokens
  <2>4. OldTokensAreDead'
    BY DEF CallsKnow, Provenance, PresentedExist, Generated, OldTokensAreDead, TypeOK, Rotated, Tokens
  <2>5. OneRotationPerToken'
    BY DEF CallsKnow, OldTokensAreDead, OneRotationPerToken, TypeOK, Rotated
  <2>6. RevocationsStick'
    BY DEF CallsKnow, RevocationsStick, TypeOK
  <2>7. QED
    BY <2>1, <2>2, <2>3, <2>4, <2>5, <2>6
<1>10. ASSUME NEW v \in Revokers, NEW s \in Sessions, ReadForRevocation(v, s) PROVE Goal
  <2> USE <1>0, <1>10 DEF ReadForRevocation, rowVars, refreshVars, checkVars
  <2>1. CallsKnow'
    BY DEF CallsKnow, TypeOK
  <2>2. Provenance'
    BY DEF CallsKnow, Provenance, TypeOK, Rotated, Tokens
  <2>3. PresentedExist'
    BY DEF CallsKnow, PresentedExist, Generated, TypeOK, Tokens
  <2>4. OldTokensAreDead'
    BY DEF CallsKnow, Provenance, PresentedExist, Generated, OldTokensAreDead, TypeOK, Rotated, Tokens
  <2>5. OneRotationPerToken'
    BY DEF CallsKnow, OldTokensAreDead, OneRotationPerToken, TypeOK, Rotated
  <2>6. RevocationsStick'
    BY DEF CallsKnow, RevocationsStick, TypeOK
  <2>7. QED
    BY <2>1, <2>2, <2>3, <2>4, <2>5, <2>6
<1>11. ASSUME NEW v \in Revokers, revokeSession(v) PROVE Goal
  <2> USE <1>0, <1>11 DEF revokeSession, Close, refreshVars, checkVars
  <2>1. CallsKnow'
    BY DEF CallsKnow, TypeOK
  <2>2. Provenance'
    BY DEF CallsKnow, Provenance, TypeOK, Rotated, Tokens
  <2>3. PresentedExist'
    BY DEF CallsKnow, PresentedExist, Generated, TypeOK, Tokens
  <2>4. OldTokensAreDead'
    BY DEF CallsKnow, Provenance, PresentedExist, Generated, OldTokensAreDead, TypeOK, Rotated, Tokens
  <2>5. OneRotationPerToken'
    BY DEF CallsKnow, OldTokensAreDead, OneRotationPerToken, TypeOK, Rotated
  <2>6. RevocationsStick'
    BY DEF CallsKnow, RevocationsStick, TypeOK
  <2>7. QED
    BY <2>1, <2>2, <2>3, <2>4, <2>5, <2>6
<1>12. CASE setActive \/ Tick \/ UNCHANGED vars
  <2>1. UNCHANGED <<status, current, previous, delivered, rpc, rin, rses, kpc, kses, vpc, vses>>
    BY <1>12 DEF setActive, Tick, vars, rowVars, refreshVars, checkVars, revokeVars
  <2>2. Rotated' = Rotated
    BY <2>1 DEF Rotated
  <2>3. CallsKnow' /\ RevocationsStick'
    BY <2>1 DEF CallsKnow, RevocationsStick
  <2>4. Provenance' /\ PresentedExist'
    BY <2>1, <2>2 DEF Provenance, PresentedExist, Generated
  <2>5. OldTokensAreDead' /\ OneRotationPerToken'
    BY <2>1, <2>2 DEF OldTokensAreDead, OneRotationPerToken
  <2>6. QED
    BY <1>0, <2>3, <2>4, <2>5
<1>13. QED
  BY <1>0, <1>1, <1>2, <1>3, <1>4, <1>5, <1>6, <1>7, <1>8, <1>9, <1>10, <1>11, <1>12 DEF Next

\* The inductive invariant holds in every reachable state.
THEOREM Invariance == Spec => []IndInv
  BY InitInd, StepInd, PTL DEF Spec

\* Every reachable state is well typed: what a session stores and a call holds
\* are tokens and sessions, and no expiry is later than MaxTime + Ttl.
THEOREM TypesHold == Spec => []TypeOK
<1>1. IndInv => TypeOK
  BY DEF IndInv
<1>2. QED
  BY <1>1, Invariance, PTL

\* No refresh token is ever rotated twice, whatever runs at the same time.
THEOREM TokenRotatesOnce == Spec => []OneRotationPerToken
<1>1. IndInv => OneRotationPerToken
  BY DEF IndInv
<1>2. QED
  BY <1>1, Invariance, PTL

\* A reported replay and a confirmed revocation leave the session REVOKED.
THEOREM RevocationIsFinal == Spec => []RevocationsStick
<1>1. IndInv => RevocationsStick
  BY DEF IndInv
<1>2. QED
  BY <1>1, Invariance, PTL

\* A token that was rotated is current for no session, and previous only for
\* the session and the rotation that replaced it.
THEOREM RotatedTokensAreDead == Spec => []OldTokensAreDead
<1>1. IndInv => OldTokensAreDead
  BY DEF IndInv
<1>2. QED
  BY <1>1, Invariance, PTL

\* What a step may do to the status of a session that has ended.
Ended ==
    \A s \in Sessions :
        /\ status[s] = "EXPIRED" => status'[s] \in {"EXPIRED", "REVOKED"}
        /\ status[s] = "REVOKED" => status'[s] = "REVOKED"

\* No step takes a session out of an ended status.
LEMMA StepEnded == TypeOK /\ CallsKnow /\ [Next]_vars => Ended
<1> SUFFICES ASSUME TypeOK, CallsKnow, [Next]_vars PROVE Ended
  OBVIOUS
<1>1. ASSUME NEW s \in Sessions, NEW d \in Devices, IssueSession(s, d) PROVE Ended
  BY <1>1 DEF IssueSession, Ended, CallsKnow, TypeOK
<1>2. ASSUME NEW c \in Refreshes, DetectReplay(c) PROVE Ended
  BY <1>2 DEF DetectReplay, revokeForReplay, Close, MoveRefresh, rowVars, Ended, CallsKnow, TypeOK
<1>3. ASSUME NEW c \in Refreshes, ExpireOnRefresh(c) PROVE Ended
  BY <1>3 DEF ExpireOnRefresh, markExpired, Close, MoveRefresh, rowVars, Ended, CallsKnow, TypeOK
<1>4. ASSUME NEW k \in Checks, ExpireOnCheck(k) PROVE Ended
  BY <1>4 DEF ExpireOnCheck, markExpired, Close, rowVars, Ended, CallsKnow, TypeOK
<1>5. ASSUME NEW v \in Revokers, revokeSession(v) PROVE Ended
  BY <1>5 DEF revokeSession, Close, Ended, CallsKnow, TypeOK
<1>6. ASSUME UNCHANGED status PROVE Ended
  BY <1>6 DEF Ended
<1>7. QED
  BY <1>1, <1>2, <1>3, <1>4, <1>5, <1>6 DEF Next, Refresh, rotateRefreshToken, RespondRefresh,
     AbandonRefresh, assertSessionUsable, ReadForRevocation, setActive, Tick, vars, rowVars

\* No step reopens a session that has ended, or forgets that it was revoked.
THEOREM EndedSessionsStayEnded == Spec => EndedStaysEnded
<1>1. IndInv /\ [Next]_vars => [Ended]_vars
  BY StepEnded DEF IndInv
<1>2. QED
  BY <1>1, Invariance, PTL DEF Spec, EndedStaysEnded, Ended
=============================================================================
