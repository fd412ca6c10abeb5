-------------------------- MODULE LiveSessionProofs --------------------------
(***************************************************************************)
(* What holds of LiveSession for every number of sessions and clients.     *)
(***************************************************************************)
EXTENDS LiveSession, TLAPS

\* The actions of Next, one disjunct each, as the proofs below split them.
Steps ==
  \/ \E s \in Sessions :
       \/ StartSpecSession(s) \/ Create(s) \/ End(s)
       \/ ClaimExpires(s) \/ TokenExpires(s) \/ Age(s)
  \/ StopSpecSession
  \/ EndStaleSessions
  \/ \E c \in Clients :
       \/ \E s \in Sessions, presented \in BOOLEAN : Ask(c, s, presented)
       \/ Claim(c) \/ Compare(c) \/ GateFails(c) \/ MarkLive(c)
       \/ PublishHookFails(c)
       \/ Leave(c) \/ ReadClaim(c) \/ ReleaseClaim(c) \/ EndByChannel(c)
       \/ UnpublishHookFails(c)

\* Every step is one of Steps.
LEMMA NextIsSteps == Next => Steps
  BY DEF Next, Steps, Host, Time, Publish, Unpublish

\* Every step keeps the types of the variables.
LEMMA TypeStep == TypeOK /\ [Next]_vars => TypeOK'
<1> SUFFICES ASSUME TypeOK, [Next]_vars PROVE TypeOK'
  OBVIOUS
<1> USE DEF TypeOK, row, client, history
<1>1. CASE UNCHANGED vars
  BY <1>1 DEF vars
<1>2. ASSUME NEW s \in Sessions,
             \/ StartSpecSession(s) \/ Create(s) \/ End(s)
             \/ ClaimExpires(s) \/ TokenExpires(s) \/ Age(s)
      PROVE  TypeOK'
  <2>1. CASE StartSpecSession(s)
    <3>1. TakenOffline(Sessions) \in [Sessions -> Statuses]
      BY DEF TakenOffline, Statuses
    <3>2. Revoked(Sessions) \in [Sessions -> {"none", "valid", "expired"}]
      BY DEF Revoked
    <3> QED
      BY <2>1, <3>1, <3>2 DEF StartSpecSession, Statuses
  <2>2. CASE Create(s) \/ End(s)
    BY <2>2 DEF Create, End, Statuses
  <2>3. CASE ClaimExpires(s) \/ TokenExpires(s) \/ Age(s)
    BY <2>3 DEF ClaimExpires, TokenExpires, Age
  <2> QED
    BY <1>2, <2>1, <2>2, <2>3
<1>3. CASE StopSpecSession \/ EndStaleSessions
  BY <1>3 DEF StopSpecSession, EndStaleSessions, TakeOffline, TakenOffline,
              Revoked, Statuses
<1>4. ASSUME NEW c \in Clients, NEW s \in Sessions, NEW presented \in BOOLEAN,
             Ask(c, s, presented)
      PROVE  TypeOK'
  BY <1>4 DEF Ask, Pass, Deny, Places
<1>5. ASSUME NEW c \in Clients,
             \/ Claim(c) \/ Compare(c) \/ GateFails(c) \/ MarkLive(c)
             \/ PublishHookFails(c)
      PROVE  TypeOK'
  BY <1>5 DEF Claim, Compare, GateFails, MarkLive, PublishHookFails, Pass, Deny,
              Places, Statuses
<1>6. ASSUME NEW c \in Clients,
             \/ Leave(c) \/ ReadClaim(c) \/ ReleaseClaim(c) \/ EndByChannel(c)
             \/ UnpublishHookFails(c)
      PROVE  TypeOK'
  BY <1>6 DEF Leave, ReadClaim, ReleaseClaim, EndByChannel, UnpublishHookFails,
              Pass, Places, TakeOffline, TakenOffline, Revoked, Statuses
<1> QED
  BY <1>1, <1>2, <1>3, <1>4, <1>5, <1>6, NextIsSteps DEF Steps

\* The type invariant: rows, tokens, claims and webhooks keep to their values.
THEOREM Typing == Spec => []TypeOK
<1>1. Init => TypeOK
  BY DEF Init, TypeOK, Statuses, Places
<1> QED
  BY <1>1, TypeStep, PTL DEF Spec

------------------------------------------------------------------------------
\* No step opens a row that was closed.
LEMMA ClosedStep ==
  TypeOK /\ [Next]_vars =>
    \A s \in Sessions :
      status[s] \in {"offline", "ended"} => status'[s] \in {"offline", "ended"}
<1> SUFFICES ASSUME TypeOK, [Next]_vars, NEW r \in Sessions,
                    status[r] \in {"offline", "ended"}
             PROVE  status'[r] \in {"offline", "ended"}
  OBVIOUS
<1> USE DEF TypeOK, row, client, history
<1>1. CASE UNCHANGED vars
  BY <1>1 DEF vars
<1>2. ASSUME NEW s \in Sessions,
             \/ StartSpecSession(s) \/ Create(s) \/ End(s)
             \/ ClaimExpires(s) \/ TokenExpires(s) \/ Age(s)
      PROVE  status'[r] \in {"offline", "ended"}
  BY <1>2 DEF StartSpecSession, Create, End, ClaimExpires, TokenExpires, Age,
              TakenOffline
<1>3. CASE StopSpecSession \/ EndStaleSessions
  BY <1>3 DEF StopSpecSession, EndStaleSessions, TakeOffline, TakenOffline
<1>4. ASSUME NEW c \in Clients, NEW s \in Sessions, NEW presented \in BOOLEAN,
             Ask(c, s, presented)
      PROVE  status'[r] \in {"offline", "ended"}
  BY <1>4 DEF Ask
<1>5. ASSUME NEW c \in Clients,
             \/ Claim(c) \/ Compare(c) \/ GateFails(c) \/ MarkLive(c)
             \/ PublishHookFails(c)
      PROVE  status'[r] \in {"offline", "ended"}
  BY <1>5 DEF Claim, Compare, GateFails, MarkLive, PublishHookFails, Markable,
              Open
<1>6. ASSUME NEW c \in Clients,
             \/ Leave(c) \/ ReadClaim(c) \/ ReleaseClaim(c) \/ EndByChannel(c)
             \/ UnpublishHookFails(c)
      PROVE  status'[r] \in {"offline", "ended"}
  BY <1>6 DEF Leave, ReadClaim, ReleaseClaim, EndByChannel, UnpublishHookFails,
              TakeOffline, TakenOffline
<1> QED
  BY <1>1, <1>2, <1>3, <1>4, <1>5, <1>6, NextIsSteps DEF Steps

\* A closed session is never open again, whatever webhooks are under way.
THEOREM NoReopening == Spec => ClosedStaysClosed
<1>1. TypeOK /\ [Next]_vars =>
        [\A s \in Sessions : status[s] \in {"offline", "ended"} =>
                             status'[s] \in {"offline", "ended"}]_vars
  BY ClosedStep
<1> QED
  BY <1>1, Typing, PTL DEF Spec, ClosedStaysClosed

------------------------------------------------------------------------------
\* A client between the token's check and the UPDATE.
Passing(c) == at[c] \in {"gate", "compare", "mark"}

\* Why LiveWasProven is inductive: an open guarded row has its token, so that
\* who passes the check while the row is open has presented it, and a row that
\* was closed at the check is never open again.
OnAirInv ==
  /\ TypeOK
  /\ \A s \in Guarded : Open(s) => token[s] # "none"
  /\ \A c \in Clients :
       Passing(c) =>
         /\ status[key[c]] # "none"
         /\ key[c] \in Guarded /\ Open(key[c]) => key[c] \in proven
  /\ LiveWasProven

\* Every step keeps OnAirInv.
LEMMA OnAirStep == OnAirInv /\ [Next]_vars => OnAirInv'
<1> SUFFICES ASSUME OnAirInv, [Next]_vars PROVE OnAirInv'
  OBVIOUS
<1>0. TypeOK'
  BY TypeStep DEF OnAirInv
<1> USE LiveSessionAssumption, <1>0
    DEF OnAirInv, TypeOK, row, client, history, LiveWasProven, Open, Passing
<1>1. CASE UNCHANGED vars
  BY <1>1 DEF vars
<1>2. ASSUME NEW s \in Sessions, StartSpecSession(s)
      PROVE  OnAirInv'
  BY <1>2 DEF StartSpecSession, TakenOffline, Revoked
<1>3. ASSUME NEW s \in Sessions,
             \/ Create(s) \/ End(s)
             \/ ClaimExpires(s) \/ TokenExpires(s) \/ Age(s)
      PROVE  OnAirInv'
  BY <1>3 DEF Create, End, ClaimExpires, TokenExpires, Age
<1>4. CASE StopSpecSession \/ EndStaleSessions
  BY <1>4 DEF StopSpecSession, EndStaleSessions, TakeOffline, TakenOffline,
              Revoked
<1>5. ASSUME NEW c \in Clients, NEW s \in Sessions, NEW presented \in BOOLEAN,
             Ask(c, s, presented)
      PROVE  OnAirInv'
  BY <1>5 DEF Ask, TokenAccepted, Pass, Deny
<1>6. ASSUME NEW c \in Clients,
             Claim(c) \/ Compare(c) \/ GateFails(c) \/ PublishHookFails(c)
      PROVE  OnAirInv'
  BY <1>6 DEF Claim, Compare, GateFails, PublishHookFails, Pass, Deny
<1>7. ASSUME NEW c \in Clients, MarkLive(c)
      PROVE  OnAirInv'
  BY <1>7 DEF MarkLive, Markable, Pass
<1>8. ASSUME NEW c \in Clients,
             Leave(c) \/ ReadClaim(c) \/ ReleaseClaim(c) \/ UnpublishHookFails(c)
      PROVE  OnAirInv'
  BY <1>8 DEF Leave, ReadClaim, ReleaseClaim, UnpublishHookFails, Pass
<1>9. ASSUME NEW c \in Clients, EndByChannel(c)
      PROVE  OnAirInv'
  BY <1>9 DEF EndByChannel, TakeOffline, TakenOffline, Revoked, Pass
<1> QED
  BY <1>1, <1>2, <1>3, <1>4, <1>5, <1>6, <1>7, <1>8, <1>9, NextIsSteps DEF Steps

\* A session made by live/start is on air only after its token was presented.
THEOREM OnAirWasProven == Spec => []LiveWasProven
<1>1. Init => OnAirInv
  BY LiveSessionAssumption
     DEF Init, OnAirInv, TypeOK, Statuses, Places, LiveWasProven, Open, Passing
<1>2. OnAirInv => LiveWasProven
  BY DEF OnAirInv
<1> QED
  BY <1>1, <1>2, OnAirStep, PTL DEF Spec

------------------------------------------------------------------------------
\* Why OnePublisher is inductive: who streams, is about to, or is about to
\* delete the claim is the one the claim names.
GateInv ==
  /\ TypeOK
  /\ \A c \in Clients :
       at[c] \in {"mark", "streaming", "release"} /\ key[c] \notin ungated
         => claim[key[c]] = c

\* Every step keeps GateInv.
LEMMA GateStep == GateInv /\ [Next]_vars => GateInv'
<1> SUFFICES ASSUME GateInv, [Next]_vars PROVE GateInv'
  OBVIOUS
<1>0. TypeOK'
  BY TypeStep DEF GateInv
<1> USE LiveSessionAssumption, <1>0 DEF GateInv, TypeOK, row, client, history
<1>1. CASE UNCHANGED vars
  BY <1>1 DEF vars
<1>2. ASSUME NEW s \in Sessions,
             StartSpecSession(s) \/ Create(s) \/ End(s) \/ TokenExpires(s) \/ Age(s)
      PROVE  GateInv'
  BY <1>2 DEF StartSpecSession, Create, End, TokenExpires, Age
<1>3. ASSUME NEW s \in Sessions, ClaimExpires(s)
      PROVE  GateInv'
  BY <1>3 DEF ClaimExpires
<1>4. CASE StopSpecSession \/ EndStaleSessions
  BY <1>4 DEF StopSpecSession, EndStaleSessions
<1>5. ASSUME NEW c \in Clients, NEW s \in Sessions, NEW presented \in BOOLEAN,
             Ask(c, s, presented)
      PROVE  GateInv'
  BY <1>5 DEF Ask, Pass, Deny
<1>6. ASSUME NEW c \in Clients, Claim(c) \/ Compare(c)
      PROVE  GateInv'
  BY <1>6 DEF Claim, Compare, Pass, Deny
<1>7. ASSUME NEW c \in Clients, GateFails(c) \/ MarkLive(c) \/ PublishHookFails(c)
      PROVE  GateInv'
  BY <1>7 DEF GateFails, MarkLive, PublishHookFails, Pass
<1>8. ASSUME NEW c \in Clients, Leave(c) \/ EndByChannel(c) \/ UnpublishHookFails(c)
      PROVE  GateInv'
  BY <1>8 DEF Leave, EndByChannel, UnpublishHookFails, Pass
<1>9. ASSUME NEW c \in Clients, ReadClaim(c) \/ ReleaseClaim(c)
      PROVE  GateInv'
  BY <1>9 DEF ReadClaim, ReleaseClaim, OwnsClaim, Pass
<1> QED
  BY <1>1, <1>2, <1>3, <1>4, <1>5, <1>6, <1>7, <1>8, <1>9, NextIsSteps DEF Steps

\* One client streams under a key as long as its claim neither timed out nor
\* was passed by.
THEOREM GateAdmitsOne == Spec => []OnePublisher
<1>1. Init => GateInv
  BY DEF Init, GateInv, TypeOK, Statuses, Places
<1>2. GateInv => OnePublisher
  BY DEF GateInv, OnePublisher
<1> QED
  BY <1>1, <1>2, GateStep, PTL DEF Spec
==============================================================================
