---------------------------- MODULE PeopleProofs -----------------------------
(***************************************************************************)
(* Theorems about people, for every value of the constants of Backend:     *)
(* their accounts, Accounts with the parts SignUp and GoogleSignIn; what   *)
(* is decided about them and what they decide, the parts LiveStart, Shops, *)
(* Clips and RoleAudit; what is counted of them; the bans of a chat; and   *)
(* what a replay shows of them, the parts Replay and Placement.            *)
(***************************************************************************)
EXTENDS Backend, FiniteSetTheorems, WellFoundedInduction, Sequences, TLAPS

\* Every step belongs to a call or to the passing of time.
LEMMA NextIsSteps ==
  ASSUME Next
  PROVE  \/ \E c \in Calls :
              \/ BeginLogin(c) \/ BeginGoogleLogin(c) \/ WrongPassword(c)
              \/ LockUntil(c) \/ RightPassword(c) \/ IssueTokenPair(c)
              \/ FindUser(c) \/ RotateToken(c) \/ RevokeFamily(c)
              \/ ForgotPassword(c) \/ BeginReset(c) \/ UpdatePassword(c)
              \/ SweepSessions(c) \/ ResetFails(c) \/ LogoutAll(c)
              \/ \E t \in Calls : BeginRefresh(c, t) \/ Logout(c, t)
              \/ \E r \in Roles : SetRole(c, r)
         \/ \E t \in Calls : TokenExpires(t)
         \/ LockExpires \/ ResetTokenExpires
  BY DEF Next, Login, Refresh, Reset

------------------------------------------------------------------------------
(* Types. *)

\* What a refresh presents is a row of refresh_tokens.
Presented ==
  \A c \in Calls : step[c] \in {"findUser", "rotate", "reuse"} => parent[c] \in issued

Typed == TypeOK /\ Presented

\* Every step keeps the types of the variables.
LEMMA TypeStep == Typed /\ [Next]_vars => Typed'
<1> SUFFICES ASSUME Typed, [Next]_vars PROVE Typed'
  OBVIOUS
<1> USE DEF Typed, Presented, TypeOK, profile, tokens, calls, history, GoTo, Working, Basis, Snapshot
<1>1. CASE UNCHANGED vars
  BY <1>1 DEF vars
<1>2. ASSUME NEW c \in Calls,
             BeginLogin(c) \/ BeginGoogleLogin(c) \/ IssueTokenPair(c)
      PROVE  Typed'
  <2>1. CASE BeginLogin(c)
    <3>1. \E s \in {"done", "compare"} : GoTo(c, s)
      BY <2>1 DEF BeginLogin
    <3>2. UNCHANGED <<profile, tokens, parent, family, history>>
      BY <2>1 DEF BeginLogin
    <3>3. basis' = basis \/ basis' = [basis EXCEPT ![c] = Snapshot]
      BY <2>1 DEF BeginLogin
    <3> QED
      BY <3>1, <3>2, <3>3
  <2>2. CASE BeginGoogleLogin(c)
    BY <2>2 DEF BeginGoogleLogin
  <2>3. CASE IssueTokenPair(c)
    BY <2>3 DEF IssueTokenPair
  <2> QED
    BY <1>2, <2>1, <2>2, <2>3
<1>3. ASSUME NEW c \in Calls, WrongPassword(c) \/ LockUntil(c) \/ RightPassword(c)
      PROVE  Typed'
  <2>1. CASE WrongPassword(c)
    BY <2>1 DEF WrongPassword
  <2>2. CASE LockUntil(c)
    BY <2>2 DEF LockUntil
  <2>3. CASE RightPassword(c)
    <3>1. locked' \in BOOLEAN
      BY <2>3, Zenon DEF RightPassword
    <3> QED
      BY <2>3, <3>1 DEF RightPassword
  <2> QED
    BY <1>3, <2>1, <2>2, <2>3
<1>4. ASSUME NEW c \in Calls, NEW t \in Calls, BeginRefresh(c, t)
      PROVE  Typed'
  BY <1>4 DEF BeginRefresh
<1>5. ASSUME NEW c \in Calls, FindUser(c) \/ RotateToken(c) \/ RevokeFamily(c)
      PROVE  Typed'
  <2>1. CASE FindUser(c)
    BY <2>1 DEF FindUser
  <2>2. CASE RotateToken(c)
    BY <2>2 DEF RotateToken
  <2>3. CASE RevokeFamily(c)
    BY <2>3 DEF RevokeFamily, InFlight
  <2> QED
    BY <1>5, <2>1, <2>2, <2>3
<1>6. ASSUME NEW c \in Calls, ForgotPassword(c) \/ BeginReset(c) \/ UpdatePassword(c)
      PROVE  Typed'
  <2>1. CASE ForgotPassword(c)
    BY <2>1 DEF ForgotPassword
  <2>2. CASE BeginReset(c)
    BY <2>2 DEF BeginReset
  <2>3. CASE UpdatePassword(c)
    <3>1. locked' \in BOOLEAN
      BY <2>3, Zenon DEF UpdatePassword
    <3> QED
      BY <2>3, <3>1 DEF UpdatePassword
  <2> QED
    BY <1>6, <2>1, <2>2, <2>3
<1>7. ASSUME NEW c \in Calls, SweepSessions(c) \/ ResetFails(c) \/ LogoutAll(c)
      PROVE  Typed'
  <2>1. CASE SweepSessions(c)
    BY <2>1 DEF SweepSessions, RevokeAllForUser, InFlight
  <2>2. CASE ResetFails(c)
    <3>1. step[c] \in {"setPassword", "sweep"} /\ GoTo(c, "done")
      BY <2>2 DEF ResetFails
    <3>2. UNCHANGED <<profile, tokens, parent, family, basis, forked, burnt, unlocked>>
      BY <2>2 DEF ResetFails
    <3>3. late' \in SUBSET Calls
      BY <2>2 DEF ResetFails, InFlight
    <3> QED
      BY <3>1, <3>2, <3>3
  <2>3. CASE LogoutAll(c)
    BY <2>3 DEF LogoutAll, RevokeAllForUser, InFlight
  <2> QED
    BY <1>7, <2>1, <2>2, <2>3
<1>8. ASSUME NEW c \in Calls, NEW r \in Roles, SetRole(c, r)
      PROVE  Typed'
  BY <1>8 DEF SetRole, RevokeAllForUser, InFlight
<1>9. ASSUME NEW c \in Calls, NEW t \in Calls, Logout(c, t)
      PROVE  Typed'
  BY <1>9 DEF Logout
<1>10. ASSUME NEW t \in Calls, TokenExpires(t)
       PROVE  Typed'
  BY <1>10 DEF TokenExpires
<1>11. CASE LockExpires \/ ResetTokenExpires
  BY <1>11 DEF LockExpires, ResetTokenExpires
<1> QED
  BY <1>1, <1>2, <1>3, <1>4, <1>5, <1>6, <1>7, <1>8, <1>9, <1>10, <1>11,
     NextIsSteps

\* The initial values have their types.
LEMMA InitTyped == Init => Typed
<1> SUFFICES ASSUME Init PROVE Typed
  OBVIOUS
<1>1. locked \in BOOLEAN /\ unlocked \in BOOLEAN
  BY Zenon DEF Init
<1>2. /\ step \in [Calls -> Working \cup {"idle", "done"}]
      /\ family \in [Calls -> Calls] /\ Presented
  BY DEF Init, Presented
<1>3. basis \in [Calls -> Basis]
  BY DEF Init, Basis
<1> QED
  BY <1>1, <1>2, <1>3 DEF Init, Typed, TypeOK

\* The type invariant: profile, tokens and calls keep to their values, and only
\* rows that exist are revoked.
THEOREM Typing == Spec => []TypeOK
<1>1. Init => Typed
  BY InitTyped
<1>2. Typed => TypeOK
  BY DEF Typed
<1> QED
  BY <1>1, <1>2, TypeStep, PTL DEF Spec

------------------------------------------------------------------------------
(* The inductive invariant.  A pair in the making counts like one that was
   issued: what a call read before is what its token will rest on. *)

\* The usable tokens, and the calls that may still issue one.
Carriers == Live \cup InFlight

\* A token's row is written by the last step of its call.
IssuedAtTheEnd == \A t \in issued : step[t] = "done"

\* The family of a call that has not begun is its own and was never burnt.
FreshFamily ==
  \A c \in Calls : step[c] = "idle" =>
    /\ c \notin burnt
    /\ \A d \in Calls : family[d] = c <=> d = c

\* c is about to rotate the usable token d.
Rotates(c, d) == step[c] \in {"findUser", "rotate"} /\ parent[c] = d /\ d \in Live

\* Two carriers of a family are a token and the refresh that rotates it.
OneCarrier ==
  \A c, d \in Carriers :
    family[c] = family[d] /\ c # d =>
      family[c] \in forked \/ Rotates(c, d) \/ Rotates(d, c)

BurntIsOvertaken == \A c \in Carriers : family[c] \in burnt => c \in late

Sweeping == \E d \in Calls : step[d] = "sweep"

\* What a carrier rests on is the account of now, or a sweep is to come.
RestsOnNow ==
  \A c \in Carriers \ late :
    basis[c].role = role /\ (basis[c].password = password \/ Sweeping)

IInv == Typed /\ IssuedAtTheEnd /\ FreshFamily /\ OneCarrier
          /\ BurntIsOvertaken /\ RestsOnNow

------------------------------------------------------------------------------
\* Rows and families: no step writes a token twice or gives two calls one family.
LEMMA FamilyStep ==
  ASSUME Typed, IssuedAtTheEnd, FreshFamily, [Next]_vars
  PROVE  IssuedAtTheEnd' /\ FreshFamily'
<1> USE DEF Typed, TypeOK, IssuedAtTheEnd, FreshFamily, profile, tokens, calls, history, GoTo
<1>1. CASE UNCHANGED vars
  BY <1>1 DEF vars
<1>2. ASSUME NEW c \in Calls,
             BeginLogin(c) \/ BeginGoogleLogin(c) \/ IssueTokenPair(c)
      PROVE  IssuedAtTheEnd' /\ FreshFamily'
  BY <1>2 DEF BeginLogin, BeginGoogleLogin, IssueTokenPair
<1>3. ASSUME NEW c \in Calls, WrongPassword(c) \/ LockUntil(c) \/ RightPassword(c)
      PROVE  IssuedAtTheEnd' /\ FreshFamily'
  BY <1>3 DEF WrongPassword, LockUntil, RightPassword
<1>4. ASSUME NEW c \in Calls, NEW t \in Calls, BeginRefresh(c, t)
      PROVE  IssuedAtTheEnd' /\ FreshFamily'
  BY <1>4 DEF BeginRefresh
<1>5. ASSUME NEW c \in Calls, FindUser(c) \/ RotateToken(c) \/ RevokeFamily(c)
      PROVE  IssuedAtTheEnd' /\ FreshFamily'
  BY <1>5 DEF FindUser, RotateToken, RevokeFamily
<1>6. ASSUME NEW c \in Calls, ForgotPassword(c) \/ BeginReset(c) \/ UpdatePassword(c)
      PROVE  IssuedAtTheEnd' /\ FreshFamily'
  BY <1>6 DEF ForgotPassword, BeginReset, UpdatePassword
<1>7. ASSUME NEW c \in Calls, SweepSessions(c) \/ ResetFails(c) \/ LogoutAll(c)
      PROVE  IssuedAtTheEnd' /\ FreshFamily'
  BY <1>7 DEF SweepSessions, ResetFails, LogoutAll, RevokeAllForUser
<1>8. ASSUME NEW c \in Calls, NEW r \in Roles, SetRole(c, r)
      PROVE  IssuedAtTheEnd' /\ FreshFamily'
  BY <1>8 DEF SetRole, RevokeAllForUser
<1>9. ASSUME NEW c \in Calls, NEW t \in Calls, Logout(c, t)
      PROVE  IssuedAtTheEnd' /\ FreshFamily'
  BY <1>9 DEF Logout
<1>10. ASSUME NEW t \in Calls, TokenExpires(t)
       PROVE  IssuedAtTheEnd' /\ FreshFamily'
  BY <1>10 DEF TokenExpires
<1>11. CASE LockExpires \/ ResetTokenExpires
  BY <1>11 DEF LockExpires, ResetTokenExpires
<1> QED
  BY <1>1, <1>2, <1>3, <1>4, <1>5, <1>6, <1>7, <1>8, <1>9, <1>10, <1>11,
     NextIsSteps

\* No step adds a carrier to a family, except a refresh beside the token it rotates.
LEMMA OneCarrierStep ==
  ASSUME Typed, IssuedAtTheEnd, FreshFamily, OneCarrier, [Next]_vars
  PROVE  OneCarrier'
<1> USE DEF OneCarrier, Rotates, Typed, Presented, TypeOK, IssuedAtTheEnd, FreshFamily, Carriers, Live, InFlight,
           profile, tokens, calls, history, GoTo
<1>1. CASE UNCHANGED vars
  BY <1>1 DEF vars
<1>2. ASSUME NEW c \in Calls, BeginLogin(c) \/ BeginGoogleLogin(c)
      PROVE  OneCarrier'
  BY <1>2 DEF BeginLogin, BeginGoogleLogin, Snapshot
<1>3. ASSUME NEW c \in Calls, IssueTokenPair(c)
      PROVE  OneCarrier'
  BY <1>3 DEF IssueTokenPair
<1>4. ASSUME NEW c \in Calls, WrongPassword(c) \/ LockUntil(c) \/ RightPassword(c)
      PROVE  OneCarrier'
  BY <1>4 DEF WrongPassword, LockUntil, RightPassword
<1>5. ASSUME NEW c \in Calls, NEW t \in Calls, BeginRefresh(c, t)
      PROVE  OneCarrier'
  BY <1>5 DEF BeginRefresh, TokenUsable
<1>6. ASSUME NEW c \in Calls, FindUser(c)
      PROVE  OneCarrier'
  BY <1>6 DEF FindUser
<1>7. ASSUME NEW c \in Calls, RotateToken(c)
      PROVE  OneCarrier'
  BY <1>7 DEF RotateToken
<1>8. ASSUME NEW c \in Calls, RevokeFamily(c)
      PROVE  OneCarrier'
  BY <1>8 DEF RevokeFamily
<1>9. ASSUME NEW c \in Calls, ForgotPassword(c) \/ BeginReset(c) \/ UpdatePassword(c)
      PROVE  OneCarrier'
  BY <1>9 DEF ForgotPassword, BeginReset, UpdatePassword
<1>10. ASSUME NEW c \in Calls, SweepSessions(c) \/ LogoutAll(c)
       PROVE  OneCarrier'
  BY <1>10 DEF SweepSessions, LogoutAll, RevokeAllForUser
<1>11. ASSUME NEW c \in Calls, ResetFails(c)
       PROVE  OneCarrier'
  BY <1>11 DEF ResetFails
<1>12. ASSUME NEW c \in Calls, NEW r \in Roles, SetRole(c, r)
       PROVE  OneCarrier'
  BY <1>12 DEF SetRole, RevokeAllForUser
<1>13. ASSUME NEW c \in Calls, NEW t \in Calls, Logout(c, t)
       PROVE  OneCarrier'
  BY <1>13 DEF Logout
<1>14. ASSUME NEW t \in Calls, TokenExpires(t)
       PROVE  OneCarrier'
  BY <1>14 DEF TokenExpires
<1>15. CASE LockExpires \/ ResetTokenExpires
  BY <1>15 DEF LockExpires, ResetTokenExpires
<1> QED
  BY <1>1, <1>2, <1>3, <1>4, <1>5, <1>6, <1>7, <1>8,
     <1>9, <1>10, <1>11, <1>12, <1>13, <1>14, <1>15,
     NextIsSteps

\* Whoever carries on in a burnt family was on its way when it was burnt.
LEMMA BurntStep ==
  ASSUME Typed, IssuedAtTheEnd, FreshFamily, BurntIsOvertaken, [Next]_vars
  PROVE  BurntIsOvertaken'
<1> USE DEF BurntIsOvertaken, Typed, Presented, TypeOK, IssuedAtTheEnd, FreshFamily, Carriers, Live, InFlight,
           profile, tokens, calls, history, GoTo
<1>1. CASE UNCHANGED vars
  BY <1>1 DEF vars
<1>2. ASSUME NEW c \in Calls, BeginLogin(c) \/ BeginGoogleLogin(c)
      PROVE  BurntIsOvertaken'
  BY <1>2 DEF BeginLogin, BeginGoogleLogin, Snapshot
<1>3. ASSUME NEW c \in Calls, IssueTokenPair(c)
      PROVE  BurntIsOvertaken'
  BY <1>3 DEF IssueTokenPair
<1>4. ASSUME NEW c \in Calls, WrongPassword(c) \/ LockUntil(c) \/ RightPassword(c)
      PROVE  BurntIsOvertaken'
  BY <1>4 DEF WrongPassword, LockUntil, RightPassword
<1>5. ASSUME NEW c \in Calls, NEW t \in Calls, BeginRefresh(c, t)
      PROVE  BurntIsOvertaken'
  BY <1>5 DEF BeginRefresh, TokenUsable
<1>6. ASSUME NEW c \in Calls, FindUser(c)
      PROVE  BurntIsOvertaken'
  BY <1>6 DEF FindUser
<1>7. ASSUME NEW c \in Calls, RotateToken(c)
      PROVE  BurntIsOvertaken'
  BY <1>7 DEF RotateToken
<1>8. ASSUME NEW c \in Calls, RevokeFamily(c)
      PROVE  BurntIsOvertaken'
  BY <1>8 DEF RevokeFamily
<1>9. ASSUME NEW c \in Calls, ForgotPassword(c) \/ BeginReset(c) \/ UpdatePassword(c)
      PROVE  BurntIsOvertaken'
  BY <1>9 DEF ForgotPassword, BeginReset, UpdatePassword
<1>10. ASSUME NEW c \in Calls, SweepSessions(c) \/ LogoutAll(c)
       PROVE  BurntIsOvertaken'
  BY <1>10 DEF SweepSessions, LogoutAll, RevokeAllForUser
<1>11. ASSUME NEW c \in Calls, ResetFails(c)
       PROVE  BurntIsOvertaken'
  BY <1>11 DEF ResetFails
<1>12. ASSUME NEW c \in Calls, NEW r \in Roles, SetRole(c, r)
       PROVE  BurntIsOvertaken'
  BY <1>12 DEF SetRole, RevokeAllForUser
<1>13. ASSUME NEW c \in Calls, NEW t \in Calls, Logout(c, t)
       PROVE  BurntIsOvertaken'
  BY <1>13 DEF Logout
<1>14. ASSUME NEW t \in Calls, TokenExpires(t)
       PROVE  BurntIsOvertaken'
  BY <1>14 DEF TokenExpires
<1>15. CASE LockExpires \/ ResetTokenExpires
  BY <1>15 DEF LockExpires, ResetTokenExpires
<1> QED
  BY <1>1, <1>2, <1>3, <1>4, <1>5, <1>6, <1>7, <1>8,
     <1>9, <1>10, <1>11, <1>12, <1>13, <1>14, <1>15,
     NextIsSteps

\* A sweep catches all that rests on the account before it.
LEMMA RestsStep ==
  ASSUME Typed, IssuedAtTheEnd, RestsOnNow, [Next]_vars
  PROVE  RestsOnNow'
<1> USE DEF RestsOnNow, Sweeping, Basis, Typed, Presented, TypeOK, IssuedAtTheEnd, FreshFamily, Carriers, Live, InFlight,
           profile, tokens, calls, history, GoTo
<1>1. CASE UNCHANGED vars
  BY <1>1 DEF vars
<1>2. ASSUME NEW c \in Calls, BeginLogin(c) \/ BeginGoogleLogin(c)
      PROVE  RestsOnNow'
  BY <1>2 DEF BeginLogin, BeginGoogleLogin, Snapshot
<1>3. ASSUME NEW c \in Calls, IssueTokenPair(c)
      PROVE  RestsOnNow'
  BY <1>3 DEF IssueTokenPair
<1>4. ASSUME NEW c \in Calls, WrongPassword(c) \/ LockUntil(c) \/ RightPassword(c)
      PROVE  RestsOnNow'
  BY <1>4 DEF WrongPassword, LockUntil, RightPassword
<1>5. ASSUME NEW c \in Calls, NEW t \in Calls, BeginRefresh(c, t)
      PROVE  RestsOnNow'
  BY <1>5 DEF BeginRefresh, TokenUsable
<1>6. ASSUME NEW c \in Calls, FindUser(c)
      PROVE  RestsOnNow'
  BY <1>6 DEF FindUser
<1>7. ASSUME NEW c \in Calls, RotateToken(c)
      PROVE  RestsOnNow'
  BY <1>7 DEF RotateToken
<1>8. ASSUME NEW c \in Calls, RevokeFamily(c)
      PROVE  RestsOnNow'
  BY <1>8 DEF RevokeFamily
<1>9. ASSUME NEW c \in Calls, ForgotPassword(c) \/ BeginReset(c) \/ UpdatePassword(c)
      PROVE  RestsOnNow'
  BY <1>9 DEF ForgotPassword, BeginReset, UpdatePassword
<1>10. ASSUME NEW c \in Calls, SweepSessions(c) \/ LogoutAll(c)
       PROVE  RestsOnNow'
  BY <1>10 DEF SweepSessions, LogoutAll, RevokeAllForUser
<1>11. ASSUME NEW c \in Calls, ResetFails(c)
       PROVE  RestsOnNow'
  BY <1>11 DEF ResetFails
<1>12. ASSUME NEW c \in Calls, NEW r \in Roles, SetRole(c, r)
       PROVE  RestsOnNow'
  BY <1>12 DEF SetRole, RevokeAllForUser
<1>13. ASSUME NEW c \in Calls, NEW t \in Calls, Logout(c, t)
       PROVE  RestsOnNow'
  BY <1>13 DEF Logout
<1>14. ASSUME NEW t \in Calls, TokenExpires(t)
       PROVE  RestsOnNow'
  BY <1>14 DEF TokenExpires
<1>15. CASE LockExpires \/ ResetTokenExpires
  BY <1>15 DEF LockExpires, ResetTokenExpires
<1> QED
  BY <1>1, <1>2, <1>3, <1>4, <1>5, <1>6, <1>7, <1>8,
     <1>9, <1>10, <1>11, <1>12, <1>13, <1>14, <1>15,
     NextIsSteps

------------------------------------------------------------------------------
\* The invariant holds at first and is kept by every step.
LEMMA Inductive == Spec => []IInv
<1>1. Init => Typed
  BY InitTyped
<1>2. Init => IInv
  <2> SUFFICES ASSUME Init PROVE IInv
    OBVIOUS
  <2>1. Carriers = {}
    BY DEF Init, Carriers, Live, InFlight
  <2>2. IssuedAtTheEnd /\ FreshFamily
    BY DEF Init, IssuedAtTheEnd, FreshFamily
  <2> QED
    BY <1>1, <2>1, <2>2 DEF IInv, OneCarrier, BurntIsOvertaken, RestsOnNow
<1>3. IInv /\ [Next]_vars => IInv'
  BY TypeStep, FamilyStep, OneCarrierStep, BurntStep, RestsStep DEF IInv
<1> QED
  BY <1>2, <1>3, PTL DEF Spec

\* Rotation (service.go:377-397): for any number of overlapping logins,
\* refreshes, logouts and resets, a family has one usable token unless a refresh
\* forked it.
THEOREM RotationLeavesOne == Spec => []OneSuccessor
<1>1. IInv => OneSuccessor
  BY DEF IInv, IssuedAtTheEnd, OneCarrier, Rotates, Carriers, Live, OneSuccessor
<1> QED
  BY <1>1, Inductive, PTL

\* Reuse detection, password reset and change of role: what they revoked stays
\* revoked, but for calls that had read before and revocations that were lost.
THEOREM RevocationsHold == Spec => []RevocationHolds
<1>1. IInv => BurntStaysBurnt
  BY DEF IInv, BurntIsOvertaken, Carriers, BurntStaysBurnt
<1>2. IInv => OldSessionsEnd
  BY DEF IInv, RestsOnNow, Sweeping, Carriers, OldSessionsEnd
<1>3. IInv => RevocationHolds
  BY <1>1, <1>2 DEF RevocationHolds
<1> QED
  BY <1>3, Inductive, PTL

\* Each step keeps the lockout: only the failure that reaches the limit goes on to lock,
\* and it stands in between until the lock is set or lost.
LEMMA LockoutStep == ASSUME Typed, LockoutBites, [Next]_vars PROVE LockoutBites'
<1> USE AccountsAssumption
    DEF Typed, TypeOK, LockoutBites, profile, tokens, calls, history, GoTo, RevokeAllForUser
<1>1. CASE UNCHANGED vars
  BY <1>1 DEF vars
<1>2. ASSUME NEW c \in Calls, BeginLogin(c) \/ BeginGoogleLogin(c) \/ IssueTokenPair(c)
      PROVE  LockoutBites'
  BY <1>2 DEF BeginLogin, BeginGoogleLogin, IssueTokenPair
<1>3. ASSUME NEW c \in Calls, WrongPassword(c) \/ LockUntil(c) \/ RightPassword(c)
      PROVE  LockoutBites'
  BY <1>3 DEF WrongPassword, LockUntil, RightPassword
<1>4. ASSUME NEW c \in Calls,
             \/ FindUser(c) \/ RotateToken(c) \/ RevokeFamily(c) \/ ForgotPassword(c)
             \/ BeginReset(c) \/ UpdatePassword(c) \/ SweepSessions(c) \/ ResetFails(c)
             \/ LogoutAll(c)
      PROVE  LockoutBites'
  BY <1>4 DEF FindUser, RotateToken, RevokeFamily, ForgotPassword, BeginReset,
              UpdatePassword, SweepSessions, ResetFails, LogoutAll
<1>5. ASSUME NEW c \in Calls, NEW t \in Calls, BeginRefresh(c, t) \/ Logout(c, t)
      PROVE  LockoutBites'
  BY <1>5 DEF BeginRefresh, Logout
<1>6. ASSUME NEW c \in Calls, NEW r \in Roles, SetRole(c, r)
      PROVE  LockoutBites'
  BY <1>6 DEF SetRole
<1>7. ASSUME (\E t \in Calls : TokenExpires(t)) \/ LockExpires \/ ResetTokenExpires
      PROVE  LockoutBites'
  BY <1>7 DEF TokenExpires, LockExpires, ResetTokenExpires
<1> HIDE DEF Typed, LockoutBites
<1> QED
  BY <1>1, <1>2, <1>3, <1>4, <1>5, <1>6, <1>7, NextIsSteps

\* MaxFailed wrong passwords lock the account, for any number of interleaved attempts.
THEOREM LockoutHolds == Spec => []LockoutBites
<1>1. Init => LockoutBites
  BY AccountsAssumption DEF Init, LockoutBites
<1>2. Typed /\ LockoutBites /\ [Next]_vars => LockoutBites'
  BY LockoutStep
<1>3. Init => Typed
  BY InitTyped
<1> QED
  BY <1>1, <1>2, <1>3, TypeStep, PTL DEF Spec

------------------------------------------------------------------------------
(* Accounts as a part of the backend. *)

\* The part that moves is chosen once.
LEMMA PartStays == ASSUME [BackendNext]_allVars PROVE part' = part
<1>1. CASE BackendNext
  BY <1>1 DEF BackendNext
<1>2. CASE UNCHANGED allVars
  BY <1>2 DEF allVars
<1> QED
  BY <1>1, <1>2

------------------------------------------------------------------------------
(* Sign-in with Google: Google. *)

\* While the part moves, its steps are those of GoogleSignIn.
LEMMA GoogleMove ==
  ASSUME [BackendNext]_allVars, part = "google"
  PROVE  part' = "google" /\ [Google!Next]_googleVars
<1>1. CASE BackendNext
  BY <1>1 DEF BackendNext
<1>2. CASE UNCHANGED allVars
  BY <1>2 DEF allVars, googleVars
<1> QED
  BY <1>1, <1>2

\* A state is consumed by one callback, and only after it was given out.
StatesSpentOnce ==
  /\ \A s \in oauthStarted : oauthStage[s] # "idle"
  /\ states \subseteq oauthStarted /\ oauthStarted \subseteq GoogleCalls
  /\ \A c \in GoogleCalls : origin[c] # NoCall =>
       /\ oauthStage[c] # "idle"
       /\ origin[c] \in oauthStarted \ states
       /\ \A d \in GoogleCalls : origin[d] = origin[c] => c = d

\* A code comes from a callback that has ended, and is gone once it was handed in.
CodesSpentOnce ==
  /\ \A k \in codes : k \in GoogleCalls /\ oauthStage[k] = "done" /\ origin[k] # NoCall
  /\ \A c \in GoogleCalls :
       oauthStage[c] \in {"google", "account", "store"} => origin[c] # NoCall
  /\ \A x \in handed :
       /\ x.code \in GoogleCalls \ codes
       /\ oauthStage[x.code] = "done" /\ origin[x.code] # NoCall
       /\ \A y \in handed : x.code = y.code => x = y

GoogleInv ==
  /\ oauthStage \in [GoogleCalls -> {"idle", "google", "account", "store", "done"}]
  /\ origin \in [GoogleCalls -> GoogleCalls \cup {NoCall}]
  /\ StatesSpentOnce /\ CodesSpentOnce /\ Google!OnePairPerStart

\* Each request of the browser keeps it.
LEMMA GoogleStep == ASSUME GoogleInv, [Google!Next]_googleVars PROVE GoogleInv'
<1> USE BackendAssumption DEF GoogleInv, Google!GoTo
<1>1. ASSUME NEW c \in GoogleCalls, Google!Start(c) PROVE GoogleInv'
  BY <1>1 DEF Google!Start, StatesSpentOnce, CodesSpentOnce, Google!OnePairPerStart
<1>2. ASSUME NEW c \in GoogleCalls, NEW s \in GoogleCalls, Google!ConsumeState(c, s)
      PROVE  GoogleInv'
  <2>1. CASE s \in states
    BY <1>2, <2>1 DEF Google!ConsumeState, StatesSpentOnce, CodesSpentOnce,
                      Google!OnePairPerStart
  <2>2. CASE s \notin states
    BY <1>2, <2>2 DEF Google!ConsumeState, StatesSpentOnce, CodesSpentOnce,
                      Google!OnePairPerStart
  <2> QED
    BY <2>1, <2>2
<1>3. ASSUME NEW c \in GoogleCalls,
             Google!FetchGoogleProfile(c) \/ Google!LoginOrRegister(c)
      PROVE  GoogleInv'
  BY <1>3 DEF Google!FetchGoogleProfile, Google!LoginOrRegister, StatesSpentOnce,
              CodesSpentOnce, Google!OnePairPerStart
<1>4. ASSUME NEW c \in GoogleCalls, Google!StoreOAuthOTC(c) PROVE GoogleInv'
  BY <1>4 DEF Google!StoreOAuthOTC, StatesSpentOnce, CodesSpentOnce, Google!OnePairPerStart
<1>5. ASSUME NEW c \in GoogleCalls, NEW k \in GoogleCalls,
             NEW v \in GoogleCalls \cup {NoCall}, Google!TakeCode(c, k, v)
      PROVE  GoogleInv'
  <2>1. StatesSpentOnce'
    BY <1>5 DEF Google!TakeCode, StatesSpentOnce
  <2>2. CASE ~(k \in codes /\ Google!Verified(k, v))
    BY <1>5, <2>1, <2>2 DEF Google!TakeCode, CodesSpentOnce, Google!OnePairPerStart
  <2>3. CASE k \in codes /\ Google!Verified(k, v)
    <3> DEFINE new == [by |-> c, code |-> k, verifier |-> v]
    <3>1. /\ handed' = handed \cup {new} /\ codes' = codes \ {k}
          /\ oauthStage' = [oauthStage EXCEPT ![c] = "done"] /\ oauthStage[c] = "idle"
          /\ UNCHANGED <<origin, bound>>
      BY <1>5, <2>3 DEF Google!TakeCode
    <3>2. /\ new.code = k /\ new.verifier = v
          /\ \A x \in handed : x.code # k
      BY <2>3 DEF CodesSpentOnce
    <3> HIDE DEF new
    <3>3. CodesSpentOnce'
      BY <2>3, <3>1, <3>2 DEF CodesSpentOnce
    <3>4. \A x \in handed : x.code \in GoogleCalls /\ origin[x.code] # NoCall
      BY DEF CodesSpentOnce
    <3>5. Google!OnePairPerStart'
      BY <2>3, <3>1, <3>2, <3>4
         DEF Google!OnePairPerStart, Google!Verified, StatesSpentOnce, CodesSpentOnce
    <3> QED
      BY <1>5, <2>1, <3>1, <3>3, <3>5
  <2> QED
    BY <2>2, <2>3
<1>6. CASE UNCHANGED googleVars
  BY <1>6 DEF googleVars, StatesSpentOnce, CodesSpentOnce, Google!OnePairPerStart
<1> HIDE DEF GoogleInv
<1> QED
  BY <1>1, <1>2, <1>3, <1>4, <1>5, <1>6
     DEF Google!Next, Google!Callback, Google!GoogleExchange

------------------------------------------------------------------------------
(* Sign-up and the confirmation of an address: SignUp. *)

\* While the part moves, its steps are those of SignUp.
LEMMA SignUpMove ==
  ASSUME [BackendNext]_allVars, part = "signup"
  PROVE  part' = "signup" /\ [SignUp!Next]_signUpVars
<1>1. CASE BackendNext
  BY <1>1 DEF BackendNext
<1>2. CASE UNCHANGED allVars
  BY <1>2 DEF allVars, signUpVars
<1> QED
  BY <1>1, <1>2

SignUpTypes ==
  /\ DOMAIN form \subseteq Calls /\ form = [c \in DOMAIN form |-> form[c]]
  /\ \A c \in DOMAIN form : form[c] \in SignUp!Forms
  /\ rows \subseteq DOMAIN form
  /\ mailed \subseteq Calls
  /\ otp \in [Calls -> Calls \cup {NoCall}]
  /\ signUpStep \in [Calls -> {"idle", "checkPhone", "checkEmail", "insert", "shop",
                                "store", "drop", "consume", "mark", "done"}]
  /\ target \in [Calls -> Calls] /\ code \in [Calls -> Calls \cup {NoCall}]

\* A profile is written once, by a call that has begun, for an address that was free.
RowsDiffer ==
  /\ \A c \in DOMAIN form : signUpStep[c] # "idle"
  /\ \A c \in Calls :
       signUpStep[c] \in {"checkPhone", "checkEmail", "insert", "shop"} => c \in DOMAIN form
  /\ \A u, w \in rows : form[u].address = form[w].address => u = w

\* The code k was made for the account u.
MadeFor(k, u) == k \in Calls /\ signUpStep[k] # "idle" /\ target[k] = u

\* Codes in Redis are those of their account, and a call that goes on to mark an account
\* verified presented one, or signed up in the app.
CodesAreOwn ==
  /\ \A k \in mailed : signUpStep[k] # "idle"
  /\ \A u \in Calls : otp[u] # NoCall => MadeFor(otp[u], u)
  /\ \A c \in Calls :
       /\ signUpStep[c] = "consume" => MadeFor(code[c], target[c])
       /\ signUpStep[c] = "drop" =>
            c \in DOMAIN form /\ form[c].via \in {"mobile", "phone"} /\ target[c] = c
       /\ signUpStep[c] = "mark" =>
            \/ MadeFor(code[c], target[c])
            \/ c \in DOMAIN form /\ form[c].via \in {"mobile", "phone"} /\ target[c] = c
  /\ verified \subseteq rows
  /\ \A u \in verified : form[u].via \in {"web", "seller"} =>
       \E c \in Calls :
         signUpStep[c] # "idle" /\ target[c] = u /\ MadeFor(code[c], u)

\* An account that is mailed or marked has its row.
TargetsExist ==
  \A c \in Calls :
    /\ signUpStep[c] \in {"consume", "mark", "store", "drop"} => target[c] \in rows
    /\ signUpStep[c] = "shop" => c \in rows /\ target[c] = c
    /\ signUpStep[c] \in {"idle", "checkPhone", "checkEmail", "insert"} =>
         c \notin rows /\ target[c] = c

SignUpInv ==
  /\ SignUpTypes /\ RowsDiffer /\ CodesAreOwn /\ TargetsExist

\* Each request keeps it.
LEMMA SignUpMoves == ASSUME SignUpInv, [SignUp!Next]_signUpVars PROVE SignUpInv'
<1> USE AccountsAssumption DEF SignUpInv, SignUpTypes, SignUp!GoTo, SignUp!accountVars
<1>1. ASSUME NEW c \in Calls, NEW f \in Asked \cap SignUp!Forms, SignUp!Begin(c, f)
      PROVE  SignUpInv'
  <2>1. /\ DOMAIN form' = DOMAIN form \cup {c} /\ form'[c] = f
        /\ \A d \in DOMAIN form \ {c} : form'[d] = form[d]
        /\ form' = [d \in DOMAIN form' |-> form'[d]]
        /\ c \notin DOMAIN form
    BY <1>1 DEF SignUp!Begin, RowsDiffer
  <2>2. /\ signUpStep[c] = "idle"
        /\ signUpStep' \in {[signUpStep EXCEPT ![c] = "checkPhone"],
                            [signUpStep EXCEPT ![c] = "checkEmail"]}
        /\ UNCHANGED <<rows, verified, shops, otp, mailed, target, code>>
    BY <1>1 DEF SignUp!Begin
  <2>3. SignUpTypes'
    BY <2>1, <2>2
  <2>4. RowsDiffer'
    BY <2>1, <2>2 DEF RowsDiffer
  <2>5. CodesAreOwn'
    BY <2>1, <2>2 DEF CodesAreOwn, MadeFor
  <2>6. TargetsExist'
    BY <2>2 DEF TargetsExist
  <2> QED
    BY <2>3, <2>4, <2>5, <2>6
<1>2. ASSUME NEW c \in Calls, SignUp!CheckPhone(c) \/ SignUp!CheckEmail(c)
      PROVE  SignUpInv'
  BY <1>2 DEF SignUp!CheckPhone, SignUp!CheckEmail, RowsDiffer, CodesAreOwn, MadeFor,
              TargetsExist
<1>3. ASSUME NEW c \in Calls, SignUp!CreateProfile(c)
      PROVE  SignUpInv'
  <2>1. CASE UNCHANGED <<rows, verified>>
    BY <1>3, <2>1 DEF SignUp!CreateProfile, RowsDiffer, CodesAreOwn, MadeFor, TargetsExist
  <2>2. CASE rows' # rows
    <3>1. /\ c \in DOMAIN form /\ c \notin rows /\ target[c] = c
          /\ rows' = rows \cup {c}
          /\ \A u \in rows : form[u].address # form[c].address
          /\ UNCHANGED <<form, otp, mailed, target, code>>
          /\ signUpStep[c] = "insert"
      BY <1>3, <2>2 DEF SignUp!CreateProfile, SignUp!Holders, RowsDiffer, TargetsExist
    <3>2. /\ signUpStep' = [signUpStep EXCEPT ![c] = signUpStep'[c]]
          /\ signUpStep'[c] \in {"done", "shop", "store"}
          /\ signUpStep'[c] = "shop" => form[c].via = "seller"
      BY <1>3, <2>2 DEF SignUp!CreateProfile
    <3>3. \/ verified' = verified
          \/ verified' = verified \cup {c} /\ form[c].via = "google"
      BY <1>3, <2>2 DEF SignUp!CreateProfile
    <3>4. SignUpTypes' /\ RowsDiffer' /\ TargetsExist'
      BY <3>1, <3>2 DEF RowsDiffer, TargetsExist
    <3>5. CodesAreOwn'
      BY <3>1, <3>2, <3>3 DEF CodesAreOwn, MadeFor
    <3> QED
      BY <3>4, <3>5
  <2> QED
    BY <1>3, <2>1, <2>2 DEF SignUp!CreateProfile, TargetsExist
<1>4. ASSUME NEW c \in Calls, SignUp!CreateShopForSeller(c)
      PROVE  SignUpInv'
  BY <1>4 DEF SignUp!CreateShopForSeller, RowsDiffer, CodesAreOwn, MadeFor, TargetsExist
<1>5. ASSUME NEW c \in Calls, SignUp!StoreOTP(c)
      PROVE  SignUpInv'
  BY <1>5 DEF SignUp!StoreOTP, RowsDiffer, CodesAreOwn, MadeFor, TargetsExist
<1>6. ASSUME NEW c \in Calls, SignUp!DropOTP(c) \/ SignUp!ConsumeOTP(c)
      PROVE  SignUpInv'
  BY <1>6 DEF SignUp!DropOTP, SignUp!ConsumeOTP, RowsDiffer, CodesAreOwn, MadeFor,
              TargetsExist
<1>7. ASSUME NEW c \in Calls, SignUp!MarkEmailVerified(c)
      PROVE  SignUpInv'
  BY <1>7 DEF SignUp!MarkEmailVerified, RowsDiffer, CodesAreOwn, MadeFor, TargetsExist
<1>8. ASSUME NEW c \in Calls, NEW u \in rows, NEW k \in mailed, SignUp!BeginVerify(c, u, k)
      PROVE  SignUpInv'
  BY <1>8 DEF SignUp!BeginVerify, SignUp!CodeMatches, RowsDiffer, CodesAreOwn, MadeFor,
              TargetsExist
<1>9. ASSUME NEW c \in Calls, NEW u \in rows, SignUp!ResendOTP(c, u)
      PROVE  SignUpInv'
  BY <1>9 DEF SignUp!ResendOTP, RowsDiffer, CodesAreOwn, MadeFor, TargetsExist
<1>10. ASSUME NEW u \in Calls, SignUp!OTPExpires(u)
       PROVE  SignUpInv'
  BY <1>10 DEF SignUp!OTPExpires, RowsDiffer, CodesAreOwn, MadeFor, TargetsExist
<1>11. CASE UNCHANGED signUpVars
  BY <1>11 DEF signUpVars, RowsDiffer, CodesAreOwn, MadeFor, TargetsExist
<1> HIDE DEF SignUpInv, SignUpTypes
<1> QED
  BY <1>1, <1>2, <1>3, <1>4, <1>5, <1>6, <1>7, <1>8, <1>9, <1>10, <1>11
     DEF SignUp!Next, SignUp!Register, SignUp!RegisterSpec, SignUp!Verify

\* What SignUp promises follows: the derived address of a phone account is unique.
LEMMA SignUpHolds ==
  ASSUME SignUpInv
  PROVE  SignUp!PhoneAccountsDiffer /\ SignUp!VerifiedByOwnCode
<1>1. SignUp!VerifiedByOwnCode
  <2> SUFFICES ASSUME NEW u \in verified, form[u].via \in {"web", "seller"}
               PROVE  \E c \in Calls : /\ target[c] = u
                                       /\ code[c] # NoCall /\ target[code[c]] = u
    BY DEF SignUp!VerifiedByOwnCode
  <2>1. PICK c \in Calls : target[c] = u /\ MadeFor(code[c], u)
    BY DEF SignUpInv, CodesAreOwn
  <2> QED
    BY <2>1, AccountsAssumption DEF MadeFor
<1>2. ASSUME NEW u \in rows, form[u].via = "phone"
      PROVE  form[u].address = Digits(form[u].phone)
  <2>1. form[u] \in SignUp!Forms
    BY DEF SignUpInv, SignUpTypes
  <2> QED
    BY <1>2, <2>1 DEF SignUp!Forms, SignUp!PhoneEmail
<1>3. SignUp!PhoneAccountsDiffer
  BY <1>2 DEF SignUp!PhoneAccountsDiffer, SignUpInv, RowsDiffer
<1> QED
  BY <1>1, <1>3

------------------------------------------------------------------------------
(* Accounts belong to who opened them: Accounts, SignUp and Google. *)

\* While the part moves, its steps are those of Accounts.
LEMMA AccountsMove ==
  ASSUME [BackendNext]_allVars, part = "accounts"
  PROVE  part' = "accounts" /\ [Next]_vars
<1>1. CASE BackendNext
  BY <1>1 DEF BackendNext
<1>2. CASE UNCHANGED allVars
  BY <1>2 DEF allVars
<1> QED
  BY <1>1, <1>2

OwnInv ==
  /\ part = "accounts" => Typed /\ LockoutBites
  /\ part = "google" => GoogleInv
  /\ part = "signup" => SignUpInv

\* OwnInv holds in every state of the API.
LEMMA OwnAlways == BackendSpec => []OwnInv
<1>1. BackendInit => OwnInv
  <2> SUFFICES ASSUME BackendInit PROVE OwnInv
    OBVIOUS
  <2>1. Typed /\ LockoutBites
    <3>1. Init
      BY DEF BackendInit
    <3> QED
      BY <3>1, InitTyped, AccountsAssumption DEF Init, LockoutBites
  <2>2. GoogleInv
    <3>1. Google!Init
      BY DEF BackendInit
    <3> QED
      BY <3>1 DEF Google!Init, GoogleInv, StatesSpentOnce, CodesSpentOnce,
                  Google!OnePairPerStart
  <2>3. SignUpInv
    <3>1. SignUp!Init
      BY DEF BackendInit
    <3> QED
      BY <3>1 DEF SignUp!Init, SignUpInv, SignUpTypes, RowsDiffer, CodesAreOwn, MadeFor,
                  TargetsExist
  <2> QED
    BY <2>1, <2>2, <2>3 DEF OwnInv
<1>2. OwnInv /\ [BackendNext]_allVars => OwnInv'
  <2> SUFFICES ASSUME OwnInv, [BackendNext]_allVars PROVE OwnInv'
    OBVIOUS
  <2>1. part' = part
    BY PartStays
  <2>2. CASE part = "accounts"
    BY <2>1, <2>2, AccountsMove, TypeStep, LockoutStep DEF OwnInv
  <2>3. CASE part = "google"
    BY <2>1, <2>3, GoogleMove, GoogleStep DEF OwnInv
  <2>4. CASE part = "signup"
    BY <2>1, <2>4, SignUpMove, SignUpMoves DEF OwnInv
  <2> QED
    BY <2>1, <2>2, <2>3, <2>4 DEF OwnInv
<1> QED
  BY <1>1, <1>2, PTL DEF BackendSpec

\* Wrong passwords lock the account, an address is confirmed only by the code mailed for
\* it, phone accounts have different numbers, and a sign-in with Google is finished at
\* most once: for any number of overlapping requests, addresses and numbers.
THEOREM AccountsStayOwn == BackendSpec => []AccountsAreOwn
<1>1. OwnInv => AccountsAreOwn
  BY SignUpHolds DEF OwnInv, AccountsAreOwn, GoogleInv
<1> QED
  BY <1>1, OwnAlways, PTL

------------------------------------------------------------------------------
(* The start of a live session: Starts. *)

\* While the part moves, its steps are those of LiveStart.
LEMMA StartsMove ==
  ASSUME [BackendNext]_allVars, part = "starts"
  PROVE  part' = "starts" /\ [Starts!Next]_startVars
<1>1. CASE BackendNext
  BY <1>1 DEF BackendNext
<1>2. CASE UNCHANGED allVars
  BY <1>2 DEF allVars, startVars
<1> QED
  BY <1>1, <1>2

UnderWay(c) == startStep[c] \in {"update", "insert", "commit"}

\* Rows that a start has closed are locked: they are open until it commits, and no two
\* starts hold the same one.
StartLocks ==
  \A c \in Calls :
    /\ closedRows[c] \subseteq openSessions
    /\ closedRows[c] # {} => startStep[c] \in {"insert", "commit"}
    /\ \A d \in Calls : c # d => closedRows[c] \cap closedRows[d] = {}

\* A start knows every open session, unless it was committed after the start began.
StartsKnow ==
  \A c \in Calls : asked[c] = "start" =>
    \A s \in openSessions :
      /\ startStep[c] = "update" => s \in seenOpen[c] \/ <<c, s>> \in behind
      /\ startStep[c] \in {"insert", "commit"} => s \in closedRows[c] \/ <<c, s>> \in behind

\* A session exists once its start is done; a stop inserts nothing, and what a call saw
\* was committed.
StartSteps ==
  \A c \in Calls :
    /\ c \in startedSessions => startStep[c] = "done"
    /\ asked[c] = "stop" => startStep[c] \notin {"insert", "commit"}
    /\ seenOpen[c] \subseteq startedSessions

\* The key of a start that has inserted its row is nobody else's.
KeysTaken ==
  \A c, d \in Calls : c # d /\ keySecond[c] = keySecond[d] /\ startStep[c] = "commit"
    => startStep[d] # "commit" /\ d \notin startedSessions

StartInv ==
  Starts!TypeOK /\ StartLocks /\ StartsKnow /\ StartSteps /\ KeysTaken /\ Starts!StartsReplace

\* The invariant holds at first.
LEMMA StartInit == ASSUME Starts!Init PROVE StartInv
BY BackendAssumption
   DEF Starts!Init, StartInv, Starts!TypeOK, StartLocks, StartsKnow, StartSteps, KeysTaken,
       Starts!StartsReplace, Starts!OneOpenSession, Starts!StopsHold, Starts!KeysDiffer

\* Each step of a start, a stop or an ending session keeps it.
LEMMA StartStep == ASSUME StartInv, [Starts!Next]_startVars PROVE StartInv'
<1> USE DEF StartInv, Starts!TypeOK, Starts!StartsReplace, Starts!GoTo, Starts!Locked
<1>1. ASSUME NEW c \in Calls, NEW kind \in {"start", "stop"}, Starts!Begin(c, kind)
      PROVE  StartInv'
  BY <1>1 DEF Starts!Begin, StartLocks, StartsKnow, StartSteps, KeysTaken,
              Starts!OneOpenSession, Starts!StopsHold, Starts!KeysDiffer
<1>2. ASSUME NEW c \in Calls, Starts!CloseOpen(c) PROVE StartInv'
  BY <1>2 DEF Starts!CloseOpen, StartLocks, StartsKnow, StartSteps, KeysTaken,
              Starts!OneOpenSession, Starts!StopsHold, Starts!KeysDiffer
<1>3. ASSUME NEW c \in Calls, Starts!StopSpecSession(c) PROVE StartInv'
  BY <1>3 DEF Starts!StopSpecSession, StartLocks, StartsKnow, StartSteps, KeysTaken,
              Starts!OneOpenSession, Starts!StopsHold, Starts!KeysDiffer
<1>4. ASSUME NEW c \in Calls, Starts!Insert(c) PROVE StartInv'
  BY <1>4 DEF Starts!Insert, StartLocks, StartsKnow, StartSteps, KeysTaken,
              Starts!OneOpenSession, Starts!StopsHold, Starts!KeysDiffer
<1>5. ASSUME NEW c \in Calls, Starts!Commit(c) PROVE StartInv'
  BY <1>5 DEF Starts!Commit, StartLocks, StartsKnow, StartSteps, KeysTaken,
              Starts!OneOpenSession, Starts!StopsHold, Starts!KeysDiffer
<1>6. ASSUME NEW c \in Calls, Starts!Rollback(c) PROVE StartInv'
  BY <1>6 DEF Starts!Rollback, StartLocks, StartsKnow, StartSteps, KeysTaken,
              Starts!OneOpenSession, Starts!StopsHold, Starts!KeysDiffer
<1>7. ASSUME NEW c \in Calls, Starts!End(c) PROVE StartInv'
  BY <1>7 DEF Starts!End, StartLocks, StartsKnow, StartSteps, KeysTaken,
              Starts!OneOpenSession, Starts!StopsHold, Starts!KeysDiffer
<1>8. CASE Starts!Tick
  <2>1. MaxSecond \in Nat
    BY BackendAssumption
  <2> QED
    BY <1>8, <2>1 DEF Starts!Tick, StartLocks, StartsKnow, StartSteps, KeysTaken,
              Starts!OneOpenSession, Starts!StopsHold, Starts!KeysDiffer
<1>9. CASE UNCHANGED startVars
  BY <1>9 DEF startVars, StartLocks, StartsKnow, StartSteps, KeysTaken,
              Starts!OneOpenSession, Starts!StopsHold, Starts!KeysDiffer
<1> QED
  BY <1>1, <1>2, <1>3, <1>4, <1>5, <1>6, <1>7, <1>8, <1>9 DEF Starts!Next, Starts!Statement

------------------------------------------------------------------------------
(* The members of a shop: Shops. *)

\* While the part moves, its steps are those of Shops.
LEMMA ShopsMove ==
  ASSUME [BackendNext]_allVars, part = "shops"
  PROVE  part' = "shops" /\ [Shops!Next]_shopVars
<1>1. CASE BackendNext
  BY <1>1 DEF BackendNext
<1>2. CASE UNCHANGED allVars
  BY <1>2 DEF allVars, shopVars
<1> QED
  BY <1>1, <1>2

ShopTypes ==
  /\ member \in [Viewers -> Shops!Rows \cup {None}]
  /\ crossed \in SUBSET Viewers
  /\ decided \in [Viewers -> [status : Shops!Statuses \cup {Shops!Omitted},
                             canLive : Shops!Flags \cup {Shops!Omitted}]]
  /\ memberRequest \in [Calls -> [user : Viewers \cup {None},
                                  status : Shops!Statuses \cup {Shops!Omitted},
                                  canLive : Shops!Flags \cup {Shops!Omitted}]]
  /\ current \in [Calls -> Shops!Rows \cup {None}]
  /\ shopStep \in [Calls -> Shops!Steps]

\* What an update of a member has read is still the row, unless another request wrote it
\* meanwhile, which the set of crossed members remembers.
ReadIsRow ==
  \A c \in Calls : shopStep[c] = "merge" =>
    LET u == memberRequest[c].user IN
      /\ u \in Viewers /\ current[c] \in Shops!Rows
      /\ u \in crossed \/ member[u] = None
         \/ /\ current[c].status = member[u].status
            /\ current[c].canLive = member[u].canLive

ShopInv == ShopTypes /\ ReadIsRow /\ Shops!DecisionsStand

\* The invariant holds at first.
LEMMA ShopInit == ASSUME Shops!Init PROVE ShopInv
BY DEF Shops!Init, Shops!NoRequest, ShopInv, ShopTypes, ReadIsRow, Shops!DecisionsStand,
       Shops!Statuses, Shops!Flags, Shops!Omitted, Shops!Steps

\* Each request of the owner or a follower keeps it.
LEMMA ShopStep == ASSUME ShopInv, [Shops!Next]_shopVars PROVE ShopInv'
<1> USE DEF ShopInv, ShopTypes, Shops!GoTo, Shops!Omitted, Shops!Steps
<1>1. ASSUME NEW c \in Calls, NEW u \in Viewers, NEW t \in {"staff", "collaborator"},
             NEW s \in Shops!Statuses \cup {Shops!Omitted},
             NEW l \in Shops!Flags \cup {Shops!Omitted}, Shops!Add(c, u, t, s, l)
      PROVE  ShopInv'
  <2> DEFINE row == Shops!Row(t, Shops!Given(s, "approved"), Shops!Given(l, "yes"))
  <2>1. row \in Shops!Rows
    BY DEF Shops!Rows, Shops!Given, Shops!Statuses, Shops!Flags
  <2>2. row.status \in Shops!Statuses /\ row.canLive \in Shops!Flags
    BY DEF Shops!Row, Shops!Given, Shops!Statuses, Shops!Flags
  <2> HIDE DEF row
  <2>3. /\ shopStep[c] = "idle" /\ shopStep' = [shopStep EXCEPT ![c] = "done"]
        /\ member' = [member EXCEPT ![u] = row]
        /\ crossed' = IF Shops!Merging(u) \ {c} # {} THEN crossed \cup {u} ELSE crossed
        /\ decided' = [decided EXCEPT ![u] = [status |-> row.status, canLive |-> row.canLive]]
        /\ UNCHANGED <<memberRequest, current>>
    BY <1>1 DEF Shops!Add, Shops!Write, row
  <2>4. ShopTypes'
    BY <2>1, <2>2, <2>3
  <2>5. ReadIsRow'
    BY <2>3, <2>4 DEF ReadIsRow, Shops!Merging
  <2>6. Shops!DecisionsStand'
    BY <2>3, <2>4 DEF Shops!DecisionsStand
  <2> QED
    BY <2>4, <2>5, <2>6
<1>2. ASSUME NEW c \in Calls, NEW u \in Viewers,
             NEW s \in Shops!Statuses \cup {Shops!Omitted},
             NEW l \in Shops!Flags \cup {Shops!Omitted}, Shops!ReadMember(c, u, s, l)
      PROVE  ShopInv'
  BY <1>2 DEF Shops!ReadMember, Shops!memberVars, ReadIsRow, Shops!DecisionsStand
<1>3. ASSUME NEW c \in Calls, NEW u \in Viewers, Shops!RemoveMember(c, u)
      PROVE  ShopInv'
  BY <1>3 DEF Shops!RemoveMember, Shops!Write, Shops!Merging, ReadIsRow, Shops!DecisionsStand
<1>4. ASSUME NEW c \in Calls, Shops!UpdateStatus(c)
      PROVE  ShopInv'
  <2> DEFINE u == memberRequest[c].user
             row == [Shops!Merged(c) EXCEPT !.type = member[u].type]
  <2>1. u \in Viewers /\ current[c] \in Shops!Rows
    BY <1>4 DEF Shops!UpdateStatus, ReadIsRow
  <2>2. CASE member[u] = None
    BY <1>4, <2>2 DEF Shops!UpdateStatus, ReadIsRow, Shops!DecisionsStand
  <2>3. CASE member[u] # None
    <3>1. row \in Shops!Rows
      BY <2>1, <2>3 DEF Shops!Rows, Shops!Row, Shops!Merged, Shops!Given
    <3>2. /\ row.status = Shops!Given(memberRequest[c].status, current[c].status)
          /\ row.canLive = Shops!Given(memberRequest[c].canLive, current[c].canLive)
      BY DEF Shops!Merged, Shops!Row
    <3>3. /\ shopStep[c] = "merge" /\ shopStep' = [shopStep EXCEPT ![c] = "done"]
          /\ member' = [member EXCEPT ![u] = row]
          /\ crossed' = IF Shops!Merging(u) \ {c} # {} THEN crossed \cup {u} ELSE crossed
          /\ decided' = [decided EXCEPT ![u] =
               [status |-> Shops!Given(memberRequest[c].status, decided[u].status),
                canLive |-> Shops!Given(memberRequest[c].canLive, decided[u].canLive)]]
          /\ UNCHANGED <<memberRequest, current>>
      BY <1>4, <2>1, <2>3 DEF Shops!UpdateStatus, Shops!Write
    <3> HIDE DEF row
    <3>4. ShopTypes'
      BY <2>1, <3>1, <3>3 DEF Shops!Given
    <3>5. ReadIsRow'
      BY <2>1, <3>3, <3>4 DEF ReadIsRow, Shops!Merging
    <3>6. Shops!DecisionsStand'
      BY <2>1, <2>3, <3>2, <3>3, <3>4 DEF Shops!DecisionsStand, ReadIsRow, Shops!Given
    <3> QED
      BY <3>4, <3>5, <3>6
  <2> QED
    BY <2>2, <2>3
<1>5. ASSUME NEW u \in Viewers \cup {ShopOwner}, Shops!StartLive(u)
      PROVE  ShopInv'
  BY <1>5 DEF Shops!StartLive, Shops!callVars, ReadIsRow, Shops!DecisionsStand
<1>6. ASSUME NEW c \in Calls, Shops!FollowRequest(c)
      PROVE  ShopInv'
  <2>1. ASSUME \/ \E u \in Viewers : Shops!Follow(c, u) \/ Shops!Unfollow(c, u)
               \/ Shops!CountFollow(c) \/ Shops!UncountFollow(c)
        PROVE  /\ UNCHANGED <<member, crossed, decided, memberRequest, current>>
               /\ \E s \in Shops!Steps \ {"merge"} : shopStep' = [shopStep EXCEPT ![c] = s]
    <3> HIDE DEF ShopInv, ShopTypes
    <3> QED
      BY <2>1 DEF Shops!Follow, Shops!Unfollow, Shops!CountFollow, Shops!UncountFollow,
                  Shops!memberVars
  <2>2. PICK s \in Shops!Steps \ {"merge"} : shopStep' = [shopStep EXCEPT ![c] = s]
    BY <1>6, <2>1 DEF Shops!FollowRequest
  <2>3. UNCHANGED <<member, crossed, decided, memberRequest, current>>
    BY <1>6, <2>1 DEF Shops!FollowRequest
  <2> QED
    BY <2>2, <2>3 DEF ReadIsRow, Shops!DecisionsStand
<1>7. CASE UNCHANGED shopVars
  BY <1>7 DEF shopVars, ReadIsRow, Shops!DecisionsStand
<1> HIDE DEF ShopInv, ShopTypes
<1> QED
  BY <1>1, <1>2, <1>3, <1>4, <1>5, <1>6, <1>7 DEF Shops!Next, Shops!MemberRequest

------------------------------------------------------------------------------
(* The reports on a clip: Videos. *)

\* While the part moves, its steps are those of Clips.
LEMMA VideosMove ==
  ASSUME [BackendNext]_allVars, part = "clips"
  PROVE  part' = "clips" /\ [Videos!Next]_videoVars
<1>1. CASE BackendNext
  BY <1>1 DEF BackendNext
<1>2. CASE UNCHANGED allVars
  BY <1>2 DEF allVars, videoVars
<1> QED
  BY <1>1, <1>2

QueueInv ==
  /\ reports \in [Users -> {"none", "pending", "resolved", "dismissed"}]
  /\ Videos!TakedownEmptiesQueue

\* Each request keeps what a takedown did to the queue of reports.
LEMMA QueueStep == ASSUME QueueInv, [Videos!Next]_videoVars PROVE QueueInv'
<1> USE DEF QueueInv, Videos!TakedownEmptiesQueue
<1>1. ASSUME NEW u \in Users, Videos!Takedown(u) \/ Videos!Dismiss(u)
      PROVE  QueueInv'
  BY <1>1 DEF Videos!Takedown, Videos!Dismiss
<1>2. ASSUME NEW c \in Calls, Videos!AddReport(c)
      PROVE  QueueInv'
  BY <1>2 DEF Videos!AddReport
<1>3. ASSUME UNCHANGED <<reports, takenDown, lateReports>>
      PROVE  QueueInv'
  BY <1>3
<1>4. ASSUME \/ Videos!Create
             \/ \E u \in Users, isAdmin \in BOOLEAN : Videos!SoftDelete(u, isAdmin)
             \/ UNCHANGED videoVars
      PROVE  UNCHANGED <<reports, takenDown, lateReports>>
  BY <1>4 DEF Videos!Create, Videos!SoftDelete, videoVars, Videos!reportVars
<1>5. ASSUME NEW c \in Calls,
             \/ Videos!LikeRequest(c) \/ Videos!ViewRequest(c) \/ Videos!CommentRequest(c)
             \/ \E u \in Users : Videos!BeginReport(c, u)
      PROVE  UNCHANGED <<reports, takenDown, lateReports>>
  BY <1>5 DEF Videos!LikeRequest, Videos!SetLike, Videos!InsertLike, Videos!CountLike,
              Videos!DeleteLike, Videos!UncountLike, Videos!ViewRequest,
              Videos!ViewAnonymously, Videos!CountView, Videos!View, Videos!CommentRequest,
              Videos!BeginComment, Videos!AddComment, Videos!CountComment,
              Videos!BeginReport, Videos!reportVars
<1> QED
  BY <1>1, <1>2, <1>3, <1>4, <1>5 DEF Videos!Next, Videos!ReportRequest, Videos!ResolveReport

------------------------------------------------------------------------------
(* The log of the roles: Audit. *)

\* While the part moves, its steps are those of RoleAudit.
LEMMA AuditMove ==
  ASSUME [BackendNext]_allVars, part = "audit"
  PROVE  part' = "audit" /\ [Audit!Next]_auditVars
<1>1. CASE BackendNext
  BY <1>1 DEF BackendNext
<1>2. CASE UNCHANGED allVars
  BY <1>2 DEF allVars, auditVars
<1> QED
  BY <1>1, <1>2

\* In the log t the rows about u link up, and the last one leaves the role r.
RowsOf(t, u) == {n \in DOMAIN t : t[n].target = u}

LinksUp(t, u) ==
  /\ \A m, n \in RowsOf(t, u) :
       m < n /\ (\A k \in RowsOf(t, u) : k <= m \/ n <= k) => t[m].new = t[n].old
  /\ \A n \in RowsOf(t, u) : (\A k \in RowsOf(t, u) : n <= k) => t[n].old = "admin"

Leaves(t, u, r) ==
  /\ \A n \in RowsOf(t, u) : (\A k \in RowsOf(t, u) : k <= n) => t[n].new = r
  /\ RowsOf(t, u) = {} => r = "admin"

AuditTypes ==
  /\ adminRole \in [Admins -> AdminRoles]
  /\ auditStep \in [Twins -> {"idle", "update", "wait", "audit", "done"}]
  /\ change = [c \in Twins |-> change[c]]
  /\ \A c \in Twins : auditStep[c] # "idle" => change[c] \in Audit!Changes
  /\ trail \in Seq(Audit!Changes)

\* The one change under way says what the log and the account say.
ChangeFits(u, c) ==
  IF auditStep[c] = "wait"
    THEN change[c].old = adminRole[u]
    ELSE Leaves(trail, u, change[c].old) /\ adminRole[u] = change[c].new

TrailFits(u) ==
  /\ LinksUp(trail, u)
  /\ \A c, d \in Audit!UnderWay(u) : c = d
  /\ \A c \in Audit!UnderWay(u) : ChangeFits(u, c)
  /\ (\A c \in Audit!UnderWay(u) : auditStep[c] = "wait") => Leaves(trail, u, adminRole[u])

AuditInv ==
  /\ AuditTypes
  /\ \A u \in Admins : u \notin auditLost \cup auditCrossed => TrailFits(u)

\* The invariant holds at first.
LEMMA AuditInit == ASSUME Audit!Init PROVE AuditInv
<1>1. AuditTypes
  BY BackendAssumption DEF Audit!Init, AuditTypes
<1>2. ASSUME NEW u \in Admins PROVE RowsOf(trail, u) = {} /\ Audit!UnderWay(u) = {}
  BY DEF Audit!Init, RowsOf, Audit!UnderWay
<1> QED
  BY <1>1, <1>2 DEF Audit!Init, AuditInv, TrailFits, LinksUp, Leaves

\* A row is added to the end: the account it is about gets the role it tells.
LEMMA RowAdded ==
  ASSUME NEW u, NEW t \in Seq(Audit!Changes), NEW row \in Audit!Changes,
         row.target = u, LinksUp(t, u), Leaves(t, u, row.old)
  PROVE  LinksUp(Append(t, row), u) /\ Leaves(Append(t, row), u, row.new)
<1> DEFINE last == Len(t) + 1
           before == RowsOf(t, u)
           next == Append(t, row)
           after == RowsOf(next, u)
<1>1. /\ after = before \cup {last}
      /\ \A n \in before : n \in Nat /\ n < last /\ next[n] = t[n]
      /\ next[last] = row /\ last \in Nat
  BY DEF RowsOf
<1>2. /\ \A m, n \in before :
           m < n /\ (\A k \in before : k <= m \/ n <= k) => t[m].new = t[n].old
      /\ \A n \in before : (\A k \in before : n <= k) => t[n].old = "admin"
      /\ \A n \in before : (\A k \in before : k <= n) => t[n].new = row.old
      /\ before = {} => row.old = "admin"
  BY DEF LinksUp, Leaves
<1>3. SUFFICES
        /\ \A m, n \in after :
             m < n /\ (\A k \in after : k <= m \/ n <= k) => next[m].new = next[n].old
        /\ \A n \in after : (\A k \in after : n <= k) => next[n].old = "admin"
        /\ \A n \in after : (\A k \in after : k <= n) => next[n].new = row.new
        /\ after = {} => row.new = "admin"
  BY DEF LinksUp, Leaves
<1> HIDE DEF last, before, next, after
<1>4. ASSUME NEW m \in after, NEW n \in after, m < n,
             \A k \in after : k <= m \/ n <= k
      PROVE  next[m].new = next[n].old
  <2>1. m \in before
    BY <1>1, <1>4
  <2>2. CASE n = last
    <3>1. ASSUME NEW k \in before PROVE k <= m
      <4>1. k \in after /\ ~(last <= k)
        BY <1>1
      <4> QED
        BY <1>4, <2>2, <4>1
    <3> QED
      BY <1>1, <1>2, <2>1, <2>2, <3>1
  <2>3. CASE n # last
    BY <1>1, <1>2, <1>4, <2>1, <2>3
  <2> QED
    BY <2>2, <2>3
<1>5. ASSUME NEW n \in after, \A k \in after : n <= k
      PROVE  next[n].old = "admin"
  <2>1. CASE before = {}
    BY <1>1, <1>2, <2>1
  <2>2. CASE before # {}
    <3>1. n \in before
      BY <1>1, <1>5, <2>2
    <3> QED
      BY <1>1, <1>2, <1>5, <3>1
  <2> QED
    BY <2>1, <2>2
<1>6. ASSUME NEW n \in after, \A k \in after : k <= n
      PROVE  next[n].new = row.new
  <2>1. n = last
    BY <1>1, <1>6
  <2> QED
    BY <1>1, <2>1
<1> QED
  BY <1>1, <1>4, <1>5, <1>6

\* Rows about others do not matter.
LEMMA OtherRowAdded ==
  ASSUME NEW u, NEW t \in Seq(Audit!Changes), NEW row \in Audit!Changes,
         row.target # u
  PROVE  /\ LinksUp(t, u) => LinksUp(Append(t, row), u)
         /\ \A r : Leaves(t, u, r) => Leaves(Append(t, row), u, r)
<1>1. /\ RowsOf(Append(t, row), u) = RowsOf(t, u)
      /\ \A n \in RowsOf(t, u) : Append(t, row)[n] = t[n]
  BY DEF RowsOf
<1> QED
  BY <1>1 DEF LinksUp, Leaves

\* Each statement of a change, and each new token, keeps it.
LEMMA AuditStep == ASSUME AuditInv, [Audit!Next]_auditVars PROVE AuditInv'
<1> USE DEF AuditInv, AuditTypes, Audit!GoTo
<1>1. ASSUME NEW c \in Twins, NEW a \in Admins, NEW u \in Admins, NEW r \in AdminRoles,
             Audit!ChangeRole(c, a, u, r)
      PROVE  AuditInv'
  <2>1. AuditTypes'
    BY <1>1 DEF Audit!ChangeRole, Audit!Changes
  <2>2. /\ UNCHANGED <<adminRole, trail, auditCrossed, auditLost>>
        /\ \A w \in Admins : Audit!UnderWay(w)' = Audit!UnderWay(w) /\ c \notin Audit!UnderWay(w)
        /\ \A d \in Twins \ {c} : change'[d] = change[d] /\ auditStep'[d] = auditStep[d]
    BY <1>1 DEF Audit!ChangeRole, Audit!UnderWay
  <2>3. \A w \in Admins : Audit!UnderWay(w) \subseteq Twins
    BY DEF Audit!UnderWay
  <2>4. ASSUME NEW w \in Admins, TrailFits(w) PROVE TrailFits(w)'
    BY <2>2, <2>3, <2>4 DEF TrailFits, ChangeFits
  <2> QED
    BY <2>1, <2>2, <2>4
<1>2. ASSUME NEW c \in Twins, Audit!TakeImage(c)
      PROVE  AuditInv'
  <2>0. AuditTypes' /\ change[c].target \in Admins
    BY <1>2 DEF Audit!TakeImage, Audit!Changes
  <2>1. PICK t \in Admins : t = change[c].target
    BY <2>0
  <2>2. /\ auditStep[c] = "update" /\ auditStep' = [auditStep EXCEPT ![c] = "wait"]
        /\ change' = [change EXCEPT ![c].old = adminRole[t]]
        /\ UNCHANGED <<adminRole, trail, auditLost>>
        /\ auditCrossed \subseteq auditCrossed'
        /\ t \notin auditCrossed' => Audit!UnderWay(t) = {}
    BY <1>2, <2>1 DEF Audit!TakeImage
  <2>3. /\ Audit!UnderWay(t)' = Audit!UnderWay(t) \cup {c}
        /\ \A u \in Admins \ {t} : Audit!UnderWay(u)' = Audit!UnderWay(u) /\ c \notin Audit!UnderWay(u)
        /\ \A d \in Twins \ {c} : change'[d] = change[d] /\ auditStep'[d] = auditStep[d]
        /\ change'[c].old = adminRole[t] /\ auditStep'[c] = "wait"
    BY <2>0, <2>1, <2>2 DEF Audit!UnderWay, Audit!Changes
  <2>4. \A u \in Admins : Audit!UnderWay(u) \subseteq Twins
    BY DEF Audit!UnderWay
  <2>5. UNCHANGED <<adminRole, trail>>
    BY <2>2
  <2>6. ASSUME t \notin auditCrossed', TrailFits(t) PROVE TrailFits(t)'
    <3>1. Audit!UnderWay(t) = {} /\ Audit!UnderWay(t)' = {c}
      BY <2>2, <2>3, <2>6
    <3>2. ChangeFits(t, c)'
      BY <2>3, <2>5 DEF ChangeFits
    <3> QED
      BY <2>5, <2>6, <3>1, <3>2 DEF TrailFits
  <2>7. ASSUME NEW u \in Admins, u # t, TrailFits(u) PROVE TrailFits(u)'
    BY <2>3, <2>4, <2>5, <2>7 DEF TrailFits, ChangeFits
  <2> QED
    BY <2>0, <2>2, <2>6, <2>7
<1>3. ASSUME NEW c \in Twins, Audit!SetRole(c)
      PROVE  AuditInv'
  <2> DEFINE t == change[c].target
  <2>1. AuditTypes' /\ t \in Admins
    BY <1>3 DEF Audit!SetRole, Audit!Changes
  <2>2. /\ auditStep[c] = "wait" /\ auditStep' = [auditStep EXCEPT ![c] = "audit"]
        /\ adminRole' = [adminRole EXCEPT ![t] = change[c].new]
        /\ UNCHANGED <<change, trail, auditLost, auditCrossed>>
    BY <1>3 DEF Audit!SetRole
  <2>3. /\ \A u \in Admins : Audit!UnderWay(u)' = Audit!UnderWay(u)
        /\ \A u \in Admins : c \in Audit!UnderWay(u) <=> u = t
        /\ \A d \in Twins \ {c} : auditStep'[d] = auditStep[d]
    BY <2>1, <2>2 DEF Audit!UnderWay
  <2>4. \A u \in Admins : Audit!UnderWay(u) \subseteq Twins
    BY DEF Audit!UnderWay
  <2>5. ASSUME NEW u \in Admins, u \notin (auditLost \cup auditCrossed)' PROVE TrailFits(u)'
    <3>1. TrailFits(u) /\ Audit!UnderWay(u)' = Audit!UnderWay(u)
      BY <2>2, <2>3, <2>5
    <3>2. CASE u = t
      <4>1. Audit!UnderWay(u) = {c}
        BY <2>3, <3>1, <3>2 DEF TrailFits
      <4>2. LinksUp(trail, u) /\ Leaves(trail, u, change[c].old)
        BY <2>2, <3>1, <4>1 DEF TrailFits, ChangeFits
      <4>3. adminRole'[u] = change[c].new /\ auditStep'[c] = "audit"
        BY <2>2, <3>2
      <4> QED
        BY <2>2, <3>1, <4>1, <4>2, <4>3 DEF TrailFits, ChangeFits
    <3>3. CASE u # t
      <4>1. adminRole'[u] = adminRole[u]
        BY <2>2, <3>3
      <4>2. \A d \in Audit!UnderWay(u) : auditStep'[d] = auditStep[d]
        BY <2>3, <2>4, <3>3
      <4>3. /\ \A d \in Audit!UnderWay(u) : ChangeFits(u, d)'
            /\ LinksUp(trail, u)' /\ \A d, e \in Audit!UnderWay(u) : d = e
        BY <2>2, <3>1, <4>1, <4>2 DEF TrailFits, ChangeFits
      <4>4. (\A d \in Audit!UnderWay(u) : auditStep'[d] = "wait") => Leaves(trail, u, adminRole[u])'
        BY <2>2, <3>1, <4>1, <4>2 DEF TrailFits
      <4> QED
        BY <3>1, <4>3, <4>4 DEF TrailFits
    <3> QED
      BY <3>2, <3>3
  <2> QED
    BY <2>1, <2>5
<1>4. ASSUME NEW c \in Twins, Audit!SetRoleFails(c)
      PROVE  AuditInv'
  <2>1. AuditTypes'
    BY <1>4 DEF Audit!SetRoleFails
  <2>2. /\ UNCHANGED <<adminRole, change, trail, auditLost, auditCrossed>>
        /\ \A u \in Admins : Audit!UnderWay(u)' = Audit!UnderWay(u) \ {c}
        /\ \A d \in Twins \ {c} : auditStep'[d] = auditStep[d]
        /\ auditStep[c] # "audit"
    BY <1>4 DEF Audit!SetRoleFails, Audit!UnderWay
  <2>3. \A u \in Admins : Audit!UnderWay(u) \subseteq Twins
    BY DEF Audit!UnderWay
  <2>4. ASSUME NEW u \in Admins, u \notin (auditLost \cup auditCrossed)' PROVE TrailFits(u)'
    <3>1. TrailFits(u)
      BY <2>2, <2>4
    <3>2. (\A d \in Audit!UnderWay(u)' : auditStep'[d] = "wait")
            => \A d \in Audit!UnderWay(u) : auditStep[d] = "wait"
      BY <2>2, <2>3, <3>1 DEF TrailFits, Audit!UnderWay
    <3>3. \A d \in Audit!UnderWay(u)' : d \in Audit!UnderWay(u) /\ auditStep'[d] = auditStep[d]
      BY <2>2, <2>3
    <3>4. \A d \in Audit!UnderWay(u)' : ChangeFits(u, d)'
      BY <2>2, <3>1, <3>3 DEF TrailFits, ChangeFits
    <3>5. /\ LinksUp(trail, u)'
          /\ (\A d \in Audit!UnderWay(u) : auditStep[d] = "wait")
               => Leaves(trail, u, adminRole[u])'
      BY <2>2, <3>1 DEF TrailFits
    <3>6. \A d, e \in Audit!UnderWay(u)' : d = e
      BY <3>1, <3>3 DEF TrailFits
    <3> QED
      BY <3>2, <3>4, <3>5, <3>6 DEF TrailFits
  <2> QED
    BY <2>1, <2>4
<1>5. ASSUME NEW c \in Twins, Audit!LogAudit(c)
      PROVE  AuditInv'
  <2> DEFINE t == change[c].target
  <2>1. change[c] \in Audit!Changes /\ t \in Admins
    BY <1>5 DEF Audit!LogAudit, Audit!Changes
  <2>2. AuditTypes'
    <3>1. trail' \in Seq(Audit!Changes)
      BY <1>5, <2>1 DEF Audit!LogAudit
    <3> QED
      BY <1>5, <3>1 DEF Audit!LogAudit
  <2>3. /\ UNCHANGED <<adminRole, change, auditCrossed>>
        /\ \A u \in Admins : Audit!UnderWay(u)' = Audit!UnderWay(u) \ {c}
        /\ \A u \in Admins : c \in Audit!UnderWay(u) <=> u = t
        /\ \A d \in Twins \ {c} : auditStep'[d] = auditStep[d]
        /\ auditStep[c] = "audit" /\ auditLost \subseteq auditLost'
    BY <1>5, <2>1 DEF Audit!LogAudit, Audit!UnderWay
  <2>4. \A u \in Admins : Audit!UnderWay(u) \subseteq Twins
    BY DEF Audit!UnderWay
  <2>5. ASSUME NEW u \in Admins, u # t, TrailFits(u) PROVE TrailFits(u)'
    <3>1. /\ LinksUp(trail', u)
          /\ \A r : Leaves(trail, u, r) => Leaves(trail', u, r)
      <4>1. CASE trail' = trail
        BY <2>5, <4>1 DEF TrailFits
      <4>2. CASE trail' = Append(trail, change[c])
        BY <2>1, <2>5, <4>2, OtherRowAdded DEF TrailFits
      <4> QED
        BY <1>5, <4>1, <4>2 DEF Audit!LogAudit
    <3> QED
      BY <2>3, <2>4, <2>5, <3>1 DEF TrailFits, ChangeFits
  <2>6. ASSUME t \notin auditLost', TrailFits(t) PROVE TrailFits(t)'
    <3>1. trail' = Append(trail, change[c])
      BY <1>5, <2>6 DEF Audit!LogAudit
    <3>2. Leaves(trail, t, change[c].old) /\ adminRole[t] = change[c].new /\ LinksUp(trail, t)
      BY <2>1, <2>3, <2>6 DEF TrailFits, ChangeFits
    <3>3. LinksUp(trail', t) /\ Leaves(trail', t, change[c].new)
      BY <2>1, <3>1, <3>2, RowAdded
    <3>4. Audit!UnderWay(t)' = {}
      BY <2>1, <2>3, <2>6 DEF TrailFits
    <3> QED
      BY <2>3, <3>2, <3>3, <3>4 DEF TrailFits
  <2> QED
    BY <2>1, <2>2, <2>3, <2>5, <2>6
<1>6. CASE UNCHANGED auditVars \/ \E a \in Admins : Audit!NewToken(a)
  BY <1>6 DEF auditVars, Audit!NewToken, TrailFits, ChangeFits, Audit!UnderWay
<1> HIDE DEF AuditInv, AuditTypes
<1> QED
  BY <1>1, <1>2, <1>3, <1>4, <1>5, <1>6 DEF Audit!Next

------------------------------------------------------------------------------
(* What was decided stands: Starts, Shops, Videos and Audit. *)

DecisionsInv ==
  /\ part = "starts" => StartInv
  /\ part = "shops" => ShopInv
  /\ part = "clips" => QueueInv
  /\ part = "audit" => AuditInv

\* DecisionsInv holds in every state of the API.
LEMMA DecisionsAlways == BackendSpec => []DecisionsInv
<1>1. BackendInit => DecisionsInv
  <2> SUFFICES ASSUME BackendInit PROVE DecisionsInv
    OBVIOUS
  <2>1. StartInv /\ ShopInv /\ AuditInv
    BY StartInit, ShopInit, AuditInit DEF BackendInit
  <2>2. QueueInv
    BY DEF BackendInit, Videos!Init, QueueInv, Videos!TakedownEmptiesQueue
  <2> QED
    BY <2>1, <2>2 DEF DecisionsInv
<1>2. DecisionsInv /\ [BackendNext]_allVars => DecisionsInv'
  <2> SUFFICES ASSUME DecisionsInv, [BackendNext]_allVars PROVE DecisionsInv'
    OBVIOUS
  <2>1. part' = part
    BY PartStays
  <2>2. CASE part = "starts"
    BY <2>1, <2>2, StartsMove, StartStep DEF DecisionsInv
  <2>3. CASE part = "shops"
    BY <2>1, <2>3, ShopsMove, ShopStep DEF DecisionsInv
  <2>4. CASE part = "clips"
    BY <2>1, <2>4, VideosMove, QueueStep DEF DecisionsInv
  <2>5. CASE part = "audit"
    BY <2>1, <2>5, AuditMove, AuditStep DEF DecisionsInv
  <2> QED
    BY <2>1, <2>2, <2>3, <2>4, <2>5 DEF DecisionsInv
<1> QED
  BY <1>1, <1>2, PTL DEF BackendSpec

\* A start replaces the open session and a stop ends what it saw; a member's row is what
\* the owner asked of it last; a takedown empties the queue of reports; and the log tells
\* the history of each role: for any number of overlapping requests, users and admins.
THEOREM WhatIsDecidedStands == BackendSpec => []DecisionsStand
<1>1. DecisionsInv => DecisionsStand
  <2> SUFFICES ASSUME DecisionsInv PROVE DecisionsStand
    OBVIOUS
  <2>1. part = "audit" => Audit!TrailLinksUp
    <3> SUFFICES ASSUME AuditInv PROVE Audit!TrailLinksUp
      BY DEF DecisionsInv
    <3>1. ASSUME NEW u \in Admins, u \notin auditLost \cup auditCrossed,
                 \A c \in Twins : ~(auditStep[c] = "audit" /\ change[c].target = u)
          PROVE  LinksUp(trail, u) /\ Leaves(trail, u, adminRole[u])
      BY <3>1 DEF AuditInv, TrailFits, Audit!UnderWay
    <3> QED
      BY <3>1 DEF Audit!TrailLinksUp, LinksUp, Leaves, RowsOf, Audit!Rows
  <2> QED
    BY <2>1 DEF DecisionsInv, DecisionsStand, StartInv, ShopInv, QueueInv
<1> QED
  BY <1>1, DecisionsAlways, PTL

------------------------------------------------------------------------------
(* Counters beside the rows they count: Videos, Shops and Keys. *)

\* Adding an element to a finite set, or taking one away, moves its size by one or not.
LEMMA SizeMoves ==
  ASSUME NEW S, IsFiniteSet(S), NEW x
  PROVE  /\ Cardinality(S) \in Nat
         /\ IsFiniteSet(S \cup {x}) /\ IsFiniteSet(S \ {x})
         /\ Cardinality(S \cup {x}) = Cardinality(S) + (IF x \in S THEN 0 ELSE 1)
         /\ Cardinality(S \ {x}) = Cardinality(S) - (IF x \in S THEN 1 ELSE 0)
<1>1. Cardinality(S) \in Nat
  BY FS_CardinalityType
<1>2. /\ IsFiniteSet(S \cup {x})
      /\ Cardinality(S \cup {x}) = IF x \in S THEN Cardinality(S) ELSE Cardinality(S) + 1
  BY FS_AddElement
<1>3. /\ IsFiniteSet(S \ {x})
      /\ Cardinality(S \ {x}) = IF x \in S THEN Cardinality(S) - 1 ELSE Cardinality(S)
  BY FS_RemoveElement
<1> QED
  BY <1>1, <1>2, <1>3

\* Who of Calls is at the step s.
Who(f, s) == {c \in Calls : f[c] = s}

\* What a move of a call from the step a to the step s does to the number of calls at t,
\* n before it and m after.
Counted(n, m, a, s, t) ==
  /\ n \in Nat /\ m \in Nat
  /\ (a = t <=> s = t) => m = n
  /\ a = t /\ s # t => m = n - 1
  /\ a # t /\ s = t => m = n + 1

\* A call that moves leaves those at its step and joins those at the next one.
LEMMA CallMoves ==
  ASSUME NEW f, DOMAIN f = Calls, NEW c \in Calls, NEW s, NEW t
  PROVE  Counted(Cardinality(Who(f, t)), Cardinality(Who([f EXCEPT ![c] = s], t)), f[c], s, t)
<1> DEFINE others == Who(f, t) \ {c}
<1>1. IsFiniteSet(Who(f, t))
  BY FS_Subset, BackendAssumption DEF Who
<1>2. /\ Cardinality(Who(f, t)) \in Nat /\ IsFiniteSet(others) /\ Cardinality(others) \in Nat
      /\ f[c] = t => Cardinality(others) = Cardinality(Who(f, t)) - 1
      /\ f[c] # t => Cardinality(others) = Cardinality(Who(f, t))
  <2>1. (c \in Who(f, t)) <=> f[c] = t
    BY DEF Who
  <2>2. IsFiniteSet(others)
    BY <1>1, SizeMoves
  <2> QED
    BY <1>1, <2>1, <2>2, SizeMoves
<1>3. CASE s = t
  <2>1. Who([f EXCEPT ![c] = s], t) = others \cup {c}
    BY <1>3 DEF Who
  <2>2. c \notin others
    OBVIOUS
  <2>3. Cardinality(others \cup {c}) = Cardinality(others) + 1
    BY <1>2, <2>2, SizeMoves
  <2>4. Cardinality(Who([f EXCEPT ![c] = s], t)) = Cardinality(others) + 1
    BY <2>1, <2>3
  <2> HIDE DEF others
  <2> QED
    BY <1>2, <1>3, <2>4 DEF Counted
<1>4. CASE s # t
  <2>1. Who([f EXCEPT ![c] = s], t) = others
    BY <1>4 DEF Who
  <2> HIDE DEF others
  <2> QED
    BY <1>2, <1>4, <2>1 DEF Counted
<1> QED
  BY <1>3, <1>4

VideoTypes ==
  /\ DOMAIN clipStep = Calls
  /\ IsFiniteSet(clipLikes) /\ IsFiniteSet(views)
  /\ {likeCount, anonymous, viewCount, viewsLost} \subseteq Nat /\ likeDrift \in Int

VideoInv == VideoTypes /\ Videos!LikesAccounted /\ Videos!ViewsAccounted

\* Sizes are the same within Clips and outside.
LEMMA VideoSizes == ASSUME NEW S PROVE Videos!Cardinality(S) = Cardinality(S)
BY DEF Videos!Cardinality, Cardinality

\* The invariant holds at first.
LEMMA VideoInit == ASSUME Videos!Init PROVE VideoInv
<1>1. \A s \in {"likePlus", "likeMinus", "viewPlus"} : Videos!At(s) = {}
  BY DEF Videos!Init, Videos!At
<1> QED
  BY <1>1, FS_EmptySet, VideoSizes
     DEF Videos!Init, VideoInv, VideoTypes, Videos!LikesAccounted, Videos!ViewsAccounted

\* Each request keeps it: a row and the step towards its counter come and go together.
LEMMA VideoStep == ASSUME VideoInv, [Videos!Next]_videoVars PROVE VideoInv'
<1> USE DEF VideoInv, VideoTypes
<1> DEFINE Moves(c, s) == clipStep' = [clipStep EXCEPT ![c] = s]
           At(t) == Cardinality(Who(clipStep, t))
<1>1. /\ Videos!LikesAccounted <=> likeCount + At("likePlus")
                                    = Cardinality(clipLikes) + At("likeMinus") + likeDrift
      /\ Videos!ViewsAccounted <=> viewCount + At("viewPlus") + viewsLost
                                    = Cardinality(views) + anonymous
  BY VideoSizes DEF Videos!LikesAccounted, Videos!ViewsAccounted, Videos!At, Who
<1>2. (/\ Videos!LikesAccounted <=> likeCount + At("likePlus")
                                    = Cardinality(clipLikes) + At("likeMinus") + likeDrift
       /\ Videos!ViewsAccounted <=> viewCount + At("viewPlus") + viewsLost
                                    = Cardinality(views) + anonymous)'
  BY VideoSizes DEF Videos!LikesAccounted, Videos!ViewsAccounted, Videos!At, Who
<1>3. ASSUME NEW c \in Calls, NEW s, Moves(c, s)
      PROVE  /\ DOMAIN clipStep' = Calls
             /\ \A t : Counted(At(t), At(t)', clipStep[c], s, t)
  BY <1>3, CallMoves
<1>4. Cardinality(clipLikes) \in Nat /\ Cardinality(views) \in Nat
  BY SizeMoves
<1> HIDE DEF At
<1>5. ASSUME NEW c \in Calls, NEW s, Moves(c, s),
             UNCHANGED <<clipLikes, likeCount, likeDrift, views, anonymous, viewCount, viewsLost>>,
             clipStep[c] \notin {"likePlus", "likeMinus", "viewPlus"},
             s \notin {"likePlus", "likeMinus", "viewPlus"}
      PROVE  VideoInv'
  <2>1. /\ At("likePlus")' = At("likePlus") /\ At("likeMinus")' = At("likeMinus")
        /\ At("viewPlus")' = At("viewPlus") /\ DOMAIN clipStep' = Calls
    <3>1. DOMAIN clipStep' = Calls /\ \A t : Counted(At(t), At(t)', clipStep[c], s, t)
      BY <1>3, <1>5
    <3> QED
      BY <1>5, <3>1 DEF Counted
  <2> QED
    BY <1>1, <1>2, <1>5, <2>1
<1>6. ASSUME NEW c \in Calls, Videos!InsertLike(c) PROVE VideoInv'
  <2>1. CASE user[c] \in clipLikes
    <3>1. Moves(c, "done") /\ clipLikes' = clipLikes
      BY <1>6, <2>1 DEF Videos!InsertLike, Videos!GoTo
    <3> QED
      BY <1>5, <1>6, <3>1 DEF Videos!InsertLike, Videos!viewVars
  <2>2. CASE user[c] \notin clipLikes
    <3>1. Moves(c, "likePlus") /\ clipStep[c] = "like"
      BY <1>6, <2>2 DEF Videos!InsertLike, Videos!GoTo
    <3>2. DOMAIN clipStep' = Calls /\ \A t : Counted(At(t), At(t)', clipStep[c], "likePlus", t)
      BY <1>3, <3>1
    <3>3. /\ At("likePlus")' = At("likePlus") + 1 /\ At("likeMinus")' = At("likeMinus")
          /\ At("viewPlus")' = At("viewPlus")
          /\ At("likePlus") \in Nat /\ At("likeMinus") \in Nat
      BY <3>1, <3>2 DEF Counted
    <3>4. IsFiniteSet(clipLikes') /\ Cardinality(clipLikes') = Cardinality(clipLikes) + 1
      BY <1>6, <2>2, SizeMoves DEF Videos!InsertLike
    <3> QED
      BY <1>1, <1>2, <1>4, <1>6, <3>2, <3>3, <3>4 DEF Videos!InsertLike, Videos!viewVars
  <2> QED
    BY <2>1, <2>2
<1>7. ASSUME NEW c \in Calls, Videos!DeleteLike(c) PROVE VideoInv'
  <2>1. CASE user[c] \notin clipLikes
    <3>1. Moves(c, "done") /\ clipLikes' = clipLikes
      BY <1>7, <2>1 DEF Videos!DeleteLike, Videos!GoTo
    <3> QED
      BY <1>5, <1>7, <3>1 DEF Videos!DeleteLike, Videos!viewVars
  <2>2. CASE user[c] \in clipLikes
    <3>1. Moves(c, "likeMinus") /\ clipStep[c] = "unlike"
      BY <1>7, <2>2 DEF Videos!DeleteLike, Videos!GoTo
    <3>2. DOMAIN clipStep' = Calls /\ \A t : Counted(At(t), At(t)', clipStep[c], "likeMinus", t)
      BY <1>3, <3>1
    <3>3. /\ At("likeMinus")' = At("likeMinus") + 1 /\ At("likePlus")' = At("likePlus")
          /\ At("viewPlus")' = At("viewPlus")
          /\ At("likePlus") \in Nat /\ At("likeMinus") \in Nat
      BY <3>1, <3>2 DEF Counted
    <3>4. IsFiniteSet(clipLikes') /\ Cardinality(clipLikes') = Cardinality(clipLikes) - 1
      BY <1>7, <2>2, SizeMoves DEF Videos!DeleteLike
    <3> QED
      BY <1>1, <1>2, <1>4, <1>7, <3>2, <3>3, <3>4 DEF Videos!DeleteLike, Videos!viewVars
  <2> QED
    BY <2>1, <2>2
<1>8. ASSUME NEW c \in Calls, Videos!CountLike(c) \/ Videos!UncountLike(c) PROVE VideoInv'
  <2>1. Moves(c, "done")
    BY <1>8 DEF Videos!CountLike, Videos!UncountLike, Videos!GoTo
  <2>2. DOMAIN clipStep' = Calls /\ \A t : Counted(At(t), At(t)', clipStep[c], "done", t)
    BY <1>3, <2>1
  <2>3. CASE Videos!CountLike(c)
    <3>1. /\ At("likePlus")' = At("likePlus") - 1 /\ At("likeMinus")' = At("likeMinus")
          /\ At("viewPlus")' = At("viewPlus")
          /\ At("likePlus") \in Nat /\ At("likeMinus") \in Nat
      BY <2>2, <2>3 DEF Counted, Videos!CountLike
    <3> QED
      BY <1>1, <1>2, <1>4, <2>2, <2>3, <3>1 DEF Videos!CountLike, Videos!viewVars
  <2>4. CASE Videos!UncountLike(c)
    <3>1. /\ At("likeMinus")' = At("likeMinus") - 1 /\ At("likePlus")' = At("likePlus")
          /\ At("viewPlus")' = At("viewPlus")
          /\ At("likePlus") \in Nat /\ At("likeMinus") \in Nat
      BY <2>2, <2>4 DEF Counted, Videos!UncountLike
    <3> QED
      BY <1>1, <1>2, <1>4, <2>2, <2>4, <3>1 DEF Videos!UncountLike, Videos!viewVars
  <2> QED
    BY <1>8, <2>3, <2>4
<1>9. ASSUME NEW c \in Calls, Videos!ViewAnonymously(c) PROVE VideoInv'
  <2>1. Moves(c, "done")
    BY <1>9 DEF Videos!ViewAnonymously
  <2>2. DOMAIN clipStep' = Calls /\ \A t : Counted(At(t), At(t)', clipStep[c], "done", t)
    BY <1>3, <2>1
  <2>3. /\ At("likePlus")' = At("likePlus") /\ At("likeMinus")' = At("likeMinus")
        /\ At("viewPlus")' = At("viewPlus") /\ At("viewPlus") \in Nat
    BY <1>9, <2>2 DEF Counted, Videos!ViewAnonymously
  <2> QED
    BY <1>1, <1>2, <1>4, <1>9, <2>2, <2>3 DEF Videos!ViewAnonymously, Videos!likeVars
<1>10. ASSUME NEW c \in Calls, NEW u \in Users, Videos!View(c, u) PROVE VideoInv'
  <2>1. CASE u \in views
    <3>1. Moves(c, "done") /\ views' = views
      BY <1>10, <2>1 DEF Videos!View
    <3> QED
      BY <1>5, <1>10, <3>1 DEF Videos!View, Videos!likeVars
  <2>2. CASE u \notin views
    <3>1. Moves(c, "viewPlus") /\ clipStep[c] = "idle"
      BY <1>10, <2>2 DEF Videos!View
    <3>2. DOMAIN clipStep' = Calls /\ \A t : Counted(At(t), At(t)', clipStep[c], "viewPlus", t)
      BY <1>3, <3>1
    <3>3. /\ At("likeMinus")' = At("likeMinus") /\ At("likePlus")' = At("likePlus")
          /\ At("viewPlus")' = At("viewPlus") + 1 /\ At("viewPlus") \in Nat
      BY <3>1, <3>2 DEF Counted
    <3>4. IsFiniteSet(views') /\ Cardinality(views') = Cardinality(views) + 1
      BY <1>10, <2>2, SizeMoves DEF Videos!View
    <3> QED
      BY <1>1, <1>2, <1>4, <1>10, <3>2, <3>3, <3>4 DEF Videos!View, Videos!likeVars
  <2> QED
    BY <2>1, <2>2
<1>11. ASSUME NEW c \in Calls, Videos!CountView(c) PROVE VideoInv'
  <2>1. Moves(c, "done")
    BY <1>11 DEF Videos!CountView, Videos!GoTo
  <2>2. DOMAIN clipStep' = Calls /\ \A t : Counted(At(t), At(t)', clipStep[c], "done", t)
    BY <1>3, <2>1
  <2>3. /\ At("likePlus")' = At("likePlus") /\ At("likeMinus")' = At("likeMinus")
        /\ At("viewPlus")' = At("viewPlus") - 1 /\ At("viewPlus") \in Nat
    BY <1>11, <2>2 DEF Counted, Videos!CountView
  <2> QED
    BY <1>1, <1>2, <1>4, <1>11, <2>2, <2>3 DEF Videos!CountView, Videos!likeVars
<1>12. ASSUME NEW c \in Calls,
              \/ \E u \in Users : \/ Videos!SetLike(c, u) \/ Videos!BeginComment(c, u)
                                 \/ Videos!BeginReport(c, u)
              \/ Videos!AddComment(c) \/ Videos!CountComment(c) \/ Videos!AddReport(c)
       PROVE  VideoInv'
  <2>1. UNCHANGED <<clipLikes, likeCount, likeDrift, views, anonymous, viewCount, viewsLost>>
    BY <1>12 DEF Videos!SetLike, Videos!BeginComment, Videos!BeginReport, Videos!AddComment,
                 Videos!CountComment, Videos!AddReport, Videos!likeVars, Videos!viewVars
  <2>2. \E s \in {"like", "unlike", "comment", "report", "commentPlus", "done"} : Moves(c, s)
    BY <1>12 DEF Videos!SetLike, Videos!BeginComment, Videos!BeginReport, Videos!AddComment,
                 Videos!CountComment, Videos!AddReport, Videos!Begin, Videos!GoTo
  <2>3. clipStep[c] \in {"idle", "comment", "commentPlus", "report"}
    BY <1>12 DEF Videos!SetLike, Videos!BeginComment, Videos!BeginReport, Videos!AddComment,
                 Videos!CountComment, Videos!AddReport, Videos!Begin
  <2> QED
    BY <1>5, <2>1, <2>2, <2>3
<1>13. ASSUME \/ Videos!Create \/ UNCHANGED videoVars
              \/ \E u \in Users, isAdmin \in BOOLEAN : Videos!SoftDelete(u, isAdmin)
              \/ \E u \in Users : Videos!ResolveReport(u)
       PROVE  VideoInv'
  <2>1. UNCHANGED <<clipStep, clipLikes, likeCount, likeDrift, views, anonymous, viewCount,
                    viewsLost>>
    BY <1>13 DEF Videos!Create, videoVars, Videos!SoftDelete, Videos!ResolveReport,
                 Videos!Takedown, Videos!Dismiss, Videos!likeVars, Videos!viewVars
  <2> QED
    BY <2>1 DEF Videos!LikesAccounted, Videos!ViewsAccounted, Videos!At
<1> HIDE DEF VideoInv, VideoTypes
<1> QED
  BY <1>6, <1>7, <1>8, <1>9, <1>10, <1>11, <1>12, <1>13
     DEF Videos!Next, Videos!LikeRequest, Videos!ViewRequest, Videos!CommentRequest,
         Videos!ReportRequest

FollowTypes ==
  /\ DOMAIN shopStep = Calls
  /\ IsFiniteSet(shopFollows)
  /\ followerCount \in Nat /\ refollows \in Nat /\ followsLost \in Int

FollowInv == FollowTypes /\ Shops!FollowersAccounted

\* Sizes are the same within Shops and outside.
LEMMA ShopSizes == ASSUME NEW S PROVE Shops!Cardinality(S) = Cardinality(S)
BY DEF Shops!Cardinality, Cardinality

\* The invariant holds at first.
LEMMA FollowInit == ASSUME Shops!Init PROVE FollowInv
<1>1. \A s \in {"followPlus", "followMinus"} : {c \in Calls : shopStep[c] = s} = {}
  BY DEF Shops!Init
<1> QED
  BY <1>1, FS_EmptySet, ShopSizes
     DEF Shops!Init, FollowInv, FollowTypes, Shops!FollowersAccounted

\* Each request keeps it: a follow counts as often as it is asked for, an unfollow once.
LEMMA FollowStep == ASSUME FollowInv, [Shops!Next]_shopVars PROVE FollowInv'
<1> USE DEF FollowInv, FollowTypes
<1> DEFINE Moves(c, s) == shopStep' = [shopStep EXCEPT ![c] = s]
           At(t) == Cardinality(Who(shopStep, t))
<1>1. Shops!FollowersAccounted <=>
        followerCount + At("followPlus")
          = Cardinality(shopFollows) + At("followMinus") + refollows + followsLost
  BY ShopSizes DEF Shops!FollowersAccounted, Who
<1>2. (Shops!FollowersAccounted <=>
        followerCount + At("followPlus")
          = Cardinality(shopFollows) + At("followMinus") + refollows + followsLost)'
  BY ShopSizes DEF Shops!FollowersAccounted, Who
<1>3. ASSUME NEW c \in Calls, NEW s, Moves(c, s)
      PROVE  DOMAIN shopStep' = Calls /\ \A t : Counted(At(t), At(t)', shopStep[c], s, t)
  BY <1>3, CallMoves
<1>4. Cardinality(shopFollows) \in Nat
  BY SizeMoves
<1> HIDE DEF At
<1>5. ASSUME NEW c \in Calls, NEW s, Moves(c, s),
             UNCHANGED <<shopFollows, followerCount, refollows, followsLost>>,
             shopStep[c] \notin {"followPlus", "followMinus"},
             s \notin {"followPlus", "followMinus"}
      PROVE  FollowInv'
  <2>1. /\ At("followPlus")' = At("followPlus") /\ At("followMinus")' = At("followMinus")
        /\ DOMAIN shopStep' = Calls
    <3>1. DOMAIN shopStep' = Calls /\ \A t : Counted(At(t), At(t)', shopStep[c], s, t)
      BY <1>3, <1>5
    <3> QED
      BY <1>5, <3>1 DEF Counted
  <2> QED
    BY <1>1, <1>2, <1>5, <2>1
<1>6. ASSUME NEW c \in Calls, NEW u \in Viewers, Shops!Follow(c, u) PROVE FollowInv'
  <2>1. Moves(c, "followPlus") /\ shopStep[c] = "idle"
    BY <1>6 DEF Shops!Follow, Shops!GoTo
  <2>2. DOMAIN shopStep' = Calls
        /\ \A t : Counted(At(t), At(t)', shopStep[c], "followPlus", t)
    BY <1>3, <2>1
  <2>3. /\ At("followPlus")' = At("followPlus") + 1 /\ At("followMinus")' = At("followMinus")
        /\ At("followPlus") \in Nat /\ At("followMinus") \in Nat
    BY <2>1, <2>2 DEF Counted
  <2>4. /\ IsFiniteSet(shopFollows')
        /\ Cardinality(shopFollows') = Cardinality(shopFollows) + (IF u \in shopFollows THEN 0 ELSE 1)
    BY <1>6, SizeMoves DEF Shops!Follow
  <2>5. /\ refollows' = refollows + (IF u \in shopFollows THEN 1 ELSE 0)
        /\ UNCHANGED <<followerCount, followsLost>>
    BY <1>6 DEF Shops!Follow
  <2>6. Shops!FollowersAccounted'
    BY <1>1, <1>2, <1>4, <2>3, <2>4, <2>5
  <2> QED
    BY <2>2, <2>4, <2>5, <2>6
<1>7. ASSUME NEW c \in Calls, NEW u \in Viewers, Shops!Unfollow(c, u) PROVE FollowInv'
  <2>1. CASE u \notin shopFollows
    <3>1. /\ Moves(c, "done") /\ shopStep[c] = "idle"
          /\ UNCHANGED <<shopFollows, followerCount, refollows, followsLost>>
      BY <1>7, <2>1 DEF Shops!Unfollow, Shops!GoTo
    <3> HIDE DEF FollowInv, FollowTypes, Moves
    <3> QED
      BY <1>5, <3>1
  <2>2. CASE u \in shopFollows
    <3>1. Moves(c, "followMinus") /\ shopStep[c] = "idle"
      BY <1>7, <2>2 DEF Shops!Unfollow, Shops!GoTo
    <3>2. DOMAIN shopStep' = Calls
          /\ \A t : Counted(At(t), At(t)', shopStep[c], "followMinus", t)
      BY <1>3, <3>1
    <3>3. /\ At("followPlus")' = At("followPlus")
          /\ At("followMinus")' = At("followMinus") + 1
          /\ At("followPlus") \in Nat /\ At("followMinus") \in Nat
      BY <3>1, <3>2 DEF Counted
    <3>4. IsFiniteSet(shopFollows') /\ Cardinality(shopFollows') = Cardinality(shopFollows) - 1
      BY <1>7, <2>2, SizeMoves DEF Shops!Unfollow
    <3> QED
      BY <1>1, <1>2, <1>4, <1>7, <3>2, <3>3, <3>4 DEF Shops!Unfollow
  <2> QED
    BY <2>1, <2>2
<1>8. ASSUME NEW c \in Calls, Shops!CountFollow(c) \/ Shops!UncountFollow(c) PROVE FollowInv'
  <2>1. Moves(c, "done")
    BY <1>8 DEF Shops!CountFollow, Shops!UncountFollow, Shops!GoTo
  <2>2. DOMAIN shopStep' = Calls /\ \A t : Counted(At(t), At(t)', shopStep[c], "done", t)
    BY <1>3, <2>1
  <2>3. CASE Shops!CountFollow(c)
    <3>1. /\ At("followPlus")' = At("followPlus") - 1
          /\ At("followMinus")' = At("followMinus")
          /\ At("followPlus") \in Nat /\ At("followMinus") \in Nat
      BY <2>2, <2>3 DEF Counted, Shops!CountFollow
    <3> QED
      BY <1>1, <1>2, <1>4, <2>2, <2>3, <3>1 DEF Shops!CountFollow
  <2>4. CASE Shops!UncountFollow(c)
    <3>1. /\ At("followPlus")' = At("followPlus")
          /\ At("followMinus")' = At("followMinus") - 1
          /\ At("followPlus") \in Nat /\ At("followMinus") \in Nat
      BY <2>2, <2>4 DEF Counted, Shops!UncountFollow
    <3> QED
      BY <1>1, <1>2, <1>4, <2>2, <2>4, <3>1 DEF Shops!UncountFollow
  <2> QED
    BY <1>8, <2>3, <2>4
<1>9. ASSUME NEW c \in Calls, Shops!MemberRequest(c) PROVE FollowInv'
  <2>1. UNCHANGED <<shopFollows, followerCount, refollows, followsLost>>
    BY <1>9 DEF Shops!MemberRequest, Shops!ReadMember, Shops!Add, Shops!RemoveMember,
                Shops!UpdateStatus, Shops!followVars
  <2>2. /\ Moves(c, "merge") \/ Moves(c, "done")
        /\ shopStep[c] \in {"idle", "merge"}
    BY <1>9 DEF Shops!MemberRequest, Shops!ReadMember, Shops!Add, Shops!RemoveMember,
                Shops!UpdateStatus, Shops!GoTo
  <2> QED
    BY <1>5, <2>1, <2>2
<1>10. ASSUME \/ UNCHANGED shopVars
              \/ \E u \in Viewers \cup {ShopOwner} : Shops!StartLive(u)
       PROVE  FollowInv'
  <2>1. UNCHANGED <<shopStep, shopFollows, followerCount, refollows, followsLost>>
    BY <1>10 DEF shopVars, Shops!StartLive, Shops!followVars, Shops!callVars
  <2> QED
    BY <2>1 DEF Shops!FollowersAccounted
<1> HIDE DEF FollowInv, FollowTypes
<1> QED
  BY <1>6, <1>7, <1>8, <1>9, <1>10 DEF Shops!Next, Shops!FollowRequest

\* While the part moves, its steps are those of StreamKeys.
LEMMA KeysMove ==
  ASSUME [BackendNext]_allVars, part = "keys"
  PROVE  part' = "keys" /\ [Keys!Next]_keyVars
<1>1. CASE BackendNext
  BY <1>1 DEF BackendNext
<1>2. CASE UNCHANGED allVars
  BY <1>2 DEF allVars, keyVars
<1> QED
  BY <1>1, <1>2

\* A request has one key from when it is issued, of its own; the registry has none of
\* those that have not asked, and knows each key unless it was drawn here.
KeyInv ==
  /\ keyStep \in [Twins -> {"idle", "asking", "issued", "created", "failed"}]
  /\ DOMAIN issuedKey = Twins
  /\ \A r \in Twins :
       /\ keyStep[r] \in {"issued", "created"} =>
            \E k \in {Keys!Local(r), Keys!Infra(r)} : issuedKey[r] = {k}
       /\ keyStep[r] \in {"idle", "asking"} => issuedKey[r] = {} /\ Keys!Infra(r) \notin registry
       /\ keyStep[r] \in {"issued", "created"} /\ Keys!Infra(r) \in registry =>
            issuedKey[r] = {Keys!Infra(r)} \/ Keys!Infra(r) \in strayed
       /\ keyStep[r] # "created" => {Keys!Local(r), Keys!Infra(r)} \cap keyedSessions = {}
       /\ Keys!Local(r) \in issuedKey[r] => provider = "local" \/ fallback
       /\ Keys!Infra(r) \in issuedKey[r] => Keys!Infra(r) \in registry
       /\ keyStep[r] = "created" => issuedKey[r] \subseteq keyedSessions
       /\ keyStep[r] = "failed" /\ Keys!Infra(r) \in registry => Keys!Infra(r) \in strayed
       /\ keyStep[r] \in {"issued", "created"} /\ issuedKey[r] = {Keys!Local(r)}
            => Keys!Infra(r) \notin keyedSessions
  /\ registry \subseteq {Keys!Infra(r) : r \in Twins}
  /\ Keys!KeysHold

\* Each step of a request keeps it.
LEMMA KeyStep == ASSUME KeyInv, [Keys!Next]_keyVars PROVE KeyInv'
<1> USE DEF KeyInv, Keys!KeysHold, Keys!RegistryKnowsKeys, Keys!KeysAccounted, Keys!Goto
<1>0. /\ \A r, q : /\ Keys!Local(r) # Keys!Infra(q)
                   /\ Keys!Infra(r) = Keys!Infra(q) => r = q
                   /\ Keys!Local(r) = Keys!Local(q) => r = q
      /\ \A r : Keys!Infra(r).for = r
  <2>1. ASSUME NEW r, NEW q PROVE Keys!Local(r).by # Keys!Infra(q).by
    BY DEF Keys!Local, Keys!Infra
  <2>2. ASSUME NEW r PROVE Keys!Infra(r).for = r /\ Keys!Local(r).for = r
    BY DEF Keys!Local, Keys!Infra
  <2> QED
    BY <2>1, <2>2
<1>1. ASSUME NEW r \in Twins, Keys!Begin(r) PROVE KeyInv'
  BY <1>0, <1>1 DEF Keys!Begin, Keys!Issued
<1>2. ASSUME NEW r \in Twins, keyStep[r] = "asking", UNCHANGED <<provider, fallback, keyedSessions>>,
             Keys!Accept(r)
      PROVE  KeyInv'
  BY <1>0, <1>2 DEF Keys!Accept, Keys!Issued
<1>3. ASSUME NEW r \in Twins, keyStep[r] = "asking", UNCHANGED <<provider, fallback, keyedSessions>>,
             Keys!Fails(r), UNCHANGED <<registry, strayed>> \/ Keys!Stray(r)
      PROVE  KeyInv'
  BY <1>0, <1>3 DEF Keys!Fails, Keys!Stray
<1>4. ASSUME NEW r \in Twins, keyStep[r] = "asking", UNCHANGED <<provider, fallback, keyedSessions>>,
             fallback, Keys!Issued(r, Keys!Local(r)),
             UNCHANGED <<registry, strayed>> \/ Keys!Stray(r)
      PROVE  KeyInv'
  BY <1>0, <1>4 DEF Keys!Issued, Keys!Stray
<1>5. ASSUME NEW r \in Twins, Keys!Create(r) PROVE KeyInv'
  BY <1>0, <1>5 DEF Keys!Create
<1>6. CASE UNCHANGED keyVars
  BY <1>6 DEF keyVars
<1> HIDE DEF KeyInv
<1> QED
  BY <1>1, <1>2, <1>3, <1>4, <1>5, <1>6
     DEF Keys!Next, Keys!Issue, Keys!Reject, Keys!Unavailable, Keys!FallbackOrFail

CountersInv ==
  /\ part = "clips" => VideoInv
  /\ part = "shops" => FollowInv
  /\ part = "keys" => KeyInv

\* However likes, views, follows and requests for a key interleave, and wherever one of
\* their statements fails, a counter differs from its rows by what was lost and by
\* nothing else, and each key of the registry has a session, a request or a loss.
THEOREM CountersAddUp == BackendSpec => []CountersAccounted
<1>1. BackendInit => CountersInv
  <2> SUFFICES ASSUME BackendInit PROVE CountersInv
    OBVIOUS
  <2>1. Videos!Init /\ Shops!Init /\ Keys!Init
    BY DEF BackendInit
  <2>2. KeyInv
    BY <2>1 DEF Keys!Init, KeyInv, Keys!KeysHold, Keys!RegistryKnowsKeys, Keys!KeysAccounted
  <2> QED
    BY <2>1, <2>2, VideoInit, FollowInit DEF CountersInv
<1>2. CountersInv /\ [BackendNext]_allVars => CountersInv'
  <2> SUFFICES ASSUME CountersInv, [BackendNext]_allVars PROVE CountersInv'
    OBVIOUS
  <2>1. part' = part
    BY PartStays
  <2>2. CASE part = "clips"
    BY <2>1, <2>2, VideosMove, VideoStep DEF CountersInv
  <2>3. CASE part = "shops"
    BY <2>1, <2>3, ShopsMove, FollowStep DEF CountersInv
  <2>4. CASE part = "keys"
    BY <2>1, <2>4, KeysMove, KeyStep DEF CountersInv
  <2> QED
    BY <2>1, <2>2, <2>3, <2>4 DEF CountersInv
<1>3. CountersInv => CountersAccounted
  BY DEF CountersInv, CountersAccounted, VideoInv, FollowInv, KeyInv
<1> QED
  BY <1>1, <1>2, <1>3, PTL DEF BackendSpec

------------------------------------------------------------------------------
(* The bans of a chat: Chat. *)

\* While the part moves, its steps are those of ChatModeration.
LEMMA ChatMove ==
  ASSUME [BackendNext]_allVars
  PROVE  \/ part = "chat" /\ [Chat!Next]_chatVars
         \/ UNCHANGED chatVars
<1>1. CASE BackendNext
  BY <1>1 DEF BackendNext, Still
<1>2. CASE UNCHANGED allVars
  BY <1>2 DEF allVars, chatVars
<1> QED
  BY <1>1, <1>2

\* The row of the mute table ends when the longest mute asked for does.
BanInv ==
  /\ chatClock \in Nat /\ mutedUntil \in [Viewers -> Nat] /\ ban = mutedUntil
  /\ DOMAIN chatStage = Viewers

\* Each step of a message and of the moderation keeps it, and passes the gate only when
\* the ban is over.
LEMMA BanStep ==
  ASSUME BanInv, [Chat!Next]_chatVars
  PROVE  /\ BanInv'
         /\ \A v \in Viewers :
              chatStage[v] = "gate" /\ chatStage'[v] = "filter" => ban[v] <= chatClock
<1> DEFINE Goal ==
             /\ BanInv'
             /\ \A v \in Viewers :
                  chatStage[v] = "gate" /\ chatStage'[v] = "filter" => ban[v] <= chatClock
           Goes(v, s) == chatStage' = [chatStage EXCEPT ![v] = s]
<1>0. AutoMute \in Nat /\ HostMutes \subseteq Nat
  BY BackendAssumption
<1> USE <1>0 DEF BanInv, Chat!GoTo, Chat!Later, Chat!muteVars, Chat!Mute
<1>1. ASSUME NEW v \in Viewers,
             \/ \E t \in Chat!Texts : Chat!PostChat(v, t)
             \/ Chat!PassGate(v) \/ Chat!Refused(v) \/ Chat!GateFails(v)
      PROVE  Goal
  <2>1. UNCHANGED <<chatClock, mutedUntil, ban>>
    BY <1>1 DEF Chat!PostChat, Chat!PassGate, Chat!Refused, Chat!GateFails
  <2>2. \E s : Goes(v, s) /\ (s = "filter" => ~(mutedUntil[v] > chatClock))
    BY <1>1 DEF Chat!PostChat, Chat!PassGate, Chat!Refused, Chat!GateFails, Chat!ActiveMute
  <2> QED
    BY <2>1, <2>2
<1>2. ASSUME NEW v \in Viewers, Chat!FilterChatMessage(v) \/ Chat!AutoMuteIfBurst(v)
      PROVE  Goal
  <2>1. \E s \in {"idle", "burst", "insert"} : Goes(v, s)
    BY <1>2 DEF Chat!FilterChatMessage, Chat!AutoMuteIfBurst
  <2>2. chatClock' = chatClock
    BY <1>2 DEF Chat!FilterChatMessage, Chat!AutoMuteIfBurst
  <2>3. \/ UNCHANGED <<mutedUntil, ban>>
        \/ Chat!Mute(v, chatClock + AutoMute)
    BY <1>2 DEF Chat!FilterChatMessage, Chat!AutoMuteIfBurst, Chat!AutoMuteOnFilter
  <2>4. mutedUntil' \in [Viewers -> Nat] /\ ban' = mutedUntil'
    BY <2>3
  <2> QED
    BY <2>1, <2>2, <2>4
<1>3. ASSUME NEW v \in Viewers, Chat!Insert(v) \/ Chat!AskBot(v) \/ Chat!BotReply(v)
      PROVE  Goal
  BY <1>3 DEF Chat!Insert, Chat!AskBot, Chat!BotReply
<1>4. ASSUME NEW v \in Viewers,
             Chat!MuteChatUser(v) \/ Chat!UnmuteChatUser(v) \/ Chat!ForgetMasked(v)
      PROVE  Goal
  BY <1>4 DEF Chat!MuteChatUser, Chat!UnmuteChatUser, Chat!Unmute, Chat!ForgetMasked
<1>5. ASSUME Chat!PostAsHost \/ Chat!SetBot \/ Chat!BotHour \/ Chat!Tick
      PROVE  Goal
  BY <1>5 DEF Chat!PostAsHost, Chat!SetBot, Chat!BotHour, Chat!Tick
<1>6. CASE UNCHANGED chatVars
  BY <1>6 DEF chatVars
<1> QED
  BY <1>1, <1>2, <1>3, <1>4, <1>5, <1>6 DEF Chat!Next, Chat!Moderation, Chat!Message

\* A message passes the gate of the chat only when every mute asked for since the last
\* unmute is over, for any viewers and any durations of the host's and the filter's mutes.
THEOREM MutesLast == BackendSpec => BansHold
<1>1. BackendInit => BanInv
  <2>1. ASSUME Chat!Init PROVE BanInv
    BY <2>1 DEF Chat!Init, BanInv
  <2> QED
    BY <2>1 DEF BackendInit
<1>2. BanInv /\ [BackendNext]_allVars => BanInv'
  BY ChatMove, BanStep DEF BanInv, chatVars
<1>3. BanInv /\ [BackendNext]_allVars =>
        [\A v \in Viewers :
           chatStage[v] = "gate" /\ chatStage'[v] = "filter" => ban[v] <= chatClock]_Chat!vars
  BY ChatMove, BanStep DEF chatVars, Chat!vars, Chat!muteVars, Chat!botVars
<1> QED
  BY <1>1, <1>2, <1>3, PTL DEF BackendSpec, BansHold, Chat!BansHold

------------------------------------------------------------------------------
(* What the replay of a session shows: Replay and Placement. *)

\* Induction over the naturals, for a set.
LEMMA SetInduction ==
  ASSUME NEW S, 0 \in S, \A n \in Nat : n \in S => n + 1 \in S
  PROVE  Nat \subseteq S
<1> SUFFICES ASSUME Nat \ S # {} PROVE FALSE
  OBVIOUS
<1>1. PICK n \in Nat \ S : \A m \in Nat \ S : <<m, n>> \notin OpToRel(<, Nat)
  <2>1. Nat \ S \in SUBSET Nat
    OBVIOUS
  <2> QED
    BY <2>1, NatLessThanWellFounded, WFMin
<1>2. n # 0 /\ n - 1 \in Nat /\ n - 1 \notin S
  OBVIOUS
<1>3. n - 1 < n
  BY <1>2
<1> QED
  BY <1>1, <1>2, <1>3 DEF OpToRel

\* The lines kept of a list, as the loop says.
LEMMA KeptIs ==
  ASSUME NEW lines, Len(lines) \in Nat
  PROVE  Replays!Kept(lines) =
           [n \in 0..Len(lines) |-> IF n = 0 THEN <<>>
                                    ELSE Replays!Keep(Replays!Kept(lines)[n - 1], lines[n])]
<1> DEFINE Is(w, m) == w = [n \in 0..m |-> IF n = 0 THEN <<>>
                                           ELSE Replays!Keep(w[n - 1], lines[n])]
           S == {m \in Nat : \E w : Is(w, m)}
<1>1. 0 \in S
  <2>1. Is([n \in 0..0 |-> <<>>], 0)
    OBVIOUS
  <2> QED
    BY <2>1
<1>2. ASSUME NEW m \in Nat, m \in S PROVE m + 1 \in S
  <2>1. PICK w : Is(w, m)
    BY <1>2
  <2> DEFINE v == [n \in 0..(m + 1) |-> IF n = m + 1 THEN Replays!Keep(w[m], lines[m + 1])
                                        ELSE w[n]]
  <2>2. \A n \in 0..(m + 1) : v[n] = IF n = 0 THEN <<>>
                                     ELSE Replays!Keep(v[n - 1], lines[n])
    <3> SUFFICES ASSUME NEW n \in 0..(m + 1)
                 PROVE  v[n] = IF n = 0 THEN <<>> ELSE Replays!Keep(v[n - 1], lines[n])
      OBVIOUS
    <3>1. CASE n = 0
      BY <2>1, <3>1
    <3>2. CASE n = m + 1
      BY <3>2
    <3>3. CASE n \in 1..m
      BY <2>1, <3>3
    <3> QED
      BY <3>1, <3>2, <3>3
  <2>3. Is(v, m + 1)
    BY <2>2
  <2> HIDE DEF Is, v
  <2> QED
    BY <2>3
<1>3. \E w : Is(w, Len(lines))
  <2> HIDE DEF Is
  <2> QED
    BY <1>1, <1>2, SetInduction
<1> QED
  BY <1>3, Zenon DEF Replays!Kept

\* Before the first row.
NoGift == [ends |-> <<>>, shown |-> <<>>]
NoSpan == [open |-> <<>>, shown |-> <<>>]

\* The gifts placed so far, as the loop says.
LEMMA PlacedIs ==
  ASSUME NEW evs, Len(evs) \in Nat, NEW end
  PROVE  Replays!Placed(evs, end) =
           [n \in 0..Len(evs) |-> IF n = 0 THEN NoGift
                                    ELSE Replays!PlaceGift(Replays!Placed(evs, end)[n - 1], evs[n], end)]
<1> DEFINE Is(w, m) == w = [n \in 0..m |-> IF n = 0 THEN NoGift
                                           ELSE Replays!PlaceGift(w[n - 1], evs[n], end)]
           S == {m \in Nat : \E w : Is(w, m)}
<1>1. 0 \in S
  <2>1. Is([n \in 0..0 |-> NoGift], 0)
    OBVIOUS
  <2> QED
    BY <2>1
<1>2. ASSUME NEW m \in Nat, m \in S PROVE m + 1 \in S
  <2>1. PICK w : Is(w, m)
    BY <1>2
  <2> DEFINE v == [n \in 0..(m + 1) |-> IF n = m + 1 THEN Replays!PlaceGift(w[m], evs[m + 1], end)
                                        ELSE w[n]]
  <2>2. \A n \in 0..(m + 1) : v[n] = IF n = 0 THEN NoGift
                                     ELSE Replays!PlaceGift(v[n - 1], evs[n], end)
    <3> SUFFICES ASSUME NEW n \in 0..(m + 1)
                 PROVE  v[n] = IF n = 0 THEN NoGift ELSE Replays!PlaceGift(v[n - 1], evs[n], end)
      OBVIOUS
    <3>1. CASE n = 0
      BY <2>1, <3>1
    <3>2. CASE n = m + 1
      BY <3>2
    <3>3. CASE n \in 1..m
      BY <2>1, <3>3
    <3> QED
      BY <3>1, <3>2, <3>3
  <2>3. Is(v, m + 1)
    BY <2>2
  <2> HIDE DEF Is, v
  <2> QED
    BY <2>3
<1>3. \E w : Is(w, Len(evs))
  <2> HIDE DEF Is
  <2> QED
    BY <1>1, <1>2, SetInduction
<1> QED
  BY <1>3, Zenon DEF Replays!Placed, NoGift

\* The spans found so far, as the loop says.
LEMMA SwitchedIs ==
  ASSUME NEW evs, Len(evs) \in Nat, NEW kind, NEW on, NEW off
  PROVE  Replays!Switched(evs, kind, on, off) =
           [n \in 0..Len(evs) |-> IF n = 0 THEN NoSpan
                                    ELSE Replays!Switch(Replays!Switched(evs, kind, on, off)[n - 1], evs[n], kind, on, off)]
<1> DEFINE Is(w, m) == w = [n \in 0..m |-> IF n = 0 THEN NoSpan
                                           ELSE Replays!Switch(w[n - 1], evs[n], kind, on, off)]
           S == {m \in Nat : \E w : Is(w, m)}
<1>1. 0 \in S
  <2>1. Is([n \in 0..0 |-> NoSpan], 0)
    OBVIOUS
  <2> QED
    BY <2>1
<1>2. ASSUME NEW m \in Nat, m \in S PROVE m + 1 \in S
  <2>1. PICK w : Is(w, m)
    BY <1>2
  <2> DEFINE v == [n \in 0..(m + 1) |-> IF n = m + 1 THEN Replays!Switch(w[m], evs[m + 1], kind, on, off)
                                        ELSE w[n]]
  <2>2. \A n \in 0..(m + 1) : v[n] = IF n = 0 THEN NoSpan
                                     ELSE Replays!Switch(v[n - 1], evs[n], kind, on, off)
    <3> SUFFICES ASSUME NEW n \in 0..(m + 1)
                 PROVE  v[n] = IF n = 0 THEN NoSpan ELSE Replays!Switch(v[n - 1], evs[n], kind, on, off)
      OBVIOUS
    <3>1. CASE n = 0
      BY <2>1, <3>1
    <3>2. CASE n = m + 1
      BY <3>2
    <3>3. CASE n \in 1..m
      BY <2>1, <3>3
    <3> QED
      BY <3>1, <3>2, <3>3
  <2>3. Is(v, m + 1)
    BY <2>2
  <2> HIDE DEF Is, v
  <2> QED
    BY <2>3
<1>3. \E w : Is(w, Len(evs))
  <2> HIDE DEF Is
  <2> QED
    BY <1>1, <1>2, SetInduction
<1> QED
  BY <1>3, Zenon DEF Replays!Switched, NoSpan

\* A set of naturals has a least element.
LEMMA LeastOf ==
  ASSUME NEW S \in SUBSET Nat, S # {}
  PROVE  \E n \in S : \A p \in S : n <= p
<1>1. PICK n \in S : \A p \in S : <<p, n>> \notin OpToRel(<, Nat)
  BY NatLessThanWellFounded, WFMin
<1>2. \A p \in S : ~(p < n)
  BY <1>1 DEF OpToRel
<1> QED
  BY <1>2

\* The next gift goes into a lane that is free, or into a new one.
LEMMA FreeLaneIs ==
  ASSUME NEW lanes \in Seq(Int), NEW from \in Int
  PROVE  /\ Replays!FreeLane(lanes, from) \in 1..(Len(lanes) + 1)
         /\ Replays!FreeLane(lanes, from) <= Len(lanes) =>
              lanes[Replays!FreeLane(lanes, from)] <= from
<1> DEFINE free == {l \in DOMAIN lanes : from >= lanes[l]}
           l == CHOOSE k \in free : \A m \in free : k <= m
<1>1. free \in SUBSET Nat /\ free \subseteq 1..Len(lanes)
  OBVIOUS
<1>2. Replays!FreeLane(lanes, from) = IF free = {} THEN Len(lanes) + 1 ELSE l
  BY DEF Replays!FreeLane
<1>3. free # {} => l \in free
  <2> HIDE DEF free
  <2> QED
    BY <1>1, LeastOf
<1> HIDE DEF l
<1> QED
  BY <1>1, <1>2, <1>3

GiftAsset == [type : {"gift"}, from : Int, to : Int, lane : 0..MaxLane]

\* A lane is free again when the last of its gifts has faded, and of the gifts of
\* one lane each fades before the next appears, but for the last lane.
LanesApart(acc, end) ==
  /\ acc.ends \in Seq(Int)
  /\ acc.shown \in Seq(GiftAsset)
  /\ \A l \in DOMAIN acc.ends : acc.ends[l] <= end
  /\ \A i \in DOMAIN acc.shown :
       /\ acc.shown[i].to <= end
       /\ acc.shown[i].lane < MaxLane =>
            /\ acc.shown[i].lane + 1 \in DOMAIN acc.ends
            /\ acc.shown[i].to <= acc.ends[acc.shown[i].lane + 1]
  /\ \A i, j \in DOMAIN acc.shown :
       i < j /\ acc.shown[i].lane = acc.shown[j].lane /\ acc.shown[i].lane < MaxLane
         => acc.shown[i].to <= acc.shown[j].from

Event == [type : Replays!EventTypes, offset : Nat]

\* One more gift keeps the lanes apart.
LEMMA PlaceOne ==
  ASSUME NEW acc, NEW e \in Event, NEW end \in Int, LanesApart(acc, end)
  PROVE  LanesApart(Replays!PlaceGift(acc, e, end), end)
<1>0. GiftWindow \in Nat /\ MaxLane \in Nat
  BY ReplayAssumption
<1>1. CASE e.type # "gift"
  BY <1>1 DEF Replays!PlaceGift
<1>2. CASE e.type = "gift"
  <2> DEFINE to == Replays!Least(e.offset + GiftWindow, end)
             lane == Replays!FreeLane(acc.ends, e.offset)
             slot1 == Replays!Least(lane - 1, MaxLane)
             a == Replays!Asset("gift", e.offset, to, slot1)
             nends == IF lane > Len(acc.ends) THEN Append(acc.ends, to)
                      ELSE [acc.ends EXCEPT ![lane] = to]
             nshown == Append(acc.shown, a)
  <2>1. Replays!PlaceGift(acc, e, end) = [ends |-> nends, shown |-> nshown]
    BY <1>2 DEF Replays!PlaceGift
  <2>2. e.offset \in Nat /\ to \in Int /\ to <= end /\ (to = end \/ e.offset <= to)
    BY <1>0 DEF Event, Replays!Least
  <2>3. /\ lane \in 1..(Len(acc.ends) + 1)
        /\ lane <= Len(acc.ends) => acc.ends[lane] <= e.offset
    <3>1. acc.ends \in Seq(Int) /\ e.offset \in Int
      BY <2>2 DEF LanesApart
    <3> QED
      BY <3>1, FreeLaneIs
  <2>4. slot1 \in 0..MaxLane /\ (slot1 < MaxLane => lane = slot1 + 1)
    <3>1. slot1 = IF lane - 1 < MaxLane THEN lane - 1 ELSE MaxLane
      BY DEF Replays!Least
    <3>2. lane \in Nat /\ lane >= 1
      <4>1. Len(acc.ends) \in Nat
        BY DEF LanesApart
      <4> HIDE DEF lane
      <4> QED
        BY <2>3, <4>1
    <3> HIDE DEF lane, slot1
    <3> QED
      BY <1>0, <3>1, <3>2
  <2>5. a = [type |-> "gift", from |-> e.offset, to |-> to, lane |-> slot1]
    BY DEF Replays!Asset
  <2> HIDE DEF to, lane, slot1, a
  <2>6. /\ nends \in Seq(Int)
        /\ DOMAIN acc.ends \subseteq DOMAIN nends
        /\ lane \in DOMAIN nends /\ nends[lane] = to
        /\ \A l \in DOMAIN nends \ {lane} : l \in DOMAIN acc.ends /\ nends[l] = acc.ends[l]
    BY <2>2, <2>3 DEF LanesApart
  <2>7. /\ nshown \in Seq(GiftAsset)
        /\ DOMAIN nshown = 1..(Len(acc.shown) + 1)
        /\ nshown[Len(acc.shown) + 1] = a
        /\ \A i \in DOMAIN acc.shown : nshown[i] = acc.shown[i]
        /\ DOMAIN acc.shown = 1..Len(acc.shown) /\ Len(acc.shown) \in Nat
    <3>1. a \in GiftAsset
      BY <2>2, <2>4, <2>5 DEF GiftAsset
    <3>2. acc.shown \in Seq(GiftAsset)
      BY DEF LanesApart
    <3> QED
      BY <3>1, <3>2
  <2> HIDE DEF nends, nshown
  <2>8. \A i \in DOMAIN acc.shown : acc.shown[i].lane + 1 = lane /\ acc.shown[i].lane < MaxLane =>
          acc.shown[i].to <= e.offset /\ acc.shown[i].to <= to
    <3> SUFFICES ASSUME NEW i \in DOMAIN acc.shown, acc.shown[i].lane + 1 = lane,
                        acc.shown[i].lane < MaxLane
                 PROVE  acc.shown[i].to <= e.offset /\ acc.shown[i].to <= to
      OBVIOUS
    <3>1. acc.shown[i].to \in Int /\ acc.shown[i].lane \in 0..MaxLane
      <4>1. acc.shown \in Seq(GiftAsset)
        BY DEF LanesApart
      <4>2. acc.shown[i] \in GiftAsset
        BY <4>1
      <4> QED
        BY <4>2 DEF GiftAsset
    <3>2. acc.shown[i].to <= acc.ends[lane] /\ lane <= Len(acc.ends) /\ acc.ends[lane] \in Int
          /\ acc.shown[i].to <= end
      BY <3>1 DEF LanesApart
    <3> QED
      BY <2>2, <2>3, <3>1, <3>2
  <2>9. \A i \in DOMAIN nshown :
          /\ nshown[i].to <= end
          /\ nshown[i].lane < MaxLane =>
               /\ nshown[i].lane + 1 \in DOMAIN nends
               /\ nshown[i].to <= nends[nshown[i].lane + 1]
    <3> SUFFICES ASSUME NEW i \in DOMAIN nshown
                 PROVE  /\ nshown[i].to <= end
                        /\ nshown[i].lane < MaxLane =>
                             /\ nshown[i].lane + 1 \in DOMAIN nends
                             /\ nshown[i].to <= nends[nshown[i].lane + 1]
      OBVIOUS
    <3>1. CASE i \in DOMAIN acc.shown
      <4>1. nshown[i] = acc.shown[i]
        BY <2>7, <3>1
      <4>2. CASE acc.shown[i].lane + 1 = lane
        BY <2>6, <2>8, <3>1, <4>1, <4>2 DEF LanesApart
      <4>3. CASE acc.shown[i].lane + 1 # lane
        BY <2>6, <3>1, <4>1, <4>3 DEF LanesApart
      <4> QED
        BY <4>2, <4>3
    <3>2. CASE i = Len(acc.shown) + 1
      BY <2>2, <2>4, <2>5, <2>6, <2>7, <3>2
    <3> QED
      BY <2>7, <3>1, <3>2
  <2>10. \A l \in DOMAIN nends : nends[l] <= end
    BY <2>2, <2>6 DEF LanesApart
  <2>11. \A i, j \in DOMAIN nshown :
           i < j /\ nshown[i].lane = nshown[j].lane /\ nshown[i].lane < MaxLane
             => nshown[i].to <= nshown[j].from
    <3> SUFFICES ASSUME NEW i \in DOMAIN nshown, NEW j \in DOMAIN nshown, i < j,
                        nshown[i].lane = nshown[j].lane, nshown[i].lane < MaxLane
                 PROVE  nshown[i].to <= nshown[j].from
      OBVIOUS
    <3>1. i \in DOMAIN acc.shown /\ nshown[i] = acc.shown[i]
      BY <2>7
    <3>2. CASE j \in DOMAIN acc.shown
      BY <2>7, <3>1, <3>2 DEF LanesApart
    <3>3. CASE j = Len(acc.shown) + 1
      BY <2>4, <2>5, <2>7, <2>8, <3>1, <3>3
    <3> QED
      BY <2>7, <3>2, <3>3
  <2>12. PICK r : r = [ends |-> nends, shown |-> nshown]
    OBVIOUS
  <2>13. r.ends = nends /\ r.shown = nshown
    BY <2>12
  <2>14. LanesApart(r, end)
    BY <2>6, <2>7, <2>9, <2>10, <2>11, <2>13, Zenon DEF LanesApart
  <2> QED
    BY <2>1, <2>12, <2>14
<1> QED
  BY <1>1, <1>2

\* However many gifts come at once, those of a lane follow each other.
LEMMA GiftsFollow ==
  ASSUME NEW evs \in Seq(Event), NEW end \in Int
  PROVE  LanesApart(Replays!Placed(evs, end)[Len(evs)], end)
<1> DEFINE w == Replays!Placed(evs, end)
           S == {n \in Nat : n <= Len(evs) => LanesApart(w[n], end)}
<1>1. Len(evs) \in Nat
  OBVIOUS
<1>2. w = [n \in 0..Len(evs) |-> IF n = 0 THEN NoGift
                                 ELSE Replays!PlaceGift(w[n - 1], evs[n], end)]
  BY <1>1, PlacedIs
<1> HIDE DEF w
<1>3. 0 \in S
  <2>1. w[0] = NoGift
    BY <1>1, <1>2
  <2>2. LanesApart(NoGift, end)
    BY DEF NoGift, LanesApart
  <2> QED
    BY <2>1, <2>2
<1>4. ASSUME NEW n \in Nat, n \in S PROVE n + 1 \in S
  <2> SUFFICES ASSUME n + 1 <= Len(evs) PROVE LanesApart(w[n + 1], end)
    OBVIOUS
  <2>1. w[n + 1] = Replays!PlaceGift(w[n], evs[n + 1], end)
    BY <1>1, <1>2
  <2>2. evs[n + 1] \in Event /\ LanesApart(w[n], end)
    BY <1>1, <1>4
  <2> QED
    BY <2>1, <2>2, PlaceOne
<1>5. Nat \subseteq S
  <2> HIDE DEF S
  <2> QED
    BY <1>3, <1>4, SetInduction
<1> QED
  BY <1>1, <1>5 DEF w

Line == [at : Nat, type : {"chat", "gift"}]

\* Rows in the order of their times.
InOrder(lines) == \A i, j \in DOMAIN lines : i <= j => lines[i].at <= lines[j].at

\* What is kept of rows in order is in order, and older than the rows to come.
LEMMA KeptInOrder ==
  ASSUME NEW lines \in Seq(Line), InOrder(lines)
  PROVE  Replays!ChatOnly(lines) \in Seq(Line) /\ InOrder(Replays!ChatOnly(lines))
<1> DEFINE w == Replays!Kept(lines)
           Fits(n) == /\ w[n] \in Seq(Line) /\ InOrder(w[n])
                      /\ \A i \in DOMAIN w[n], m \in (n + 1)..Len(lines) :
                           w[n][i].at <= lines[m].at
           S == {n \in Nat : n <= Len(lines) => Fits(n)}
<1>1. Len(lines) \in Nat
  OBVIOUS
<1>2. w = [n \in 0..Len(lines) |-> IF n = 0 THEN <<>>
                                   ELSE Replays!Keep(w[n - 1], lines[n])]
  BY <1>1, KeptIs
<1> HIDE DEF w
<1>3. 0 \in S
  <2>1. w[0] = <<>>
    BY <1>1, <1>2
  <2>2. <<>> \in Seq(Line) /\ DOMAIN <<>> = {}
    OBVIOUS
  <2>3. Fits(0)
    BY <2>1, <2>2 DEF InOrder
  <2> QED
    BY <2>3
<1>4. ASSUME NEW n \in Nat, n \in S PROVE n + 1 \in S
  <2> SUFFICES ASSUME n + 1 <= Len(lines) PROVE Fits(n + 1)
    OBVIOUS
  <2> DEFINE old == w[n] m == lines[n + 1]
  <2>1. w[n + 1] = Replays!Keep(old, m)
    BY <1>1, <1>2
  <2>2. Fits(n) /\ n + 1 \in DOMAIN lines
    BY <1>1, <1>4
  <2>3. m \in Line /\ old \in Seq(Line)
    BY <2>2
  <2>4. \A i \in DOMAIN old : old[i].at <= m.at
    BY <1>1, <2>2
  <2>5. \A k \in (n + 2)..Len(lines) : m.at <= lines[k].at
    BY <1>1, <2>2 DEF InOrder
  <2>6. CASE m.type = "gift"
    BY <1>1, <2>1, <2>2, <2>6 DEF Replays!Keep
  <2>7. CASE m.type # "gift"
    <3>1. w[n + 1] = Append(old, m)
      BY <2>1, <2>7 DEF Replays!Keep
    <3>2. InOrder(old) /\ \A i \in DOMAIN old, k \in (n + 1)..Len(lines) : old[i].at <= lines[k].at
      BY <2>2
    <3> HIDE DEF old, m
    <3>3. /\ Append(old, m) \in Seq(Line)
          /\ DOMAIN Append(old, m) = DOMAIN old \cup {Len(old) + 1}
          /\ DOMAIN old = 1..Len(old) /\ Len(old) \in Nat
          /\ \A i \in DOMAIN old : Append(old, m)[i] = old[i]
          /\ Append(old, m)[Len(old) + 1] = m
      BY <2>3
    <3>4. m.at <= m.at
      BY <2>3 DEF Line
    <3>5. InOrder(Append(old, m))
      BY <2>4, <3>2, <3>3, <3>4 DEF InOrder
    <3>6. \A i \in DOMAIN Append(old, m), k \in (n + 2)..Len(lines) :
            Append(old, m)[i].at <= lines[k].at
      BY <1>1, <2>5, <3>2, <3>3
    <3> QED
      BY <1>1, <3>1, <3>3, <3>5, <3>6
  <2> QED
    BY <2>6, <2>7
<1>5. Nat \subseteq S
  <2> HIDE DEF S
  <2> QED
    BY <1>3, <1>4, SetInduction
<1> QED
  BY <1>1, <1>5 DEF w, Replays!ChatOnly

\* Sizes are the same within Replay and outside.
LEMMA ReplaySizes == ASSUME NEW S PROVE Replays!Cardinality(S) = Cardinality(S)
BY DEF Replays!Cardinality, Cardinality

\* Of rows in order, those up to a moment are the first ones.
LEMMA FirstLines ==
  ASSUME NEW lines \in Seq(Line), InOrder(lines), NEW t \in Int
  PROVE  \E m \in 0..Len(lines) :
           {i \in DOMAIN lines : lines[i].at - ReplayStart <= t} = 1..m
<1> DEFINE later == {n \in 1..Len(lines) : lines[n].at - ReplayStart > t}
<1>0. ReplayStart \in Nat /\ Len(lines) \in Nat
  BY ReplayAssumption
<1>1. \A i \in DOMAIN lines : lines[i].at \in Nat
  <2>1. \A i \in DOMAIN lines : lines[i] \in Line
    OBVIOUS
  <2> QED
    BY <2>1 DEF Line
<1>2. CASE later = {}
  <2>1. {i \in DOMAIN lines : lines[i].at - ReplayStart <= t} = 1..Len(lines)
    BY <1>0, <1>1, <1>2
  <2> QED
    BY <1>0, <2>1
<1>3. CASE later # {}
  <2>1. PICK n \in later : \A k \in later : n <= k
    <3>1. later \in SUBSET Nat
      OBVIOUS
    <3> HIDE DEF later
    <3> QED
      BY <1>3, <3>1, LeastOf
  <2>2. \A i \in DOMAIN lines : lines[i].at - ReplayStart <= t <=> i < n
    <3> SUFFICES ASSUME NEW i \in DOMAIN lines
                 PROVE  lines[i].at - ReplayStart <= t <=> i < n
      OBVIOUS
    <3>1. n \in DOMAIN lines /\ lines[n].at - ReplayStart > t /\ n <= i => lines[n].at <= lines[i].at
      BY <1>0, <2>1 DEF InOrder
    <3>2. i < n => ~(lines[i].at - ReplayStart > t)
      BY <1>0, <2>1
    <3> QED
      BY <1>0, <1>1, <2>1, <3>1, <3>2
  <2>3. {i \in DOMAIN lines : lines[i].at - ReplayStart <= t} = 1..(n - 1)
    BY <1>0, <2>1, <2>2
  <2> QED
    BY <1>0, <2>1, <2>3
<1> QED
  BY <1>2, <1>3

\* ChatIsStacked of a reel.
Stacked(r) ==
  \A t \in 0..(r.end - 1) :
    LET posted == Replays!Cardinality({i \in DOMAIN r.lines : r.lines[i].at - ReplayStart <= t})
    IN  {<<d.line, d.pos>> : d \in {s \in r.dialogues : Replays!Written(s, t)}} =
          {<<posted - k, k>> : k \in 0..(Replays!Least(posted, MaxStack) - 1)}

\* The subtitles at a moment: the newest lines, each in a place of its own.
LEMMA StackIs ==
  ASSUME NEW r, r.lines \in Seq(Line), InOrder(r.lines), r.end \in Int,
         r.dialogues = Replays!Dialogues(r.lines, r.end)
  PROVE  Stacked(r)
<1> DEFINE lines == r.lines end == r.end
<1> SUFFICES ASSUME NEW t \in 0..(end - 1)
             PROVE  LET posted == Replays!Cardinality({i \in DOMAIN lines : lines[i].at - ReplayStart <= t})
                    IN  {<<d.line, d.pos>> : d \in {s \in r.dialogues : Replays!Written(s, t)}} =
                          {<<posted - k, k>> : k \in 0..(Replays!Least(posted, MaxStack) - 1)}
  BY Zenon DEF Stacked
<1> DEFINE posted == Replays!Cardinality({i \in DOMAIN lines : lines[i].at - ReplayStart <= t})
<1>14. lines \in Seq(Line) /\ InOrder(lines) /\ end \in Int /\ t \in 0..(end - 1)
       /\ r.dialogues = Replays!Dialogues(lines, end)
  OBVIOUS
<1>15. posted = Replays!Cardinality({i \in DOMAIN lines : lines[i].at - ReplayStart <= t})
  OBVIOUS
<1> HIDE DEF lines, end, posted
<1>0. /\ ReplayStart \in Nat /\ MaxStack \in Nat
      /\ Len(lines) \in Nat /\ DOMAIN lines = 1..Len(lines)
      /\ end \in Int /\ t \in Int /\ 0 <= t /\ t < end
  BY <1>14, ReplayAssumption
<1>1. \A i \in DOMAIN lines : lines[i].at \in Nat
  <2>1. \A i \in DOMAIN lines : lines[i] \in Line
    BY <1>14
  <2> QED
    BY <2>1 DEF Line
<1>2. PICK m \in 0..Len(lines) : {i \in DOMAIN lines : lines[i].at - ReplayStart <= t} = 1..m
  BY <1>0, <1>14, FirstLines
<1>3. posted = m
  <2>1. posted = Cardinality(1..m)
    BY <1>2, <1>15, ReplaySizes
  <2> QED
    BY <1>0, <2>1, FS_Interval
<1>4. \A j \in 1..Len(lines) : lines[j].at - ReplayStart <= t <=> j <= m
  BY <1>0, <1>2
<1> DEFINE seg(i, k) == Replays!Segment(lines, i, k, end)
           places == {q \in (DOMAIN lines) \X (0..(MaxStack - 1)) : q[1] + q[2] <= Len(lines)}
<1>5. ASSUME NEW i \in 1..Len(lines), NEW k \in 0..(MaxStack - 1), i + k <= Len(lines)
      PROVE  /\ seg(i, k).line = i /\ seg(i, k).pos = k
             /\ seg(i, k).from < seg(i, k).to /\ Replays!Written(seg(i, k), t) <=> i + k = m
  <2> DEFINE j == i + k
             from == Replays!Offset(lines[j].at)
             to == IF j < Len(lines) THEN lines[j + 1].at - ReplayStart ELSE end
  <2>1. seg(i, k) = [line |-> i, pos |-> k, from |-> from, to |-> to]
    BY DEF Replays!Segment
  <2>2. j \in 1..Len(lines) /\ lines[j].at \in Nat
    <3>1. i \in Int /\ k \in Int /\ 1 <= i /\ 0 <= k
      BY <1>0
    <3>2. j \in 1..Len(lines)
      BY <1>0, <1>5, <3>1
    <3> HIDE DEF j
    <3> QED
      BY <1>0, <1>1, <3>2
  <2>3. from <= t <=> j <= m
    BY <1>0, <1>4, <2>2 DEF Replays!Offset
  <2>4. t < to <=> ~(j + 1 <= m)
    <3>1. CASE j < Len(lines)
      <4>1. j + 1 \in 1..Len(lines) /\ lines[j + 1].at \in Nat
        BY <1>0, <1>1, <2>2, <3>1
      <4>2. lines[j + 1].at - ReplayStart <= t <=> j + 1 <= m
        BY <1>4, <4>1
      <4>3. to = lines[j + 1].at - ReplayStart
        BY <3>1
      <4> HIDE DEF j, to
      <4> QED
        BY <1>0, <4>1, <4>2, <4>3
    <3>2. CASE j = Len(lines)
      <4>1. to = end
        BY <1>0, <3>2
      <4>2. m <= Len(lines) /\ m \in Int /\ j \in Int
        BY <1>0, <2>2
      <4> HIDE DEF j, to
      <4> QED
        BY <1>0, <3>2, <4>1, <4>2
    <3>3. j < Len(lines) \/ j = Len(lines)
      <4>1. \A x \in 1..Len(lines) : x < Len(lines) \/ x = Len(lines)
        <5>1. Len(lines) \in Nat
          BY <1>0
        <5> QED
          BY <5>1
      <4> HIDE DEF j
      <4> QED
        BY <2>2, <4>1
    <3> QED
      BY <3>1, <3>2, <3>3
  <2>5. from \in Int /\ to \in Int
    BY <1>0, <1>1, <2>2 DEF Replays!Offset
  <2>6. j \in Int /\ m \in Int /\ t \in Int
    BY <1>0, <2>2
  <2> HIDE DEF j, from, to
  <2>7. from <= t /\ t < to <=> j = m
    BY <2>3, <2>4, <2>6
  <2>8. Replays!Written(seg(i, k), t) <=> from <= t /\ t < to
    BY <2>1 DEF Replays!Written
  <2>9. seg(i, k).line = i /\ seg(i, k).pos = k /\ seg(i, k).from = from /\ seg(i, k).to = to
    BY <2>1
  <2> HIDE DEF seg
  <2> QED
    BY <2>5, <2>6, <2>7, <2>8, <2>9 DEF j
<1> HIDE DEF seg
<1>6. r.dialogues = {s \in {seg(p[1], p[2]) : p \in places} : s.from < s.to}
  BY <1>14 DEF Replays!Dialogues, seg
<1>7. ASSUME NEW i, NEW k
      PROVE  <<i, k>> \in {<<d.line, d.pos>> :
                             d \in {s \in r.dialogues : Replays!Written(s, t)}}
               <=> i \in 1..Len(lines) /\ k \in 0..(MaxStack - 1) /\ i + k = m
  <2>1. ASSUME NEW d \in r.dialogues, Replays!Written(d, t), <<i, k>> = <<d.line, d.pos>>
        PROVE  i \in 1..Len(lines) /\ k \in 0..(MaxStack - 1) /\ i + k = m
    <3>1. PICK p \in places : d = seg(p[1], p[2])
      BY <1>6, <2>1
    <3>2. p[1] \in 1..Len(lines) /\ p[2] \in 0..(MaxStack - 1) /\ p[1] + p[2] <= Len(lines)
      BY <3>1
    <3>3. d.from < d.to
      BY <1>6, <2>1
    <3> QED
      <4>1. seg(p[1], p[2]).line = p[1] /\ seg(p[1], p[2]).pos = p[2] /\ p[1] + p[2] = m
        BY <1>5, <2>1, <3>1, <3>2, <3>3
      <4>2. i = p[1] /\ k = p[2]
        BY <2>1, <3>1, <4>1
      <4> QED
        BY <3>2, <4>1, <4>2
  <2>2. ASSUME i \in 1..Len(lines), k \in 0..(MaxStack - 1), i + k = m
        PROVE  \E d \in r.dialogues :
                 Replays!Written(d, t) /\ <<i, k>> = <<d.line, d.pos>>
    <3>1. i + k <= Len(lines) /\ <<i, k>> \in places
      BY <1>0, <2>2
    <3>2. /\ seg(i, k).line = i /\ seg(i, k).pos = k
          /\ seg(i, k).from < seg(i, k).to /\ Replays!Written(seg(i, k), t)
      BY <1>5, <2>2, <3>1
    <3>3. seg(i, k) \in r.dialogues
      BY <1>0, <1>6, <3>1, <3>2
    <3> QED
      BY <3>2, <3>3
  <2> QED
    BY <2>1, <2>2
<1>8. ASSUME NEW i, NEW k
      PROVE  <<i, k>> \in {<<posted - n, n>> : n \in 0..(Replays!Least(posted, MaxStack) - 1)}
               <=> i \in 1..Len(lines) /\ k \in 0..(MaxStack - 1) /\ i + k = m
  <2>1. Replays!Least(m, MaxStack) = IF m < MaxStack THEN m ELSE MaxStack
    BY DEF Replays!Least
  <2>2. k \in 0..(Replays!Least(m, MaxStack) - 1) <=> k \in 0..(MaxStack - 1) /\ k < m
    BY <1>0, <2>1
  <2>3. <<i, k>> \in {<<m - n, n>> : n \in 0..(Replays!Least(m, MaxStack) - 1)}
          <=> k \in 0..(Replays!Least(m, MaxStack) - 1) /\ i = m - k
    OBVIOUS
  <2>4. m \in 0..Len(lines) /\ MaxStack \in Int
    BY <1>0
  <2>5. k \in 0..(MaxStack - 1) /\ k < m /\ i = m - k
          <=> i \in 1..Len(lines) /\ k \in 0..(MaxStack - 1) /\ i + k = m
    BY <1>0, <2>4
  <2> QED
    BY <1>3, <2>2, <2>3, <2>5
<1> DEFINE L == {<<d.line, d.pos>> : d \in {s \in r.dialogues : Replays!Written(s, t)}}
           R == {<<posted - n, n>> : n \in 0..(Replays!Least(posted, MaxStack) - 1)}
<1>9. (\A e \in L : \E i, k : e = <<i, k>>) /\ (\A e \in R : \E i, k : e = <<i, k>>)
  OBVIOUS
<1>10. \A i, k : <<i, k>> \in L <=> <<i, k>> \in R
  BY <1>7, <1>8
<1> HIDE DEF L, R
<1>11. L = R
  <2>1. ASSUME NEW e \in L PROVE e \in R
    <3>1. PICK i, k : e = <<i, k>>
      BY <1>9
    <3> QED
      BY <1>10, <3>1, Zenon
  <2>2. ASSUME NEW e \in R PROVE e \in L
    <3>1. PICK i, k : e = <<i, k>>
      BY <1>9
    <3> QED
      BY <1>10, <3>1, Zenon
  <2> QED
    BY <2>1, <2>2
<1> QED
  BY <1>11, Zenon DEF L, R, posted, lines, end

\* Events in the order of their offsets.
Ordered(evs) == \A i, j \in DOMAIN evs : i <= j => evs[i].offset <= evs[j].offset

SpanAsset == [type : {"pin", "bot"}, from : Int, to : Int, lane : {0}]

\* At a moment, event m is the last switch among the first n, and turned it on.
OnAt(m, n, t, evs, on, off) ==
  /\ m \in 1..n /\ evs[m].type = on /\ evs[m].offset <= t
  /\ \A k \in 1..n : evs[k].type \in {on, off} /\ evs[k].offset <= t => k <= m

\* The span from a moment f covers a moment t, or will when it ends.
Covers(acc, t, f) ==
  \/ \E i \in DOMAIN acc.shown : acc.shown[i].from = f /\ f <= t /\ t < acc.shown[i].to
  \/ acc.open = <<f>> /\ f <= t

\* The spans follow each other, before the events to come.
SpansFollow(acc, n, evs) ==
  /\ acc.open = <<>> \/ \E f \in Nat : acc.open = <<f>>
  /\ acc.shown \in Seq(SpanAsset)
  /\ \A i, j \in DOMAIN acc.shown : i < j => acc.shown[i].to <= acc.shown[j].from
  /\ \A i \in DOMAIN acc.shown :
       /\ \A f \in Nat : acc.open = <<f>> => acc.shown[i].to <= f
       /\ \A k \in (n + 1)..Len(evs) : acc.shown[i].to <= evs[k].offset
  /\ \A f \in Nat : acc.open = <<f>> => \A k \in (n + 1)..Len(evs) : f <= evs[k].offset

\* A span covers a moment when the last switch was on, of a pin its own; and of
\* a bot always then.
SpansTell(acc, n, evs, kind, on, off) ==
  \A t \in Int :
    /\ \A f \in Int : Covers(acc, t, f) =>
         \E m \in 1..n : OnAt(m, n, t, evs, on, off) /\ (kind = "pin" => evs[m].offset = f)
    /\ kind # "pin" =>
         \A m \in 1..n : OnAt(m, n, t, evs, on, off) => \E f \in Int : Covers(acc, t, f)

\* The last switch after one more event.
LEMMA OneMoreEvent ==
  ASSUME NEW evs \in Seq(Event), Ordered(evs), NEW n \in Nat, n + 1 <= Len(evs),
         NEW on, NEW off, on # off, NEW t \in Int, NEW m \in 1..(n + 1),
         NEW e, e = evs[n + 1]
  PROVE  /\ e \in Event
         /\ t < e.offset \/ e.type \notin {on, off} =>
              (OnAt(m, n + 1, t, evs, on, off) <=> m \in 1..n /\ OnAt(m, n, t, evs, on, off))
         /\ e.offset <= t /\ e.type = on => (OnAt(m, n + 1, t, evs, on, off) <=> m = n + 1)
         /\ e.offset <= t /\ e.type = off => ~OnAt(m, n + 1, t, evs, on, off)
<1>1. n + 1 \in DOMAIN evs /\ e \in Event /\ Len(evs) \in Nat
  OBVIOUS
<1>2. e.offset \in Nat /\ (\A k \in 1..n : evs[k].offset \in Nat /\ evs[k].offset <= e.offset)
  <2>1. \A k \in 1..n : evs[k] \in Event /\ k \in DOMAIN evs
    OBVIOUS
  <2> QED
    BY <1>1, <2>1 DEF Event, Ordered
<1>3. 1..(n + 1) = 1..n \cup {n + 1} /\ n + 1 \notin 1..n /\ \A k \in 1..n : k <= n + 1 /\ ~(n + 1 <= k)
  OBVIOUS
<1>4. ASSUME t < e.offset \/ e.type \notin {on, off}
      PROVE  OnAt(m, n + 1, t, evs, on, off) <=> m \in 1..n /\ OnAt(m, n, t, evs, on, off)
  <2>1. ~(e.type \in {on, off} /\ e.offset <= t)
    BY <1>2, <1>4
  <2> QED
    BY <1>3, <2>1 DEF OnAt
<1>5. ASSUME e.offset <= t, e.type = on
      PROVE  OnAt(m, n + 1, t, evs, on, off) <=> m = n + 1
  BY <1>3, <1>5 DEF OnAt
<1>6. ASSUME e.offset <= t, e.type = off
      PROVE  ~OnAt(m, n + 1, t, evs, on, off)
  BY <1>3, <1>6 DEF OnAt
<1> QED
  BY <1>1, <1>4, <1>5, <1>6

\* What a span that ends now adds.
LEMMA OneMoreSpan ==
  ASSUME NEW spans \in Seq(SpanAsset), NEW a \in SpanAsset
  PROVE  /\ Append(spans, a) \in Seq(SpanAsset)
         /\ DOMAIN Append(spans, a) = DOMAIN spans \cup {Len(spans) + 1}
         /\ DOMAIN spans = 1..Len(spans) /\ Len(spans) \in Nat
         /\ \A i \in DOMAIN spans : Append(spans, a)[i] = spans[i]
         /\ Append(spans, a)[Len(spans) + 1] = a
         /\ \A i \in DOMAIN spans : spans[i].from \in Int /\ spans[i].to \in Int
<1>1. \A i \in DOMAIN spans : spans[i] \in SpanAsset
  OBVIOUS
<1>2. \A i \in DOMAIN spans : spans[i].from \in Int /\ spans[i].to \in Int
  BY <1>1 DEF SpanAsset
<1> HIDE DEF SpanAsset
<1> QED
  BY <1>2

\* The spans still follow each other after one more event.
LEMMA SwitchFollows ==
  ASSUME NEW evs \in Seq(Event), Ordered(evs), NEW n \in Nat, n + 1 <= Len(evs),
         NEW kind \in {"pin", "bot"}, NEW on, NEW off, NEW acc, SpansFollow(acc, n, evs)
  PROVE  SpansFollow(Replays!Switch(acc, evs[n + 1], kind, on, off), n + 1, evs)
<1> DEFINE e == evs[n + 1] o == e.offset
<1>1. n + 1 \in DOMAIN evs /\ e \in Event /\ Len(evs) \in Nat /\ o \in Nat
  <2>1. n + 1 \in DOMAIN evs /\ e \in Event /\ Len(evs) \in Nat
    OBVIOUS
  <2> QED
    BY <2>1 DEF Event
<1>2. \A k \in (n + 2)..Len(evs) : k \in (n + 1)..Len(evs) /\ evs[k].offset \in Nat /\ o <= evs[k].offset
  <2>1. \A k \in (n + 2)..Len(evs) : k \in DOMAIN evs /\ evs[k] \in Event /\ n + 1 <= k
    BY <1>1
  <2> QED
    BY <1>1, <2>1 DEF Event, Ordered
<1>3. n + 1 \in (n + 1)..Len(evs) /\ (n + 1) + 1 = n + 2
  BY <1>1
<1>4. acc.shown \in Seq(SpanAsset)
  BY DEF SpansFollow
<1>5. \A i \in DOMAIN acc.shown : acc.shown[i].to <= o
  BY <1>3 DEF SpansFollow
<1> HIDE DEF e, o
<1>6. ASSUME NEW r, r = [open |-> <<o>>, shown |-> acc.shown]
      PROVE  SpansFollow(r, n + 1, evs)
  <2>1. r.open = <<o>> /\ r.shown = acc.shown /\ \A f : r.open = <<f>> => f = o
    BY <1>6
  <2> QED
    BY <1>1, <1>2, <1>3, <1>4, <1>5, <2>1, Zenon DEF SpansFollow
<1>7. ASSUME NEW r, NEW f \in Nat, acc.open = <<f>>,
             r = [open |-> <<>>, shown |-> Append(acc.shown, Replays!Asset(kind, f, o, 0))]
      PROVE  SpansFollow(r, n + 1, evs)
  <2> DEFINE a == Replays!Asset(kind, f, o, 0) L == Len(acc.shown)
  <2>1. a \in SpanAsset /\ a.from = f /\ a.to = o
    BY <1>1 DEF SpanAsset, Replays!Asset
  <2>2. r.open = <<>> /\ r.shown = Append(acc.shown, a) /\ \A g : r.open # <<g>>
    BY <1>7
  <2> HIDE DEF a
  <2>3. /\ r.shown \in Seq(SpanAsset)
        /\ DOMAIN r.shown = DOMAIN acc.shown \cup {L + 1}
        /\ DOMAIN acc.shown = 1..L /\ L \in Nat
        /\ \A i \in DOMAIN acc.shown : r.shown[i] = acc.shown[i]
        /\ r.shown[L + 1] = a
    BY <1>4, <2>1, <2>2, OneMoreSpan
  <2>4. \A i \in DOMAIN acc.shown : acc.shown[i].to <= f
    BY <1>7 DEF SpansFollow
  <2>5. \A i, j \in DOMAIN r.shown : i < j => r.shown[i].to <= r.shown[j].from
    <3> SUFFICES ASSUME NEW i \in DOMAIN r.shown, NEW j \in DOMAIN r.shown, i < j
                 PROVE  r.shown[i].to <= r.shown[j].from
      OBVIOUS
    <3>1. i \in DOMAIN acc.shown
      BY <2>3
    <3>2. CASE j \in DOMAIN acc.shown
      BY <2>3, <3>1, <3>2 DEF SpansFollow
    <3>3. CASE j = L + 1
      BY <2>1, <2>3, <2>4, <3>1, <3>3
    <3> QED
      BY <2>3, <3>2, <3>3
  <2>6. \A i \in DOMAIN r.shown : \A k \in (n + 2)..Len(evs) : r.shown[i].to <= evs[k].offset
    <3> SUFFICES ASSUME NEW i \in DOMAIN r.shown, NEW k \in (n + 2)..Len(evs)
                 PROVE  r.shown[i].to <= evs[k].offset
      OBVIOUS
    <3>1. CASE i \in DOMAIN acc.shown
      BY <1>2, <2>3, <3>1 DEF SpansFollow
    <3>2. CASE i = L + 1
      BY <1>2, <2>1, <2>3, <3>2
    <3> QED
      BY <2>3, <3>1, <3>2
  <2> QED
    BY <1>3, <2>2, <2>3, <2>5, <2>6, Zenon DEF SpansFollow
<1>8. SpansFollow(acc, n + 1, evs)
  BY <1>2, <1>3, Zenon DEF SpansFollow
<1>9. acc.open = <<>> \/ \E f \in Nat : acc.open = <<f>> /\ acc.open[1] = f /\ acc.open # <<>>
  BY DEF SpansFollow
<1> QED
  BY <1>6, <1>7, <1>8, <1>9 DEF Replays!Switch, e, o

\* And they still tell of the last switch.
LEMMA SwitchTells ==
  ASSUME NEW evs \in Seq(Event), Ordered(evs), NEW n \in Nat, n + 1 <= Len(evs),
         NEW kind \in {"pin", "bot"}, NEW on, NEW off, on # off,
         NEW acc, SpansFollow(acc, n, evs), SpansTell(acc, n, evs, kind, on, off)
  PROVE  SpansTell(Replays!Switch(acc, evs[n + 1], kind, on, off), n + 1, evs, kind, on, off)
<1> DEFINE e == evs[n + 1] o == e.offset r == Replays!Switch(acc, e, kind, on, off)
<1>1. n + 1 \in DOMAIN evs /\ e \in Event /\ Len(evs) \in Nat /\ o \in Nat
  <2>1. n + 1 \in DOMAIN evs /\ e \in Event /\ Len(evs) \in Nat
    OBVIOUS
  <2> QED
    BY <2>1 DEF Event
<1>2. acc.shown \in Seq(SpanAsset) /\ DOMAIN acc.shown = 1..Len(acc.shown) /\ Len(acc.shown) \in Nat
  BY DEF SpansFollow
<1>3. \A i \in DOMAIN acc.shown : acc.shown[i].from \in Int /\ acc.shown[i].to \in Int
  <2>1. \A i \in DOMAIN acc.shown : acc.shown[i] \in SpanAsset
    BY <1>2
  <2> QED
    BY <2>1 DEF SpanAsset
<1>4. \A i \in DOMAIN acc.shown : acc.shown[i].to <= o
  BY <1>1 DEF SpansFollow
<1>5. \A f \in Nat : acc.open = <<f>> => f <= o
  BY <1>1 DEF SpansFollow
<1>6. acc.open = <<>> \/ \E f \in Nat : acc.open = <<f>> /\ acc.open[1] = f /\ acc.open # <<>>
  BY DEF SpansFollow
<1>7. 1..(n + 1) = 1..n \cup {n + 1}
  OBVIOUS
<1> SUFFICES ASSUME NEW t \in Int
             PROVE  /\ \A f \in Int : Covers(r, t, f) =>
                         \E m \in 1..(n + 1) : OnAt(m, n + 1, t, evs, on, off)
                                               /\ (kind = "pin" => evs[m].offset = f)
                    /\ kind # "pin" =>
                         \A m \in 1..(n + 1) : OnAt(m, n + 1, t, evs, on, off)
                                               => \E f \in Int : Covers(r, t, f)
  BY DEF SpansTell
<1>8. /\ \A f \in Int : Covers(acc, t, f) =>
           \E m \in 1..n : OnAt(m, n, t, evs, on, off) /\ (kind = "pin" => evs[m].offset = f)
      /\ kind # "pin" =>
           \A m \in 1..n : OnAt(m, n, t, evs, on, off) => \E f \in Int : Covers(acc, t, f)
  BY DEF SpansTell
<1>9. \A m \in 1..(n + 1) :
        /\ t < o \/ e.type \notin {on, off} =>
              (OnAt(m, n + 1, t, evs, on, off) <=> m \in 1..n /\ OnAt(m, n, t, evs, on, off))
        /\ o <= t /\ e.type = on => (OnAt(m, n + 1, t, evs, on, off) <=> m = n + 1)
        /\ o <= t /\ e.type = off => ~OnAt(m, n + 1, t, evs, on, off)
  BY <1>1, OneMoreEvent
<1> DEFINE opens == e.type = on /\ (acc.open = <<>> \/ kind = "pin")
           closes == e.type = off /\ acc.open # <<>>
<1> HIDE DEF e, o
<1>10. CASE opens
  <2>1. r = [open |-> <<o>>, shown |-> acc.shown]
    BY <1>10 DEF Replays!Switch, o
  <2>2. r.open = <<o>> /\ r.shown = acc.shown /\ \A f : r.open = <<f>> <=> f = o
    BY <2>1
  <2> HIDE DEF r
  <2>3. CASE t < o
    <3>1. \A f \in Int : Covers(r, t, f) => Covers(acc, t, f)
      BY <1>1, <2>2, <2>3 DEF Covers
    <3>2. kind # "pin" => \A f \in Int : Covers(acc, t, f) => Covers(r, t, f)
      BY <1>10, <2>2 DEF Covers
    <3> QED
      BY <1>7, <1>8, <1>9, <2>3, <3>1, <3>2
  <2>4. CASE o <= t
    <3>1. \A f \in Int : Covers(r, t, f) => f = o
      BY <1>1, <1>3, <1>4, <2>2, <2>4 DEF Covers
    <3>2. Covers(r, t, o) /\ o \in Int
      BY <1>1, <2>2, <2>4 DEF Covers
    <3>3. n + 1 \in 1..(n + 1) /\ OnAt(n + 1, n + 1, t, evs, on, off) /\ evs[n + 1].offset = o
      BY <1>9, <1>10, <2>4 DEF o, e
    <3> QED
      BY <3>1, <3>2, <3>3
  <2> QED
    BY <1>1, <2>3, <2>4
<1>11. CASE ~opens /\ closes
  <2>1. PICK f \in Nat : acc.open = <<f>> /\ acc.open[1] = f
    BY <1>6, <1>11
  <2> DEFINE a == Replays!Asset(kind, f, o, 0) L == Len(acc.shown)
  <2>2. r = [open |-> <<>>, shown |-> Append(acc.shown, a)]
    BY <1>11, <2>1 DEF Replays!Switch, o
  <2>3. a \in SpanAsset /\ a.from = f /\ a.to = o
    BY <1>1 DEF SpanAsset, Replays!Asset
  <2>4. r.open = <<>> /\ r.shown = Append(acc.shown, a) /\ \A g : r.open # <<g>>
    BY <2>2
  <2> HIDE DEF a, r
  <2>5. /\ DOMAIN r.shown = DOMAIN acc.shown \cup {L + 1}
        /\ \A i \in DOMAIN acc.shown : r.shown[i] = acc.shown[i]
        /\ r.shown[L + 1] = a
    BY <1>2, <2>3, <2>4, OneMoreSpan
  <2>6. \A g : acc.open = <<g>> <=> g = f
    BY <2>1
  <2>7. CASE t < o
    <3>1. ASSUME NEW g \in Int PROVE Covers(r, t, g) <=> Covers(acc, t, g)
      <4>1. Covers(r, t, g) <=> \/ \E i \in DOMAIN acc.shown :
                                       acc.shown[i].from = g /\ g <= t /\ t < acc.shown[i].to
                                \/ f = g /\ g <= t
        BY <2>3, <2>4, <2>5, <2>7 DEF Covers
      <4> QED
        BY <2>6, <4>1 DEF Covers
    <3> QED
      BY <1>7, <1>8, <1>9, <2>7, <3>1
  <2>8. CASE o <= t
    <3>1. \A g \in Int : ~Covers(r, t, g)
      BY <1>1, <1>3, <1>4, <2>3, <2>4, <2>5, <2>8 DEF Covers
    <3> QED
      BY <1>9, <1>11, <2>8, <3>1
  <2> QED
    BY <1>1, <2>7, <2>8
<1>12. CASE ~opens /\ ~closes
  <2>1. r = acc
    BY <1>12 DEF Replays!Switch
  <2>2. CASE t < o \/ e.type \notin {on, off}
    BY <1>7, <1>8, <1>9, <2>1, <2>2
  <2>3. CASE o <= t /\ e.type = on
    <3>1. kind # "pin" /\ acc.open # <<>>
      BY <1>12, <2>3
    <3>2. PICK f \in Nat : acc.open = <<f>>
      BY <1>6, <3>1
    <3>3. Covers(acc, t, f)
      BY <1>1, <1>5, <2>3, <3>2 DEF Covers
    <3>4. n + 1 \in 1..(n + 1) /\ OnAt(n + 1, n + 1, t, evs, on, off)
      BY <1>9, <2>3
    <3> HIDE DEF r
    <3> QED
      BY <2>1, <3>1, <3>2, <3>3, <3>4
  <2>4. CASE o <= t /\ e.type = off
    <3>1. acc.open = <<>>
      BY <1>12, <2>4
    <3>2. \A f \in Int : ~Covers(acc, t, f)
      BY <1>1, <1>3, <1>4, <2>4, <3>1 DEF Covers
    <3> HIDE DEF r
    <3> QED
      BY <1>9, <2>1, <2>4, <3>2
  <2> QED
    BY <1>1, <2>2, <2>3, <2>4
<1> QED
  BY <1>10, <1>11, <1>12

\* A span that ended, ended with a switch off.
SpansClose(spans, evs, off) ==
  \A i \in DOMAIN spans : \E m \in DOMAIN evs : evs[m].type = off /\ evs[m].offset = spans[i].to

LEMMA SwitchCloses ==
  ASSUME NEW evs \in Seq(Event), NEW n \in Nat, n + 1 <= Len(evs),
         NEW kind \in {"pin", "bot"}, NEW on, NEW off,
         NEW acc, SpansFollow(acc, n, evs), SpansClose(acc.shown, evs, off)
  PROVE  SpansClose(Replays!Switch(acc, evs[n + 1], kind, on, off).shown, evs, off)
<1> DEFINE e == evs[n + 1] r == Replays!Switch(acc, e, kind, on, off)
           a == Replays!Asset(kind, acc.open[1], e.offset, 0)
<1>1. n + 1 \in DOMAIN evs /\ e \in Event /\ e.offset \in Nat
  <2>1. n + 1 \in DOMAIN evs /\ e \in Event
    OBVIOUS
  <2> QED
    BY <2>1 DEF Event
<1>2. \/ r.shown = acc.shown
      \/ e.type = off /\ r.shown = Append(acc.shown, a) /\ \E f \in Nat : acc.open = <<f>>
  <2>1. acc.open # <<>> => \E f \in Nat : acc.open = <<f>>
    BY DEF SpansFollow
  <2> QED
    BY <2>1 DEF Replays!Switch
<1>3. CASE r.shown = acc.shown
  BY <1>3
<1>4. CASE e.type = off /\ r.shown = Append(acc.shown, a) /\ \E f \in Nat : acc.open = <<f>>
  <2>1. acc.shown \in Seq(SpanAsset)
    BY DEF SpansFollow
  <2>2. a \in SpanAsset /\ a.to = e.offset
    BY <1>1, <1>4 DEF SpanAsset, Replays!Asset
  <2> HIDE DEF a, r
  <2>3. /\ DOMAIN r.shown = DOMAIN acc.shown \cup {Len(acc.shown) + 1}
        /\ \A i \in DOMAIN acc.shown : r.shown[i] = acc.shown[i]
        /\ r.shown[Len(acc.shown) + 1] = a
    BY <1>4, <2>1, <2>2, OneMoreSpan
  <2>4. SpansClose(r.shown, evs, off)
    BY <1>1, <1>4, <2>2, <2>3 DEF SpansClose
  <2> QED
    BY <2>4 DEF r, e
<1> QED
  BY <1>2, <1>3, <1>4

\* After the last event.
LEMMA SwitchedTells ==
  ASSUME NEW evs \in Seq(Event), Ordered(evs), NEW kind \in {"pin", "bot"}, NEW on, NEW off, on # off
  PROVE  /\ SpansFollow(Replays!Switched(evs, kind, on, off)[Len(evs)], Len(evs), evs)
         /\ SpansTell(Replays!Switched(evs, kind, on, off)[Len(evs)], Len(evs), evs, kind, on, off)
         /\ SpansClose(Replays!Switched(evs, kind, on, off)[Len(evs)].shown, evs, off)
<1> DEFINE w == Replays!Switched(evs, kind, on, off)
           Fits(n) == SpansFollow(w[n], n, evs) /\ SpansTell(w[n], n, evs, kind, on, off)
                      /\ SpansClose(w[n].shown, evs, off)
           S == {n \in Nat : n <= Len(evs) => Fits(n)}
<1>1. Len(evs) \in Nat
  OBVIOUS
<1>2. w = [n \in 0..Len(evs) |-> IF n = 0 THEN NoSpan
                                 ELSE Replays!Switch(w[n - 1], evs[n], kind, on, off)]
  BY <1>1, SwitchedIs
<1> HIDE DEF w
<1>3. 0 \in S
  <2>1. w[0] = NoSpan
    BY <1>1, <1>2
  <2>2. NoSpan.open = <<>> /\ NoSpan.shown = <<>> /\ DOMAIN NoSpan.shown = {} /\ (\A f : <<>> # <<f>>)
        /\ <<>> \in Seq(SpanAsset)
    BY DEF NoSpan
  <2> HIDE DEF NoSpan
  <2>3. SpansFollow(NoSpan, 0, evs)
    BY <2>2, Zenon DEF SpansFollow
  <2>4. SpansTell(NoSpan, 0, evs, kind, on, off)
    <3>1. \A t, f : ~Covers(NoSpan, t, f)
      BY <2>2 DEF Covers
    <3>2. \A m : m \notin 1..0
      OBVIOUS
    <3> QED
      BY <3>1, <3>2 DEF SpansTell
  <2>5. SpansClose(NoSpan.shown, evs, off)
    BY <2>2 DEF SpansClose
  <2> QED
    BY <2>1, <2>3, <2>4, <2>5
<1>4. ASSUME NEW n \in Nat, n \in S PROVE n + 1 \in S
  <2> SUFFICES ASSUME n + 1 <= Len(evs) PROVE Fits(n + 1)
    OBVIOUS
  <2>1. w[n + 1] = Replays!Switch(w[n], evs[n + 1], kind, on, off)
    BY <1>1, <1>2
  <2>2. Fits(n)
    BY <1>1, <1>4
  <2> QED
    BY <2>1, <2>2, SwitchFollows, SwitchTells, SwitchCloses
<1>5. Nat \subseteq S
  <2> HIDE DEF S
  <2> QED
    BY <1>3, <1>4, SetInduction
<1> QED
  BY <1>1, <1>5 DEF w

\* At most one span stays on at a moment, by the last switch then, and one that
\* ends at it ends with a switch off.
StaysOn(a, t) == a.from <= t /\ t < a.to

SpansHold(spans, evs, kind, on, off, t) ==
  /\ \A i, j \in DOMAIN spans : StaysOn(spans[i], t) /\ StaysOn(spans[j], t) => i = j
  /\ \A i \in DOMAIN spans : StaysOn(spans[i], t) => \E m \in DOMAIN evs :
       OnAt(m, Len(evs), t, evs, on, off) /\ (kind = "pin" => evs[m].offset = spans[i].from)
  /\ kind # "pin" => \A m \in DOMAIN evs : OnAt(m, Len(evs), t, evs, on, off) =>
       \E i \in DOMAIN spans : StaysOn(spans[i], t)
  /\ \A i \in DOMAIN spans : spans[i].from \in Int /\ spans[i].to \in Int
       /\ (spans[i].to = t => \E m \in DOMAIN evs : evs[m].type = off /\ evs[m].offset = t)

\* The spans at a moment of the video.
LEMMA SpansAt ==
  ASSUME NEW evs \in Seq(Event), Ordered(evs), NEW kind \in {"pin", "bot"}, NEW on, NEW off, on # off,
         NEW end \in Int, NEW t \in 0..(end - 1)
  PROVE  SpansHold(Replays!Spans(evs, kind, on, off, end), evs, kind, on, off, t)
<1> DEFINE spans == Replays!Spans(evs, kind, on, off, end)
           now == {i \in DOMAIN spans : StaysOn(spans[i], t)}
<1> DEFINE acc == Replays!Switched(evs, kind, on, off)[Len(evs)] L == Len(acc.shown)
<1>1. SpansFollow(acc, Len(evs), evs) /\ SpansTell(acc, Len(evs), evs, kind, on, off)
      /\ SpansClose(acc.shown, evs, off)
  BY SwitchedTells
<1>2. spans = IF acc.open = <<>> THEN acc.shown
              ELSE Append(acc.shown, Replays!Asset(kind, acc.open[1], end, 0))
  BY DEF Replays!Spans
<1> HIDE DEF acc
<1>3. acc.shown \in Seq(SpanAsset) /\ DOMAIN acc.shown = 1..L /\ L \in Nat
  BY <1>1 DEF SpansFollow
<1>4. \A i \in DOMAIN acc.shown : acc.shown[i].from \in Int /\ acc.shown[i].to \in Int
  <2>1. \A i \in DOMAIN acc.shown : acc.shown[i] \in SpanAsset
    BY <1>3
  <2> QED
    BY <2>1 DEF SpanAsset
<1>5. DOMAIN evs = 1..Len(evs) /\ t \in Int /\ t < end
  OBVIOUS
<1>6. /\ \A i \in DOMAIN spans : spans[i].from \in Int /\ spans[i].to \in Int
      /\ DOMAIN spans \subseteq Nat
      /\ \A i, j \in DOMAIN spans : i < j => spans[i].to <= spans[j].from
      /\ \A f \in Int : Covers(acc, t, f) <=>
           \E i \in DOMAIN spans : spans[i].from = f /\ f <= t /\ t < spans[i].to
      /\ \A i \in DOMAIN spans : spans[i].to = t =>
           \E m \in DOMAIN evs : evs[m].type = off /\ evs[m].offset = t
  <2>1. CASE acc.open = <<>>
    <3>1. spans = acc.shown /\ \A f : acc.open # <<f>>
      BY <1>2, <2>1
    <3>2. \A i, j \in DOMAIN spans : i < j => spans[i].to <= spans[j].from
      BY <1>1, <3>1 DEF SpansFollow
    <3>3. \A f \in Int : Covers(acc, t, f) <=>
            \E i \in DOMAIN spans : spans[i].from = f /\ f <= t /\ t < spans[i].to
      BY <3>1, Zenon DEF Covers
    <3>4. DOMAIN spans \subseteq Nat
      BY <1>3, <3>1
    <3>5. \A i \in DOMAIN spans : spans[i].to = t =>
            \E m \in DOMAIN evs : evs[m].type = off /\ evs[m].offset = t
      BY <1>1, <3>1 DEF SpansClose
    <3> QED
      BY <1>4, <3>1, <3>2, <3>3, <3>4, <3>5
  <2>2. CASE acc.open # <<>>
    <3>1. PICK f \in Nat : acc.open = <<f>>
      BY <1>1, <2>2 DEF SpansFollow
    <3> DEFINE a == Replays!Asset(kind, f, end, 0)
    <3>2. spans = Append(acc.shown, a)
      BY <1>2, <2>2, <3>1
    <3>3. a \in SpanAsset /\ a.from = f /\ a.to = end
      BY DEF SpanAsset, Replays!Asset
    <3> HIDE DEF a
    <3>4. /\ DOMAIN spans = DOMAIN acc.shown \cup {L + 1}
          /\ \A i \in DOMAIN acc.shown : spans[i] = acc.shown[i]
          /\ spans[L + 1] = a
      BY <1>3, <3>2, <3>3, OneMoreSpan
    <3>5. \A i \in DOMAIN acc.shown : acc.shown[i].to <= f
      BY <1>1, <3>1 DEF SpansFollow
    <3>6. \A i \in DOMAIN spans : spans[i].from \in Int /\ spans[i].to \in Int
      BY <1>4, <3>3, <3>4
    <3>7. \A i, j \in DOMAIN spans : i < j => spans[i].to <= spans[j].from
      <4> SUFFICES ASSUME NEW i \in DOMAIN spans, NEW j \in DOMAIN spans, i < j
                   PROVE  spans[i].to <= spans[j].from
        OBVIOUS
      <4>1. i \in DOMAIN acc.shown
        BY <1>3, <3>4
      <4>2. CASE j \in DOMAIN acc.shown
        BY <1>1, <3>4, <4>1, <4>2 DEF SpansFollow
      <4>3. CASE j = L + 1
        BY <3>3, <3>4, <3>5, <4>1, <4>3
      <4> QED
        BY <3>4, <4>2, <4>3
    <3>8. \A g \in Int : Covers(acc, t, g) <=>
            \E i \in DOMAIN spans : spans[i].from = g /\ g <= t /\ t < spans[i].to
      <4> TAKE g \in Int
      <4>1. (acc.open = <<g>>) <=> g = f
        BY <3>1
      <4>2. (\E i \in DOMAIN spans : spans[i].from = g /\ g <= t /\ t < spans[i].to)
              <=> \/ \E i \in DOMAIN acc.shown :
                       acc.shown[i].from = g /\ g <= t /\ t < acc.shown[i].to
                  \/ f = g /\ g <= t
        BY <1>5, <3>3, <3>4
      <4> QED
        BY <4>1, <4>2 DEF Covers
    <3>9. \A i \in DOMAIN spans : spans[i].to = t =>
            \E m \in DOMAIN evs : evs[m].type = off /\ evs[m].offset = t
      <4> TAKE i \in DOMAIN spans
      <4>1. i = L + 1 => spans[i].to # t
        BY <1>5, <3>3, <3>4
      <4>2. i \in DOMAIN acc.shown => \E m \in DOMAIN evs : evs[m].type = off /\ evs[m].offset = spans[i].to
        BY <1>1, <3>4 DEF SpansClose
      <4> QED
        BY <3>4, <4>1, <4>2
    <3> QED
      BY <1>3, <3>4, <3>6, <3>7, <3>8, <3>9
  <2> QED
    BY <2>1, <2>2
<1>7. \A i : i \in now <=> i \in DOMAIN spans /\ spans[i].from <= t /\ t < spans[i].to
  BY DEF StaysOn
<1>8. \A i, j \in now : i = j
  <2> SUFFICES ASSUME NEW i \in now, NEW j \in now, i < j PROVE FALSE
    BY <1>6, <1>7
  <2>1. spans[i].to <= spans[j].from
    BY <1>6, <1>7
  <2> QED
    BY <1>5, <1>6, <1>7, <2>1
<1>10. \A i \in now : \E m \in DOMAIN evs :
         OnAt(m, Len(evs), t, evs, on, off) /\ (kind = "pin" => evs[m].offset = spans[i].from)
  <2> TAKE i \in now
  <2>1. spans[i].from \in Int /\ Covers(acc, t, spans[i].from)
    BY <1>6, <1>7
  <2> QED
    BY <1>1, <1>5, <2>1 DEF SpansTell
<1>11. kind # "pin" => \A m \in DOMAIN evs : OnAt(m, Len(evs), t, evs, on, off) => now # {}
  <2> SUFFICES ASSUME kind # "pin", NEW m \in DOMAIN evs, OnAt(m, Len(evs), t, evs, on, off)
               PROVE  now # {}
    OBVIOUS
  <2>1. \E f \in Int : Covers(acc, t, f)
    BY <1>1, <1>5 DEF SpansTell
  <2> QED
    BY <1>6, <1>7, <2>1
<1>12. \A i : i \in now <=> i \in DOMAIN spans /\ StaysOn(spans[i], t)
  OBVIOUS
<1>14. \A i \in DOMAIN spans : spans[i].from \in Int /\ spans[i].to \in Int
         /\ (spans[i].to = t => \E m \in DOMAIN evs : evs[m].type = off /\ evs[m].offset = t)
  BY <1>6
<1> HIDE DEF now, spans
<1>13. SpansHold(spans, evs, kind, on, off, t)
  BY <1>8, <1>10, <1>11, <1>12, <1>14, Zenon DEF SpansHold
<1> QED
  BY <1>13 DEF spans

\* ChipTellsTheBot and PinTellsTheHost of a reel.
LastBefore(r, n, types, t) ==
  Replays!IsLast(n, {k \in Replays!OfType(r.events, types) : r.events[k].offset <= t})

GoesWith(off, r, spans, t) ==
  Replays!Leaving(spans, t) # {} =>
    \E n \in Replays!OfType(r.events, {off}) : r.events[n].offset = t

ChipTells(r) ==
  \A t \in 0..(r.end - 1) :
    LET on == \E n \in DOMAIN r.events : /\ LastBefore(r, n, {"bot_on", "bot_off"}, t)
                                         /\ r.events[n].type = "bot_on"
    IN  /\ Replays!Cardinality(Replays!Staying(r.chips, t)) = IF on THEN 1 ELSE 0
        /\ GoesWith("bot_off", r, r.chips, t)

PinTells(r) ==
  \A t \in 0..(r.end - 1) :
    /\ Replays!Cardinality(Replays!Staying(r.pins, t)) <= 1
    /\ \A i \in Replays!Staying(r.pins, t) : \E n \in DOMAIN r.events :
         /\ LastBefore(r, n, {"product_pin", "product_unpin"}, t)
         /\ r.events[n].type = "product_pin"
         /\ r.events[n].offset = r.pins[i].from
    /\ GoesWith("product_unpin", r, r.pins, t)

\* What stays on and what leaves, by the windows.
LEMMA WhatStays ==
  ASSUME NEW spans, NEW r, r.events \in Seq(Event), NEW kind, NEW on, NEW off, NEW t \in Int,
         SpansHold(spans, r.events, kind, on, off, t)
  PROVE  /\ \A i : i \in Replays!Staying(spans, t) <=> i \in DOMAIN spans /\ StaysOn(spans[i], t)
         /\ GoesWith(off, r, spans, t)
<1>1. \A i \in DOMAIN spans : spans[i].from \in Int /\ spans[i].to \in Int
        /\ (spans[i].to = t => \E m \in DOMAIN r.events : r.events[m].type = off /\ r.events[m].offset = t)
  BY Zenon DEF SpansHold
<1>2. \A i : i \in Replays!Staying(spans, t) <=> i \in DOMAIN spans /\ StaysOn(spans[i], t)
  BY <1>1 DEF Replays!Staying, Replays!Leaving, Replays!Shown, StaysOn
<1>3. GoesWith(off, r, spans, t)
  BY <1>1, Zenon DEF GoesWith, Replays!Leaving, Replays!OfType
<1> QED
  BY <1>2, <1>3

\* The last switch, counted over all events.
LEMMA OnAtIs ==
  ASSUME NEW r, r.events \in Seq(Event), NEW m \in DOMAIN r.events, NEW on, NEW off, NEW t
  PROVE  OnAt(m, Len(r.events), t, r.events, on, off)
           <=> LastBefore(r, m, {on, off}, t) /\ r.events[m].type = on
<1>1. DOMAIN r.events = 1..Len(r.events)
  OBVIOUS
<1>2. \A k : k \in {n \in Replays!OfType(r.events, {on, off}) : r.events[n].offset <= t}
               <=> k \in 1..Len(r.events) /\ r.events[k].type \in {on, off} /\ r.events[k].offset <= t
  BY <1>1 DEF Replays!OfType
<1> QED
  BY <1>1, <1>2, Zenon DEF OnAt, LastBefore, Replays!IsLast

\* The chip of the bot, at every moment of the video.
LEMMA ChipsTell ==
  ASSUME NEW r, r.events \in Seq(Event), Ordered(r.events), r.end \in Int,
         r.chips = Replays!BotChips(r.events, r.end)
  PROVE  ChipTells(r)
<1> SUFFICES ASSUME NEW t \in 0..(r.end - 1)
             PROVE  LET on == \E n \in DOMAIN r.events : /\ LastBefore(r, n, {"bot_on", "bot_off"}, t)
                                                         /\ r.events[n].type = "bot_on"
                    IN  /\ Replays!Cardinality(Replays!Staying(r.chips, t)) = IF on THEN 1 ELSE 0
                        /\ GoesWith("bot_off", r, r.chips, t)
  BY Zenon DEF ChipTells
<1> DEFINE now == Replays!Staying(r.chips, t)
<1>2. r.chips = Replays!Spans(r.events, "bot", "bot_on", "bot_off", r.end)
  BY DEF Replays!BotChips
<1> HIDE DEF now
<1>3. SpansHold(r.chips, r.events, "bot", "bot_on", "bot_off", t)
  BY <1>2, SpansAt
<1>1. (\A i : i \in now <=> i \in DOMAIN r.chips /\ StaysOn(r.chips[i], t)) /\ GoesWith("bot_off", r, r.chips, t)
  <2>1. t \in Int
    OBVIOUS
  <2> QED
    BY <1>3, <2>1, WhatStays DEF now
<1>8. now = {} \/ \E i \in now : now = {i}
  <2>1. \A i, j \in now : i = j
    BY <1>1, <1>3, Zenon DEF SpansHold
  <2> QED
    BY <2>1
<1>4. Cardinality({}) = 0 /\ \A i : Cardinality({i}) = 1
  BY FS_EmptySet, FS_Singleton
<1>5. \A m \in DOMAIN r.events :
        OnAt(m, Len(r.events), t, r.events, "bot_on", "bot_off")
          <=> LastBefore(r, m, {"bot_on", "bot_off"}, t) /\ r.events[m].type = "bot_on"
  BY OnAtIs
<1>6. CASE now = {}
  <2>1. ~ \E n \in DOMAIN r.events : LastBefore(r, n, {"bot_on", "bot_off"}, t) /\ r.events[n].type = "bot_on"
    BY <1>1, <1>3, <1>5, <1>6 DEF SpansHold
  <2>2. Replays!Cardinality(now) = 0
    BY <1>4, <1>6, ReplaySizes
  <2> QED
    BY <1>1, <2>1, <2>2, Zenon DEF now
<1>7. CASE now # {}
  <2>1. \E n \in DOMAIN r.events : LastBefore(r, n, {"bot_on", "bot_off"}, t) /\ r.events[n].type = "bot_on"
    BY <1>1, <1>3, <1>5, <1>7 DEF SpansHold
  <2>2. Replays!Cardinality(now) = 1
    BY <1>4, <1>7, <1>8, ReplaySizes
  <2> QED
    BY <1>1, <2>1, <2>2, Zenon DEF now
<1> QED
  BY <1>6, <1>7

\* The pinned product, at every moment of the video.
LEMMA PinsTell ==
  ASSUME NEW r, r.events \in Seq(Event), Ordered(r.events), r.end \in Int,
         r.pins = Replays!Pins(r.events, r.end)
  PROVE  PinTells(r)
<1> SUFFICES ASSUME NEW t \in 0..(r.end - 1)
             PROVE  /\ Replays!Cardinality(Replays!Staying(r.pins, t)) <= 1
                    /\ \A i \in Replays!Staying(r.pins, t) : \E n \in DOMAIN r.events :
                         /\ LastBefore(r, n, {"product_pin", "product_unpin"}, t)
                         /\ r.events[n].type = "product_pin"
                         /\ r.events[n].offset = r.pins[i].from
                    /\ GoesWith("product_unpin", r, r.pins, t)
  BY Zenon DEF PinTells
<1> DEFINE now == Replays!Staying(r.pins, t)
<1>2. r.pins = Replays!Spans(r.events, "pin", "product_pin", "product_unpin", r.end)
  BY DEF Replays!Pins
<1> HIDE DEF now
<1>3. SpansHold(r.pins, r.events, "pin", "product_pin", "product_unpin", t)
  BY <1>2, SpansAt
<1>1. (\A i : i \in now <=> i \in DOMAIN r.pins /\ StaysOn(r.pins[i], t)) /\ GoesWith("product_unpin", r, r.pins, t)
  <2>1. t \in Int
    OBVIOUS
  <2> QED
    BY <1>3, <2>1, WhatStays DEF now
<1>8. now = {} \/ \E i \in now : now = {i}
  <2>1. \A i, j \in now : i = j
    BY <1>1, <1>3, Zenon DEF SpansHold
  <2> QED
    BY <2>1
<1>4. Cardinality({}) = 0 /\ \A i : Cardinality({i}) = 1
  BY FS_EmptySet, FS_Singleton
<1>5. \A m \in DOMAIN r.events :
        OnAt(m, Len(r.events), t, r.events, "product_pin", "product_unpin")
          <=> LastBefore(r, m, {"product_pin", "product_unpin"}, t) /\ r.events[m].type = "product_pin"
  BY OnAtIs
<1>6. Replays!Cardinality(now) <= 1
  <2>1. CASE now = {}
    BY <1>4, <2>1, ReplaySizes
  <2>2. CASE \E i : now = {i}
    <3>1. PICK i : now = {i}
      BY <2>2
    <3>2. Cardinality(now) = 1
      BY <1>4, <3>1, Zenon
    <3>3. Replays!Cardinality(now) = 1
      BY <3>2, ReplaySizes, Zenon
    <3> QED
      BY <3>3
  <2> QED
    BY <1>8, <2>1, <2>2
<1>7. \A i \in now : \E n \in DOMAIN r.events :
        /\ LastBefore(r, n, {"product_pin", "product_unpin"}, t)
        /\ r.events[n].type = "product_pin"
        /\ r.events[n].offset = r.pins[i].from
  BY <1>1, <1>3, <1>5, Zenon DEF SpansHold
<1> QED
  BY <1>1, <1>6, <1>7, Zenon DEF now

\* A set of naturals below a bound has a greatest element.
LEMMA GreatestOf ==
  ASSUME NEW S \in SUBSET Nat, S # {}, NEW b \in Nat, \A n \in S : n <= b
  PROVE  \E n \in S : \A p \in S : p <= n
<1> DEFINE T == {n \in Nat : \E p \in S : n = b - p}
<1>1. T # {}
  <2>1. PICK p \in S : TRUE
    OBVIOUS
  <2>2. b - p \in T
    BY <2>1
  <2> QED
    BY <2>2
<1>2. PICK n \in T : \A q \in T : n <= q
  <2>1. T \in SUBSET Nat
    OBVIOUS
  <2> HIDE DEF T
  <2> QED
    BY <1>1, <2>1, LeastOf
<1>3. PICK p \in S : n = b - p
  BY <1>2
<1>4. \A q \in S : q <= p
  <2> TAKE q \in S
  <2>1. b - q \in T
    OBVIOUS
  <2>2. n <= b - q
    BY <1>2, <2>1
  <2> QED
    BY <1>3, <2>2
<1> QED
  BY <1>4

ReplayInv ==
  /\ Replays!TypeOK
  /\ replayChats \in Seq(Line) /\ InOrder(replayChats)
  /\ \A i \in DOMAIN replayChats : replayChats[i].at <= clock
  /\ liveEvents \in Seq(Event) /\ Ordered(liveEvents)
  /\ \A i \in DOMAIN liveEvents : liveEvents[i].offset <= Replays!Offset(clock)
  /\ Replays!ReplayTellsTheLive

\* Bounds of the times.
LEMMA ReplayTimes ==
  ASSUME ReplayInv
  PROVE  /\ ReplayStart \in Nat /\ MaxTime \in Nat /\ MaxBannerTime \in Nat /\ Padding \in Nat
         /\ Replays!Ticks \subseteq Nat /\ clock \in Nat
         /\ \A t \in Nat : Replays!Offset(t) \in Nat /\ Replays!Offset(t) <= t
         /\ \A t, u \in Nat : t <= u => Replays!Offset(t) <= Replays!Offset(u)
         /\ endedAt # NoEvent => endedAt \in Nat /\ ReplayStart <= endedAt
<1>1. /\ ReplayStart \in Nat /\ MaxTime \in Nat /\ MaxBannerTime \in Nat /\ Padding \in Nat
  BY ReplayAssumption
<1>2. Replays!Ticks \subseteq Nat
  BY <1>1 DEF Replays!Ticks
<1>3. clock \in Nat /\ (endedAt # NoEvent => endedAt \in Nat /\ ReplayStart <= endedAt)
  BY <1>2 DEF ReplayInv, Replays!TypeOK
<1>4. \A t \in Nat : Replays!Offset(t) \in Nat /\ Replays!Offset(t) <= t
  BY <1>1 DEF Replays!Offset
<1>5. \A t, u \in Nat : t <= u => Replays!Offset(t) <= Replays!Offset(u)
  BY <1>1 DEF Replays!Offset
<1> QED
  BY <1>1, <1>2, <1>3, <1>4, <1>5

\* The guess of the end is a moment.
LEMMA LatestIs ==
  ASSUME ReplayInv
  PROVE  Replays!Latest(liveEvents, replayChats) \in Nat
<1> DEFINE known == {0} \cup {liveEvents[n].offset : n \in DOMAIN liveEvents}
                        \cup {Replays!Offset(replayChats[n].at) : n \in DOMAIN replayChats}
           b == Replays!Offset(clock)
<1>1. \A n \in DOMAIN liveEvents : liveEvents[n].offset \in Nat /\ liveEvents[n].offset <= b
  <2>1. \A n \in DOMAIN liveEvents : liveEvents[n] \in Event
    BY DEF ReplayInv
  <2> QED
    BY <2>1 DEF ReplayInv, Event
<1>2. \A n \in DOMAIN replayChats : replayChats[n].at \in Nat /\ replayChats[n].at <= clock
  <2>1. \A n \in DOMAIN replayChats : replayChats[n] \in Line
    BY DEF ReplayInv
  <2> QED
    BY <2>1 DEF ReplayInv, Line
<1>3. \A n \in DOMAIN replayChats :
        Replays!Offset(replayChats[n].at) \in Nat /\ Replays!Offset(replayChats[n].at) <= b
  BY <1>2, ReplayTimes
<1>4. b \in Nat
  BY ReplayTimes
<1> HIDE DEF b
<1>5. known \in SUBSET Nat /\ known # {} /\ \A t \in known : t <= b
  BY <1>1, <1>3, <1>4
<1>6. Replays!Latest(liveEvents, replayChats) = CHOOSE t \in known : \A u \in known : u <= t
  BY DEF Replays!Latest
<1> HIDE DEF known
<1> QED
  BY <1>4, <1>5, <1>6, GreatestOf

\* What is baked tells what happened.
LEMMA BakeTells ==
  ASSUME ReplayInv, Replays!BakeAny
  PROVE  Replays!ReplayTellsTheLive'
<1>1. PICK dur \in {0, clock - ReplayStart} : Replays!Bake(dur)
  BY DEF Replays!BakeAny
<1> DEFINE known == IF endedAt # NoEvent THEN endedAt - ReplayStart ELSE dur
           end == IF known > 0 THEN known ELSE Replays!Latest(liveEvents, replayChats) + Padding
           lines == Replays!ChatOnly(replayChats)
           evs == liveEvents
           made == [end |-> end, lines |-> lines, events |-> evs,
                    dialogues |-> Replays!Dialogues(lines, end),
                    coupons |-> Replays!Coupons(evs, end), gifts |-> Replays!GiftOverlays(evs, end),
                    pins |-> Replays!Pins(evs, end), chips |-> Replays!BotChips(evs, end)]
<1>2. reel' = made
  BY <1>1 DEF Replays!Bake
<1>3. end \in Int
  BY ReplayTimes, LatestIs
<1>4. lines \in Seq(Line) /\ InOrder(lines)
  BY KeptInOrder DEF ReplayInv
<1>5. evs \in Seq(Event) /\ Ordered(evs)
  BY DEF ReplayInv
<1> HIDE DEF end, lines, evs
<1>6. /\ reel'.end = end /\ reel'.lines = lines /\ reel'.events = evs
      /\ reel'.dialogues = Replays!Dialogues(lines, end)
      /\ reel'.gifts = Replays!GiftOverlays(evs, end)
      /\ reel'.pins = Replays!Pins(evs, end) /\ reel'.chips = Replays!BotChips(evs, end)
  BY <1>2
<1> HIDE DEF made
<1>7. Replays!ChatIsStacked'
  <2>1. Stacked(reel')
    BY <1>3, <1>4, <1>6, StackIs
  <2> QED
    BY <2>1, Zenon DEF Replays!ChatIsStacked, Stacked
<1>8. Replays!GiftsApart'
  <2> DEFINE acc == Replays!Placed(evs, end)[Len(evs)]
  <2>1. LanesApart(acc, end)
    BY <1>3, <1>5, GiftsFollow
  <2>2. reel'.gifts = acc.shown
    BY <1>6 DEF Replays!GiftOverlays
  <2> HIDE DEF acc
  <2> SUFFICES ASSUME NEW i \in DOMAIN acc.shown, NEW j \in DOMAIN acc.shown, NEW t \in 0..end, i < j,
                      Replays!Shown(acc.shown[i], t), Replays!Shown(acc.shown[j], t),
                      acc.shown[i].lane = acc.shown[j].lane
               PROVE  acc.shown[i].lane = MaxLane \/ (t = acc.shown[i].to /\ t = acc.shown[j].from)
    BY <1>6, <2>2, Zenon DEF Replays!GiftsApart
  <2>3. /\ acc.shown[i].to \in Int /\ acc.shown[j].from \in Int /\ acc.shown[i].lane \in 0..MaxLane
    <3>1. acc.shown[i] \in GiftAsset /\ acc.shown[j] \in GiftAsset
      BY <2>1 DEF LanesApart
    <3> QED
      BY <3>1 DEF GiftAsset
  <2>4. acc.shown[i].lane < MaxLane => acc.shown[i].to <= acc.shown[j].from
    BY <2>1, Zenon DEF LanesApart
  <2>5. MaxLane \in Nat
    BY ReplayAssumption
  <2> QED
    BY <1>3, <2>3, <2>4, <2>5 DEF Replays!Shown
<1>11. Replays!ChipTellsTheBot'
  <2>1. ChipTells(reel')
    BY <1>3, <1>5, <1>6, ChipsTell
  <2> QED
    BY <2>1, Zenon DEF Replays!ChipTellsTheBot, ChipTells, LastBefore, Replays!Before,
         GoesWith, Replays!LeavesWithThe
<1>12. Replays!PinTellsTheHost'
  <2>1. PinTells(reel')
    BY <1>3, <1>5, <1>6, PinsTell
  <2> QED
    BY <2>1, Zenon DEF Replays!PinTellsTheHost, PinTells, LastBefore, Replays!Before,
         GoesWith, Replays!LeavesWithThe
<1> QED
  BY <1>7, <1>8, <1>11, <1>12 DEF Replays!ReplayTellsTheLive

\* The session begins empty.
LEMMA ReplayInit == ASSUME Replays!Init PROVE ReplayInv
<1>1. /\ clock = 0 /\ replayChats = <<>> /\ liveEvents = <<>> /\ offered = FALSE
      /\ log = [l \in Calls |-> NoEvent] /\ endedAt = NoEvent /\ reel = NoEvent
  BY DEF Replays!Init
<1>2. 0 \in Replays!Ticks
  BY ReplayAssumption DEF Replays!Ticks
<1>3. DOMAIN replayChats = {} /\ DOMAIN liveEvents = {} /\ replayChats \in Seq(Line) /\ liveEvents \in Seq(Event)
  BY <1>1
<1>4. Replays!TypeOK
  BY <1>1, <1>2, <1>3 DEF Replays!TypeOK
<1>5. Replays!ReplayTellsTheLive
  BY <1>1 DEF Replays!ReplayTellsTheLive, Replays!ChatIsStacked, Replays!GiftsApart,
       Replays!ChipTellsTheBot, Replays!PinTellsTheHost
<1> QED
  BY <1>3, <1>4, <1>5 DEF ReplayInv, InOrder, Ordered

\* The reel is what it was.
LEMMA ReelStays ==
  ASSUME reel' = reel, Replays!ReplayTellsTheLive
  PROVE  Replays!ReplayTellsTheLive'
<1>1. Replays!ChatIsStacked'
  <2>1. reel # NoEvent => Stacked(reel)
    BY Zenon DEF Replays!ReplayTellsTheLive, Replays!ChatIsStacked, Stacked
  <2>2. reel' # NoEvent => Stacked(reel')
    BY <2>1
  <2> QED
    BY <2>2, Zenon DEF Replays!ChatIsStacked, Stacked
<1>2. Replays!GiftsApart'
  BY Zenon DEF Replays!ReplayTellsTheLive, Replays!GiftsApart
<1>3. Replays!ChipTellsTheBot'
  <2>1. reel # NoEvent => ChipTells(reel)
    BY Zenon DEF Replays!ReplayTellsTheLive, Replays!ChipTellsTheBot, ChipTells, LastBefore, Replays!Before,
         GoesWith, Replays!LeavesWithThe
  <2>2. reel' # NoEvent => ChipTells(reel')
    BY <2>1
  <2> QED
    BY <2>2, Zenon DEF Replays!ChipTellsTheBot, ChipTells, LastBefore, Replays!Before,
         GoesWith, Replays!LeavesWithThe
<1>4. Replays!PinTellsTheHost'
  <2>1. reel # NoEvent => PinTells(reel)
    BY Zenon DEF Replays!ReplayTellsTheLive, Replays!PinTellsTheHost, PinTells, LastBefore, Replays!Before,
         GoesWith, Replays!LeavesWithThe
  <2>2. reel' # NoEvent => PinTells(reel')
    BY <2>1
  <2> QED
    BY <2>2, Zenon DEF Replays!PinTellsTheHost, PinTells, LastBefore, Replays!Before,
         GoesWith, Replays!LeavesWithThe
<1> QED
  BY <1>1, <1>2, <1>3, <1>4 DEF Replays!ReplayTellsTheLive

\* Time passes.
LEMMA ReplayTick ==
  ASSUME ReplayInv, NEW b \in {MaxTime, MaxBannerTime}, Replays!Tick(b)
  PROVE  ReplayInv'
<1>1. clock' = clock + 1 /\ clock < b
      /\ UNCHANGED <<replayChats, offered, log, liveEvents, endedAt, reel>>
  BY DEF Replays!Tick
<1>2. clock' \in Replays!Ticks /\ clock' \in Nat /\ clock <= clock'
  BY <1>1, ReplayTimes DEF Replays!Ticks
<1>3. Replays!TypeOK'
  BY <1>1, <1>2 DEF ReplayInv, Replays!TypeOK
<1>4. Replays!ReplayTellsTheLive'
  BY <1>1, ReelStays DEF ReplayInv
<1>5. Replays!Offset(clock) <= Replays!Offset(clock') /\ Replays!Offset(clock) \in Nat
      /\ Replays!Offset(clock') \in Nat
  BY <1>2, ReplayTimes
<1>6. \A i \in DOMAIN replayChats : replayChats[i].at <= clock'
  <2>1. \A i \in DOMAIN replayChats : replayChats[i] \in Line
    BY DEF ReplayInv
  <2>2. \A i \in DOMAIN replayChats : replayChats[i].at \in Nat /\ replayChats[i].at <= clock
    BY <2>1 DEF ReplayInv, Line
  <2> QED
    BY <1>2, <2>2, ReplayTimes
<1>7. \A i \in DOMAIN liveEvents : liveEvents[i].offset <= Replays!Offset(clock')
  <2>1. \A i \in DOMAIN liveEvents : liveEvents[i] \in Event
    BY DEF ReplayInv
  <2>2. \A i \in DOMAIN liveEvents : liveEvents[i].offset \in Nat /\ liveEvents[i].offset <= Replays!Offset(clock)
    BY <2>1 DEF ReplayInv, Event
  <2> QED
    BY <1>5, <2>2
<1>8. /\ replayChats' \in Seq(Line) /\ InOrder(replayChats)'
      /\ liveEvents' \in Seq(Event) /\ Ordered(liveEvents)'
  BY <1>1 DEF ReplayInv, InOrder, Ordered
<1>9. (\A i \in DOMAIN replayChats : replayChats[i].at <= clock)'
      /\ (\A i \in DOMAIN liveEvents : liveEvents[i].offset <= Replays!Offset(clock))'
  BY <1>1, <1>6, <1>7 DEF Replays!Offset
<1> QED
  BY <1>3, <1>4, <1>8, <1>9 DEF ReplayInv

\* A line is posted.
LEMMA ReplayPost ==
  ASSUME ReplayInv, NEW type \in {"chat", "gift"}, Replays!PostChat(type)
  PROVE  ReplayInv'
<1> DEFINE m == [at |-> clock, type |-> type] old == replayChats
<1>1. replayChats' = Append(old, m) /\ UNCHANGED <<clock, offered, log, liveEvents, endedAt, reel>>
  BY DEF Replays!PostChat
<1>2. m \in Line /\ m.at = clock /\ m.type = type /\ clock \in Nat /\ clock \in Replays!Ticks
  BY ReplayTimes DEF Line, ReplayInv, Replays!TypeOK
<1>3. old \in Seq(Line) /\ InOrder(old) /\ \A i \in DOMAIN old : old[i].at <= clock
  BY DEF ReplayInv
<1> HIDE DEF m
<1>4. /\ replayChats' \in Seq(Line)
      /\ DOMAIN replayChats' = DOMAIN old \cup {Len(old) + 1}
      /\ DOMAIN old = 1..Len(old) /\ Len(old) \in Nat
      /\ \A i \in DOMAIN old : replayChats'[i] = old[i]
      /\ replayChats'[Len(old) + 1] = m
  BY <1>1, <1>2, <1>3
<1>5. \A i \in DOMAIN old : old[i].at \in Replays!Ticks /\ old[i].type \in {"chat", "gift"}
  BY DEF ReplayInv, Replays!TypeOK
<1>6. \A i \in DOMAIN replayChats' :
        /\ replayChats'[i].at \in Replays!Ticks /\ replayChats'[i].type \in {"chat", "gift"}
        /\ replayChats'[i].at <= clock
  BY <1>2, <1>3, <1>4, <1>5
<1>7. InOrder(replayChats')
  BY <1>2, <1>3, <1>4 DEF InOrder
<1>8. Replays!TypeOK'
  BY <1>1, <1>6 DEF ReplayInv, Replays!TypeOK
<1>9. Replays!ReplayTellsTheLive'
  BY <1>1, ReelStays DEF ReplayInv
<1>10. /\ liveEvents' \in Seq(Event) /\ Ordered(liveEvents')
       /\ (\A i \in DOMAIN liveEvents : liveEvents[i].offset <= Replays!Offset(clock))'
       /\ (\A i \in DOMAIN replayChats : replayChats[i].at <= clock)'
  BY <1>1, <1>6 DEF ReplayInv, Replays!Offset
<1> QED
  BY <1>4, <1>7, <1>8, <1>9, <1>10 DEF ReplayInv

\* A goroutine starts, fails or the session ends: no row changes.
LEMMA ReplayKeeps ==
  ASSUME ReplayInv, UNCHANGED <<clock, replayChats, liveEvents, reel>>, Replays!TypeOK'
  PROVE  ReplayInv'
<1>1. Replays!ReplayTellsTheLive'
  BY ReelStays DEF ReplayInv
<1> QED
  BY <1>1 DEF ReplayInv, Replays!Offset

\* A goroutine writes its row.
LEMMA ReplayRecord ==
  ASSUME ReplayInv, NEW l \in Calls, Replays!Record(l)
  PROVE  ReplayInv'
<1>1. log \in [Calls -> Replays!EventTypes \cup {NoEvent, "recorded", "failed"}]
  BY DEF ReplayInv, Replays!TypeOK
<1>2. CASE log' = [log EXCEPT ![l] = "failed"] /\ UNCHANGED <<liveEvents, clock, replayChats, offered, endedAt, reel>>
  <2>1. log' \in [Calls -> Replays!EventTypes \cup {NoEvent, "recorded", "failed"}]
    BY <1>1, <1>2
  <2>2. Replays!TypeOK'
    BY <1>2, <2>1 DEF ReplayInv, Replays!TypeOK
  <2> QED
    BY <1>2, <2>2, ReplayKeeps
<1>3. CASE /\ log[l] \in Replays!EventTypes
           /\ liveEvents' = Append(liveEvents, [type |-> log[l], offset |-> Replays!Offset(clock)])
           /\ log' = [log EXCEPT ![l] = "recorded"]
           /\ UNCHANGED <<clock, replayChats, offered, endedAt, reel>>
  <2> DEFINE e == [type |-> log[l], offset |-> Replays!Offset(clock)] old == liveEvents
  <2>1. log' \in [Calls -> Replays!EventTypes \cup {NoEvent, "recorded", "failed"}]
    BY <1>1, <1>3
  <2>2. e \in Event /\ e.offset = Replays!Offset(clock) /\ e.type \in Replays!EventTypes
    BY <1>3, ReplayTimes DEF Event
  <2>3. Replays!Offset(clock) \in Replays!Ticks /\ Replays!Offset(clock) \in Nat
    <3>1. clock \in Replays!Ticks
      BY DEF ReplayInv, Replays!TypeOK
    <3>2. \A t \in Replays!Ticks, u \in Nat : u <= t => u \in Replays!Ticks
      BY ReplayTimes DEF Replays!Ticks
    <3>3. Replays!Offset(clock) \in Nat /\ Replays!Offset(clock) <= clock
      BY ReplayTimes
    <3> QED
      BY <3>1, <3>2, <3>3
  <2>4. old \in Seq(Event) /\ Ordered(old) /\ \A i \in DOMAIN old : old[i].offset <= Replays!Offset(clock)
    BY DEF ReplayInv
  <2>5. liveEvents' = Append(old, e)
    BY <1>3
  <2> HIDE DEF e
  <2>6. /\ liveEvents' \in Seq(Event)
        /\ DOMAIN liveEvents' = DOMAIN old \cup {Len(old) + 1}
        /\ DOMAIN old = 1..Len(old) /\ Len(old) \in Nat
        /\ \A i \in DOMAIN old : liveEvents'[i] = old[i]
        /\ liveEvents'[Len(old) + 1] = e
    BY <2>2, <2>4, <2>5
  <2>7. \A i \in DOMAIN old : old[i].offset \in Replays!Ticks /\ old[i].type \in Replays!EventTypes
    BY DEF ReplayInv, Replays!TypeOK
  <2>8. \A i \in DOMAIN liveEvents' :
          /\ liveEvents'[i].offset \in Replays!Ticks /\ liveEvents'[i].type \in Replays!EventTypes
          /\ liveEvents'[i].offset <= Replays!Offset(clock)
    BY <2>2, <2>3, <2>4, <2>6, <2>7
  <2>9. Ordered(liveEvents')
    BY <2>2, <2>3, <2>4, <2>6 DEF Ordered
  <2>10. Replays!TypeOK'
    BY <1>3, <2>1, <2>8 DEF ReplayInv, Replays!TypeOK
  <2>11. Replays!ReplayTellsTheLive'
    BY <1>3, ReelStays DEF ReplayInv
  <2>12. /\ replayChats' \in Seq(Line) /\ InOrder(replayChats')
         /\ (\A i \in DOMAIN replayChats : replayChats[i].at <= clock)'
         /\ (\A i \in DOMAIN liveEvents : liveEvents[i].offset <= Replays!Offset(clock))'
    BY <1>3, <2>8 DEF ReplayInv, Replays!Offset
  <2> QED
    BY <2>6, <2>9, <2>10, <2>11, <2>12 DEF ReplayInv
<1> QED
  BY <1>2, <1>3 DEF Replays!Record

\* Every step of the session and of the worker.
LEMMA ReplayStep == ASSUME ReplayInv, Replays!Next PROVE ReplayInv'
<1>1. ASSUME NEW l \in Calls, NEW type \in Replays!EventTypes, Replays!LogAsync(l, type), offered' \in BOOLEAN
      PROVE  ReplayInv'
  <2>1. log' = [log EXCEPT ![l] = type] /\ UNCHANGED <<clock, replayChats, liveEvents, endedAt, reel>>
    BY <1>1 DEF Replays!LogAsync
  <2>2. log' \in [Calls -> Replays!EventTypes \cup {NoEvent, "recorded", "failed"}]
    BY <2>1 DEF ReplayInv, Replays!TypeOK
  <2>3. Replays!TypeOK'
    BY <1>1, <2>1, <2>2 DEF ReplayInv, Replays!TypeOK
  <2> QED
    BY <2>1, <2>3, ReplayKeeps
<1>2. offered \in BOOLEAN /\ "coupon_publish" \in Replays!EventTypes
  BY DEF ReplayInv, Replays!TypeOK, Replays!EventTypes
<1>3. ASSUME NEW l \in Calls, Replays!CreateCoupon(l) \/ Replays!AnnounceCoupon(l) \/ Replays!LogOther(l)
      PROVE  ReplayInv'
  BY <1>1, <1>2, <1>3 DEF Replays!CreateCoupon, Replays!AnnounceCoupon, Replays!LogOther
<1>4. ASSUME Replays!End PROVE ReplayInv'
  <2>1. endedAt' = clock /\ clock >= ReplayStart /\ UNCHANGED <<clock, replayChats, offered, log, liveEvents, reel>>
    BY <1>4 DEF Replays!End
  <2>2. clock \in Replays!Ticks /\ ReplayStart <= clock
    BY <2>1, ReplayTimes DEF ReplayInv, Replays!TypeOK
  <2>3. Replays!TypeOK'
    BY <2>1, <2>2 DEF ReplayInv, Replays!TypeOK
  <2> QED
    BY <2>1, <2>3, ReplayKeeps
<1>5. ASSUME Replays!BakeAny PROVE ReplayInv'
  <2>1. UNCHANGED <<clock, replayChats, offered, log, liveEvents, endedAt>>
    BY <1>5 DEF Replays!BakeAny, Replays!Bake
  <2>2. Replays!ReplayTellsTheLive'
    BY <1>5, BakeTells
  <2>3. Replays!TypeOK'
    BY <2>1 DEF ReplayInv, Replays!TypeOK
  <2> QED
    BY <2>1, <2>2, <2>3 DEF ReplayInv, Replays!Offset
<1> QED
  BY <1>3, <1>4, <1>5, ReplayTick, ReplayPost, ReplayRecord
     DEF Replays!Next, Replays!ChatNext, Replays!BannerNext

-----------------------------------------------------------------------------
(* The places of the pictures *)

\* The boxes of the pictures, and of the product list, on a frame w by h.
BoxIs(w, h, p, b) ==
  \/ p.type = "pin" /\ b = [left |-> (w - 540) \div 2, right |-> (w - 540) \div 2 + 540, top |-> 80, bottom |-> 168]
  \/ p.type = "coupon" /\ b = [left |-> w - 384, right |-> w - 24, top |-> 180, bottom |-> 236]
  \/ p.type = "bot" /\ b = [left |-> w - 164, right |-> w - 24, top |-> 32, bottom |-> 76]
  \/ /\ p.type = "gift"
     /\ b = [left |-> w - 396, right |-> w - 16, top |-> 280 + p.lane * 80, bottom |-> 352 + p.lane * 80]
  \/ /\ p.type = "products"
     /\ b = [left |-> 24, right |-> 304, top |-> (3 * h) \div 10, bottom |-> (3 * h) \div 10 + (cards * 84 - 8)]

\* Where a picture lies.
LEMMA PictureBox ==
  ASSUME Pictures!TypeOK, NEW p \in Pictures!Pictures \cup {Pictures!Products}
  PROVE  BoxIs(video[1], video[2], p, Pictures!Box(p))
<1>1. video[1] \in Nat /\ video[2] \in Nat /\ cards \in Nat
  BY ReplayAssumption DEF Pictures!TypeOK
<1>2. CASE p.type = "pin"
  BY <1>1, <1>2 DEF BoxIs, Pictures!Box, Pictures!OverlayExpr, Pictures!Size, Pictures!PinBanner
<1>3. CASE p.type = "coupon"
  BY <1>1, <1>3 DEF BoxIs, Pictures!Box, Pictures!OverlayExpr, Pictures!Size, Pictures!CouponBanner
<1>4. CASE p.type = "bot"
  BY <1>1, <1>4 DEF BoxIs, Pictures!Box, Pictures!OverlayExpr, Pictures!Size, Pictures!BotChip
<1>5. CASE p.type = "gift"
  <2>1. p.lane \in Int
    BY DEF Pictures!Pictures, Pictures!Gift, Pictures!GiftMaxLane, Pictures!Alone, Pictures!Products
  <2>2. Pictures!Size(p) = [w |-> 380, h |-> 72] /\ Pictures!GiftLaneStep = 80
    BY <1>5 DEF Pictures!Size, Pictures!GiftBanner, Pictures!GiftLaneStep
  <2>3. Pictures!OverlayExpr(p) = <<video[1] - 396, 280 + p.lane * 80>>
    BY <1>1, <1>5, <2>1, <2>2 DEF Pictures!OverlayExpr
  <2>4. Pictures!Box(p) = [left |-> video[1] - 396, right |-> video[1] - 396 + 380,
                           top |-> 280 + p.lane * 80, bottom |-> 280 + p.lane * 80 + 72]
    BY <2>2, <2>3 DEF Pictures!Box
  <2> QED
    BY <1>1, <1>5, <2>1, <2>4 DEF BoxIs
<1>6. CASE p.type = "products"
  BY <1>1, <1>6 DEF BoxIs, Pictures!Box, Pictures!OverlayExpr, Pictures!Size, Pictures!ProductList
<1> QED
  BY <1>2, <1>3, <1>4, <1>5, <1>6 DEF Pictures!Pictures, Pictures!Products, Pictures!Alone, Pictures!Gift

\* The lowest place a chat line leaves to the pictures.
LEMMA ChatIsLow ==
  ASSUME NEW h \in Nat, h >= 1280, NEW k \in 0..5
  PROVE  h - ((500 + 48 * k + 32) * h) \div 1920 >= 672
         /\ h - ((500 + 48 * k + 32) * h) \div 1920 >= (3 * h) \div 10 + 328
<1>1. k \in {0, 1, 2, 3, 4, 5}
  OBVIOUS
<1>2. (500 + 48 * k + 32) * h <= 772 * h
  BY <1>1
<1>3. ((500 + 48 * k + 32) * h) \div 1920 <= (772 * h) \div 1920
  <2>1. (500 + 48 * k + 32) * h \in Nat
    BY <1>1
  <2> QED
    BY <1>2, <2>1
<1>4. h - (772 * h) \div 1920 >= 672 /\ h - (772 * h) \div 1920 >= (3 * h) \div 10 + 328
  OBVIOUS
<1>5. ((500 + 48 * k + 32) * h) \div 1920 \in Int /\ (772 * h) \div 1920 \in Int /\ (3 * h) \div 10 \in Int
  BY <1>1
<1> QED
  BY <1>3, <1>4, <1>5

\* The places of the pictures fit together whatever is shown.
LEMMA PicturesFit == ASSUME Pictures!TypeOK PROVE Pictures!PicturesApart
<1>1. /\ video[1] \in Nat /\ video[2] \in Nat /\ video[1] >= 720 /\ video[2] >= 1280
      /\ cards \in 0..4 /\ chatRows \in 0..6
      /\ pictures \subseteq Pictures!Pictures
  BY ReplayAssumption DEF Pictures!TypeOK
<1> DEFINE w == video[1] h == video[2] c == cards
<1>2. w \in Nat /\ h \in Nat /\ w >= 720 /\ h >= 1280 /\ c \in 0..4
  BY <1>1
<1>3. (3 * h) \div 10 \in Int /\ (3 * h) \div 10 >= 384 /\ (w - 540) \div 2 \in Int
      /\ (w - 540) \div 2 >= 0 /\ (w - 540) \div 2 + 540 <= w
  BY <1>2
<1>4. ASSUME NEW p \in Pictures!Laid
      PROVE  /\ p \in Pictures!Pictures \cup {Pictures!Products}
             /\ p.type \in {"pin", "coupon", "bot", "gift", "products"}
             /\ p.type = "gift" => p.lane \in 0..4 /\ p = [type |-> "gift", lane |-> p.lane]
             /\ p.type # "gift" => p = [type |-> p.type, lane |-> 0]
             /\ BoxIs(w, h, p, Pictures!Box(p))
  <2>1. p \in Pictures!Pictures \cup {Pictures!Products}
    BY <1>1 DEF Pictures!Laid
  <2>2. BoxIs(w, h, p, Pictures!Box(p))
    BY <2>1, PictureBox
  <2> QED
    BY <2>1, <2>2 DEF Pictures!Pictures, Pictures!Products, Pictures!Gift, Pictures!Alone, Pictures!GiftMaxLane
<1> HIDE DEF w, h, c
<1>5. ASSUME NEW p \in Pictures!Laid, NEW q \in Pictures!Laid, p # q
      PROVE  Pictures!Apart(Pictures!Box(p), Pictures!Box(q))
  <2> DEFINE a == Pictures!Box(p) b == Pictures!Box(q)
  <2>1. BoxIs(w, h, p, a) /\ BoxIs(w, h, q, b)
    BY <1>4
  <2>2. p.type = q.type => p.type = "gift" /\ p.lane # q.lane
    BY <1>4, <1>5
  <2>3. (p.type = "gift" => p.lane \in 0..4) /\ (q.type = "gift" => q.lane \in 0..4)
    BY <1>4
  <2> HIDE DEF a, b
  <2>4. a.right <= b.left \/ b.right <= a.left \/ a.bottom <= b.top \/ b.bottom <= a.top
    BY <1>2, <1>3, <2>1, <2>2, <2>3 DEF BoxIs, c
  <2> QED
    BY <2>4 DEF Pictures!Apart, a, b
<1>6. ASSUME NEW p \in Pictures!Laid
      PROVE  Pictures!Box(p).left >= 0 /\ Pictures!Box(p).right <= w
  <2> DEFINE a == Pictures!Box(p)
  <2>1. BoxIs(w, h, p, a)
    BY <1>4
  <2> HIDE DEF a
  <2>2. a.left >= 0 /\ a.right <= w
    BY <1>2, <1>3, <2>1 DEF BoxIs
  <2> QED
    BY <2>2 DEF a
<1>7. ASSUME NEW p \in Pictures!Laid, chatRows > 0
      PROVE  Pictures!Box(p).bottom <= Pictures!ChatTop(chatRows - 1)
  <2> DEFINE a == Pictures!Box(p) k == chatRows - 1
  <2>1. BoxIs(w, h, p, a)
    BY <1>4
  <2>2. k \in 0..5
    BY <1>1, <1>7
  <2>3. Pictures!ChatTop(k) = h - ((500 + 48 * k + 32) * h) \div 1920
    BY DEF Pictures!ChatTop, h
  <2> HIDE DEF a, k
  <2>4. Pictures!ChatTop(k) >= 672 /\ Pictures!ChatTop(k) >= (3 * h) \div 10 + 328
    BY <1>2, <2>2, <2>3, ChatIsLow
  <2>5. Pictures!ChatTop(k) \in Int
    BY <1>2, <2>2, <2>3
  <2>6. p.type = "gift" => p.lane \in 0..4
    BY <1>4
  <2>7. a.bottom <= 672 \/ a.bottom <= (3 * h) \div 10 + 328
    BY <1>2, <1>3, <2>1, <2>6 DEF BoxIs, c
  <2>8. a.bottom \in Int
    BY <1>2, <1>3, <2>1, <2>6 DEF BoxIs, c
  <2>9. a.bottom <= Pictures!ChatTop(k)
    BY <1>3, <2>4, <2>5, <2>7, <2>8
  <2> QED
    BY <2>9 DEF a, k
<1> QED
  BY <1>5, <1>6, <1>7, Zenon DEF Pictures!PicturesApart, w

\* The frame stays, and what is laid on it stays of its type.
LEMMA PictureStep ==
  ASSUME Pictures!TypeOK, Pictures!Next
  PROVE  Pictures!TypeOK'
<1>1. ChatMaxStack \in Nat /\ chatRows \in 0..ChatMaxStack
  BY ReplayAssumption DEF Pictures!TypeOK
<1>2. CASE Pictures!ChatLine
  BY <1>1, <1>2 DEF Pictures!ChatLine, Pictures!TypeOK
<1>3. ASSUME NEW p \in Pictures!Pictures, Pictures!Appear(p) PROVE Pictures!TypeOK'
  BY <1>3 DEF Pictures!Appear, Pictures!TypeOK
<1>4. ASSUME NEW p \in Pictures!Pictures, Pictures!Disappear(p) PROVE Pictures!TypeOK'
  BY <1>4 DEF Pictures!Disappear, Pictures!TypeOK
<1> QED
  BY <1>2, <1>3, <1>4 DEF Pictures!Next

\* While the part moves, its steps are those of Replay.
LEMMA ReplaysMove ==
  ASSUME [BackendNext]_allVars, part \in {"subtitles", "banners"}
  PROVE  [Replays!Next]_replayVars
<1>1. CASE BackendNext
  BY <1>1 DEF BackendNext, Replays!Next
<1>2. CASE UNCHANGED allVars
  BY <1>2 DEF allVars, replayVars
<1> QED
  BY <1>1, <1>2

\* While the part moves, its steps are those of Placement.
LEMMA PicturesMove ==
  ASSUME [BackendNext]_allVars, part = "pictures"
  PROVE  [Pictures!Next]_pictureVars
<1>1. CASE BackendNext
  BY <1>1 DEF BackendNext
<1>2. CASE UNCHANGED allVars
  BY <1>2 DEF allVars, pictureVars
<1> QED
  BY <1>1, <1>2

ReelInv ==
  /\ part \in {"subtitles", "banners"} => ReplayInv
  /\ part = "pictures" => Pictures!TypeOK

\* ReelInv holds in every state of the API.
LEMMA ReelAlways == BackendSpec => []ReelInv
<1>1. BackendInit => ReelInv
  <2> SUFFICES ASSUME BackendInit PROVE ReelInv
    OBVIOUS
  <2>1. Replays!Init /\ Pictures!Init
    BY DEF BackendInit
  <2>2. Pictures!TypeOK
    <3>1. MaxProducts \in Nat /\ ChatMaxStack \in Nat
      BY ReplayAssumption
    <3> QED
      BY <2>1, <3>1 DEF Pictures!Init, Pictures!TypeOK
  <2> QED
    BY <2>1, <2>2, ReplayInit DEF ReelInv
<1>2. ReelInv /\ [BackendNext]_allVars => ReelInv'
  <2> SUFFICES ASSUME ReelInv, [BackendNext]_allVars PROVE ReelInv'
    OBVIOUS
  <2>0. part' = part
    BY PartStays
  <2>1. CASE part \in {"subtitles", "banners"}
    <3>1. CASE Replays!Next
      BY <2>0, <2>1, <3>1, ReplayStep DEF ReelInv
    <3>2. CASE UNCHANGED replayVars
      <4>1. ReplayInv
        BY <2>1 DEF ReelInv
      <4>2. Replays!TypeOK'
        BY <3>2, <4>1 DEF ReplayInv, Replays!TypeOK, replayVars
      <4>3. ReplayInv'
        BY <3>2, <4>1, <4>2, ReplayKeeps DEF replayVars
      <4> QED
        BY <2>0, <2>1, <4>3 DEF ReelInv
    <3> QED
      BY <2>1, <3>1, <3>2, ReplaysMove
  <2>2. CASE part = "pictures"
    <3>1. CASE Pictures!Next
      BY <2>0, <2>2, <3>1, PictureStep DEF ReelInv
    <3>2. CASE UNCHANGED pictureVars
      BY <2>0, <2>2, <3>2 DEF ReelInv, Pictures!TypeOK, pictureVars
    <3> QED
      BY <2>2, <3>1, <3>2, PicturesMove
  <2> QED
    BY <2>0, <2>1, <2>2 DEF ReelInv
<1> QED
  BY <1>1, <1>2, PTL DEF BackendSpec

\* Whatever the session was, the replay tells it: the newest chat lines are stacked
\* at every moment (BuildChatASS), no two gifts cover each other below the last lane
\* (PrepareOverlays), the chip of the bot and the pinned product are those of the
\* host's last switch, and on every portrait frame the pictures keep apart and off
\* the chat (overlayExpr).
THEOREM ReplayIsTrue == BackendSpec => []ReplayTellsTheLive
<1>1. ReelInv => ReplayTellsTheLive
  BY PicturesFit DEF ReelInv, ReplayInv, ReplayTellsTheLive
<1> QED
  BY <1>1, ReelAlways, PTL

------------------------------------------------------------------------------
(* The types of these parts: each step keeps them. *)

\* The types of a sign-in with Google.
LEMMA GoogleTypes ==
  ASSUME GoogleInv, Google!TypeOK, [Google!Next]_googleVars
  PROVE  Google!TypeOK'
<1> USE DEF Google!TypeOK, Google!GoTo
<1>1. ASSUME NEW c \in GoogleCalls, Google!Start(c) PROVE Google!TypeOK'
  BY <1>1 DEF Google!Start
<1>2. ASSUME NEW c \in GoogleCalls, NEW s \in GoogleCalls, Google!ConsumeState(c, s)
      PROVE  Google!TypeOK'
  BY <1>2 DEF Google!ConsumeState
<1>3. ASSUME NEW c \in GoogleCalls,
             Google!FetchGoogleProfile(c) \/ Google!LoginOrRegister(c) \/ Google!StoreOAuthOTC(c)
      PROVE  Google!TypeOK'
  BY <1>3 DEF Google!FetchGoogleProfile, Google!LoginOrRegister, Google!StoreOAuthOTC
<1>4. ASSUME NEW c \in GoogleCalls, NEW k \in GoogleCalls,
             NEW v \in GoogleCalls \cup {NoCall}, Google!TakeCode(c, k, v)
      PROVE  Google!TypeOK'
  BY <1>4 DEF Google!TakeCode, Google!Exchanges
<1>5. CASE UNCHANGED googleVars
  BY <1>5 DEF googleVars
<1> HIDE DEF Google!TypeOK
<1> QED
  BY <1>1, <1>2, <1>3, <1>4, <1>5 DEF Google!Next, Google!Callback, Google!GoogleExchange

\* The types of a sign-up; a shop is that of a call that has its row.
LEMMA SignUpTyped ==
  ASSUME SignUpInv, SignUpInv', SignUp!TypeOK, [SignUp!Next]_signUpVars
  PROVE  SignUp!TypeOK'
<1>1. \A c \in DOMAIN form' : form'[c] \in Asked \cap SignUp!Forms
  <2>1. ASSUME NEW c \in Calls, NEW f \in Asked \cap SignUp!Forms, SignUp!Begin(c, f)
        PROVE  \A d \in DOMAIN form' : form'[d] \in Asked \cap SignUp!Forms
    BY <2>1 DEF SignUp!Begin, SignUp!TypeOK
  <2>2. CASE form' = form
    BY <2>2 DEF SignUp!TypeOK
  <2>3. \/ \E c \in Calls, f \in Asked \cap SignUp!Forms : SignUp!Begin(c, f)
        \/ form' = form
    BY DEF SignUp!Next, SignUp!Register, SignUp!RegisterSpec, SignUp!Verify,
           SignUp!CheckEmail, SignUp!CreateProfile, SignUp!CreateShopForSeller, SignUp!StoreOTP,
           SignUp!CheckPhone, SignUp!DropOTP, SignUp!MarkEmailVerified, SignUp!BeginVerify,
           SignUp!ResendOTP, SignUp!ConsumeOTP, SignUp!OTPExpires, SignUp!accountVars, signUpVars
  <2> QED
    BY <2>1, <2>2, <2>3
<1>2. shops' \subseteq rows'
  <2>1. rows \subseteq rows'
    BY DEF SignUp!Next, SignUp!Register, SignUp!RegisterSpec, SignUp!Verify, SignUp!Begin,
           SignUp!CheckEmail, SignUp!CreateProfile, SignUp!CreateShopForSeller, SignUp!StoreOTP,
           SignUp!CheckPhone, SignUp!DropOTP, SignUp!MarkEmailVerified, SignUp!BeginVerify,
           SignUp!ResendOTP, SignUp!ConsumeOTP, SignUp!OTPExpires, SignUp!accountVars, signUpVars
  <2>2. ASSUME NEW c \in Calls, SignUp!CreateShopForSeller(c) PROVE shops' \subseteq rows
    BY <2>2 DEF SignUp!CreateShopForSeller, SignUpInv, TargetsExist, SignUp!TypeOK
  <2>3. shops' = shops \/ \E c \in Calls : SignUp!CreateShopForSeller(c)
    BY DEF SignUp!Next, SignUp!Register, SignUp!RegisterSpec, SignUp!Verify, SignUp!Begin,
           SignUp!CheckEmail, SignUp!CreateProfile, SignUp!StoreOTP,
           SignUp!CheckPhone, SignUp!DropOTP, SignUp!MarkEmailVerified, SignUp!BeginVerify,
           SignUp!ResendOTP, SignUp!ConsumeOTP, SignUp!OTPExpires, SignUp!accountVars, signUpVars
  <2> QED
    BY <2>1, <2>2, <2>3 DEF SignUp!TypeOK
<1> QED
  BY <1>1, <1>2 DEF SignUpInv, SignUpTypes, CodesAreOwn, SignUp!TypeOK

\* Who is about to write a row of a clip is a user.
ClipUsers ==
  \A c \in Calls : clipStep[c] \in {"like", "unlike", "report"} => user[c] \in Users

\* The types of the requests for clips.
LEMMA ClipTypes ==
  ASSUME Videos!TypeOK, ClipUsers, [Videos!Next]_videoVars
  PROVE  Videos!TypeOK' /\ ClipUsers'
<1> USE DEF Videos!TypeOK, ClipUsers, Videos!GoTo, Videos!Steps, Videos!likeVars,
            Videos!viewVars, Videos!commentVars, Videos!reportVars
<1>1. CASE Videos!Create \/ \E u \in Users, isAdmin \in BOOLEAN : Videos!SoftDelete(u, isAdmin)
  BY <1>1 DEF Videos!Create, Videos!SoftDelete
<1>2. ASSUME NEW c \in Calls, NEW u \in Users,
             Videos!SetLike(c, u) \/ Videos!BeginComment(c, u) \/ Videos!BeginReport(c, u)
      PROVE  Videos!TypeOK' /\ ClipUsers'
  <2>1. /\ user' = [user EXCEPT ![c] = u]
        /\ \E s \in {"like", "unlike", "comment", "report", "done"} :
             clipStep' = [clipStep EXCEPT ![c] = s]
    BY <1>2 DEF Videos!SetLike, Videos!BeginComment, Videos!BeginReport, Videos!Begin
  <2>2. UNCHANGED <<clipStatus, Videos!likeVars, Videos!viewVars, Videos!commentVars,
                    Videos!reportVars>>
    BY <1>2 DEF Videos!SetLike, Videos!BeginComment, Videos!BeginReport
  <2> QED
    BY <2>1, <2>2
<1>3. ASSUME NEW c \in Calls, Videos!InsertLike(c) \/ Videos!DeleteLike(c)
      PROVE  Videos!TypeOK' /\ ClipUsers'
  BY <1>3 DEF Videos!InsertLike, Videos!DeleteLike
<1>4. ASSUME NEW c \in Calls, Videos!CountLike(c) \/ Videos!UncountLike(c)
      PROVE  Videos!TypeOK' /\ ClipUsers'
  BY <1>4 DEF Videos!CountLike, Videos!UncountLike
<1>5. ASSUME NEW c \in Calls, Videos!ViewAnonymously(c) \/ Videos!CountView(c)
      PROVE  Videos!TypeOK' /\ ClipUsers'
  BY <1>5 DEF Videos!ViewAnonymously, Videos!CountView
<1>6. ASSUME NEW c \in Calls, NEW u \in Users, Videos!View(c, u)
      PROVE  Videos!TypeOK' /\ ClipUsers'
  BY <1>6 DEF Videos!View
<1>7. ASSUME NEW c \in Calls, Videos!AddComment(c) \/ Videos!CountComment(c)
      PROVE  Videos!TypeOK' /\ ClipUsers'
  BY <1>7 DEF Videos!AddComment, Videos!CountComment
<1>8. ASSUME NEW c \in Calls, Videos!AddReport(c)
      PROVE  Videos!TypeOK' /\ ClipUsers'
  BY <1>8 DEF Videos!AddReport
<1>9. ASSUME NEW u \in Users, Videos!Takedown(u) \/ Videos!Dismiss(u)
      PROVE  Videos!TypeOK' /\ ClipUsers'
  BY <1>9 DEF Videos!Takedown, Videos!Dismiss
<1>10. CASE UNCHANGED videoVars
  BY <1>10 DEF videoVars
<1> HIDE DEF Videos!TypeOK, ClipUsers
<1> QED
  BY <1>1, <1>2, <1>3, <1>4, <1>5, <1>6, <1>7, <1>8, <1>9, <1>10
     DEF Videos!Next, Videos!LikeRequest, Videos!ViewRequest, Videos!CommentRequest,
         Videos!ReportRequest, Videos!ResolveReport

\* The types of the requests for shops.
LEMMA ShopTyped ==
  ASSUME ShopInv, ShopInv', Shops!TypeOK, [Shops!Next]_shopVars
  PROVE  Shops!TypeOK'
<1>0. MaxFollows \in Nat
  BY BoundAssumption
<1> DEFINE Rest == /\ onAir \in SUBSET (Viewers \cup {ShopOwner}) /\ shopFollows \in SUBSET Viewers
                   /\ {followerCount, refollows} \subseteq 0..MaxFollows /\ followsLost \in Int
<1>1. Rest
  BY DEF Shops!TypeOK
<1> USE <1>0, <1>1 DEF Shops!followVars, Shops!memberVars, Shops!callVars
<1>2. ASSUME NEW c \in Calls, Shops!MemberRequest(c) PROVE Rest'
  BY <1>2 DEF Shops!MemberRequest, Shops!ReadMember, Shops!Add, Shops!RemoveMember,
              Shops!UpdateStatus
<1>3. ASSUME NEW c \in Calls, Shops!CountFollow(c) \/ Shops!UncountFollow(c) PROVE Rest'
  BY <1>3 DEF Shops!CountFollow, Shops!UncountFollow
<1>4. ASSUME NEW c \in Calls, NEW u \in Viewers, Shops!Follow(c, u) \/ Shops!Unfollow(c, u)
      PROVE  Rest'
  BY <1>4 DEF Shops!Follow, Shops!Unfollow
<1>5. ASSUME NEW u \in Viewers \cup {ShopOwner}, Shops!StartLive(u) PROVE Rest'
  BY <1>5 DEF Shops!StartLive
<1>6. ASSUME UNCHANGED shopVars PROVE Rest'
  BY <1>6 DEF shopVars
<1> HIDE DEF Rest
<1>7. Rest'
  BY <1>2, <1>3, <1>4, <1>5, <1>6 DEF Shops!Next, Shops!FollowRequest
<1> QED
  BY <1>7 DEF Rest, ShopInv, ShopTypes, Shops!TypeOK

\* The types of the changes of role.
LEMMA AuditTyped ==
  ASSUME Audit!TypeOK, [Audit!Next]_auditVars
  PROVE  Audit!TypeOK'
<1> USE DEF Audit!TypeOK, Audit!GoTo
<1>1. ASSUME NEW c \in Twins, NEW a \in Admins, NEW u \in Admins, NEW r \in AdminRoles,
             Audit!ChangeRole(c, a, u, r)
      PROVE  Audit!TypeOK'
  BY <1>1 DEF Audit!ChangeRole, Audit!Changes
<1>2. ASSUME NEW c \in Twins, Audit!TakeImage(c) PROVE Audit!TypeOK'
  BY <1>2 DEF Audit!TakeImage, Audit!Changes
<1>3. ASSUME NEW c \in Twins, Audit!SetRole(c) PROVE Audit!TypeOK'
  BY <1>3 DEF Audit!SetRole, Audit!Changes
<1>4. ASSUME NEW c \in Twins, Audit!SetRoleFails(c) PROVE Audit!TypeOK'
  BY <1>4 DEF Audit!SetRoleFails
<1>5. ASSUME NEW c \in Twins, Audit!LogAudit(c) PROVE Audit!TypeOK'
  <2>1. trail' \in Seq(Audit!Changes)
    BY <1>5 DEF Audit!LogAudit
  <2>2. auditLost' \subseteq Admins
    BY <1>5 DEF Audit!LogAudit, Audit!Changes
  <2> QED
    BY <1>5, <2>1, <2>2 DEF Audit!LogAudit
<1>6. ASSUME NEW a \in Admins, Audit!NewToken(a) PROVE Audit!TypeOK'
  BY <1>6 DEF Audit!NewToken
<1>7. CASE UNCHANGED auditVars
  BY <1>7 DEF auditVars
<1> HIDE DEF Audit!TypeOK
<1> QED
  BY <1>1, <1>2, <1>3, <1>4, <1>5, <1>6, <1>7 DEF Audit!Next

\* Sizes are the same within StreamKeys and outside.
LEMMA KeySizes == ASSUME NEW S PROVE Keys!Cardinality(S) = Cardinality(S)
BY DEF Keys!Cardinality, Cardinality

\* The types of the requests for a stream key.
LEMMA KeyTypes ==
  ASSUME Keys!TypeOK, [Keys!Next]_keyVars
  PROVE  Keys!TypeOK'
<1>0. ASSUME NEW r \in Twins
      PROVE  /\ Keys!Local(r) \in Keys!Keys /\ Keys!Infra(r) \in Keys!Keys
             /\ \A k : Keys!Cardinality({k}) = 1
  BY FS_Singleton, KeySizes DEF Keys!Local, Keys!Infra, Keys!Keys
<1> USE DEF Keys!TypeOK, Keys!Goto
<1>1. ASSUME NEW r \in Twins, Keys!Issued(r, Keys!Local(r)) \/ Keys!Issued(r, Keys!Infra(r))
      PROVE  /\ issuedKey' \in [Twins -> SUBSET Keys!Keys]
             /\ \A q \in Twins : Keys!Cardinality(issuedKey'[q]) <= 1
             /\ keyStep' \in [Twins -> {"idle", "asking", "issued", "created", "failed"}]
  <2>1. PICK k \in Keys!Keys : Keys!Issued(r, k)
    BY <1>0, <1>1
  <2>2. /\ issuedKey' = [issuedKey EXCEPT ![r] = {k}]
        /\ keyStep' = [keyStep EXCEPT ![r] = "issued"]
    BY <2>1 DEF Keys!Issued
  <2> QED
    BY <1>0, <2>2
<1>2. ASSUME NEW r \in Twins, Keys!Fails(r)
      PROVE  /\ issuedKey' \in [Twins -> SUBSET Keys!Keys]
             /\ \A q \in Twins : Keys!Cardinality(issuedKey'[q]) <= 1
             /\ keyStep' \in [Twins -> {"idle", "asking", "issued", "created", "failed"}]
  BY <1>2 DEF Keys!Fails
<1>3. ASSUME NEW r \in Twins, Keys!Begin(r) PROVE Keys!TypeOK'
  BY <1>1, <1>3 DEF Keys!Begin
<1>4. ASSUME NEW r \in Twins, Keys!Issue(r) PROVE Keys!TypeOK'
  BY <1>0, <1>1, <1>2, <1>4
     DEF Keys!Issue, Keys!Accept, Keys!Reject, Keys!Unavailable, Keys!FallbackOrFail, Keys!Stray
<1>5. ASSUME NEW r \in Twins, Keys!Create(r) PROVE Keys!TypeOK'
  BY <1>5 DEF Keys!Create
<1>6. CASE UNCHANGED keyVars
  BY <1>6 DEF keyVars
<1> HIDE DEF Keys!TypeOK
<1> QED
  BY <1>3, <1>4, <1>5, <1>6 DEF Keys!Next

\* The types of the mutes of a chat, but for the clock, and of the messages under way.
MuteTypes == mutedUntil \in [Viewers -> Nat] /\ ban \in [Viewers -> Nat]

MessageTypes ==
  /\ masked \in [Viewers -> 0..Burst] /\ botEnabled \in BOOLEAN /\ botUsed \in 0..BotQuota
  /\ chatStage \in [Viewers -> Chat!Stages] /\ text \in [Viewers -> Chat!Texts]

ChatRows == (Viewers \cup {Chat!Host}) \X {"text", "bot", "bot_error"}

\* The types of the chat of a room and its moderation.
LEMMA ChatTypes ==
  ASSUME Chat!TypeOK, [Chat!Next]_chatVars
  PROVE  Chat!TypeOK'
<1>0. AutoMute \in Nat /\ HostMutes \subseteq Nat /\ MaxChatTime \in Nat
      /\ Burst \in Nat /\ BotQuota \in Nat /\ chatClock \in 0..MaxChatTime
  BY BackendAssumption, BoundAssumption DEF Chat!TypeOK
<1>1. MuteTypes'
  <2> USE DEF MuteTypes
  <2>1. MuteTypes
    BY DEF Chat!TypeOK
  <2>2. ASSUME NEW v \in Viewers, NEW t \in Nat, Chat!Mute(v, t) PROVE MuteTypes'
    BY <2>1, <2>2 DEF Chat!Mute, Chat!Later
  <2>3. ASSUME NEW v \in Viewers, Chat!MuteChatUser(v) PROVE MuteTypes'
    BY <1>0, <2>2, <2>3 DEF Chat!MuteChatUser
  <2>4. ASSUME NEW v \in Viewers, Chat!UnmuteChatUser(v) PROVE MuteTypes'
    BY <2>1, <2>4 DEF Chat!UnmuteChatUser, Chat!Unmute
  <2>5. ASSUME NEW v \in Viewers, Chat!FilterChatMessage(v) \/ Chat!AutoMuteIfBurst(v)
        PROVE  MuteTypes'
    <3>1. Chat!Mute(v, chatClock + AutoMute) \/ UNCHANGED <<mutedUntil, ban>>
      BY <2>5 DEF Chat!FilterChatMessage, Chat!AutoMuteIfBurst, Chat!AutoMuteOnFilter
    <3> QED
      BY <1>0, <2>1, <2>2, <3>1
  <2>6. \/ \E v \in Viewers : \/ Chat!MuteChatUser(v) \/ Chat!UnmuteChatUser(v)
                              \/ Chat!FilterChatMessage(v) \/ Chat!AutoMuteIfBurst(v)
        \/ UNCHANGED <<mutedUntil, ban>>
    BY DEF Chat!Next, Chat!Moderation, Chat!Message, Chat!PostChat, Chat!PassGate, Chat!Refused,
           Chat!GateFails, Chat!Insert, Chat!AskBot, Chat!BotReply, Chat!ForgetMasked,
           Chat!PostAsHost, Chat!SetBot, Chat!BotHour, Chat!Tick, Chat!muteVars, chatVars
  <2> QED
    BY <2>1, <2>3, <2>4, <2>5, <2>6
<1>2. MessageTypes'
  <2> USE DEF MessageTypes, Chat!GoTo, Chat!Texts, Chat!Stages, Chat!muteVars, Chat!botVars
  <2>1. MessageTypes
    BY DEF Chat!TypeOK
  <2>2. ASSUME NEW v \in Viewers,
               \/ \E t \in Chat!Texts : Chat!PostChat(v, t)
               \/ Chat!PassGate(v) \/ Chat!Refused(v) \/ Chat!GateFails(v)
        PROVE  MessageTypes'
    BY <2>1, <2>2 DEF Chat!PostChat, Chat!PassGate, Chat!Refused, Chat!GateFails
  <2>3. ASSUME NEW v \in Viewers, Chat!FilterChatMessage(v) \/ Chat!AutoMuteIfBurst(v)
        PROVE  MessageTypes'
    BY <1>0, <2>1, <2>3 DEF Chat!FilterChatMessage, Chat!AutoMuteIfBurst
  <2>4. ASSUME NEW v \in Viewers, Chat!Insert(v) \/ Chat!BotReply(v) PROVE MessageTypes'
    BY <2>1, <2>4 DEF Chat!Insert, Chat!BotReply
  <2>5. ASSUME NEW v \in Viewers, Chat!AskBot(v) PROVE MessageTypes'
    BY <1>0, <2>1, <2>5 DEF Chat!AskBot
  <2>6. ASSUME NEW v \in Viewers,
               Chat!MuteChatUser(v) \/ Chat!UnmuteChatUser(v) \/ Chat!ForgetMasked(v)
        PROVE  MessageTypes'
    BY <1>0, <2>1, <2>6 DEF Chat!MuteChatUser, Chat!UnmuteChatUser, Chat!ForgetMasked
  <2>7. CASE Chat!PostAsHost \/ Chat!SetBot \/ Chat!BotHour \/ Chat!Tick
    <3>1. botEnabled' \in {botEnabled, ~botEnabled} /\ UNCHANGED <<masked, chatStage, text>>
      BY <2>7 DEF Chat!PostAsHost, Chat!SetBot, Chat!SetBotEnabled, Chat!BotHour, Chat!Tick
    <3>2. botUsed' \in {botUsed, 0}
      BY <2>7 DEF Chat!PostAsHost, Chat!SetBot, Chat!BotHour, Chat!Tick
    <3>3. botEnabled' \in BOOLEAN
      BY <2>1, <3>1
    <3> QED
      BY <1>0, <2>1, <3>1, <3>2, <3>3
  <2>8. CASE UNCHANGED chatVars
    BY <2>1, <2>8 DEF chatVars
  <2> HIDE DEF MessageTypes
  <2> QED
    BY <2>2, <2>3, <2>4, <2>5, <2>6, <2>7, <2>8 DEF Chat!Next, Chat!Moderation, Chat!Message
<1>3. chatLines' \in Seq(ChatRows)
  <2>1. chatLines \in Seq(ChatRows)
    BY DEF Chat!TypeOK, ChatRows
  <2>2. \/ UNCHANGED chatLines
        \/ \E a \in Viewers \cup {Chat!Host}, t \in {"text", "bot", "bot_error"} :
             Chat!InsertChat(a, t)
    BY DEF Chat!Next, Chat!Moderation, Chat!Message, Chat!PostChat, Chat!PassGate, Chat!Refused,
           Chat!GateFails, Chat!Insert, Chat!AskBot, Chat!BotReply, Chat!ForgetMasked,
           Chat!PostAsHost, Chat!SetBot, Chat!BotHour, Chat!Tick, Chat!FilterChatMessage,
           Chat!AutoMuteIfBurst, Chat!MuteChatUser, Chat!UnmuteChatUser, chatVars
  <2>3. ASSUME NEW a \in Viewers \cup {Chat!Host}, NEW t \in {"text", "bot", "bot_error"},
               Chat!InsertChat(a, t)
        PROVE  chatLines' \in Seq(ChatRows)
    <3>1. <<a, t>> \in ChatRows
      BY DEF ChatRows
    <3>2. chatLines' = Append(chatLines, <<a, t>>)
      BY <2>3 DEF Chat!InsertChat
    <3> QED
      BY <2>1, <3>1, <3>2
  <2> QED
    BY <2>1, <2>2, <2>3
<1>4. chatClock' \in 0..MaxChatTime
  BY <1>0 DEF Chat!Next, Chat!Moderation, Chat!Message, Chat!PostChat, Chat!PassGate, Chat!Refused,
           Chat!GateFails, Chat!Insert, Chat!AskBot, Chat!BotReply, Chat!ForgetMasked,
           Chat!PostAsHost, Chat!SetBot, Chat!BotHour, Chat!Tick, Chat!FilterChatMessage,
           Chat!AutoMuteIfBurst, Chat!MuteChatUser, Chat!UnmuteChatUser, Chat!muteVars, chatVars
<1> QED
  BY <1>1, <1>2, <1>3, <1>4 DEF MuteTypes, MessageTypes, ChatRows, Chat!TypeOK
==============================================================================
