------------------------------ MODULE Accounts ------------------------------
(***************************************************************************)
(* The sessions of one account: login with lockout, Google login, refresh  *)
(* with rotation and reuse detection, logout, password reset and the       *)
(* admin's change of role.  Rows of other accounts are never touched; the  *)
(* account is verified and not deleted, which nothing in the code changes. *)
(*                                                                         *)
(* Each member of Calls is one request; a refresh token is named after the *)
(* call that issued it, a family after its first token, a reset token      *)
(* after the forgot-password call that made it.  A call takes one step per *)
(* statement, so others run between its reads and its writes (bcrypt alone *)
(* takes a quarter of a second).  Statements whose error the code discards *)
(* may have no effect.  Passwords are numbered in the order they are set.  *)
(***************************************************************************)
EXTENDS Integers

CONSTANTS
  Calls,
  NoCall,
  Roles,
  MaxFailed   \* maxFailedLogins

ASSUME AccountsAssumption == NoCall \notin Calls /\ MaxFailed \in Nat \ {0}

VARIABLES
  password,    \* number of the current password_hash
  role,        \* profiles.role
  failed,      \* failed_login_attempts
  locked,      \* is locked_until in the future?
  resetToken,  \* password_reset_token, NoCall if NULL or expired
  issued,      \* rows of refresh_tokens
  revoked,     \* those that are revoked or expired
  step,        \* next step of each call
  parent,      \* the token that a refresh presented, NoCall at a login
  family,      \* family of the pair that a call issues
  basis,       \* password and role that the call's session rests on
  forked,      \* families one of whose tokens was rotated twice (history)
  burnt,       \* families that reuse detection revoked (history)
  late,        \* calls that a revocation overtook (history)
  unlocked     \* did the last lock run out, or was it lost? (history)

profile == <<password, role, failed, locked, resetToken>>
tokens == <<issued, revoked>>
calls == <<step, parent, family, basis>>
history == <<forked, burnt, late, unlocked>>
vars == <<profile, tokens, calls, history>>

Working == {"compare", "lock", "findUser", "rotate", "issue", "reuse",
            "setPassword", "sweep"}
Basis == [password : Nat, role : Roles]

TypeOK ==
  /\ password \in Nat /\ failed \in Nat /\ locked \in BOOLEAN /\ role \in Roles
  /\ resetToken \in Calls \cup {NoCall}
  /\ issued \in SUBSET Calls /\ revoked \in SUBSET issued
  /\ step \in [Calls -> Working \cup {"idle", "done"}]
  /\ parent \in [Calls -> Calls \cup {NoCall}]
  /\ family \in [Calls -> Calls]
  /\ basis \in [Calls -> Basis]
  /\ forked \in SUBSET Calls /\ burnt \in SUBSET Calls
  /\ late \in SUBSET Calls /\ unlocked \in BOOLEAN

Init ==
  /\ password = 0 /\ failed = 0 /\ locked = FALSE /\ role \in Roles
  /\ resetToken = NoCall
  /\ issued = {} /\ revoked = {}
  /\ step = [c \in Calls |-> "idle"]
  /\ parent = [c \in Calls |-> NoCall]
  /\ family = [c \in Calls |-> c]
  /\ basis = [c \in Calls |-> [password |-> 0, role |-> role]]
  /\ forked = {} /\ burnt = {} /\ late = {} /\ unlocked = FALSE

Live == issued \ revoked
GoTo(c, s) == step' = [step EXCEPT ![c] = s]

\* Calls that read the account or their token and will issue a pair later.
InFlight == {c \in Calls : step[c] \in {"compare", "findUser", "rotate", "issue"}}

\* The profile row as a call reads it.
Snapshot == [password |-> password, role |-> role]

------------------------------------------------------------------------------
(* Login. *)

\* FindByEmail or FindByPhone, and the check of locked_until.
BeginLogin(c) ==
  /\ step[c] = "idle"
  /\ IF locked THEN GoTo(c, "done") /\ UNCHANGED basis
     ELSE GoTo(c, "compare") /\ basis' = [basis EXCEPT ![c] = Snapshot]
  /\ UNCHANGED <<profile, tokens, parent, family, history>>

\* Google vouches for the e-mail; neither lock nor password matters.
BeginGoogleLogin(c) ==
  /\ step[c] = "idle"
  /\ GoTo(c, "issue")
  /\ basis' = [basis EXCEPT ![c] = Snapshot]
  /\ UNCHANGED <<profile, tokens, parent, family, history>>

\* Mutant: the account is locked one failure too late.
WrongPasswordOneLate(c) ==
  /\ step[c] = "compare"
  /\ failed' = failed + 1
  /\ GoTo(c, IF failed' > MaxFailed THEN "lock" ELSE "done")
  /\ UNCHANGED <<password, role, locked, resetToken, tokens, parent, family,
                 basis, history>>

\* IncrementFailedLogin returns the new count; if it fails, it returns 0.
WrongPassword(c) ==
  /\ step[c] = "compare"
  /\ \/ /\ failed' = failed + 1
        /\ GoTo(c, IF failed' >= MaxFailed THEN "lock" ELSE "done")
     \/ GoTo(c, "done") /\ UNCHANGED failed
  /\ UNCHANGED <<password, role, locked, resetToken, tokens, parent, family,
                 basis, history>>

\* LockUntil, its error discarded.
LockUntil(c) ==
  /\ step[c] = "lock"
  /\ GoTo(c, "done")
  /\ \/ locked' = TRUE /\ unlocked' = FALSE
     \/ unlocked' = TRUE /\ UNCHANGED locked
  /\ UNCHANGED <<password, role, failed, resetToken, tokens, parent, family,
                 basis, forked, burnt, late>>

LockExpires ==
  /\ locked
  /\ locked' = FALSE
  /\ unlocked' = TRUE
  /\ UNCHANGED <<password, role, failed, resetToken, tokens, calls, forked,
                 burnt, late>>

\* The password matched the hash that the call read: ResetLoginCounters.
RightPassword(c) ==
  /\ step[c] = "compare"
  /\ GoTo(c, "issue")
  /\ \/ failed' = 0 /\ locked' = FALSE
     \/ UNCHANGED <<failed, locked>>
  /\ UNCHANGED <<password, role, resetToken, tokens, parent, family, basis,
                 history>>

\* issueTokenPair: a new row in the family; its failure fails the request.
IssueTokenPair(c) ==
  /\ step[c] = "issue"
  /\ GoTo(c, "done")
  /\ issued' \in {issued, issued \cup {c}}
  /\ UNCHANGED <<profile, revoked, parent, family, basis, history>>

------------------------------------------------------------------------------
(* Refresh and logout. *)

\* FindRefreshToken's row may be used.
TokenUsable(t) == t \notin revoked

\* FindRefreshToken: a revoked or expired token is a reuse.  Two calls that both find the token usable fork its family.
BeginRefresh(c, t) ==
  /\ step[c] = "idle"
  /\ t \in issued
  /\ parent' = [parent EXCEPT ![c] = t]
  /\ family' = [family EXCEPT ![c] = family[t]]
  /\ basis' = [basis EXCEPT ![c] = basis[t]]
  /\ GoTo(c, IF TokenUsable(t) THEN "findUser" ELSE "reuse")
  /\ forked' = IF TokenUsable(t) /\ \E d \in Calls : parent[d] = t
                                              /\ step[d] \in {"findUser", "rotate"}
                 THEN forked \cup {family[t]} ELSE forked
  /\ late' = IF t \in late THEN late \cup {c} ELSE late
  /\ UNCHANGED <<profile, tokens, burnt, unlocked>>

\* FindByID: the new pair carries the role of now.
FindUser(c) ==
  /\ step[c] = "findUser"
  /\ GoTo(c, "rotate")
  /\ basis' = [basis EXCEPT ![c].role = role]
  /\ UNCHANGED <<profile, tokens, parent, family, history>>

\* Mutant: the used token stays good.
IssueOnly(c) ==
  /\ step[c] = "rotate"
  /\ GoTo(c, "issue")
  /\ UNCHANGED <<profile, tokens, parent, family, basis, history>>

\* RevokeRefreshToken of the used token; the error is discarded.
RotateToken(c) ==
  /\ step[c] = "rotate"
  /\ GoTo(c, "issue")
  /\ \/ revoked' = revoked \cup {parent[c]} /\ UNCHANGED forked
     \/ forked' = forked \cup {family[c]} /\ UNCHANGED revoked
  /\ UNCHANGED <<profile, issued, parent, family, basis, burnt, late, unlocked>>

\* Mutant: only the presented token is revoked.
RevokeOne(c) ==
  /\ step[c] = "reuse"
  /\ GoTo(c, "done")
  /\ revoked' = revoked \cup {parent[c]}
  /\ burnt' = burnt \cup {family[c]}
  /\ late' = late \cup {d \in InFlight : family[d] = family[c]}
  /\ UNCHANGED <<profile, issued, parent, family, basis, forked, unlocked>>

\* Reuse detected: RevokeFamily, its error discarded.
RevokeFamily(c) ==
  /\ step[c] = "reuse"
  /\ GoTo(c, "done")
  /\ \/ /\ revoked' = revoked \cup {t \in issued : family[t] = family[c]}
        /\ burnt' = burnt \cup {family[c]}
        /\ late' = late \cup {d \in InFlight : family[d] = family[c]}
     \/ UNCHANGED <<revoked, burnt, late>>
  /\ UNCHANGED <<profile, issued, parent, family, basis, forked, unlocked>>

\* Logout revokes the cookie's token; its error is discarded.
Logout(c, t) ==
  /\ step[c] = "idle"
  /\ t \in issued
  /\ GoTo(c, "done")
  /\ revoked' = revoked \cup {t}
  /\ UNCHANGED <<profile, issued, parent, family, basis, history>>

TokenExpires(t) ==
  /\ t \in issued
  /\ revoked' = revoked \cup {t}
  /\ UNCHANGED <<profile, issued, calls, history>>

\* RevokeAllForUser, with what it overtakes.
RevokeAllForUser ==
  /\ revoked' = issued
  /\ late' = late \cup InFlight

LogoutAll(c) ==
  /\ step[c] = "idle"
  /\ GoTo(c, "done")
  /\ RevokeAllForUser
  /\ UNCHANGED <<profile, issued, parent, family, basis, forked, burnt, unlocked>>

------------------------------------------------------------------------------
(* Password reset and change of role. *)

\* ForgotPassword overwrites an earlier reset token.
ForgotPassword(c) ==
  /\ step[c] = "idle"
  /\ GoTo(c, "done")
  /\ resetToken' = c
  /\ UNCHANGED <<password, role, failed, locked, tokens, parent, family, basis,
                 history>>

ResetTokenExpires ==
  /\ resetToken # NoCall
  /\ resetToken' = NoCall
  /\ UNCHANGED <<password, role, failed, locked, tokens, calls, history>>

\* FindByPasswordResetToken; the new hash is computed afterwards.
BeginReset(c) ==
  /\ step[c] = "idle"
  /\ resetToken # NoCall
  /\ GoTo(c, "setPassword")
  /\ UNCHANGED <<profile, tokens, parent, family, basis, history>>

\* UpdatePassword by id: the token is not checked again.
UpdatePassword(c) ==
  /\ step[c] = "setPassword"
  /\ GoTo(c, "sweep")
  /\ password' = password + 1
  /\ resetToken' = NoCall /\ failed' = 0 /\ locked' = FALSE
  /\ UNCHANGED <<role, tokens, parent, family, basis, history>>

\* Mutant: the reset leaves the sessions alone.
SweepNothing(c) ==
  /\ step[c] = "sweep"
  /\ GoTo(c, "done")
  /\ UNCHANGED <<profile, tokens, parent, family, basis, history>>

\* The reset's RevokeAllForUser; if it fails, every session is excused.
SweepSessions(c) ==
  /\ step[c] = "sweep"
  /\ GoTo(c, "done")
  /\ \/ RevokeAllForUser
     \/ late' = late \cup issued \cup InFlight /\ UNCHANGED revoked
  /\ UNCHANGED <<profile, issued, parent, family, basis, forked, burnt, unlocked>>

\* A statement of the reset fails, or the process dies.
ResetFails(c) ==
  /\ step[c] \in {"setPassword", "sweep"}
  /\ GoTo(c, "done")
  /\ late' = IF step[c] = "sweep" THEN late \cup issued \cup InFlight ELSE late
  /\ UNCHANGED <<profile, tokens, parent, family, basis, forked, burnt, unlocked>>

\* SetRole: role and revocation in one transaction.
SetRole(c, r) ==
  /\ step[c] = "idle"
  /\ GoTo(c, "done")
  /\ role' = r
  /\ RevokeAllForUser
  /\ UNCHANGED <<password, failed, locked, resetToken, issued, parent, family,
                 basis, forked, burnt, unlocked>>

------------------------------------------------------------------------------
Login(c) ==
  \/ BeginLogin(c) \/ BeginGoogleLogin(c)
  \/ WrongPassword(c) \/ LockUntil(c) \/ RightPassword(c) \/ IssueTokenPair(c)

Refresh(c) ==
  \/ \E t \in Calls : BeginRefresh(c, t)
  \/ FindUser(c) \/ RotateToken(c) \/ RevokeFamily(c)

Reset(c) ==
  \/ ForgotPassword(c) \/ BeginReset(c) \/ UpdatePassword(c)
  \/ SweepSessions(c) \/ ResetFails(c)

Next ==
  \/ \E c \in Calls : \/ Login(c) \/ Refresh(c) \/ Reset(c) \/ LogoutAll(c)
                      \/ \E t \in Calls : Logout(c, t)
                      \/ \E r \in Roles : SetRole(c, r)
  \/ \E t \in Calls : TokenExpires(t)
  \/ LockExpires \/ ResetTokenExpires

Spec == Init /\ [][Next]_vars

------------------------------------------------------------------------------
\* Rotation: a family has one usable token at any time, unless two refreshes
\* were between the check and the revocation of the same token, or the
\* revocation was lost (service.go:377-397).
OneSuccessor ==
  \A t, u \in Live : family[t] = family[u] /\ t # u => family[t] \in forked

\* Reuse detection: once a family was revoked, a usable token in it comes only
\* from a refresh that had passed its check before ("revoke entire family").
BurntStaysBurnt == \A t \in Live : family[t] \in burnt => t \in late

\* After a password reset or a change of role no session that rests on the
\* old password, and no pair with the old role, is usable, except for calls that
\* had read the account before the sweep, or if the sweep was lost.
OldSessionsEnd ==
  \A t \in Live \ late :
    /\ basis[t].role = role
    /\ basis[t].password = password \/ \E c \in Calls : step[c] = "sweep"

\* What was revoked stays revoked, whichever of the two reasons there was.
RevocationHolds == BurntStaysBurnt /\ OldSessionsEnd

\* MaxFailed wrong passwords in a row lock the account, however the attempts
\* interleave, until the lock runs out (completeLogin).
LockoutBites ==
  failed >= MaxFailed => locked \/ unlocked \/ \E c \in Calls : step[c] = "lock"
==============================================================================
