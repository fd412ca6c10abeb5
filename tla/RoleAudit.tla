------------------------------ MODULE RoleAudit ------------------------------
(***************************************************************************)
(* Admins change roles (changeRole), and an append-only log says who did.  *)
(* The UPDATE joins the row with an image of it taken when the statement   *)
(* began; a statement that waited for the row's lock updates the newest    *)
(* row and still reports the image.  The log is written after the commit.  *)
(* What a change does to the sessions of the account is part of Accounts.  *)
(***************************************************************************)
EXTENDS Integers, Sequences

CONSTANTS
  Calls, Admins,
  Roles       \* with "admin"

VARIABLES
  role,       \* profiles.role
  token,      \* role in the access token each one holds
  step,       \* next step of each call
  change,     \* who asks, for whom, which role; the image of the old role
  trail,      \* audit_log, in the order of its rows
  crossed,    \* accounts with two changes under way at once (history)
  lost        \* accounts with a change that was not logged (history)

vars == <<role, token, step, change, trail, crossed, lost>>

NoChange(a) == [actor |-> a, target |-> a, new |-> "admin", old |-> "admin"]
Changes == [actor : Admins, target : Admins, new : Roles, old : Roles]

TypeOK ==
  /\ role \in [Admins -> Roles] /\ token \in [Admins -> Roles]
  /\ step \in [Calls -> {"idle", "update", "wait", "audit", "done"}]
  /\ change \in [Calls -> Changes]
  /\ trail \in Seq(Changes)
  /\ crossed \subseteq Admins /\ lost \subseteq Admins

Init ==
  /\ role = [a \in Admins |-> "admin"] /\ token = role
  /\ step = [c \in Calls |-> "idle"]
  /\ change = [c \in Calls |-> NoChange(CHOOSE a \in Admins : TRUE)]
  /\ trail = <<>> /\ crossed = {} /\ lost = {}

GoTo(c, s) == step' = [step EXCEPT ![c] = s]
UnderWay(u) == {c \in Calls : step[c] \in {"wait", "audit"} /\ change[c].target = u}

------------------------------------------------------------------------------
\* A refresh or a new login: the token carries the role of now.
NewToken(a) ==
  /\ token[a] # role[a]
  /\ token' = [token EXCEPT ![a] = role[a]]
  /\ UNCHANGED <<role, step, change, trail, crossed, lost>>

\* RequireRole looks at the token alone.
MayChangeRoles(a) == token[a] = "admin"

\* Nobody takes the own admin role away.
ChangeRole(c, a, u, r) ==
  /\ step[c] = "idle" /\ MayChangeRoles(a)
  /\ a = u => r = "admin"
  /\ change' = [change EXCEPT ![c] = [actor |-> a, target |-> u, new |-> r, old |-> r]]
  /\ GoTo(c, "update")
  /\ UNCHANGED <<role, token, trail, crossed, lost>>

\* Mutant: the old role is read back together with the new one.
ImageOfNew(c) ==
  /\ step[c] = "update" /\ GoTo(c, "wait")
  /\ change' = [change EXCEPT ![c].old = @]
  /\ crossed' = IF UnderWay(change[c].target) # {}
                  THEN crossed \cup {change[c].target} ELSE crossed
  /\ UNCHANGED <<role, token, trail, lost>>

\* The statement takes its image of the row, perhaps while another one holds it.
TakeImage(c) ==
  /\ step[c] = "update" /\ GoTo(c, "wait")
  /\ change' = [change EXCEPT ![c].old = role[change[c].target]]
  /\ crossed' = IF UnderWay(change[c].target) # {}
                  THEN crossed \cup {change[c].target} ELSE crossed
  /\ UNCHANGED <<role, token, trail, lost>>

\* The lock is granted and the transaction commits.
SetRole(c) ==
  /\ step[c] = "wait" /\ GoTo(c, "audit")
  /\ role' = [role EXCEPT ![change[c].target] = change[c].new]
  /\ UNCHANGED <<token, change, trail, crossed, lost>>

\* The transaction fails: there is nothing to log.
SetRoleFails(c) ==
  /\ step[c] \in {"update", "wait"} /\ GoTo(c, "done")
  /\ UNCHANGED <<role, token, change, trail, crossed, lost>>

\* Log, best effort: its failure, or the end of the process, is not noticed.
LogAudit(c) ==
  /\ step[c] = "audit" /\ GoTo(c, "done")
  /\ \/ trail' = Append(trail, change[c]) /\ UNCHANGED lost
     \/ lost' = lost \cup {change[c].target} /\ UNCHANGED trail
  /\ UNCHANGED <<role, token, change, crossed>>

Next ==
  \/ \E c \in Calls :
       \/ \E a, u \in Admins, r \in Roles : ChangeRole(c, a, u, r)
       \/ TakeImage(c) \/ SetRole(c) \/ SetRoleFails(c) \/ LogAudit(c)
  \/ \E a \in Admins : NewToken(a)

Spec == Init /\ [][Next]_vars

------------------------------------------------------------------------------
Rows(u) == {n \in DOMAIN trail : trail[n].target = u}

\* The log tells the history of an account's role without a gap: each row begins
\* where the one before ended and the last one is the role of now, unless a row
\* was lost or two changes of the account crossed.
TrailLinksUp ==
  \A u \in Admins :
    \/ u \in lost \cup crossed
    \/ \E c \in Calls : step[c] = "audit" /\ change[c].target = u
    \/ /\ \A m, n \in Rows(u) :
            m < n /\ (\A k \in Rows(u) : k <= m \/ n <= k) => trail[m].new = trail[n].old
       /\ \A n \in Rows(u) : /\ (\A k \in Rows(u) : n <= k) => trail[n].old = "admin"
                             /\ (\A k \in Rows(u) : k <= n) => trail[n].new = role[u]
       /\ Rows(u) = {} => role[u] = "admin"
==============================================================================
