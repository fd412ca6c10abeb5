------------------------------- MODULE Shops -------------------------------
(***************************************************************************)
(* One shop: the members its owner lets go live, and its followers.  The   *)
(* owner's PATCH of a member reads the row, merges the request into it and *)
(* writes all of it back, so two of them may cross; a follow counts in a   *)
(* statement after its row.                                                *)
(*                                                                         *)
(* decided, crossed, refollows and lost are history: the last value asked  *)
(* for of each field, the members whose row was written between another    *)
(* request's read and write, the follows of a follower, and the counter    *)
(* updates that failed or found the counter at zero.                       *)
(***************************************************************************)
EXTENDS Integers, FiniteSets

CONSTANTS
  Calls,       \* requests
  Users,       \* everybody but the owner
  Owner,
  None,
  MaxFollows   \* bound: follower_count and refollows

VARIABLES
  member,      \* shop_live_permissions: each user's row, or None
  decided, crossed,
  onAir,       \* who was let through the gate of live/start
  follows,     \* shop_follows
  followerCount, refollows, lost,
  request,     \* the member and the fields each call names
  current,     \* what each call has read
  step

memberVars == <<member, decided, crossed, onAir>>
followVars == <<follows, followerCount, refollows, lost>>
callVars == <<request, current, step>>
vars == <<memberVars, followVars, callVars>>

Statuses == {"pending", "approved", "rejected"}

\* A field a request leaves out; can_live is a flag beside the strings.
Omitted == "omitted"
Flags == {"yes", "no"}

Row(t, s, l) == [type |-> t, status |-> s, canLive |-> l]

Rows == {Row(t, s, l) : t \in {"staff", "collaborator"}, s \in Statuses, l \in Flags}

Steps == {"idle", "merge", "followPlus", "followMinus", "done"}

TypeOK ==
  /\ member \in [Users -> Rows \cup {None}]
  /\ crossed \in SUBSET Users /\ onAir \in SUBSET (Users \cup {Owner})
  /\ follows \in SUBSET Users
  /\ {followerCount, refollows} \subseteq 0..MaxFollows /\ lost \in Int
  /\ current \in [Calls -> Rows \cup {None}] /\ step \in [Calls -> Steps]

NoRequest == [user |-> None, status |-> Omitted, canLive |-> Omitted]

Init ==
  /\ member = [u \in Users |-> None]
  /\ decided = [u \in Users |-> [status |-> Omitted, canLive |-> Omitted]]
  /\ crossed = {} /\ onAir = {}
  /\ follows = {} /\ followerCount = 0 /\ refollows = 0 /\ lost = 0
  /\ request = [c \in Calls |-> NoRequest]
  /\ current = [c \in Calls |-> None]
  /\ step = [c \in Calls |-> "idle"]

GoTo(c, s) == step' = [step EXCEPT ![c] = s]

------------------------------------------------------------------------------
(* Members. *)

\* Who has read u's row and not yet written it back.
Merging(u) == {c \in Calls : step[c] = "merge" /\ request[c].user = u}

Given(field, default) == IF field = Omitted THEN default ELSE field

\* The row of u is written by call c, or by a call of one statement (None).
Write(c, u, row) ==
  /\ member' = [member EXCEPT ![u] = row]
  /\ crossed' = IF Merging(u) \ {c} # {} THEN crossed \cup {u} ELSE crossed

\* UpsertMember.  An omitted status is approved, an omitted can_live is yes.
Add(c, u, t, s, l) ==
  /\ step[c] = "idle" /\ GoTo(c, "done")
  /\ LET row == Row(t, Given(s, "approved"), Given(l, "yes")) IN
       /\ Write(c, u, row)
       /\ decided' = [decided EXCEPT ![u] = [status |-> row.status, canLive |-> row.canLive]]
  /\ UNCHANGED <<onAir, followVars, request, current>>

\* GetMember: what the request leaves out defaults to what is read here.
ReadMember(c, u, s, l) ==
  /\ step[c] = "idle" /\ member[u] # None
  /\ request' = [request EXCEPT ![c] = [user |-> u, status |-> s, canLive |-> l]]
  /\ current' = [current EXCEPT ![c] = member[u]]
  /\ GoTo(c, "merge")
  /\ UNCHANGED <<memberVars, followVars>>

\* Mutant: an omitted can_live is yes, as it is in add.
MergedAnew(c) ==
  Row(current[c].type, Given(request[c].status, current[c].status),
      Given(request[c].canLive, "yes"))

Merged(c) ==
  Row(current[c].type, Given(request[c].status, current[c].status),
      Given(request[c].canLive, current[c].canLive))

\* UpdateStatus: status and can_live, if the row is still there.
UpdateStatus(c) ==
  /\ step[c] = "merge" /\ GoTo(c, "done")
  /\ LET u == request[c].user
         row == Merged(c)
     IN IF member[u] = None
          THEN UNCHANGED <<member, decided, crossed>>
          ELSE /\ Write(c, u, [row EXCEPT !.type = member[u].type])
               /\ decided' = [decided EXCEPT ![u] =
                    [status |-> Given(request[c].status, @.status),
                     canLive |-> Given(request[c].canLive, @.canLive)]]
  /\ UNCHANGED <<onAir, followVars, request, current>>

RemoveMember(c, u) ==
  /\ step[c] = "idle" /\ member[u] # None /\ GoTo(c, "done")
  /\ Write(c, u, None)
  /\ decided' = [decided EXCEPT ![u] = [status |-> Omitted, canLive |-> Omitted]]
  /\ UNCHANGED <<onAir, followVars, request, current>>

\* AuthorizedShop: the owner, or a member who is approved and may go live.
MayGoLive(u) ==
  \/ u = Owner
  \/ u # Owner /\ member[u] # None /\ member[u].status = "approved" /\ member[u].canLive = "yes"

\* RequireLivePermission lets u start a session.
StartLive(u) ==
  /\ MayGoLive(u)
  /\ onAir' = onAir \cup {u}
  /\ UNCHANGED <<member, decided, crossed, followVars, callVars>>

------------------------------------------------------------------------------
(* Followers. *)

\* Follow inserts the row, if there is none, and counts in any case.
Follow(c, u) ==
  /\ step[c] = "idle"
  /\ follows' = follows \cup {u}
  /\ refollows' = IF u \in follows THEN refollows + 1 ELSE refollows
  /\ refollows' <= MaxFollows
  /\ GoTo(c, "followPlus")
  /\ UNCHANGED <<memberVars, followerCount, lost, request, current>>

CountFollow(c) ==
  /\ step[c] = "followPlus" /\ GoTo(c, "done")
  /\ \/ followerCount < MaxFollows /\ followerCount' = followerCount + 1 /\ UNCHANGED lost
     \/ lost' = lost - 1 /\ UNCHANGED followerCount
  /\ UNCHANGED <<memberVars, follows, refollows, request, current>>

\* Mutant: the counter goes down although there was no row.
UnfollowAnyway(c, u) ==
  /\ step[c] = "idle"
  /\ follows' = follows \ {u}
  /\ GoTo(c, "followMinus")
  /\ UNCHANGED <<memberVars, followerCount, refollows, lost, request, current>>

\* Unfollow counts only a row that was there.
Unfollow(c, u) ==
  /\ step[c] = "idle"
  /\ follows' = follows \ {u}
  /\ GoTo(c, IF u \in follows THEN "followMinus" ELSE "done")
  /\ UNCHANGED <<memberVars, followerCount, refollows, lost, request, current>>

\* GREATEST(0, follower_count - 1).
UncountFollow(c) ==
  /\ step[c] = "followMinus" /\ GoTo(c, "done")
  /\ \/ followerCount > 0 /\ followerCount' = followerCount - 1 /\ UNCHANGED lost
     \/ lost' = lost + 1 /\ UNCHANGED followerCount
  /\ UNCHANGED <<memberVars, follows, refollows, request, current>>

------------------------------------------------------------------------------
MemberRequest(c) ==
  \/ \E u \in Users, s \in Statuses \cup {Omitted}, l \in Flags \cup {Omitted} :
       \/ ReadMember(c, u, s, l)
       \/ \E t \in {"staff", "collaborator"} : Add(c, u, t, s, l)
  \/ \E u \in Users : RemoveMember(c, u)
  \/ UpdateStatus(c)

FollowRequest(c) ==
  \/ \E u \in Users : Follow(c, u) \/ Unfollow(c, u)
  \/ CountFollow(c) \/ UncountFollow(c)

Next ==
  \/ \E c \in Calls : MemberRequest(c) \/ FollowRequest(c)
  \/ \E u \in Users \cup {Owner} : StartLive(u)

Spec == Init /\ [][Next]_vars

------------------------------------------------------------------------------
\* Each field of a member's row is what the owner last asked of it, unless two
\* requests crossed: a request that names one field leaves the other alone.
DecisionsStand ==
  \A u \in Users : member[u] # None =>
    \/ u \in crossed
    \/ /\ member[u].status = decided[u].status
       /\ member[u].canLive = decided[u].canLive

\* The follower counter is off by the follows of those who followed already and
\* by updates that were lost, and by nothing else.
FollowersAccounted ==
  followerCount + Cardinality({c \in Calls : step[c] = "followPlus"})
    = Cardinality(follows) + Cardinality({c \in Calls : step[c] = "followMinus"})
      + refollows + lost
==============================================================================
