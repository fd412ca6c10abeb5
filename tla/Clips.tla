------------------------------- MODULE Clips -------------------------------
(***************************************************************************)
(* One video clip: its life, its denormalised counters and the moderation  *)
(* queue.  Each member of Calls is one request of a user; a call takes a   *)
(* step per statement, and the statement that moves a counter may fail or  *)
(* never come, because the row and the counter share no transaction.       *)
(*                                                                         *)
(* likeDrift, viewsLost and commentsLost are history: what the counters    *)
(* will never make up for.                                                 *)
(***************************************************************************)
EXTENDS Integers, FiniteSets

CONSTANTS
  Calls,
  Users,
  Owner,      \* the user who posts the clip
  Nobody      \* the viewer without a login

VARIABLES
  status,        \* videos.status, "none" before the insert
  likes,         \* video_likes
  likeCount,
  likeDrift,
  views,         \* video_views
  anonymous,     \* views without a login (history)
  viewCount,
  viewsLost,
  comments,      \* calls whose comment was inserted
  commentCount,
  commentsLost,
  reports,       \* status of each user's report, "none" without a row
  takenDown,     \* was the clip deleted by a takedown? (history)
  lateReports,   \* reporters whose check preceded the takedown (history)
  user,          \* who makes each call
  step           \* next step of each call

likeVars == <<likes, likeCount, likeDrift>>
viewVars == <<views, anonymous, viewCount, viewsLost>>
commentVars == <<comments, commentCount, commentsLost>>
reportVars == <<reports, takenDown, lateReports>>
vars == <<status, likeVars, viewVars, commentVars, reportVars, user, step>>

Steps == {"like", "likePlus", "unlike", "likeMinus", "comment", "commentPlus",
          "viewPlus", "report"}

TypeOK ==
  /\ status \in {"none", "active", "deleted"}
  /\ likes \in SUBSET Users /\ likeCount \in Nat /\ likeDrift \in Int
  /\ views \in SUBSET Users /\ {anonymous, viewCount, viewsLost} \subseteq Nat
  /\ comments \in SUBSET Calls /\ {commentCount, commentsLost} \subseteq Nat
  /\ reports \in [Users -> {"none", "pending", "resolved", "dismissed"}]
  /\ takenDown \in BOOLEAN /\ lateReports \in SUBSET Users
  /\ user \in [Calls -> Users \cup {Nobody}]
  /\ step \in [Calls -> Steps \cup {"idle", "done"}]

Init ==
  /\ status = "none"
  /\ likes = {} /\ likeCount = 0 /\ likeDrift = 0
  /\ views = {} /\ anonymous = 0 /\ viewCount = 0 /\ viewsLost = 0
  /\ comments = {} /\ commentCount = 0 /\ commentsLost = 0
  /\ reports = [u \in Users |-> "none"] /\ takenDown = FALSE /\ lateReports = {}
  /\ user = [c \in Calls |-> Nobody]
  /\ step = [c \in Calls |-> "idle"]

At(s) == {c \in Calls : step[c] = s}

\* Call c by u begins with the check Exists and goes on to s if the clip is active.
Begin(c, u, s) ==
  /\ step[c] = "idle"
  /\ user' = [user EXCEPT ![c] = u]
  /\ step' = [step EXCEPT ![c] = IF status = "active" THEN s ELSE "done"]

GoTo(c, s) ==
  /\ step' = [step EXCEPT ![c] = s]
  /\ UNCHANGED user

------------------------------------------------------------------------------
(* The clip. *)

\* Create: the row with its products and coupons in one transaction.
Create ==
  /\ status = "none"
  /\ status' = "active"
  /\ UNCHANGED <<likeVars, viewVars, commentVars, reportVars, user, step>>

\* SoftDelete by the owner or an admin; reports stay as they are.
SoftDelete(u, isAdmin) ==
  /\ status = "active" /\ (isAdmin \/ u = Owner)
  /\ status' = "deleted"
  /\ UNCHANGED <<likeVars, viewVars, commentVars, reportVars, user, step>>

------------------------------------------------------------------------------
(* Likes. *)

SetLike(c, u) ==
  /\ Begin(c, u, "like") \/ Begin(c, u, "unlike")
  /\ UNCHANGED <<status, likeVars, viewVars, commentVars, reportVars>>

\* Mutant: the counter moves although the row was there.
LikeAgain(c) ==
  /\ step[c] = "like"
  /\ likes' = likes \cup {user[c]}
  /\ GoTo(c, "likePlus")
  /\ UNCHANGED <<status, likeCount, likeDrift, viewVars, commentVars, reportVars>>

\* INSERT ... ON CONFLICT DO NOTHING: only a new row is counted.
InsertLike(c) ==
  /\ step[c] = "like"
  /\ likes' = likes \cup {user[c]}
  /\ GoTo(c, IF user[c] \in likes THEN "done" ELSE "likePlus")
  /\ UNCHANGED <<status, likeCount, likeDrift, viewVars, commentVars, reportVars>>

DeleteLike(c) ==
  /\ step[c] = "unlike"
  /\ likes' = likes \ {user[c]}
  /\ GoTo(c, IF user[c] \in likes THEN "likeMinus" ELSE "done")
  /\ UNCHANGED <<status, likeCount, likeDrift, viewVars, commentVars, reportVars>>

CountLike(c) ==
  /\ step[c] = "likePlus"
  /\ GoTo(c, "done")
  /\ \/ likeCount' = likeCount + 1 /\ UNCHANGED likeDrift
     \/ likeDrift' = likeDrift - 1 /\ UNCHANGED likeCount
  /\ UNCHANGED <<status, likes, viewVars, commentVars, reportVars>>

\* GREATEST(0, like_count - 1): an unlike that overtakes its like's counter
\* finds 0 and leaves a like too many for good.
UncountLike(c) ==
  /\ step[c] = "likeMinus"
  /\ GoTo(c, "done")
  /\ \/ likeCount > 0 /\ likeCount' = likeCount - 1 /\ UNCHANGED likeDrift
     \/ likeDrift' = likeDrift + 1 /\ UNCHANGED likeCount
  /\ UNCHANGED <<status, likes, viewVars, commentVars, reportVars>>

------------------------------------------------------------------------------
(* Views and comments. *)

\* RecordView without a login: one update, of an active clip only.
ViewAnonymously(c) ==
  /\ step[c] = "idle"
  /\ step' = [step EXCEPT ![c] = "done"]
  /\ anonymous' = anonymous + 1
  /\ IF status = "active"
       THEN viewCount' = viewCount + 1 /\ UNCHANGED viewsLost
       ELSE viewsLost' = viewsLost + 1 /\ UNCHANGED viewCount
  /\ UNCHANGED <<status, likeVars, views, commentVars, reportVars, user>>

\* Mutant: every view of a user counts.
ViewEveryTime(c, u) ==
  /\ step[c] = "idle" /\ status # "none"
  /\ views' = views \cup {u}
  /\ user' = [user EXCEPT ![c] = u]
  /\ step' = [step EXCEPT ![c] = "viewPlus"]
  /\ UNCHANGED <<status, likeVars, anonymous, viewCount, viewsLost, commentVars,
                 reportVars>>

\* RecordView with a login: a row per user for ever, also of a deleted clip.
View(c, u) ==
  /\ step[c] = "idle" /\ status # "none"
  /\ views' = views \cup {u}
  /\ user' = [user EXCEPT ![c] = u]
  /\ step' = [step EXCEPT ![c] = IF u \in views THEN "done" ELSE "viewPlus"]
  /\ UNCHANGED <<status, likeVars, anonymous, viewCount, viewsLost, commentVars,
                 reportVars>>

\* IncView passes over a clip that is not active.
CountView(c) ==
  /\ step[c] = "viewPlus"
  /\ GoTo(c, "done")
  /\ \/ status = "active" /\ viewCount' = viewCount + 1 /\ UNCHANGED viewsLost
     \/ viewsLost' = viewsLost + 1 /\ UNCHANGED viewCount
  /\ UNCHANGED <<status, likeVars, views, anonymous, commentVars, reportVars>>

BeginComment(c, u) ==
  /\ Begin(c, u, "comment")
  /\ UNCHANGED <<status, likeVars, viewVars, commentVars, reportVars>>

AddComment(c) ==
  /\ step[c] = "comment"
  /\ comments' = comments \cup {c}
  /\ GoTo(c, "commentPlus")
  /\ UNCHANGED <<status, likeVars, viewVars, commentCount, commentsLost, reportVars>>

CountComment(c) ==
  /\ step[c] = "commentPlus"
  /\ GoTo(c, "done")
  /\ \/ commentCount' = commentCount + 1 /\ UNCHANGED commentsLost
     \/ commentsLost' = commentsLost + 1 /\ UNCHANGED commentCount
  /\ UNCHANGED <<status, likeVars, viewVars, comments, reportVars>>

------------------------------------------------------------------------------
(* Moderation. *)

BeginReport(c, u) ==
  /\ Begin(c, u, "report")
  /\ UNCHANGED <<status, likeVars, viewVars, commentVars, reportVars>>

\* AddReport: a second report of the same user opens the first again.
AddReport(c) ==
  /\ step[c] = "report"
  /\ reports' = [reports EXCEPT ![user[c]] = "pending"]
  /\ lateReports' = IF takenDown THEN lateReports \cup {user[c]} ELSE lateReports
  /\ GoTo(c, "done")
  /\ UNCHANGED <<status, likeVars, viewVars, commentVars, takenDown>>

\* Mutant: a takedown resolves the report at hand only.
TakedownOne(u) ==
  /\ reports[u] # "none"
  /\ status' = "deleted" /\ takenDown' = TRUE
  /\ reports' = [reports EXCEPT ![u] = "resolved"]
  /\ UNCHANGED <<likeVars, viewVars, commentVars, lateReports, user, step>>

\* ResolveReport with a takedown: the clip and every pending report on it.
Takedown(u) ==
  /\ reports[u] # "none"
  /\ status' = "deleted" /\ takenDown' = TRUE
  /\ reports' = [w \in Users |-> IF reports[w] = "pending" THEN "resolved" ELSE reports[w]]
  /\ lateReports' = {}
  /\ UNCHANGED <<likeVars, viewVars, commentVars, user, step>>

\* ResolveReport without one: this report, whatever its status was.
Dismiss(u) ==
  /\ reports[u] # "none"
  /\ reports' = [reports EXCEPT ![u] = "dismissed"]
  /\ UNCHANGED <<status, likeVars, viewVars, commentVars, takenDown, lateReports,
                 user, step>>

------------------------------------------------------------------------------
LikeRequest(c) ==
  \/ \E u \in Users : SetLike(c, u)
  \/ InsertLike(c) \/ CountLike(c) \/ DeleteLike(c) \/ UncountLike(c)

ViewRequest(c) ==
  \/ ViewAnonymously(c) \/ CountView(c)
  \/ \E u \in Users : View(c, u)

CommentRequest(c) ==
  \/ \E u \in Users : BeginComment(c, u)
  \/ AddComment(c) \/ CountComment(c)

ReportRequest(c) == AddReport(c) \/ \E u \in Users : BeginReport(c, u)

ResolveReport(u) == Takedown(u) \/ Dismiss(u)

Next ==
  \/ Create
  \/ \E u \in Users, isAdmin \in BOOLEAN : SoftDelete(u, isAdmin)
  \/ \E c \in Calls : LikeRequest(c) \/ ViewRequest(c) \/ CommentRequest(c)
                      \/ ReportRequest(c)
  \/ \E u \in Users : ResolveReport(u)

Spec == Init /\ [][Next]_vars

------------------------------------------------------------------------------
\* The like counter is off by exactly what was lost: by updates that never
\* came and by decrements that found it at zero, and by nothing else, however
\* likes and unlikes of the same and of other users interleave.
LikesAccounted ==
  likeCount + Cardinality(At("likePlus"))
    = Cardinality(likes) + Cardinality(At("likeMinus")) + likeDrift

\* A user's view counts once, ever; nothing but a lost update is missing.
ViewsAccounted ==
  viewCount + Cardinality(At("viewPlus")) + viewsLost = Cardinality(views) + anonymous

\* A takedown leaves no pending report behind, except of users whose check of
\* the clip came before it.
TakedownEmptiesQueue ==
  takenDown => \A u \in Users : reports[u] = "pending" => u \in lateReports
==============================================================================
