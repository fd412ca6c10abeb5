----------------------------- MODULE LiveSession -----------------------------
(***************************************************************************)
(* The broadcasts of one seller: the live_sessions rows, the host's        *)
(* requests (live/start, live/stop, and the older POST /streams and its    *)
(* end), the webhooks by which SRS asks whether an RTMP client may publish *)
(* and reports that it left, the claim live:publisher:<key> in Redis that  *)
(* keeps a second publisher out, and the worker's sweep of over-long       *)
(* sessions.                                                               *)
(*                                                                         *)
(* Every session has one stream key, so a session stands for its key too.  *)
(* A client is an SRS client_id; its webhook runs in the steps between     *)
(* which other requests can change the row or the claim.  SRS itself, the  *)
(* clock and Redis's expiry are the environment.                           *)
(***************************************************************************)
EXTENDS FiniteSets

CONSTANTS
  Sessions,
  Guarded,    \* sessions made by live/start; the others by POST /streams
  Clients,
  NoClient

ASSUME LiveSessionAssumption ==
  /\ Guarded \subseteq Sessions
  /\ NoClient \notin Clients

VARIABLES
  status,   \* live_sessions.status, "none" while there is no row
  token,    \* publish_token: "none" (SQL NULL), "valid" or "expired"
  aged,     \* open sessions whose started_at is older than the maximal duration
  claim,    \* value of live:publisher:<key>
  at,       \* where the webhooks of a client are, see Places
  key,      \* the stream key that a client publishes or asks for
  proven,   \* sessions whose token some on_publish presented (history)
  ungated   \* keys whose claim timed out or was passed by once (history)

row == <<status, token, aged>>
client == <<at, key>>
history == <<proven, ungated>>
vars == <<row, claim, client, history>>

Statuses == {"none", "ready", "live", "offline", "ended"}

\* away, on_publish (gate: SETNX next; compare: GET next; mark: UPDATE next),
\* streaming, on_unpublish (left: GET next; release: DEL next; close: UPDATE
\* next).
Places == {"away", "gate", "compare", "mark", "streaming",
           "left", "release", "close"}

TypeOK ==
  /\ status \in [Sessions -> Statuses]
  /\ token \in [Sessions -> {"none", "valid", "expired"}]
  /\ aged \in SUBSET Sessions
  /\ claim \in [Sessions -> Clients \cup {NoClient}]
  /\ at \in [Clients -> Places]
  /\ key \in [Clients -> Sessions]
  /\ proven \in SUBSET Sessions
  /\ ungated \in SUBSET Sessions

Init ==
  /\ status = [s \in Sessions |-> "none"]
  /\ token = [s \in Sessions |-> "none"]
  /\ aged = {}
  /\ claim = [s \in Sessions |-> NoClient]
  /\ at = [c \in Clients |-> "away"]
  /\ key \in [Clients -> Sessions]
  /\ proven = {}
  /\ ungated = {}

Open(s) == status[s] \in {"ready", "live"}

\* UPDATE ... SET status = 'offline', publish_token = NULL over the open rows
\* of a set.
TakenOffline(S) == [s \in Sessions |-> IF s \in S /\ Open(s)
                                         THEN "offline" ELSE status[s]]
Revoked(S) == [s \in Sessions |-> IF s \in S /\ Open(s)
                                    THEN "none" ELSE token[s]]
TakeOffline(S) ==
  /\ status' = TakenOffline(S)
  /\ token' = Revoked(S)
  /\ aged' = aged \ S

------------------------------------------------------------------------------
(* The host's requests. *)

\* live/start: one transaction closes what is open and inserts a ready row
\* with a new token.
StartSpecSession(s) ==
  /\ s \in Guarded
  /\ status[s] = "none"
  /\ status' = [TakenOffline(Sessions) EXCEPT ![s] = "ready"]
  /\ token' = [Revoked(Sessions) EXCEPT ![s] = "valid"]
  /\ aged' = {}
  /\ UNCHANGED <<claim, client, history>>

\* POST /streams: the row gets the column's default, 'live', and no token.
Create(s) ==
  /\ s \notin Guarded
  /\ status[s] = "none"
  /\ status' = [status EXCEPT ![s] = "live"]
  /\ UNCHANGED <<token, aged, claim, client, history>>

\* live/stop; without an open row nothing changes.
StopSpecSession ==
  /\ \E s \in Sessions : Open(s)
  /\ TakeOffline(Sessions)
  /\ UNCHANGED <<claim, client, history>>

\* POST /streams/:id/end by the owner or an admin, whatever the status is; the
\* token stays in the row.
End(s) ==
  /\ status[s] # "none"
  /\ status' = [status EXCEPT ![s] = "ended"]
  /\ aged' = aged \ {s}
  /\ UNCHANGED <<token, claim, client, history>>

------------------------------------------------------------------------------
(* on_publish.  A denied client goes away; SRS may also report that it left. *)

Deny(c) == \E p \in {"away", "left"} : at' = [at EXCEPT ![c] = p]
Pass(c, p) == at' = [at EXCEPT ![c] = p]

\* Mutant: a push without a token is taken for one of the older flow.
AcceptsAnonymous(s, presented) ==
  \/ token[s] = "none"
  \/ ~presented
  \/ token[s] = "valid"

\* The token comparison: a row without a token needs none.
TokenAccepted(s, presented) ==
  \/ token[s] = "none"
  \/ presented /\ token[s] = "valid"

\* GetByChannel and ValidatePublishToken.  The client presents the session's
\* token or something else.
Ask(c, s, presented) ==
  /\ at[c] = "away"
  /\ status[s] # "none"
  /\ key' = [key EXCEPT ![c] = s]
  /\ IF status[s] # "ended" /\ TokenAccepted(s, presented)
       THEN /\ Pass(c, "gate")
            /\ proven' = IF presented /\ token[s] = "valid"
                           THEN proven \cup {s} ELSE proven
       ELSE /\ Deny(c)
            /\ UNCHANGED proven
  /\ UNCHANGED <<row, claim, ungated>>

\* SETNX with the time to live.
Claim(c) ==
  /\ at[c] = "gate"
  /\ IF claim[key[c]] = NoClient
       THEN /\ claim' = [claim EXCEPT ![key[c]] = c]
            /\ Pass(c, "mark")
       ELSE /\ Pass(c, "compare")
            /\ UNCHANGED claim
  /\ UNCHANGED <<row, key, history>>

\* GET and comparison.  If the claim went away meanwhile the client passes
\* without one.  EXPIRE for a client that finds its own claim needs no step:
\* a claim may be there for any time.
Compare(c) ==
  /\ at[c] = "compare"
  /\ IF claim[key[c]] \in {c, NoClient} THEN Pass(c, "mark") ELSE Deny(c)
  /\ ungated' = IF claim[key[c]] = NoClient
                  THEN ungated \cup {key[c]} ELSE ungated
  /\ UNCHANGED <<row, claim, key, proven>>

\* An error of Redis in SETNX or GET lets the client pass.
GateFails(c) ==
  /\ at[c] \in {"gate", "compare"}
  /\ Pass(c, "mark")
  /\ ungated' = ungated \cup {key[c]}
  /\ UNCHANGED <<row, claim, key, proven>>

\* Mutant: the rule of the older MarkLive, any row that the host did not end.
ResurrectOffline(s) == status[s] # "ended"

\* The WHERE clause of MarkLiveSpec.
Markable(s) == Open(s)

\* MarkLiveSpec, whose error is ignored, and the answer 0.
MarkLive(c) ==
  /\ at[c] = "mark"
  /\ Pass(c, "streaming")
  /\ \/ /\ Markable(key[c])
        /\ status' = [status EXCEPT ![key[c]] = "live"]
     \/ UNCHANGED status
  /\ UNCHANGED <<token, aged, claim, key, history>>

\* The API stops, or SRS gives up waiting: SRS denies.
PublishHookFails(c) ==
  /\ at[c] \in {"gate", "compare", "mark"}
  /\ Pass(c, "away")
  /\ UNCHANGED <<row, claim, key, history>>

------------------------------------------------------------------------------
(* on_unpublish. *)

\* The publisher is gone; the webhook may not reach the API.
Leave(c) ==
  /\ at[c] = "streaming"
  /\ \E p \in {"left", "away"} : Pass(c, p)
  /\ UNCHANGED <<row, claim, key, history>>

\* Mutant: the claim is released for whoever leaves.
MayRelease(c) == TRUE

\* Only the client that the claim names releases it.
OwnsClaim(c) == claim[key[c]] = c

\* GET; its errors end in the next part of the handler.
ReadClaim(c) ==
  /\ at[c] = "left"
  /\ \/ OwnsClaim(c) /\ Pass(c, "release")
     \/ Pass(c, "close")
  /\ UNCHANGED <<row, claim, key, history>>

\* DEL, whatever the key holds by now, or an error of it.
ReleaseClaim(c) ==
  /\ at[c] = "release"
  /\ Pass(c, "close")
  /\ \/ claim' = [claim EXCEPT ![key[c]] = NoClient]
     \/ UNCHANGED claim
  /\ UNCHANGED <<row, key, history>>

\* EndByChannelSpec, whoever the client was; its error is ignored.
EndByChannel(c) ==
  /\ at[c] = "close"
  /\ Pass(c, "away")
  /\ TakeOffline({key[c]}) \/ UNCHANGED row
  /\ UNCHANGED <<claim, key, history>>

\* The API stops in the middle.
UnpublishHookFails(c) ==
  /\ at[c] \in {"left", "release", "close"}
  /\ Pass(c, "away")
  /\ UNCHANGED <<row, claim, key, history>>

------------------------------------------------------------------------------
(* Time: expiry in Redis, of tokens and of sessions, and the sweep. *)

ClaimExpires(s) ==
  /\ claim[s] # NoClient
  /\ claim' = [claim EXCEPT ![s] = NoClient]
  /\ ungated' = ungated \cup {s}
  /\ UNCHANGED <<row, client, proven>>

\* Only the token of an open row is ever compared.
TokenExpires(s) ==
  /\ Open(s)
  /\ token[s] = "valid"
  /\ token' = [token EXCEPT ![s] = "expired"]
  /\ UNCHANGED <<status, aged, claim, client, history>>

\* started_at is set once: a publisher that comes back does not renew it.
Age(s) ==
  /\ Open(s)
  /\ s \notin aged
  /\ aged' = aged \cup {s}
  /\ UNCHANGED <<status, token, claim, client, history>>

\* Mutant: the sweep looks at live rows only.
StaleLive == {s \in aged : status[s] = "live"}

\* The rows that EndStaleSessions selects.
Stale == {s \in aged : Open(s)}

EndStaleSessions ==
  /\ Stale # {}
  /\ TakeOffline(Stale)
  /\ UNCHANGED <<claim, client, history>>

------------------------------------------------------------------------------
Publish(c) ==
  \/ \E s \in Sessions, presented \in BOOLEAN : Ask(c, s, presented)
  \/ Claim(c) \/ Compare(c) \/ GateFails(c) \/ MarkLive(c)
  \/ PublishHookFails(c)

Unpublish(c) ==
  \/ Leave(c) \/ ReadClaim(c) \/ ReleaseClaim(c) \/ EndByChannel(c)
  \/ UnpublishHookFails(c)

Host ==
  \/ \E s \in Sessions : StartSpecSession(s) \/ Create(s) \/ End(s)
  \/ StopSpecSession

Time ==
  \/ \E s \in Sessions : ClaimExpires(s) \/ TokenExpires(s) \/ Age(s)
  \/ EndStaleSessions

Next ==
  \/ Host
  \/ \E c \in Clients : Publish(c) \/ Unpublish(c)
  \/ Time

Spec == Init /\ [][Next]_vars

\* Time passes, and the worker's ticker sweeps again and again; hosts and
\* clients owe nothing.
FairSpec ==
  /\ Spec
  /\ \A s \in Sessions : WF_vars(Age(s))
  /\ WF_vars(EndStaleSessions)

------------------------------------------------------------------------------
\* A session made by live/start is on air only if a publisher presented its
\* token: neither the window between check and UPDATE nor the NULL that stop
\* leaves in the row lets a stranger's stream on air (webhook.go:188-220).
LiveWasProven ==
  \A s \in Guarded : status[s] = "live" => s \in proven

\* As long as the claim of a key neither timed out nor was passed by, at most
\* one client streams under the key, whoever else asks, is denied and reports
\* that it left (webhook.go:198-215, 244-257).
OnePublisher ==
  \A s \in Sessions \ ungated :
    \A c, d \in Clients :
      /\ at[c] = "streaming" /\ key[c] = s
      /\ at[d] = "streaming" /\ key[d] = s
      => c = d

\* A session that was closed by stop, end, the sweep or a publisher's leaving
\* is never open again, also when an on_publish that began before the close
\* marks it afterwards (spec_repo.go:296-305).
ClosedStaysClosed ==
  [][\A s \in Sessions :
       status[s] \in {"offline", "ended"} => status'[s] \in {"offline", "ended"}]_vars

\* The maximal duration holds for every session, ready or live and however
\* often its publisher reconnects (session_repo.go:296-308).
SessionsEnd == \A s \in Sessions : Open(s) ~> ~Open(s)

\* A stream key is refused once its session was stopped, "so a stale
\* stream_key can't be republished after stop" (spec_repo.go:296-298).
StoppedKeyIsRefused ==
  [][\A c \in Clients :
       at[c] = "away" /\ at'[c] = "gate" => status[key'[c]] # "offline"]_vars
==============================================================================
