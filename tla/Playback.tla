------------------------------ MODULE Playback ------------------------------
(***************************************************************************)
(* The HLS proxy: a viewer asks the backend for the playlist of a session, *)
(* the backend polls SRS until there is a playable one, rewrites its lines *)
(* so that the stream key stays behind, and passes the segments through.   *)
(*                                                                         *)
(* SRS is external: a stream that has just begun answers 404 or a          *)
(* placeholder that points at itself, then a window of segments, and for a *)
(* while after the end the last window still.  The status of the session   *)
(* is read once, before the polls.                                         *)
(***************************************************************************)
EXTENDS Integers, FiniteSets

CONSTANTS
  Viewers,
  Attempts,      \* coldStartAttempts: 12
  Window,        \* segments SRS keeps (external)
  MaxSeq         \* bound: segments of the stream

VARIABLES
  status,        \* live_sessions.status
  srs,           \* what SRS does with the key
  head,          \* the newest segment, 0 before the first
  viewer,        \* where each viewer's request is
  polls,         \* attempts of the request so far
  playlist,      \* the lines the viewer was served last
  played,        \* the segments it got
  missed,        \* the listed ones that were refused
  cut            \* history: upstream fetches of a segment that failed

vars == <<status, srs, head, viewer, polls, playlist, played, missed, cut>>

Segment(n) == [path |-> "segment", seq |-> n]
\* A line of SRS that names the stream's own playlist.
Variant == [path |-> "variant", seq |-> 0]
\* Lines of a served playlist.
Proxied(n) == [path |-> "s", seq |-> n]
ProxiedSelf == [path |-> "playlist", seq |-> 0]

Lines == [path : {"segment", "variant", "s", "playlist"}, seq : 0..MaxSeq]

TypeOK ==
  /\ status \in {"scheduled", "live", "ended"}
  /\ srs \in {"idle", "on", "over", "gone"}
  /\ head \in 0..MaxSeq
  /\ viewer \in [Viewers -> {"idle", "polling", "watching", "refused", "failed"}]
  /\ polls \in [Viewers -> 0..Attempts]
  /\ playlist \in [Viewers -> SUBSET Lines]
  /\ {played, missed, cut} \subseteq [Viewers -> SUBSET (1..MaxSeq)]

Init ==
  /\ status = "scheduled" /\ srs = "idle" /\ head = 0
  /\ viewer = [v \in Viewers |-> "idle"]
  /\ polls = [v \in Viewers |-> 0]
  /\ playlist = [v \in Viewers |-> {}]
  /\ played = [v \in Viewers |-> {}]
  /\ missed = [v \in Viewers |-> {}]
  /\ cut = [v \in Viewers |-> {}]

viewerVars == <<viewer, polls, playlist, played, missed, cut>>

-----------------------------------------------------------------------------
(* The stream *)

\* The host's encoder connects, and on_publish turns the session live.
Publish ==
  /\ status = "scheduled"
  /\ status' = "live" /\ srs' = "on"
  /\ UNCHANGED <<head, viewerVars>>

NewSegment ==
  /\ srs = "on" /\ head < MaxSeq
  /\ head' = head + 1
  /\ UNCHANGED <<status, srs, viewerVars>>

\* The session ends, at once or after the encoder has gone.
End ==
  /\ status = "live"
  /\ status' = "ended"
  /\ UNCHANGED <<srs, head, viewerVars>>

Disconnect == srs = "on" /\ srs' = "over" /\ UNCHANGED <<status, head, viewerVars>>

\* SRS removes the files of a stream that is over.
Dispose == srs = "over" /\ srs' = "gone" /\ UNCHANGED <<status, head, viewerVars>>

-----------------------------------------------------------------------------
(* The playlist *)

\* What SRS holds of the stream.
Kept == IF srs = "gone" THEN {} ELSE {n \in 1..head : n > head - Window}

\* The answers of SRS to a request for the playlist; {} stands for a 404.
Upstream ==
  IF Kept = {} THEN {{}} \cup (IF srs = "on" THEN {{Variant}} ELSE {})
  ELSE {{Segment(n) : n \in Kept}}

\* The placeholder: a master playlist whose only variant is the stream itself.
IsSRSPlaceholderMaster(lines) == lines = {Variant}

\* Every line that holds the key is replaced.
RewriteHLSManifest(lines) ==
  {IF l.path = "segment" THEN Proxied(l.seq) ELSE ProxiedSelf : l \in lines}

\* hlsManifest reads the session; players ask again, those refused too.
Ask(v) ==
  /\ viewer[v] # "polling"
  /\ viewer' = [viewer EXCEPT ![v] = IF status = "live" THEN "polling" ELSE "refused"]
  /\ polls' = [polls EXCEPT ![v] = 0]
  /\ UNCHANGED <<status, srs, head, playlist, played, missed, cut>>

\* A playable answer is served,
Serve(v, answer) ==
  /\ answer # {} /\ ~IsSRSPlaceholderMaster(answer)
  /\ playlist' = [playlist EXCEPT ![v] = RewriteHLSManifest(answer)]
  /\ viewer' = [viewer EXCEPT ![v] = "watching"]
  /\ UNCHANGED polls

\* any other one is asked for again, so long as the budget lasts.
AskAgain(v, answer) ==
  /\ answer = {} \/ IsSRSPlaceholderMaster(answer)
  /\ IF polls[v] >= Attempts
       THEN viewer' = [viewer EXCEPT ![v] = "refused"] /\ UNCHANGED polls
       ELSE polls' = [polls EXCEPT ![v] = polls[v] + 1] /\ UNCHANGED viewer
  /\ UNCHANGED playlist

Poll(v) ==
  /\ viewer[v] = "polling"
  /\ \E answer \in Upstream : Serve(v, answer) \/ AskAgain(v, answer)
  /\ UNCHANGED <<status, srs, head, played, missed, cut>>

\* The fetch fails (500), or the viewer closes the page between two polls.
PollFails(v) ==
  /\ viewer[v] = "polling"
  /\ viewer' = [viewer EXCEPT ![v] = "failed"]
  /\ UNCHANGED <<status, srs, head, polls, playlist, played, missed, cut>>

-----------------------------------------------------------------------------
(* The segments *)

\* The session is looked up for its key; its status does not matter.
HlsSegment(v, n) ==
  IF n \in Kept
    THEN played' = [played EXCEPT ![v] = @ \cup {n}] /\ UNCHANGED missed
    ELSE missed' = [missed EXCEPT ![v] = @ \cup {n}] /\ UNCHANGED played

\* The player fetches what its playlist lists and it does not have.
Fetch(v) ==
  /\ viewer[v] = "watching"
  /\ \E l \in playlist[v] :
       /\ l.path = "s" /\ l.seq \notin played[v] \cup missed[v] \cup cut[v]
       /\ \/ HlsSegment(v, l.seq) /\ UNCHANGED cut
          \/ cut' = [cut EXCEPT ![v] = @ \cup {l.seq}] /\ UNCHANGED <<played, missed>>
  /\ UNCHANGED <<status, srs, head, viewer, polls, playlist>>

Next ==
  \/ Publish \/ NewSegment \/ End \/ Disconnect \/ Dispose
  \/ \E v \in Viewers : Ask(v) \/ Poll(v) \/ PollFails(v) \/ Fetch(v)

Spec == Init /\ [][Next]_vars

-----------------------------------------------------------------------------
(* Properties *)

\* A playlist that is served can be played: it lists segments, never only
\* itself, which would send the player round in circles, and no line of it
\* holds the stream key (hls_proxy.go).
ServedIsPlayable ==
  \A v \in Viewers : viewer[v] = "watching" =>
    /\ \E l \in playlist[v] : l.path = "s"
    /\ \A l \in playlist[v] : l.path \in {"s", "playlist"}

\* Who watches when the session ends gets the segments its playlist lists: one
\* is refused only when SRS has dropped it, because newer ones took its place
\* or the files of the stream are gone.
TrailingSegmentsPlay ==
  \A v \in Viewers : \A n \in missed[v] : n \notin Kept

\* The viewer of the live gets what it was promised.
PlaysWhatIsListed == ServedIsPlayable /\ TrailingSegmentsPlay
=============================================================================
