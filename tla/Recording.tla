----------------------------- MODULE Recording -----------------------------
(***************************************************************************)
(* The recordings of one live session: SRS writes a file and calls on_dvr, *)
(* a worker bakes it, uploads the result to R2 and shows it on the         *)
(* session, and sweepers clean the disk and the bucket up.                 *)
(*                                                                         *)
(* A session has a recording per publish, so several files share its one   *)
(* link.  A worker handles an event at most once (EventBus) and may stop   *)
(* between any two statements.  What a bake draws is the subject of        *)
(* Replay.  Retention lists are worked off in any order.                   *)
(***************************************************************************)
CONSTANTS
  Recs,
  NoRec,
  Sweepers   \* worker processes that run the retention sweep

VARIABLES
  file,    \* is the .flv on the disk?
  event,   \* recording.created: none, queued or taken
  row,     \* status in recordings, "none" without a row
  object,  \* MP4s in the bucket
  link,    \* whose URL the session shows
  at,      \* next step of the handler of each recording
  aged,    \* files and rows older than their sweep allows
  listed,  \* rows that a retention sweep read and has to work off
  doomed   \* the one whose object it has just deleted

disk == <<file, event>>
sweeps == <<listed, doomed>>
vars == <<disk, row, object, link, at, aged, sweeps>>

Steps == {"insert", "stat", "bake", "upload", "link", "mark", "clean"}

TypeOK ==
  /\ file \in [Recs -> {"none", "disk", "gone"}]
  /\ event \in [Recs -> {"none", "queued", "taken"}]
  /\ row \in [Recs -> {"none", "processing", "uploaded", "failed", "expired"}]
  /\ object \in SUBSET Recs /\ link \in Recs \cup {NoRec}
  /\ at \in [Recs -> Steps \cup {"idle", "done"}]
  /\ aged \in SUBSET Recs
  /\ listed \in [Sweepers -> SUBSET Recs]
  /\ doomed \in [Sweepers -> Recs \cup {NoRec}]

Init ==
  /\ file = [r \in Recs |-> "none"] /\ event = [r \in Recs |-> "none"]
  /\ row = [r \in Recs |-> "none"] /\ object = {} /\ link = NoRec
  /\ at = [r \in Recs |-> "idle"] /\ aged = {}
  /\ listed = [v \in Sweepers |-> {}] /\ doomed = [v \in Sweepers |-> NoRec]

------------------------------------------------------------------------------
\* SRS closes a file and calls on_dvr; an unknown stream, a lost call or a
\* failing Publish leaves the file without an event.
OnDvr(r) ==
  /\ file[r] = "none"
  /\ file' = [file EXCEPT ![r] = "disk"]
  /\ event' \in {event, [event EXCEPT ![r] = "queued"]}
  /\ UNCHANGED <<row, object, link, at, aged, sweeps>>

\* A worker reads the event; only one at a time works on this session's files.
Take(r) ==
  /\ event[r] = "queued"
  /\ \A q \in Recs : at[q] \in {"idle", "done"}
  /\ event' = [event EXCEPT ![r] = "taken"]
  /\ at' = [at EXCEPT ![r] = "insert"]
  /\ UNCHANGED <<file, row, object, link, aged, sweeps>>

\* InsertRecording; without a row, later updates of it hit nothing.
InsertRecording(r) ==
  /\ at[r] = "insert"
  /\ at' = [at EXCEPT ![r] = "stat"]
  /\ row' \in {row, [row EXCEPT ![r] = "processing"]}
  /\ UNCHANGED <<disk, object, link, aged, sweeps>>

\* MarkRecordingFailed, its error discarded; the handler returns and keeps the file.
Fail(r) ==
  /\ at' = [at EXCEPT ![r] = "done"]
  /\ row' \in {row, [row EXCEPT ![r] = IF row[r] = "none" THEN "none" ELSE "failed"]}
  /\ UNCHANGED <<disk, object, link, aged, sweeps>>

Proceed(r, s) ==
  /\ at' = [at EXCEPT ![r] = s]
  /\ UNCHANGED <<disk, row, object, link, aged, sweeps>>

\* os.Stat of the file; GetByID of the session.
Stat(r) ==
  /\ at[r] = "stat"
  /\ \/ file[r] = "disk" /\ Proceed(r, "bake")
     \/ Fail(r)

\* vod.Bake fails for certain without the file.
Bake(r) ==
  /\ at[r] = "bake"
  /\ \/ file[r] = "disk" /\ Proceed(r, "upload")
     \/ Fail(r)

\* Upload under a key of its own.
Upload(r) ==
  /\ at[r] = "upload"
  /\ \/ /\ object' = object \cup {r}
        /\ at' = [at EXCEPT ![r] = "link"]
        /\ UNCHANGED <<disk, row, link, aged, sweeps>>
     \/ Fail(r)

\* SetVodURLs: an error is logged only.
SetVodURLs(r) ==
  /\ at[r] = "link"
  /\ at' = [at EXCEPT ![r] = "mark"]
  /\ link' \in {link, r}
  /\ UNCHANGED <<disk, row, object, aged, sweeps>>

MarkRecordingUploaded(r) ==
  /\ at[r] = "mark"
  /\ at' = [at EXCEPT ![r] = "clean"]
  /\ row' \in {row, [row EXCEPT ![r] = IF row[r] = "none" THEN "none" ELSE "uploaded"]}
  /\ UNCHANGED <<disk, object, link, aged, sweeps>>

RemoveFile(r) ==
  /\ at[r] = "clean"
  /\ at' = [at EXCEPT ![r] = "done"]
  /\ file' \in {file, [file EXCEPT ![r] = "gone"]}
  /\ UNCHANGED <<event, row, object, link, aged, sweeps>>

HandleRecording(r) ==
  \/ Take(r) \/ InsertRecording(r) \/ Stat(r) \/ Bake(r) \/ Upload(r)
  \/ SetVodURLs(r) \/ MarkRecordingUploaded(r) \/ RemoveFile(r)

------------------------------------------------------------------------------
\* The ages that the sweeps look at: two hours for a file, the retention time for a row.
GrowOld(r) ==
  /\ file[r] # "none" /\ r \notin aged
  /\ aged' = aged \cup {r}
  /\ UNCHANGED <<disk, row, object, link, at, sweeps>>

\* Mutant: files that no event speaks of are left for processing by hand.
SweepHandled(r) ==
  /\ file[r] = "disk" /\ r \in aged /\ event[r] = "taken"
  /\ file' = [file EXCEPT ![r] = "gone"]
  /\ UNCHANGED <<event, row, object, link, at, aged, sweeps>>

\* sweepDVR removes every old .flv, handled or not, being baked or not.
SweepDVR(r) ==
  /\ file[r] = "disk" /\ r \in aged
  /\ file' = [file EXCEPT ![r] = "gone"]
  /\ UNCHANGED <<event, row, object, link, at, aged, sweeps>>

\* ExpiredRecordings.
ListExpired(v) ==
  /\ listed[v] = {} /\ doomed[v] = NoRec
  /\ listed' = [listed EXCEPT ![v] = {r \in aged : row[r] = "uploaded"}]
  /\ UNCHANGED <<disk, row, object, link, at, aged, doomed>>

\* Mutant: the row expires although the object may still be there.
SkipAndExpire(v, r) ==
  /\ doomed[v] = NoRec /\ r \in listed[v]
  /\ listed' = [listed EXCEPT ![v] = @ \ {r}]
  /\ doomed' = [doomed EXCEPT ![v] = r]
  /\ UNCHANGED <<disk, row, object, link, at, aged>>

\* r2.Delete; deleting a key twice is no error.
DeleteObject(v, r) ==
  /\ doomed[v] = NoRec /\ r \in listed[v]
  /\ object' = object \ {r}
  /\ listed' = [listed EXCEPT ![v] = @ \ {r}]
  /\ doomed' = [doomed EXCEPT ![v] = r]
  /\ UNCHANGED <<disk, row, link, at, aged>>

\* An object that cannot be deleted is left to the next sweep.
SkipObject(v, r) ==
  /\ doomed[v] = NoRec /\ r \in listed[v]
  /\ listed' = [listed EXCEPT ![v] = @ \ {r}]
  /\ UNCHANGED <<disk, row, object, link, at, aged, doomed>>

\* Mutant: the link of the session is forgotten.
ExpireRowOnly(v) ==
  /\ doomed[v] # NoRec
  /\ row' = [row EXCEPT ![doomed[v]] = "expired"]
  /\ doomed' = [doomed EXCEPT ![v] = NoRec]
  /\ UNCHANGED <<disk, object, link, at, aged, listed>>

\* One transaction: the row expires and the session's link is cleared,
\* whichever recording it shows.
MarkRecordingExpired(v) ==
  /\ doomed[v] # NoRec
  /\ row' = [row EXCEPT ![doomed[v]] = "expired"]
  /\ link' = NoRec
  /\ doomed' = [doomed EXCEPT ![v] = NoRec]
  /\ UNCHANGED <<disk, object, at, aged, listed>>

ExpireFails(v) ==
  /\ doomed[v] # NoRec
  /\ doomed' = [doomed EXCEPT ![v] = NoRec]
  /\ UNCHANGED <<disk, row, object, link, at, aged, listed>>

DeleteSome(v) == \E r \in Recs : DeleteObject(v, r)

SweepR2(v) == ListExpired(v) \/ DeleteSome(v) \/ MarkRecordingExpired(v)

\* A worker stops: the event it had taken is not delivered again (EventBus).
Crash ==
  \/ \E r \in Recs :
       /\ at[r] \in Steps
       /\ at' = [at EXCEPT ![r] = "done"]
       /\ UNCHANGED sweeps
  \/ \E v \in Sweepers :
       /\ listed[v] # {} \/ doomed[v] # NoRec
       /\ listed' = [listed EXCEPT ![v] = {}]
       /\ doomed' = [doomed EXCEPT ![v] = NoRec]
       /\ UNCHANGED at

Next ==
  \/ \E r \in Recs : OnDvr(r) \/ HandleRecording(r) \/ GrowOld(r) \/ SweepDVR(r)
  \/ \E v \in Sweepers :
       SweepR2(v) \/ ExpireFails(v) \/ \E r \in Recs : SkipObject(v, r)
  \/ Crash /\ UNCHANGED <<disk, row, object, link, aged>>

Spec == Init /\ [][Next]_vars

\* Time passes and the tickers tick; a delete or an update that is tried again
\* and again succeeds sometime.
FairSpec ==
  /\ Spec
  /\ \A r \in Recs : WF_vars(GrowOld(r)) /\ WF_vars(SweepDVR(r))
  /\ \A v \in Sweepers :
       WF_vars(ListExpired(v)) /\ SF_vars(DeleteSome(v)) /\ SF_vars(MarkRecordingExpired(v))

------------------------------------------------------------------------------
\* An expired row has no object: the object goes first, so a sweep that stops
\* in between leaves work for the next one and never an orphan in the bucket.
ExpiredIsGone == \A r \in Recs : row[r] = "expired" => r \notin object

\* A link to an object that is gone is cleared again, whatever fails and
\* whenever a worker stops ("so the app stops surfacing a dead playback link").
DeadLinkIsCleared ==
  \A r \in Recs : link = r /\ r \notin object ~> link # r

\* No recording stays on the disk for ever, with or without an event.
FilesLeaveDisk == \A r \in Recs : file[r] = "disk" ~> file[r] = "gone"
==============================================================================
