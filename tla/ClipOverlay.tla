---------------------------- MODULE ClipOverlay ----------------------------
(***************************************************************************)
(* The copy of a clip with its overlay burnt in.  Posting a clip publishes *)
(* video.created, at best; the worker's only consumer of that topic takes  *)
(* one event at a time and walks through download, probe, render, FFmpeg   *)
(* and upload, recording each outcome in videos.overlay_status with an     *)
(* UPDATE whose error is discarded.  The job's deadline cancels the        *)
(* context, and with it every later statement.                             *)
(*                                                                         *)
(* lost is history: the clips whose last write of the status failed or     *)
(* never came, because the worker stopped.                                 *)
(***************************************************************************)
EXTENDS FiniteSets

CONSTANTS
  Clips,
  NoClip

VARIABLES
  clip,        \* each clip: not posted, active, or deleted
  raw,         \* the clips whose uploaded file is there
  event,       \* video.created: absent, queued, taken
  overlay,     \* videos.overlay_status
  url,         \* the clips with an overlay_url
  object,      \* the objects overlay.mp4 in R2
  job,         \* the clip the worker is at, or NoClip
  stage,       \* how far that job is
  expired,     \* the job's deadline has passed
  storage,     \* R2 is configured in the worker
  lost

clipVars == <<clip, raw, event>>
rowVars == <<overlay, url, object, lost>>
jobVars == <<job, stage, expired, storage>>
vars == <<clipVars, rowVars, jobVars>>

Stages == {"idle", "load", "start", "mkdir", "download", "render", "bake", "upload", "record"}

Settled == {"ready", "failed", "skipped"}

TypeOK ==
  /\ clip \in [Clips -> {"none", "active", "deleted"}] /\ raw \subseteq Clips
  /\ event \in [Clips -> {"absent", "queued", "taken"}]
  /\ overlay \in [Clips -> Settled \cup {"pending", "processing"}]
  /\ {url, object, lost} \subseteq SUBSET Clips
  /\ job \in Clips \cup {NoClip} /\ stage \in Stages /\ {expired, storage} \subseteq BOOLEAN

Init ==
  /\ clip = [c \in Clips |-> "none"] /\ raw = {}
  /\ event = [c \in Clips |-> "absent"]
  /\ overlay = [c \in Clips |-> "pending"]
  /\ url = {} /\ object = {} /\ lost = {}
  /\ job = NoClip /\ stage = "idle" /\ expired = FALSE
  /\ storage \in BOOLEAN

------------------------------------------------------------------------------
(* The API. *)

\* upload saves the file before the clip exists.
Upload(c) ==
  /\ clip[c] = "none" /\ raw' = raw \cup {c}
  /\ UNCHANGED <<clip, event, rowVars, jobVars>>

\* create inserts the row, whether or not its URL names a file that is there,
\* and publishes, or fails to.
Create(c) ==
  /\ clip[c] = "none"
  /\ clip' = [clip EXCEPT ![c] = "active"]
  /\ \E e \in {"queued", "absent"} : event' = [event EXCEPT ![c] = e]
  /\ UNCHANGED <<raw, rowVars, jobVars>>

SoftDelete(c) ==
  /\ clip[c] = "active"
  /\ clip' = [clip EXCEPT ![c] = "deleted"]
  /\ UNCHANGED <<raw, event, rowVars, jobVars>>

------------------------------------------------------------------------------
(* handleVideoOverlay. *)

GoTo(s) == stage' = s /\ UNCHANGED <<job, expired, storage>>

Stop == job' = NoClip /\ stage' = "idle" /\ expired' = FALSE /\ UNCHANGED storage

\* The consumer takes the next event; its job starts.
Take(c) ==
  /\ job = NoClip /\ event[c] = "queued"
  /\ event' = [event EXCEPT ![c] = "taken"]
  /\ job' = c /\ stage' = "load" /\ UNCHANGED <<expired, storage>>
  /\ UNCHANGED <<clip, raw, rowVars>>

\* SetOverlayStatus, its error discarded; with the context gone it does fail.
SetOverlayStatus(s) ==
  \/ /\ ~expired
     /\ overlay' = [overlay EXCEPT ![job] = s] /\ lost' = lost \ {job}
     /\ UNCHANGED <<url, object>>
  \/ lost' = lost \cup {job} /\ UNCHANGED <<overlay, url, object>>

\* GetByID finds active clips only, and a clip that is gone drops the job; an
\* error of the query ends the job as well, and so does a worker without R2.
Load ==
  /\ stage = "load"
  /\ \/ /\ clip[job] = "deleted" /\ ~expired
        /\ Stop /\ UNCHANGED rowVars
     \/ /\ lost' = lost \cup {job}
        /\ Stop /\ UNCHANGED <<overlay, url, object>>
     \/ /\ clip[job] = "active" /\ ~expired /\ ~storage
        /\ SetOverlayStatus("skipped") /\ Stop
     \/ /\ clip[job] = "active" /\ ~expired /\ storage
        /\ GoTo("start") /\ UNCHANGED rowVars
  /\ UNCHANGED clipVars

Start ==
  /\ stage = "start" /\ SetOverlayStatus("processing")
  /\ GoTo("mkdir") /\ UNCHANGED clipVars

\* The next stage after each of those that only work on local files; the probe
\* of the clip's size is part of the download, and its failure is ignored.
After(s) ==
  CASE s = "mkdir" -> "download" [] s = "download" -> "render"
    [] s = "render" -> "bake" [] s = "bake" -> "upload"

\* httpDownload needs the raw file; nothing outlives the deadline.
Work ==
  /\ stage \in {"mkdir", "download", "render", "bake"} /\ ~expired
  /\ stage = "download" => job \in raw
  /\ GoTo(After(stage)) /\ UNCHANGED <<clipVars, rowVars>>

\* Upload of the baked copy.
UploadCopy ==
  /\ stage = "upload" /\ ~expired
  /\ object' = object \cup {job}
  /\ GoTo("record") /\ UNCHANGED <<clipVars, overlay, url, lost>>

\* Mutant: a failed stage returns its error and leaves the status alone.
FailQuietly ==
  /\ stage \in {"mkdir", "download", "render", "bake", "upload"}
  /\ Stop /\ UNCHANGED <<clipVars, rowVars>>

\* Any stage fails: the status says so and the handler returns the error.
Fail ==
  /\ stage \in {"mkdir", "download", "render", "bake", "upload"}
  /\ SetOverlayStatus("failed")
  /\ Stop /\ UNCHANGED clipVars

\* SetOverlayURL writes the link and "ready" in one statement; its error is logged.
SetOverlayURL ==
  /\ stage = "record"
  /\ \/ /\ ~expired
        /\ url' = url \cup {job} /\ overlay' = [overlay EXCEPT ![job] = "ready"]
        /\ lost' = lost \ {job}
     \/ lost' = lost \cup {job} /\ UNCHANGED <<url, overlay>>
  /\ Stop /\ UNCHANGED <<clipVars, object>>

\* Ten minutes have passed.
Deadline ==
  /\ stage # "idle" /\ ~expired
  /\ expired' = TRUE /\ UNCHANGED <<clipVars, rowVars, job, stage, storage>>

\* The worker stops; the event it had taken is not handed out again.
Crash ==
  /\ job # NoClip
  /\ lost' = lost \cup {job}
  /\ Stop /\ UNCHANGED <<clipVars, overlay, url, object>>

------------------------------------------------------------------------------
Api == \E c \in Clips : Upload(c) \/ Create(c) \/ SoftDelete(c)

Job ==
  \/ \E c \in Clips : Take(c)
  \/ Load \/ Start \/ Work \/ UploadCopy \/ Fail \/ SetOverlayURL \/ Deadline \/ Crash

Next == Api \/ Job

Spec == Init /\ [][Next]_vars

------------------------------------------------------------------------------
\* A job that is over has settled its clip's status, unless its last write was
\* lost or the clip was gone before the job began; and "ready" is never said of a
\* copy that is not in R2.
OverlaysSettle ==
  \A c \in Clips :
    /\ event[c] = "taken" /\ job # c =>
         overlay[c] \in Settled \/ c \in lost \/ (clip[c] = "deleted" /\ overlay[c] = "pending")
    /\ (overlay[c] = "ready") = (c \in url)
    /\ c \in url => c \in object
==============================================================================
