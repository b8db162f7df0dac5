------------------------------- MODULE Render -------------------------------
(***************************************************************************)
(* RAW conversion on the camera (image render) and the recovery of a       *)
(* retained result (image recover), one PTP transaction at a time.         *)
(*                                                                         *)
(* The camera keeps objects under handles and one conversion profile.  The *)
(* host uploads a RAF, writes the profile, triggers the conversion, polls  *)
(* the handles until the new ones are stable, fetches the one JPEG, puts   *)
(* the profile back, saves the JPEG and only then deletes the object.      *)
(* Every transaction may be refused or lost, the camera may coerce a       *)
(* profile, and objects appear and go while the camera works.              *)
(***************************************************************************)
EXTENDS Integers, FiniteSets

CONSTANTS
    MaxObjects,   \* bound: handles the camera hands out
    Profiles,     \* conversion profiles
    MaxPolls,     \* bound: how many polls the render deadline allows
    NoProfile,    \* no snapshot was taken
    NoHandle      \* no rendered object

ASSUME BoundsAssumption == MaxObjects \in Nat /\ MaxPolls \in Nat
ASSUME NoValueAssumption ==
    /\ NoProfile \notin Profiles
    /\ NoHandle \notin 1..MaxObjects

Handles == 1..MaxObjects

Objects == {"raf", "jpeg", "other"}

VARIABLES
    store,        \* what the camera keeps under each handle
    live,         \* the camera's conversion profile
    job,          \* the conversion on the camera
    poisoned,     \* the PTP session is lost
    processing,   \* camera_processing_active
    command,      \* "render" or "recover"
    deleteAfter,  \* delete the camera object after the save
    phase,        \* where the command is
    original,     \* snapshot of the conversion profile
    candidate,    \* the profile the conversion needs
    baseline,     \* handles before the trigger
    previous,     \* the new handles of the last poll
    left,         \* polls left before the render deadline
    found,        \* the handles to inspect
    inspected,    \* those whose ObjectInfo was read
    jpegs,        \* those of them that turned out to be JPEGs
    rendered,     \* the fetched object
    failed,       \* the conversion, fetch or cleanup failed
    restoreError, \* putting the profile back failed
    pressed,      \* Ctrl-C was recorded in a critical region
    saved,        \* the handle whose bytes were committed to the output
    named,        \* handles the operator is told of
    told,         \* the operator is told of the failed profile restoration
    mute,         \* the note to stderr could not be written
    exit,         \* the exit status
    closed,       \* CloseSession was sent when the command ended
    observed,     \* history: every new handle a poll has shown
    deleted       \* history: handles DeleteObject was sent for

cameraVars == <<store, live, job>>
sessionVars == <<poisoned, processing>>
profileVars == <<original, candidate>>
pollVars == <<baseline, previous, left, observed>>
lookVars == <<found, inspected, jpegs>>
fetchVars == <<found, inspected, jpegs, rendered>>
outcomeVars == <<failed, restoreError, saved, named, told, mute, exit, closed>>
commandVars == <<command, deleteAfter>>
vars == <<cameraVars, sessionVars, commandVars, phase, profileVars, pollVars,
          fetchVars, outcomeVars, pressed, deleted>>

Phases == {"prepare", "snapshot", "info", "object", "write", "readback",
           "baseline", "trigger", "poll", "inspect", "fetch", "restore",
           "confirmRestore", "end", "save", "recheck", "delete",
           "confirmDelete", "finish", "done"}

TypeOK ==
    /\ store \in [Handles -> Objects \cup {"unused", "gone"}]
    /\ live \in Profiles
    /\ job \in {"idle", "running", "over"}
    /\ poisoned \in BOOLEAN /\ processing \in BOOLEAN
    /\ command \in {"render", "recover"} /\ deleteAfter \in BOOLEAN
    /\ phase \in Phases
    /\ original \in Profiles \cup {NoProfile}
    /\ candidate \in Profiles \cup {NoProfile}
    /\ baseline \subseteq Handles
    /\ previous \subseteq Handles
    /\ left \in 0..MaxPolls
    /\ found \subseteq Handles /\ inspected \subseteq found
    /\ jpegs \subseteq inspected
    /\ rendered \in Handles \cup {NoHandle}
    /\ failed \in BOOLEAN /\ restoreError \in BOOLEAN
    /\ pressed \in BOOLEAN
    /\ saved \in Handles \cup {NoHandle}
    /\ named \subseteq Handles
    /\ told \in BOOLEAN /\ mute \in BOOLEAN
    /\ exit \in {0, 1, 3}
    /\ closed \in BOOLEAN
    /\ observed \subseteq Handles /\ deleted \subseteq Handles

\* The camera may still keep one object of an earlier command.
Init ==
    /\ store \in [Handles -> {"unused", "jpeg", "other"}]
    /\ \A h \in Handles : store[h] # "unused" => h = 1
    /\ live \in Profiles
    /\ job = "idle"
    /\ poisoned = FALSE /\ processing = FALSE
    /\ command \in {"render", "recover"}
    /\ deleteAfter \in BOOLEAN
    /\ phase = "prepare"
    /\ original = NoProfile /\ candidate = NoProfile
    /\ baseline = {} /\ previous = {} /\ left = MaxPolls
    /\ found = {} /\ inspected = {} /\ jpegs = {} /\ rendered = NoHandle
    /\ failed = FALSE /\ restoreError = FALSE
    /\ pressed = FALSE
    /\ saved = NoHandle /\ named = {} /\ told = FALSE /\ mute = FALSE
    /\ exit = 0 /\ closed = FALSE
    /\ observed = {} /\ deleted = {}

-----------------------------------------------------------------------------
(* The camera.                                                             *)

Kept == {h \in Handles : store[h] \in Objects}

\* A new object takes the next handle; handles are not used again.
Add(kind) ==
    \E h \in Handles :
        /\ store[h] = "unused" /\ \A g \in 1..(h - 1) : store[g] # "unused"
        /\ store' = [store EXCEPT ![h] = kind]

\* While it converts, the camera adds objects, may replace what it added,
\* and at some point is done.
CameraWorks ==
    /\ job = "running"
    /\ \/ Add("jpeg") /\ UNCHANGED job
       \/ Add("other") /\ UNCHANGED job
       \/ /\ \E h \in Kept \ baseline : store' = [store EXCEPT ![h] = "gone"]
          /\ UNCHANGED job
       \/ job' = "over" /\ UNCHANGED store
    /\ UNCHANGED <<live, sessionVars, commandVars, phase, profileVars,
                   pollVars, fetchVars, outcomeVars, pressed, deleted>>

\* The effects of the mutating commands, once the camera executes them.  The
\* camera may keep the RAF under a handle or not, and may store another
\* profile than it was sent.
NoEffect == UNCHANGED cameraVars
Upload == (Add("raf") \/ UNCHANGED store) /\ UNCHANGED <<live, job>>
Store == live' \in Profiles /\ UNCHANGED <<store, job>>
Start == job' = "running" /\ UNCHANGED <<store, live>>
Remove(h) ==
    /\ store[h] \in Objects
    /\ store' = [store EXCEPT ![h] = "gone"]
    /\ UNCHANGED <<live, job>>

\* A transaction ends with a framed OK, or with an error: a framed one or a
\* refusal of the poisoned session (nothing happened), or a loss (anything
\* may have happened, and the session is poisoned).
Accepted(effect) == ~poisoned /\ effect /\ UNCHANGED poisoned
Fails(effect) ==
    \/ NoEffect /\ UNCHANGED poisoned
    \/ ~poisoned /\ (NoEffect \/ effect) /\ poisoned' = TRUE

\* A bug: A running conversion does not stop the session from being closed.
HealthyStream == ~poisoned

\* Ptp::is_healthy
Healthy == ~poisoned /\ ~processing

-----------------------------------------------------------------------------
(* The conversion.                                                         *)

Goto(p) == phase' = p

\* A bug: An error of the conversion returns before the profile is put back.
MustRestoreAfterSuccess ==
    command = "render" /\ phase = "fetch" /\ candidate # original

\* The profile is put back only once a write of another profile was tried.
MustRestore ==
    /\ command = "render"
    /\ phase \notin {"snapshot", "info", "object"}
    /\ candidate # original

\* The conversion fails; its error names handles.
Fail(handles) ==
    /\ failed' = TRUE
    /\ named' = handles
    /\ rendered' = NoHandle
    /\ Goto(IF MustRestore THEN "restore" ELSE "end")
    /\ UNCHANGED <<restoreError, saved, told, mute, exit, closed>>

Go(p) == Goto(p) /\ UNCHANGED outcomeVars

\* Output opened, input read, session opened, preflight passed; or refused.
\* A recovery starts at the handle it was given.
Prepare ==
    /\ phase = "prepare"
    /\ \/ command = "render" /\ Go("snapshot") /\ UNCHANGED fetchVars
       \/ /\ command = "recover"
          /\ \E h \in Handles : found' = {h}
          /\ Go("inspect") /\ UNCHANGED <<inspected, jpegs, rendered>>
       \/ Fail({}) /\ UNCHANGED lookVars
    /\ UNCHANGED <<cameraVars, sessionVars, commandVars, profileVars,
                   pollVars, pressed, deleted>>

\* The snapshot is decoded, merged, encoded and validated before anything is
\* sent; each of these can refuse.
Snapshot ==
    /\ phase = "snapshot"
    /\ \/ /\ Accepted(NoEffect)
          /\ original' = live
          /\ \/ candidate' \in Profiles /\ Go("info") /\ UNCHANGED rendered
             \/ UNCHANGED candidate /\ Fail({})
       \/ Fails(NoEffect) /\ Fail({}) /\ UNCHANGED profileVars
    /\ UNCHANGED <<processing, commandVars, pollVars, lookVars, pressed,
                   deleted>>

SendImage ==
    /\ \/ /\ phase = "info"
          /\ \/ Accepted(NoEffect) /\ Go("object") /\ UNCHANGED rendered
             \/ Fails(NoEffect) /\ Fail({})
       \/ /\ phase = "object"
          /\ \/ /\ Accepted(Upload)
                /\ Go(IF candidate = original THEN "baseline" ELSE "write")
                /\ UNCHANGED rendered
             \/ Fails(Upload) /\ Fail({})
    /\ UNCHANGED <<processing, commandVars, profileVars, pollVars, lookVars,
                   pressed, deleted>>

\* write_raw_conversion_profile_verified
WriteProfile ==
    /\ \/ /\ phase = "write"
          /\ \/ Accepted(Store) /\ Go("readback") /\ UNCHANGED rendered
             \/ Fails(Store) /\ Fail({})
       \/ /\ phase = "readback"
          /\ \/ /\ Accepted(NoEffect) /\ live = candidate
                /\ Go("baseline") /\ UNCHANGED rendered
             \/ Accepted(NoEffect) /\ live # candidate /\ Fail({})
             \/ Fails(NoEffect) /\ Fail({})
    /\ UNCHANGED <<processing, commandVars, profileVars, pollVars, lookVars,
                   pressed, deleted>>

TakeBaseline ==
    /\ phase = "baseline"
    /\ \/ /\ Accepted(NoEffect)
          /\ baseline' = Kept
          /\ Go("trigger") /\ UNCHANGED rendered
       \/ Fails(NoEffect) /\ Fail({}) /\ UNCHANGED baseline
    /\ UNCHANGED <<processing, commandVars, profileVars, previous, left,
                   observed, lookVars, pressed, deleted>>

Trigger ==
    /\ phase = "trigger"
    /\ \/ Accepted(Start) /\ processing' = TRUE /\ Go("poll")
          /\ UNCHANGED rendered
       \/ Fails(Start) /\ Fail({}) /\ UNCHANGED processing
    /\ UNCHANGED <<commandVars, profileVars, pollVars, lookVars, pressed,
                   deleted>>

-----------------------------------------------------------------------------
(* start_and_wait_for_stable_new_handles: the polling loop.                *)

\* A bug: The error of the polling loop names no handle.
LastSeenDropped == {}

\* The error of the loop names what the last poll showed.
LastSeen == previous

DeadlinePasses ==
    /\ left = 0
    /\ Fail(LastSeen)
    /\ UNCHANGED <<cameraVars, sessionVars, pollVars, lookVars>>

\* A bug: A busy poll starts the deadline afresh.
PolledAfresh == left > 0 /\ left' \in {left - 1, MaxPolls}

\* Time passes with every poll, and with the pause after it.
Polled == left > 0 /\ left' = left - 1

PollAnswered ==
    LET delta == Kept \ baseline IN
    /\ Polled /\ Accepted(NoEffect)
    /\ observed' = observed \cup delta
    /\ IF delta # {} /\ previous = delta
       THEN /\ processing' = FALSE
            /\ found' = delta
            /\ Go("inspect")
            /\ UNCHANGED <<previous, inspected, jpegs, rendered>>
       ELSE /\ previous' = delta
            /\ Go("poll")
            /\ UNCHANGED <<processing, fetchVars>>
    /\ UNCHANGED baseline

\* DeviceBusy is a framed error that is tried again.
PollBusy ==
    /\ Polled /\ Accepted(NoEffect)
    /\ Go("poll")
    /\ UNCHANGED <<processing, baseline, previous, observed, fetchVars>>

PollFails ==
    /\ Polled /\ Fails(NoEffect)
    /\ Fail(LastSeen)
    /\ UNCHANGED <<processing, baseline, previous, observed, lookVars>>

Poll ==
    /\ phase = "poll"
    /\ DeadlinePasses \/ PollAnswered \/ PollBusy \/ PollFails
    /\ UNCHANGED <<commandVars, profileVars, pressed, deleted>>

-----------------------------------------------------------------------------
(* fetch_unique_rendered_object: GetObjectInfo for each handle, then the   *)
(* one JPEG itself.                                                        *)

InspectOne ==
    \/ \E h \in found \ inspected :
          /\ Accepted(NoEffect)
          /\ store[h] \in Objects
          /\ inspected' = inspected \cup {h}
          /\ jpegs' = IF store[h] = "jpeg" THEN jpegs \cup {h} ELSE jpegs
          /\ Go("inspect") /\ UNCHANGED <<found, rendered>>
    \/ /\ found # inspected
       /\ Fails(NoEffect) /\ Fail(found) /\ UNCHANGED lookVars

\* Exactly one JPEG, of a size that can be fetched.
Choose ==
    /\ found = inspected
    /\ \/ Cardinality(jpegs) = 1 /\ Go("fetch") /\ UNCHANGED rendered
       \/ Fail(found)
    /\ UNCHANGED <<cameraVars, poisoned, lookVars>>

Inspect ==
    /\ phase = "inspect"
    /\ InspectOne \/ Choose
    /\ UNCHANGED <<processing, commandVars, profileVars, pollVars, pressed,
                   deleted>>

\* The bytes are checked against their announced length and must be a JPEG.
Fetch ==
    /\ phase = "fetch"
    /\ \/ /\ Accepted(NoEffect)
          /\ \E h \in jpegs : store[h] = "jpeg" /\ rendered' = h
          /\ Go(IF MustRestore THEN "restore" ELSE "end")
       \/ Accepted(NoEffect) /\ Fail(found)
       \/ Fails(NoEffect) /\ Fail(found)
    /\ UNCHANGED <<processing, commandVars, profileVars, pollVars, lookVars,
                   pressed, deleted>>

-----------------------------------------------------------------------------
(* The profile is put back after every outcome of the conversion, and the  *)
(* region of the conversion ends.                                          *)

RestoreFails ==
    /\ restoreError' = TRUE
    /\ Goto("end")

Restore ==
    /\ \/ /\ phase = "restore"
          /\ \/ Healthy /\ Accepted(Store) /\ Goto("confirmRestore")
                /\ UNCHANGED restoreError
             \/ Healthy /\ Fails(Store) /\ RestoreFails
             \/ ~Healthy /\ RestoreFails /\ UNCHANGED <<cameraVars, poisoned>>
       \/ /\ phase = "confirmRestore"
          /\ \/ Accepted(NoEffect) /\ live = original /\ Goto("end")
                /\ UNCHANGED restoreError
             \/ Accepted(NoEffect) /\ live # original /\ RestoreFails
             \/ Fails(NoEffect) /\ RestoreFails
    /\ UNCHANGED <<processing, commandVars, profileVars, pollVars, fetchVars,
                   failed, saved, named, told, mute, exit, closed, pressed,
                   deleted>>

\* The command ends: Camera::drop closes the session if it is safe to.
Exit(status, handles, tell) ==
    /\ exit' = status
    /\ named' = handles
    /\ told' = tell
    /\ closed' = Healthy
    /\ Goto("done")
    /\ UNCHANGED <<restoreError>>

\* critical_camera_write around the conversion, combine_render_and_restore:
\* an error is returned as it is, a success that was interrupted is dropped.
EndConversion ==
    /\ phase = "end"
    /\ pressed' = FALSE
    /\ \/ /\ failed
          /\ Exit(1, named, restoreError)
       \/ /\ ~failed /\ pressed
          /\ Exit(3, {}, FALSE)
       \/ /\ ~failed /\ ~pressed
          /\ Goto("save") /\ UNCHANGED <<exit, named, told, closed, restoreError>>
    /\ UNCHANGED <<cameraVars, sessionVars, commandVars, profileVars,
                   pollVars, fetchVars, failed, saved, mute, deleted>>

-----------------------------------------------------------------------------
(* save_rendered_object, finish_render_cleanup.                            *)

\* A bug: A failed save goes on to the cleanup.
SaveFailsAndCleansUp ==
    /\ Goto("recheck")
    /\ UNCHANGED <<exit, named, told, closed, restoreError, saved, mute>>

SaveFails ==
    /\ Exit(1, {rendered}, restoreError)
    /\ UNCHANGED <<saved, mute>>

Finish(cleanupFailed) ==
    IF restoreError \/ cleanupFailed
    THEN Exit(1, {rendered}, restoreError)
    ELSE Exit(0, {}, FALSE)

\* A retained object is named in a note to stderr.  If that cannot be
\* written, its own error is returned: a closed pipe is taken for success.
Retain ==
    \/ /\ UNCHANGED mute
       /\ IF restoreError THEN Exit(1, {rendered}, TRUE)
                          ELSE Exit(0, {rendered}, FALSE)
    \/ /\ mute' = TRUE
       /\ \E status \in {0, 1} : Exit(status, {}, FALSE)

Save ==
    /\ phase = "save"
    /\ \/ SaveFails
       \/ /\ saved' = rendered
          /\ IF deleteAfter
             THEN /\ Goto("recheck")
                  /\ UNCHANGED <<exit, named, told, mute, closed, restoreError>>
             ELSE Retain
    /\ UNCHANGED <<cameraVars, sessionVars, commandVars, profileVars,
                   pollVars, fetchVars, failed, pressed, deleted>>

CleanupStep(p) == Goto(p) /\ UNCHANGED failed
CleanupFails == Goto("finish") /\ failed' = TRUE

\* delete_object_verified; a recovery first needs a preflight of its own,
\* which can refuse.
Cleanup ==
    /\ \/ /\ phase = "recheck"
          /\ \/ Accepted(NoEffect) /\ store[rendered] = "jpeg"
                /\ CleanupStep("delete")
             \/ Accepted(NoEffect) /\ store[rendered] # "jpeg" /\ CleanupFails
             \/ Fails(NoEffect) /\ CleanupFails
          /\ UNCHANGED deleted
       \/ /\ phase = "delete"
          /\ deleted' = IF poisoned THEN deleted ELSE deleted \cup {rendered}
          /\ \/ Accepted(Remove(rendered)) /\ CleanupStep("confirmDelete")
             \/ Accepted(NoEffect) /\ CleanupStep("confirmDelete")
             \/ Fails(Remove(rendered)) /\ CleanupFails
       \/ /\ phase = "confirmDelete"
          /\ \/ Accepted(NoEffect) /\ rendered \notin Kept
                /\ CleanupStep("finish")
             \/ Accepted(NoEffect) /\ rendered \in Kept /\ CleanupFails
             \/ Fails(NoEffect) /\ CleanupFails
          /\ UNCHANGED deleted
    /\ UNCHANGED <<processing, commandVars, profileVars, pollVars, fetchVars,
                   restoreError, saved, named, told, mute, exit, closed,
                   pressed>>

\* critical_camera_write around the cleanup: its marker for an interrupt
\* becomes one of the two causes of a RenderCleanupError.
FinishCommand ==
    /\ phase = "finish"
    /\ pressed' = FALSE
    /\ Finish(failed \/ pressed)
    /\ UNCHANGED <<cameraVars, sessionVars, commandVars, profileVars,
                   pollVars, fetchVars, failed, saved, mute, deleted>>

\* A Ctrl-C inside one of the two critical regions is recorded.
InRegion ==
    \/ command = "render" /\ phase \notin {"prepare", "save", "done"}
    \/ phase \in {"recheck", "delete", "confirmDelete", "finish"}

Press ==
    /\ InRegion /\ ~pressed
    /\ pressed' = TRUE
    /\ UNCHANGED <<cameraVars, sessionVars, commandVars, phase, profileVars,
                   pollVars, fetchVars, outcomeVars, deleted>>

HostStep ==
    \/ Prepare \/ Snapshot \/ SendImage \/ WriteProfile \/ TakeBaseline
    \/ Trigger \/ Poll \/ Inspect \/ Fetch \/ Restore \/ EndConversion
    \/ Save \/ Cleanup \/ FinishCommand

Next == HostStep \/ CameraWorks \/ Press

Spec == Init /\ [][Next]_vars /\ WF_vars(HostStep)

-----------------------------------------------------------------------------
(* Properties.                                                             *)

\* The only object a command ever asks the camera to delete is the JPEG
\* whose bytes were committed to the output before (save_rendered_object,
\* delete_object_verified).
DeletedOnlyWhenSaved ==
    \A h \in deleted : saved = h /\ store[h] \in {"jpeg", "gone"}

\* A JPEG that the command saw and that is still on the camera is named when
\* the command ends, so that it can be recovered.  Excepted are a conversion
\* whose result an interrupt discards (exit status 3) and an error output
\* that takes no note (render manager's errors, RenderSaveError).
Seen == observed \cup ({rendered} \ {NoHandle})
RetainedObjectsNamed ==
    phase = "done" /\ exit # 3 /\ ~mute =>
        \A h \in Seen : store[h] = "jpeg" => h \in named

\* A command that leaves the camera with another conversion profile than it
\* found says so, or says that the camera's state is unknown (the restore in
\* the generated render, RenderCleanupError, RenderSaveError).
ProfileAccounted ==
    phase = "done" /\ original # NoProfile /\ live # original =>
        told \/ exit = 3 \/ mute

\* The session is not closed under a conversion that is still running,
\* unless two polls agreed on its objects (camera_processing_active).
NeverClosedWhileConverting ==
    closed /\ job = "running" => found # {}

\* However busy the camera stays, the command ends: every poll uses up the
\* one render deadline.
CommandEnds == <>(phase = "done")
=============================================================================
