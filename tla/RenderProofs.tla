----------------------------- MODULE RenderProofs -----------------------------
(***************************************************************************)
(* The safety of a RAW conversion and of a recovery, for every number of   *)
(* objects, profiles and polls: nothing is deleted that was not saved, what *)
(* stays on the camera is named, a profile that was not put back is        *)
(* reported, and no session is closed under a running conversion.          *)
(***************************************************************************)
EXTENDS Render, FiniteSetTheorems, TLAPS

Uploading == {"info", "object"}
Writing == {"write", "readback", "baseline", "trigger"}
Working == Writing \cup {"poll", "inspect", "fetch"}
Converting == {"prepare", "snapshot"} \cup Uploading \cup Working
Restoring == {"restore", "confirmRestore", "end"}
Cleaning == {"recheck", "delete", "confirmDelete", "finish"}

StoreType == store \in [Handles -> Objects \cup {"unused", "gone"}]

\* The types that the rest relies on.
Types ==
    /\ StoreType /\ live \in Profiles /\ job \in {"idle", "running", "over"}
    /\ poisoned \in BOOLEAN /\ command \in {"render", "recover"}
    /\ rendered \in Handles \cup {NoHandle}
    /\ found \subseteq Handles /\ inspected \subseteq found /\ jpegs \subseteq inspected
    /\ observed \subseteq Handles /\ deleted \subseteq Handles

\* A handle that is gone stays so, and a JPEG becomes nothing else.
Fetched(h) == store[h] \in {"jpeg", "gone"}

\* Once there is an image it has been fetched, and it alone is deleted, after
\* it was saved.
DeletionKept ==
    /\ rendered # NoHandle => Fetched(rendered)
    /\ phase \in Restoring /\ ~failed => rendered # NoHandle
    /\ phase \in {"save"} \cup Cleaning => rendered # NoHandle
    /\ phase \in Cleaning => saved = rendered
    /\ phase \notin Cleaning \cup {"done"} => deleted = {}
    /\ DeletedOnlyWhenSaved

\* The camera converts only while the host knows that it does, or has lost
\* it, or has seen a result.
SessionKept ==
    /\ closed => phase = "done" /\ ~poisoned /\ ~processing
    /\ job = "running" => processing \/ poisoned \/ found # {}

\* Which of the images that were seen are left is always known: those of the
\* last poll, those to be inspected, those named by the error, or the one
\* that was fetched.
Left(handles) == \A h \in observed : store[h] = "jpeg" => h \in handles

NamesKept ==
    /\ \A h \in observed : store[h] # "unused"
    /\ phase \in {"prepare", "snapshot"} \cup Uploading \cup Writing => observed = {}
    /\ phase \in {"prepare", "snapshot", "poll"} \cup Uploading \cup Writing => inspected = {}
    /\ phase \in Converting => ~failed /\ rendered = NoHandle
    /\ phase = "poll" => observed \cap baseline = {} /\ Left(previous)
    /\ phase \in {"inspect", "fetch"} =>
          /\ Left(found)
          /\ \A h \in inspected \ jpegs : store[h] \notin {"unused", "jpeg"}
    /\ phase = "fetch" => found = inspected /\ Cardinality(jpegs) = 1
    /\ phase \in Restoring /\ failed => rendered = NoHandle /\ Left(named)
    /\ phase \in Restoring /\ ~failed => Left({rendered})
    /\ phase \in {"save"} \cup Cleaning => Left({rendered})
    /\ phase = "finish" /\ ~failed => store[rendered] = "gone"
    /\ RetainedObjectsNamed

\* The camera's profile is the original one, or will be put back, or the
\* failure to do so is on record.
ProfileKept ==
    /\ phase \in {"prepare", "snapshot"} \/ command = "recover" =>
          original = NoProfile /\ candidate = NoProfile
    /\ phase \in {"snapshot"} \cup Uploading => command = "render"
    /\ original # NoProfile =>
          /\ phase \in Uploading => live = original
          /\ phase \in Working /\ candidate = original => live = original
          /\ phase \in {"end", "save"} \cup Cleaning => live = original \/ restoreError
    /\ phase = "write" => candidate # original
    /\ ProfileAccounted

Inv == Types /\ DeletionKept /\ SessionKept /\ NamesKept /\ ProfileKept

-----------------------------------------------------------------------------
(* What a transaction leaves behind: the session as it was or lost, and on  *)
(* the camera nothing or its effect.                                       *)

\* How the store may change in a step: an unused handle gets an object, or an
\* object goes.
StoreStep ==
    \A h \in Handles :
        \/ store'[h] = store[h]
        \/ store[h] = "unused" /\ store'[h] \in Objects
        \/ store[h] \in Objects /\ store'[h] = "gone"

PoisonStep == poisoned' \in BOOLEAN /\ (poisoned => poisoned')

LEMMA StoreSame ==
  ASSUME StoreType, UNCHANGED store
  PROVE  StoreStep /\ StoreType'
  BY DEF StoreStep, StoreType

LEMMA StoreChanged ==
  ASSUME StoreType, NEW h \in Handles, NEW kind,
         \/ store[h] = "unused" /\ kind \in Objects
         \/ store[h] \in Objects /\ kind = "gone",
         store' = [store EXCEPT ![h] = kind]
  PROVE  StoreStep /\ StoreType'
  BY DEF StoreStep, StoreType

\* An object that the camera adds.
LEMMA AddEffect ==
  ASSUME StoreType, NEW kind \in Objects, Add(kind)
  PROVE  StoreStep /\ StoreType'
<1>1. PICK h \in Handles : store[h] = "unused" /\ store' = [store EXCEPT ![h] = kind]
  BY DEF Add
<1> QED
  BY <1>1, StoreChanged

\* A read.
LEMMA ReadEffect ==
  ASSUME poisoned \in BOOLEAN, Accepted(NoEffect) \/ Fails(NoEffect)
  PROVE  PoisonStep /\ UNCHANGED <<store, live, job>>
<1>1. UNCHANGED <<store, live, job>>
  BY DEF Accepted, Fails, NoEffect, cameraVars
<1>2. UNCHANGED poisoned \/ poisoned' = TRUE
  BY DEF Accepted, Fails
<1> QED
  BY <1>1, <1>2, Zenon DEF PoisonStep

\* The image.
LEMMA UploadEffect ==
  ASSUME StoreType, poisoned \in BOOLEAN, Accepted(Upload) \/ Fails(Upload)
  PROVE  PoisonStep /\ StoreStep /\ StoreType' /\ UNCHANGED <<live, job>>
<1>1. UNCHANGED <<live, job>> /\ (UNCHANGED store \/ Add("raf"))
  BY DEF Accepted, Fails, NoEffect, Upload, cameraVars
<1>2. UNCHANGED poisoned \/ poisoned' = TRUE
  BY DEF Accepted, Fails
<1>3. StoreStep /\ StoreType'
  BY <1>1, StoreSame, AddEffect DEF Objects
<1> QED
  BY <1>1, <1>2, <1>3, Zenon DEF PoisonStep

\* The profile.
LEMMA StoreEffect ==
  ASSUME live \in Profiles, poisoned \in BOOLEAN, Accepted(Store) \/ Fails(Store)
  PROVE  PoisonStep /\ live' \in Profiles /\ UNCHANGED <<store, job>>
<1>1. live' \in Profiles /\ UNCHANGED <<store, job>>
  BY DEF Accepted, Fails, NoEffect, Store, cameraVars
<1>2. UNCHANGED poisoned \/ poisoned' = TRUE
  BY DEF Accepted, Fails
<1> QED
  BY <1>1, <1>2, Zenon DEF PoisonStep

\* The start of the conversion.
LEMMA StartEffect ==
  ASSUME poisoned \in BOOLEAN, Accepted(Start) \/ Fails(Start)
  PROVE  PoisonStep /\ job' \in {job, "running"} /\ UNCHANGED <<store, live>>
<1>1. job' \in {job, "running"} /\ UNCHANGED <<store, live>>
  BY DEF Accepted, Fails, NoEffect, Start, cameraVars
<1>2. UNCHANGED poisoned \/ poisoned' = TRUE
  BY DEF Accepted, Fails
<1> QED
  BY <1>1, <1>2, Zenon DEF PoisonStep

\* The deletion.
LEMMA RemoveEffect ==
  ASSUME StoreType, poisoned \in BOOLEAN, NEW h \in Handles, h = rendered,
         Accepted(Remove(rendered)) \/ Fails(Remove(rendered)) \/ Accepted(NoEffect)
  PROVE  PoisonStep /\ StoreStep /\ StoreType' /\ UNCHANGED <<live, job>>
<1>1. /\ UNCHANGED <<live, job>>
      /\ \/ UNCHANGED store
         \/ store[h] \in Objects /\ store' = [store EXCEPT ![h] = "gone"]
  BY DEF Accepted, Fails, NoEffect, Remove, cameraVars
<1>2. UNCHANGED poisoned \/ poisoned' = TRUE
  BY DEF Accepted, Fails
<1>3. StoreStep /\ StoreType'
  BY <1>1, StoreSame, StoreChanged
<1> QED
  BY <1>1, <1>2, <1>3, Zenon DEF PoisonStep

-----------------------------------------------------------------------------
(* The types.                                                              *)

CameraStep ==
    /\ PoisonStep /\ StoreStep /\ StoreType'
    /\ live' \in Profiles
    /\ job' \in {"idle", "running", "over"}

\* Every step does to the camera what CameraStep says.
LEMMA CameraNext == Inv /\ Next => CameraStep
<1> SUFFICES ASSUME Inv, Next PROVE CameraStep
  OBVIOUS
<1>1. /\ StoreType /\ live \in Profiles /\ job \in {"idle", "running", "over"}
      /\ poisoned \in BOOLEAN
  BY DEF Inv, Types
<1>2. ASSUME PoisonStep, UNCHANGED <<store, live, job>> PROVE CameraStep
  BY <1>1, <1>2, StoreSame DEF CameraStep
<1>3. ASSUME UNCHANGED <<cameraVars, poisoned>> PROVE CameraStep
  BY <1>1, <1>2, <1>3 DEF PoisonStep, cameraVars
<1>4. ASSUME Accepted(NoEffect) \/ Fails(NoEffect) PROVE CameraStep
  BY <1>1, <1>2, <1>4, ReadEffect
<1>5. CASE Prepare \/ EndConversion \/ Save \/ FinishCommand \/ Press
  BY <1>3, <1>5 DEF Prepare, EndConversion, Save, FinishCommand, Press, sessionVars
<1>6. CASE Snapshot \/ TakeBaseline \/ Fetch
  BY <1>4, <1>6 DEF Snapshot, TakeBaseline, Fetch
<1>7. CASE SendImage
  <2>1. \/ Accepted(NoEffect) \/ Fails(NoEffect)
        \/ Accepted(Upload) \/ Fails(Upload)
    BY <1>7 DEF SendImage
  <2> QED
    BY <1>1, <1>4, <2>1, UploadEffect DEF CameraStep
<1>8. CASE WriteProfile
  <2>1. \/ Accepted(NoEffect) \/ Fails(NoEffect)
        \/ Accepted(Store) \/ Fails(Store)
    BY <1>8 DEF WriteProfile
  <2> QED
    BY <1>1, <1>4, <2>1, StoreEffect, StoreSame DEF CameraStep
<1>9. CASE Trigger
  <2>1. Accepted(Start) \/ Fails(Start)
    BY <1>9 DEF Trigger
  <2> QED
    BY <1>1, <2>1, StartEffect, StoreSame DEF CameraStep
<1>10. CASE Poll
  <2>1. \/ UNCHANGED <<cameraVars, poisoned>>
        \/ Accepted(NoEffect) \/ Fails(NoEffect)
    BY <1>10 DEF Poll, DeadlinePasses, PollAnswered, PollBusy, PollFails, sessionVars
  <2> QED
    BY <1>3, <1>4, <2>1
<1>11. CASE Inspect
  <2>1. \/ UNCHANGED <<cameraVars, poisoned>>
        \/ Accepted(NoEffect) \/ Fails(NoEffect)
    BY <1>11 DEF Inspect, InspectOne, Choose
  <2> QED
    BY <1>3, <1>4, <2>1
<1>12. CASE Restore
  <2>1. \/ UNCHANGED <<cameraVars, poisoned>>
        \/ Accepted(NoEffect) \/ Fails(NoEffect)
        \/ Accepted(Store) \/ Fails(Store)
    BY <1>12 DEF Restore
  <2> QED
    BY <1>1, <1>3, <1>4, <2>1, StoreEffect, StoreSame DEF CameraStep
<1>13. CASE Cleanup
  <2>1. \/ Accepted(NoEffect) \/ Fails(NoEffect)
        \/ phase = "delete" /\ (Accepted(Remove(rendered)) \/ Fails(Remove(rendered)))
    BY <1>13 DEF Cleanup
  <2>2. CASE phase = "delete" /\ (Accepted(Remove(rendered)) \/ Fails(Remove(rendered)))
    <3>1. rendered \in Handles
      BY <2>2 DEF Inv, Types, DeletionKept, Cleaning
    <3> QED
      BY <1>1, <2>2, <3>1, RemoveEffect DEF CameraStep
  <2> QED
    BY <1>4, <2>1, <2>2
<1>14. CASE CameraWorks
  <2>1. /\ UNCHANGED <<live, poisoned>> /\ job' \in {job, "over"}
        /\ \/ UNCHANGED store \/ Add("jpeg") \/ Add("other")
           \/ \E h \in Kept : store' = [store EXCEPT ![h] = "gone"]
    BY <1>14 DEF CameraWorks, sessionVars
  <2>2. StoreStep /\ StoreType'
    <3>1. CASE \E h \in Kept : store' = [store EXCEPT ![h] = "gone"]
      BY <1>1, <3>1, StoreChanged DEF Kept
    <3> QED
      BY <1>1, <2>1, <3>1, StoreSame, AddEffect DEF Objects
  <2>3. PoisonStep
    BY <1>1, <2>1 DEF PoisonStep
  <2> QED
    BY <1>1, <2>1, <2>2, <2>3 DEF CameraStep
<1> QED
  BY <1>5, <1>6, <1>7, <1>8, <1>9, <1>10, <1>11, <1>12, <1>13, <1>14
     DEF Next, HostStep

\* A conversion fails without an image.
LEMMA FailGives ==
  ASSUME NEW handles, Fail(handles)
  PROVE  failed' = TRUE /\ named' = handles /\ rendered' = NoHandle
         /\ phase' = (IF MustRestore THEN "restore" ELSE "end")
         /\ UNCHANGED <<restoreError, saved, told, mute, exit, closed>>
  BY DEF Fail, Goto

\* Every step keeps the types.
LEMMA TypesNext == Inv /\ Next => Types'
<1> SUFFICES ASSUME Inv, Next PROVE Types'
  OBVIOUS
<1> USE DEF pollVars, lookVars, fetchVars, outcomeVars, Go
<1>1. StoreType' /\ live' \in Profiles /\ job' \in {"idle", "running", "over"}
      /\ poisoned' \in BOOLEAN
  BY CameraNext DEF CameraStep, PoisonStep
<1>2. Types
  BY DEF Inv
<1>3. observed' \subseteq Handles
  <2>1. UNCHANGED observed \/ observed' = observed \cup (Kept \ baseline)
    BY DEF Next, HostStep, Prepare, Snapshot, SendImage, WriteProfile, TakeBaseline, Trigger,
           Poll, DeadlinePasses, PollAnswered, PollBusy, PollFails, Inspect, Fetch, Restore,
           EndConversion, Save, Cleanup, FinishCommand, CameraWorks, Press
  <2> QED
    BY <1>2, <2>1 DEF Types, Kept
<1>4. rendered' \in Handles \cup {NoHandle}
  <2>1. rendered' \in {rendered, NoHandle} \cup jpegs
    BY DEF Next, HostStep, Prepare, Snapshot, SendImage, WriteProfile, TakeBaseline, Trigger,
           Poll, DeadlinePasses, PollAnswered, PollBusy, PollFails, Inspect, InspectOne,
           Choose, Fetch, Restore, EndConversion, Save, Cleanup, FinishCommand, CameraWorks,
           Press, Fail
  <2> QED
    BY <1>2, <2>1 DEF Types
<1>5. found' \subseteq Handles /\ inspected' \subseteq found' /\ jpegs' \subseteq inspected'
  <2>1. CASE UNCHANGED lookVars
    BY <1>2, <2>1 DEF Types
  <2>2. CASE UNCHANGED <<inspected, jpegs>> /\ inspected = {} /\ found' \subseteq Handles
    BY <1>2, <2>2 DEF Types
  <2>3. CASE \E h \in found : /\ UNCHANGED found /\ inspected' = inspected \cup {h}
                              /\ jpegs' \in {jpegs, jpegs \cup {h}}
    BY <1>2, <2>3 DEF Types
  <2>4. CASE Prepare
    BY <2>1, <2>2, <2>4 DEF Prepare, Inv, NamesKept
  <2>5. CASE Poll
    <3>1. phase = "poll" /\ UNCHANGED <<inspected, jpegs>>
          /\ found' \in {found, Kept \ baseline}
      BY <2>5 DEF Poll, DeadlinePasses, PollAnswered, PollBusy, PollFails
    <3>2. Kept \ baseline \subseteq Handles
      BY DEF Kept
    <3> QED
      BY <1>2, <3>1, <3>2 DEF Inv, NamesKept, Types
  <2>6. CASE Inspect
    BY <2>1, <2>3, <2>6 DEF Inspect, InspectOne, Choose
  <2>7. CASE \/ Snapshot \/ SendImage \/ WriteProfile \/ TakeBaseline \/ Trigger \/ Fetch
             \/ Restore \/ EndConversion \/ Save \/ Cleanup \/ FinishCommand
             \/ CameraWorks \/ Press
    BY <2>1, <2>7 DEF Snapshot, SendImage, WriteProfile, TakeBaseline, Trigger, Fetch,
           Restore, EndConversion, Save, Cleanup, FinishCommand, CameraWorks, Press
  <2> QED
    BY <2>4, <2>5, <2>6, <2>7 DEF Next, HostStep
<1>6. deleted' \subseteq Handles
  <2>1. CASE Cleanup
    <3>1. deleted' \in {deleted, deleted \cup {rendered}} /\ phase \in Cleaning
      BY <2>1 DEF Cleanup, Cleaning
    <3> QED
      BY <1>2, <3>1 DEF Types, Inv, DeletionKept
  <2>2. CASE ~Cleanup
    <3>1. UNCHANGED deleted
      BY <2>2 DEF Next, HostStep, Prepare, Snapshot, SendImage, WriteProfile, TakeBaseline,
             Trigger, Poll, Inspect, Fetch, Restore, EndConversion, Save, FinishCommand,
             CameraWorks, Press
    <3> QED
      BY <1>2, <3>1 DEF Types
  <2> QED
    BY <2>1, <2>2
<1>7. command' \in {"render", "recover"}
  <2>1. UNCHANGED command
    BY DEF Next, HostStep, Prepare, Snapshot, SendImage, WriteProfile, TakeBaseline, Trigger,
           Poll, Inspect, Fetch, Restore, EndConversion, Save, Cleanup, FinishCommand,
           CameraWorks, Press, commandVars
  <2> QED
    BY <1>2, <2>1 DEF Types
<1> QED
  BY <1>1, <1>3, <1>4, <1>5, <1>6, <1>7 DEF Types

-----------------------------------------------------------------------------
(* Deletion.                                                               *)

\* The image of a handle that was fetched stays, until it is gone.
LEMMA FetchedStays ==
  ASSUME StoreStep, NEW h \in Handles, Fetched(h)
  PROVE  Fetched(h)'
  BY DEF StoreStep, Fetched, Objects

\* What the stages of a conversion have in common: an image is fetched or
\* there is none, and nothing is saved, deleted or closed.
LEMMA ConvertingStep ==
  ASSUME Inv, \/ Prepare \/ Snapshot \/ SendImage \/ WriteProfile \/ TakeBaseline
              \/ Trigger \/ Poll \/ Inspect \/ Fetch
  PROVE  /\ phase \in Converting
         /\ UNCHANGED <<saved, deleted, closed, told, mute, exit, restoreError, command>>
         /\ \/ /\ phase' \in Converting /\ UNCHANGED rendered
            \/ /\ phase' \in {"restore", "end"}
               /\ failed' = TRUE /\ rendered' = NoHandle
            \/ /\ phase = "fetch" /\ phase' \in {"restore", "end"}
               /\ UNCHANGED failed
               /\ rendered' \in jpegs /\ store[rendered'] = "jpeg"
<1> USE DEF Converting, Uploading, Working, Writing, Go, Goto, Fail, outcomeVars, fetchVars,
            commandVars
<1>1. CASE Prepare \/ Snapshot \/ SendImage
  BY <1>1 DEF Prepare, Snapshot, SendImage
<1>2. CASE WriteProfile \/ TakeBaseline \/ Trigger
  BY <1>2 DEF WriteProfile, TakeBaseline, Trigger
<1>3. CASE Poll
  BY <1>3 DEF Poll, DeadlinePasses, PollAnswered, PollBusy, PollFails
<1>4. CASE Inspect
  BY <1>4 DEF Inspect, InspectOne, Choose
<1>5. CASE Fetch
  BY <1>5 DEF Fetch
<1> QED
  BY <1>1, <1>2, <1>3, <1>4, <1>5

\* Every step keeps the account of what is fetched, saved and deleted.
LEMMA DeletionNext == Inv /\ Next => DeletionKept'
<1> SUFFICES ASSUME Inv, Next PROVE DeletionKept'
  OBVIOUS
<1>1. StoreStep /\ Types /\ NoHandle \notin Handles
  BY CameraNext, NoValueAssumption DEF CameraStep, Inv, Handles
<1>2. ASSUME UNCHANGED rendered, rendered # NoHandle PROVE Fetched(rendered)'
  BY <1>1, <1>2 DEF Inv, DeletionKept, Fetched, StoreStep, Objects, Types
<1>3. CASE \/ Prepare \/ Snapshot \/ SendImage \/ WriteProfile \/ TakeBaseline
           \/ Trigger \/ Poll \/ Inspect \/ Fetch
  <2>1. deleted' = {}
    BY <1>3, ConvertingStep DEF Inv, DeletionKept, Converting, Uploading, Working, Writing,
                                Cleaning
  <2>2. phase' \notin Cleaning \cup {"save", "done"}
    BY <1>3, ConvertingStep DEF Converting, Uploading, Working, Writing, Cleaning
  <2>3. rendered' # NoHandle => Fetched(rendered)'
    BY <1>1, <1>3, ConvertingStep DEF Inv, DeletionKept, Fetched, StoreStep, Objects, Types
  <2>4. phase' \in Restoring /\ ~failed' => rendered' # NoHandle
    BY <1>1, <1>3, ConvertingStep DEF Converting, Uploading, Working, Writing, Restoring,
                                      Types
  <2> QED
    BY <2>1, <2>2, <2>3, <2>4 DEF DeletionKept, DeletedOnlyWhenSaved
<1>4. CASE Restore \/ EndConversion
  <2>1. phase \in Restoring /\ UNCHANGED <<rendered, failed, saved, deleted>>
        /\ phase' \in Restoring \cup {"save", "done"}
        /\ (phase' = "save" => phase = "end" /\ ~failed)
    BY <1>4 DEF Restore, EndConversion, RestoreFails, Exit, Goto, Restoring, fetchVars
  <2>2. deleted' = {}
    BY <2>1 DEF Inv, DeletionKept, Restoring, Cleaning
  <2> QED
    BY <1>2, <2>1, <2>2
       DEF Inv, DeletionKept, DeletedOnlyWhenSaved, Restoring, Cleaning
<1>5. CASE Save
  <2>1. phase = "save" /\ UNCHANGED <<rendered, deleted>>
    BY <1>5 DEF Save, fetchVars
  <2>2. \/ phase' = "done"
        \/ phase' = "recheck" /\ saved' = rendered
    BY <1>5 DEF Save, SaveFails, Retain, Exit, Goto
  <2>3. deleted' = {}
    BY <2>1 DEF Inv, DeletionKept, Cleaning
  <2> QED
    BY <1>2, <2>1, <2>2, <2>3
       DEF Inv, DeletionKept, DeletedOnlyWhenSaved, Restoring, Cleaning
<1>6. ASSUME UNCHANGED <<rendered, saved>>, deleted' \subseteq deleted \cup {rendered},
             deleted' # deleted => phase \in Cleaning
      PROVE  DeletedOnlyWhenSaved'
  <2> SUFFICES ASSUME NEW h \in deleted' PROVE saved = h /\ store'[h] \in {"jpeg", "gone"}
    BY <1>6 DEF DeletedOnlyWhenSaved
  <2>1. saved = h /\ store[h] \in {"jpeg", "gone"}
    BY <1>6 DEF Inv, DeletionKept, DeletedOnlyWhenSaved, Fetched, Cleaning
  <2>2. h \in Handles
    BY <1>1, <1>6 DEF Inv, DeletionKept, Types, Cleaning
  <2> QED
    BY <1>1, <2>1, <2>2 DEF StoreStep, Objects
<1>7. CASE Cleanup
  <2>1. phase \in Cleaning /\ phase' \in Cleaning /\ UNCHANGED <<rendered, saved>>
        /\ deleted' \subseteq deleted \cup {rendered}
    BY <1>7 DEF Cleanup, CleanupStep, CleanupFails, Goto, Cleaning, fetchVars
  <2> QED
    BY <1>2, <1>6, <2>1 DEF Inv, DeletionKept, Restoring, Cleaning
<1>8. CASE FinishCommand
  <2>1. phase \in Cleaning /\ phase' = "done" /\ UNCHANGED <<rendered, saved, deleted>>
    BY <1>8 DEF FinishCommand, Finish, Exit, Goto, Cleaning, fetchVars
  <2> QED
    BY <1>2, <1>6, <2>1 DEF DeletionKept, Restoring, Cleaning
<1>9. CASE CameraWorks \/ Press
  <2>1. UNCHANGED <<phase, failed, rendered, saved, deleted>>
    BY <1>9 DEF CameraWorks, Press, fetchVars, outcomeVars
  <2> QED
    BY <1>2, <1>6, <2>1 DEF Inv, DeletionKept
<1> QED
  BY <1>3, <1>4, <1>5, <1>7, <1>8, <1>9 DEF Next, HostStep

-----------------------------------------------------------------------------
(* The session.                                                            *)

\* Every step keeps what the host knows of a running conversion.
LEMMA SessionNext == Inv /\ Next => SessionKept'
<1> SUFFICES ASSUME Inv, Next PROVE SessionKept'
  OBVIOUS
<1>1. poisoned => poisoned'
  BY CameraNext DEF CameraStep, PoisonStep
<1>2. CASE \/ Prepare \/ Snapshot \/ SendImage \/ WriteProfile \/ TakeBaseline \/ Fetch
  <2>1. ~closed'
    BY <1>2, ConvertingStep
       DEF Inv, SessionKept, Converting, Uploading, Working, Writing
  <2>2. job' = job /\ UNCHANGED processing /\ (found # {} => found' # {})
    BY <1>2 DEF Prepare, Snapshot, SendImage, WriteProfile, TakeBaseline, Fetch,
                sessionVars, cameraVars, Accepted, Fails, NoEffect, Upload, Store,
                lookVars, fetchVars
  <2> QED
    BY <1>1, <2>1, <2>2 DEF Inv, SessionKept
<1>3. CASE Trigger
  <2>1. ~closed'
    BY <1>3, ConvertingStep
       DEF Inv, SessionKept, Converting, Uploading, Working, Writing
  <2>2. UNCHANGED found
    BY <1>3 DEF Trigger, lookVars
  <2>3. \/ processing'
        \/ poisoned'
        \/ UNCHANGED <<job, processing>>
    BY <1>3 DEF Trigger, Accepted, Fails, NoEffect, cameraVars
  <2> QED
    BY <1>1, <2>1, <2>2, <2>3 DEF Inv, SessionKept
<1>4. CASE Poll \/ Inspect
  <2>1. ~closed'
    BY <1>4, ConvertingStep
       DEF Inv, SessionKept, Converting, Uploading, Working, Writing
  <2>2. UNCHANGED job /\ (UNCHANGED <<processing, found>> \/ found' # {})
    BY <1>4 DEF Poll, DeadlinePasses, PollAnswered, PollBusy, PollFails, Inspect, InspectOne,
                Choose, cameraVars, sessionVars, lookVars, fetchVars, Accepted, Fails,
                NoEffect
  <2> QED
    BY <1>1, <2>1, <2>2 DEF Inv, SessionKept
<1>5. CASE Restore \/ Cleanup
  <2>1. ~closed' /\ UNCHANGED <<job, processing, found>>
    BY <1>5 DEF Inv, SessionKept, Restore, Cleanup, RestoreFails, fetchVars, cameraVars,
                Accepted, Fails, NoEffect, Store, Remove
  <2> QED
    BY <1>1, <2>1 DEF Inv, SessionKept
<1>6. CASE EndConversion \/ Save \/ FinishCommand
  <2>1. UNCHANGED <<job, processing, poisoned, found>>
    BY <1>6 DEF EndConversion, Save, FinishCommand, fetchVars, cameraVars, sessionVars
  <2>2. phase # "done"
    BY <1>6 DEF EndConversion, Save, FinishCommand
  <2>3. \/ UNCHANGED closed
        \/ phase' = "done" /\ (closed' => Healthy)
    BY <1>6 DEF EndConversion, Save, FinishCommand, Finish, SaveFails, Retain, Exit, Goto
  <2> QED
    BY <2>1, <2>2, <2>3 DEF Inv, SessionKept, Healthy
<1>7. CASE CameraWorks \/ Press
  <2>1. UNCHANGED <<processing, poisoned, found, closed, phase>>
        /\ (job' = "running" => job = "running")
    BY <1>7 DEF CameraWorks, Press, fetchVars, cameraVars, sessionVars, outcomeVars
  <2> QED
    BY <2>1 DEF Inv, SessionKept
<1> QED
  BY <1>2, <1>3, <1>4, <1>5, <1>6, <1>7 DEF Next, HostStep

-----------------------------------------------------------------------------
(* What the operator is told.                                              *)

\* Every step keeps track of the images that are left.
LEMMA NamesNext == Inv /\ Next => NamesKept'
<1> SUFFICES ASSUME Inv, Next PROVE NamesKept'
  OBVIOUS
<1>1. StoreStep /\ Types /\ NoHandle \notin Handles
  BY CameraNext, NoValueAssumption DEF CameraStep, Inv, Handles
<1>2. ASSUME NEW h \in Handles, store[h] # "unused"
      PROVE  store'[h] # "unused" /\ (store'[h] = "jpeg" => store[h] = "jpeg")
  BY <1>1, <1>2 DEF StoreStep, Objects
<1>3. ASSUME UNCHANGED observed
      PROVE  /\ \A h \in observed' : store'[h] # "unused"
             /\ \A h \in observed' : store'[h] = "jpeg" => store[h] = "jpeg"
  BY <1>1, <1>2, <1>3 DEF Inv, NamesKept, Types
<1>4. ASSUME UNCHANGED observed, NEW handles, Left(handles)
      PROVE  \A h \in observed' : store'[h] = "jpeg" => h \in handles
  BY <1>3, <1>4 DEF Left
<1>5. CASE Prepare \/ Snapshot \/ SendImage \/ WriteProfile \/ TakeBaseline \/ Trigger
  <2>1. observed = {} /\ observed' = {}
    BY <1>5 DEF Inv, NamesKept, Prepare, Snapshot, SendImage, WriteProfile, TakeBaseline,
                Trigger, pollVars, Uploading, Writing
  <2>2. rendered = NoHandle /\ rendered' = NoHandle
    BY <1>5 DEF Inv, NamesKept, Prepare, Snapshot, SendImage, WriteProfile, TakeBaseline,
                Trigger, fetchVars, Fail, Converting, Uploading, Writing, Working
  <2>3. UNCHANGED <<inspected, jpegs>> /\ inspected = {}
    BY <1>5 DEF Inv, NamesKept, Prepare, Snapshot, SendImage, WriteProfile, TakeBaseline,
                Trigger, fetchVars, lookVars, Uploading, Writing
  <2>4. \/ /\ phase' \in {"snapshot", "inspect", "poll"} \cup Uploading \cup Writing
           /\ UNCHANGED failed
        \/ phase' \in {"restore", "end"} /\ failed' = TRUE
    BY <1>5 DEF Prepare, Snapshot, SendImage, WriteProfile, TakeBaseline, Trigger, Fail, Go,
                Goto, Uploading, Writing, outcomeVars
  <2>5. ~failed
    BY <1>5 DEF Inv, NamesKept, Prepare, Snapshot, SendImage, WriteProfile, TakeBaseline,
                Trigger, Converting, Uploading, Writing, Working
  <2> QED
    BY <2>1, <2>2, <2>3, <2>4, <2>5
       DEF NamesKept, Left, Converting, Uploading, Writing, Working, Restoring, Cleaning,
           RetainedObjectsNamed
<1>6. ASSUME phase \in Converting, UNCHANGED observed, NEW handles, Left(handles), Fail(handles)
      PROVE  NamesKept'
  <2>1. /\ failed' = TRUE /\ named' = handles /\ rendered' = NoHandle
        /\ phase' \in {"restore", "end"}
    BY <1>6, FailGives
  <2> QED
    BY <1>3, <1>4, <1>6, <2>1
       DEF NamesKept, Left, Converting, Uploading, Writing, Working, Restoring, Cleaning,
           RetainedObjectsNamed
<1>7. CASE Poll
  <2>1. /\ phase = "poll" /\ inspected = {} /\ jpegs = {} /\ ~failed
        /\ rendered = NoHandle /\ observed \cap baseline = {} /\ Left(previous)
        /\ UNCHANGED <<baseline, inspected, jpegs>>
    BY <1>1, <1>7 DEF Poll, DeadlinePasses, PollAnswered, PollBusy, PollFails, Inv, NamesKept,
                      Types, Converting, Working, pollVars, lookVars, fetchVars
  <2>2. CASE DeadlinePasses \/ PollFails
    <3>1. UNCHANGED observed /\ Fail(previous)
      BY <2>2 DEF DeadlinePasses, PollFails, LastSeen, pollVars
    <3> QED
      BY <1>6, <2>1, <3>1 DEF Converting, Working
  <2>3. CASE PollBusy
    <3>1. /\ phase' = "poll"
          /\ UNCHANGED <<observed, previous, baseline, rendered, failed, inspected>>
      BY <2>3 DEF PollBusy, Go, Goto, outcomeVars, fetchVars
    <3> QED
      BY <1>3, <1>4, <2>1, <3>1
         DEF NamesKept, Left, Converting, Uploading, Writing, Working, Restoring, Cleaning,
             RetainedObjectsNamed
  <2>4. CASE PollAnswered
    <3> DEFINE delta == Kept \ baseline
    <3>1. /\ observed' = observed \cup delta /\ UNCHANGED <<store, rendered, failed>>
          /\ \/ phase' = "poll" /\ previous' = delta
             \/ phase' = "inspect" /\ found' = delta
      BY <2>4 DEF PollAnswered, Accepted, NoEffect, cameraVars, fetchVars, outcomeVars, Go,
                  Goto
    <3>2. \A h \in observed' : store'[h] # "unused" /\ (store'[h] = "jpeg" => h \in delta)
      BY <1>1, <2>1, <3>1 DEF Kept, Objects, Types, Inv, NamesKept
    <3>3. delta \cap baseline = {}
      OBVIOUS
    <3> QED
      BY <2>1, <3>1, <3>2, <3>3
         DEF NamesKept, Left, Converting, Uploading, Writing, Working, Restoring, Cleaning,
             RetainedObjectsNamed
  <2> QED
    BY <1>7, <2>2, <2>3, <2>4 DEF Poll
<1>8. CASE Inspect
  <2>1. /\ phase = "inspect" /\ ~failed /\ rendered = NoHandle /\ Left(found)
        /\ \A h \in inspected \ jpegs : store[h] \notin {"unused", "jpeg"}
        /\ UNCHANGED <<observed, found>>
    BY <1>8 DEF Inspect, InspectOne, Choose, Inv, NamesKept, Converting, Working, pollVars,
                lookVars
  <2>2. CASE Fail(found)
    BY <1>6, <2>1, <2>2 DEF Converting, Working
  <2>3. CASE /\ UNCHANGED <<store, rendered, failed>> /\ phase' = "inspect"
             /\ \E h \in found : /\ store[h] \in Objects
                                 /\ inspected' = inspected \cup {h}
                                 /\ jpegs' = IF store[h] = "jpeg" THEN jpegs \cup {h}
                                                                  ELSE jpegs
    <3>1. \A h \in inspected' \ jpegs' : store'[h] \notin {"unused", "jpeg"}
      BY <2>1, <2>3 DEF Objects
    <3> QED
      BY <1>3, <1>4, <2>1, <2>3, <3>1
         DEF NamesKept, Left, Converting, Uploading, Writing, Working, Restoring, Cleaning,
             RetainedObjectsNamed
  <2>4. CASE /\ UNCHANGED <<store, rendered, failed, inspected, jpegs>> /\ phase' = "fetch"
             /\ found = inspected /\ Cardinality(jpegs) = 1
    BY <1>3, <1>4, <2>1, <2>4
       DEF NamesKept, Left, Converting, Uploading, Writing, Working, Restoring, Cleaning,
           RetainedObjectsNamed
  <2> QED
    BY <1>8, <2>2, <2>3, <2>4
       DEF Inspect, InspectOne, Choose, Accepted, NoEffect, cameraVars, lookVars, Go, Goto,
           outcomeVars
<1>9. CASE Fetch
  <2>1. /\ phase = "fetch" /\ ~failed /\ Left(found) /\ found = inspected
        /\ Cardinality(jpegs) = 1
        /\ \A h \in inspected \ jpegs : store[h] \notin {"unused", "jpeg"}
        /\ UNCHANGED <<observed, found>>
    BY <1>9 DEF Fetch, Inv, NamesKept, Converting, Working, pollVars, lookVars
  <2>2. CASE Fail(found)
    BY <1>6, <2>1, <2>2 DEF Converting, Working
  <2>3. CASE ~Fail(found)
    <3>1. PICK h \in jpegs : rendered' = h
      BY <1>9, <2>3 DEF Fetch
    <3>2. UNCHANGED <<store, failed>> /\ phase' \in {"restore", "end"}
      BY <1>9, <2>3 DEF Fetch, Accepted, NoEffect, cameraVars, Go, Goto, outcomeVars
    <3>3. jpegs = {h}
      <4>1. Handles = 1 .. MaxObjects /\ 1 \in Int /\ MaxObjects \in Int
        BY BoundsAssumption DEF Handles
      <4>2. IsFiniteSet(jpegs)
        BY <1>1, <4>1, FS_Interval, FS_Subset DEF Types
      <4> QED
        BY <2>1, <4>2, FS_Singleton
    <3>4. Left({rendered})'
      BY <2>1, <3>1, <3>2, <3>3 DEF Left
    <3> QED
      BY <1>3, <2>1, <3>2, <3>4
         DEF NamesKept, Converting, Uploading, Writing, Working, Restoring, Cleaning,
             RetainedObjectsNamed
  <2> QED
    BY <2>2, <2>3
<1>10. CASE Restore
  <2>1. /\ phase \in Restoring /\ phase' \in Restoring
        /\ UNCHANGED <<observed, rendered, failed, named>>
    BY <1>10 DEF Restore, RestoreFails, Goto, Restoring, pollVars, fetchVars
  <2> QED
    BY <1>3, <1>4, <2>1
       DEF Inv, NamesKept, Left, Converting, Uploading, Writing, Working, Restoring, Cleaning,
           RetainedObjectsNamed
<1>11. CASE EndConversion
  <2>1. /\ phase \in Restoring
        /\ UNCHANGED <<store, observed, rendered, failed>>
        /\ \/ failed /\ phase' = "done" /\ UNCHANGED named
           \/ phase' = "done" /\ exit' = 3
           \/ ~failed /\ phase' = "save"
    BY <1>11 DEF EndConversion, Exit, Goto, Restoring, pollVars, fetchVars, cameraVars
  <2> QED
    BY <1>3, <1>4, <2>1
       DEF Inv, NamesKept, Left, Converting, Uploading, Writing, Working, Restoring, Cleaning,
           RetainedObjectsNamed, Seen
<1>12. CASE Save
  <2>1. /\ phase = "save"
        /\ UNCHANGED <<store, observed, rendered, failed>>
        /\ \/ phase' = "done" /\ (named' = {rendered} \/ mute')
           \/ phase' = "recheck"
    BY <1>12 DEF Save, SaveFails, Retain, Exit, Goto, pollVars, fetchVars, cameraVars
  <2> QED
    BY <1>3, <1>4, <2>1
       DEF Inv, NamesKept, Left, Converting, Uploading, Writing, Working, Restoring, Cleaning,
           RetainedObjectsNamed, Seen
<1>13. CASE Cleanup
  <2>1. /\ phase \in Cleaning /\ phase' \in Cleaning
        /\ UNCHANGED <<observed, rendered>>
    BY <1>13 DEF Cleanup, CleanupStep, CleanupFails, Goto, Cleaning, pollVars, fetchVars
  <2>2. phase' = "finish" /\ ~failed' => store'[rendered] = "gone"
    <3>1. SUFFICES ASSUME phase' = "finish", ~failed' PROVE store'[rendered] = "gone"
      OBVIOUS
    <3>2. rendered \notin Kept /\ UNCHANGED store
      BY <1>13, <3>1 DEF Cleanup, CleanupStep, CleanupFails, Goto, Accepted, NoEffect,
                         cameraVars
    <3>3. rendered \in Handles /\ Fetched(rendered)
      BY <1>1, <2>1 DEF Inv, DeletionKept, Types, Cleaning
    <3> QED
      BY <3>2, <3>3 DEF Kept, Fetched, Objects
  <2> QED
    BY <1>3, <1>4, <2>1, <2>2
       DEF Inv, NamesKept, Left, Converting, Uploading, Writing, Working, Restoring, Cleaning,
           RetainedObjectsNamed
<1>14. CASE FinishCommand
  <2>1. /\ phase = "finish" /\ phase' = "done"
        /\ UNCHANGED <<store, observed, rendered, failed>>
        /\ ~failed \/ named' = {rendered}
    BY <1>14 DEF FinishCommand, Finish, Exit, Goto, pollVars, fetchVars, cameraVars
  <2>2. Left({rendered}) /\ (~failed => store[rendered] = "gone")
    BY <2>1 DEF Inv, NamesKept, Cleaning
  <2>3. \A h \in Seen' : store'[h] = "jpeg" => h \in named'
    BY <2>1, <2>2 DEF Left, Seen
  <2> QED
    BY <1>3, <2>1, <2>3
       DEF NamesKept, Converting, Uploading, Writing, Working, Restoring, Cleaning,
           RetainedObjectsNamed
<1>15. CASE CameraWorks \/ Press
  <2>1. UNCHANGED <<phase, baseline, previous, observed, found, inspected, jpegs, rendered,
                    failed, named, mute, exit>>
    BY <1>15 DEF CameraWorks, Press, pollVars, fetchVars, outcomeVars
  <2>2. \A h \in inspected \ jpegs :
          store[h] \notin {"unused", "jpeg"} => store'[h] \notin {"unused", "jpeg"}
    BY <1>1, <1>2 DEF Types
  <2>3. phase = "finish" /\ ~failed /\ store[rendered] = "gone" => store'[rendered] = "gone"
    BY <1>1 DEF StoreStep, Objects, Types, Inv, DeletionKept, Cleaning
  <2>4. \A h \in Seen : store'[h] = "jpeg" => store[h] = "jpeg"
    BY <1>1, <1>3, <2>1 DEF Seen, Types, Inv, DeletionKept, Fetched, StoreStep, Objects
  <2>5. RetainedObjectsNamed'
    BY <2>1, <2>4 DEF Inv, NamesKept, RetainedObjectsNamed, Seen
  <2>6. \A h \in observed' : store'[h] # "unused"
    BY <1>3, <2>1
  <2>7. ASSUME NEW handles, Left(handles) PROVE Left(handles)'
    BY <1>4, <2>1, <2>7 DEF Left
  <2>8. /\ phase' = "poll" => Left(previous)'
        /\ phase' \in {"inspect", "fetch"} => Left(found)'
        /\ phase' \in Restoring /\ failed' => Left(named)'
        /\ phase' \in Restoring /\ ~failed' => Left({rendered})'
        /\ phase' \in {"save"} \cup Cleaning => Left({rendered})'
    BY <2>1, <2>7 DEF Inv, NamesKept, Left
  <2> QED
    BY <2>1, <2>2, <2>3, <2>5, <2>6, <2>8 DEF Inv, NamesKept
<1> QED
  BY <1>5, <1>7, <1>8, <1>9, <1>10, <1>11, <1>12, <1>13, <1>14, <1>15 DEF Next, HostStep

-----------------------------------------------------------------------------
(* The profile.                                                            *)

\* Where a conversion that fails goes on.
LEMMA FailRestores ==
  ASSUME Inv, phase \in Converting, NEW handles, Fail(handles),
         UNCHANGED <<live, profileVars, commandVars>>
  PROVE  ProfileKept'
<1>1. /\ UNCHANGED <<live, original, candidate, command>>
      /\ phase' = IF MustRestore THEN "restore" ELSE "end"
  BY FailGives DEF profileVars, commandVars
<1> QED
  BY <1>1 DEF Inv, Types, ProfileKept, ProfileAccounted, MustRestore, Converting, Uploading,
              Writing, Working, Cleaning

\* Every step keeps the account of the profile.
LEMMA ProfileNext == Inv /\ Next => ProfileKept'
<1> SUFFICES ASSUME Inv, Next PROVE ProfileKept'
  OBVIOUS
<1> USE DEF Go, Goto, profileVars, commandVars
<1>1. ASSUME phase \in Converting, UNCHANGED <<live, profileVars, commandVars>>,
             \/ \E handles : Fail(handles)
             \/ UNCHANGED phase
             \/ /\ phase' \in {"poll", "inspect", "fetch", "baseline", "trigger", "readback"}
                /\ \/ phase \in Working
                   \/ phase = "object" /\ candidate = original
             \/ phase = "info" /\ phase' = "object"
             \/ phase = "object" /\ phase' = "write" /\ candidate # original
      PROVE  ProfileKept'
  <2>1. CASE \E handles : Fail(handles)
    BY <1>1, <2>1, FailRestores
  <2> QED
    BY <1>1, <2>1 DEF Inv, ProfileKept, ProfileAccounted, Converting, Uploading, Writing,
                      Working, Cleaning
<1>2. CASE Prepare
  <2>1. /\ phase = "prepare" /\ UNCHANGED <<live, original, candidate, command>>
        /\ \/ phase' \in {"inspect", "end", "restore"}
           \/ phase' = "snapshot" /\ command = "render"
    BY <1>2 DEF Prepare, Fail, cameraVars
  <2> QED
    BY <2>1 DEF Inv, ProfileKept, ProfileAccounted, Uploading, Writing, Working, Cleaning
<1>3. CASE Snapshot
  <2>1. /\ phase = "snapshot" /\ UNCHANGED <<live, command>>
        /\ original' \in {original, live}
        /\ phase' \in {"info", "restore", "end"}
    BY <1>3 DEF Snapshot, Accepted, Fails, NoEffect, cameraVars, Fail
  <2>2. command = "render" /\ original = NoProfile
    BY <1>3 DEF Inv, ProfileKept, Snapshot
  <2> QED
    BY <2>1, <2>2 DEF Inv, ProfileKept, ProfileAccounted, Uploading, Writing, Working, Cleaning
<1>4. CASE SendImage \/ TakeBaseline \/ Trigger \/ Poll \/ Inspect
  <2>1. phase \in Converting
    BY <1>4, ConvertingStep
  <2>2. CASE SendImage
    BY <1>1, <2>1, <2>2
       DEF SendImage, Accepted, Fails, NoEffect, Upload, cameraVars
  <2>3. CASE TakeBaseline \/ Trigger
    BY <1>1, <2>1, <2>3
       DEF TakeBaseline, Trigger, Accepted, Fails, NoEffect, Start, cameraVars, Working,
           Writing
  <2>4. CASE Poll
    BY <1>1, <2>1, <2>4
       DEF Poll, DeadlinePasses, PollAnswered, PollBusy, PollFails, Accepted, Fails, NoEffect,
           cameraVars, Working
  <2>5. CASE Inspect
    BY <1>1, <2>1, <2>5
       DEF Inspect, InspectOne, Choose, Accepted, Fails, NoEffect, cameraVars, Working
  <2> QED
    BY <1>4, <2>2, <2>3, <2>4, <2>5
<1>5. CASE WriteProfile
  <2>1. CASE phase = "write"
    <3>1. /\ UNCHANGED <<original, candidate, command>> /\ candidate # original
          /\ \/ phase' = "readback"
             \/ phase' = IF MustRestore THEN "restore" ELSE "end"
      BY <1>5, <2>1 DEF WriteProfile, Fail, Inv, ProfileKept
    <3> QED
      BY <2>1, <3>1 DEF Inv, Types, ProfileKept, ProfileAccounted, MustRestore, Uploading,
                        Writing, Working, Cleaning
  <2>2. CASE phase = "readback"
    BY <1>1, <1>5, <2>2
       DEF WriteProfile, Accepted, Fails, NoEffect, cameraVars, Working, Writing, Converting
  <2> QED
    BY <1>5, <2>1, <2>2 DEF WriteProfile
<1>6. CASE Fetch
  <2>1. /\ phase = "fetch" /\ UNCHANGED <<live, original, candidate, command>>
        /\ phase' = IF MustRestore THEN "restore" ELSE "end"
    BY <1>6 DEF Fetch, Accepted, Fails, NoEffect, cameraVars, Fail
  <2> QED
    BY <2>1 DEF Inv, Types, ProfileKept, ProfileAccounted, MustRestore, Uploading, Writing,
                Working, Cleaning
<1>7. CASE Restore
  <2>1. /\ phase \in {"restore", "confirmRestore"} /\ UNCHANGED <<original, candidate, command>>
        /\ \/ phase' = "confirmRestore"
           \/ phase' = "end" /\ live' = original
           \/ phase' = "end" /\ restoreError' = TRUE
    BY <1>7 DEF Restore, RestoreFails, Accepted, NoEffect, cameraVars
  <2>2. phase' = "end" => live' = original \/ restoreError'
    BY <2>1, Zenon
  <2> QED
    BY <2>1, <2>2 DEF Inv, ProfileKept, ProfileAccounted, Uploading, Writing, Working, Cleaning
<1>8. CASE EndConversion \/ Save \/ Cleanup \/ FinishCommand
  <2>1. /\ phase \in {"end", "save"} \cup Cleaning
        /\ UNCHANGED <<original, candidate, command, live>>
    BY <1>8 DEF EndConversion, Save, Cleanup, FinishCommand, Cleaning, Accepted, Fails, NoEffect,
                Remove, cameraVars
  <2>2. \/ phase' \in {"save"} \cup Cleaning /\ UNCHANGED restoreError
        \/ phase' = "done" /\ (restoreError => told' \/ exit' = 3 \/ mute')
    BY <1>8, Zenon
       DEF EndConversion, Save, SaveFails, Retain, Cleanup, CleanupStep, CleanupFails,
           FinishCommand, Finish, Exit, Cleaning
  <2> QED
    BY <2>1, <2>2 DEF Inv, ProfileKept, ProfileAccounted, Uploading, Writing, Working, Cleaning
<1>9. CASE CameraWorks \/ Press
  <2>1. UNCHANGED <<live, original, candidate, command, phase, restoreError, told, exit, mute>>
    BY <1>9 DEF CameraWorks, Press, cameraVars, outcomeVars
  <2> QED
    BY <2>1 DEF Inv, ProfileKept, ProfileAccounted
<1> QED
  BY <1>2, <1>3, <1>4, <1>5, <1>6, <1>7, <1>8, <1>9 DEF Next, HostStep

-----------------------------------------------------------------------------
(* The theorems.                                                           *)

\* It holds at the start.
LEMMA InvInit == Init => Inv
  <1> SUFFICES ASSUME Init PROVE Inv
    OBVIOUS
  <1>1. Types
    BY Zenon DEF Init, Types, StoreType, Objects
  <1> QED
    BY <1>1 DEF Init, Inv, DeletionKept, SessionKept, NamesKept, ProfileKept, Uploading,
            Writing, Working, Converting, Restoring, Cleaning, DeletedOnlyWhenSaved,
            RetainedObjectsNamed, ProfileAccounted

\* A step that changes nothing keeps it.
LEMMA InvStutter == Inv /\ UNCHANGED vars => Inv'
  BY DEF vars, cameraVars, sessionVars, profileVars, pollVars, lookVars, fetchVars, outcomeVars,
         commandVars, Inv, Types, StoreType, DeletionKept, SessionKept, NamesKept, ProfileKept,
         Fetched, Left, Seen, DeletedOnlyWhenSaved, RetainedObjectsNamed, ProfileAccounted

\* What the command knows of the camera's objects, profile and session is
\* true at every step, whatever the camera answers (features::render).
THEOREM Invariance == Spec => []Inv
<1>1. Inv /\ [Next]_vars => Inv'
  BY TypesNext, DeletionNext, SessionNext, NamesNext, ProfileNext, InvStutter DEF Inv
<1> QED
  BY <1>1, InvInit, PTL DEF Spec

\* The only object a command asks the camera to delete is the JPEG whose
\* bytes it saved before (save_rendered_object, delete_object_verified).
THEOREM DeletionSafe == Spec => []DeletedOnlyWhenSaved
<1>1. Inv => DeletedOnlyWhenSaved
  BY DEF Inv, DeletionKept
<1> QED
  BY <1>1, Invariance, PTL

\* A JPEG that was seen and is still on the camera is named at the end, so
\* that it can be recovered (the errors of the render manager).
THEOREM RetentionTold == Spec => []RetainedObjectsNamed
<1>1. Inv => RetainedObjectsNamed
  BY DEF Inv, NamesKept
<1> QED
  BY <1>1, Invariance, PTL

\* A command that leaves another profile on the camera than it found says so
\* (combine_render_and_restore, RenderCleanupError, RenderSaveError).
THEOREM ProfileRestored == Spec => []ProfileAccounted
<1>1. Inv => ProfileAccounted
  BY DEF Inv, ProfileKept
<1> QED
  BY <1>1, Invariance, PTL

\* No session is closed under a conversion whose objects are not known
\* (camera_processing_active, Camera::drop).
THEOREM SessionHeldOpen == Spec => []NeverClosedWhileConverting
<1>1. Inv => NeverClosedWhileConverting
  BY DEF Inv, SessionKept, NeverClosedWhileConverting
<1> QED
  BY <1>1, Invariance, PTL
=============================================================================
