---------------------------- MODULE DiscoveryProofs ---------------------------
(***************************************************************************)
(* What the developer tools promise, for all slots, plans, answers and     *)
(* numbers of Ctrl-C: the probe writes the camera only when the backup and *)
(* the attempt are on stable storage, what its log says is true, and how   *)
(* it ends tells whether the camera is as it was.  What a discover command *)
(* saves is whole, and what it says of the bytes is what the codec makes   *)
(* of them.                                                                *)
(***************************************************************************)
EXTENDS Discovery, FiniteSetTheorems, TLAPS

\* The stages of the probe before anything is recorded, with those of the
\* discover commands, and those after.
Before == {"gates", "backup", "attempt", "open", "read", "save"}
Window == {"write", "readback", "name", "restore", "verify", "leave"}
Sequence == {"snapshot", "enter", "entering", "drain", "terminal"} \cup Window

Outcomes == MutatingStages \cup {"restored", "snapshot_failed", "interrupted_after_restore"}
Lines == Outcomes \cup {"attempted", "torn"}

Types ==
    /\ pc \in Before \cup Sequence \cup {"ended", "dark"}
    /\ outcome \in Outcomes
    /\ log \in Seq(Lines) /\ logSynced \in Nat
    /\ critical \in BOOLEAN /\ latched \in BOOLEAN /\ early \in BOOLEAN
    /\ healthy \in BOOLEAN /\ sent \in BOOLEAN
    /\ seen \in Nat /\ queued \in Nat /\ presses \in Nat

\* A file gets its name only when its bytes are synced, and a name that was
\* synced stays.
FileKept ==
    /\ file \in {"written", "synced", "renamed", "committed"} => content = "full"
    /\ file \in {"synced", "renamed", "committed"} => synced
    /\ "whole" \in onDisk => synced
    /\ "torn" \notin onDisk /\ path # "torn"
    /\ file = "renamed" /\ pc # "dark" => path = "whole"
    /\ file = "committed" => path = "whole" /\ onDisk = {"whole"}

\* The attempt is on record before the first write is sent.
AttemptKept ==
    /\ pc \in Before => log = <<>> /\ logSynced = 0
    /\ pc \in Before \cup {"snapshot"} => ~sent
    /\ pc \in Sequence => log = <<"attempted">> /\ logSynced = 1
    /\ pc \in Sequence \cup {"attempt"} => file = "committed"
    /\ sent => /\ file = "committed"
               /\ \/ Len(log) > 0 /\ log[1] = "attempted" /\ logSynced > 0
                  \/ pc = "dark" /\ ~logBefore

Undone == selector = original /\ pending = "nothing"

\* The selector that will be restored is the one before the command, and an
\* outcome that is no failure means that it has been.
SelectorKept ==
    /\ healthy => pending = "nothing"
    /\ ~sent => Undone
    /\ pc \in Before \cup {"snapshot"} => outcome = "restored"
    /\ pc \in {"readback", "name", "restore", "verify"} => sent
    /\ pc \in {"enter", "entering"} \cup (Window \ {"leave"}) =>
          snapshot = original /\ outcome = "restored"
    /\ pc \in {"leave", "drain", "terminal"} /\ outcome \notin MutatingStages => Undone
    /\ Recorded("restored") \/ Recorded("interrupted_after_restore") => Undone

\* A Ctrl-C latched in the window is counted until it is drained.
LatchKept ==
    /\ critical => pc \in Window \cup {"ended", "dark"}
    /\ latched => pc \in Window \cup {"drain", "terminal", "ended", "dark"}
    /\ latched /\ pc \in Window \cup {"drain"} => seen > 0
    /\ latched /\ pc = "terminal" => outcome # "restored"
    /\ handler = "quit" => early
    /\ handler = "force" => presses > 1
    /\ seen + queued + (IF handler = "count" THEN 1 ELSE 0) <= presses

\* What the ways to end leave behind.
EndKept ==
    /\ exit \in {0, 1, 3, 130, Running}
    /\ exit = 0 => Undone /\ ~latched
    /\ exit = 3 => presses > 1
    /\ exit = 130 => early
    /\ exit = 1 /\ pc # "dark" /\ Changed =>
          MutatingStages \cap ToSet(log) # {} \/ logSynced < 2

Inv == Types /\ FileKept /\ AttemptKept /\ SelectorKept /\ LatchKept /\ EndKept

-----------------------------------------------------------------------------
(* Facts about what several actions have in common.                        *)

\* A read never mends the session.
LEMMA ReadsKeepHealth ==
  ASSUME Types, ReadAnswered \/ ReadFails
  PROVE  healthy' \in BOOLEAN /\ (healthy' => healthy)
<1>1. CASE ReadAnswered
  BY <1>1 DEF ReadAnswered, Types
<1>2. CASE ReadFails
  <2>1. CASE healthy' = healthy
    BY <2>1 DEF Types
  <2>2. CASE healthy' = FALSE
    BY <2>2
  <2> QED
    BY <1>2, <2>1, <2>2 DEF ReadFails
<1> QED
  BY <1>1, <1>2

\* A write that was accepted or failed leaves the session as it was, with
\* nothing pending, or lost.
LEMMA WritesKeepHealth ==
  ASSUME Types, SelectorKept, NEW value, WriteAccepted(value) \/ WriteFails(value)
  PROVE  /\ healthy' \in BOOLEAN
         /\ healthy' => pending' = "nothing"
<1>1. CASE WriteAccepted(value) \/ WriteRejected
  BY <1>1 DEF WriteAccepted, WriteRejected, Types, SelectorKept
<1>2. CASE WriteLost(value)
  BY <1>2 DEF WriteLost
<1> QED
  BY <1>1, <1>2 DEF WriteFails

\* As long as the process runs, there is no end to account for.
LEMMA EndWhileRunning ==
  ASSUME exit' = Running
  PROVE  EndKept'
  BY DEF EndKept, Running

-----------------------------------------------------------------------------
(* The types.                                                              *)

\* What is appended to the log is a line.
LEMMA AppendKeepsTypes ==
  ASSUME Types, NEW line \in Lines, AppendWell(line) \/ AppendFails(line)
  PROVE  log' \in Seq(Lines) /\ logSynced' \in Nat
<1>1. log \in Seq(Lines) /\ logSynced \in Nat /\ "torn" \in Lines
  BY DEF Types, Lines
<1>2. Append(log, line) \in Seq(Lines) /\ Append(log, "torn") \in Seq(Lines)
  BY <1>1
<1>3. log' \in Seq(Lines)
  BY <1>1, <1>2 DEF AppendWell, AppendFails
<1>4. logSynced' \in Nat
  BY <1>1, <1>3 DEF AppendWell, AppendFails
<1> QED
  BY <1>3, <1>4

\* Every step keeps the types.
LEMMA TypesNext == Inv /\ ToolNext => Types'
<1> SUFFICES ASSUME Inv, ToolNext PROVE Types'
  OBVIOUS
<1> USE DEF Inv, At, Alive, Goto, Exit, runVars, latchVars, handlerVars, logVars,
            cameraVars
<1>1. CASE Gates \/ SaveBackup
  BY <1>1 DEF Gates, SaveBackup, Types, Before, Sequence, Window
<1>2. CASE RecordAttempt
  <2>1. log' \in Seq(Lines) /\ logSynced' \in Nat
    BY <1>2, AppendKeepsTypes DEF RecordAttempt, Lines
  <2> QED
    BY <1>2, <2>1 DEF RecordAttempt, Types, Before, Sequence, Window
<1>3. CASE ReadSnapshot \/ ReadBack \/ ReadName \/ Verify
  <2>1. healthy' \in BOOLEAN
    BY <1>3, ReadsKeepHealth DEF ReadSnapshot, ReadBack, ReadName, Verify
  <2>2. outcome' \in Outcomes /\ pc' \in Sequence
    BY <1>3 DEF ReadSnapshot, ReadBack, ReadName, Verify, Fails, Types, Sequence,
                Window, Outcomes, MutatingStages
  <2>3. UNCHANGED <<log, logSynced, critical, latched, early, sent, seen, queued,
                    presses>>
    BY <1>3 DEF ReadSnapshot, ReadBack, ReadName, Verify, UnchangedByRead
  <2> QED
    BY <2>1, <2>2, <2>3 DEF Types
<1>4. CASE EnterWindow \/ LeaveWindow
  <2>1. seen' \in Nat /\ pc' \in Sequence
    BY <1>4 DEF EnterWindow, LeaveWindow, Types, Sequence, Window
  <2>2. critical' \in BOOLEAN
    BY <1>4, Zenon DEF EnterWindow, LeaveWindow, Types
  <2> QED
    BY <1>4, <2>1, <2>2 DEF EnterWindow, LeaveWindow, Types
<1>5. CASE ProbeWrite \/ Restore
  <2>1. healthy' \in BOOLEAN
    BY <1>5, WritesKeepHealth DEF ProbeWrite, Restore
  <2>2. outcome' \in Outcomes /\ pc' \in Sequence /\ sent' \in BOOLEAN
    BY <1>5 DEF ProbeWrite, Restore, Fails, Types, Sequence, Window, Outcomes,
                MutatingStages
  <2> QED
    BY <1>5, <2>1, <2>2 DEF ProbeWrite, Restore, Types
<1>6. CASE Drain
  BY <1>6 DEF Drain, Types, Outcomes, Sequence
<1>7. CASE RecordOutcome
  <2>1. log' \in Seq(Lines) /\ logSynced' \in Nat
    BY <1>7, AppendKeepsTypes DEF RecordOutcome, Types, Lines
  <2> QED
    BY <1>7, <2>1 DEF RecordOutcome, Types
<1>8. CASE Press \/ Sample \/ Count \/ Quit
  <2>1. queued' \in Nat /\ presses' \in Nat /\ seen' \in Nat
    BY <1>8 DEF Press, Sample, Count, Quit, Types
  <2>2. early' \in BOOLEAN /\ latched' \in BOOLEAN /\ UNCHANGED critical
    BY <1>8, Zenon DEF Press, Sample, Count, Quit, Types
  <2>3. pc' \in {pc, "ended"} /\ UNCHANGED <<outcome, log, logSynced, healthy, sent>>
    BY <1>8 DEF Press, Sample, Count, Quit, UnchangedByHandler
  <2> QED
    BY <2>1, <2>2, <2>3 DEF Types
<1>9. CASE ActLate \/ Rival
  BY <1>9 DEF ActLate, Rival, Types
<1>10. CASE LosePower
  BY <1>10 DEF LosePower, Types
<1>11. CASE Open \/ Read \/ Finish \/ SaveArtifact
  <2>1. pc' \in Before \cup {"ended"}
    BY <1>11 DEF Open, Read, Finish, SaveArtifact, Before
  <2>2. healthy' \in BOOLEAN
    BY <1>11, ReadsKeepHealth DEF Open, Read, Finish, SaveArtifact, Types
  <2> QED
    BY <1>11, <2>1, <2>2
       DEF Open, Read, Finish, SaveArtifact, Types, UnchangedByDiscovery, UnchangedByRead
<1> QED
  BY <1>1, <1>2, <1>3, <1>4, <1>5, <1>6, <1>7, <1>8, <1>9, <1>10, <1>11
     DEF ToolNext, Next, MainStep

-----------------------------------------------------------------------------
(* The file of the command.                                                *)

\* No step of the output transaction, and no rival, breaks what is known of
\* the file.
LEMMA FileStepKept ==
  ASSUME FileKept, pc # "dark", NewOutput \/ RivalCreates
  PROVE  FileKept'
<1> USE DEF FileKept, contentVars, DropFile
<1>1. CASE CreateTemporary
  BY <1>1 DEF CreateTemporary
<1>2. CASE WriteAll
  BY <1>2 DEF WriteAll
<1>3. CASE SyncAll
  BY <1>3 DEF SyncAll
<1>4. CASE Persist
  BY <1>4 DEF Persist, Artifact
<1>5. CASE SyncDirectory
  BY <1>5 DEF SyncDirectory
<1>6. CASE RivalCreates
  BY <1>6 DEF RivalCreates
<1> QED
  BY <1>1, <1>2, <1>3, <1>4, <1>5, <1>6 DEF NewOutput

\* Every step keeps what is known of the file: only the two saves, a rival and
\* a loss of power touch it.
LEMMA FileNext == Inv /\ ToolNext => FileKept'
<1> SUFFICES ASSUME Inv, ToolNext PROVE FileKept'
  OBVIOUS
<1>1. CASE UNCHANGED fileVars /\ (pc = "dark" => pc' = "dark")
  BY <1>1 DEF Inv, FileKept, fileVars
<1>2. CASE pc # "dark" /\ (NewOutput \/ RivalCreates)
  BY <1>2, FileStepKept DEF Inv
<1>3. CASE pc' = "dark" /\ PowerLoss
  BY <1>3 DEF Inv, FileKept, PowerLoss, contentVars
<1>4. CASE Gates \/ RecordAttempt \/ ReadSnapshot \/ EnterWindow \/ ProbeWrite
           \/ ReadBack \/ ReadName
  BY <1>1, <1>4 DEF Gates, RecordAttempt, ReadSnapshot, EnterWindow, ProbeWrite, ReadBack,
                    ReadName, At, Alive
<1>5. CASE Restore \/ Verify \/ LeaveWindow \/ Drain \/ RecordOutcome
  BY <1>1, <1>5 DEF Restore, Verify, LeaveWindow, Drain, RecordOutcome, At, Alive
<1>6. CASE Press \/ Sample \/ Count \/ Quit
  BY <1>1, <1>6 DEF Press, Sample, Count, Quit, Alive, UnchangedByHandler
<1>7. CASE SaveBackup \/ SaveArtifact \/ Rival
  BY <1>2, <1>7 DEF SaveBackup, SaveArtifact, Rival, At, Alive
<1>8. CASE ActLate
  BY <1>1, <1>8 DEF ActLate
<1>9. CASE LosePower
  BY <1>3, <1>9 DEF LosePower
<1>10. CASE Open \/ Read \/ Finish
  BY <1>1, <1>10 DEF Open, Read, Finish, At, Alive
<1> QED
  BY <1>4, <1>5, <1>6, <1>7, <1>8, <1>9, <1>10 DEF ToolNext, Next, MainStep

-----------------------------------------------------------------------------
(* The log.                                                                *)

\* Away from the log, AttemptKept asks only that the stages come in order.
LEMMA AttemptFrame ==
  ASSUME AttemptKept, UNCHANGED <<log, logSynced, logBefore, file>>,
         pc' \in Before \cup {"snapshot"} => pc \in Before \cup {"snapshot"},
         pc' \in Before => pc \in Before, pc' \in Sequence => pc \in Sequence,
         pc' # "attempt",
         pc = "dark" => pc' = "dark",
         sent' => sent \/ pc \in Sequence, pc' \in Before \cup {"snapshot"} => sent' = sent
  PROVE  AttemptKept'
  BY DEF AttemptKept

\* Every step keeps the attempt on record.
LEMMA AttemptNext == Inv /\ ToolNext => AttemptKept'
<1> SUFFICES ASSUME Inv, ToolNext PROVE AttemptKept'
  OBVIOUS
<1> USE DEF At, Alive, Goto, Exit, runVars, latchVars, handlerVars, logVars, cameraVars,
            fileVars
<1>1. CASE Gates \/ SaveBackup
  <2>1. pc \in Before /\ pc' \in Before \cup {"ended"}
        /\ UNCHANGED <<log, logSynced, sent>> /\ (pc' = "attempt" => file' = "committed")
    BY <1>1 DEF Gates, SaveBackup, Before
  <2> QED
    BY <2>1 DEF Inv, AttemptKept, Before, Sequence, Window
<1>2. CASE RecordAttempt
  <2>1. log = <<>> /\ ~sent /\ UNCHANGED <<sent, file>>
    BY <1>2 DEF RecordAttempt, Inv, AttemptKept, Before
  <2>2. CASE AppendWell("attempted") /\ pc' = "snapshot"
    <3>1. log' = <<"attempted">> /\ logSynced' = 1
      BY <2>1, <2>2 DEF AppendWell
    <3>2. file = "committed"
      BY <1>2 DEF RecordAttempt, Inv, AttemptKept
    <3> QED
      BY <2>1, <2>2, <3>1, <3>2 DEF AttemptKept, Before
  <2>3. CASE pc' = "ended"
    BY <2>1, <2>3 DEF AttemptKept, Before, Sequence, Window
  <2> QED
    BY <1>2, <2>2, <2>3 DEF RecordAttempt
<1>3. CASE ReadSnapshot \/ ReadBack \/ ReadName \/ Verify
  <2>1. pc \in Sequence /\ pc' \in Sequence \ {"snapshot"}
    BY <1>3 DEF ReadSnapshot, ReadBack, ReadName, Verify, Fails, Sequence, Window
  <2>2. UNCHANGED <<log, logSynced, logBefore, file, sent>>
    BY <1>3 DEF ReadSnapshot, ReadBack, ReadName, Verify, UnchangedByRead
  <2> QED
    BY <2>1, <2>2, AttemptFrame DEF Inv, Before, Sequence, Window
<1>4. CASE EnterWindow \/ ProbeWrite \/ Restore \/ LeaveWindow \/ Drain
  <2>1. pc \in Sequence /\ pc' \in Sequence \ {"snapshot"}
    BY <1>4 DEF EnterWindow, ProbeWrite, Restore, LeaveWindow, Drain, Fails, Sequence,
                Window
  <2>2. UNCHANGED <<log, logSynced, logBefore, file>>
    BY <1>4 DEF EnterWindow, ProbeWrite, Restore, LeaveWindow, Drain
  <2> QED
    BY <2>1, <2>2, AttemptFrame DEF Inv, Before, Sequence, Window
<1>5. CASE RecordOutcome
  <2>1. log = <<"attempted">> /\ logSynced = 1 /\ file = "committed" /\ pc' = "ended"
        /\ UNCHANGED <<sent, file>>
    BY <1>5 DEF RecordOutcome, Inv, AttemptKept, Sequence
  <2>2. Len(log') > 0 /\ log'[1] = "attempted" /\ logSynced' > 0
    BY <1>5, <2>1 DEF RecordOutcome, AppendWell, AppendFails
  <2> QED
    BY <2>1, <2>2 DEF AttemptKept, Before, Sequence, Window
<1>6. CASE Press \/ Sample \/ Count \/ Quit
  <2>1. pc' \in {pc, "ended"} /\ pc # "dark"
        /\ UNCHANGED <<log, logSynced, logBefore, file, sent>>
    BY <1>6 DEF Press, Sample, Count, Quit, UnchangedByHandler
  <2> QED
    BY <2>1 DEF Inv, AttemptKept, Before, Sequence, Window
<1>7. CASE ActLate
  BY <1>7 DEF ActLate, Inv, AttemptKept
<1>8. CASE LosePower
  <2>1. pc # "dark" /\ pc' = "dark" /\ UNCHANGED <<sent, file, logBefore>>
    BY <1>8 DEF LosePower, PowerLoss
  <2>2. PICK kept \in (IF logBefore THEN logSynced ELSE 0) .. Len(log) :
           log' = SubSeq(log, 1, kept)
    BY <1>8 DEF LosePower
  <2>3. logSynced' = Len(log') /\ log \in Seq(Lines) /\ logSynced \in Nat
    BY <1>8 DEF LosePower, Inv, Types
  <2>4. ASSUME logBefore, Len(log) > 0, log[1] = "attempted", logSynced > 0
        PROVE  Len(log') > 0 /\ log'[1] = "attempted" /\ logSynced' > 0
    BY <2>2, <2>3, <2>4
  <2> QED
    BY <2>1, <2>4 DEF Inv, AttemptKept, Before, Sequence, Window
<1>9. CASE Rival
  BY <1>9 DEF Rival, RivalCreates, Inv, AttemptKept
<1>10. CASE Open \/ Read \/ Finish \/ SaveArtifact
  <2>1. pc \in Before /\ pc' \in {"read", "save", "ended"}
        /\ UNCHANGED <<log, logSynced, sent>>
    BY <1>10 DEF Open, Read, Finish, SaveArtifact, Before, UnchangedByDiscovery,
                 UnchangedByRead
  <2> QED
    BY <2>1 DEF Inv, AttemptKept, Before, Sequence, Window
<1> QED
  BY <1>1, <1>2, <1>3, <1>4, <1>5, <1>6, <1>7, <1>8, <1>9, <1>10
     DEF ToolNext, Next, MainStep

-----------------------------------------------------------------------------
(* The selector.                                                           *)

\* Until the outcome is on record, the log says nothing of a restore.
LEMMA NothingClaimed ==
  ASSUME AttemptKept, pc \in Before \cup Sequence
  PROVE  ~Recorded("restored") /\ ~Recorded("interrupted_after_restore")
<1>1. log = <<>> \/ log = <<"attempted">>
  BY DEF AttemptKept
<1> QED
  BY <1>1 DEF Recorded, ToSet

\* What a line appended to the log adds to what is recorded.
LEMMA RecordedAfterAppend ==
  ASSUME log \in Seq(Lines), NEW line \in Lines, AppendWell(line) \/ AppendFails(line)
  PROVE  ToSet(log') \subseteq ToSet(log) \cup {line, "torn"}
<1>1. "torn" \in Lines
  BY DEF Lines
<1>2. ASSUME NEW x \in Lines, log' = Append(log, x)
      PROVE  ToSet(log') \subseteq ToSet(log) \cup {x}
  BY <1>2 DEF ToSet
<1>3. CASE log' = log
  BY <1>3
<1> QED
  BY <1>1, <1>2, <1>3 DEF AppendWell, AppendFails

\* A line that was appended is recorded.
LEMMA AppendRecords ==
  ASSUME log \in Seq(Lines), NEW line \in Lines, log' = Append(log, line)
  PROVE  line \in ToSet(log')
<1>1. Len(log) + 1 \in DOMAIN log' /\ log'[Len(log) + 1] = line
  OBVIOUS
<1> QED
  BY <1>1 DEF ToSet

\* Away from the camera, SelectorKept asks only that the stages come in order.
LEMMA SelectorFrame ==
  ASSUME SelectorKept,
         UNCHANGED <<healthy, selector, pending, original, sent, snapshot, outcome, log>>,
         \/ pc' = pc \/ pc' = "ended"
         \/ pc \in Before /\ pc' \in Before
         \/ pc = "enter" /\ pc' = "entering"
         \/ pc = "entering" /\ pc' = "write"
         \/ pc = "leave" /\ pc' = "drain"
  PROVE  SelectorKept'
  BY DEF SelectorKept, Recorded, Undone, Before, Window

\* Every step keeps what the log and the outcome say of the selector.
LEMMA SelectorNext == Inv /\ ToolNext => SelectorKept'
<1> SUFFICES ASSUME Inv, ToolNext PROVE SelectorKept'
  OBVIOUS
<1> USE DEF Inv, At, Alive, Goto, Exit, runVars, latchVars, handlerVars, logVars,
            cameraVars
<1>1. CASE Gates \/ SaveBackup \/ EnterWindow \/ LeaveWindow
  <2>1. UNCHANGED <<healthy, selector, pending, original, sent, snapshot, outcome, log>>
    BY <1>1 DEF Gates, SaveBackup, EnterWindow, LeaveWindow
  <2>2. \/ pc' = "ended"
        \/ pc \in Before /\ pc' \in Before
        \/ pc = "enter" /\ pc' = "entering"
        \/ pc = "entering" /\ pc' = "write"
        \/ pc = "leave" /\ pc' = "drain"
    BY <1>1 DEF Gates, SaveBackup, EnterWindow, LeaveWindow, Before
  <2> QED
    BY <2>1, <2>2, SelectorFrame
<1>2. CASE RecordAttempt
  <2>1. pc \in Before /\ ~sent /\ pc' \in {"snapshot", "ended"}
        /\ UNCHANGED <<healthy, selector, pending, original, sent, outcome>>
    BY <1>2 DEF RecordAttempt, AttemptKept, Before
  <2> QED
    BY <2>1 DEF SelectorKept, Undone, Before, Window
<1>3. CASE ReadSnapshot
  <2>1. ~sent /\ Undone /\ UNCHANGED <<selector, pending, original, sent>>
    BY <1>3 DEF ReadSnapshot, AttemptKept, SelectorKept, UnchangedByRead
  <2>2. \/ pc' = "enter" /\ snapshot' = selector /\ outcome' = outcome
        \/ pc' = "terminal"
    BY <1>3 DEF ReadSnapshot, Fails
  <2>3. outcome = "restored"
    BY <1>3 DEF ReadSnapshot, SelectorKept
  <2> QED
    BY <2>1, <2>2, <2>3 DEF SelectorKept, Undone, Before, Window
<1>4. CASE ProbeWrite \/ Restore
  <2>1. healthy' => pending' = "nothing"
    BY <1>4, WritesKeepHealth DEF ProbeWrite, Restore
  <2>2. sent'
    BY <1>4 DEF ProbeWrite, Restore, SelectorKept
  <2>3. \/ pc' \in {"readback", "verify"} /\ outcome' = outcome
        \/ pc' = "leave" /\ outcome' \in MutatingStages
    BY <1>4 DEF ProbeWrite, Restore, Fails, MutatingStages
  <2>4. snapshot = original /\ outcome = "restored"
        /\ UNCHANGED <<snapshot, original, log>>
    BY <1>4 DEF ProbeWrite, Restore, SelectorKept, Window
  <2>5. ~Recorded("restored") /\ ~Recorded("interrupted_after_restore")
    BY <1>4, NothingClaimed DEF ProbeWrite, Restore, Sequence, Window
  <2> QED
    BY <2>1, <2>2, <2>3, <2>4, <2>5 DEF SelectorKept, Recorded, Before
<1>5. CASE ReadBack \/ ReadName \/ Verify
  <2>1. healthy' => pending' = "nothing"
    BY <1>5, ReadsKeepHealth
       DEF ReadBack, ReadName, Verify, SelectorKept, UnchangedByRead
  <2>2. snapshot = original /\ outcome = "restored" /\ sent
        /\ UNCHANGED <<snapshot, original, sent, selector, pending, log>>
    BY <1>5 DEF ReadBack, ReadName, Verify, SelectorKept, Window, UnchangedByRead
  <2>3. \/ pc' \in {"name", "restore"} /\ outcome' = outcome
        \/ pc' = "leave" /\ outcome' \in MutatingStages
        \/ pc' = "leave" /\ healthy /\ selector = snapshot
    BY <1>5 DEF ReadBack, ReadName, Verify, Fails, MutatingStages, ReadAnswered
  <2>4. ~Recorded("restored") /\ ~Recorded("interrupted_after_restore")
    BY <1>5, NothingClaimed DEF ReadBack, ReadName, Verify, Sequence, Window
  <2>5. healthy => pending = "nothing"
    BY DEF SelectorKept
  <2> QED
    BY <2>1, <2>2, <2>3, <2>4, <2>5 DEF SelectorKept, Undone, Recorded, Before
<1>6. CASE Drain
  BY <1>6 DEF Drain, SelectorKept, Undone, Before, Window, MutatingStages, Recorded
<1>7. CASE RecordOutcome
  <2>1. pc = "terminal" /\ pc' = "ended"
        /\ UNCHANGED <<healthy, selector, pending, original, sent, outcome>>
    BY <1>7 DEF RecordOutcome
  <2>2. log \in Seq(Lines) /\ outcome \in Lines
    BY DEF Types, Lines
  <2>3. ToSet(log') \subseteq ToSet(log) \cup {outcome, "torn"}
    BY <1>7, <2>2, RecordedAfterAppend DEF RecordOutcome
  <2>4. Recorded("restored")' \/ Recorded("interrupted_after_restore")' =>
           outcome \notin MutatingStages
    BY <2>1, <2>3, NothingClaimed DEF Recorded, Sequence, MutatingStages
  <2>5. Recorded("restored")' \/ Recorded("interrupted_after_restore")' => Undone'
    BY <2>1, <2>4 DEF SelectorKept, Undone
  <2> QED
    BY <2>1, <2>5 DEF SelectorKept, Undone, Before, Window
<1>8. CASE Press \/ Sample \/ Count \/ Quit \/ Rival
  <2>1. UNCHANGED <<healthy, selector, pending, original, sent, snapshot, outcome, log>>
    BY <1>8 DEF Press, Sample, Count, Quit, Rival, UnchangedByHandler
  <2>2. pc' \in {pc, "ended"}
    BY <1>8 DEF Press, Sample, Count, Quit, Rival
  <2> QED
    BY <2>1, <2>2, SelectorFrame
<1>9. CASE ActLate
  BY <1>9 DEF ActLate, SelectorKept, Undone, Recorded
<1>10. CASE LosePower
  <2>1. pc' = "dark" /\ UNCHANGED <<healthy, selector, pending, original, sent>>
    BY <1>10 DEF LosePower
  <2>2. ToSet(log') \subseteq ToSet(log)
    BY <1>10 DEF LosePower, ToSet, Types
  <2> QED
    BY <2>1, <2>2 DEF SelectorKept, Undone, Recorded, Before, Window
<1>11. CASE Open \/ Read \/ Finish \/ SaveArtifact
  <2>1. healthy' => pending' = "nothing"
    BY <1>11, ReadsKeepHealth DEF Open, Read, Finish, SaveArtifact, SelectorKept, UnchangedByRead
  <2>2. pc \in Before /\ pc' \in Before \cup {"ended"}
        /\ UNCHANGED <<selector, pending, original, sent, outcome, log>>
    BY <1>11 DEF Open, Read, Finish, SaveArtifact, UnchangedByDiscovery, UnchangedByRead, Before
  <2> QED
    BY <2>1, <2>2 DEF SelectorKept, Undone, Recorded, Before, Window
<1> QED
  BY <1>1, <1>2, <1>3, <1>4, <1>5, <1>6, <1>7, <1>8, <1>9, <1>10, <1>11
     DEF ToolNext, Next, MainStep

-----------------------------------------------------------------------------
(* The interrupt latch.                                                    *)

\* Every step keeps what the handler and the latch know of each other.
LEMMA LatchNext == Inv /\ ToolNext => LatchKept'
<1> SUFFICES ASSUME Inv, ToolNext PROVE LatchKept'
  OBVIOUS
<1> USE DEF Inv, At, Alive, Goto, Exit, runVars, latchVars, handlerVars, logVars,
            cameraVars
<1>1. CASE \/ Gates \/ SaveBackup \/ RecordAttempt \/ ReadSnapshot
           \/ Open \/ Read \/ Finish \/ SaveArtifact
  <2>1. pc \in Before \cup {"snapshot"}
    BY <1>1 DEF Gates, SaveBackup, RecordAttempt, ReadSnapshot, Open, Read, Finish,
                SaveArtifact, Before
  <2>2. UNCHANGED <<latchVars, handlerVars>>
    BY <1>1 DEF Gates, SaveBackup, RecordAttempt, ReadSnapshot, Open, Read, Finish,
                SaveArtifact, UnchangedByDiscovery
  <2> QED
    BY <2>1, <2>2 DEF LatchKept, Before, Window
<1>2. CASE EnterWindow
  BY <1>2 DEF EnterWindow, LatchKept, Types, Window
<1>3. CASE ProbeWrite \/ ReadBack \/ ReadName \/ Restore \/ Verify
  <2>1. pc \in Window /\ pc' \in Window
    BY <1>3 DEF ProbeWrite, ReadBack, ReadName, Restore, Verify, Fails, Window
  <2>2. UNCHANGED <<latchVars, handlerVars>>
    BY <1>3 DEF ProbeWrite, ReadBack, ReadName, Restore, Verify
  <2> QED
    BY <2>1, <2>2 DEF LatchKept, Window
<1>4. CASE LeaveWindow
  BY <1>4 DEF LeaveWindow, LatchKept, Window
<1>5. CASE Drain
  <2>1. pc = "drain" /\ pc' = "terminal" /\ seen' = 0
        /\ UNCHANGED <<critical, handlerVars>>
    BY <1>5 DEF Drain
  <2>2. latched => outcome' # "restored"
    BY <1>5 DEF Drain, LatchKept
  <2> QED
    BY <2>1, <2>2 DEF LatchKept, Types, Window
<1>6. CASE RecordOutcome
  BY <1>6 DEF RecordOutcome, LatchKept, Window
<1>7. CASE Press
  <2>1. presses' = presses + 1 /\ queued' = queued + 1
        /\ UNCHANGED <<pc, latchVars, handler, early, latched, outcome>>
    BY <1>7 DEF Press, UnchangedByHandler
  <2>2. seen + queued' + (IF handler = "count" THEN 1 ELSE 0) <= presses'
    BY <2>1 DEF LatchKept, Types
  <2>3. handler = "force" => presses' > 1
    BY <2>1 DEF LatchKept, Types
  <2> QED
    BY <2>1, <2>2, <2>3 DEF LatchKept
<1>8. CASE Sample
  <2>1. handler = "idle" /\ queued' = queued - 1 /\ handler' \in {"count", "quit"}
        /\ UNCHANGED <<pc, critical, seen, presses, latched, outcome>>
    BY <1>8 DEF Sample, UnchangedByHandler
  <2>2. handler' = "quit" => early'
    BY <1>8 DEF Sample
  <2>3. seen + queued' + (IF handler' = "count" THEN 1 ELSE 0) <= presses
    BY <2>1 DEF LatchKept, Types
  <2> QED
    BY <2>1, <2>2, <2>3 DEF LatchKept
<1>9. CASE Count
  <2>1. handler = "count" /\ seen' = seen + 1 /\ handler' \in {"idle", "force"}
        /\ UNCHANGED <<pc, critical, queued, presses, early, outcome>>
    BY <1>9 DEF Count, UnchangedByHandler
  <2>2. handler' = "force" => presses > 1
    BY <1>9 DEF Count, LatchKept, Types
  <2>3. seen' + queued + (IF handler' = "count" THEN 1 ELSE 0) <= presses
    BY <2>1 DEF LatchKept, Types
  <2>4. seen' > 0
    BY <2>1 DEF Types
  <2>5. latched' => latched \/ critical \/ pc = "drain"
    BY <1>9 DEF Count
  <2> QED
    BY <2>1, <2>2, <2>3, <2>4, <2>5 DEF LatchKept, Window
<1>10. CASE Quit
  BY <1>10 DEF Quit, LatchKept, Window
<1>11. CASE ActLate \/ Rival
  BY <1>11 DEF ActLate, Rival, LatchKept
<1>12. CASE LosePower
  BY <1>12 DEF LosePower, LatchKept, Window
<1> QED
  BY <1>1, <1>2, <1>3, <1>4, <1>5, <1>6, <1>7, <1>8, <1>9, <1>10, <1>11, <1>12
     DEF ToolNext, Next, MainStep

-----------------------------------------------------------------------------
(* The end of the command.                                                 *)

\* Every step keeps the account of how the command ends.
LEMMA EndNext == Inv /\ ToolNext => EndKept'
<1> SUFFICES ASSUME Inv, ToolNext PROVE EndKept'
  OBVIOUS
<1> USE DEF Inv, At, Alive, Goto, Exit, runVars, latchVars, handlerVars, logVars,
            cameraVars
<1>1. CASE exit' = Running
  BY <1>1, EndWhileRunning
<1>2. ASSUME pc \in Before, UNCHANGED <<selector, pending, original, latched>>,
             exit' \in {0, 1}
      PROVE  EndKept'
  <2>1. Undone /\ ~latched
    BY <1>2 DEF AttemptKept, SelectorKept, LatchKept, Before, Window
  <2> QED
    BY <1>2, <2>1 DEF EndKept, Undone, Changed, Running
<1>3. CASE Gates \/ SaveBackup \/ RecordAttempt
  BY <1>1, <1>2, <1>3 DEF Gates, SaveBackup, RecordAttempt, Before
<1>4. CASE Open \/ Read \/ Finish \/ SaveArtifact
  <2>1. pc \in Before /\ UNCHANGED <<selector, pending, original, latched>>
    BY <1>4 DEF Open, Read, Finish, SaveArtifact, Before, UnchangedByDiscovery,
                UnchangedByRead
  <2>2. exit' \in {0, 1, Running}
    BY <1>4 DEF Open, Read, Finish, SaveArtifact
  <2> QED
    BY <1>1, <1>2, <2>1, <2>2
<1>5. CASE \/ ReadSnapshot \/ EnterWindow \/ ProbeWrite \/ ReadBack \/ ReadName
           \/ Restore \/ Verify \/ LeaveWindow
  BY <1>1, <1>5 DEF ReadSnapshot, EnterWindow, ProbeWrite, ReadBack, ReadName, Restore,
                    Verify, LeaveWindow, Fails
<1>6. CASE Drain \/ Press \/ Sample \/ Count \/ Rival
  BY <1>1, <1>6 DEF Drain, Press, Sample, Count, Rival
<1>7. CASE RecordOutcome
  <2>1. pc = "terminal" /\ exit' \in {0, 1}
        /\ UNCHANGED <<selector, pending, original, latched, outcome>>
    BY <1>7 DEF RecordOutcome
  <2>2. outcome \notin MutatingStages => Undone
    BY <2>1 DEF SelectorKept
  <2>3. exit' = 0 => Undone /\ ~latched
    BY <1>7, <2>2 DEF RecordOutcome, LatchKept, MutatingStages
  <2>4. log = <<"attempted">> /\ logSynced = 1
    BY <2>1 DEF AttemptKept, Sequence
  <2>5. outcome \in MutatingStages =>
           MutatingStages \cap ToSet(log') # {} \/ logSynced' < 2
    <3>1. CASE AppendWell(outcome)
      <4>1. log \in Seq(Lines) /\ outcome \in Lines
        BY DEF Types, Lines
      <4>2. outcome \in ToSet(log')
        BY <3>1, <4>1, AppendRecords DEF AppendWell
      <4> QED
        BY <4>2
    <3>2. CASE AppendFails(outcome)
      BY <2>4, <3>2 DEF AppendFails
    <3> QED
      BY <1>7, <3>1, <3>2 DEF RecordOutcome
  <2> QED
    BY <2>1, <2>2, <2>3, <2>5 DEF EndKept, Undone, Changed, Running
<1>8. CASE Quit
  <2>1. \/ handler = "force" /\ exit' = 3
        \/ handler = "quit" /\ exit' = 130
    BY <1>8 DEF Quit
  <2>2. UNCHANGED <<presses, early>>
    BY <1>8 DEF Quit
  <2> QED
    BY <2>1, <2>2 DEF EndKept, LatchKept
<1>9. CASE ActLate
  <2>1. Changed' => Changed
    BY <1>9 DEF ActLate, Changed
  <2>2. exit # 0
    BY <1>9 DEF ActLate, EndKept, Undone
  <2> QED
    BY <1>9, <2>1, <2>2 DEF ActLate, EndKept
<1>10. CASE LosePower
  BY <1>10 DEF LosePower, EndKept, Undone
<1> QED
  BY <1>3, <1>4, <1>5, <1>6, <1>7, <1>8, <1>9, <1>10 DEF ToolNext, Next, MainStep

-----------------------------------------------------------------------------
(* The invariant and the properties.                                       *)

\* Init: nothing has been done, and no file has been begun.
LEMMA InvInit == ToolInit => Inv
<1> SUFFICES ASSUME ToolInit PROVE Inv
  OBVIOUS
<1>1. pc \in Before
  BY DEF ToolInit, InitAt, Plan, Before
<1>2. /\ outcome = "restored" /\ snapshot = "nothing"
      /\ critical = FALSE /\ seen = 0 /\ handler = "idle" /\ queued = 0 /\ presses = 0
      /\ early = FALSE /\ latched = FALSE /\ log = <<>> /\ logSynced = 0
      /\ healthy = TRUE /\ pending = "nothing" /\ exit = Running
      /\ original = selector /\ sent = FALSE
  BY DEF ToolInit, InitAt
<1>3. Types
  <2>1. log \in Seq(Lines) /\ outcome \in Outcomes
    BY <1>2 DEF Outcomes
  <2>2. {critical, latched, early, healthy, sent} \subseteq BOOLEAN
    BY <1>2, Zenon
  <2>3. {logSynced, seen, queued, presses} \subseteq Nat
    BY <1>2
  <2> QED
    BY <1>1, <2>1, <2>2, <2>3 DEF Types
<1>4. FileKept
  BY DEF ToolInit, InitAt, FileInit, FileKept
<1>5. AttemptKept
  <2>1. pc # "attempt"
    BY DEF ToolInit, InitAt
  <2> QED
    BY <1>1, <1>2, <2>1 DEF AttemptKept, Before, Sequence, Window
<1>6. SelectorKept
  BY <1>1, <1>2 DEF SelectorKept, Undone, Before, Window
<1>7. LatchKept
  BY <1>1, <1>2 DEF LatchKept, Before, Window
<1>8. EndKept
  BY <1>2 DEF EndKept, Running
<1> QED
  BY <1>3, <1>4, <1>5, <1>6, <1>7, <1>8 DEF Inv

\* A step that changes nothing keeps the invariant.
LEMMA InvStutter == Inv /\ UNCHANGED toolVars => Inv'
<1> SUFFICES ASSUME Inv, UNCHANGED toolVars PROVE Inv'
  OBVIOUS
<1>1. UNCHANGED <<pc, runVars, latchVars, handlerVars, logVars, cameraVars, exit, fileVars>>
  BY DEF toolVars, vars
<1> USE DEF runVars, latchVars, handlerVars, logVars, cameraVars, fileVars
<1>2. Types' /\ FileKept'
  BY <1>1 DEF Inv, Types, FileKept
<1>3. AttemptKept' /\ LatchKept'
  BY <1>1 DEF Inv, AttemptKept, LatchKept
<1>4. SelectorKept' /\ EndKept'
  BY <1>1 DEF Inv, SelectorKept, EndKept, Undone, Changed, Recorded
<1> QED
  BY <1>2, <1>3, <1>4 DEF Inv

\* The invariant holds throughout.
THEOREM Invariance == ToolSpec => []Inv
<1>1. Inv /\ ToolNext => Inv'
  BY TypesNext, FileNext, AttemptNext, SelectorNext, LatchNext, EndNext DEF Inv
<1>2. Inv /\ [ToolNext]_toolVars => Inv'
  BY <1>1, InvStutter
<1> QED
  BY <1>2, InvInit, PTL DEF ToolSpec

\* The selector is only written when the backup has its name and the attempt
\* is in the synced log, whatever fails and whoever interrupts (probe's
\* audit-before-write order).
THEOREM WriteOnRecord == ToolSpec => []WriteIsOnRecord
<1>1. Inv => WriteIsOnRecord
  <2> SUFFICES ASSUME Inv, sent PROVE WriteIsOnRecord
    BY DEF WriteIsOnRecord
  <2>1. path = "whole"
    BY DEF Inv, AttemptKept, FileKept
  <2>2. Len(log) > 0 /\ log[1] = "attempted" => Recorded("attempted")
    BY DEF Inv, Types, Recorded, ToSet
  <2> QED
    BY <2>1, <2>2 DEF Inv, AttemptKept, WriteIsOnRecord
<1> QED
  BY <1>1, Invariance, PTL

\* A log that tells of a restored selector is right, for ever (run_write_sequence,
\* append_terminal_record).
THEOREM RecordTrue == ToolSpec => []RecordIsTrue
<1>1. Inv => RecordIsTrue
  BY DEF Inv, SelectorKept, Undone, RecordIsTrue, Changed
<1> QED
  BY <1>1, Invariance, PTL

\* A command that leaves another selector behind says so with its status and
\* in its log, and an interrupt in the window is not lost.
THEOREM ChangeReported == ToolSpec => []ChangeIsReported
<1>1. Inv => ChangeIsReported
  BY DEF Inv, EndKept, Undone, ChangeIsReported, Changed, Running
<1> QED
  BY <1>1, Invariance, PTL

\* No name ever stands for a part of an artifact: a file is renamed only when
\* all its bytes are on stable storage (OutputTransaction).
NoTornFile == path # "torn" /\ "torn" \notin onDisk

\* NoTornFile holds throughout, also after a loss of power.
THEOREM FileNeverTorn == ToolSpec => []NoTornFile
<1>1. Inv => NoTornFile
  BY DEF Inv, FileKept, NoTornFile
<1> QED
  BY <1>1, Invariance, PTL

-----------------------------------------------------------------------------
(* Reading numbers and text.                                               *)

Bytes == Seq(0 .. Base - 1)

\* What a byte is.
LEMMA ByteIsNumber ==
  ASSUME NEW b \in Bytes, NEW i \in 1 .. Len(b)
  PROVE  b[i] \in Nat
<1>1. Len(b) \in Nat /\ b[i] \in 0 .. Base - 1
  BY DiscoveryAssumption, SMTT(40) DEF Bytes
<1> QED
  BY <1>1, DiscoveryAssumption

\* Reading a number: its bytes, the lowest first (read_u8, read_u16).
LEMMA OneByte ==
  ASSUME NEW b \in Bytes, NEW at \in Nat, at < Len(b)
  PROVE  Codec!Unsigned(b, at, 1) = b[at + 1]
<1> DEFINE IsSum(f) == f = [i \in 0..1 |->
                 IF i = 0 THEN 0 ELSE b[at + 1 + 1 - i] + Base * f[i - 1]]
           sum == CHOOSE f : IsSum(f)
           known == [i \in 0..1 |-> IF i = 0 THEN 0 ELSE b[at + 1]]
<1>1. Base \in Nat /\ b[at + 1] \in 0 .. Base - 1
  BY DiscoveryAssumption, SMTT(40) DEF Bytes
<1>2. Codec!Unsigned(b, at, 1) = sum[1]
  BY DEF Codec!Unsigned
<1>3. IsSum(known)
  <2>1. known[0] = 0 /\ known[1] = b[at + 1]
    OBVIOUS
  <2>2. \A i \in 0..1 : known[i] = IF i = 0 THEN 0 ELSE b[at + 1 + 1 - i] + Base * known[i - 1]
    BY <1>1, <2>1
  <2> QED
    BY <2>2
<1>4. IsSum(sum)
  BY <1>3
<1> HIDE DEF sum
<1>5. /\ sum[0] = 0
      /\ sum[1] = b[at + 1] + Base * sum[0]
  BY <1>4
<1> QED
  BY <1>1, <1>2, <1>5

LEMMA TwoBytes ==
  ASSUME NEW b \in Bytes, NEW at \in Nat, at + 2 <= Len(b)
  PROVE  Codec!Unsigned(b, at, 2) = b[at + 1] + Base * b[at + 2]
<1> DEFINE IsSum(f) == f = [i \in 0..2 |->
                 IF i = 0 THEN 0 ELSE b[at + 2 + 1 - i] + Base * f[i - 1]]
           sum == CHOOSE f : IsSum(f)
           known == [i \in 0..2 |-> IF i = 0 THEN 0 ELSE IF i = 1 THEN b[at + 2]
                                    ELSE b[at + 1] + Base * b[at + 2]]
<1>1. Base \in Nat /\ b[at + 1] \in Nat /\ b[at + 2] \in Nat
  <2>1. at + 1 \in 1 .. Len(b) /\ at + 2 \in 1 .. Len(b)
    BY DEF Bytes
  <2> QED
    BY <2>1, ByteIsNumber, DiscoveryAssumption
<1>2. Codec!Unsigned(b, at, 2) = sum[2]
  BY DEF Codec!Unsigned
<1>3. IsSum(known)
  <2>1. known[0] = 0 /\ known[1] = b[at + 2] /\ known[2] = b[at + 1] + Base * b[at + 2]
    OBVIOUS
  <2>2. \A i \in 0..2 : known[i] = IF i = 0 THEN 0 ELSE b[at + 2 + 1 - i] + Base * known[i - 1]
    BY <1>1, <2>1
  <2> QED
    BY <2>2
<1>4. IsSum(sum)
  BY <1>3
<1> HIDE DEF sum
<1>5. /\ sum[0] = 0
      /\ sum[1] = b[at + 2] + Base * sum[0]
      /\ sum[2] = b[at + 1] + Base * sum[1]
  BY <1>4
<1> QED
  BY <1>1, <1>2, <1>5

\* A byte that is there is read, one that is not fails.
LEMMA ReadByte ==
  ASSUME NEW b \in Bytes, NEW at \in Nat
  PROVE  /\ at < Len(b) =>
               Codec!ReadScalar(b, at, Codec!Byte) = Codec!Got(b[at + 1], at + 1)
         /\ at >= Len(b) => Codec!ReadScalar(b, at, Codec!Byte) = Codec!Fails(b)
<1>1. Len(b) \in Nat
  BY DEF Bytes
<1> QED
  BY <1>1, OneByte DEF Codec!ReadScalar, Codec!Byte, Codec!Scalar, Codec!Left

\* A word is zero exactly when its bytes are.
LEMMA ZeroWord ==
  ASSUME NEW b \in Bytes, NEW at \in Nat, at + 2 <= Len(b)
  PROVE  Codec!ReadScalar(b, at, Codec!Word).value = 0 <=> b[at + 1] = 0 /\ b[at + 2] = 0
<1>1. Len(b) \in Nat
  BY DEF Bytes
<1>2. Codec!ReadScalar(b, at, Codec!Word).value = b[at + 1] + Base * b[at + 2]
  BY <1>1, TwoBytes DEF Codec!ReadScalar, Codec!Word, Codec!Scalar, Codec!Left, Codec!Got
<1>3. Base \in Nat \ {0, 1} /\ b[at + 1] \in Nat /\ b[at + 2] \in Nat
  <2>1. at + 1 \in 1 .. Len(b) /\ at + 2 \in 1 .. Len(b)
    BY <1>1
  <2> QED
    BY <2>1, ByteIsNumber, DiscoveryAssumption
<1> HIDE DEF Bytes
<1>4. ASSUME NEW x \in Nat, NEW y \in Nat PROVE x + Base * y = 0 <=> x = 0 /\ y = 0
  <2>1. y # 0 => Base * y > 0
    BY <1>3, SMT
  <2>2. Base * 0 = 0 /\ Base * y \in Nat
    BY <1>3
  <2> QED
    BY <2>1, <2>2
<1> QED
  BY <1>2, <1>3, <1>4

\* The units of a text that is there in full are numbers.
LEMMA UnitsAreNumbers ==
  ASSUME NEW b \in Bytes, Len(b) >= 3, Len(b) = 1 + 2 * b[1]
  PROVE  Units(b) \in Seq(Nat)
<1>1. Len(b) \in Nat /\ b[1] - 1 \in Nat /\ b[1] \in Nat
  <2>1. Len(b) \in Nat
    BY DEF Bytes
  <2>2. b[1] \in Nat
    BY <2>1, ByteIsNumber
  <2> QED
    BY <2>1, <2>2, SMTT(40)
<1>2. ASSUME NEW i \in 1 .. b[1] - 1
      PROVE  Codec!ReadScalar(b, 1 + (i - 1) * 2, Codec!Word).value \in Nat
  <2> DEFINE at == 1 + (i - 1) * 2
  <2>1. at \in Nat /\ at + 2 <= Len(b)
    <3>1. b[1] \in Nat /\ 1 + (i - 1) * 2 + 2 = 1 + 2 * i
      BY <1>1
    <3>2. i <= b[1] - 1
      BY <1>1
    <3> QED
      BY <1>1, <3>1, <3>2, SMTT(40)
  <2> HIDE DEF at
  <2>2. Codec!ReadScalar(b, at, Codec!Word).value = b[at + 1] + Base * b[at + 2]
    BY <1>1, <2>1, TwoBytes, SMTT(40)
       DEF Codec!ReadScalar, Codec!Word, Codec!Scalar, Codec!Left, Codec!Got
  <2>3. at + 1 \in 1 .. Len(b) /\ at + 2 \in 1 .. Len(b)
    BY <1>1, <2>1
  <2>4. Base \in Nat /\ b[at + 1] \in Nat /\ b[at + 2] \in Nat
    BY <2>3, DiscoveryAssumption, ByteIsNumber
  <2>5. b[at + 1] + Base * b[at + 2] \in Nat
    <3>1. ASSUME NEW x \in Nat, NEW y \in Nat PROVE x + Base * y \in Nat
      BY <2>4
    <3> QED
      BY <2>4, <3>1
  <2> QED
    BY <2>2, <2>5 DEF at
<1>3. Units(b) = [i \in 1 .. b[1] - 1 |->
                      Codec!ReadScalar(b, 1 + (i - 1) * 2, Codec!Word).value]
  BY DEF Units, Codec!Elements, Codec!Word, Codec!Scalar
<1>4. Units(b) \in [1 .. b[1] - 1 -> Nat]
  BY <1>2, <1>3
<1>5. ASSUME NEW n \in Nat, NEW f \in [1 .. n -> Nat]
      PROVE  f \in Seq(Nat)
  OBVIOUS
<1> QED
  BY <1>1, <1>4, <1>5

\* A text that is there in full is read, unless its units are no UTF-16.
LEMMA TextIsRead ==
  ASSUME NEW b \in Bytes, Framed(b), ToSet(Units(b)) \cap LoneSurrogates = {}
  PROVE  Codec!Exact(b, Codec!ReadString(b, 0)) # Malformed
<1>1. Len(b) \in Nat /\ Len(b) >= 3 /\ Len(b) = 1 + 2 * b[1]
      /\ b[Len(b) - 1] = 0 /\ b[Len(b)] = 0
  BY DEF Bytes, Framed
<1>2. b[1] \in Nat \ {0}
  <2>1. b[1] \in Nat
    BY <1>1, ByteIsNumber
  <2> QED
    BY <1>1, <2>1
<1>3. Codec!ReadScalar(b, 0, Codec!Byte) = Codec!Got(b[1], 1)
  BY <1>1, ReadByte
<1>4. Codec!ReadScalar(b, Len(b) - 2, Codec!Word).value = 0
  <2>1. Len(b) - 2 \in Nat /\ Len(b) - 2 + 2 <= Len(b)
        /\ Len(b) - 2 + 1 = Len(b) - 1 /\ Len(b) - 2 + 2 = Len(b)
    BY <1>1
  <2> QED
    BY <1>1, <2>1, ZeroWord
<1>5. Codec!ReadString(b, 0) = Codec!Got(Units(b), Len(b))
  <2>1. Codec!ReadString(b, 0) = Codec!TerminatedUnits(b, [value |-> b[1], at |-> 1])
    BY <1>3 DEF Codec!ReadString, Codec!Got
  <2>2. 1 + 2 * b[1] = Len(b) /\ b[1] # 0
    BY <1>1, <1>2
  <2> QED
    BY <1>1, <1>4, <2>1, <2>2 DEF Codec!TerminatedUnits, Units, ToSet, Codec!ToSet
<1>6. Codec!Exact(b, Codec!ReadString(b, 0)) = Units(b)
  BY <1>5 DEF Codec!Exact, Codec!Got
<1> QED
  BY <1>1, <1>6, UnitsAreNumbers, DiscoveryAssumption

\* Nothing else is read as a text but the single zero.
LEMMA ReadIsText ==
  ASSUME NEW b \in Bytes, Codec!Exact(b, Codec!ReadString(b, 0)) # Malformed
  PROVE  b = <<0>> \/ Framed(b)
<1>1. Len(b) \in Nat /\ Codec!ReadString(b, 0).at = Len(b)
  BY DEF Codec!Exact, Bytes
<1>2. Codec!Fails(b).at # Len(b)
  BY <1>1 DEF Codec!Fails, Codec!Got
<1>3. Len(b) > 0
  <2> SUFFICES ASSUME Len(b) = 0 PROVE FALSE
    BY <1>1
  <2>1. Codec!ReadScalar(b, 0, Codec!Byte) = [value |-> 0, at |-> 1]
    BY ReadByte DEF Codec!Fails, Codec!Got
  <2>2. Codec!ReadString(b, 0) = Codec!Fails(b)
    BY <2>1 DEF Codec!ReadString, Codec!TerminatedUnits
  <2> QED
    BY <1>1, <1>2, <2>2
<1>4. b[1] \in Nat
  BY <1>1, <1>3, ByteIsNumber
<1>5. Codec!ReadString(b, 0) = Codec!TerminatedUnits(b, [value |-> b[1], at |-> 1])
  BY <1>1, <1>3, ReadByte DEF Codec!ReadString, Codec!Got
<1>6. CASE b[1] = 0
  <2>1. Codec!ReadString(b, 0).at = 1
    BY <1>1, <1>3, <1>5, <1>6 DEF Codec!TerminatedUnits, Codec!Got
  <2> QED
    <3>1. b \in Seq(0 .. Base - 1) /\ Len(b) = 1 /\ b[1] = 0
      BY <1>1, <1>6, <2>1 DEF Bytes
    <3> QED
      BY <3>1
<1>7. CASE b[1] # 0
  <2>1. /\ 1 + 2 * b[1] <= Len(b)
        /\ Codec!ReadScalar(b, 1 + 2 * b[1] - 2, Codec!Word).value = 0
        /\ Codec!ReadString(b, 0).at = 1 + 2 * b[1]
    <3> DEFINE Units2(length) ==
                 Codec!Elements(b, length.at, Codec!Word, length.value - 1)
               End(length) == length.at + 2 * length.value
    <3>1. PICK length : length.value = b[1] /\ length.at = 1
                        /\ Codec!ReadString(b, 0) = Codec!TerminatedUnits(b, length)
      <4>1. /\ [value |-> b[1], at |-> 1].value = b[1]
            /\ [value |-> b[1], at |-> 1].at = 1
        OBVIOUS
      <4> QED
        BY <1>5, <4>1, Zenon
    <3>4. Codec!TerminatedUnits(b, length) =
             IF /\ End(length) <= Len(b)
                /\ Codec!ReadScalar(b, End(length) - 2, Codec!Word).value = 0
                /\ Codec!ToSet(Units2(length)) \cap LoneSurrogates = {}
             THEN Codec!Got(Units2(length), End(length)) ELSE Codec!Fails(b)
      BY <1>7, <3>1 DEF Codec!TerminatedUnits
    <3> HIDE DEF Units2, End
    <3>2. Codec!ReadString(b, 0) # Codec!Fails(b)
      BY <1>1, <1>2
    <3>3. Codec!Got(Units2(length), End(length)).at = End(length)
      BY DEF Codec!Got
    <3>5. /\ End(length) <= Len(b)
          /\ Codec!ReadScalar(b, End(length) - 2, Codec!Word).value = 0
          /\ Codec!ReadString(b, 0).at = End(length)
      BY <3>1, <3>2, <3>3, <3>4
    <3>6. End(length) = 1 + 2 * b[1]
      BY <3>1 DEF End
    <3>7. End(length) - 2 = 1 + 2 * b[1] - 2
      BY <1>4, <3>6
    <3> QED
      BY <3>5, <3>6, <3>7, Zenon
  <2>2. Len(b) = 1 + 2 * b[1] /\ Len(b) >= 3
    BY <1>1, <1>4, <1>7, <2>1
  <2>3. Len(b) - 2 \in Nat /\ Len(b) - 2 + 2 <= Len(b)
        /\ Len(b) - 2 + 1 = Len(b) - 1 /\ Len(b) - 2 + 2 = Len(b)
    BY <1>1, <2>2
  <2>4. b[Len(b) - 1] = 0 /\ b[Len(b)] = 0
    <3>1. 1 + 2 * b[1] - 2 = Len(b) - 2
      BY <1>1, <1>4, <2>2
    <3>2. Codec!ReadScalar(b, Len(b) - 2, Codec!Word).value = 0
      BY <2>1, <3>1
    <3>3. b[Len(b) - 2 + 1] = 0 /\ b[Len(b) - 2 + 2] = 0
      BY <2>3, <3>2, ZeroWord
    <3> QED
      BY <2>3, <3>3
  <2> QED
    BY <2>2, <2>4 DEF Framed
<1> QED
  BY <1>6, <1>7

\* A capture that has the layout is reported with its count and code.
LEMMA EnvelopeReported ==
  ASSUME NEW b \in Bytes, NEW layout, Codec!IsEnvelopeOf(b, layout)
  PROVE  FieldCount(b) = layout.count /\ ProfileCode(b) = layout.code
<1>1. PICK count, code :
        /\ count = Codec!ReadScalar(b, 0, Codec!Scalar(TRUE, 2))
        /\ code = Codec!ReadExactString(b, count.at)
        /\ Codec!HeadFits(b, count.value, code, layout)
  BY DEF Codec!IsEnvelopeOf, Codec!CountFits
<1>0. Len(b) \in Nat
  BY DEF Bytes
<1>2. code.at <= Len(b) /\ count.value = layout.count /\ code.value = layout.code
  BY <1>1 DEF Codec!HeadFits
<1>3. Codec!Fails(b).value = 0 /\ Codec!Fails(b).at = Len(b) + 1
  BY DEF Codec!Fails, Codec!Got
<1>4. ASSUME NEW at \in Nat, at >= Len(b) PROVE ~ Codec!ReadExactString(b, at).at <= Len(b)
  <2>1. Codec!ReadScalar(b, at, Codec!Byte) = Codec!Fails(b)
    BY <1>4, ReadByte
  <2>2. Codec!ReadExactString(b, at) = Codec!Fails(b)
    BY <1>0, <1>1, <1>3, <2>1 DEF Codec!ReadExactString, Codec!ExactUnits
  <2> QED
    BY <1>0, <1>1, <1>3, <2>2
<1>5. CASE Len(b) < 2
  <2>1. count.at = Len(b) + 1
    BY <1>0, <1>1, <1>3, <1>5 DEF Codec!ReadScalar, Codec!Scalar, Codec!Left
  <2>2. FALSE
    <3>1. count.at \in Nat /\ count.at >= Len(b)
      BY <1>0, <2>1
    <3>2. ~ code.at <= Len(b)
      BY <1>1, <1>4, <3>1
    <3> QED
      BY <1>2, <3>2
  <2> QED
    BY <2>2
<1>6. CASE Len(b) >= 2
  <2>1. /\ count.at = 2
        /\ count.value = Codec!TwosComplement(Codec!Unsigned(b, 0, 2), 2)
    BY <1>0, <1>1, <1>6 DEF Codec!ReadScalar, Codec!Scalar, Codec!Left, Codec!Got
  <2>2. FieldCount(b) = layout.count
    BY <1>0, <1>2, <1>6, <2>1 DEF FieldCount
  <2>3. code = Codec!ReadExactString(b, 2)
    BY <1>1, <2>1
  <2>4. Len(b) >= 3
    BY <1>0, <1>2, <1>4, <1>6, <2>3
  <2>5. code = Codec!ExactUnits(b, [value |-> b[3], at |-> 3])
    <3>1. 2 \in Nat /\ 2 < Len(b) /\ 2 + 1 = 3
      BY <1>0, <2>4
    <3>2. Codec!ReadScalar(b, 2, Codec!Byte) = Codec!Got(b[3], 3)
      BY <3>1, ReadByte
    <3> QED
      BY <2>3, <3>2 DEF Codec!ReadExactString, Codec!Got
  <2> DEFINE units == Codec!Elements(b, 3, Codec!Word, b[3])
  <2> HIDE DEF units
  <2>6. ~ Codec!Fails(b).at <= Len(b)
    BY <1>0, <1>1, <1>3
  <2>7. 3 + 2 * b[3] <= Len(b) /\ ToSet(units) \cap LoneSurrogates = {} /\ code.value = units
    BY <1>2, <2>5, <2>6 DEF Codec!ExactUnits, Codec!Got, units, ToSet, Codec!ToSet
  <2>8. b[3] \in Nat
    BY <1>0, <2>4, ByteIsNumber
  <2>9. ~ (Len(b) < 3 \/ Len(b) < 3 + 2 * b[3])
    BY <1>0, <1>1, <2>4, <2>7, <2>8
  <2>10. ProfileCode(b) = units
    BY <2>7, <2>9 DEF ProfileCode, units
  <2> QED
    BY <1>2, <2>2, <2>7, <2>10
<1> QED
  BY <1>0, <1>1, <1>5, <1>6

-----------------------------------------------------------------------------
(* The discover commands: what was read is what is saved.                  *)

Discovering == {"open", "read", "save"}
Stopped == {"ended", "dark"}
Given == UNION {Answers[Plan[c][i]] : c \in DOMAIN Plan, i \in Nat}

\* All answers are there, and those the command cannot do without are answers
\* of the camera.
Complete == Len(answers) = Len(Plan[command])
Firm == \A i \in DOMAIN answers \cap Strict[command] : answers[i] \in Answers[Plan[command][i]]

\* An artifact is begun, or a trace of one is there.
Begun == pc = "save" \/ file # "closed" \/ path = "whole" \/ "whole" \in onDisk

\* Every answer is one to the read of the plan that it was given for.  A file
\* is begun only when the plan is done, and a command that saves ends well
\* only when its file is committed.
AnswersKept ==
    /\ pc \in Discovering \cup Stopped
    /\ answers \in Seq(Given \cup {Unavailable})
    /\ \A i \in DOMAIN answers : answers[i] \in Answers[Plan[command][i]] \cup {Unavailable}
    /\ pc \in Discovering => Firm
    /\ Begun => Complete /\ Firm
    /\ exit = 0 /\ command \notin Probes => file = "committed"

ToolKept ==
    /\ command \in DOMAIN Plan \cup {"probe"}
    /\ profiles \in PinSets \cup {{}}
    /\ command = "probe" => pc \notin Discovering
    /\ command \in DOMAIN Plan => AnswersKept

\* Of a command that does not probe only the handler, the camera and the host
\* take steps that are no step of its own.
LEMMA OtherSteps ==
  ASSUME ToolKept, command \in DOMAIN Plan, Next
  PROVE  Press \/ Sample \/ Count \/ Quit \/ ActLate \/ LosePower \/ Rival
<1>1. pc \in Discovering \cup Stopped
  BY DEF ToolKept, AnswersKept
<1>2. ~MainStep
  BY <1>1 DEF MainStep, Gates, SaveBackup, RecordAttempt, ReadSnapshot, EnterWindow,
       ProbeWrite, ReadBack, ReadName, Restore, Verify, LeaveWindow, Drain, RecordOutcome,
       At, Discovering, Stopped
<1> QED
  BY <1>2 DEF Next

\* ToolInit: nothing has been read, and nothing of an artifact is there.
LEMMA ToolKeptInit == ToolInit => ToolKept
<1> SUFFICES ASSUME ToolInit PROVE ToolKept
  OBVIOUS
<1>1. "probe" \notin DOMAIN Plan
  BY DEF Plan
<1>2. /\ command \in DOMAIN Plan \cup {"probe"}
      /\ InitAt(IF command = "probe" THEN "gates" ELSE "open")
      /\ profiles \in (IF command = "surface" THEN PinSets ELSE {{}})
      /\ answers = <<>>
  BY Zenon DEF ToolInit
<1>3. /\ pc = IF command = "probe" THEN "gates" ELSE "open"
      /\ exit = Running /\ file = "closed" /\ path # "whole" /\ "whole" \notin onDisk
  BY <1>2 DEF InitAt, FileInit
<1>4. profiles \in PinSets \cup {{}}
  BY <1>2
<1>5. \A S : <<>> \in Seq(S)
  OBVIOUS
<1>6. answers \in Seq(Given \cup {Unavailable}) /\ DOMAIN answers = {}
  BY <1>2, <1>5
<1>7. Firm /\ ~Begun /\ exit # 0
  BY <1>3, <1>6 DEF Begun, Firm, Running
<1>8. command = "probe" => pc \notin Discovering
  BY <1>3 DEF Discovering
<1>9. command \in DOMAIN Plan => AnswersKept
  BY <1>1, <1>3, <1>6, <1>7 DEF AnswersKept, Discovering
<1> QED
  BY <1>2, <1>4, <1>8, <1>9, Zenon DEF ToolKept

\* The probe never gets to the steps of the others.
LEMMA ProbeSteps ==
  ASSUME Inv, ToolKept, ToolNext, command = "probe"
  PROVE  ToolKept'
<1>1. pc \notin Discovering /\ "probe" \notin DOMAIN Plan
  BY DEF ToolKept, Plan
<1>2. Next /\ UNCHANGED discoverVars
  BY <1>1 DEF ToolNext, Open, Read, Finish, SaveArtifact, At, Discovering
<1>3. pc' \notin Discovering
  <2>1. CASE MainStep
    BY <2>1 DEF MainStep, Gates, SaveBackup, RecordAttempt, ReadSnapshot, EnterWindow,
         ProbeWrite, ReadBack, ReadName, Restore, Verify, LeaveWindow, Drain, RecordOutcome,
         Goto, Exit, Fails, Discovering
  <2>2. CASE ~MainStep
    BY <1>1, <1>2, <2>2 DEF Next, Press, Sample, Count, Quit, ActLate, LosePower, Rival,
         Exit, Discovering
  <2> QED
    BY <2>1, <2>2
<1> QED
  BY <1>1, <1>2, <1>3 DEF ToolKept, discoverVars

\* The handler, the camera and the host read and save nothing.
LEMMA ForeignSteps ==
  ASSUME Inv, ToolKept, command \in DOMAIN Plan, Next, UNCHANGED discoverVars
  PROVE  ToolKept'
<1>1. Press \/ Sample \/ Count \/ Quit \/ ActLate \/ LosePower \/ Rival
  BY OtherSteps
<1>2. pc' \in {pc} \cup Stopped
  BY <1>1 DEF Press, Sample, Count, Quit, ActLate, LosePower, Rival, Exit, Stopped
<1>3. file' = file /\ (exit' = exit \/ exit' = 3 \/ exit' = 130)
  BY <1>1 DEF Press, Sample, Count, Quit, ActLate, LosePower, Rival, RivalCreates, PowerLoss,
       UnchangedByHandler, fileVars, Exit
<1>4. path' = "whole" \/ "whole" \in onDisk' => path = "whole" \/ "whole" \in onDisk
  <2>1. CASE LosePower
    BY <2>1 DEF LosePower, PowerLoss
  <2>2. CASE Rival
    BY <2>2 DEF Rival, RivalCreates
  <2>3. CASE Press \/ Sample \/ Count \/ Quit \/ ActLate
    BY <2>3 DEF Press, Sample, Count, Quit, ActLate, UnchangedByHandler, fileVars
  <2> QED
    BY <1>1, <2>1, <2>2, <2>3
<1>5. UNCHANGED <<command, profiles, answers>>
  BY DEF discoverVars
<1>6. AnswersKept
  BY DEF ToolKept
<1>7. Firm' <=> Firm
  BY <1>5 DEF Firm
<1>8. Complete' <=> Complete
  BY <1>5 DEF Complete
<1>9. Begun' => Begun
  BY <1>2, <1>3, <1>4 DEF Begun, Stopped
<1>10. pc' \in Discovering => pc \in Discovering
  BY <1>2 DEF Discovering, Stopped
<1>11. AnswersKept'
  BY <1>2, <1>3, <1>5, <1>6, <1>7, <1>8, <1>9, <1>10 DEF AnswersKept
<1> QED
  BY <1>5, <1>11 DEF ToolKept, Plan

\* A read is appended to the answers.
LEMMA ReadKept ==
  ASSUME Inv, ToolKept, command \in DOMAIN Plan, Read
  PROVE  AnswersKept'
<1> DEFINE n == Len(answers) + 1
           given == Answers[Plan[command][n]]
<1>1. PICK x \in given \cup {Unavailable} :
         /\ answers' = Append(answers, x)
         /\ \/ x \in given /\ pc' = "read" /\ UNCHANGED exit
            \/ n \in Strict[command] /\ pc' = "ended" /\ exit' = 1
            \/ n \notin Strict[command] /\ pc' = "read" /\ UNCHANGED exit
  <2>1. CASE \E x \in given : answers' = Append(answers, x) /\ Goto("read")
    BY <2>1 DEF Goto
  <2>2. CASE /\ answers' = Append(answers, Unavailable)
             /\ IF Len(answers') \in Strict[command] THEN Exit(1) ELSE Goto("read")
    <3>1. Len(answers') = n
      BY <2>2 DEF ToolKept, AnswersKept
    <3> QED
      BY <2>2, <3>1 DEF Goto, Exit
  <2> QED
    BY <2>1, <2>2 DEF Read
<1>2. UNCHANGED <<command, file, path, onDisk>> /\ pc = "read" /\ Len(answers) # Len(Plan[command])
  BY DEF Read, At, fileVars
<1>3. answers \in Seq(Given \cup {Unavailable}) /\ x \in Given \cup {Unavailable}
  BY <1>1 DEF ToolKept, AnswersKept, Given
<1>4. /\ answers' \in Seq(Given \cup {Unavailable})
      /\ DOMAIN answers' = DOMAIN answers \cup {n}
      /\ \A i \in DOMAIN answers : answers'[i] = answers[i]
      /\ answers'[n] = x
  BY <1>1, <1>3
<1>5. \A i \in DOMAIN answers' : answers'[i] \in Answers[Plan[command'][i]] \cup {Unavailable}
  BY <1>1, <1>2, <1>4 DEF ToolKept, AnswersKept
<1>6. pc' \in Discovering => Firm'
  <2> SUFFICES ASSUME pc' \in Discovering, NEW i \in DOMAIN answers' \cap Strict[command]
               PROVE  answers'[i] \in Answers[Plan[command][i]]
    BY <1>2 DEF Firm
  <2>1. CASE i = n
    BY <1>1, <1>4, <2>1 DEF Discovering
  <2>2. CASE i # n
    BY <1>2, <1>4, <2>2 DEF ToolKept, AnswersKept, Firm, Discovering
  <2> QED
    BY <2>1, <2>2
<1>7. ~Begun'
  <2>1. ~Begun
    BY <1>2 DEF ToolKept, AnswersKept, Complete
  <2> QED
    BY <1>1, <1>2, <2>1 DEF Begun
<1>8. exit' = 0 => exit = 0
  BY <1>1
<1> QED
  BY <1>1, <1>2, <1>4, <1>5, <1>6, <1>7, <1>8
     DEF ToolKept, AnswersKept, Discovering, Stopped

\* The other steps of a command read nothing.
LEMMA CommandKept ==
  ASSUME Inv, ToolKept, command \in DOMAIN Plan, Open \/ Finish \/ SaveArtifact
  PROVE  AnswersKept'
<1>1. UNCHANGED <<command, answers>> /\ AnswersKept
  BY DEF Open, Finish, SaveArtifact, discoverVars, ToolKept
<1>2. (Firm' <=> Firm) /\ (Complete' <=> Complete)
  BY <1>1 DEF Firm, Complete
<1>3. pc \in Discovering /\ Firm
  BY <1>1 DEF Open, Finish, SaveArtifact, At, Discovering, AnswersKept
<1>4. CASE Open
  BY <1>1, <1>2, <1>3, <1>4
     DEF Open, At, Alive, Goto, Exit, AnswersKept, Begun, fileVars, Discovering, Stopped
<1>5. CASE Finish
  BY <1>1, <1>2, <1>3, <1>5
     DEF Finish, At, Alive, Goto, Exit, AnswersKept, Begun, Complete, fileVars, Discovering,
         Stopped
<1>6. CASE SaveArtifact
  <2>1. Complete
    BY <1>1, <1>6 DEF SaveArtifact, At, AnswersKept, Begun
  <2>2. /\ pc' \in {"save", "ended"}
        /\ exit' = 0 => exit = 0 \/ file' = "committed"
    BY <1>6 DEF SaveArtifact, Goto, Exit
  <2>3. exit # 0
    BY <1>6 DEF SaveArtifact, At, Alive, Running
  <2> QED
    BY <1>1, <1>2, <1>3, <2>1, <2>2, <2>3 DEF AnswersKept, Discovering, Stopped
<1> QED
  BY <1>4, <1>5, <1>6

\* Every step keeps what was read.
LEMMA ToolKeptNext == Inv /\ ToolKept /\ [ToolNext]_toolVars => ToolKept'
<1> SUFFICES ASSUME Inv, ToolKept, [ToolNext]_toolVars PROVE ToolKept'
  OBVIOUS
<1>1. CASE UNCHANGED toolVars
  <2>1. UNCHANGED <<pc, exit, path, onDisk, file, command, profiles, answers>>
    BY <1>1 DEF toolVars, vars, fileVars, discoverVars
  <2> QED
    BY <2>1 DEF ToolKept, AnswersKept, Firm, Complete, Begun
<1>2. CASE ToolNext /\ command = "probe"
  BY <1>2, ProbeSteps
<1>3. CASE Next /\ UNCHANGED discoverVars /\ command \in DOMAIN Plan
  BY <1>3, ForeignSteps
<1>4. CASE (Open \/ Read \/ Finish \/ SaveArtifact) /\ command \in DOMAIN Plan
  <2>1. AnswersKept'
    BY <1>4, ReadKept, CommandKept
  <2>2. UNCHANGED <<command, profiles>>
    BY <1>4 DEF Open, Read, Finish, SaveArtifact, discoverVars
  <2>3. "probe" \notin DOMAIN Plan
    BY DEF Plan
  <2> QED
    BY <1>4, <2>1, <2>2, <2>3 DEF ToolKept
<1> QED
  BY <1>1, <1>2, <1>3, <1>4 DEF ToolNext, ToolKept

\* What a command was answered to a read is an answer to that read.
LEMMA AnswerToRead ==
  ASSUME AnswersKept, NEW read
  PROVE  Answer(read) \in Answers[read] \cup {Unavailable}
<1> DEFINE found == {i \in DOMAIN answers : Plan[command][i] = read}
<1>1. CASE found = {}
  BY <1>1 DEF Answer
<1>2. CASE found # {}
  <2>1. (CHOOSE i \in found : TRUE) \in found
    BY <1>2
  <2>2. Answer(read) = answers[CHOOSE i \in found : TRUE]
    BY <1>2 DEF Answer
  <2> QED
    BY <2>1, <2>2 DEF AnswersKept
<1> QED
  BY <1>1, <1>2

\* A saved capture of the conversion profile is one that the camera gave.
LEMMA CaptureIsAnswer ==
  ASSUME AnswersKept, Saved("renderProfile")
  PROVE  Answer(Value("rawProfile")) \in Bytes
<1> DEFINE read == Value("rawProfile")
           found == {i \in DOMAIN answers : Plan[command][i] = read}
<1>1. /\ Plan[command] = ProfilePlan /\ Strict[command] = {1, 3}
      /\ Len(answers) = Len(ProfilePlan) /\ Firm /\ answers \in Seq(Given \cup {Unavailable})
  BY DEF Saved, Plan, Strict, AnswersKept, Begun, Complete
<1>2. /\ Len(ProfilePlan) = 4 /\ ProfilePlan[3] = read
      /\ ProfilePlan[1] # read /\ ProfilePlan[2] # read /\ ProfilePlan[4] # read
  BY DEF ProfilePlan, Info, Descriptor, Value
<1>3. DOMAIN answers = {1, 2, 3, 4}
  BY <1>1, <1>2
<1>4. found = {3}
  BY <1>1, <1>2, <1>3
<1>5. Answer(read) = answers[3]
  BY <1>4 DEF Answer
<1>6. answers[3] \in Answers[read]
  BY <1>1, <1>2, <1>3 DEF Firm
<1> QED
  BY <1>5, <1>6, DiscoveryAssumption DEF Bytes

\* A type that the profiles declare is the only one they pin.
LEMMA DeclaredIsOne ==
  ASSUME profiles \in PinSets \cup {{}}, NEW p, Declared(p)
  PROVE  \E type : Pinned(p) = {type}
<1>1. IsFiniteSet(profiles)
  BY FS_EmptySet, DiscoveryAssumption
<1>2. IsFiniteSet({f \in profiles : p \in DOMAIN f})
  BY <1>1, FS_Subset
<1>3. IsFiniteSet({f[p] : f \in {f \in profiles : p \in DOMAIN f}})
  <2> DEFINE S == {f \in profiles : p \in DOMAIN f}
             pins == {f[p] : f \in S}
             pin == [f \in S |-> f[p]]
  <2>1. pin \in Surjection(S, pins)
    BY DEF Surjection
  <2> QED
    BY <1>2, <2>1, FS_Surjection
<1>4. IsFiniteSet(Pinned(p))
  BY <1>3, FS_Subset DEF Pinned
<1> QED
  BY <1>4, FS_Singleton DEF Declared

\* The survey's test of a value against a type is that of a preflight, but for
\* the empty string and for text that is no UTF-16.
LEMMA MatchIsShape ==
  ASSUME NEW b \in Bytes, NEW type, type # AnyType,
         type.kind \in {"Scalar", "String", "Array"}
  PROVE  /\ Matches(b, type) /\ ~Codec!HasShape(b, type) =>
               ToSet(Units(b)) \cap LoneSurrogates # {}
         /\ ~Matches(b, type) /\ Codec!HasShape(b, type) => b = <<0>>
<1>1. CASE type.kind = "Scalar"
  BY <1>1 DEF Matches, Codec!HasShape
<1>2. CASE type.kind = "Array"
  BY <1>2 DEF Matches, Codec!HasShape
<1>3. CASE type.kind = "String"
  <2>1. Matches(b, type) <=> Shape(b) = "string"
    BY <1>3 DEF Matches
  <2>2. Codec!HasShape(b, type) <=> Codec!Exact(b, Codec!ReadString(b, 0)) # Malformed
    BY <1>3 DEF Codec!HasShape
  <2>3. Shape(b) = "string" => Framed(b)
    BY DEF Shape
  <2>4. Framed(b) => Shape(b) = "string"
    <3> SUFFICES ASSUME Framed(b) PROVE Shape(b) = "string"
      OBVIOUS
    <3>1. Len(b) \in Nat /\ Len(b) >= 3 /\ Len(b) = 1 + 2 * b[1]
      BY DEF Bytes, Framed
    <3>2. b[1] \in Nat
      BY <3>1, ByteIsNumber
    <3>3. ASSUME NEW n \in Nat, NEW k \in Nat, n >= 3, n = 1 + 2 * k
          PROVE  n \notin {0, 1, 2, 4, 8}
      BY <3>3
    <3>4. Len(b) \notin {0, 1, 2, 4, 8}
      BY <3>1, <3>2, <3>3, Zenon
    <3>5. b # <<>>
      BY <3>1
    <3> QED
      BY <3>4, <3>5 DEF Shape
  <2> QED
    BY <2>1, <2>2, <2>3, <2>4, TextIsRead, ReadIsText
<1> QED
  BY <1>1, <1>2, <1>3

\* A framed text has no length that a number has.
LEMMA DigestIsNoNumber ==
  ASSUME NEW b \in Bytes, HasDigest(b), NEW code \in 1..10
  PROVE  ~Codec!HasShape(b, Codec!ScalarOf(code))
<1>1. Len(b) \in Nat /\ Framed(b) /\ Len(b) \notin {1, 2, 4, 8}
  BY DEF Bytes, HasDigest, Shape
<1>2. Len(b) >= 3 /\ Len(b) = 1 + 2 * b[1] /\ b[1] \in Nat
  <2>1. Len(b) >= 3 /\ Len(b) = 1 + 2 * b[1]
    BY <1>1 DEF Framed
  <2> QED
    BY <1>1, <2>1, ByteIsNumber
<1>3. Len(b) \notin {1, 2, 4, 8, 16}
  BY <1>1, <1>2
<1>4. /\ Codec!ScalarOf(code) # AnyType
      /\ Codec!ScalarOf(code).kind = "Scalar"
      /\ Codec!ScalarOf(code).width = Codec!Widths[(code + 1) \div 2]
  BY DiscoveryAssumption DEF Codec!ScalarOf, Codec!Scalar
<1>5. (code + 1) \div 2 \in 1..5
  BY SMT
<1>6. Codec!Widths[(code + 1) \div 2] \in {1, 2, 4, 8, 16}
  BY <1>5 DEF Codec!Widths
<1> QED
  BY <1>3, <1>4, <1>6 DEF Codec!HasShape

\* What a survey says of an advertised property that was answered.
SurveyIsTrue(p) ==
    LET bytes == Answer(Value(p))
        Fits(type) == Codec!HasShape(bytes, type)
    IN bytes # Unavailable =>
          /\ Verdict(p) = "matches" =>
                \A f \in profiles : p \in DOMAIN f /\ ~Fits(f[p]) =>
                    ToSet(Units(bytes)) \cap LoneSurrogates # {}
          /\ Verdict(p) = "contradicts" =>
                \A f \in profiles : p \in DOMAIN f /\ Fits(f[p]) =>
                    bytes = <<0>> \/ f[p] = AnyType
          /\ HasDigest(bytes) =>
                \A code \in 1..10 : ~Fits(Codec!ScalarOf(code))

LEMMA SurveyTrue ==
  ASSUME AnswersKept, profiles \in PinSets \cup {{}}, NEW p \in ToSet(Advertised)
  PROVE  SurveyIsTrue(p)
<1> SUFFICES ASSUME Answer(Value(p)) # Unavailable
             PROVE  SurveyIsTrue(p)
  BY DEF SurveyIsTrue
<1> DEFINE b == Answer(Value(p))
<1>1. b \in Bytes
  BY AnswerToRead, DiscoveryAssumption DEF Bytes
<1> HIDE DEF b
<1>2. ASSUME NEW f \in profiles, p \in DOMAIN f, f[p] # AnyType
      PROVE  /\ f[p] \in Pinned(p)
             /\ f[p].kind \in {"Scalar", "String", "Array"}
             /\ f[p].kind = "Scalar" => f[p].width \in Nat \ {0}
  BY <1>2, DiscoveryAssumption DEF Pinned
<1>3. ASSUME Verdict(p) = "matches", NEW f \in profiles, p \in DOMAIN f,
             ~Codec!HasShape(b, f[p])
      PROVE  ToSet(Units(b)) \cap LoneSurrogates # {}
  <2>1. Declared(p) /\ \E type \in Pinned(p) : Matches(b, type)
    BY <1>3 DEF Verdict, b
  <2>2. PICK type \in Pinned(p) : Matches(b, type)
    BY <2>1
  <2>3. Pinned(p) = {type}
    BY <2>1, DeclaredIsOne
  <2>4. CASE f[p] # AnyType
    <3>1. f[p] = type /\ f[p].kind \in {"Scalar", "String", "Array"}
      BY <1>2, <1>3, <2>3, <2>4
    <3> QED
      BY <1>1, <1>3, <2>2, <2>4, <3>1, MatchIsShape
  <2>5. CASE f[p] = AnyType
    <3>1. b = <<>>
      BY <1>3, <2>5 DEF Codec!HasShape
    <3>2. PICK g \in profiles : p \in DOMAIN g /\ g[p] = type /\ type # AnyType
      BY DEF Pinned
    <3>3. type.kind = "Scalar" => type.width \in Nat \ {0}
      BY <1>2, <3>2
    <3>4. ~Matches(b, type)
      BY <3>1, <3>3 DEF Matches, Shape
    <3> QED
      BY <2>2, <3>4
  <2> QED
    BY <2>4, <2>5
<1>4. ASSUME Verdict(p) = "contradicts", NEW f \in profiles, p \in DOMAIN f,
             Codec!HasShape(b, f[p]), f[p] # AnyType
      PROVE  b = <<0>>
  <2>1. \A type \in Pinned(p) : ~Matches(b, type)
    BY <1>4 DEF Verdict, b
  <2>2. ~Matches(b, f[p]) /\ f[p].kind \in {"Scalar", "String", "Array"}
    BY <1>2, <1>4, <2>1
  <2> QED
    BY <1>1, <1>4, <2>2, MatchIsShape
<1>5. HasDigest(b) => \A code \in 1..10 : ~Codec!HasShape(b, Codec!ScalarOf(code))
  BY <1>1, DigestIsNoNumber
<1> QED
  BY <1>3, <1>4, <1>5 DEF SurveyIsTrue, b

\* What a discover command saves is whole, what it says of a value is what a
\* preflight would make of it, and a conversion profile is reported with the
\* fields of its layout: for every camera, all profiles and every number of
\* values of a byte (declaration_matches, survey_value_digest,
\* inspect_envelope, write_all_new).
THEOREM ArtifactTrue == ToolSpec => []ArtifactIsTrue
<1>1. Inv /\ ToolKept => ArtifactIsTrue
  <2> SUFFICES ASSUME Inv, ToolKept PROVE ArtifactIsTrue
    OBVIOUS
  <2>1. path # "torn"
    BY DEF Inv, FileKept
  <2>2. exit = 0 /\ command \in DOMAIN Plan \ Probes => Saved(command)
    BY DEF Inv, FileKept, ToolKept, AnswersKept, Saved
  <2>3. Saved("surface") => \A p \in ToSet(Advertised) : SurveyIsTrue(p)
    BY SurveyTrue DEF Saved, Plan, ToolKept
  <2>4. Saved("renderProfile") =>
          LET bytes == Answer(Value("rawProfile")) IN
          Codec!IsEnvelopeOf(bytes, Layout) =>
              FieldCount(bytes) = Layout.count /\ ProfileCode(bytes) = Layout.code
    BY CaptureIsAnswer, EnvelopeReported DEF Saved, Plan, ToolKept
  <2> QED
    BY <2>1, <2>2, <2>3, <2>4 DEF ArtifactIsTrue, SurveyIsTrue
<1>2. ToolSpec => []ToolKept
  BY ToolKeptInit, ToolKeptNext, Invariance, PTL DEF ToolSpec
<1> QED
  BY <1>1, <1>2, Invariance, PTL
=============================================================================
