--------------------------- MODULE InterruptLatch ---------------------------
(***************************************************************************)
(* Ctrl-C.  Two threads share one latch of atomics: the main thread, which *)
(* runs one command of the CLI and marks every PTP transaction, critical   *)
(* region and camera write in the latch, and the signal thread, which runs *)
(* the Ctrl-C handler once for every Ctrl-C, one after the other.          *)
(*                                                                         *)
(* Each load or store of an atomic is a step of its own, except that       *)
(* consecutive accesses to cells only that thread writes are one step.     *)
(* The camera is left out: a transfer may take any time and succeed or     *)
(* fail, and a region's operation may return any of its results.           *)
(***************************************************************************)
EXTENDS Integers, Sequences

CONSTANTS
    MaxTransactions,  \* bound: transactions of one command
    MaxSessions,      \* bound: sessions (backup import reconnects)
    MaxPresses        \* bound: how often the user presses Ctrl-C

ASSUME BoundsAssumption ==
    /\ MaxTransactions \in Nat
    /\ MaxSessions \in Nat \ {0}
    /\ MaxPresses \in Nat

MaxSeen == 255   \* interrupts_seen is an AtomicU8 that saturates

VARIABLES
    \* the latch
    inFlight,      \* transaction_in_flight
    depth,         \* critical_region_depth
    writeSent,     \* camera_write_sent
    seen,          \* interrupts_seen
    \* the main thread
    pc,            \* where it is
    kind,          \* the transaction under way
    regions,       \* the critical regions it is in, innermost first
    sessions,      \* sessions opened so far
    transactions,  \* transactions started so far
    failure,       \* the error the command will report
    searching,     \* backup import waits for the camera to reconnect
    \* the signal thread
    handler,       \* where the handler is
    wroteThen,     \* its sample of camera_write_sent
    seenThen,      \* what record_interrupt returned to it
    code,          \* the status it is about to exit with
    queued,        \* Ctrl-C not handled yet
    presses,       \* Ctrl-C pressed so far
    \* the process
    exit,          \* its exit status, Running before that
    exitBy,
    \* history
    dispatched,    \* a camera write has been put on the wire
    late,          \* ... when this run of the handler began
    spans,         \* the transfer of that moment is still on the wire
    guarded,       \* the critical region of that moment is still active
    owed,          \* what was going on when an interrupt was recorded
    pressed        \* Ctrl-C pressed since this transfer began

latchVars == <<inFlight, depth, writeSent, seen>>
mainVars == <<pc, kind, regions, sessions, transactions, failure,
              searching>>
handlerVars == <<handler, wroteThen, seenThen, code>>
userVars == <<queued, presses>>
exitVars == <<exit, exitBy>>
historyVars == <<dispatched, late, spans, guarded, owed, pressed>>
\* What a step of the main thread mostly leaves alone, and of the handler.
elsewhere == <<handlerVars, userVars, exitVars, historyVars>>
callVars == <<regions, sessions, transactions>>
vars == <<latchVars, mainVars, handlerVars, userVars, exitVars, historyVars>>

Running == 256
Kinds == {"open", "close", "read", "describe", "access", "write"}
SessionControl == {"open", "close"}
Regions == {"write", "restored", "temporary"}
Failures == {"none", "plain", "refused", "unknown", "interrupted",
             "interruptedAfterWrite"}

\* error_exit_code, and success; a refused descriptor is never the last word.
ExitCode(f) ==
    CASE f = "none" -> 0
      [] f = "plain" -> 1
      [] f \in {"unknown", "interruptedAfterWrite"} -> 3
      [] f = "interrupted" -> 130

\* interrupt_exit_code
InterruptExitCode(duringWrite) == IF duringWrite THEN 3 ELSE 130

InTransaction == pc \in {"entered", "transfer", "returned"}

-----------------------------------------------------------------------------
Init ==
    /\ inFlight = FALSE /\ depth = 0 /\ writeSent = FALSE /\ seen = 0
    /\ pc = "closed" /\ kind = "open" /\ regions = <<>>
    /\ sessions = 0 /\ transactions = 0
    /\ failure = "none" /\ searching = FALSE
    /\ handler = "waiting" /\ wroteThen = FALSE /\ seenThen = 0 /\ code = 0
    /\ queued = 0 /\ presses = 0
    /\ exit = Running /\ exitBy = "nobody"
    /\ dispatched = FALSE /\ late = FALSE /\ spans = FALSE /\ guarded = FALSE
    /\ owed = {} /\ pressed = 0

-----------------------------------------------------------------------------
(* The main thread: one transaction.                                       *)

\* enter_transaction
EnterTransaction(k) ==
    /\ inFlight' = TRUE
    /\ kind' = k
    /\ pc' = "entered"

OpenSession ==
    /\ pc = "closed" /\ failure = "none" /\ sessions < MaxSessions
    /\ sessions = 0 \/ searching
    /\ sessions' = sessions + 1
    /\ EnterTransaction("open")
    /\ UNCHANGED <<depth, writeSent, seen, regions, transactions, failure,
                   searching, elsewhere>>

\* Outside regions an error unwinds to the close, but for a refused
\* descriptor (ReadInstead); a region goes on, to roll back or to restore.
MayGoOn == pc = "idle" /\ (failure = "none" \/ regions # <<>>)

\* A read, anywhere; GetDevicePropDesc in the preflight, before any write;
\* the selector write of a temporary scope, which is not a camera write
\* (SimulationAccess).
StartAccess(k) ==
    /\ MayGoOn /\ transactions < MaxTransactions
    /\ k = "describe" => regions = <<>> /\ sessions = 1 /\ ~writeSent
    /\ k = "access" => regions # <<>> /\ Head(regions) = "temporary"
    /\ searching => kind = "open"
    /\ transactions' = transactions + 1
    /\ EnterTransaction(k)
    /\ UNCHANGED <<depth, writeSent, seen, regions, sessions, failure,
                   searching, elsewhere>>

\* Mutant: the write is not marked.
SkipMark ==
    /\ MayGoOn /\ transactions < MaxTransactions
    /\ regions # <<>> /\ Head(regions) \in {"write", "restored"}
    /\ transactions' = transactions + 1
    /\ pc' = "marked"
    /\ UNCHANGED <<latchVars, kind, regions, sessions, failure, searching,
                   elsewhere>>

\* send_mutating_for_operation marks before it sends; every caller is inside
\* critical_camera_write.
MarkWriteSent ==
    /\ MayGoOn /\ transactions < MaxTransactions
    /\ regions # <<>> /\ Head(regions) \in {"write", "restored"}
    /\ writeSent' = TRUE
    /\ transactions' = transactions + 1
    /\ pc' = "marked"
    /\ UNCHANGED <<inFlight, depth, seen, kind, regions, sessions, failure,
                   searching, elsewhere>>

StartWrite ==
    /\ pc = "marked"
    /\ EnterTransaction("write")
    /\ UNCHANGED <<depth, writeSent, seen, callVars, failure, searching,
                   elsewhere>>

\* The command is put on the wire.
BeginTransfer ==
    /\ pc = "entered"
    /\ pc' = "transfer"
    /\ dispatched' = (dispatched \/ kind = "write")
    /\ pressed' = 0
    /\ UNCHANGED <<latchVars, kind, callVars, failure, searching, handlerVars,
                   userVars, exitVars, late, spans, guarded, owed>>

\* The response is in, or the transport gave up; a failed read is an error
\* unless the region it is in has its own result.  GeneralError in answer to
\* GetDevicePropDesc is told apart, as long as one more read can be counted.
EndTransfer ==
    /\ pc = "transfer"
    /\ pc' = "returned"
    /\ spans' = FALSE
    /\ pressed' = 0
    /\ \/ UNCHANGED failure
       \/ /\ regions = <<>> /\ kind # "close"
          /\ failure' \in IF writeSent THEN {"plain", "unknown"} ELSE {"plain"}
       \/ /\ kind = "describe" /\ transactions < MaxTransactions
          /\ failure' = "refused"
    /\ UNCHANGED <<latchVars, kind, callVars, searching, handlerVars,
                   userVars, exitVars, dispatched, late, guarded, owed>>

\* The transaction guard is dropped.
LeaveTransaction ==
    /\ pc = "returned"
    /\ inFlight' = FALSE
    /\ pc' = CASE kind = "close" -> "closed"
               [] kind = "open" /\ failure # "none" -> "closed"
               [] kind = "open" /\ failure = "none" -> "idle"
               [] OTHER -> "check"
    /\ failure' = IF kind = "open" /\ searching THEN "none" ELSE failure
    /\ UNCHANGED <<depth, writeSent, seen, kind, callVars, searching,
                   elsewhere>>

\* Mutant: after_camera_write is never set.
InterruptedBeforeWrite(f) ==
    IF f \in {"unknown", "refused"} THEN f ELSE "interrupted"

\* The Interrupted marker on top of result f.  It is a context of the error:
\* camera_refused looks through it, as error_exit_code does for "unknown".
Interrupted(f) ==
    IF f \in {"unknown", "refused"} THEN f
    ELSE IF writeSent THEN "interruptedAfterWrite"
    ELSE "interrupted"

\* Mutant: the pending interrupts are drained, the result is returned as is.
AfterTransactionDrains ==
    /\ pc = "check"
    /\ pc' = "idle"
    /\ seen' = IF depth > 0 THEN seen ELSE 0
    /\ UNCHANGED <<inFlight, depth, writeSent, failure, kind, callVars,
                   searching, elsewhere>>

\* after_transaction, at the end of a transaction.
AfterTransaction ==
    /\ pc = "check"
    /\ pc' = "idle"
    /\ IF depth > 0 \/ seen = 0
       THEN UNCHANGED <<seen, failure>>
       ELSE seen' = 0 /\ failure' = Interrupted(failure)
    /\ UNCHANGED <<inFlight, depth, writeSent, kind, callVars, searching,
                   elsewhere>>

\* descriptor_after_refusal: the preflight reads the value instead and drops
\* the error, with whatever marker it has.
ReadInstead ==
    /\ pc = "idle" /\ failure = "refused"
    /\ failure' = "none"
    /\ transactions' = transactions + 1
    /\ EnterTransaction("read")
    /\ owed' = IF "read" \in owed THEN (owed \ {"read"}) \cup {"refused"}
               ELSE owed
    /\ UNCHANGED <<depth, writeSent, seen, regions, sessions, searching,
                   handlerVars, userVars, exitVars, dispatched, late, spans,
                   guarded, pressed>>

-----------------------------------------------------------------------------
(* The main thread: critical regions.                                      *)

\* A write command is one critical_camera_write; a simulation write nests a
\* selector scope in it; simulation reads have a selector scope alone.  The
\* sessions after a reconnection only read.
MayEnter(r) ==
    /\ sessions = 1
    /\ CASE r = "write" -> regions = <<>>
         [] r = "temporary" -> regions = <<>> /\ ~writeSent
         [] r = "restored" -> regions = <<"write">>

\* Mutant: an inner region does not count.
EnterRegionOnce(r) ==
    /\ MayGoOn /\ MayEnter(r)
    /\ depth' = 1
    /\ regions' = <<r>> \o regions
    /\ UNCHANGED <<inFlight, writeSent, seen, pc, kind, sessions,
                   transactions, failure, searching, elsewhere>>

\* enter_critical_region
EnterRegion(r) ==
    /\ MayGoOn /\ MayEnter(r)
    /\ depth' = depth + 1
    /\ regions' = <<r>> \o regions
    /\ UNCHANGED <<inFlight, writeSent, seen, pc, kind, sessions,
                   transactions, failure, searching, elsewhere>>

\* The operation of the innermost region has returned this result.
Result(f) ==
    IF failure = "none" THEN f \in {"none", "plain", "unknown"}
    ELSE f = failure

\* Mutant: the depth is a flag.
DropRegionFlag ==
    /\ pc = "idle" /\ regions # <<>>
    /\ depth' = 0
    /\ failure' \in Failures /\ Result(failure')
    /\ pc' = "dropped"
    /\ guarded' = (guarded /\ Len(regions) > 1)
    /\ UNCHANGED <<inFlight, writeSent, seen, kind, callVars, searching,
                   handlerVars, userVars, exitVars, dispatched, late, spans,
                   owed, pressed>>

\* The guard of the innermost region is dropped.
DropRegion ==
    /\ pc = "idle" /\ regions # <<>>
    /\ depth' = depth - 1
    /\ failure' \in Failures /\ Result(failure')
    /\ pc' = "dropped"
    /\ guarded' = (guarded /\ Len(regions) > 1)
    /\ UNCHANGED <<inFlight, writeSent, seen, kind, callVars, searching,
                   handlerVars, userVars, exitVars, dispatched, late, spans,
                   owed, pressed>>

\* Mutant: an interrupt during a successful write is only logged.
DrainWriteQuietly == failure' = failure /\ seen' = 0

\* critical_camera_write after its region: always drain, and turn a success
\* into "camera state unknown".
DrainWrite ==
    /\ seen' = 0
    /\ failure' = IF failure = "none" /\ seen > 0 THEN "unknown" ELSE failure

\* after_transaction_with: an interrupted write that succeeded is "unknown";
\* an interrupted read, or a failure, gets the marker.
DrainScope ==
    IF depth > 0 \/ seen = 0
    THEN UNCHANGED <<seen, failure>>
    ELSE /\ seen' = 0
         /\ failure' = IF Head(regions) = "restored" /\ failure = "none"
                       THEN "unknown" ELSE Interrupted(failure)

DrainRegion ==
    /\ pc = "dropped"
    /\ IF Head(regions) = "write" THEN DrainWrite ELSE DrainScope
    /\ regions' = Tail(regions)
    /\ pc' = "idle"
    /\ UNCHANGED <<inFlight, depth, writeSent, kind, sessions, transactions,
                   searching, elsewhere>>

-----------------------------------------------------------------------------
(* The main thread: the end.                                               *)

\* The camera is dropped: CloseSession, unless the session is poisoned.
CloseSession ==
    /\ pc = "idle" /\ regions = <<>> /\ ~searching /\ failure # "refused"
    /\ \/ EnterTransaction("close")
       \/ failure # "none" /\ pc' = "closed" /\ UNCHANGED <<inFlight, kind>>
    /\ UNCHANGED <<depth, writeSent, seen, callVars, failure, searching,
                   elsewhere>>

\* verify_restore_persisted, after a restore that was accepted.
BeginReconnect ==
    /\ pc = "closed" /\ failure = "none" /\ writeSent /\ sessions = 1
    /\ searching' = TRUE
    /\ UNCHANGED <<latchVars, pc, kind, callVars, failure, elsewhere>>

\* find_camera_by_serial after the identity read: any error, an Interrupted
\* too, only means that this is not the camera.
JudgeCandidate ==
    /\ pc = "idle" /\ searching /\ kind = "read"
    /\ \/ /\ failure = "none"
          /\ searching' = FALSE
          /\ UNCHANGED <<inFlight, kind, pc, failure>>
       \/ /\ failure' = "none"
          /\ \/ EnterTransaction("close")
             \/ failure # "none" /\ pc' = "closed" /\ UNCHANGED <<inFlight, kind>>
          /\ UNCHANGED searching
    /\ UNCHANGED <<depth, writeSent, seen, callVars, elsewhere>>

\* A search that reaches its deadline leaves the camera state unknown.
MainExits ==
    /\ pc = "closed"
    /\ sessions > 0
    /\ exit' = IF searching THEN 3 ELSE ExitCode(failure)
    /\ exitBy' = "main"
    /\ UNCHANGED <<latchVars, mainVars, handlerVars, userVars, historyVars>>

MainStep ==
    \/ OpenSession
    \/ \E k \in {"read", "describe", "access"} : StartAccess(k)
    \/ MarkWriteSent
    \/ StartWrite
    \/ BeginTransfer
    \/ EndTransfer
    \/ LeaveTransaction
    \/ AfterTransaction
    \/ ReadInstead
    \/ \E r \in Regions : EnterRegion(r)
    \/ DropRegion
    \/ DrainRegion
    \/ CloseSession
    \/ BeginReconnect
    \/ JudgeCandidate
    \/ MainExits

-----------------------------------------------------------------------------
(* The signal thread.                                                      *)

CtrlC ==
    /\ presses < MaxPresses
    /\ presses' = presses + 1
    /\ queued' = queued + 1
    /\ pressed' = IF pc = "transfer" THEN pressed + 1 ELSE pressed
    /\ UNCHANGED <<latchVars, mainVars, handlerVars, exitVars, dispatched,
                   late, spans, guarded, owed>>

SampleWriteSent ==
    /\ handler = "waiting" /\ queued > 0
    /\ queued' = queued - 1
    /\ wroteThen' = writeSent
    /\ handler' = "flight"
    /\ late' = dispatched
    /\ spans' = (pc = "transfer")
    /\ guarded' = (depth > 0)
    /\ UNCHANGED <<latchVars, mainVars, seenThen, code, presses, exitVars,
                   dispatched, owed, pressed>>

\* is_deferring, first half.
LoadInFlight ==
    /\ handler = "flight"
    /\ handler' = IF inFlight THEN "record" ELSE "depth"
    /\ UNCHANGED <<latchVars, mainVars, wroteThen, seenThen, code, userVars,
                   exitVars, historyVars>>

\* is_deferring, second half: with neither, exit like the default handler.
LoadDepth ==
    /\ handler = "depth"
    /\ IF depth > 0
       THEN handler' = "record" /\ UNCHANGED <<seenThen, code>>
       ELSE /\ handler' = "quit"
            /\ seenThen' = 0
            /\ code' = InterruptExitCode(wroteThen)
    /\ UNCHANGED <<latchVars, mainVars, wroteThen, userVars, exitVars,
                   historyVars>>

\* Mutant: the previous count is lost.
RecordForgetful == seen' = 1 /\ seenThen' = 0

\* record_interrupt: saturating add, returns the count before.
Record ==
    /\ seen' = IF seen < MaxSeen THEN seen + 1 ELSE seen
    /\ seenThen' = seen

\* What is to answer for an interrupt recorded now: the outermost region, or
\* the transaction outside regions that has not returned yet.
Owner ==
    IF regions # <<>>
    THEN {regions[Len(regions)]}
    ELSE IF ~InTransaction \/ kind \in SessionControl THEN {}
    ELSE {IF searching THEN "search" ELSE "read"}

RecordInterrupt ==
    /\ handler = "record"
    /\ Record
    /\ handler' = "critical"
    /\ owed' = owed \cup Owner
    /\ UNCHANGED <<inFlight, depth, writeSent, mainVars, wroteThen, code,
                   userVars, exitVars, dispatched, late, spans, guarded,
                   pressed>>

\* The first one only prints a message, the second one exits.
JudgeInterrupt ==
    /\ handler = "critical"
    /\ IF seenThen = 0
       THEN handler' = "waiting" /\ UNCHANGED code
       ELSE handler' = "quit" /\ code' = InterruptExitCode(depth > 0 \/ wroteThen)
    /\ UNCHANGED <<latchVars, mainVars, wroteThen, seenThen, userVars,
                   exitVars, historyVars>>

HandlerExits ==
    /\ handler = "quit"
    /\ exit' = code /\ exitBy' = "handler"
    /\ UNCHANGED <<latchVars, mainVars, handlerVars, userVars, historyVars>>

HandlerStep ==
    \/ SampleWriteSent
    \/ LoadInFlight
    \/ LoadDepth
    \/ RecordInterrupt
    \/ JudgeInterrupt
    \/ HandlerExits

-----------------------------------------------------------------------------
Alive == exit = Running
Main == Alive /\ MainStep
Handler == Alive /\ HandlerStep
User == Alive /\ CtrlC

Next == Main \/ Handler \/ User

\* The signal thread only loads, stores and prints.  The main thread may be
\* stuck in a transfer for as long as its deadline, so nothing is assumed of
\* it: what must happen must happen even then.
Fairness == WF_vars(Handler)

Spec == Init /\ [][Next]_vars /\ Fairness

-----------------------------------------------------------------------------
(* Properties.                                                             *)

TypeOK ==
    /\ inFlight \in BOOLEAN /\ depth \in Nat /\ writeSent \in BOOLEAN
    /\ seen \in 0..MaxSeen
    /\ pc \in {"closed", "idle", "marked", "entered", "transfer", "returned",
               "check", "dropped"}
    /\ kind \in Kinds
    /\ regions \in Seq(Regions)
    /\ depth = IF pc = "dropped" THEN Len(regions) - 1 ELSE Len(regions)
    /\ sessions \in 0..MaxSessions /\ transactions \in 0..MaxTransactions
    /\ failure \in Failures
    /\ handler \in {"waiting", "flight", "depth", "record", "critical", "quit"}
    /\ wroteThen \in BOOLEAN /\ seenThen \in 0..MaxSeen /\ code \in {0, 3, 130}
    /\ queued \in 0..MaxPresses /\ presses \in 0..MaxPresses
    /\ exit \in {0, 1, 3, 130, Running}
    /\ exitBy \in {"nobody", "main", "handler"}
    /\ dispatched \in BOOLEAN /\ late \in BOOLEAN /\ spans \in BOOLEAN
    /\ guarded \in BOOLEAN /\ searching \in BOOLEAN
    /\ owed \subseteq Regions \cup {"read", "search", "refused"}
    /\ pressed \in Nat

HandlerExited == exitBy = "handler"

\* A Ctrl-C handled after a camera write was put on the wire never exits 130
\* by itself: the script is told that the camera may have changed.
HandlerReportsWrite == HandlerExited /\ late => exit = 3

\* A first Ctrl-C never abandons the transfer or the critical region that was
\* under way when its handler ran: only one that finds another pending does.
FirstPressWaits == HandlerExited /\ (spans \/ guarded) => seenThen > 0

\* An interrupt recorded while a read or a critical region had not yet made
\* its check is not lost: the command does not end with success.  The one
\* exception, which ReadInstead files as "refused", is below.
InterruptNotForgotten ==
    exitBy = "main" /\ owed \cap {"read", "write", "temporary"} # {} => exit # 0

\* After an interrupt recorded during a read outside critical regions,
\* nothing but the close of the session is sent to the camera, unless what
\* was interrupted is the read of a descriptor that the camera refused.
StopsAfterTransfer ==
    [][ "read" \in owed /\ failure # "refused"
            /\ pc # "entered" /\ pc' = "entered"
            => kind' = "close" ]_<<pc, owed, kind>>

\* A command that unwinds and exits 130 has sent no camera write at all.
CleanStopMeansUntouched == exitBy = "main" /\ exit = 130 => ~dispatched

\* Two presses during one transfer end the process, even if the transfer
\* never returns.
ForceQuitWorks == pressed >= 2 ~> (~Alive \/ pc # "transfer")

-----------------------------------------------------------------------------
(* What the documentation promises and the code does not quite keep.       *)

\* "Ctrl-C never abandons a PTP transfer mid-stream ... the first Ctrl-C
\* during any PTP transaction is latched until that transaction returns."
TransferNeverAbandoned ==
    HandlerExited /\ seenThen = 0 => pc # "transfer"

\* "Outside a camera write, the command then stops before the next
\* transaction, closes the session normally, and exits 130": an interrupt
\* recorded while the camera refused a descriptor keeps the command at least
\* from ending with success.  "Once a camera write has been sent, every later
\* Ctrl-C in the same process exits 3, including one that lands while backup
\* import waits for the camera to reconnect": one recorded during that search.
InterruptsHeeded ==
    exitBy = "main" => /\ "refused" \in owed => exit # 0
                       /\ "search" \in owed => exit = 3
=============================================================================
