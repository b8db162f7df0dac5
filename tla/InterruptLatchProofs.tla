------------------------ MODULE InterruptLatchProofs ------------------------
(***************************************************************************)
(* The latch, for any number of transactions, sessions and Ctrl-C.  What   *)
(* makes the handler right is an order of stores and loads: the main       *)
(* thread marks before it acts, the handler samples before it decides, and *)
(* what the handler saw can only have become less urgent since.            *)
(***************************************************************************)
EXTENDS InterruptLatch, SequenceTheorems, TLAPS

\* The type invariant in three parts: what the main thread mostly changes,
\* how deep it is in regions, and the rest.
MainOK ==
    /\ inFlight \in BOOLEAN /\ depth \in Nat /\ writeSent \in BOOLEAN
    /\ seen \in 0..MaxSeen
    /\ pc \in {"closed", "idle", "marked", "entered", "transfer", "returned",
               "check", "dropped"}
    /\ kind \in Kinds
    /\ regions \in Seq(Regions)
    /\ sessions \in 0..MaxSessions /\ transactions \in 0..MaxTransactions
    /\ failure \in Failures
    /\ searching \in BOOLEAN

DepthFits == depth = IF pc = "dropped" THEN Len(regions) - 1 ELSE Len(regions)

ElsewhereOK ==
    /\ handler \in {"waiting", "flight", "depth", "record", "critical", "quit"}
    /\ wroteThen \in BOOLEAN /\ seenThen \in 0..MaxSeen /\ code \in {0, 3, 130}
    /\ queued \in 0..MaxPresses /\ presses \in 0..MaxPresses
    /\ exit \in {0, 1, 3, 130, Running}
    /\ exitBy \in {"nobody", "main", "handler"}
    /\ dispatched \in BOOLEAN /\ late \in BOOLEAN /\ spans \in BOOLEAN
    /\ guarded \in BOOLEAN
    /\ owed \subseteq Regions \cup {"read", "search", "refused"}
    /\ pressed \in Nat

LEMMA TypeParts ==
  /\ TypeOK <=> MainOK /\ DepthFits /\ ElsewhereOK
  /\ TypeOK' <=> MainOK' /\ DepthFits' /\ ElsewhereOK'
  BY DEF TypeOK, MainOK, DepthFits, ElsewhereOK

\* A write is marked before it is put on the wire, a transfer is in flight
\* from before it begins until after it ends.
MarkedFirst ==
    /\ dispatched \/ pc = "marked" => writeSent
    /\ pc \in {"entered", "transfer"} /\ kind = "write" => writeSent
    /\ InTransaction => inFlight

\* The history variables speak of a transfer and a region still under way.
StillTrue ==
    /\ spans => pc = "transfer"
    /\ guarded => depth > 0

\* What the handler knows while it decides.
Sampled ==
    /\ handler # "waiting" /\ late => wroteThen
    /\ handler = "depth" => ~spans
    /\ handler = "quit" => /\ code \in {3, 130}
                           /\ late => code = 3
                           /\ spans \/ guarded => seenThen > 0

\* An error marked as interrupted before any write ends the command.
Unwinding == failure = "interrupted" => regions = <<>> /\ ~writeSent

\* Descriptors are read outside regions and only by a command that has not
\* failed; after a refused one there is nothing but the read instead.
Describing ==
    /\ pc \in {"entered", "transfer"} /\ kind = "describe" =>
          failure = "none" /\ regions = <<>>
    /\ failure = "refused" =>
          /\ pc \in {"returned", "check", "idle"} /\ kind = "describe"
          /\ regions = <<>> /\ transactions < MaxTransactions

Exited ==
    /\ exitBy # "nobody" => exit # Running
    /\ HandlerReportsWrite
    /\ FirstPressWaits
    /\ CleanStopMeansUntouched

Inv ==
    /\ TypeOK
    /\ queued <= presses
    /\ pc = "dropped" => regions # <<>>
    /\ MarkedFirst
    /\ StillTrue
    /\ Sampled
    /\ Unwinding
    /\ Describing
    /\ Exited

\* While the process runs there is nothing to say of its end.
LEMMA AliveHasNotExited == Inv /\ Alive => exitBy = "nobody"
  BY DEF Inv, Exited, Alive, TypeOK

LEMMA NotExited ==
  ASSUME Inv, Alive, UNCHANGED exitVars
  PROVE  Exited'
  BY AliveHasNotExited DEF exitVars, Exited, HandlerReportsWrite,
     FirstPressWaits, CleanStopMeansUntouched, HandlerExited

USE DEF latchVars, mainVars, handlerVars, userVars, exitVars, historyVars,
        elsewhere, callVars, Kinds, SessionControl, Regions, Failures, Running,
        MaxSeen

\* A refusal is neither forgotten nor brought along.
LEMMA DescribingNext == ASSUME Inv, Next PROVE Describing'
<1>1. CASE \/ OpenSession \/ MarkWriteSent \/ StartWrite \/ BeginTransfer
           \/ LeaveTransaction \/ ReadInstead
           \/ \E k \in {"read", "describe", "access"} : StartAccess(k)
  BY <1>1 DEF Inv, Describing, OpenSession, MarkWriteSent, StartWrite, BeginTransfer,
     LeaveTransaction, ReadInstead, StartAccess, MayGoOn, EnterTransaction
<1>2. CASE EndTransfer
  BY <1>2 DEF Inv, Describing, EndTransfer
<1>3. CASE AfterTransaction
  BY <1>3 DEF Inv, Describing, AfterTransaction, Interrupted
<1>4. CASE (\E r \in Regions : EnterRegion(r)) \/ DropRegion
  BY <1>4 DEF Inv, Describing, EnterRegion, DropRegion, MayGoOn, Result
<1>5. CASE DrainRegion
  BY <1>5 DEF Inv, Describing, DrainRegion, DrainWrite, DrainScope, Interrupted
<1>6. CASE CloseSession \/ BeginReconnect \/ JudgeCandidate
  BY <1>6 DEF Inv, Describing, CloseSession, BeginReconnect, JudgeCandidate, EnterTransaction
<1>7. CASE MainExits \/ Handler \/ User
  BY <1>7 DEF Inv, Describing, MainExits, Handler, HandlerStep, SampleWriteSent, LoadInFlight,
     LoadDepth, RecordInterrupt, JudgeInterrupt, HandlerExits, User, CtrlC
<1> QED
  BY <1>1, <1>2, <1>3, <1>4, <1>5, <1>6, <1>7 DEF Next, Main, MainStep

LEMMA TransactionKeepsInv ==
  ASSUME Inv, Alive, Describing',
         \/ OpenSession \/ (\E k \in {"read", "describe", "access"} : StartAccess(k))
         \/ MarkWriteSent \/ StartWrite \/ BeginTransfer \/ EndTransfer
         \/ LeaveTransaction \/ AfterTransaction \/ ReadInstead
  PROVE  Inv'
<1>1. CASE OpenSession
  <2>1. MainOK'
    BY <1>1, TypeParts, BoundsAssumption DEF Inv, MainOK, OpenSession, EnterTransaction
  <2>2. DepthFits'
    BY <1>1, TypeParts DEF Inv, MainOK, DepthFits, OpenSession, EnterTransaction
  <2>3. ElsewhereOK'
    BY <1>1, TypeParts DEF Inv, ElsewhereOK, OpenSession, EnterTransaction
  <2>4. MarkedFirst' /\ StillTrue' /\ Sampled'
    BY <1>1 DEF Inv, TypeOK, MarkedFirst, StillTrue, Sampled, InTransaction, OpenSession, EnterTransaction
  <2>5. Unwinding' /\ (queued <= presses)' /\ (pc = "dropped" => regions # <<>>)' /\ Exited'
    BY <1>1, NotExited DEF Inv, TypeOK, MarkedFirst, Unwinding, OpenSession, EnterTransaction
  <2>. QED  BY <2>1, <2>2, <2>3, <2>4, <2>5, TypeParts DEF Inv
<1>2. ASSUME NEW k \in {"read", "describe", "access"}, StartAccess(k)
      PROVE  Inv'
  <2>1. MainOK'
    BY <1>2, TypeParts, BoundsAssumption DEF Inv, MainOK, StartAccess, EnterTransaction, MayGoOn
  <2>2. DepthFits'
    BY <1>2, TypeParts DEF Inv, MainOK, DepthFits, StartAccess, EnterTransaction, MayGoOn
  <2>3. ElsewhereOK'
    BY <1>2, TypeParts DEF Inv, ElsewhereOK, StartAccess, EnterTransaction, MayGoOn
  <2>4. MarkedFirst' /\ StillTrue' /\ Sampled'
    BY <1>2 DEF Inv, TypeOK, MarkedFirst, StillTrue, Sampled, InTransaction, StartAccess, EnterTransaction, MayGoOn
  <2>5. Unwinding' /\ (queued <= presses)' /\ (pc = "dropped" => regions # <<>>)' /\ Exited'
    BY <1>2, NotExited DEF Inv, TypeOK, MarkedFirst, Unwinding, StartAccess, EnterTransaction, MayGoOn
  <2>. QED  BY <2>1, <2>2, <2>3, <2>4, <2>5, TypeParts DEF Inv
<1>3. CASE MarkWriteSent
  <2>1. MainOK'
    BY <1>3, TypeParts, BoundsAssumption DEF Inv, MainOK, MarkWriteSent, MayGoOn
  <2>2. DepthFits'
    BY <1>3, TypeParts DEF Inv, MainOK, DepthFits, MarkWriteSent, MayGoOn
  <2>3. ElsewhereOK'
    BY <1>3, TypeParts DEF Inv, ElsewhereOK, MarkWriteSent, MayGoOn
  <2>4. MarkedFirst' /\ StillTrue' /\ Sampled'
    BY <1>3 DEF Inv, TypeOK, MarkedFirst, StillTrue, Sampled, InTransaction, MarkWriteSent, MayGoOn
  <2>5. Unwinding' /\ (queued <= presses)' /\ (pc = "dropped" => regions # <<>>)' /\ Exited'
    BY <1>3, NotExited DEF Inv, TypeOK, MarkedFirst, Unwinding, MarkWriteSent, MayGoOn
  <2>. QED  BY <2>1, <2>2, <2>3, <2>4, <2>5, TypeParts DEF Inv
<1>4. CASE StartWrite
  <2>1. MainOK'
    BY <1>4, TypeParts, BoundsAssumption DEF Inv, MainOK, StartWrite, EnterTransaction
  <2>2. DepthFits'
    BY <1>4, TypeParts DEF Inv, MainOK, DepthFits, StartWrite, EnterTransaction
  <2>3. ElsewhereOK'
    BY <1>4, TypeParts DEF Inv, ElsewhereOK, StartWrite, EnterTransaction
  <2>4. MarkedFirst' /\ StillTrue' /\ Sampled'
    BY <1>4 DEF Inv, TypeOK, MarkedFirst, StillTrue, Sampled, InTransaction, StartWrite, EnterTransaction
  <2>5. Unwinding' /\ (queued <= presses)' /\ (pc = "dropped" => regions # <<>>)' /\ Exited'
    BY <1>4, NotExited DEF Inv, TypeOK, MarkedFirst, Unwinding, StartWrite, EnterTransaction
  <2>. QED  BY <2>1, <2>2, <2>3, <2>4, <2>5, TypeParts DEF Inv
<1>5. CASE BeginTransfer
  <2>1. MainOK'
    BY <1>5, TypeParts, BoundsAssumption DEF Inv, MainOK, BeginTransfer
  <2>2. DepthFits'
    BY <1>5, TypeParts DEF Inv, MainOK, DepthFits, BeginTransfer
  <2>3. ElsewhereOK'
    BY <1>5, TypeParts DEF Inv, ElsewhereOK, BeginTransfer
  <2>4. MarkedFirst' /\ StillTrue' /\ Sampled'
    BY <1>5 DEF Inv, TypeOK, MarkedFirst, StillTrue, Sampled, InTransaction, BeginTransfer
  <2>5. Unwinding' /\ (queued <= presses)' /\ (pc = "dropped" => regions # <<>>)' /\ Exited'
    BY <1>5, NotExited DEF Inv, TypeOK, MarkedFirst, Unwinding, BeginTransfer
  <2>. QED  BY <2>1, <2>2, <2>3, <2>4, <2>5, TypeParts DEF Inv
<1>6. CASE EndTransfer
  <2>1. MainOK'
    BY <1>6, TypeParts, BoundsAssumption DEF Inv, MainOK, EndTransfer
  <2>2. DepthFits'
    BY <1>6, TypeParts DEF Inv, MainOK, DepthFits, EndTransfer
  <2>3. ElsewhereOK'
    <3>1. /\ UNCHANGED handlerVars /\ UNCHANGED userVars /\ UNCHANGED exitVars
          /\ UNCHANGED <<dispatched, late, guarded, owed>>
          /\ spans' \in BOOLEAN /\ pressed' \in Nat
      BY <1>6 DEF EndTransfer
    <3>2. ElsewhereOK
      BY TypeParts DEF Inv
    <3>. QED  BY <3>1, <3>2 DEF ElsewhereOK
  <2>4. MarkedFirst' /\ StillTrue' /\ Sampled'
    BY <1>6 DEF Inv, TypeOK, MarkedFirst, StillTrue, Sampled, InTransaction, EndTransfer
  <2>5. Unwinding' /\ (queued <= presses)' /\ (pc = "dropped" => regions # <<>>)' /\ Exited'
    BY <1>6, NotExited DEF Inv, TypeOK, MarkedFirst, Unwinding, EndTransfer
  <2>. QED  BY <2>1, <2>2, <2>3, <2>4, <2>5, TypeParts DEF Inv
<1>7. CASE LeaveTransaction
  <2>1. MainOK'
    BY <1>7, TypeParts, BoundsAssumption DEF Inv, MainOK, LeaveTransaction
  <2>2. DepthFits'
    BY <1>7, TypeParts DEF Inv, MainOK, DepthFits, LeaveTransaction
  <2>3. ElsewhereOK'
    BY <1>7, TypeParts DEF Inv, ElsewhereOK, LeaveTransaction
  <2>4. MarkedFirst' /\ StillTrue' /\ Sampled'
    BY <1>7 DEF Inv, TypeOK, MarkedFirst, StillTrue, Sampled, InTransaction, LeaveTransaction
  <2>5. Unwinding' /\ (queued <= presses)' /\ (pc = "dropped" => regions # <<>>)' /\ Exited'
    BY <1>7, NotExited DEF Inv, TypeOK, MarkedFirst, Unwinding, LeaveTransaction
  <2>. QED  BY <2>1, <2>2, <2>3, <2>4, <2>5, TypeParts DEF Inv
<1>8. CASE AfterTransaction
  <2>1. MainOK'
    BY <1>8, TypeParts, BoundsAssumption, SMTT(40) DEF Inv, MainOK, AfterTransaction, Interrupted
  <2>2. DepthFits'
    BY <1>8, TypeParts DEF Inv, MainOK, DepthFits, AfterTransaction, Interrupted
  <2>3. ElsewhereOK'
    BY <1>8, TypeParts DEF Inv, ElsewhereOK, AfterTransaction, Interrupted
  <2>4. MarkedFirst' /\ StillTrue' /\ Sampled'
    BY <1>8 DEF Inv, TypeOK, MarkedFirst, StillTrue, Sampled, InTransaction, AfterTransaction, Interrupted
  <2>5. Unwinding' /\ (queued <= presses)' /\ (pc = "dropped" => regions # <<>>)' /\ Exited'
    BY <1>8, NotExited DEF Inv, TypeOK, MarkedFirst, Unwinding, AfterTransaction, Interrupted
  <2>. QED  BY <2>1, <2>2, <2>3, <2>4, <2>5, TypeParts DEF Inv
<1>9. CASE ReadInstead
  <2>1. MainOK'
    BY <1>9, TypeParts, BoundsAssumption DEF Inv, Describing, MainOK, ReadInstead, EnterTransaction
  <2>2. DepthFits'
    BY <1>9, TypeParts DEF Inv, MainOK, DepthFits, ReadInstead, EnterTransaction
  <2>3. ElsewhereOK'
    BY <1>9, TypeParts DEF Inv, ElsewhereOK, ReadInstead
  <2>4. MarkedFirst' /\ StillTrue' /\ Sampled'
    BY <1>9 DEF Inv, TypeOK, MarkedFirst, StillTrue, Sampled, InTransaction, ReadInstead, EnterTransaction
  <2>5. Unwinding' /\ (queued <= presses)' /\ (pc = "dropped" => regions # <<>>)' /\ Exited'
    BY <1>9, NotExited DEF Inv, TypeOK, MarkedFirst, Unwinding, ReadInstead, EnterTransaction
  <2>. QED  BY <2>1, <2>2, <2>3, <2>4, <2>5, TypeParts DEF Inv
<1>. QED  BY <1>1, <1>2, <1>3, <1>4, <1>5, <1>6, <1>7, <1>8, <1>9

LEMMA RegionKeepsInv ==
  ASSUME Inv, Alive, Describing', (\E r \in Regions : EnterRegion(r)) \/ DropRegion \/ DrainRegion
  PROVE  Inv'
<1>1. ASSUME NEW r \in Regions, EnterRegion(r)
      PROVE  Inv'
  <2>1. MainOK'
    BY <1>1, TypeParts, BoundsAssumption DEF Inv, MainOK, EnterRegion, MayGoOn, MayEnter
  <2>2. DepthFits'
    BY <1>1, TypeParts DEF Inv, MainOK, DepthFits, EnterRegion, MayGoOn, MayEnter
  <2>3. ElsewhereOK'
    BY <1>1, TypeParts DEF Inv, ElsewhereOK, EnterRegion, MayGoOn, MayEnter
  <2>4. MarkedFirst' /\ StillTrue' /\ Sampled'
    BY <1>1 DEF Inv, TypeOK, MarkedFirst, StillTrue, Sampled, InTransaction, EnterRegion, MayGoOn, MayEnter
  <2>5. Unwinding' /\ (queued <= presses)' /\ (pc = "dropped" => regions # <<>>)' /\ Exited'
    BY <1>1, NotExited DEF Inv, TypeOK, MarkedFirst, Unwinding, EnterRegion, MayGoOn, MayEnter
  <2>. QED  BY <2>1, <2>2, <2>3, <2>4, <2>5, TypeParts DEF Inv
<1>2. CASE DropRegion
  <2>1. MainOK'
    <3>1. depth' = depth - 1 /\ depth = Len(regions) /\ Len(regions) > 0
      BY <1>2, TypeParts DEF Inv, MainOK, DepthFits, DropRegion
    <3>2. /\ UNCHANGED <<inFlight, writeSent, seen, kind, callVars, searching>>
          /\ pc' = "dropped" /\ failure' \in Failures
      BY <1>2 DEF DropRegion
    <3>. QED  BY <3>1, <3>2, TypeParts DEF Inv, MainOK
  <2>2. DepthFits'
    BY <1>2, TypeParts DEF Inv, MainOK, DepthFits, DropRegion, Result
  <2>3. ElsewhereOK'
    BY <1>2, TypeParts DEF Inv, ElsewhereOK, DropRegion, Result
  <2>4. MarkedFirst' /\ StillTrue' /\ Sampled'
    BY <1>2 DEF Inv, TypeOK, MarkedFirst, StillTrue, Sampled, InTransaction, DropRegion, Result
  <2>5. Unwinding' /\ (queued <= presses)' /\ (pc = "dropped" => regions # <<>>)' /\ Exited'
    BY <1>2, NotExited DEF Inv, TypeOK, MarkedFirst, Unwinding, DropRegion, Result
  <2>. QED  BY <2>1, <2>2, <2>3, <2>4, <2>5, TypeParts DEF Inv
<1>3. CASE DrainRegion
  <2>1. MainOK'
    <3>1. regions \in Seq(Regions) /\ regions # <<>>
      BY <1>3, TypeParts DEF Inv, MainOK, DrainRegion
    <3>2. regions' \in Seq(Regions)
      BY <1>3, <3>1 DEF DrainRegion
    <3>3. seen' \in 0..MaxSeen /\ failure' \in Failures
      BY <1>3, TypeParts, SMTT(40) DEF Inv, MainOK, DrainRegion, DrainWrite, DrainScope, Interrupted
    <3>4. UNCHANGED <<inFlight, depth, writeSent, kind, sessions, transactions, searching>>
          /\ pc' = "idle"
      BY <1>3 DEF DrainRegion
    <3>. QED  BY <3>2, <3>3, <3>4, TypeParts DEF Inv, MainOK
  <2>2. DepthFits'
    BY <1>3, TypeParts DEF Inv, MainOK, DepthFits, DrainRegion, DrainWrite, DrainScope, Interrupted
  <2>3. ElsewhereOK'
    BY <1>3, TypeParts DEF Inv, ElsewhereOK, DrainRegion, DrainWrite, DrainScope, Interrupted
  <2>4. MarkedFirst' /\ StillTrue' /\ Sampled'
    BY <1>3 DEF Inv, TypeOK, MarkedFirst, StillTrue, Sampled, InTransaction, DrainRegion, DrainWrite, DrainScope, Interrupted
  <2>5. Unwinding' /\ (queued <= presses)' /\ (pc = "dropped" => regions # <<>>)' /\ Exited'
    BY <1>3, NotExited DEF Inv, TypeOK, MarkedFirst, Unwinding, DrainRegion, DrainWrite, DrainScope, Interrupted
  <2>. QED  BY <2>1, <2>2, <2>3, <2>4, <2>5, TypeParts DEF Inv
<1>. QED  BY <1>1, <1>2, <1>3

LEMMA EndKeepsInv ==
  ASSUME Inv, Alive, Describing', CloseSession \/ BeginReconnect \/ JudgeCandidate
  PROVE  Inv'
<1>1. CASE CloseSession
  <2>1. MainOK'
    BY <1>1, TypeParts, BoundsAssumption DEF Inv, MainOK, CloseSession, EnterTransaction
  <2>2. DepthFits'
    BY <1>1, TypeParts DEF Inv, MainOK, DepthFits, CloseSession, EnterTransaction
  <2>3. ElsewhereOK'
    BY <1>1, TypeParts DEF Inv, ElsewhereOK, CloseSession, EnterTransaction
  <2>4. MarkedFirst' /\ StillTrue' /\ Sampled'
    BY <1>1 DEF Inv, TypeOK, MarkedFirst, StillTrue, Sampled, InTransaction, CloseSession, EnterTransaction
  <2>5. Unwinding' /\ (queued <= presses)' /\ (pc = "dropped" => regions # <<>>)' /\ Exited'
    BY <1>1, NotExited DEF Inv, TypeOK, MarkedFirst, Unwinding, CloseSession, EnterTransaction
  <2>. QED  BY <2>1, <2>2, <2>3, <2>4, <2>5, TypeParts DEF Inv
<1>2. CASE BeginReconnect
  <2>1. MainOK'
    BY <1>2, TypeParts, BoundsAssumption DEF Inv, MainOK, BeginReconnect
  <2>2. DepthFits'
    BY <1>2, TypeParts DEF Inv, MainOK, DepthFits, BeginReconnect
  <2>3. ElsewhereOK'
    BY <1>2, TypeParts DEF Inv, ElsewhereOK, BeginReconnect
  <2>4. MarkedFirst' /\ StillTrue' /\ Sampled'
    BY <1>2 DEF Inv, TypeOK, MarkedFirst, StillTrue, Sampled, InTransaction, BeginReconnect
  <2>5. Unwinding' /\ (queued <= presses)' /\ (pc = "dropped" => regions # <<>>)' /\ Exited'
    BY <1>2, NotExited DEF Inv, TypeOK, MarkedFirst, Unwinding, BeginReconnect
  <2>. QED  BY <2>1, <2>2, <2>3, <2>4, <2>5, TypeParts DEF Inv
<1>3. CASE JudgeCandidate
  <2>1. MainOK'
    BY <1>3, TypeParts, BoundsAssumption DEF Inv, MainOK, JudgeCandidate, EnterTransaction
  <2>2. DepthFits'
    BY <1>3, TypeParts DEF Inv, MainOK, DepthFits, JudgeCandidate, EnterTransaction
  <2>3. ElsewhereOK'
    BY <1>3, TypeParts DEF Inv, ElsewhereOK, JudgeCandidate, EnterTransaction
  <2>4. MarkedFirst' /\ StillTrue' /\ Sampled'
    <3>1. /\ UNCHANGED <<writeSent, depth, dispatched, handlerVars, late, spans, guarded>>
          /\ pc = "idle"
          /\ pc' \in {"idle", "entered", "closed"}
          /\ pc' = "entered" => inFlight' /\ kind' = "close"
      BY <1>3 DEF JudgeCandidate, EnterTransaction
    <3>. QED  BY <3>1 DEF Inv, TypeOK, MarkedFirst, StillTrue, Sampled, InTransaction
  <2>5. Unwinding' /\ (queued <= presses)' /\ (pc = "dropped" => regions # <<>>)' /\ Exited'
    BY <1>3, NotExited DEF Inv, TypeOK, MarkedFirst, Unwinding, JudgeCandidate, EnterTransaction
  <2>. QED  BY <2>1, <2>2, <2>3, <2>4, <2>5, TypeParts DEF Inv
<1>. QED  BY <1>1, <1>2, <1>3

LEMMA MainExitsKeepsInv == ASSUME Inv, Alive, Describing', MainExits PROVE Inv'
<1>1. UNCHANGED <<latchVars, mainVars, handlerVars, userVars, historyVars>>
      /\ exitBy' = "main"
      /\ exit' = IF searching THEN 3 ELSE ExitCode(failure)
  BY DEF MainExits
<1>2. exit' \in {0, 1, 3, 130} /\ (exit' = 130 => failure = "interrupted")
  <2>1. failure \in Failures \ {"refused"}
    BY DEF MainExits, Inv, TypeOK, Describing
  <2>. QED  BY <1>1, <2>1 DEF ExitCode
<1>3. exit' = 130 => ~dispatched
  BY <1>2 DEF Inv, Unwinding, MarkedFirst
<1>4. Exited'
  BY <1>1, <1>2, <1>3 DEF Exited, HandlerReportsWrite, FirstPressWaits,
     CleanStopMeansUntouched, HandlerExited
<1>5. TypeOK'
  BY <1>1, <1>2 DEF Inv, TypeOK
<1>. QED  BY <1>1, <1>4, <1>5
     DEF Inv, MarkedFirst, StillTrue, Sampled, Unwinding, InTransaction

LEMMA HandlerExitsKeepsInv == ASSUME Inv, Alive, Describing', HandlerExits PROVE Inv'
<1>1. UNCHANGED <<latchVars, mainVars, handlerVars, userVars, historyVars>>
      /\ exitBy' = "handler" /\ exit' = code /\ handler = "quit"
  BY DEF HandlerExits
<1>2. Exited'
  BY <1>1 DEF Inv, Sampled, Exited, HandlerReportsWrite, FirstPressWaits,
     CleanStopMeansUntouched, HandlerExited
<1>3. TypeOK'
  BY <1>1 DEF Inv, TypeOK
<1>. QED  BY <1>1, <1>2, <1>3
     DEF Inv, MarkedFirst, StillTrue, Sampled, Unwinding, InTransaction

LEMMA HandlerKeepsInv ==
  ASSUME Inv, Alive, Describing',
         SampleWriteSent \/ LoadInFlight \/ LoadDepth \/ RecordInterrupt
           \/ JudgeInterrupt
  PROVE  Inv'
<1>1. CASE SampleWriteSent
  <2>1. MainOK' /\ DepthFits'
    BY <1>1, TypeParts DEF Inv, MainOK, DepthFits, SampleWriteSent
  <2>2. ElsewhereOK'
    <3>1. MainOK /\ ElsewhereOK
      BY TypeParts DEF Inv
    <3>2. queued' \in 0..MaxPresses
      BY <1>1, <3>1, BoundsAssumption DEF ElsewhereOK, SampleWriteSent
    <3>3. /\ UNCHANGED <<seenThen, code, presses, exit, exitBy, dispatched, owed, pressed>>
          /\ wroteThen' = writeSent /\ handler' = "flight" /\ late' = dispatched
          /\ spans' \in BOOLEAN /\ guarded' \in BOOLEAN
      BY <1>1 DEF SampleWriteSent
    <3>. QED  BY <3>1, <3>2, <3>3 DEF MainOK, ElsewhereOK
  <2>3. MarkedFirst' /\ StillTrue'
    BY <1>1, TypeParts DEF Inv, MainOK, MarkedFirst, StillTrue, InTransaction, SampleWriteSent
  <2>4. Sampled'
    BY <1>1, TypeParts DEF Inv, MainOK, ElsewhereOK, MarkedFirst, StillTrue, Sampled, InTransaction, SampleWriteSent
  <2>5. Unwinding' /\ (queued <= presses)' /\ (pc = "dropped" => regions # <<>>)' /\ Exited'
    BY <1>1, NotExited, TypeParts DEF Inv, ElsewhereOK, Unwinding, SampleWriteSent
  <2>. QED  BY <2>1, <2>2, <2>3, <2>4, <2>5, TypeParts DEF Inv
<1>2. CASE LoadInFlight
  <2>1. MainOK' /\ DepthFits'
    BY <1>2, TypeParts DEF Inv, MainOK, DepthFits, LoadInFlight
  <2>2. ElsewhereOK'
    BY <1>2, TypeParts DEF Inv, MainOK, ElsewhereOK, LoadInFlight
  <2>3. MarkedFirst' /\ StillTrue'
    BY <1>2, TypeParts DEF Inv, MainOK, MarkedFirst, StillTrue, InTransaction, LoadInFlight
  <2>4. Sampled'
    BY <1>2, TypeParts DEF Inv, MainOK, ElsewhereOK, MarkedFirst, StillTrue, Sampled, InTransaction, LoadInFlight
  <2>5. Unwinding' /\ (queued <= presses)' /\ (pc = "dropped" => regions # <<>>)' /\ Exited'
    BY <1>2, NotExited, TypeParts DEF Inv, ElsewhereOK, Unwinding, LoadInFlight
  <2>. QED  BY <2>1, <2>2, <2>3, <2>4, <2>5, TypeParts DEF Inv
<1>3. CASE LoadDepth
  <2>1. MainOK' /\ DepthFits'
    BY <1>3, TypeParts DEF Inv, MainOK, DepthFits, LoadDepth, InterruptExitCode
  <2>2. ElsewhereOK'
    BY <1>3, TypeParts, SMTT(40) DEF Inv, MainOK, ElsewhereOK, LoadDepth, InterruptExitCode
  <2>3. MarkedFirst' /\ StillTrue'
    BY <1>3, TypeParts DEF Inv, MainOK, MarkedFirst, StillTrue, InTransaction, LoadDepth, InterruptExitCode
  <2>4. Sampled'
    BY <1>3, TypeParts DEF Inv, MainOK, ElsewhereOK, MarkedFirst, StillTrue, Sampled, InTransaction, LoadDepth, InterruptExitCode
  <2>5. Unwinding' /\ (queued <= presses)' /\ (pc = "dropped" => regions # <<>>)' /\ Exited'
    BY <1>3, NotExited, TypeParts DEF Inv, ElsewhereOK, Unwinding, LoadDepth, InterruptExitCode
  <2>. QED  BY <2>1, <2>2, <2>3, <2>4, <2>5, TypeParts DEF Inv
<1>4. CASE RecordInterrupt
  <2>1. MainOK' /\ DepthFits'
    <3>1. MainOK /\ DepthFits
      BY TypeParts DEF Inv
    <3>2. seen' \in 0..MaxSeen
      BY <1>4, <3>1 DEF MainOK, RecordInterrupt, Record
    <3>3. UNCHANGED <<inFlight, depth, writeSent>> /\ UNCHANGED mainVars
      BY <1>4 DEF RecordInterrupt
    <3>. QED  BY <3>1, <3>2, <3>3 DEF MainOK, DepthFits
  <2>2. ElsewhereOK'
    <3>1. regions \in Seq(Regions)
      BY TypeParts DEF Inv, MainOK
    <3>2. regions # <<>> => regions[Len(regions)] \in Regions
      BY <3>1
    <3>3. Owner \subseteq Regions \cup {"read", "search", "refused"}
      BY <3>2 DEF Owner
    <3>4. owed' \subseteq Regions \cup {"read", "search", "refused"}
      BY <1>4, <3>3, TypeParts DEF Inv, ElsewhereOK, RecordInterrupt
    <3>5. /\ handler' = "critical" /\ seenThen' = seen
          /\ UNCHANGED <<wroteThen, code, userVars, exitVars, dispatched, late,
                         spans, guarded, pressed>>
      BY <1>4 DEF RecordInterrupt, Record
    <3>. QED  BY <3>4, <3>5, TypeParts DEF Inv, MainOK, ElsewhereOK, userVars, exitVars
  <2>3. MarkedFirst' /\ StillTrue'
    BY <1>4, TypeParts DEF Inv, MainOK, MarkedFirst, StillTrue, InTransaction, RecordInterrupt, Record, Owner
  <2>4. Sampled'
    BY <1>4, TypeParts DEF Inv, MainOK, ElsewhereOK, MarkedFirst, StillTrue, Sampled, InTransaction, RecordInterrupt, Record, Owner
  <2>5. Unwinding' /\ (queued <= presses)' /\ (pc = "dropped" => regions # <<>>)' /\ Exited'
    BY <1>4, NotExited, TypeParts DEF Inv, ElsewhereOK, Unwinding, RecordInterrupt, Record, Owner
  <2>. QED  BY <2>1, <2>2, <2>3, <2>4, <2>5, TypeParts DEF Inv
<1>5. CASE JudgeInterrupt
  <2>1. MainOK' /\ DepthFits'
    BY <1>5, TypeParts DEF Inv, MainOK, DepthFits, JudgeInterrupt, InterruptExitCode
  <2>2. ElsewhereOK'
    BY <1>5, TypeParts DEF Inv, MainOK, ElsewhereOK, JudgeInterrupt, InterruptExitCode
  <2>3. MarkedFirst' /\ StillTrue'
    BY <1>5, TypeParts DEF Inv, MainOK, MarkedFirst, StillTrue, InTransaction, JudgeInterrupt, InterruptExitCode
  <2>4. Sampled'
    <3>1. seenThen \in 0..MaxSeen /\ Sampled
      BY TypeParts DEF Inv, ElsewhereOK
    <3>2. CASE seenThen = 0
      BY <1>5, <3>1, <3>2 DEF Sampled, JudgeInterrupt
    <3>3. CASE seenThen # 0
      <4>1. code' = IF depth > 0 \/ wroteThen THEN 3 ELSE 130
        BY <1>5, <3>3 DEF JudgeInterrupt, InterruptExitCode
      <4>2. /\ handler = "critical" /\ handler' = "quit"
            /\ UNCHANGED <<wroteThen, seenThen, late, spans, guarded>>
        BY <1>5, <3>3 DEF JudgeInterrupt
      <4>3. seenThen > 0
        BY <3>1, <3>3
      <4>. QED  BY <3>1, <4>1, <4>2, <4>3 DEF Sampled
    <3>. QED  BY <3>2, <3>3
  <2>5. Unwinding' /\ (queued <= presses)' /\ (pc = "dropped" => regions # <<>>)' /\ Exited'
    BY <1>5, NotExited, TypeParts DEF Inv, ElsewhereOK, Unwinding, JudgeInterrupt, InterruptExitCode
  <2>. QED  BY <2>1, <2>2, <2>3, <2>4, <2>5, TypeParts DEF Inv
<1>. QED  BY <1>1, <1>2, <1>3, <1>4, <1>5

LEMMA UserKeepsInv == ASSUME Inv, Alive, Describing', CtrlC PROVE Inv'
<1>1. CASE CtrlC
  <2>1. MainOK' /\ DepthFits'
    BY <1>1, TypeParts DEF Inv, MainOK, DepthFits, CtrlC
  <2>2. ElsewhereOK'
    <3>1. ElsewhereOK /\ queued <= presses
      BY TypeParts DEF Inv
    <3>2. queued' \in 0..MaxPresses /\ presses' \in 0..MaxPresses /\ pressed' \in Nat
      BY <1>1, <3>1, BoundsAssumption DEF ElsewhereOK, CtrlC
    <3>3. UNCHANGED <<handler, wroteThen, seenThen, code, exit, exitBy,
                      dispatched, late, spans, guarded, owed>>
      BY <1>1 DEF CtrlC
    <3>. QED  BY <3>1, <3>2, <3>3 DEF ElsewhereOK
  <2>3. MarkedFirst' /\ StillTrue'
    BY <1>1, TypeParts DEF Inv, MainOK, MarkedFirst, StillTrue, InTransaction, CtrlC
  <2>4. Sampled'
    BY <1>1, TypeParts DEF Inv, MainOK, ElsewhereOK, MarkedFirst, StillTrue, Sampled, InTransaction, CtrlC
  <2>5. Unwinding' /\ (queued <= presses)' /\ (pc = "dropped" => regions # <<>>)' /\ Exited'
    BY <1>1, NotExited, TypeParts DEF Inv, ElsewhereOK, Unwinding, CtrlC
  <2>. QED  BY <2>1, <2>2, <2>3, <2>4, <2>5, TypeParts DEF Inv
<1>. QED  BY <1>1

THEOREM Invariance == Spec => []Inv
<1>1. Init => Inv
  <2>. SUFFICES ASSUME Init PROVE Inv
    OBVIOUS
  <2>1. MainOK /\ DepthFits
    <3>1. /\ depth \in Nat /\ seen \in 0..MaxSeen /\ sessions \in 0..MaxSessions
          /\ transactions \in 0..MaxTransactions
          /\ regions \in Seq(Regions) /\ depth = Len(regions)
      BY BoundsAssumption DEF Init
    <3>. QED  BY <3>1 DEF Init, MainOK, DepthFits
  <2>2. ElsewhereOK
    <3>1. /\ seenThen \in 0..MaxSeen /\ code \in {0, 3, 130}
          /\ queued \in 0..MaxPresses /\ presses \in 0..MaxPresses
          /\ exit \in {0, 1, 3, 130, Running} /\ pressed \in Nat
      BY BoundsAssumption DEF Init
    <3>. QED  BY <3>1 DEF Init, ElsewhereOK
  <2>3. MarkedFirst /\ StillTrue /\ Sampled /\ Unwinding /\ Describing
    BY DEF Init, MarkedFirst, StillTrue, Sampled, Unwinding, Describing, InTransaction
  <2>4. Exited
    BY DEF Init, Exited, HandlerReportsWrite, FirstPressWaits,
       CleanStopMeansUntouched, HandlerExited
  <2>. QED  BY <2>1, <2>2, <2>3, <2>4, TypeParts DEF Inv, Init
<1>2. Inv /\ [Next]_vars => Inv'
  <2>. SUFFICES ASSUME Inv, [Next]_vars PROVE Inv'
    OBVIOUS
  <2>1. CASE Main
    BY <2>1, DescribingNext, TransactionKeepsInv, RegionKeepsInv, EndKeepsInv,
       MainExitsKeepsInv DEF Next, Main, MainStep
  <2>2. CASE Handler
    BY <2>2, DescribingNext, HandlerKeepsInv, HandlerExitsKeepsInv
       DEF Next, Handler, HandlerStep
  <2>3. CASE User
    BY <2>3, DescribingNext, UserKeepsInv DEF Next, User
  <2>4. CASE UNCHANGED vars
    BY <2>4 DEF vars, Inv, TypeOK, MarkedFirst, StillTrue, Sampled, Unwinding,
       Describing, Exited, HandlerReportsWrite, FirstPressWaits, CleanStopMeansUntouched,
       HandlerExited, InTransaction
  <2>. QED  BY <2>1, <2>2, <2>3, <2>4 DEF Next
<1>. QED  BY <1>1, <1>2, PTL DEF Spec

\* The latch and both threads stay in the states the code has.
THEOREM TypeCorrect == Spec => []TypeOK
<1>1. Inv => TypeOK
  BY DEF Inv
<1>. QED  BY <1>1, Invariance, PTL

\* mark_camera_write_sent comes before the dispatch and the sample before every
\* decision: a Ctrl-C handled after a write was sent exits 3.
THEOREM WriteIsReported == Spec => []HandlerReportsWrite
<1>1. Inv => HandlerReportsWrite
  BY DEF Inv, Exited
<1>. QED  BY <1>1, Invariance, PTL

\* is_deferring: the transfer or the region that was under way when the handler
\* began is only abandoned by a Ctrl-C that finds another one pending.
THEOREM FirstPressIsDeferred == Spec => []FirstPressWaits
<1>1. Inv => FirstPressWaits
  BY DEF Inv, Exited
<1>. QED  BY <1>1, Invariance, PTL

\* after_transaction and the drains: an exit with 130 by the main thread means
\* that no camera write was sent.
THEOREM CleanStopIsClean == Spec => []CleanStopMeansUntouched
<1>1. Inv => CleanStopMeansUntouched
  BY DEF Inv, Exited
<1>. QED  BY <1>1, Invariance, PTL
-----------------------------------------------------------------------------
(* What an interrupt is owed.                                              *)

\* Regions nest as the commands nest them, and never around a session.
Nested ==
    /\ regions \in {<<>>, <<"write">>, <<"temporary">>, <<"restored", "write">>}
    /\ regions # <<>> => ~searching /\ pc # "closed"
    /\ InTransaction /\ kind \in SessionControl => regions = <<>>
    /\ pc = "marked" => regions # <<>>
    /\ searching => sessions >= 1 /\ (sessions = 1 => pc = "closed")

\* Recorded in a region, it is pending until the region has drained it into
\* the result; nothing but the reconnect search would drop that.
RegionRemembers ==
    owed \cap {"write", "temporary"} # {} =>
        \/ failure \notin {"none", "refused"} /\ ~searching
        \/ seen > 0 /\ regions # <<>>

\* Recorded in a read, it is pending until the check after the transaction,
\* which turns it into an error, unless that is the refusal of a descriptor.
ReadRemembers ==
    "read" \in owed =>
        /\ regions = <<>> /\ ~searching
        /\ \/ failure # "none"
           \/ seen > 0 /\ (InTransaction \/ pc = "check") /\ kind \notin SessionControl

\* What the nesting makes of the region entered, drained or answering.
LEMMA NestingShape ==
  ASSUME Inv, Nested
  PROVE  /\ \A r \in Regions : MayEnter(r) =>
               <<r>> \o regions \in {<<"write">>, <<"temporary">>, <<"restored", "write">>}
         /\ regions # <<>> =>
               /\ Tail(regions) \in {<<>>, <<"write">>}
               /\ Tail(regions) = <<>> =>
                     Len(regions) = 1 /\ Head(regions) \in {"write", "temporary"}
               /\ Tail(regions) # <<>> => Len(regions) = 2 /\ Head(regions) = "restored"
               /\ regions[Len(regions)] \in {"write", "temporary"}
<1>1. ASSUME NEW r \in Regions, MayEnter(r)
      PROVE  <<r>> \o regions \in {<<"write">>, <<"temporary">>, <<"restored", "write">>}
  <2>1. \/ r = "write" /\ regions = <<>>
        \/ r = "temporary" /\ regions = <<>>
        \/ r = "restored" /\ regions = <<"write">>
    BY <1>1 DEF MayEnter
  <2>2. /\ <<"write">> \o <<>> = <<"write">> /\ <<"temporary">> \o <<>> = <<"temporary">>
        /\ <<"restored">> \o <<"write">> = <<"restored", "write">>
    <3> DEFINE both == <<"restored">> \o <<"write">>
    <3>1. both \in Seq(Regions) /\ Len(both) = 2 /\ both[1] = "restored" /\ both[2] = "write"
      OBVIOUS
    <3>2. <<"restored", "write">> \in Seq(Regions)
      OBVIOUS
    <3> HIDE DEF both
    <3>3. both = <<"restored", "write">>
      BY <3>1, <3>2, SeqEqual
    <3> QED
      BY <3>3 DEF both
  <2> QED
    BY <2>1, <2>2
<1>2. CASE regions = <<"write">>
  BY <1>1, <1>2
<1>3. CASE regions = <<"temporary">>
  BY <1>1, <1>3
<1>4. CASE regions = <<"restored", "write">>
  BY <1>1, <1>4
<1>5. CASE regions = <<>>
  BY <1>1, <1>5
<1> QED
  BY <1>2, <1>3, <1>4, <1>5 DEF Nested

\* The regions nest in every step.
LEMMA NestedNext == ASSUME Inv, Nested, Next PROVE Nested'
<1>1. CASE \E r \in Regions : EnterRegion(r)
  <2>1. PICK r \in Regions : EnterRegion(r)
    BY <1>1
  <2>2. /\ regions' \in {<<"write">>, <<"temporary">>, <<"restored", "write">>}
        /\ UNCHANGED <<pc, kind, searching, sessions>> /\ pc = "idle" /\ sessions = 1
    BY <2>1, NestingShape DEF EnterRegion, MayEnter, MayGoOn
  <2> QED
    BY <2>2 DEF Nested, InTransaction
<1>2. CASE DrainRegion
  <2>1. /\ pc = "dropped" /\ pc' = "idle" /\ regions # <<>> /\ regions' = Tail(regions)
        /\ UNCHANGED <<kind, searching, sessions>>
    BY <1>2 DEF DrainRegion, Inv
  <2>2. regions' \in {<<>>, <<"write">>}
    BY <2>1, NestingShape
  <2> QED
    BY <2>1, <2>2 DEF Nested, InTransaction
<1>3. CASE OpenSession
  <2>1. /\ pc = "closed" /\ pc' = "entered" /\ kind' = "open" /\ sessions' = sessions + 1
        /\ UNCHANGED <<regions, searching>> /\ (sessions = 0 \/ searching)
        /\ sessions \in Nat
    BY <1>3, BoundsAssumption DEF OpenSession, EnterTransaction, Inv, TypeOK
  <2>2. regions = <<>>
    BY <2>1 DEF Nested
  <2>3. searching => sessions' >= 1 /\ sessions' # 1
    BY <2>1 DEF Nested
  <2> QED
    BY <2>1, <2>2, <2>3 DEF Nested
<1>4. CASE BeginReconnect
  BY <1>4 DEF BeginReconnect, Nested, InTransaction
<1>5. CASE StartWrite \/ MarkWriteSent \/ ReadInstead
  BY <1>5 DEF ReadInstead, StartWrite, MarkWriteSent, EnterTransaction, MayGoOn, Nested, InTransaction
<1>6. CASE \E k \in {"read", "describe", "access"} : StartAccess(k)
  BY <1>6 DEF StartAccess, EnterTransaction, MayGoOn, Nested, InTransaction
<1>7. CASE BeginTransfer \/ EndTransfer \/ AfterTransaction \/ DropRegion
  BY <1>7 DEF BeginTransfer, EndTransfer, AfterTransaction, DropRegion, Nested, InTransaction
<1>8. CASE LeaveTransaction
  BY <1>8 DEF LeaveTransaction, Nested, InTransaction
<1>9. CASE CloseSession
  BY <1>9 DEF CloseSession, EnterTransaction, Nested, InTransaction
<1>10. CASE JudgeCandidate
  <2>1. /\ pc = "idle" /\ searching /\ pc' \in {"idle", "entered", "closed"}
        /\ UNCHANGED <<regions, sessions>>
        /\ searching' => searching
    BY <1>10 DEF JudgeCandidate, EnterTransaction
  <2> QED
    BY <2>1 DEF Nested, InTransaction
<1>11. CASE MainExits \/ Handler \/ User
  BY <1>11 DEF MainExits, Handler, HandlerStep, SampleWriteSent, LoadInFlight, LoadDepth,
     RecordInterrupt, JudgeInterrupt, HandlerExits, User, CtrlC, Nested, InTransaction
<1> QED
  BY <1>1, <1>2, <1>3, <1>4, <1>5, <1>6, <1>7, <1>8, <1>9, <1>10, <1>11 DEF Next, Main, MainStep

\* Only the handler records; what it records is owed by a region that is
\* active or by a read that is not over.
LEMMA Recorded ==
  ASSUME Inv, Nested, RecordInterrupt
  PROVE  /\ seen' > 0 /\ UNCHANGED <<pc, kind, regions, searching, failure>>
         /\ owed' \cap {"write", "temporary"} # {} =>
               owed \cap {"write", "temporary"} # {} \/ regions # <<>>
         /\ "read" \in owed' =>
               \/ "read" \in owed
               \/ regions = <<>> /\ ~searching /\ InTransaction /\ kind \notin SessionControl
<1>1. seen' > 0
  BY DEF RecordInterrupt, Record, Inv, TypeOK
<1>2. UNCHANGED <<pc, kind, regions, searching, failure>> /\ owed' = owed \cup Owner
  BY DEF RecordInterrupt
<1>3. "read" \in Owner => regions = <<>> /\ ~searching /\ InTransaction /\ kind \notin SessionControl
  BY NestingShape DEF Owner
<1>4. Owner \cap {"write", "temporary"} # {} => regions # <<>>
  BY DEF Owner
<1> QED
  BY <1>1, <1>2, <1>3, <1>4

LEMMA RegionRemembersNext == ASSUME Inv, Nested, RegionRemembers, Next PROVE RegionRemembers'
<1>1. CASE RecordInterrupt
  BY <1>1, Recorded DEF RegionRemembers
<1>2. CASE ReadInstead
  <2>1. regions = <<>> /\ failure = "refused"
    BY <1>2 DEF ReadInstead, Inv, Describing
  <2> QED
    BY <1>2, <2>1 DEF RegionRemembers, ReadInstead
<1>3. CASE ~RecordInterrupt /\ ~ReadInstead
  <2> SUFFICES ASSUME owed \cap {"write", "temporary"} # {}
               PROVE  \/ failure' \notin {"none", "refused"} /\ ~searching'
                      \/ seen' > 0 /\ regions' # <<>>
    <3>1. owed' = owed
      BY <1>3 DEF Next, Main, MainStep, OpenSession, StartAccess, MarkWriteSent, StartWrite,
         BeginTransfer, EndTransfer, LeaveTransaction, AfterTransaction, EnterRegion, DropRegion,
         DrainRegion, CloseSession, BeginReconnect, JudgeCandidate, MainExits, Handler, HandlerStep,
         SampleWriteSent, LoadInFlight, LoadDepth, JudgeInterrupt, HandlerExits, User, CtrlC
    <3> QED
      BY <3>1 DEF RegionRemembers
  <2>1. \/ failure \notin {"none", "refused"} /\ ~searching
        \/ seen > 0 /\ regions # <<>>
    BY DEF RegionRemembers
  <2>2. regions # <<>> => pc # "closed" /\ ~searching
    BY DEF Nested
  <2>3. CASE \E r \in Regions : EnterRegion(r)
    <3>1. PICK r \in Regions : EnterRegion(r)
      BY <2>3
    <3>2. regions' # <<>> /\ UNCHANGED <<failure, searching, seen>>
      BY <3>1, NestingShape DEF EnterRegion
    <3> QED
      BY <2>1, <3>2
  <2>4. CASE DrainRegion
    <3>1. /\ pc = "dropped" /\ regions # <<>> /\ regions' = Tail(regions) /\ UNCHANGED searching
          /\ depth = Len(regions) - 1 /\ seen \in Nat
      BY <2>4 DEF DrainRegion, Inv, TypeOK
    <3>2. CASE Tail(regions) = <<>>
      <4>1. depth = 0 /\ Head(regions) \in {"write", "temporary"}
        BY <3>1, <3>2, NestingShape
      <4>2. failure # "refused"
        BY <3>1 DEF Inv, Describing
      <4>3. failure = "none" => seen > 0
        BY <2>1
      <4>4. failure' \notin {"none", "refused"}
        BY <2>4, <4>1, <4>2, <4>3, <3>1 DEF DrainRegion, DrainWrite, DrainScope, Interrupted
      <4> QED
        BY <2>2, <3>1, <4>4
    <3>3. CASE Tail(regions) # <<>>
      <4>1. depth > 0 /\ Head(regions) = "restored"
        BY <3>1, <3>3, NestingShape
      <4>2. UNCHANGED <<failure, seen>>
        BY <2>4, <4>1 DEF DrainRegion, DrainScope
      <4> QED
        BY <2>1, <3>1, <3>3, <4>2
    <3> QED
      BY <3>2, <3>3
  <2>5. CASE AfterTransaction
    <3>1. UNCHANGED <<regions, searching>> /\ pc = "check" /\ seen \in Nat /\ depth = Len(regions)
      BY <2>5 DEF AfterTransaction, Inv, TypeOK
    <3>2. CASE regions = <<>>
      BY <2>1, <2>5, <3>1, <3>2 DEF AfterTransaction, Interrupted
    <3>3. CASE regions # <<>>
      <4>1. depth > 0
        BY <3>1, <3>3, NestingShape DEF Inv, TypeOK
      <4> QED
        BY <2>1, <2>5, <3>1, <4>1 DEF AfterTransaction
    <3> QED
      BY <3>2, <3>3
  <2>6. CASE DropRegion
    BY <2>1, <2>6 DEF DropRegion, Result
  <2>7. CASE EndTransfer
    BY <2>1, <2>7 DEF EndTransfer, Inv, Describing
  <2>8. CASE LeaveTransaction \/ OpenSession \/ BeginReconnect \/ JudgeCandidate
    BY <2>1, <2>2, <2>8 DEF LeaveTransaction, OpenSession, BeginReconnect,
       JudgeCandidate, EnterTransaction
  <2>9. CASE \/ \E k \in {"read", "describe", "access"} : StartAccess(k)
             \/ MarkWriteSent \/ StartWrite \/ BeginTransfer \/ CloseSession \/ MainExits
    BY <2>1, <2>9 DEF StartAccess, MarkWriteSent, StartWrite, BeginTransfer, CloseSession, MainExits,
       EnterTransaction
  <2>10. CASE Handler \/ User
    BY <1>3, <2>1, <2>10 DEF Handler, HandlerStep, SampleWriteSent, LoadInFlight, LoadDepth,
       JudgeInterrupt, HandlerExits, User, CtrlC
  <2> QED
    BY <1>3, <2>3, <2>4, <2>5, <2>6, <2>7, <2>8, <2>9, <2>10 DEF Next, Main, MainStep
<1> QED
  BY <1>1, <1>2, <1>3

LEMMA ReadRemembersNext == ASSUME Inv, Nested, ReadRemembers, Next PROVE ReadRemembers'
<1>1. CASE RecordInterrupt
  BY <1>1, Recorded DEF ReadRemembers, InTransaction
<1>2. CASE ReadInstead
  BY <1>2 DEF ReadRemembers, ReadInstead
<1>3. CASE ~RecordInterrupt /\ ~ReadInstead
  <2> DEFINE Pending == seen > 0 /\ (InTransaction \/ pc = "check") /\ kind \notin SessionControl
  <2> SUFFICES ASSUME "read" \in owed
               PROVE  /\ regions' = <<>> /\ ~searching'
                      /\ failure' # "none" \/ Pending'
    <3>1. owed' = owed
      BY <1>3 DEF Next, Main, MainStep, OpenSession, StartAccess, MarkWriteSent, StartWrite,
         BeginTransfer, EndTransfer, LeaveTransaction, AfterTransaction, EnterRegion, DropRegion,
         DrainRegion, CloseSession, BeginReconnect, JudgeCandidate, MainExits, Handler, HandlerStep,
         SampleWriteSent, LoadInFlight, LoadDepth, JudgeInterrupt, HandlerExits, User, CtrlC
    <3> QED
      BY <3>1 DEF ReadRemembers
  <2>1. /\ regions = <<>> /\ ~searching
        /\ failure # "none" \/ Pending
    BY DEF ReadRemembers
  <2>2. /\ ~DrainRegion /\ ~DropRegion /\ ~MarkWriteSent /\ ~StartWrite
        /\ ~OpenSession /\ ~BeginReconnect /\ ~JudgeCandidate
        /\ \A k : ~StartAccess(k)
        /\ \A r : ~EnterRegion(r)
    BY <2>1 DEF DrainRegion, DropRegion, MarkWriteSent, StartWrite, OpenSession, BeginReconnect,
       JudgeCandidate, StartAccess, EnterRegion, MayGoOn, Inv, Nested, InTransaction
  <2>3. CASE AfterTransaction
    <3>1. depth = 0 /\ seen \in Nat
      BY <2>1, <2>3 DEF AfterTransaction, Inv, TypeOK
    <3> QED
      BY <2>1, <2>3, <3>1 DEF AfterTransaction, Interrupted
  <2>4. CASE LeaveTransaction
    BY <2>1, <2>4 DEF LeaveTransaction, InTransaction
  <2>5. CASE BeginTransfer \/ EndTransfer
    BY <2>1, <2>5 DEF BeginTransfer, EndTransfer, InTransaction
  <2>6. CASE CloseSession \/ MainExits
    BY <2>1, <2>6 DEF CloseSession, MainExits, EnterTransaction, InTransaction
  <2>7. CASE Handler \/ User
    BY <1>3, <2>1, <2>7 DEF Handler, HandlerStep, SampleWriteSent, LoadInFlight, LoadDepth,
       JudgeInterrupt, HandlerExits, User, CtrlC, InTransaction
  <2> QED
    BY <1>3, <2>2, <2>3, <2>4, <2>5, <2>6, <2>7 DEF Next, Main, MainStep
<1> QED
  BY <1>1, <1>2, <1>3

\* The exit status remembers what the interrupt was owed.
LEMMA ForgetsNothing ==
  ASSUME Inv, Nested, RegionRemembers, ReadRemembers, InterruptNotForgotten, Next
  PROVE  InterruptNotForgotten'
<1>1. exitBy = "nobody"
  BY AliveHasNotExited DEF Next, Main, Handler, User
<1>2. CASE MainExits
  <2>1. /\ pc = "closed" /\ owed' = owed /\ failure \in {"none", "plain", "unknown", "interrupted",
                                                       "interruptedAfterWrite"}
        /\ exit' = IF searching THEN 3 ELSE ExitCode(failure)
    BY <1>2 DEF MainExits, Inv, TypeOK, Describing
  <2>2. owed \cap {"read", "write", "temporary"} # {} => failure # "none"
    BY <2>1 DEF RegionRemembers, ReadRemembers, Nested, InTransaction
  <2> QED
    BY <2>1, <2>2 DEF InterruptNotForgotten, ExitCode
<1>3. CASE ~MainExits
  <2>1. exitBy' # "main"
    BY <1>1, <1>3 DEF Next, Main, MainStep, OpenSession, StartAccess, MarkWriteSent, StartWrite,
       BeginTransfer, EndTransfer, LeaveTransaction, AfterTransaction, ReadInstead, EnterRegion, DropRegion,
       DrainRegion, CloseSession, BeginReconnect, JudgeCandidate, Handler, HandlerStep,
       SampleWriteSent, LoadInFlight, LoadDepth, RecordInterrupt, JudgeInterrupt, HandlerExits,
       User, CtrlC
  <2> QED
    BY <2>1 DEF InterruptNotForgotten
<1> QED
  BY <1>2, <1>3

Memory == Nested /\ RegionRemembers /\ ReadRemembers /\ InterruptNotForgotten

LEMMA MemoryInit == Init => Memory
  BY DEF Init, Memory, Nested, RegionRemembers, ReadRemembers, InterruptNotForgotten, InTransaction

LEMMA MemoryNext == Inv /\ Memory /\ [Next]_vars => Memory'
<1>1. ASSUME Inv, Memory, Next PROVE Memory'
  BY <1>1, NestedNext, RegionRemembersNext, ReadRemembersNext, ForgetsNothing DEF Memory
<1>2. ASSUME Memory, UNCHANGED vars PROVE Memory'
  BY <1>2 DEF vars, Memory, Nested, RegionRemembers, ReadRemembers, InterruptNotForgotten,
     InTransaction
<1> QED
  BY <1>1, <1>2

\* after_transaction, DrainWrite and DrainScope: an interrupt recorded while a
\* read or a critical region had not made its check yet is not lost, and the
\* command does not end with success; the interrupt of a refused descriptor, which
\* is lost, is the exception that ReadInstead names.
THEOREM NothingForgotten == Spec => []InterruptNotForgotten
<1>1. Memory => InterruptNotForgotten
  BY DEF Memory
<1> QED
  BY <1>1, Invariance, MemoryInit, MemoryNext, PTL DEF Spec

\* after_transaction: after an interrupt recorded during a read outside critical
\* regions the command unwinds, and only the session close is still sent, unless
\* the read was that of a descriptor which the camera refused.
THEOREM OnlyTheCloseFollows == Spec => StopsAfterTransfer
<1> DEFINE Stops == "read" \in owed /\ failure # "refused" /\ pc # "entered" /\ pc' = "entered"
                  => kind' = "close"
<1>1. Inv /\ Memory /\ [Next]_vars => [Stops]_<<pc, owed, kind>>
  <2> SUFFICES ASSUME Inv, Memory, Next, "read" \in owed, failure # "refused",
                      pc # "entered", pc' = "entered"
               PROVE  kind' = "close"
    BY DEF vars
  <2>1. /\ regions = <<>> /\ ~searching
        /\ failure # "none" \/ InTransaction \/ pc = "check"
        /\ pc = "marked" => regions # <<>>
    BY DEF Memory, ReadRemembers, Nested
  <2> QED
    BY <2>1 DEF Next, Main, MainStep, OpenSession, StartAccess, MarkWriteSent, StartWrite,
       BeginTransfer, EndTransfer, LeaveTransaction, AfterTransaction, ReadInstead, EnterRegion, DropRegion,
       DrainRegion, CloseSession, BeginReconnect, JudgeCandidate, MainExits, Handler, HandlerStep,
       SampleWriteSent, LoadInFlight, LoadDepth, RecordInterrupt, JudgeInterrupt, HandlerExits,
       User, CtrlC, EnterTransaction, MayGoOn, InTransaction
<1> QED
  BY <1>1, Invariance, MemoryInit, MemoryNext, PTL DEF Spec, StopsAfterTransfer
=============================================================================
