------------------------- MODULE PtpTransportProofs -------------------------
(***************************************************************************)
(* For every geometry, every set of timeouts and every number of commands: *)
(* a transaction never outlasts its hard deadline (ClockInv); it never     *)
(* takes the answer to another command for its own, and says truly whether *)
(* the camera executed it (StreamInv), which makes the transport a         *)
(* PtpLink; and a camera that answers in time, however its answers are cut *)
(* into transfers and reads, never costs the session, which is opened over *)
(* a stale one and given back at the end (PromptInv).                      *)
(***************************************************************************)
EXTENDS PtpTransport, SequenceTheorems, WellFoundedInduction, TLAPS

\* The command under way, without the bound on their number.
CommandRecord == [kind : Kinds \cup {"none"}, serial : Nat, id : 0..(MaxId - 1),
                  hard : Nat]

\* The clock stays below the idle deadline of a phase, and that below the
\* hard one: what renews the former is capped by the latter.
ClockInv ==
    /\ command \in CommandRecord
    /\ transactionId \in 0..MaxId
    /\ now \in Nat /\ expires \in Nat
    /\ now <= command.hard
    /\ expires <= command.hard

\* What a step inside a transaction may do to the clock and the id.
ClockAdvances ==
    /\ UNCHANGED command
    /\ transactionId' \in {transactionId, command.id + 1}
    /\ now' \in Nat /\ now' <= command.hard
    /\ expires' \in Nat /\ expires' <= command.hard

LEMMA AdvanceKeepsInv == ClockInv /\ ClockAdvances => ClockInv'
  BY BoundsAssumption DEF ClockInv, ClockAdvances, CommandRecord

\* record_progress and phase.
LEMMA ProgressCapped ==
  ASSUME ClockInv, NEW t \in Nat
  PROVE  Progress(t) \in Nat /\ Progress(t) <= command.hard
  BY TimeAssumption DEF ClockInv, CommandRecord, Progress, Least

\* A bulk call that io_timeout lets start ends before the deadline.
LEMMA IoEndsInTime ==
  ASSUME ClockInv, IoMayStart
  PROVE  /\ IoTimeout \in Nat
         /\ \A d \in 0..IoTimeout : now + d \in Nat /\ now + d <= command.hard
  BY TimeAssumption DEF ClockInv, CommandRecord, IoMayStart, IoTimeout, Least

LEMMA ReturnAdvances ==
  ASSUME ClockInv, NEW v, Return(v), transactionId' \in {transactionId, command.id + 1}
  PROVE  ClockAdvances
  BY DEF ClockInv, CommandRecord, Return, ClockAdvances

LEMMA FailAdvances ==
  ASSUME ClockInv, Fail, UNCHANGED transactionId
  PROVE  ClockAdvances
  BY ReturnAdvances DEF Fail

LEMMA WriteAdvances ==
  ASSUME ClockInv, Write \/ WaitToWrite \/ WriteExpires \/ WriteError
  PROVE  ClockAdvances
<1>1. ASSUME NEW n \in 1..(DataLength + 1), NEW d \in 0..BulkTimeout, WriteSome(n, d)
      PROVE  ClockAdvances
  <2>1. now' \in Nat /\ now' <= command.hard /\ now' = now + d
    BY <1>1, IoEndsInTime DEF WriteSome
  <2>2. expires' = Progress(now + d)
    BY <1>1 DEF WriteSome
  <2>3. transactionId' \in {transactionId, command.id + 1} /\ UNCHANGED command
    BY <1>1 DEF WriteSome, IdAfter
  <2>. QED  BY <2>1, <2>2, <2>3, ProgressCapped DEF ClockAdvances
<1>2. ASSUME WaitToWrite PROVE ClockAdvances
  BY <1>2, IoEndsInTime DEF WaitToWrite, ClockAdvances, ClockInv
<1>3. ASSUME NEW sent, WriteEnds(sent) PROVE ClockAdvances
  <2>1. transactionId' \in {transactionId, command.id + 1}
    BY <1>3 DEF WriteEnds, IdAfter
  <2>2. \E v : Return(v)
    BY <1>3 DEF WriteEnds
  <2>. QED  BY <2>1, <2>2, ReturnAdvances
<1>. QED  BY <1>1, <1>2, <1>3 DEF Write, WriteExpires, WriteError

LEMMA ReadAdvances ==
  ASSUME ClockInv, Read \/ WaitToRead \/ ReadExpires \/ ReadError
  PROVE  ClockAdvances
<1>1. ASSUME ReadStarts, NEW n, NEW d \in 0..IoTimeout, NEW rest,
             ReadReturns(n, d, rest), UNCHANGED transactionId
      PROVE  ClockAdvances
  <2>1. now' \in Nat /\ now' <= command.hard /\ now' = now + d
    BY <1>1, IoEndsInTime DEF ReadStarts, ReadReturns
  <2>2. expires' = Progress(now + d) /\ UNCHANGED command
    BY <1>1 DEF ReadReturns
  <2>. QED  BY <1>1, <2>1, <2>2, ProgressCapped DEF ClockAdvances
<1>2. ASSUME NEW d, ReadCompletes(d) PROVE ClockAdvances
  BY <1>1, <1>2 DEF ReadCompletes, readFrame
<1>3. ASSUME NEW k, ReadCut(k) PROVE ClockAdvances
  <2>1. IoTimeout \in 0..IoTimeout
    BY <1>3, IoEndsInTime DEF ReadCut, ReadStarts
  <2>. QED  BY <1>1, <1>3, <2>1 DEF ReadCut, readFrame
<1>4. ASSUME WaitToRead PROVE ClockAdvances
  <2>1. now' \in Nat /\ now' <= command.hard
    BY <1>4, IoEndsInTime DEF WaitToRead, ReadStarts
  <2>. QED  BY <1>4, <2>1 DEF WaitToRead, ClockAdvances, ClockInv
<1>5. ASSUME ReadTruncated \/ ReadExpires \/ ReadError PROVE ClockAdvances
  BY <1>5, FailAdvances DEF ReadTruncated, ReadExpires, ReadError, readFrame
<1>. QED  BY <1>2, <1>3, <1>4, <1>5 DEF Read

LEMMA JudgeAdvances ==
  ASSUME ClockInv, TakeHeader \/ TakePayload \/ Judge
  PROVE  ClockAdvances
<1>1. UNCHANGED transactionId
  BY DEF TakeHeader, TakePayload, Judge
<1>2. CASE Fail
  BY <1>1, <1>2, FailAdvances
<1>3. CASE \E v : Return(v)
  BY <1>1, <1>3, ReturnAdvances
<1>4. CASE UNCHANGED <<command, now>> /\ expires' = Progress(now)
  BY <1>1, <1>4, ProgressCapped DEF ClockAdvances, ClockInv
<1>5. CASE UNCHANGED <<command, now, expires>>
  BY <1>1, <1>5 DEF ClockAdvances, ClockInv
<1>6. Fail \/ (\E v : Return(v)) \/ UNCHANGED <<command, now, expires>>
        \/ (UNCHANGED <<command, now>> /\ expires' = Progress(now))
  <2>1. CASE TakeHeader
    BY <2>1 DEF TakeHeader
  <2>2. CASE TakePayload
    BY <2>2 DEF TakePayload
  <2>3. CASE Judge
    BY <2>3 DEF Judge
  <2>. QED  BY <2>1, <2>2, <2>3
<1>. QED  BY <1>2, <1>3, <1>4, <1>5, <1>6

LEMMA BeginKeepsInv ==
  ASSUME ClockInv, NEW kind \in Kinds, NEW id \in 0..MaxId,
         NEW hard \in {HardTimeout, DropTimeout}, Begin(kind, id, hard)
  PROVE  ClockInv'
<1>1. command.serial + 1 \in Nat /\ command.hard \in Nat
  BY DEF ClockInv, CommandRecord
<1>2. transactionId' = id /\ now' = 0
  BY DEF Begin
<1>3. CASE Usable(id)
  <2>1. command' = [kind |-> kind, serial |-> command.serial + 1, id |-> id, hard |-> hard]
    BY <1>3 DEF Begin
  <2>2. id \in 0..(MaxId - 1)
    BY <1>3, BoundsAssumption DEF Usable
  <2>3. command' \in CommandRecord /\ command'.hard = hard
    BY <1>1, <2>1, <2>2, TimeAssumption DEF CommandRecord
  <2>4. expires' = Least(IdleTimeout, hard)
    BY <1>3 DEF Begin
  <2>. QED  BY <1>2, <2>3, <2>4, TimeAssumption DEF ClockInv, Least
<1>4. CASE ~Usable(id)
  <2>1. command' = [command EXCEPT !.serial = @ + 1] /\ UNCHANGED expires
    BY <1>4 DEF Begin
  <2>2. command' \in CommandRecord /\ command'.hard = command.hard
    BY <1>1, <2>1 DEF ClockInv, CommandRecord
  <2>. QED  BY <1>1, <1>2, <2>1, <2>2 DEF ClockInv
<1>. QED  BY <1>3, <1>4

LEMMA SessionKeepsInv ==
  ASSUME ClockInv,
         \/ OpenSession \/ ClearStaleSession \/ ReopenSession \/ SessionOpened
         \/ \E kind \in {"read", "write"} : Call(kind)
         \/ CloseSession \/ SessionClosed
  PROVE  ClockInv'
<1>1. 0 \in 0..MaxId /\ transactionId \in 0..MaxId
  BY BoundsAssumption DEF ClockInv
<1>2. (\E kind \in Kinds, id \in 0..MaxId, hard \in {HardTimeout, DropTimeout} :
          Begin(kind, id, hard))
        \/ UNCHANGED <<transactionId, command, now, expires>>
  BY <1>1 DEF OpenSession, ClearStaleSession, ReopenSession, SessionOpened, Call,
              CloseSession, SessionClosed, Kinds
<1>. QED  BY <1>2, BeginKeepsInv DEF ClockInv, CommandRecord

THEOREM ClockInvariance == Spec => []ClockInv
<1>1. Init => ClockInv
  BY BoundsAssumption DEF Init, ClockInv, CommandRecord, NoCommand, Kinds
<1>2. ClockInv /\ [Next]_vars => ClockInv'
  <2>. SUFFICES ASSUME ClockInv, [Next]_vars PROVE ClockInv'
    OBVIOUS
  <2>1. CASE Transact \/ WriteError \/ ReadError
    BY <2>1, AdvanceKeepsInv, WriteAdvances, ReadAdvances, JudgeAdvances DEF Transact
  <2>2. CASE CameraAnswers
    BY <2>2 DEF CameraAnswers, hostVars, ClockInv, CommandRecord
  <2>3. CASE UNCHANGED vars
    BY <2>3 DEF vars, hostVars, ClockInv, CommandRecord
  <2>. QED  BY <2>1, <2>2, <2>3, SessionKeepsInv DEF Next
<1>. QED  BY <1>1, <1>2, PTL DEF Spec

\* Deadline::io_timeout and record_progress: no transaction outlasts the hard
\* deadline it began with.
THEOREM TransactionWithinDeadline == Spec => []WithinDeadline
<1>1. ClockInv => WithinDeadline
  BY DEF ClockInv, WithinDeadline
<1>. QED  BY <1>1, ClockInvariance, PTL
-----------------------------------------------------------------------------
(* Whose answers are in the pipe.  A command that returns may leave units   *)
(* of its answer behind; what keeps the next one from taking them for its  *)
(* own is that they come first and carry another id.                       *)

HeaderKinds == {"data", "ok", "error", "already", "other"}
UnitRecord == [unit : HeaderKinds \cup {"byte"}, id : Nat, length : Nat, about : Nat]

StreamTypes ==
    /\ buffer \in Seq(UnitRecord)
    /\ pipe \in Seq(UnitRecord \cup {End})
    /\ container \in UnitRecord \cup {NoHeader}
    /\ incoming \in CommandRecord
    /\ left \in Nat /\ payload \in Int /\ payload >= -1
    /\ capacity \in Capacities
    /\ step \in {"idle", "command", "data", "header", "payload"}
    /\ poisoned \in BOOLEAN /\ acted \in BOOLEAN /\ dispatched \in BOOLEAN

\* A buffer of any size that the policy chooses holds at least one unit.
LEMMA CapacityFits == \A size \in Capacities : size \in Nat \ {0}
  BY GeometryAssumption, Zenon

\* The units of a sequence.
UnitsOf(q) == {q[k] : k \in 1..Len(q)} \ {End}

\* What the camera has sent and no transaction has consumed.
Waiting == UnitsOf(buffer) \cup UnitsOf(pipe)

IsHeader(u) == u.unit # "byte"
Mine(u) == u.about = command.serial
OwnHeader(u) == IsHeader(u) /\ u.id = command.id

\* The first unit that waits belongs to an earlier command.
StaleFirst ==
    \/ buffer # <<>> /\ ~Mine(buffer[1])
    \/ /\ buffer = <<>>
       /\ \E k \in 1..Len(pipe) :
             /\ pipe[k] # End /\ ~Mine(pipe[k])
             /\ \A j \in 1..(k - 1) : pipe[j] = End

\* The transaction has consumed nothing yet.
Fresh == step \in {"command", "data"} \/ (step = "header" /\ payload = -1)

\* The transaction has consumed a header with its own id.
Accepted ==
    \/ step = "payload" /\ Own(container)
    \/ step = "header" /\ payload # -1

\* The ids that the session has used.
IdsKept ==
    /\ step = "command" => transactionId = command.id
    /\ step \in {"data", "header", "payload"} => transactionId = command.id + 1
    /\ step = "idle" /\ verdict \in {"ok", "already", "rejected"} =>
          transactionId = command.id + 1
    /\ stage = "clearing" /\ (step # "idle" \/ verdict = "ok") => command.id # 0
    /\ stage = "new" => Idle

\* The command that the camera may still answer.
IncomingKept ==
    /\ incoming # NoCommand => incoming.serial <= command.serial
    /\ incoming # NoCommand /\ Idle => poisoned
    /\ Idle /\ incoming # NoCommand /\ incoming.serial = command.serial
          => verdict = "lost"
    /\ step \in {"command", "data"} => incoming = NoCommand /\ ~acted
    /\ step \in {"header", "payload"} /\ incoming # NoCommand =>
          /\ incoming = command
          /\ ~acted /\ ~Accepted
          /\ \A u \in Waiting : ~Mine(u)
    /\ poisoned => Idle

\* Between transactions what waits cannot be the answer to the next one.
LeftoversKept ==
    Idle /\ ~poisoned =>
        /\ buffer = <<>>
        /\ \A u \in Waiting : IsHeader(u) =>
              /\ u.id # transactionId
              /\ stage = "new" \/ (stage = "clearing" /\ verdict = "ok") => u.id # 0

\* Within a transaction: what waits is stale, and then comes first, or it is
\* one answer of the camera to this command.
AnswerKept ==
    ~Idle =>
        /\ \A u \in Waiting : OwnHeader(u) => Mine(u)
        /\ step \in {"command", "data"} =>
              payload = -1 /\ buffer = <<>> /\ \A u \in Waiting : ~Mine(u)
        /\ \A u, v \in Waiting :
              IsHeader(u) /\ Mine(u) /\ IsHeader(v) /\ Mine(v) => u.id = v.id
        /\ Fresh => sources = {} /\ (StaleFirst \/ \A u \in Waiting : Mine(u))
        /\ Accepted =>
              /\ sources = {command.serial}
              /\ \A u \in Waiting : Mine(u) /\ (IsHeader(u) => u.id = command.id)

\* A response to this command tells whether the camera executed it.
ActedKept ==
    /\ ~Idle => \A u \in Waiting : IsHeader(u) /\ Mine(u) =>
          /\ u.unit = "ok" => acted
          /\ u.unit \in {"error", "already"} => ~acted
    /\ step = "payload" /\ Own(container) =>
          /\ container.unit = "ok" => acted
          /\ container.unit \in {"error", "already"} => ~acted

StreamInv ==
    /\ ClockInv /\ StreamTypes
    /\ \A u \in Waiting : u.about <= command.serial
    /\ IdsKept /\ IncomingKept /\ LeftoversKept /\ AnswerKept /\ ActedKept
    /\ Idle /\ verdict = "ok" => sources = {command.serial}

-----------------------------------------------------------------------------
(* What a camera that answers in time leaves in the pipes: containers that *)
(* are whole, one of data at most and one response at the end, and ends of *)
(* transfers between them.                                                 *)

Stream == buffer \o pipe

AllEnd(q) == \A k \in 1..Len(q) : q[k] = End
IsByte(u) == u.unit = "byte"
IsData(u) == u.unit = "data"
IsResponse(u) == u.unit \in {"ok", "error", "already"}
NoData(q) == \A k \in 1..Len(q) : ~IsData(q[k])
NoResponse(q) == \A k \in 1..Len(q) : ~IsResponse(q[k])

\* The next n units are bytes, and no more than those.
Bytes(q, from, n) ==
    /\ from + n <= Len(q)
    /\ \A k \in (from + 1)..(from + n) : IsByte(q[k])
    /\ from + n + 1 \in 1..Len(q) => ~IsByte(q[from + n + 1])

Shape(q) ==
    /\ q \in Seq(UnitRecord \cup {End})
    /\ \A k \in 1..Len(q) :
          \/ q[k] = End /\ (k + 1 \in 1..Len(q) => ~IsByte(q[k + 1]) /\ q[k + 1] # End)
          \/ IsByte(q[k])
          \/ /\ IsData(q[k]) \/ IsResponse(q[k])
             /\ q[k].length <= MaxPayload /\ Bytes(q, k, q[k].length)
    /\ \A k \in 1..Len(q) : IsData(q[k]) => \A j \in 1..(k - 1) : q[j] = End
    /\ \A k \in 1..Len(q) : IsResponse(q[k]) =>
          \A j \in (k + q[k].length + 1)..Len(q) : q[j] = End

\* The camera owes an answer, or is still to get the command.
Unanswered == step \in {"command", "data"} \/ incoming # NoCommand

\* The response u fits the stage of the session.
Fits(u) ==
    /\ u.unit = "error" => stage = "ready"
    /\ u.unit = "already" => stage = "opening"
    /\ u.unit = "ok" /\ stage \in {"clearing", "closing"} => session = "none"

CutKept ==
    /\ Shape(Stream)
    /\ pipe # <<>> /\ pipe[1] = End => filled
    /\ Idle \/ Unanswered => AllEnd(Stream)
    /\ ~Idle => \A k \in 1..Len(Stream) :
          IsData(Stream[k]) \/ IsResponse(Stream[k]) =>
              Stream[k].id = command.id /\ Fits(Stream[k])
    /\ step = "header" =>
          /\ left = 1
          /\ Stream # <<>> => ~IsByte(Stream[1])
          /\ payload # -1 => NoData(Stream)
    /\ step = "payload" =>
          /\ Own(container) /\ Fits(container)
          /\ Bytes(Stream, 0, left)
          /\ \/ IsData(container) /\ payload = -1 /\ NoData(Stream)
             \/ IsResponse(container) /\ \A k \in (left + 1)..Len(Stream) : Stream[k] = End

StageKept ==
    /\ stage \in {"opening", "reopening"} => command.id = 0
    /\ ~Idle =>
          /\ stage \in {"opening", "reopening"} => command.kind = "open"
          /\ stage \in {"clearing", "closing"} => command.kind = "close"
          /\ stage = "ready" => command.kind \in {"read", "write"}
          /\ stage \notin {"new", "over"}
          /\ Unanswered /\ stage = "opening" => session # "ours"
          /\ Unanswered /\ stage = "reopening" => session = "none"
    /\ Idle =>
          /\ verdict \notin {"lost", "unsent"}
          /\ stage = "new" => session # "ours"
          /\ stage = "opening" => verdict \in {"ok", "already"}
          /\ stage \in {"clearing", "reopening", "closing"} => verdict = "ok"
          /\ stage \in {"clearing", "closing"} => session = "none"
          /\ stage = "over" /\ session = "ours" => transactionId = MaxId

PromptInv ==
    /\ fault \in BOOLEAN
    /\ ~fault => /\ poisoned = FALSE
                 /\ stage \in Stages /\ filled \in BOOLEAN
                 /\ CutKept /\ StageKept

-----------------------------------------------------------------------------
(* What waits, and what a bulk read takes of it.                           *)

\* A set of natural numbers that is not empty has a least element.
LEMMA LeastNat ==
  ASSUME NEW T, T \subseteq Nat, T # {}
  PROVE  \E x \in T : \A y \in T : x <= y
<1>1. PICK x \in T : \A y \in T : ~ (<<y, x>> \in OpToRel(<, Nat))
  BY NatLessThanWellFounded, WFMin
<1>2. ASSUME NEW y \in T PROVE x <= y
  <2>1. ~ (y < x)
    BY <1>1 DEF OpToRel
  <2>. QED  BY <2>1
<1>. QED  BY <1>2

LEMMA WaitingUnits ==
  ASSUME StreamTypes
  PROVE  Waiting \subseteq UnitRecord
<1>1. \A k \in 1..Len(buffer) : buffer[k] \in UnitRecord
  BY DEF StreamTypes
<1>2. \A k \in 1..Len(pipe) : pipe[k] \in UnitRecord \cup {End}
  BY DEF StreamTypes
<1>. QED  BY <1>1, <1>2, Zenon DEF Waiting, UnitsOf

\* No packet of the host's buffer is the end of a transfer.
LEMMA EndIsNoUnit == End \notin UnitRecord
  BY DEF End, UnitRecord, HeaderKinds

LEMMA ArrivedUnits ==
  ASSUME StreamTypes
  PROVE  /\ Arrived \in 0..Len(pipe)
         /\ \A k \in 1..Arrived : pipe[k] # End
         /\ TransferEnded => Arrived + 1 \in 1..Len(pipe) /\ pipe[Arrived + 1] = End
<1>. DEFINE ends == {k \in 1..Len(pipe) : pipe[k] = End}
            first == CHOOSE k \in ends : \A j \in ends : k <= j
<1>0. Len(pipe) \in Nat
  BY DEF StreamTypes
<1>1. Arrived = IF ends = {} THEN Len(pipe) ELSE first - 1
  BY DEF Arrived
<1>2. CASE ends = {}
  BY <1>0, <1>1, <1>2 DEF TransferEnded
<1>3. CASE ends # {}
  <2>1. ends \subseteq Nat
    OBVIOUS
  <2>2. \E k \in ends : \A j \in ends : k <= j
    BY <1>3, <2>1, LeastNat
  <2>3. first \in ends /\ \A j \in ends : first <= j
    BY <2>2
  <2>. HIDE DEF first
  <2>4. first \in 1..Len(pipe) /\ pipe[first] = End
    BY <2>3
  <2>5. \A k \in 1..Len(pipe) : pipe[k] = End => first <= k
    BY <2>3
  <2>6. Arrived = first - 1
    BY <1>1, <1>3
  <2>. HIDE DEF ends
  <2>7. \A k \in 1..(first - 1) : k \in 1..Len(pipe) /\ ~(first <= k)
    BY <1>0, <2>4
  <2>8. \A k \in 1..(first - 1) : pipe[k] # End
    BY <2>5, <2>7
  <2>9. first - 1 + 1 = first /\ first - 1 \in 0..Len(pipe)
    BY <1>0, <2>4
  <2>. QED  BY <2>4, <2>6, <2>8, <2>9
<1>. QED  BY <1>2, <1>3

\* If anything waits in the pipe, something is the first.
LEMMA FirstUnit ==
  ASSUME StreamTypes, UnitsOf(pipe) # {}
  PROVE  \E k \in 1..Len(pipe) : pipe[k] # End /\ \A j \in 1..(k - 1) : pipe[j] = End
<1>. DEFINE some == {k \in 1..Len(pipe) : pipe[k] # End}
<1>1. some \subseteq Nat /\ some # {}
  BY DEF UnitsOf
<1>2. PICK k \in some : \A j \in some : k <= j
  BY <1>1, LeastNat
<1>3. \A j \in 1..(k - 1) : j \in 1..Len(pipe) /\ ~(k <= j)
  BY <1>2 DEF StreamTypes
<1>. QED  BY <1>2, <1>3

\* A part of a sequence, and the units in it.
LEMMA PartOfSequence ==
  ASSUME NEW S, NEW q \in Seq(S), NEW m \in 1..(Len(q) + 1), NEW n \in 0..Len(q)
  PROVE  /\ SubSeq(q, m, n) \in Seq(S)
         /\ Len(SubSeq(q, m, n)) = IF m <= n THEN n - m + 1 ELSE 0
         /\ \A i \in 1..(n - m + 1) : SubSeq(q, m, n)[i] = q[m + i - 1]
         /\ \A k \in 1..Len(SubSeq(q, m, n)) :
               m + k - 1 \in m..n /\ SubSeq(q, m, n)[k] = q[m + k - 1]
         /\ UnitsOf(SubSeq(q, m, n)) \subseteq UnitsOf(q)
<1>1. \A i \in m..n : q[i] \in S
  OBVIOUS
<1>2. /\ SubSeq(q, m, n) \in Seq(S)
      /\ Len(SubSeq(q, m, n)) = IF m <= n THEN n - m + 1 ELSE 0
      /\ \A i \in 1..(n - m + 1) : SubSeq(q, m, n)[i] = q[m + i - 1]
  BY <1>1, SubSeqProperties, SMTT(40)
<1>. DEFINE s == SubSeq(q, m, n)
<1>. HIDE DEF s
<1>3. \A k \in 1..Len(s) : k \in 1..(n - m + 1) /\ m + k - 1 \in m..n /\ m + k - 1 \in 1..Len(q)
  BY <1>2 DEF s
<1>4. \A k \in 1..Len(s) : s[k] = q[m + k - 1]
  BY <1>2, <1>3 DEF s
<1>5. UnitsOf(s) \subseteq UnitsOf(q)
  BY <1>3, <1>4, Zenon DEF UnitsOf
<1>. QED  BY <1>2, <1>3, <1>4, <1>5 DEF s

LEMMA AfterPart ==
  ASSUME NEW S, NEW q \in Seq(S), NEW n \in 0..Len(q)
  PROVE  /\ After(q, n) \in Seq(S)
         /\ Len(After(q, n)) = Len(q) - n
         /\ \A k \in 1..(Len(q) - n) : After(q, n)[k] = q[n + k]
         /\ UnitsOf(After(q, n)) \subseteq UnitsOf(q)
<1>1. n + 1 \in 1..(Len(q) + 1) /\ Len(q) \in 0..Len(q)
  OBVIOUS
<1>. QED  BY <1>1, PartOfSequence DEF After

\* A bulk read moves the first units of the pipe to the buffer, or drops the
\* end of a transfer.
LEMMA ReadTakes ==
  ASSUME StreamTypes, buffer = <<>>, UNCHANGED command,
         NEW n \in 0..Arrived, NEW m \in n..Len(pipe),
         NEW d, ReadReturns(n, d, After(pipe, m)),
         n = 0 => \A j \in 1..m : pipe[j] = End
  PROVE  /\ buffer' \in Seq(UnitRecord)
         /\ pipe' \in Seq(UnitRecord \cup {End})
         /\ Waiting' \subseteq Waiting
         /\ StaleFirst => StaleFirst'
<1>. DEFINE S == UnitRecord \cup {End}
<1>0. pipe \in Seq(S) /\ Len(pipe) \in Nat /\ Arrived \in 0..Len(pipe)
        /\ \A k \in 1..Arrived : pipe[k] # End
  BY ArrivedUnits DEF StreamTypes
<1>1. m \in 0..Len(pipe) /\ pipe' = After(pipe, m)
  BY <1>0 DEF ReadReturns
<1>2. /\ pipe' \in Seq(S) /\ Len(pipe') = Len(pipe) - m
      /\ \A k \in 1..(Len(pipe) - m) : pipe'[k] = pipe[m + k]
      /\ UnitsOf(pipe') \subseteq UnitsOf(pipe)
  <2>. HIDE DEF S
  <2>1. /\ After(pipe, m) \in Seq(S) /\ Len(After(pipe, m)) = Len(pipe) - m
        /\ \A k \in 1..(Len(pipe) - m) : After(pipe, m)[k] = pipe[m + k]
        /\ UnitsOf(After(pipe, m)) \subseteq UnitsOf(pipe)
    BY <1>0, <1>1, AfterPart, ZenonT(60)
  <2>. QED  BY <1>1, <2>1
<1>3. CASE n > 0
  <2>1. buffer' = SubSeq(pipe, 1, n)
    BY <1>3 DEF ReadReturns
  <2>2. 1 \in 1..(Len(pipe) + 1) /\ n \in 0..Len(pipe)
    BY <1>0
  <2>3. UnitsOf(buffer') \subseteq UnitsOf(pipe) /\ Len(buffer') = n
    BY <1>0, <1>3, <2>1, <2>2, PartOfSequence
  <2>4. \A i \in 1..n : pipe[i] \in UnitRecord
    <3>. TAKE i \in 1..n
    <3>1. pipe[i] \in S /\ pipe[i] # End
      BY <1>0
    <3>. QED  BY <3>1
  <2>5. buffer' \in Seq(UnitRecord) /\ buffer'[1] = pipe[1]
    <3>1. /\ SubSeq(pipe, 1, n) \in Seq(UnitRecord)
          /\ \A i \in 1..(n - 1 + 1) : SubSeq(pipe, 1, n)[i] = pipe[1 + i - 1]
      BY <2>4, SubSeqProperties
    <3>2. 1 \in 1..(n - 1 + 1) /\ 1 + 1 - 1 = 1
      BY <1>3
    <3>. QED  BY <2>1, <3>1, <3>2
  <2>6. Waiting' \subseteq Waiting
    BY <1>2, <2>3, Zenon DEF Waiting
  <2>7. StaleFirst => StaleFirst'
    <3>. SUFFICES ASSUME StaleFirst PROVE StaleFirst'
      OBVIOUS
    <3>1. PICK k \in 1..Len(pipe) :
             pipe[k] # End /\ ~Mine(pipe[k]) /\ \A j \in 1..(k - 1) : pipe[j] = End
      BY DEF StaleFirst
    <3>2. pipe[1] # End /\ (k # 1 => 1 \in 1..(k - 1))
      BY <1>0, <1>3
    <3>3. k = 1
      BY <3>1, <3>2
    <3>4. buffer' # <<>>
      BY <1>3, <2>3
    <3>. QED  BY <2>5, <3>1, <3>3, <3>4 DEF StaleFirst, Mine
  <2>. QED  BY <1>2, <2>5, <2>6, <2>7
<1>4. CASE n = 0
  <2>1. buffer' = <<>>
    BY <1>4 DEF ReadReturns
  <2>2. Waiting' \subseteq Waiting
    <3>1. UnitsOf(buffer') = UnitsOf(buffer)
      BY <2>1 DEF UnitsOf
    <3>. QED  BY <1>2, <3>1 DEF Waiting
  <2>3. StaleFirst => StaleFirst'
    <3>. SUFFICES ASSUME StaleFirst PROVE StaleFirst'
      OBVIOUS
    <3>1. PICK k \in 1..Len(pipe) :
             pipe[k] # End /\ ~Mine(pipe[k]) /\ \A j \in 1..(k - 1) : pipe[j] = End
      BY DEF StaleFirst
    <3>2. k > m
      BY <1>0, <1>1, <1>4, <3>1
    <3>3. k - m \in 1..Len(pipe') /\ m + (k - m) = k
          /\ \A j \in 1..(k - m - 1) : j \in 1..(Len(pipe) - m) /\ m + j \in 1..(k - 1)
      BY <1>0, <1>1, <1>2, <3>2
    <3>4. pipe'[k - m] = pipe[k]
      BY <1>2, <3>3
    <3>5. \A j \in 1..(k - m - 1) : pipe'[j] = End
      BY <1>2, <3>1, <3>3
    <3>. QED  BY <2>1, <3>1, <3>3, <3>4, <3>5 DEF StaleFirst, Mine
  <2>. QED  BY <1>2, <2>1, <2>2, <2>3
<1>. QED  BY <1>3, <1>4

LEMMA ReadEffect ==
  ASSUME StreamTypes, NEW x, ReadCompletes(x) \/ ReadCut(x), x \in Nat
  PROVE  /\ buffer' \in Seq(UnitRecord)
         /\ pipe' \in Seq(UnitRecord \cup {End})
         /\ Waiting' \subseteq Waiting
         /\ StaleFirst => StaleFirst'
<1>0. /\ Arrived \in 0..Len(pipe) /\ Len(pipe) \in Nat
      /\ TransferEnded => Arrived + 1 \in 1..Len(pipe) /\ pipe[Arrived + 1] = End
  BY ArrivedUnits DEF StreamTypes
<1>1. buffer = <<>> /\ UNCHANGED command
  BY DEF ReadCompletes, ReadCut, ReadStarts, ReadReturns
<1>2. capacity \in Nat \ {0} /\ Packet \in Nat \ {0}
  BY CapacityFits, GeometryAssumption DEF StreamTypes
<1>3. CASE ReadCompletes(x)
  <2>1. CASE Arrived >= capacity /\ ReadReturns(capacity, x, After(pipe, capacity))
    <3>1. capacity \in 0..Arrived /\ capacity \in capacity..Len(pipe) /\ capacity # 0
      BY <1>0, <1>2, <2>1
    <3>. QED  BY <1>1, <2>1, <3>1, ReadTakes
  <2>2. CASE /\ Arrived < capacity /\ TransferEnded
             /\ ReadReturns(Arrived, x, After(pipe, Arrived + 1))
    <3>1. Arrived \in 0..Arrived /\ Arrived + 1 \in Arrived..Len(pipe)
      BY <1>0, <2>2
    <3>2. Arrived = 0 => \A j \in 1..(Arrived + 1) : pipe[j] = End
      BY <1>0, <2>2
    <3>. QED  BY <1>1, <2>2, <3>1, <3>2, ReadTakes
  <2>. QED  BY <1>3, <2>1, <2>2 DEF ReadCompletes
<1>4. CASE ReadCut(x)
  <2>. DEFINE n == x * Packet
  <2>1. n \in Nat /\ n \in 1..Least(Arrived, capacity - 1)
        /\ ReadReturns(n, IoTimeout, After(pipe, n))
    BY <1>2, <1>4 DEF ReadCut
  <2>. HIDE DEF n
  <2>2. n \in 0..Arrived /\ n \in n..Len(pipe) /\ n # 0
    BY <1>0, <1>2, <2>1 DEF Least
  <2>. QED  BY <1>1, <2>1, <2>2, ReadTakes
<1>. QED  BY <1>3, <1>4

-----------------------------------------------------------------------------
(* The steps inside a transaction.                                         *)

\* Units move or are dropped; nothing is concluded from them.
LEMMA QuietKeeps ==
  ASSUME StreamInv, StreamTypes', ClockInv',
         UNCHANGED <<transactionId, poisoned, stage, step, command, payload,
                     container, verdict, incoming, acted>>,
         Waiting' \subseteq Waiting,
         Fresh /\ StaleFirst => StaleFirst',
         Idle => UNCHANGED <<buffer, sources>>,
         step \in {"command", "data"} => UNCHANGED buffer,
         Fresh \/ Accepted => UNCHANGED sources
  PROVE  StreamInv'
<1>1. \A u : Mine(u)' <=> Mine(u)
  BY DEF Mine
<1>2. \A u : OwnHeader(u)' <=> OwnHeader(u)
  BY DEF OwnHeader
<1>3. (Accepted' <=> Accepted) /\ (Fresh' <=> Fresh) /\ (Idle' <=> Idle)
  BY DEF Accepted, Fresh, Idle, Own
<1>4. IdsKept' /\ \A u \in Waiting' : u.about <= command'.serial
  BY <1>3 DEF StreamInv, IdsKept
<1>5. IncomingKept'
  BY <1>1, <1>3 DEF StreamInv, IncomingKept
<1>6. LeftoversKept'
  BY <1>3 DEF StreamInv, LeftoversKept
<1>7. AnswerKept'
  BY <1>1, <1>2, <1>3 DEF StreamInv, AnswerKept
<1>8. ActedKept'
  BY <1>1, <1>3 DEF StreamInv, ActedKept, Own
<1>9. (Idle /\ verdict = "ok" => sources = {command.serial})'
  BY <1>3 DEF StreamInv
<1>. QED  BY <1>4, <1>5, <1>6, <1>7, <1>8, <1>9 DEF StreamInv

\* The transaction failed and the session is poisoned.
LEMMA LostKeeps ==
  ASSUME StreamInv, StreamTypes', ClockInv',
         step' = "idle", poisoned' = TRUE, verdict' = "lost",
         UNCHANGED <<stage, command>>,
         incoming' \in {incoming, command},
         Waiting' \subseteq Waiting
  PROVE  StreamInv'
<1>1. IdsKept' /\ \A u \in Waiting' : u.about <= command'.serial
  BY DEF StreamInv, IdsKept, Idle
<1>2. IncomingKept'
  BY DEF StreamInv, IncomingKept, Idle, ClockInv, CommandRecord
<1>3. LeftoversKept' /\ AnswerKept' /\ ActedKept'
  BY DEF LeftoversKept, AnswerKept, ActedKept, Idle
<1>. QED  BY <1>1, <1>2, <1>3 DEF StreamInv

LEMMA FailTypes ==
  ASSUME StreamTypes, Fail, UNCHANGED <<payload, incoming, capacity, acted, dispatched>>,
         buffer' \in Seq(UnitRecord), pipe' \in Seq(UnitRecord \cup {End})
  PROVE  StreamTypes'
  BY DEF StreamTypes, Fail, Return

LEMMA ReadKeeps ==
  ASSUME StreamInv, Read \/ WaitToRead, ClockInv'
  PROVE  StreamInv'
<1>0. StreamTypes
  BY DEF StreamInv
<1>1. ASSUME NEW x \in Nat, ReadCompletes(x) \/ ReadCut(x) PROVE StreamInv'
  <2>1. /\ UNCHANGED <<transactionId, poisoned, stage, step, command, payload,
                       container, verdict, incoming, acted, sources>>
        /\ UNCHANGED <<left, capacity, dispatched>>
        /\ ~Idle /\ step \notin {"command", "data"}
    BY <1>1 DEF ReadCompletes, ReadCut, ReadReturns, readFrame, ReadStarts, Reading, Idle
  <2>2. /\ buffer' \in Seq(UnitRecord)
        /\ pipe' \in Seq(UnitRecord \cup {End})
        /\ Waiting' \subseteq Waiting
        /\ StaleFirst => StaleFirst'
    BY <1>0, <1>1, ReadEffect
  <2>3. StreamTypes'
    BY <1>0, <2>1, <2>2 DEF StreamTypes
  <2>. QED  BY <2>1, <2>2, <2>3, QuietKeeps
<1>2. CASE ReadTruncated
  <2>1. pipe # <<>>
    BY <1>0, <1>2, ArrivedUnits DEF ReadTruncated, StreamTypes
  <2>2. /\ pipe \in Seq(UnitRecord \cup {End}) /\ Len(pipe) \in Nat
        /\ pipe' = Tail(pipe) /\ UNCHANGED buffer
    BY <1>0, <1>2 DEF ReadTruncated, StreamTypes
  <2>3. /\ pipe' \in Seq(UnitRecord \cup {End})
        /\ \A k \in 1..Len(pipe') : k + 1 \in 1..Len(pipe) /\ pipe'[k] = pipe[k + 1]
    BY <2>1, <2>2, HeadTailProperties
  <2>4. UnitsOf(pipe') \subseteq UnitsOf(pipe)
    BY <2>3 DEF UnitsOf
  <2>5. Waiting' \subseteq Waiting
    BY <2>2, <2>4 DEF Waiting
  <2>6. StreamTypes'
    BY <1>0, <1>2, <2>2, <2>3, FailTypes DEF ReadTruncated, readFrame, StreamTypes
  <2>. QED  BY <1>2, <2>5, <2>6, LostKeeps DEF ReadTruncated, Fail, Return, readFrame
<1>3. CASE WaitToRead
  <2>1. UNCHANGED <<Waiting, StaleFirst>>
    BY <1>3 DEF WaitToRead, cameraVars, Waiting, StaleFirst, Mine
  <2>2. StreamTypes'
    BY <1>0, <1>3 DEF WaitToRead, cameraVars, StreamTypes
  <2>. QED  BY <1>3, <2>1, <2>2, QuietKeeps DEF WaitToRead, cameraVars
<1>4. \A d \in 0..BulkTimeout : d \in Nat
  OBVIOUS
<1>5. \A k \in 1..LastCapacity : k \in Nat
  OBVIOUS
<1>. QED  BY <1>1, <1>2, <1>3, <1>4, <1>5 DEF Read

\* A read failed or the deadline has passed.
LEMMA ReadFailureKeeps ==
  ASSUME StreamInv, ReadError \/ ReadExpires, ClockInv'
  PROVE  StreamInv'
<1>0. StreamTypes
  BY DEF StreamInv
<1>1. Fail /\ UNCHANGED readFrame /\ UNCHANGED <<buffer, filled, pipe>>
  BY DEF ReadError, ReadExpires
<1>2. StreamTypes'
  BY <1>0, <1>1, FailTypes DEF readFrame, StreamTypes
<1>3. Waiting' = Waiting
  BY <1>1 DEF Waiting
<1>. QED  BY <1>1, <1>2, <1>3, LostKeeps DEF Fail, Return, readFrame

LEMMA TakeHeaderKeeps ==
  ASSUME StreamInv, TakeHeader, ClockInv'
  PROVE  StreamInv'
<1>. DEFINE u == Head(buffer)
<1>0. StreamTypes /\ step = "header" /\ ~Idle
  BY DEF StreamInv, TakeHeader, Idle
<1>1. /\ buffer \in Seq(UnitRecord) /\ buffer # <<>> /\ Len(buffer) \in Nat
      /\ buffer' = Tail(buffer) /\ UNCHANGED pipe
  BY <1>0 DEF TakeHeader, StreamTypes, cameraVars
<1>2. /\ u \in UnitRecord /\ u = buffer[1] /\ 1 \in 1..Len(buffer)
      /\ buffer' \in Seq(UnitRecord)
      /\ \A k \in 1..Len(buffer') : k + 1 \in 1..Len(buffer) /\ buffer'[k] = buffer[k + 1]
  BY <1>1, HeadTailProperties
<1>3. u \in Waiting /\ Waiting' \subseteq Waiting
  <2>1. UnitsOf(buffer') \subseteq UnitsOf(buffer)
    BY <1>2 DEF UnitsOf
  <2>2. u \in UnitsOf(buffer)
    BY <1>2, EndIsNoUnit DEF UnitsOf
  <2>. QED  BY <1>1, <2>1, <2>2 DEF Waiting
<1>. HIDE DEF u
<1>4. CASE u.unit = "byte" \/ u.length > MaxPayload
  <2>1. Fail /\ UNCHANGED <<payload, incoming, capacity, acted, dispatched>>
    BY <1>4 DEF TakeHeader, cameraVars, u
  <2>2. StreamTypes'
    BY <1>0, <1>1, <1>2, <2>1, FailTypes DEF StreamTypes
  <2>. QED  BY <1>3, <2>1, <2>2, LostKeeps DEF Fail, Return
<1>5. CASE ~(u.unit = "byte" \/ u.length > MaxPayload)
  <2>1. /\ container' = u /\ step' = "payload" /\ left' = u.length
        /\ sources' = sources \cup {u.about}
        /\ UNCHANGED <<poisoned, stage, command, verdict, transactionId, capacity,
                       dispatched, payload, incoming, acted>>
    BY <1>5 DEF TakeHeader, cameraVars, u
  <2>2. StreamTypes'
    BY <1>0, <1>1, <1>2, <2>1 DEF StreamTypes, UnitRecord
  <2>3. IsHeader(u) /\ (Own(container)' <=> u.id = command.id)
    BY <1>5, <2>1 DEF IsHeader, Own
  <2>4. \A w : (Mine(w)' <=> Mine(w)) /\ (OwnHeader(w)' <=> OwnHeader(w))
    BY <2>1 DEF Mine, OwnHeader
  <2>5. ~Idle' /\ (Accepted' <=> u.id = command.id) /\ ~Fresh'
    BY <2>1, <2>3 DEF Accepted, Fresh, Idle
  <2>6. IdsKept' /\ \A w \in Waiting' : w.about <= command'.serial
    BY <1>0, <1>3, <2>1 DEF StreamInv, IdsKept
  <2>7. u.id = command.id => Mine(u)
    BY <1>0, <1>3, <2>3 DEF StreamInv, AnswerKept, OwnHeader
  <2>8. IncomingKept'
    BY <1>0, <1>3, <2>1, <2>4, <2>5, <2>7 DEF StreamInv, IncomingKept, Idle
  <2>9. LeftoversKept'
    BY <2>5 DEF LeftoversKept
  <2>10. AnswerKept'
    <3>1. \A w \in Waiting' : OwnHeader(w)' => Mine(w)'
      BY <1>0, <1>3, <2>4 DEF StreamInv, AnswerKept
    <3>2. \A w, v \in Waiting' :
             IsHeader(w) /\ Mine(w)' /\ IsHeader(v) /\ Mine(v)' => w.id = v.id
      BY <1>0, <1>3, <2>4 DEF StreamInv, AnswerKept
    <3>3. ASSUME u.id = command.id
          PROVE  /\ sources' = {command'.serial}
                 /\ \A w \in Waiting' : Mine(w)' /\ (IsHeader(w) => w.id = command'.id)
      <4>1. CASE payload # -1
        <5>1. Accepted
          BY <1>0, <4>1 DEF Accepted
        <5>. QED  BY <1>0, <1>3, <2>1, <2>4, <2>7, <3>3, <5>1 DEF StreamInv, AnswerKept, Mine
      <4>2. CASE payload = -1
        <5>1. Fresh
          BY <1>0, <4>2 DEF Fresh
        <5>2. sources = {} /\ (StaleFirst \/ \A w \in Waiting : Mine(w))
          BY <1>0, <5>1 DEF StreamInv, AnswerKept
        <5>3. ~StaleFirst
          BY <1>1, <1>2, <2>7, <3>3 DEF StaleFirst
        <5>4. \A w \in Waiting : Mine(w) /\ (IsHeader(w) => w.id = u.id)
          BY <1>0, <1>3, <2>3, <5>2, <5>3, <2>7, <3>3 DEF StreamInv, AnswerKept
        <5>. QED  BY <1>3, <2>1, <2>4, <2>7, <3>3, <5>2, <5>4 DEF Mine
      <4>. QED  BY <4>1, <4>2
    <3>. QED  BY <2>1, <2>5, <3>1, <3>2, <3>3 DEF AnswerKept
  <2>11. ActedKept'
    BY <1>0, <1>3, <2>1, <2>3, <2>4, <2>7 DEF StreamInv, ActedKept
  <2>12. ~(Idle /\ verdict = "ok")'
    BY <2>5
  <2>. QED  BY <2>2, <2>6, <2>8, <2>9, <2>10, <2>11, <2>12 DEF StreamInv
<1>. QED  BY <1>4, <1>5

LEMMA TakePayloadKeeps ==
  ASSUME StreamInv, TakePayload, ClockInv'
  PROVE  StreamInv'
<1>. DEFINE n == Least(left, Len(buffer))
<1>0. StreamTypes /\ step = "payload" /\ ~Idle /\ ~Fresh
  BY DEF StreamInv, TakePayload, Idle, Fresh
<1>1. buffer \in Seq(UnitRecord) /\ n \in 0..Len(buffer) /\ n <= left
        /\ left \in Nat /\ Len(buffer) \in Nat
  BY <1>0 DEF StreamTypes, Least
<1>2. /\ buffer' = After(buffer, n) /\ left' = left - n
      /\ sources' = sources \cup {buffer[k].about : k \in 1..n}
      /\ UNCHANGED <<transactionId, poisoned, capacity, stage, step, command,
                     dispatched, payload, container, verdict, pipe, incoming, acted>>
  BY DEF TakePayload, cameraVars
<1>. HIDE DEF n
<1>3. buffer' \in Seq(UnitRecord) /\ UnitsOf(buffer') \subseteq UnitsOf(buffer)
  BY <1>1, <1>2, AfterPart
<1>4. Waiting' \subseteq Waiting
  BY <1>2, <1>3 DEF Waiting
<1>5. StreamTypes'
  BY <1>0, <1>1, <1>2, <1>3 DEF StreamTypes
<1>6. Accepted => UNCHANGED sources
  <2>. SUFFICES ASSUME Accepted PROVE UNCHANGED sources
    OBVIOUS
  <2>1. \A k \in 1..n : k \in 1..Len(buffer) /\ buffer[k] \in UnitRecord
    BY <1>1
  <2>2. \A k \in 1..n : buffer[k] \in Waiting
    BY <2>1, EndIsNoUnit, Zenon DEF Waiting, UnitsOf
  <2>3. sources = {command.serial} /\ \A w \in Waiting : w.about = command.serial
    BY <1>0 DEF StreamInv, AnswerKept, Mine
  <2>. QED  BY <1>2, <2>2, <2>3
<1>. QED  BY <1>0, <1>2, <1>4, <1>5, <1>6, QuietKeeps

\* A transaction that got an answer leaves none that the next could take.
LEMMA AnsweredKeeps ==
  ASSUME StreamInv, StreamTypes', ClockInv', NEW v \in {"ok", "already", "rejected"},
         step = "payload", Own(container), buffer = <<>>, Return(v),
         UNCHANGED <<transactionId, poisoned, buffer, pipe, incoming, acted, sources>>
  PROVE  StreamInv'
<1>1. Accepted /\ ~Idle
  BY DEF Accepted, Idle
<1>2. sources = {command.serial} /\ \A u \in Waiting : IsHeader(u) => u.id = command.id
  BY <1>1 DEF StreamInv, AnswerKept
<1>3. /\ transactionId = command.id + 1
      /\ stage = "clearing" => command.id # 0
      /\ stage # "new"
      /\ incoming = NoCommand
      /\ command.id \in Nat
  BY <1>1 DEF StreamInv, IdsKept, IncomingKept, ClockInv, CommandRecord, Idle
<1>4. UNCHANGED <<stage, command, Waiting>> /\ step' = "idle" /\ verdict' = v
  BY DEF Return, Waiting
<1>5. IdsKept'
  BY <1>3, <1>4 DEF IdsKept, Idle
<1>6. IncomingKept'
  BY <1>3, <1>4 DEF IncomingKept, Idle
<1>7. LeftoversKept'
  BY <1>2, <1>3, <1>4 DEF LeftoversKept
<1>8. AnswerKept' /\ ActedKept'
  BY <1>4 DEF AnswerKept, ActedKept, Idle
<1>9. (\A u \in Waiting : u.about <= command.serial)'
  BY <1>4 DEF StreamInv
<1>. QED  BY <1>2, <1>4, <1>5, <1>6, <1>7, <1>8, <1>9 DEF StreamInv

LEMMA JudgeKeeps ==
  ASSUME StreamInv, Judge, ClockInv'
  PROVE  StreamInv'
<1>0. /\ StreamTypes /\ step = "payload" /\ ~Idle
      /\ UNCHANGED <<transactionId, buffer, dispatched, sources, pipe, incoming, acted>>
      /\ UNCHANGED Waiting
  BY DEF StreamInv, Judge, Idle, cameraVars, Waiting
<1>1. CASE Fail /\ UNCHANGED <<payload, capacity>>
  <2>1. StreamTypes'
    BY <1>0, <1>1, FailTypes DEF StreamTypes
  <2>. QED  BY <1>0, <1>1, <2>1, LostKeeps DEF Fail, Return
<1>2. CASE /\ Own(container) /\ container.unit = "data" /\ payload < 0
           /\ payload' = container.length
           /\ step' = "header" /\ left' = 1 /\ container' = NoHeader
           /\ UNCHANGED <<poisoned, stage, command, verdict, capacity>>
  <2>1. container \in UnitRecord /\ container.length \in Nat
    BY <1>0, <1>2 DEF StreamTypes, NoHeader, Header, UnitRecord
  <2>2. StreamTypes' /\ payload' # -1
    BY <1>0, <1>2, <2>1 DEF StreamTypes
  <2>3. Accepted /\ Accepted' /\ ~Fresh' /\ ~Idle'
    BY <1>0, <1>2, <2>2 DEF Accepted, Fresh, Idle
  <2>4. \A w : (Mine(w)' <=> Mine(w)) /\ (OwnHeader(w)' <=> OwnHeader(w))
    BY <1>2 DEF Mine, OwnHeader
  <2>5. IdsKept' /\ (\A u \in Waiting : u.about <= command.serial)'
    BY <1>0, <1>2 DEF StreamInv, IdsKept
  <2>6. IncomingKept'
    BY <1>0, <1>2, <2>3, <2>4 DEF StreamInv, IncomingKept, Idle
  <2>7. AnswerKept'
    BY <1>0, <1>2, <2>3, <2>4 DEF StreamInv, AnswerKept, Idle
  <2>8. ActedKept'
    BY <1>0, <1>2, <2>4 DEF StreamInv, ActedKept
  <2>9. LeftoversKept' /\ ~(Idle /\ verdict = "ok")'
    BY <2>3 DEF LeftoversKept
  <2>. QED  BY <2>2, <2>5, <2>6, <2>7, <2>8, <2>9 DEF StreamInv
<1>3. CASE /\ Own(container) /\ buffer = <<>>
           /\ \E v \in {"ok", "already", "rejected"} : Return(v)
           /\ UNCHANGED <<poisoned, payload>>
           /\ capacity' \in Capacities
  <2>1. PICK v \in {"ok", "already", "rejected"} : Return(v)
    BY <1>3
  <2>2. StreamTypes'
    BY <1>0, <1>3, <2>1 DEF StreamTypes, Return
  <2>. QED  BY <1>0, <1>3, <2>1, <2>2, AnsweredKeeps
<1>4. Observe => capacity' \in Capacities
  BY <1>0 DEF Observe, NextChunk, Capacities, StreamTypes
<1>5. UNCHANGED capacity => capacity' \in Capacities
  BY <1>0 DEF StreamTypes
<1>. QED  BY <1>1, <1>2, <1>3, <1>4, <1>5 DEF Judge

\* The command or its data went on, or the camera has all of it.
LEMMA WriteSomeKeeps ==
  ASSUME StreamInv, NEW n \in Nat, NEW d, WriteSome(n, d), ClockInv'
  PROVE  StreamInv'
<1>0. /\ StreamTypes /\ step \in {"command", "data"} /\ ~Idle /\ Fresh /\ ~Accepted
      /\ DataLength \in Nat
  BY GeometryAssumption DEF StreamInv, WriteSome, Writing, Idle, Fresh, Accepted
<1>1. /\ UNCHANGED <<poisoned, stage, command, payload, container, verdict,
                     sources, acted, capacity, buffer, pipe>>
      /\ dispatched' = TRUE
      /\ n \in 1..left
  BY DEF WriteSome
<1>2. UNCHANGED Waiting /\ (StaleFirst' <=> StaleFirst)
  BY <1>1 DEF Waiting, StaleFirst, Mine
<1>3. CASE n < left /\ left' = left - n /\ UNCHANGED <<step, transactionId, incoming>>
  <2>1. StreamTypes'
    BY <1>0, <1>1, <1>3 DEF StreamTypes
  <2>. QED  BY <1>0, <1>1, <1>2, <1>3, <2>1, QuietKeeps
<1>4. CASE /\ transactionId' = command.id + 1
           /\ step' \in {"header", "data"} /\ left' \in Nat
           /\ incoming' = IF step' = "header" THEN command ELSE incoming
  <2>1. command \in CommandRecord
    BY DEF StreamInv, ClockInv
  <2>2. StreamTypes'
    BY <1>0, <1>1, <1>4, <2>1 DEF StreamTypes
  <2>3. \A w : (Mine(w)' <=> Mine(w)) /\ (OwnHeader(w)' <=> OwnHeader(w))
    BY <1>1 DEF Mine, OwnHeader
  <2>4. payload = -1 /\ buffer = <<>> /\ \A u \in Waiting : ~Mine(u)
    BY <1>0 DEF StreamInv, AnswerKept
  <2>5. Fresh' /\ ~Accepted' /\ ~Idle'
    BY <1>1, <1>4, <2>4 DEF Fresh, Accepted, Idle
  <2>6. IdsKept' /\ \A u \in Waiting' : u.about <= command'.serial
    BY <1>0, <1>1, <1>2, <1>4 DEF StreamInv, IdsKept, Idle
  <2>7. IncomingKept'
    <3>1. incoming = NoCommand /\ ~acted /\ ~poisoned
      BY <1>0 DEF StreamInv, IncomingKept
    <3>2. command.serial \in Nat
      BY <2>1 DEF CommandRecord
    <3>. QED  BY <1>1, <1>2, <1>4, <2>3, <2>4, <2>5, <3>1, <3>2 DEF IncomingKept
  <2>8. AnswerKept'
    BY <1>0, <1>1, <1>2, <1>4, <2>3, <2>4, <2>5 DEF StreamInv, AnswerKept
  <2>9. ActedKept' /\ LeftoversKept' /\ ~(Idle /\ verdict = "ok")'
    BY <1>2, <1>4, <2>3, <2>4, <2>5 DEF ActedKept, LeftoversKept
  <2>. QED  BY <2>2, <2>6, <2>7, <2>8, <2>9 DEF StreamInv
<1>. QED  BY <1>0, <1>3, <1>4 DEF WriteSome, IdAfter

\* The write ends without an answer to wait for.
LEMMA WriteEndsKeeps ==
  ASSUME StreamInv, Writing, NEW sent \in BOOLEAN, WriteEnds(sent), ClockInv',
         incoming' = incoming \/ (sent /\ incoming' = command)
  PROVE  StreamInv'
<1>0. /\ StreamTypes /\ step \in {"command", "data"} /\ ~Idle
      /\ command \in CommandRecord
  BY DEF StreamInv, Writing, Idle, ClockInv
<1>1. /\ UNCHANGED <<stage, command, payload, sources, acted, capacity, buffer, pipe>>
      /\ step' = "idle" /\ dispatched' = sent /\ left' = 0 /\ container' = NoHeader
      /\ poisoned' = (poisoned \/ LostWrite(sent))
      /\ transactionId' = IdAfter(sent)
      /\ verdict' = IF LostWrite(sent) THEN "lost" ELSE "unsent"
  BY DEF WriteEnds, Return
<1>2. UNCHANGED Waiting
  BY <1>1 DEF Waiting
<1>3. StreamTypes'
  <2>1. poisoned' \in BOOLEAN
    BY <1>0, <1>1 DEF StreamTypes, LostWrite
  <2>. QED  BY <1>0, <1>1, <2>1 DEF StreamTypes
<1>4. CASE LostWrite(sent)
  <2>1. poisoned' = TRUE
    BY <1>1, <1>4
  <2>. QED  BY <1>1, <1>2, <1>3, <1>4, <2>1, LostKeeps
<1>5. CASE ~LostWrite(sent)
  <2>1. /\ step = "command" /\ ~sent /\ transactionId' = transactionId
        /\ transactionId = command.id /\ incoming' = incoming
    BY <1>0, <1>1, <1>5 DEF LostWrite, IdAfter, StreamInv, IdsKept
  <2>2. incoming = NoCommand /\ ~poisoned /\ ~poisoned'
    BY <1>0, <1>1, <1>5 DEF StreamInv, IncomingKept
  <2>3. IdsKept' /\ \A u \in Waiting' : u.about <= command'.serial
    BY <1>0, <1>1, <1>2, <1>5 DEF StreamInv, IdsKept, Idle
  <2>4. IncomingKept'
    BY <1>1, <2>1, <2>2 DEF IncomingKept, Idle
  <2>5. LeftoversKept'
    <3>1. buffer = <<>> /\ \A u \in Waiting : ~OwnHeader(u)
      BY <1>0, <2>1 DEF StreamInv, AnswerKept
    <3>2. stage # "new"
      BY <1>0 DEF StreamInv, IdsKept
    <3>. QED  BY <1>1, <1>2, <1>5, <2>1, <3>1, <3>2 DEF LeftoversKept, OwnHeader
  <2>6. AnswerKept' /\ ActedKept' /\ ~(Idle /\ verdict = "ok")'
    BY <1>1, <1>5 DEF AnswerKept, ActedKept, Idle
  <2>. QED  BY <1>3, <2>3, <2>4, <2>5, <2>6 DEF StreamInv
<1>. QED  BY <1>4, <1>5

LEMMA WriteKeeps ==
  ASSUME StreamInv, Write \/ WaitToWrite \/ WriteExpires \/ WriteError, ClockInv'
  PROVE  StreamInv'
<1>0. StreamTypes
  BY DEF StreamInv
<1>1. CASE Write
  <2>1. \A n \in 1..(DataLength + 1) : n \in Nat
    OBVIOUS
  <2>. QED  BY <1>1, <2>1, WriteSomeKeeps DEF Write
<1>2. CASE WaitToWrite
  <2>1. UNCHANGED Waiting /\ (StaleFirst' <=> StaleFirst)
    BY <1>2 DEF WaitToWrite, cameraVars, Waiting, StaleFirst, Mine
  <2>2. StreamTypes'
    BY <1>0, <1>2 DEF WaitToWrite, cameraVars, StreamTypes
  <2>. QED  BY <1>2, <2>1, <2>2, QuietKeeps DEF WaitToWrite, cameraVars
<1>3. CASE WriteExpires
  BY <1>0, <1>3, WriteEndsKeeps DEF WriteExpires, StreamTypes
<1>4. CASE WriteError
  BY <1>0, <1>4, WriteEndsKeeps DEF WriteError, StreamTypes
<1>. QED  BY <1>1, <1>2, <1>3, <1>4

-----------------------------------------------------------------------------
(* The steps between transactions.                                         *)

\* What waits belongs to none of the ids a transaction may begin with.
LEMMA BeginKeeps ==
  ASSUME StreamInv, ClockInv', NEW kind, NEW id \in 0..MaxId, NEW hard,
         Begin(kind, id, hard), stage' # "new", stage' = "clearing" => id # 0,
         ~poisoned => \A u \in Waiting : IsHeader(u) => u.id # id
  PROVE  StreamInv'
<1>0. /\ StreamTypes /\ Idle /\ command \in CommandRecord /\ command.serial \in Nat
      /\ \A u \in Waiting : u.about \in Nat
      /\ \A u \in Waiting : u.about <= command.serial
  BY WaitingUnits DEF StreamInv, Begin, Idle, ClockInv, CommandRecord, UnitRecord
<1>1. /\ UNCHANGED <<poisoned, capacity, buffer, container, pipe, incoming>>
      /\ transactionId' = id /\ acted' = FALSE /\ sources' = {} /\ payload' = -1
  BY DEF Begin
<1>2. UNCHANGED Waiting
  BY <1>1 DEF Waiting
<1>3. CASE /\ Usable(id)
           /\ command' = [kind |-> kind, serial |-> command.serial + 1,
                          id |-> id, hard |-> hard]
           /\ step' = "command" /\ dispatched' = FALSE /\ left' = 1
           /\ UNCHANGED verdict
  <2>1. ~poisoned /\ incoming = NoCommand /\ buffer = <<>>
    BY <1>0, <1>3 DEF Usable, StreamInv, IncomingKept, LeftoversKept
  <2>2. command'.serial = command.serial + 1 /\ command'.id = id
    BY <1>3
  <2>3. StreamTypes'
    <3>1. payload' \in Int /\ payload' >= -1
      BY <1>1
    <3>. QED  BY <1>0, <1>1, <1>3, <3>1 DEF StreamTypes
  <2>4. \A u \in Waiting : ~(Mine(u)') /\ ~(OwnHeader(u)') /\ u.about <= command'.serial
    BY <1>0, <2>1, <2>2 DEF Mine, OwnHeader
  <2>5. ~Idle' /\ Fresh' /\ ~Accepted'
    BY <1>3 DEF Idle, Fresh, Accepted
  <2>6. IdsKept'
    BY <1>1, <1>3, <2>2 DEF IdsKept
  <2>7. IncomingKept'
    BY <1>1, <1>3, <2>1, <2>5 DEF IncomingKept
  <2>8. AnswerKept'
    <3>1. StaleFirst' \/ Waiting = {}
      <4>1. CASE UnitsOf(pipe) = {}
        BY <2>1, <4>1 DEF Waiting, UnitsOf
      <4>2. CASE UnitsOf(pipe) # {}
        <5>1. PICK k \in 1..Len(pipe) :
                 pipe[k] # End /\ \A j \in 1..(k - 1) : pipe[j] = End
          BY <1>0, <4>2, FirstUnit
        <5>2. pipe[k] \in Waiting
          BY <5>1 DEF Waiting, UnitsOf
        <5>3. pipe[k].about # command'.serial
          BY <2>4, <5>2 DEF Mine
        <5>. QED  BY <1>1, <2>1, <5>1, <5>3 DEF StaleFirst, Mine
      <4>. QED  BY <4>1, <4>2
    <3>. QED  BY <1>1, <1>2, <1>3, <2>1, <2>4, <2>5, <3>1 DEF AnswerKept
  <2>9. ActedKept' /\ LeftoversKept' /\ ~(Idle /\ verdict = "ok")'
    BY <1>2, <1>3, <2>4, <2>5 DEF ActedKept, LeftoversKept
  <2>10. \A u \in Waiting' : u.about <= command'.serial
    BY <1>2, <2>4
  <2>. QED  BY <2>3, <2>6, <2>7, <2>8, <2>9, <2>10 DEF StreamInv
<1>4. CASE /\ ~Usable(id)
           /\ verdict' = "refused"
           /\ command' = [command EXCEPT !.serial = @ + 1]
           /\ UNCHANGED <<step, dispatched, left>>
  <2>1. command'.serial = command.serial + 1
    BY <1>0, <1>4 DEF CommandRecord
  <2>2. StreamTypes'
    <3>1. payload' \in Int /\ payload' >= -1
      BY <1>1
    <3>. QED  BY <1>0, <1>1, <1>4, <3>1 DEF StreamTypes
  <2>3. Idle' /\ step' = "idle"
    BY <1>0, <1>4 DEF Idle
  <2>4. IdsKept'
    BY <1>4, <2>3 DEF IdsKept
  <2>5. IncomingKept'
    <3>1. incoming \in CommandRecord /\ incoming.serial \in Nat
      BY <1>0 DEF StreamTypes, CommandRecord
    <3>2. incoming # NoCommand => incoming.serial <= command.serial /\ poisoned
      BY <1>0 DEF StreamInv, IncomingKept
    <3>. QED  BY <1>0, <1>1, <2>1, <2>3, <3>1, <3>2 DEF IncomingKept
  <2>6. LeftoversKept'
    BY <1>0, <1>1, <1>2, <1>4 DEF StreamInv, LeftoversKept
  <2>7. AnswerKept' /\ ActedKept' /\ ~(Idle /\ verdict = "ok")'
    BY <1>4, <2>3 DEF AnswerKept, ActedKept
  <2>8. \A u \in Waiting' : u.about <= command'.serial
    BY <1>0, <1>2, <2>1
  <2>. QED  BY <2>2, <2>4, <2>5, <2>6, <2>7, <2>8 DEF StreamInv
<1>. QED  BY <1>3, <1>4 DEF Begin

\* The session moves on without a command.
LEMMA StageKeeps ==
  ASSUME StreamInv, ClockInv', Idle, stage' \in {"ready", "over"},
         UNCHANGED <<transactionId, poisoned, capacity, successes, buffer, filled,
                     step, command, dispatched, left, payload, container, now,
                     expires, verdict, sources, cameraVars, fault>>
  PROVE  StreamInv'
<1>1. UNCHANGED <<pipe, incoming, acted>> /\ UNCHANGED <<Waiting, StaleFirst>>
  BY DEF cameraVars, Waiting, StaleFirst, Mine
<1>2. StreamTypes'
  BY <1>1 DEF StreamInv, StreamTypes
<1>3. Idle' /\ step' = "idle"
  BY DEF Idle
<1>4. IdsKept' /\ (\A u \in Waiting : u.about <= command.serial)'
  BY <1>1, <1>3 DEF StreamInv, IdsKept
<1>5. IncomingKept'
  BY <1>1, <1>3 DEF StreamInv, IncomingKept
<1>6. LeftoversKept'
  BY <1>1, <1>3 DEF StreamInv, LeftoversKept
<1>7. AnswerKept' /\ ActedKept'
  BY <1>3 DEF AnswerKept, ActedKept
<1>8. (Idle /\ verdict = "ok" => sources = {command.serial})'
  BY DEF StreamInv, Idle
<1>. QED  BY <1>2, <1>4, <1>5, <1>6, <1>7, <1>8 DEF StreamInv

LEMMA SessionKeeps ==
  ASSUME StreamInv, ClockInv',
         \/ OpenSession \/ ClearStaleSession \/ ReopenSession \/ SessionOpened
         \/ \E kind \in {"read", "write"} : Call(kind)
         \/ CloseSession \/ SessionClosed
  PROVE  StreamInv'
<1>0. /\ 0 \in 0..MaxId /\ transactionId \in 0..MaxId /\ command.id \in Nat
  BY BoundsAssumption DEF StreamInv, ClockInv, CommandRecord
<1>1. Idle /\ ~poisoned => \A u \in Waiting : IsHeader(u) =>
          /\ u.id # transactionId
          /\ stage = "new" \/ (stage = "clearing" /\ verdict = "ok") => u.id # 0
  BY DEF StreamInv, LeftoversKept
<1>2. CASE OpenSession
  <2>1. Begin("open", 0, HardTimeout) /\ stage = "new" /\ stage' = "opening" /\ Idle
    BY <1>2 DEF OpenSession, Begin, Idle
  <2>. QED  BY <1>0, <1>1, <2>1, BeginKeeps
<1>3. CASE ClearStaleSession
  <2>1. /\ Begin("close", transactionId, HardTimeout) /\ stage' = "clearing"
        /\ Idle /\ verdict = "already"
    BY <1>3 DEF ClearStaleSession
  <2>2. transactionId # 0
    BY <1>0, <2>1 DEF StreamInv, IdsKept, Idle
  <2>. QED  BY <1>0, <1>1, <2>1, <2>2, BeginKeeps
<1>4. CASE ReopenSession
  <2>1. /\ Begin("open", 0, HardTimeout) /\ stage' = "reopening"
        /\ Idle /\ stage = "clearing" /\ verdict = "ok"
    BY <1>4 DEF ReopenSession
  <2>. QED  BY <1>0, <1>1, <2>1, BeginKeeps
<1>5. CASE SessionOpened
  <2>1. Idle /\ stage' \in {"ready", "over"}
    BY <1>5 DEF SessionOpened
  <2>. QED  BY <1>5, <2>1, StageKeeps DEF SessionOpened
<1>6. ASSUME NEW kind \in {"read", "write"}, Call(kind) PROVE StreamInv'
  <2>1. /\ Begin(kind, transactionId, HardTimeout) /\ stage = "ready" /\ stage' = "ready"
        /\ Idle
    BY <1>6 DEF Call, Begin, Idle
  <2>. QED  BY <1>0, <1>1, <2>1, BeginKeeps
<1>7. CASE CloseSession
  <2>1. CASE stage' = "over" /\
              UNCHANGED <<transactionId, poisoned, capacity, successes, buffer, filled,
                         step, command, dispatched, left, payload, container, now,
                         expires, verdict, sources, cameraVars, fault>>
    BY <1>7, <2>1, StageKeeps DEF CloseSession
  <2>2. ASSUME NEW hard, Begin("close", transactionId, hard), stage' = "closing"
        PROVE  StreamInv'
    BY <1>0, <1>1, <1>7, <2>2, BeginKeeps DEF CloseSession
  <2>. QED  BY <1>7, <2>1, <2>2 DEF CloseSession
<1>8. CASE SessionClosed
  BY <1>8, StageKeeps DEF SessionClosed
<1>. QED  BY <1>2, <1>3, <1>4, <1>5, <1>6, <1>7, <1>8

-----------------------------------------------------------------------------
(* What the camera may send is about one command.                          *)

\* The sequence q is an answer to the command with this serial number: its
\* headers carry the id and are of the given kinds.
AnswerTo(q, serial, id, kinds) ==
    /\ q \in Seq(UnitRecord \cup {End})
    /\ \A u \in UnitsOf(q) :
          /\ u.about = serial
          /\ IsHeader(u) => u.id = id /\ u.unit \in kinds

\* The units of a concatenation are those of its parts.
LEMMA ConcatUnits ==
  ASSUME NEW p \in Seq(UnitRecord \cup {End}), NEW q \in Seq(UnitRecord \cup {End})
  PROVE  /\ p \o q \in Seq(UnitRecord \cup {End})
         /\ Len(p \o q) = Len(p) + Len(q)
         /\ \A k \in 1..Len(p) : (p \o q)[k] = p[k]
         /\ UnitsOf(p \o q) \subseteq UnitsOf(p) \cup UnitsOf(q)
<1>0. Len(p) \in Nat /\ Len(q) \in Nat
  OBVIOUS
<1>1. /\ p \o q \in Seq(UnitRecord \cup {End})
      /\ Len(p \o q) = Len(p) + Len(q)
      /\ \A k \in 1..(Len(p) + Len(q)) :
            (p \o q)[k] = IF k <= Len(p) THEN p[k] ELSE q[k - Len(p)]
  BY ConcatProperties
<1>2. \A k \in 1..Len(p \o q) :
         \/ k \in 1..Len(p) /\ (p \o q)[k] = p[k]
         \/ k - Len(p) \in 1..Len(q) /\ (p \o q)[k] = q[k - Len(p)]
  BY <1>0, <1>1
<1>3. \A k \in 1..Len(p) : k \in 1..(Len(p) + Len(q)) /\ k <= Len(p)
  BY <1>0
<1>. DEFINE s == p \o q
<1>4. \A k \in 1..Len(s) :
         \/ k \in 1..Len(p) /\ s[k] = p[k]
         \/ k - Len(p) \in 1..Len(q) /\ s[k] = q[k - Len(p)]
  BY <1>2
<1>. HIDE DEF s
<1>5. UnitsOf(s) \subseteq UnitsOf(p) \cup UnitsOf(q)
  BY <1>4, Zenon DEF UnitsOf
<1>. QED  BY <1>1, <1>3, <1>5 DEF s

LEMMA AnswersJoined ==
  ASSUME NEW serial, NEW id, NEW kinds, NEW p, NEW q,
         AnswerTo(p, serial, id, kinds), AnswerTo(q, serial, id, kinds)
  PROVE  AnswerTo(p \o q, serial, id, kinds)
  BY ConcatUnits DEF AnswerTo

LEMMA EndAnswers ==
  ASSUME NEW serial, NEW id, NEW kinds
  PROVE  AnswerTo(<<End>>, serial, id, kinds) /\ AnswerTo(<<>>, serial, id, kinds)
<1>1. <<End>> \in Seq(UnitRecord \cup {End}) /\ <<>> \in Seq(UnitRecord \cup {End})
  OBVIOUS
<1>2. UnitsOf(<<End>>) = {} /\ UnitsOf(<<>>) = {}
  BY DEF UnitsOf
<1>. QED  BY <1>1, <1>2 DEF AnswerTo

LEMMA ByteAnswers ==
  ASSUME NEW serial \in Nat, NEW id, NEW kinds
  PROVE  AnswerTo(<<Byte(serial)>>, serial, id, kinds)
<1>1. Byte(serial) \in UnitRecord /\ Byte(serial).about = serial /\ ~IsHeader(Byte(serial))
  BY DEF Byte, UnitRecord, IsHeader
<1>2. UnitsOf(<<Byte(serial)>>) \subseteq {Byte(serial)}
  BY DEF UnitsOf
<1>. QED  BY <1>1, <1>2 DEF AnswerTo

LEMMA ContainerAnswers ==
  ASSUME NEW serial \in Nat, NEW id \in Nat, NEW kinds \in SUBSET HeaderKinds,
         NEW kind \in kinds, NEW length \in Nat
  PROVE  /\ AnswerTo(Container(kind, id, length, serial), serial, id, kinds)
         /\ AnswerTo(<<Head(Container(kind, id, length, serial))>>, serial, id, kinds)
<1>. DEFINE h == Header(kind, id, length, serial)
            bytes == [k \in 1..length |-> Byte(serial)]
<1>1. h \in UnitRecord /\ h.about = serial /\ h.id = id /\ h.unit = kind
  BY DEF Header, UnitRecord
<1>2. Byte(serial) \in UnitRecord /\ Byte(serial).about = serial /\ ~IsHeader(Byte(serial))
  BY DEF Byte, UnitRecord, IsHeader
<1>3. AnswerTo(<<h>>, serial, id, kinds)
  <2>. HIDE DEF h
  <2>1. UnitsOf(<<h>>) \subseteq {h}
    BY DEF UnitsOf
  <2>. QED  BY <1>1, <2>1 DEF AnswerTo
<1>4. AnswerTo(bytes, serial, id, kinds)
  <2>1. bytes \in Seq(UnitRecord \cup {End}) /\ Len(bytes) = length
    BY <1>2
  <2>2. \A k \in 1..Len(bytes) : bytes[k] = Byte(serial)
    BY <2>1
  <2>. HIDE DEF bytes
  <2>3. UnitsOf(bytes) \subseteq {Byte(serial)}
    BY <2>2 DEF UnitsOf
  <2>. QED  BY <1>2, <2>1, <2>3 DEF AnswerTo
<1>5. Container(kind, id, length, serial) = <<h>> \o bytes
  BY DEF Container
<1>6. Head(<<h>> \o bytes) = h
  <2>1. <<h>> \in Seq(UnitRecord \cup {End}) /\ Len(<<h>>) = 1 /\ <<h>>[1] = h
    BY <1>1
  <2>2. bytes \in Seq(UnitRecord \cup {End})
    BY <1>4 DEF AnswerTo
  <2>. HIDE DEF h, bytes
  <2>3. /\ <<h>> \o bytes \in Seq(UnitRecord \cup {End})
        /\ Len(<<h>> \o bytes) = 1 + Len(bytes)
        /\ (<<h>> \o bytes)[1] = h
    BY <2>1, <2>2, ConcatUnits
  <2>. QED  BY <2>2, <2>3
<1>. HIDE DEF h, bytes
<1>. QED  BY <1>3, <1>4, <1>5, <1>6, AnswersJoined

LEMMA TransferAnswers ==
  ASSUME NEW serial, NEW id, NEW kinds, NEW q, AnswerTo(q, serial, id, kinds),
         NEW a \in Transfers(q)
  PROVE  AnswerTo(a, serial, id, kinds)
<1>1. a = Append(q, End) \/ a = q
  BY DEF Transfers
<1>2. Append(q, End) = q \o <<End>>
  BY AppendIsConcat DEF AnswerTo
<1>. QED  BY <1>1, <1>2, AnswersJoined, EndAnswers

\* The regular answers, for the command that came in.
LEMMA AnswersAbout ==
  ASSUME NEW kind \in {"ok", "error", "already"}, NEW a \in Answers(kind),
         incoming.serial \in Nat, incoming.id \in Nat
  PROVE  AnswerTo(a, incoming.serial, incoming.id,
                  IF kind = "ok" THEN {"data", "ok"} ELSE {kind})
<1>. DEFINE s == incoming.serial
            i == incoming.id
            K == IF kind = "ok" THEN {"data", "ok"} ELSE {kind}
<1>0. K \in SUBSET HeaderKinds /\ kind \in K
  BY DEF HeaderKinds
<1>1. \A r \in Responses(kind) : AnswerTo(r, s, i, K)
  <2>. HIDE DEF K
  <2>. QED  BY <1>0, ContainerAnswers DEF Responses, Response
<1>2. CASE incoming.kind = "read" /\ kind = "ok"
  <2>1. PICK n \in PayloadLengths, r \in Responses("ok") : a \in Sent(Data(n), r)
    BY <1>2 DEF Answers
  <2>2. n \in Nat /\ "data" \in K
    BY <1>2, GeometryAssumption
  <2>3. AnswerTo(Data(n), s, i, K)
    BY <1>0, <2>2, ContainerAnswers DEF Data
  <2>4. AnswerTo(r, s, i, K)
    BY <1>1, <1>2
  <2>5. \/ a \in Transfers(Data(n) \o r)
        \/ \E x \in Transfers(Data(n)), y \in Transfers(r) : a = x \o y
    BY <2>1 DEF Sent
  <2>. HIDE DEF K, s, i
  <2>6. CASE a \in Transfers(Data(n) \o r)
    <3>1. AnswerTo(Data(n) \o r, s, i, K)
      BY <2>3, <2>4, AnswersJoined
    <3>. QED  BY <2>6, <3>1, TransferAnswers DEF K, s, i
  <2>7. ASSUME NEW x \in Transfers(Data(n)), NEW y \in Transfers(r), a = x \o y
        PROVE  AnswerTo(a, s, i, K)
    <3>1. AnswerTo(x, s, i, K) /\ AnswerTo(y, s, i, K)
      BY <2>3, <2>4, TransferAnswers
    <3>. QED  BY <2>7, <3>1, AnswersJoined
  <2>. QED  BY <2>5, <2>6, <2>7 DEF K, s, i
<1>3. CASE ~(incoming.kind = "read" /\ kind = "ok")
  <2>1. PICK r \in Responses(kind) : a \in Transfers(r)
    BY <1>3 DEF Answers
  <2>. HIDE DEF K, s, i
  <2>. QED  BY <1>1, <2>1, TransferAnswers DEF K, s, i
<1>. QED  BY <1>2, <1>3

\* The broken ones: also there all headers carry the same id.
LEMMA BrokenAnswersAbout ==
  ASSUME NEW a \in BrokenAnswers, incoming.serial \in Nat, incoming.id \in Nat
  PROVE  \E i : AnswerTo(a, incoming.serial, i, {"data", "ok", "other"})
<1>. DEFINE s == incoming.serial
            i == incoming.id
            K == {"data", "ok", "other"}
            r == Response("ok", 0)
            d == Data(1)
            e == <<End>>
<1>0. K \in SUBSET HeaderKinds /\ "data" \in K /\ "ok" \in K /\ "other" \in K
        /\ MaxPayload + 1 \in Nat /\ i + 1 \in Nat
  BY GeometryAssumption DEF HeaderKinds
<1>1. AnswerTo(r, s, i, K) /\ AnswerTo(d, s, i, K) /\ AnswerTo(Data(2), s, i, K)
        /\ AnswerTo(<<Head(Data(2))>>, s, i, K)
  BY <1>0, ContainerAnswers DEF Response, Data
<1>2. AnswerTo(Container("ok", i + 1, 0, s), s, i + 1, K)
  BY <1>0, ContainerAnswers
<1>3. AnswerTo(Container("other", i, 0, s), s, i, K)
        /\ AnswerTo(Container("data", i, MaxPayload + 1, s), s, i, K)
  BY <1>0, ContainerAnswers
<1>4. AnswerTo(e, s, i, K) /\ AnswerTo(e, s, i + 1, K) /\ AnswerTo(<<>>, s, i, K)
  BY EndAnswers
<1>5. AnswerTo(<<Byte(s), End>>, s, i, K)
  <2>1. <<Byte(s), End>> = <<Byte(s)>> \o <<End>>
    OBVIOUS
  <2>. QED  BY <1>4, <2>1, ByteAnswers, AnswersJoined
<1>6. AnswerTo(<<Head(Data(2)), End>>, s, i, K)
  <2>1. <<Head(Data(2)), End>> = <<Head(Data(2))>> \o <<End>>
    OBVIOUS
  <2>. QED  BY <1>1, <1>4, <2>1, AnswersJoined
<1>7. a \in {<<>>, r \o e \o r \o e, r \o <<Byte(s), End>>,
             Container("ok", i + 1, 0, s) \o e,
             Container("other", i, 0, s) \o e,
             Container("data", i, MaxPayload + 1, s) \o e,
             d \o e, d \o e \o d \o e \o r \o e,
             Data(2) \o r \o <<Byte(s), End>>,
             <<Head(Data(2)), End>> \o r \o e}
  BY DEF BrokenAnswers
<1>. HIDE DEF s, i, K, r, d, e
<1>8. AnswerTo(r \o e \o r \o e, s, i, K) /\ AnswerTo(d \o e \o d \o e \o r \o e, s, i, K)
  BY <1>1, <1>4, AnswersJoined
<1>9. AnswerTo(a, s, i, K) \/ AnswerTo(a, s, i + 1, K)
  BY <1>1, <1>2, <1>3, <1>4, <1>5, <1>6, <1>7, <1>8, AnswersJoined
<1>. QED  BY <1>9 DEF s, K

-----------------------------------------------------------------------------
(* The camera answers.                                                     *)

\* The answer of one step of the camera, and what it says of the command.
LEMMA AnswerEffect ==
  ASSUME StreamInv, CameraAnswers
  PROVE  \E a, i, kinds :
            /\ AnswerTo(a, incoming.serial, i, kinds)
            /\ pipe' = pipe \o a
            /\ incoming.serial = command.serial =>
                  /\ "ok" \in kinds => acted'
                  /\ kinds \cap {"error", "already"} # {} => acted' = acted /\ "ok" \notin kinds
            /\ incoming' = NoCommand
            /\ acted' \in BOOLEAN
            /\ UNCHANGED hostVars
<1>0. /\ incoming.serial \in Nat /\ incoming.id \in Nat /\ acted \in BOOLEAN
      /\ incoming' = NoCommand /\ UNCHANGED hostVars
  BY DEF StreamInv, StreamTypes, CommandRecord, CameraAnswers
<1>1. ASSUME NEW a \in Answers("ok"), pipe' = pipe \o a, Executes(TRUE)
      PROVE  \E i, kinds :
                /\ AnswerTo(a, incoming.serial, i, kinds)
                /\ incoming.serial = command.serial =>
                  /\ "ok" \in kinds => acted'
                  /\ kinds \cap {"error", "already"} # {} => acted' = acted /\ "ok" \notin kinds
                /\ acted' \in BOOLEAN
  <2>1. AnswerTo(a, incoming.serial, incoming.id, {"data", "ok"})
    BY <1>0, AnswersAbout
  <2>2. acted' \in BOOLEAN /\ (incoming.serial = command.serial => acted')
    BY <1>0, <1>1 DEF Executes
  <2>. QED  BY <2>1, <2>2
<1>2. ASSUME NEW kind \in {"error", "already"}, NEW a \in Answers(kind),
             pipe' = pipe \o a, Executes(FALSE)
      PROVE  \E i, kinds :
                /\ AnswerTo(a, incoming.serial, i, kinds)
                /\ incoming.serial = command.serial =>
                  /\ "ok" \in kinds => acted'
                  /\ kinds \cap {"error", "already"} # {} => acted' = acted /\ "ok" \notin kinds
                /\ acted' \in BOOLEAN
  <2>1. AnswerTo(a, incoming.serial, incoming.id, {kind})
    BY <1>0, AnswersAbout
  <2>2. acted' \in BOOLEAN /\ acted' = acted
    BY <1>0, <1>2 DEF Executes
  <2>. QED  BY <2>1, <2>2
<1>3. ASSUME NEW a \in BrokenAnswers, pipe' = pipe \o a, Executes(TRUE)
      PROVE  \E i, kinds :
                /\ AnswerTo(a, incoming.serial, i, kinds)
                /\ incoming.serial = command.serial =>
                  /\ "ok" \in kinds => acted'
                  /\ kinds \cap {"error", "already"} # {} => acted' = acted /\ "ok" \notin kinds
                /\ acted' \in BOOLEAN
  <2>1. PICK i : AnswerTo(a, incoming.serial, i, {"data", "ok", "other"})
    BY <1>0, BrokenAnswersAbout
  <2>2. acted' \in BOOLEAN /\ (incoming.serial = command.serial => acted')
    BY <1>0, <1>3 DEF Executes
  <2>. QED  BY <2>1, <2>2
<1>4. \/ \E a \in Answers("ok") : pipe' = pipe \o a /\ Executes(TRUE)
      \/ \E kind \in {"error", "already"} : \E a \in Answers(kind) :
            pipe' = pipe \o a /\ Executes(FALSE)
      \/ \E a \in BrokenAnswers : pipe' = pipe \o a /\ Executes(TRUE)
  BY DEF CameraAnswers
<1>. QED  BY <1>0, <1>1, <1>2, <1>3, <1>4

LEMMA CameraKeeps ==
  ASSUME StreamInv, ClockInv', CameraAnswers
  PROVE  StreamInv'
<1>1. PICK a, i, kinds :
            /\ AnswerTo(a, incoming.serial, i, kinds)
            /\ pipe' = pipe \o a
            /\ incoming.serial = command.serial =>
                  /\ "ok" \in kinds => acted'
                  /\ kinds \cap {"error", "already"} # {} => acted' = acted /\ "ok" \notin kinds
            /\ incoming' = NoCommand
            /\ acted' \in BOOLEAN
            /\ UNCHANGED hostVars
  BY AnswerEffect
<1>2. /\ StreamTypes /\ pipe \in Seq(UnitRecord \cup {End})
      /\ a \in Seq(UnitRecord \cup {End})
      /\ incoming # NoCommand /\ incoming.serial <= command.serial
      /\ UNCHANGED <<transactionId, poisoned, buffer, stage, step, command, payload,
                     container, verdict, sources, left, capacity, dispatched>>
  BY <1>1 DEF StreamInv, StreamTypes, IncomingKept, CameraAnswers, AnswerTo, hostVars
<1>3. /\ pipe' \in Seq(UnitRecord \cup {End})
      /\ Len(pipe') = Len(pipe) + Len(a)
      /\ \A k \in 1..Len(pipe) : pipe'[k] = pipe[k]
      /\ UnitsOf(pipe') \subseteq UnitsOf(pipe) \cup UnitsOf(a)
  BY <1>1, <1>2, ConcatUnits
<1>4. Waiting' \subseteq Waiting \cup UnitsOf(a)
  BY <1>2, <1>3 DEF Waiting
<1>5. NoCommand \in CommandRecord
  BY BoundsAssumption DEF NoCommand, CommandRecord
<1>6. StreamTypes'
  BY <1>1, <1>2, <1>3, <1>5 DEF StreamTypes
<1>7. IdsKept' /\ (Idle /\ verdict = "ok" => sources = {command.serial})'
  BY <1>2 DEF StreamInv, IdsKept, Idle
<1>8. \A u \in Waiting' : u.about <= command'.serial
  BY <1>1, <1>2, <1>4 DEF StreamInv, AnswerTo
<1>9. CASE poisoned
  <2>1. Idle' /\ step' = "idle"
    BY <1>2, <1>9 DEF StreamInv, IncomingKept, Idle
  <2>2. IncomingKept'
    BY <1>1, <2>1 DEF IncomingKept
  <2>3. LeftoversKept' /\ AnswerKept' /\ ActedKept'
    BY <1>2, <1>9, <2>1 DEF LeftoversKept, AnswerKept, ActedKept
  <2>. QED  BY <1>6, <1>7, <1>8, <2>2, <2>3 DEF StreamInv
<1>10. CASE ~poisoned
  <2>1. /\ ~Idle /\ step \in {"header", "payload"}
        /\ incoming = command /\ ~acted /\ ~Accepted
        /\ \A u \in Waiting : ~Mine(u)
    BY <1>2, <1>10 DEF StreamInv, StreamTypes, IncomingKept, Idle
  <2>2. ~Idle' /\ ~Accepted' /\ (Fresh' <=> Fresh) /\ ~(Own(container) /\ step = "payload")'
    BY <1>2, <2>1 DEF Idle, Accepted, Fresh, Own
  <2>3. \A u \in UnitsOf(a) : Mine(u)' /\ (IsHeader(u) => u.id = i /\ u.unit \in kinds)
    BY <1>1, <1>2, <2>1 DEF AnswerTo, Mine
  <2>4. \A u : (Mine(u)' <=> Mine(u)) /\ (OwnHeader(u)' <=> OwnHeader(u))
    BY <1>2 DEF Mine, OwnHeader
  <2>5. \A u \in Waiting' : Mine(u)' => u \in UnitsOf(a)
    BY <1>4, <2>1, <2>4
  <2>6. IncomingKept'
    BY <1>1, <1>2, <1>10, <2>1 DEF IncomingKept
  <2>7. LeftoversKept'
    BY <2>2 DEF LeftoversKept
  <2>8. AnswerKept'
    <3>1. \A u \in Waiting' : OwnHeader(u)' => Mine(u)'
      BY <1>4, <2>1, <2>3, <2>4 DEF StreamInv, AnswerKept
    <3>2. \A u, v \in Waiting' :
             IsHeader(u) /\ Mine(u)' /\ IsHeader(v) /\ Mine(v)' => u.id = v.id
      BY <2>3, <2>5
    <3>3. Fresh => sources' = {} /\ (StaleFirst' \/ \A u \in Waiting' : Mine(u)')
      <4>. SUFFICES ASSUME Fresh
                    PROVE  sources' = {} /\ (StaleFirst' \/ \A u \in Waiting' : Mine(u)')
        OBVIOUS
      <4>1. sources = {} /\ (StaleFirst \/ \A u \in Waiting : Mine(u))
        BY <2>1 DEF StreamInv, AnswerKept
      <4>2. CASE StaleFirst
        <5>1. CASE buffer # <<>> /\ ~Mine(buffer[1])
          BY <1>2, <4>1, <5>1 DEF StaleFirst, Mine
        <5>2. CASE buffer = <<>>
          <6>1. PICK k \in 1..Len(pipe) :
                   pipe[k] # End /\ ~Mine(pipe[k]) /\ \A j \in 1..(k - 1) : pipe[j] = End
            BY <4>2, <5>2 DEF StaleFirst
          <6>2. /\ k \in 1..Len(pipe') /\ pipe'[k] = pipe[k]
                /\ \A j \in 1..(k - 1) : j \in 1..Len(pipe)
            BY <1>2, <1>3, <6>1
          <6>3. \A j \in 1..(k - 1) : pipe'[j] = End
            BY <1>3, <6>1, <6>2
          <6>. QED  BY <1>2, <4>1, <5>2, <6>1, <6>2, <6>3 DEF StaleFirst, Mine
        <5>. QED  BY <4>2, <5>1, <5>2 DEF StaleFirst
      <4>3. CASE \A u \in Waiting : Mine(u)
        BY <1>2, <1>4, <2>3, <2>4, <4>1, <4>3
      <4>. QED  BY <4>1, <4>2, <4>3
    <3>. QED  BY <1>2, <2>1, <2>2, <3>1, <3>2, <3>3 DEF AnswerKept
  <2>9. ActedKept'
    <3>1. \A u \in Waiting' : IsHeader(u) /\ Mine(u)' =>
             /\ u.unit = "ok" => acted'
             /\ u.unit \in {"error", "already"} => ~acted'
      BY <1>1, <2>1, <2>3, <2>5
    <3>. QED  BY <2>2, <3>1 DEF ActedKept
  <2>. QED  BY <1>6, <1>7, <1>8, <2>6, <2>7, <2>8, <2>9 DEF StreamInv
<1>. QED  BY <1>9, <1>10

\* All steps keep the invariant, given what they do to the clock.
LEMMA StreamNext == StreamInv /\ ClockInv' /\ [Next]_vars => StreamInv'
<1>. SUFFICES ASSUME StreamInv, ClockInv', [Next]_vars PROVE StreamInv'
  OBVIOUS
<1>1. CASE Transact \/ WriteError \/ ReadError
  BY <1>1, WriteKeeps, ReadKeeps, ReadFailureKeeps, TakeHeaderKeeps, TakePayloadKeeps,
     JudgeKeeps DEF Transact
<1>2. CASE CameraAnswers
  BY <1>2, CameraKeeps
<1>3. CASE UNCHANGED vars
  <2>1. UNCHANGED <<transactionId, poisoned, stage, step, command, payload, container,
                    verdict, incoming, acted, sources, buffer, pipe, left, capacity,
                    dispatched>>
    BY <1>3 DEF vars, hostVars, cameraVars
  <2>2. UNCHANGED Waiting /\ (StaleFirst' <=> StaleFirst)
    BY <2>1 DEF Waiting, StaleFirst, Mine
  <2>3. StreamTypes'
    BY <2>1 DEF StreamInv, StreamTypes
  <2>. QED  BY <2>1, <2>2, <2>3, QuietKeeps
<1>. QED  BY <1>1, <1>2, <1>3, SessionKeeps DEF Next

LEMMA StreamInit == Init => StreamInv
<1>. SUFFICES ASSUME Init PROVE StreamInv
  OBVIOUS
<1>1. ClockInv /\ NoCommand \in CommandRecord
  BY BoundsAssumption DEF Init, ClockInv, CommandRecord, NoCommand, Kinds
<1>2. Waiting = {}
  BY DEF Init, Waiting, UnitsOf
<1>3. StreamTypes
  <2>1. payload \in Int /\ payload >= -1
    BY DEF Init
  <2>2. <<>> \in Seq(UnitRecord) /\ <<>> \in Seq(UnitRecord \cup {End})
    OBVIOUS
  <2>3. capacity \in Capacities
    BY DEF Init, Capacities
  <2>. QED  BY <1>1, <2>1, <2>2, <2>3 DEF Init, StreamTypes
<1>4. IdsKept /\ IncomingKept /\ LeftoversKept /\ AnswerKept /\ ActedKept
  BY <1>2 DEF Init, IdsKept, IncomingKept, LeftoversKept, AnswerKept, ActedKept, Idle,
              Accepted
<1>. QED  BY <1>1, <1>2, <1>3, <1>4 DEF StreamInv, Init

\* What the pipes hold, what the host has consumed and what the camera did,
\* at every moment of every session.
THEOREM StreamInvariance == Spec => []StreamInv
<1>1. StreamInv /\ ClockInv' /\ [Next]_vars => StreamInv'
  BY StreamNext
<1>. QED  BY <1>1, StreamInit, ClockInvariance, PTL DEF Spec

\* No answer of an earlier command, late or repeated, is taken for the answer
\* to this one (send_with_transport_and_deadline, read_container).
THEOREM AnswersAreOwn == Spec => []AnswersOwnCommand
<1>1. StreamInv => AnswersOwnCommand
  BY BoundsAssumption DEF StreamInv, ClockInv, CommandRecord, AnswersOwnCommand
<1>. QED  BY <1>1, StreamInvariance, PTL

-----------------------------------------------------------------------------
(* The session keeps the promise of PtpLink, step by step.                 *)

\* How a call on the link ended.
LinkVerdict ==
    IF ~Idle THEN "pending"
    ELSE CASE verdict = "ok" -> "accepted"
           [] verdict \in {"none", "lost"} -> verdict
           [] OTHER -> "rejected"

LinkNext == [Link!Call \/ Link!Act \/ Link!Accept \/ Link!Reject
                \/ Link!Refuse \/ Link!Lose]_(Link!linkVars)

LEMMA LinkStutters ==
  ASSUME UNCHANGED <<poisoned, acted>>, LinkVerdict' = LinkVerdict
  PROVE  LinkNext
  BY DEF LinkNext, Link!linkVars, LinkVerdict

\* Inside a transaction nothing is visible of it.
LEMMA LinkWorks ==
  ASSUME UNCHANGED <<poisoned, acted>>, ~Idle, ~Idle'
  PROVE  LinkNext
<1>1. LinkVerdict' = LinkVerdict
  BY DEF LinkVerdict
<1>. QED  BY <1>1, LinkStutters

LEMMA LinkLoses ==
  ASSUME StreamInv, ~Idle, poisoned' = TRUE, step' = "idle", verdict' = "lost",
         UNCHANGED acted
  PROVE  LinkNext
<1>1. poisoned = FALSE
  BY DEF StreamInv, StreamTypes, IncomingKept
<1>2. LinkVerdict = "pending" /\ LinkVerdict' = "lost"
  BY DEF LinkVerdict, Idle
<1>3. Link!Lose
  BY <1>1, <1>2 DEF Link!Lose, LinkVerdict
<1>. QED  BY <1>3 DEF LinkNext

LEMMA LinkAccepts ==
  ASSUME StreamInv, ~Idle, step' = "idle", verdict' = "ok", acted = TRUE,
         UNCHANGED <<poisoned, acted>>
  PROVE  LinkNext
<1>1. poisoned = FALSE
  BY DEF StreamInv, StreamTypes, IncomingKept
<1>2. LinkVerdict = "pending" /\ LinkVerdict' = "accepted"
  BY DEF LinkVerdict, Idle
<1>3. Link!Accept
  BY <1>1, <1>2 DEF Link!Accept, LinkVerdict
<1>. QED  BY <1>3 DEF LinkNext

LEMMA LinkRejects ==
  ASSUME ~Idle, step' = "idle", verdict' \in {"rejected", "already", "unsent"},
         ~acted, UNCHANGED <<poisoned, acted>>
  PROVE  LinkNext
<1>1. LinkVerdict = "pending" /\ LinkVerdict' = "rejected"
  BY DEF LinkVerdict, Idle
<1>2. Link!Reject
  BY <1>1 DEF Link!Reject, LinkVerdict
<1>. QED  BY <1>2 DEF LinkNext

LEMMA LinkBegins ==
  ASSUME NEW kind, NEW id, NEW hard, Begin(kind, id, hard)
  PROVE  LinkNext
<1>1. Idle /\ acted' = FALSE /\ UNCHANGED poisoned
  BY DEF Begin, Idle
<1>2. LinkVerdict # "pending"
  BY <1>1 DEF LinkVerdict
<1>3. CASE step' = "command"
  <2>1. LinkVerdict' = "pending"
    BY <1>3 DEF LinkVerdict, Idle
  <2>2. Link!Call
    BY <1>1, <1>2, <2>1 DEF Link!Call, LinkVerdict
  <2>. QED  BY <2>2 DEF LinkNext
<1>4. CASE UNCHANGED step /\ verdict' = "refused"
  <2>1. LinkVerdict' = "rejected"
    BY <1>1, <1>4 DEF LinkVerdict, Idle
  <2>2. Link!Refuse
    BY <1>1, <1>2, <2>1 DEF Link!Refuse, LinkVerdict
  <2>. QED  BY <2>2 DEF LinkNext
<1>. QED  BY <1>3, <1>4 DEF Begin

LEMMA LinkHost ==
  ASSUME StreamInv, Transact \/ WriteError \/ ReadError
  PROVE  LinkNext
<1>1. CASE Write
  <2>1. ~Idle /\ ~Idle' /\ UNCHANGED <<poisoned, acted>>
    BY <1>1 DEF Write, WriteSome, Writing, Idle
  <2>. QED  BY <2>1, LinkWorks
<1>2. CASE WaitToWrite \/ WaitToRead
  <2>1. ~Idle /\ ~Idle' /\ UNCHANGED <<poisoned, acted>>
    BY <1>2 DEF WaitToWrite, Writing, WaitToRead, ReadStarts, Reading, Idle, cameraVars
  <2>. QED  BY <2>1, LinkWorks
<1>3. CASE WriteExpires \/ WriteError
  <2>1. PICK sent \in BOOLEAN : WriteEnds(sent)
    BY <1>3 DEF WriteExpires, WriteError, StreamInv, StreamTypes
  <2>2. /\ ~Idle /\ step \in {"command", "data"} /\ step' = "idle" /\ UNCHANGED acted
        /\ poisoned' = (poisoned \/ LostWrite(sent))
        /\ verdict' = IF LostWrite(sent) THEN "lost" ELSE "unsent"
    BY <1>3, <2>1 DEF WriteExpires, WriteError, Writing, Idle, WriteEnds, Return
  <2>3. ~acted /\ poisoned = FALSE
    BY <2>2 DEF StreamInv, StreamTypes, IncomingKept
  <2>4. CASE LostWrite(sent)
    <3>1. poisoned' = TRUE /\ verdict' = "lost"
      BY <2>2, <2>4
    <3>. QED  BY <2>2, <3>1, LinkLoses
  <2>5. CASE ~LostWrite(sent)
    <3>1. UNCHANGED poisoned /\ verdict' = "unsent"
      BY <2>2, <2>3, <2>5
    <3>. QED  BY <2>2, <2>3, <3>1, LinkRejects
  <2>. QED  BY <2>4, <2>5
<1>4. CASE Read
  <2>1. CASE ReadTruncated
    <3>1. ~Idle /\ Fail /\ UNCHANGED acted
      BY <2>1 DEF ReadTruncated, ReadStarts, Reading, Idle, readFrame
    <3>. QED  BY <3>1, LinkLoses DEF Fail, Return
  <2>2. ASSUME NEW x, ReadCompletes(x) \/ ReadCut(x) PROVE LinkNext
    <3>1. ~Idle /\ ~Idle' /\ UNCHANGED <<poisoned, acted>>
      BY <2>2 DEF ReadCompletes, ReadCut, ReadReturns, ReadStarts, Reading, Idle, readFrame
    <3>. QED  BY <3>1, LinkWorks
  <2>. QED  BY <1>4, <2>1, <2>2 DEF Read
<1>5. CASE ReadExpires \/ ReadError
  <2>1. ~Idle /\ Fail /\ UNCHANGED acted
    BY <1>5 DEF ReadExpires, ReadError, ReadStarts, Reading, Idle, readFrame
  <2>. QED  BY <2>1, LinkLoses DEF Fail, Return
<1>6. CASE TakeHeader \/ TakePayload
  <2>1. ~Idle /\ UNCHANGED acted
    BY <1>6 DEF TakeHeader, TakePayload, Idle, cameraVars
  <2>2. CASE Fail
    BY <2>1, <2>2, LinkLoses DEF Fail, Return
  <2>3. CASE ~Fail
    <3>1. ~Idle' /\ UNCHANGED poisoned
      BY <1>6, <2>3 DEF TakeHeader, TakePayload, Idle
    <3>. QED  BY <2>1, <3>1, LinkWorks
  <2>. QED  BY <2>2, <2>3
<1>7. CASE Judge
  <2>1. step = "payload" /\ ~Idle /\ UNCHANGED acted /\ acted \in BOOLEAN
    BY <1>7 DEF Judge, Idle, cameraVars, StreamInv, StreamTypes
  <2>2. CASE Fail
    BY <2>1, <2>2, LinkLoses DEF Fail, Return
  <2>3. CASE step' = "header" /\ UNCHANGED poisoned
    <3>1. ~Idle'
      BY <2>3 DEF Idle
    <3>. QED  BY <2>1, <2>3, <3>1, LinkWorks
  <2>4. CASE Own(container) /\ container.unit = "ok" /\ Return("ok") /\ UNCHANGED poisoned
    <3>1. acted = TRUE
      BY <2>1, <2>4 DEF StreamInv, ActedKept
    <3>. QED  BY <2>1, <2>4, <3>1, LinkAccepts DEF Return
  <2>5. CASE /\ Own(container) /\ container.unit \in {"error", "already"}
             /\ Return(IF container.unit = "already" THEN "already" ELSE "rejected")
             /\ UNCHANGED poisoned
    <3>1. ~acted
      BY <2>1, <2>5 DEF StreamInv, ActedKept
    <3>2. step' = "idle" /\ verdict' \in {"already", "rejected"}
      BY <2>5 DEF Return
    <3>. QED  BY <2>1, <2>5, <3>1, <3>2, LinkRejects
  <2>. QED  BY <1>7, <2>2, <2>3, <2>4, <2>5 DEF Judge
<1>. QED  BY <1>1, <1>2, <1>3, <1>4, <1>5, <1>6, <1>7 DEF Transact

\* The camera acts while the call runs or after it was lost.
LEMMA LinkCamera ==
  ASSUME StreamInv, CameraAnswers
  PROVE  LinkNext
<1>1. UNCHANGED <<poisoned, step, verdict>> /\ acted \in BOOLEAN
  BY DEF CameraAnswers, hostVars, StreamInv, StreamTypes
<1>2. LinkVerdict' = LinkVerdict
  BY <1>1 DEF LinkVerdict, Idle
<1>3. CASE acted' = acted
  BY <1>1, <1>2, <1>3, LinkStutters
<1>4. CASE acted' # acted
  <2>1. incoming # NoCommand /\ \E done \in BOOLEAN : Executes(done)
    BY DEF CameraAnswers
  <2>2. ~acted /\ acted' = TRUE /\ incoming.serial = command.serial
    BY <1>1, <1>4, <2>1 DEF Executes
  <2>3. LinkVerdict \in {"pending", "lost"}
    BY <2>1, <2>2 DEF StreamInv, IncomingKept, LinkVerdict
  <2>4. Link!Act
    BY <1>1, <1>2, <2>2, <2>3 DEF Link!Act, LinkVerdict
  <2>. QED  BY <2>4 DEF LinkNext
<1>. QED  BY <1>3, <1>4

LEMMA LinkSession ==
  ASSUME \/ OpenSession \/ ClearStaleSession \/ ReopenSession \/ SessionOpened
         \/ \E kind \in {"read", "write"} : Call(kind)
         \/ CloseSession \/ SessionClosed
  PROVE  LinkNext
<1>1. \/ \E kind, id, hard : Begin(kind, id, hard)
      \/ UNCHANGED <<poisoned, step, verdict, acted>>
  BY DEF OpenSession, ClearStaleSession, ReopenSession, SessionOpened, Call,
         CloseSession, SessionClosed, cameraVars
<1>2. CASE UNCHANGED <<poisoned, step, verdict, acted>>
  <2>1. LinkVerdict' = LinkVerdict
    BY <1>2 DEF LinkVerdict, Idle
  <2>. QED  BY <1>2, <2>1, LinkStutters
<1>. QED  BY <1>1, <1>2, LinkBegins

LEMMA LinkStep == StreamInv /\ [Next]_vars => LinkNext
<1>. SUFFICES ASSUME StreamInv, [Next]_vars PROVE LinkNext
  OBVIOUS
<1>1. CASE UNCHANGED vars
  <2>1. UNCHANGED <<poisoned, acted>> /\ LinkVerdict' = LinkVerdict
    BY <1>1 DEF vars, hostVars, cameraVars, LinkVerdict, Idle
  <2>. QED  BY <2>1, LinkStutters
<1>. QED  BY <1>1, LinkHost, LinkCamera, LinkSession DEF Next

\* A session over two bulk pipes, with deadlines, transfers that end late or
\* early and answers that no one waits for, is a link: every call is accepted,
\* rejected or lost, each of which says truly whether the camera acted.
THEOREM LinkKept == Spec => KeepsLink
<1>1. Init => Link!LinkInit
  BY DEF Init, Link!LinkInit, Idle
<1>. QED  BY <1>1, StreamInvariance, LinkStep, PTL
          DEF Spec, KeepsLink, Link!LinkSpec, LinkNext
\* What of a stream is left when its first units are taken.
LEMMA DropFirst ==
  ASSUME NEW q, Shape(q), NEW n \in 0..Len(q), NEW r \in Seq(UnitRecord \cup {End}),
         Len(r) = Len(q) - n, \A k \in 1..Len(r) : r[k] = q[k + n]
  PROVE  /\ Shape(r)
         /\ \A from, c \in Nat : Bytes(q, n + from, c) => Bytes(r, from, c)
<1>0. Len(q) \in Nat /\ Len(r) \in Nat /\ n \in Nat
      /\ \A k \in 1..Len(r) : k + n \in 1..Len(q)
  BY DEF Shape
<1>1. ASSUME NEW from \in Nat, NEW c \in Nat, Bytes(q, n + from, c) PROVE Bytes(r, from, c)
  <2>1. from + c <= Len(r)
    BY <1>0, <1>1 DEF Bytes
  <2>2. ASSUME NEW k \in (from + 1)..(from + c) PROVE IsByte(r[k])
    <3>1. k + n \in (n + from + 1)..(n + from + c) /\ k \in 1..Len(r)
      BY <1>0, <2>1
    <3>. QED  BY <1>1, <3>1 DEF Bytes
  <2>3. ASSUME from + c + 1 \in 1..Len(r) PROVE ~IsByte(r[from + c + 1])
    <3>1. n + from + c + 1 = from + c + 1 + n /\ n + from + c + 1 \in 1..Len(q)
      BY <1>0, <2>3
    <3>. QED  BY <1>1, <2>3, <3>1 DEF Bytes
  <2>. QED  BY <2>1, <2>2, <2>3 DEF Bytes
<1>2. ASSUME NEW k \in 1..Len(r)
      PROVE  \/ r[k] = End /\ (k + 1 \in 1..Len(r) => ~IsByte(r[k + 1]) /\ r[k + 1] # End)
             \/ IsByte(r[k])
             \/ /\ IsData(r[k]) \/ IsResponse(r[k])
                /\ r[k].length <= MaxPayload /\ Bytes(r, k, r[k].length)
  <2>1. k + n \in 1..Len(q) /\ r[k] = q[k + n]
    BY <1>0
  <2>2. CASE q[k + n] = End /\ (k + n + 1 \in 1..Len(q) =>
                                   ~IsByte(q[k + n + 1]) /\ q[k + n + 1] # End)
    <3>1. k + 1 \in 1..Len(r) => k + n + 1 \in 1..Len(q) /\ r[k + 1] = q[k + n + 1]
      BY <1>0
    <3>. QED  BY <2>1, <2>2, <3>1
  <2>3. CASE /\ IsData(q[k + n]) \/ IsResponse(q[k + n])
             /\ q[k + n].length <= MaxPayload /\ Bytes(q, k + n, q[k + n].length)
    <3>1. q[k + n] \in UnitRecord
      BY <2>1, <2>3 DEF Shape, IsData, IsResponse, End
    <3>2. q[k + n].length \in Nat /\ k + n = n + k
      BY <1>0, <3>1 DEF UnitRecord
    <3>3. Bytes(r, k, q[k + n].length)
      BY <1>1, <2>3, <3>2
    <3>. QED  BY <2>1, <2>3, <3>3
  <2>. QED  BY <2>1, <2>2, <2>3 DEF Shape
<1>3. ASSUME NEW k \in 1..Len(r), IsData(r[k]), NEW j \in 1..(k - 1) PROVE r[j] = End
  <2>1. k + n \in 1..Len(q) /\ j + n \in 1..(k + n - 1) /\ j \in 1..Len(r)
    BY <1>0, <1>3
  <2>2. IsData(q[k + n]) /\ r[j] = q[j + n]
    BY <1>3, <2>1
  <2>3. \A m \in 1..Len(q) : IsData(q[m]) => \A i \in 1..(m - 1) : q[i] = End
    BY DEF Shape
  <2>4. q[j + n] = End
    BY <2>1, <2>2, <2>3, SMTT(40)
  <2>. QED  BY <2>2, <2>4
<1>4. ASSUME NEW k \in 1..Len(r), IsResponse(r[k]), NEW j \in (k + r[k].length + 1)..Len(r)
      PROVE  r[j] = End
  <2>1. k + n \in 1..Len(q) /\ r[k] = q[k + n] /\ IsResponse(q[k + n])
    BY <1>0, <1>4
  <2>2. q[k + n] \in UnitRecord
    BY <2>1 DEF Shape, IsResponse, End
  <2>3. q[k + n].length \in Nat
    BY <2>2 DEF UnitRecord
  <2>4. j + n \in (k + n + q[k + n].length + 1)..Len(q) /\ j \in 1..Len(r)
    BY <1>0, <2>1, <2>3, SMTT(40)
  <2>. QED  BY <2>1, <2>4 DEF Shape
<1>. QED  BY <1>1, <1>2, <1>3, <1>4 DEF Shape

\* What is left when the end of a transfer is dropped.
LEMMA DropEnd ==
  ASSUME NEW q, Shape(q), NEW n \in 0..(Len(q) - 1), q[n + 1] = End,
         NEW r \in Seq(UnitRecord \cup {End}), Len(r) = Len(q) - 1,
         \A k \in 1..Len(r) : r[k] = IF k <= n THEN q[k] ELSE q[k + 1]
  PROVE  /\ Shape(r)
         /\ \A from, c \in Nat : from + c <= n /\ Bytes(q, from, c) => Bytes(r, from, c)
<1>0. Len(q) \in Nat /\ Len(r) \in Nat /\ n \in Nat /\ Len(q) = Len(r) + 1
      /\ \A k \in 1..Len(r) : k \in 1..Len(q) /\ k + 1 \in 1..Len(q)
  BY DEF Shape
<1>a. ~IsByte(End) /\ ~IsData(End) /\ ~IsResponse(End)
  BY DEF IsByte, IsData, IsResponse, End
\* After the dropped end there is no byte and no other end.
<1>b. n + 2 \in 1..Len(q) => ~IsByte(q[n + 2]) /\ q[n + 2] # End
  <2>1. n + 1 \in 1..Len(q) /\ n + 1 + 1 = n + 2
    BY <1>0
  <2>. QED  BY <1>a, <2>1 DEF Shape, IsData, IsResponse
<1>1. ASSUME NEW from \in Nat, NEW c \in Nat, from + c <= n, Bytes(q, from, c)
      PROVE  Bytes(r, from, c)
  <2>1. from + c <= Len(r)
    BY <1>0, <1>1
  <2>2. ASSUME NEW k \in (from + 1)..(from + c) PROVE IsByte(r[k])
    <3>1. k \in 1..Len(r) /\ k <= n
      BY <1>0, <1>1
    <3>. QED  BY <1>1, <3>1 DEF Bytes
  <2>3. ASSUME from + c + 1 \in 1..Len(r) PROVE ~IsByte(r[from + c + 1])
    <3>1. CASE from + c + 1 <= n
      BY <1>0, <1>1, <2>3, <3>1 DEF Bytes
    <3>2. CASE from + c = n
      <4>1. n + 2 \in 1..Len(q) /\ r[from + c + 1] = q[n + 2]
        BY <1>0, <2>3, <3>2
      <4>. QED  BY <1>b, <4>1
    <3>. QED  BY <1>1, <3>1, <3>2
  <2>. QED  BY <2>1, <2>2, <2>3 DEF Bytes
<1>2. ASSUME NEW from \in Nat, NEW c \in Nat, from >= n + 1, Bytes(q, from + 1, c)
      PROVE  Bytes(r, from, c)
  <2>1. from + c <= Len(r)
    BY <1>0, <1>2 DEF Bytes
  <2>2. ASSUME NEW k \in (from + 1)..(from + c) PROVE IsByte(r[k])
    <3>1. k \in 1..Len(r) /\ ~(k <= n) /\ k + 1 \in (from + 1 + 1)..(from + 1 + c)
      BY <1>0, <1>2, <2>1, SMTT(40)
    <3>. QED  BY <1>2, <3>1 DEF Bytes
  <2>3. ASSUME from + c + 1 \in 1..Len(r) PROVE ~IsByte(r[from + c + 1])
    <3>1. from + c + 1 + 1 = from + 1 + c + 1 /\ from + 1 + c + 1 \in 1..Len(q)
          /\ ~(from + c + 1 <= n)
      BY <1>0, <1>2, <2>3, SMTT(40)
    <3>. QED  BY <1>2, <2>3, <3>1 DEF Bytes
  <2>. QED  BY <2>1, <2>2, <2>3 DEF Bytes
\* A container before the dropped end is complete there.
<1>3. ASSUME NEW k \in 1..n, NEW c \in Nat, Bytes(q, k, c) PROVE k + c <= n
  <2>1. n + 1 \in (k + 1)..(k + c) => IsByte(q[n + 1])
    BY <1>3 DEF Bytes
  <2>. QED  BY <1>0, <1>a, <2>1
<1>4. ASSUME NEW k \in 1..Len(r)
      PROVE  \/ r[k] = End /\ (k + 1 \in 1..Len(r) => ~IsByte(r[k + 1]) /\ r[k + 1] # End)
             \/ IsByte(r[k])
             \/ /\ IsData(r[k]) \/ IsResponse(r[k])
                /\ r[k].length <= MaxPayload /\ Bytes(r, k, r[k].length)
  <2>. DEFINE m == IF k <= n THEN k ELSE k + 1
  <2>1. m \in 1..Len(q) /\ r[k] = q[m] /\ m # n + 1
    BY <1>0
  <2>2. CASE q[m] = End /\ (m + 1 \in 1..Len(q) => ~IsByte(q[m + 1]) /\ q[m + 1] # End)
    <3>1. m # n
      BY <1>0, <1>4, <2>1, <2>2
    <3>2. k + 1 \in 1..Len(r) => m + 1 \in 1..Len(q) /\ r[k + 1] = q[m + 1]
      BY <1>0, <3>1
    <3>. QED  BY <2>1, <2>2, <3>2
  <2>3. CASE /\ IsData(q[m]) \/ IsResponse(q[m])
             /\ q[m].length <= MaxPayload /\ Bytes(q, m, q[m].length)
    <3>1. q[m] \in UnitRecord
      BY <2>1, <2>3 DEF Shape, IsData, IsResponse, End
    <3>2. q[m].length \in Nat
      BY <3>1 DEF UnitRecord
    <3>3. CASE k <= n
      <4>1. k \in 1..n /\ m = k /\ k \in Nat
        BY <1>0, <3>3
      <4>2. k + q[m].length <= n
        BY <1>3, <2>3, <3>2, <4>1
      <4>3. Bytes(r, k, q[m].length)
        BY <1>1, <2>3, <3>2, <4>1, <4>2
      <4>. QED  BY <2>1, <2>3, <4>3
    <3>4. CASE ~(k <= n)
      <4>1. k >= n + 1 /\ m = k + 1 /\ k \in Nat
        BY <1>0, <3>4
      <4>2. Bytes(r, k, q[m].length)
        BY <1>2, <2>3, <3>2, <4>1
      <4>. QED  BY <2>1, <2>3, <4>2
    <3>. QED  BY <3>3, <3>4
  <2>. QED  BY <2>1, <2>2, <2>3 DEF Shape
<1>5. ASSUME NEW k \in 1..Len(r), IsData(r[k]), NEW j \in 1..(k - 1) PROVE r[j] = End
  <2>. DEFINE m == IF k <= n THEN k ELSE k + 1
              i == IF j <= n THEN j ELSE j + 1
  <2>1. m \in 1..Len(q) /\ r[k] = q[m]
    BY <1>0
  <2>2. j \in 1..Len(r) /\ j < k
    BY <1>0, <1>5, SMTT(40)
  <2>3. r[j] = q[i] /\ i \in 1..Len(q)
    BY <1>0, <2>2
  <2>4. i < m
    BY <1>0, <2>2
  <2>5. i \in 1..(m - 1)
    BY <1>0, <2>1, <2>3, <2>4
  <2>6. \A x \in 1..Len(q) : IsData(q[x]) => \A y \in 1..(x - 1) : q[y] = End
    BY DEF Shape
  <2>. HIDE DEF m, i
  <2>. QED  BY <1>5, <2>1, <2>3, <2>5, <2>6, Zenon
<1>6. ASSUME NEW k \in 1..Len(r), IsResponse(r[k]), NEW j \in (k + r[k].length + 1)..Len(r)
      PROVE  r[j] = End
  <2>. DEFINE m == IF k <= n THEN k ELSE k + 1
              i == IF j <= n THEN j ELSE j + 1
  <2>1. m \in 1..Len(q) /\ r[k] = q[m] /\ IsResponse(q[m])
    BY <1>0, <1>6
  <2>2. q[m] \in UnitRecord
    BY <2>1 DEF Shape, IsResponse, End
  <2>3. q[m].length \in Nat
    BY <2>2 DEF UnitRecord
  <2>4. i \in (m + q[m].length + 1)..Len(q) /\ j \in 1..Len(r) /\ r[j] = q[i]
    <3>1. j \in 1..Len(r) /\ j > k
      BY <1>0, <2>1, <2>3, SMTT(40)
    <3>2. r[j] = q[i] /\ i \in 1..Len(q)
      BY <1>0, <3>1
    <3>3. i >= m + q[m].length + 1
      <4>1. CASE k <= n /\ j <= n
        BY <1>0, <2>1, <2>3, <4>1
      <4>2. CASE k <= n /\ ~(j <= n)
        BY <1>0, <2>1, <2>3, <4>2, SMTT(40)
      <4>3. CASE ~(k <= n)
        BY <1>0, <2>1, <2>3, <3>1, <4>3, SMTT(40)
      <4>. QED  BY <4>1, <4>2, <4>3
    <3>. QED  BY <1>0, <2>1, <2>3, <3>1, <3>2, <3>3
  <2>. HIDE DEF m, i
  <2>. QED  BY <2>1, <2>4 DEF Shape
<1>. QED  BY <1>1, <1>4, <1>5, <1>6 DEF Shape

\* Two streams one after the other.
LEMMA JoinShape ==
  ASSUME NEW p, NEW q, Shape(p), Shape(q),
         p # <<>> /\ q # <<>> => ~IsByte(q[1]) /\ (p[Len(p)] = End => q[1] # End),
         NoData(q) \/ AllEnd(p), NoResponse(p) \/ AllEnd(q)
  PROVE  Shape(p \o q)
<1>. DEFINE s == p \o q
            n == Len(p)
<1>0. /\ p \in Seq(UnitRecord \cup {End}) /\ q \in Seq(UnitRecord \cup {End})
      /\ n \in Nat /\ Len(q) \in Nat
  BY DEF Shape
<1>1. /\ s \in Seq(UnitRecord \cup {End}) /\ Len(s) = n + Len(q)
      /\ \A k \in 1..(n + Len(q)) : s[k] = IF k <= n THEN p[k] ELSE q[k - n]
  BY <1>0, ConcatProperties
<1>. HIDE DEF s
<1>a. \A k \in 1..Len(s) : k <= n => k \in 1..n /\ s[k] = p[k]
  BY <1>0, <1>1
<1>b. \A k \in 1..Len(s) : ~(k <= n) => k - n \in 1..Len(q) /\ s[k] = q[k - n]
  BY <1>0, <1>1
<1>c. ~IsByte(End) /\ ~IsData(End) /\ ~IsResponse(End)
  BY DEF IsByte, IsData, IsResponse, End
<1>d. \A x \in 1..n : p[x] = End \/ p[x] \in UnitRecord
  BY <1>0
<1>e. \A x \in 1..Len(q) : q[x] = End \/ q[x] \in UnitRecord
  BY <1>0
\* The first unit of q, seen from s.
<1>f. n # 0 /\ n + 1 \in 1..Len(s) =>
         /\ s[n + 1] = q[1] /\ ~IsByte(s[n + 1])
         /\ p[n] = End => s[n + 1] # End
  <2>. SUFFICES ASSUME n # 0, n + 1 \in 1..Len(s)
                PROVE  /\ s[n + 1] = q[1] /\ ~IsByte(s[n + 1])
                       /\ p[n] = End => s[n + 1] # End
    OBVIOUS
  <2>1. s[n + 1] = q[1]
    BY <1>0, <1>1
  <2>2. p # <<>> /\ q # <<>>
    BY <1>0, <1>1
  <2>. QED  BY <2>1, <2>2
<1>2. ASSUME NEW k \in 1..n, NEW c \in Nat, Bytes(p, k, c) PROVE Bytes(s, k, c)
  <2>1. k + c <= n /\ k + c <= Len(s)
    BY <1>0, <1>1, <1>2 DEF Bytes
  <2>2. ASSUME NEW j \in (k + 1)..(k + c) PROVE IsByte(s[j])
    <3>1. j \in 1..Len(s) /\ j <= n
      BY <1>0, <2>1
    <3>. QED  BY <1>a, <1>2, <3>1 DEF Bytes
  <2>3. ASSUME k + c + 1 \in 1..Len(s) PROVE ~IsByte(s[k + c + 1])
    <3>1. CASE k + c + 1 <= n
      <4>1. k + c + 1 \in 1..n
        BY <1>0, <3>1
      <4>. QED  BY <1>a, <1>2, <2>3, <3>1, <4>1 DEF Bytes
    <3>2. CASE k + c = n
      BY <1>0, <1>f, <2>3, <3>2
    <3>. QED  BY <1>0, <2>1, <3>1, <3>2
  <2>. QED  BY <2>1, <2>2, <2>3 DEF Bytes
<1>3. ASSUME NEW k \in 1..Len(q), NEW c \in Nat, Bytes(q, k, c) PROVE Bytes(s, n + k, c)
  <2>1. k + c <= Len(q) /\ n + k + c <= Len(s)
    BY <1>0, <1>1, <1>3 DEF Bytes
  <2>2. ASSUME NEW j \in (n + k + 1)..(n + k + c) PROVE IsByte(s[j])
    <3>1. j \in 1..Len(s) /\ ~(j <= n) /\ j - n \in (k + 1)..(k + c)
      BY <1>0, <2>1
    <3>. QED  BY <1>b, <1>3, <3>1 DEF Bytes
  <2>3. ASSUME n + k + c + 1 \in 1..Len(s) PROVE ~IsByte(s[n + k + c + 1])
    <3>1. ~(n + k + c + 1 <= n) /\ n + k + c + 1 - n = k + c + 1 /\ k + c + 1 \in 1..Len(q)
      BY <1>0, <1>1, <2>3
    <3>. QED  BY <1>b, <1>3, <2>3, <3>1 DEF Bytes
  <2>. QED  BY <2>1, <2>2, <2>3 DEF Bytes
<1>4. ASSUME NEW k \in 1..Len(s)
      PROVE  \/ s[k] = End /\ (k + 1 \in 1..Len(s) => ~IsByte(s[k + 1]) /\ s[k + 1] # End)
             \/ IsByte(s[k])
             \/ /\ IsData(s[k]) \/ IsResponse(s[k])
                /\ s[k].length <= MaxPayload /\ Bytes(s, k, s[k].length)
  <2>1. CASE k <= n
    <3>1. k \in 1..n /\ s[k] = p[k]
      BY <1>a, <2>1
    <3>2. CASE p[k] = End /\ (k + 1 \in 1..n => ~IsByte(p[k + 1]) /\ p[k + 1] # End)
      <4>1. CASE k = n
        <5>1. n # 0 /\ p[n] = End
          BY <3>1, <3>2, <4>1
        <5>. QED  BY <1>f, <3>1, <3>2, <4>1, <5>1
      <4>2. CASE k # n
        <5>1. k + 1 \in 1..n /\ k + 1 <= n
          BY <1>0, <3>1, <4>2
        <5>2. k + 1 \in 1..Len(s) => s[k + 1] = p[k + 1]
          BY <1>a, <5>1
        <5>. QED  BY <3>1, <3>2, <5>1, <5>2
      <4>. QED  BY <4>1, <4>2
    <3>3. CASE /\ IsData(p[k]) \/ IsResponse(p[k])
               /\ p[k].length <= MaxPayload /\ Bytes(p, k, p[k].length)
      <4>1. p[k].length \in Nat
        BY <1>c, <1>d, <3>1, <3>3 DEF UnitRecord
      <4>. QED  BY <1>2, <3>1, <3>3, <4>1
    <3>. QED  BY <3>1, <3>2, <3>3 DEF Shape
  <2>2. CASE ~(k <= n)
    <3>. DEFINE m == k - n
    <3>1. m \in 1..Len(q) /\ s[k] = q[m] /\ n + m = k
      BY <1>0, <1>b, <2>2
    <3>. HIDE DEF m
    <3>2. CASE q[m] = End /\ (m + 1 \in 1..Len(q) => ~IsByte(q[m + 1]) /\ q[m + 1] # End)
      <4>1. k + 1 \in 1..Len(s) => m + 1 \in 1..Len(q) /\ s[k + 1] = q[m + 1]
        BY <1>0, <1>1, <3>1, SMTT(40)
      <4>. QED  BY <3>1, <3>2, <4>1
    <3>3. CASE /\ IsData(q[m]) \/ IsResponse(q[m])
               /\ q[m].length <= MaxPayload /\ Bytes(q, m, q[m].length)
      <4>1. q[m].length \in Nat
        BY <1>c, <1>e, <3>1, <3>3 DEF UnitRecord
      <4>. QED  BY <1>3, <3>1, <3>3, <4>1
    <3>. QED  BY <3>1, <3>2, <3>3 DEF Shape
  <2>. QED  BY <2>1, <2>2
<1>5. ASSUME NEW k \in 1..Len(s), IsData(s[k]), NEW j \in 1..(k - 1) PROVE s[j] = End
  <2>0. j \in 1..Len(s) /\ j < k
    BY <1>0, <1>1
  <2>1. CASE k <= n
    <3>1. j <= n /\ k \in 1..n /\ s[k] = p[k] /\ s[j] = p[j]
      BY <1>0, <1>a, <2>0, <2>1
    <3>2. IsData(p[k])
      BY <1>5, <3>1
    <3>. QED  BY <3>1, <3>2 DEF Shape
  <2>2. CASE ~(k <= n)
    <3>1. k - n \in 1..Len(q) /\ IsData(q[k - n])
      BY <1>5, <1>b, <2>2
    <3>2. AllEnd(p)
      BY <3>1 DEF NoData
    <3>3. CASE j <= n
      BY <1>a, <2>0, <3>2, <3>3 DEF AllEnd
    <3>4. CASE ~(j <= n)
      <4>1. s[j] = q[j - n] /\ j - n \in 1..(k - n - 1)
        BY <1>0, <1>b, <2>0, <3>4
      <4>2. \A x \in 1..Len(q) : IsData(q[x]) => \A y \in 1..(x - 1) : q[y] = End
        BY DEF Shape
      <4>. QED  BY <3>1, <4>1, <4>2
    <3>. QED  BY <3>3, <3>4
  <2>. QED  BY <2>1, <2>2
<1>6. ASSUME NEW k \in 1..Len(s), IsResponse(s[k]), NEW j \in (k + s[k].length + 1)..Len(s)
      PROVE  s[j] = End
  <2>1. CASE k <= n
    <3>1. k \in 1..n /\ s[k] = p[k] /\ IsResponse(p[k])
      BY <1>6, <1>a, <2>1
    <3>2. p[k].length \in Nat
      BY <1>c, <1>d, <3>1 DEF UnitRecord
    <3>3. AllEnd(q)
      BY <3>1 DEF NoResponse
    <3>4. j \in 1..Len(s)
      BY <1>0, <1>1, <3>1, <3>2
    <3>5. CASE j <= n
      <4>1. j \in (k + p[k].length + 1)..n /\ s[j] = p[j]
        BY <1>0, <1>a, <3>1, <3>2, <3>4, <3>5
      <4>2. \A x \in 1..n : IsResponse(p[x]) =>
               \A y \in (x + p[x].length + 1)..n : p[y] = End
        BY DEF Shape
      <4>. QED  BY <3>1, <4>1, <4>2
    <3>6. CASE ~(j <= n)
      BY <1>b, <3>3, <3>4, <3>6 DEF AllEnd
    <3>. QED  BY <3>5, <3>6
  <2>2. CASE ~(k <= n)
    <3>1. k - n \in 1..Len(q) /\ s[k] = q[k - n] /\ IsResponse(q[k - n])
      BY <1>6, <1>b, <2>2
    <3>2. q[k - n].length \in Nat
      BY <1>c, <1>e, <3>1 DEF UnitRecord
    <3>. DEFINE c == q[k - n].length
    <3>a. c \in Nat /\ j \in (k + c + 1)..Len(s)
      BY <3>1, <3>2
    <3>. HIDE DEF c
    <3>b. j \in 1..Len(s) /\ ~(j <= n) /\ j - n \in (k - n + c + 1)..Len(q)
      BY <1>0, <1>1, <2>2, <3>a
    <3>3. j \in 1..Len(s) /\ ~(j <= n) /\ j - n \in (k - n + q[k - n].length + 1)..Len(q)
      BY <3>b DEF c
    <3>4. \A x \in 1..Len(q) : IsResponse(q[x]) =>
             \A y \in (x + q[x].length + 1)..Len(q) : q[y] = End
      BY DEF Shape
    <3>. QED  BY <1>b, <3>1, <3>3, <3>4
  <2>. QED  BY <2>1, <2>2
<1>7. Shape(s)
  BY <1>1, <1>4, <1>5, <1>6 DEF Shape
<1>. QED  BY <1>7 DEF s

\* An answer begins with a header.
Whole(q) == Shape(q) /\ q # <<>> /\ ~IsByte(q[1]) /\ q[1] # End

LEMMA ContainerShape ==
  ASSUME NEW kind \in {"data", "ok", "error", "already"}, NEW id \in Nat,
         NEW length \in 0..MaxPayload, NEW about \in Nat,
         NEW q, q = Container(kind, id, length, about)
  PROVE  /\ Whole(q) /\ q[Len(q)] # End
         /\ kind = "data" => NoResponse(q)
         /\ kind # "data" => NoData(q)
<1>. DEFINE h == Header(kind, id, length, about)
            bytes == [k \in 1..length |-> Byte(about)]
            S == UnitRecord \cup {End}
<1>0. length \in Nat /\ length <= MaxPayload
  BY GeometryAssumption
<1>1. h \in UnitRecord /\ h.unit = kind /\ h.length = length
  BY <1>0 DEF Header, UnitRecord, HeaderKinds
<1>2. Byte(about) \in UnitRecord /\ Byte(about).unit = "byte"
  BY DEF Byte, UnitRecord
<1>a. h # End /\ Byte(about) # End
  BY <1>1, <1>2, EndIsNoUnit
<1>3. bytes \in Seq(S) /\ Len(bytes) = length /\ \A k \in 1..length : bytes[k] = Byte(about)
  BY <1>0, <1>2
<1>4. <<h>> \in Seq(S) /\ Len(<<h>>) = 1 /\ <<h>>[1] = h
  BY <1>1
<1>5. q = <<h>> \o bytes
  BY DEF Container
<1>. HIDE DEF h, bytes, S
<1>6. /\ q \in Seq(S) /\ Len(q) = 1 + length
      /\ \A k \in 1..(1 + length) : q[k] = IF k <= 1 THEN <<h>>[k] ELSE bytes[k - 1]
  BY <1>3, <1>4, <1>5, ConcatProperties
<1>7. q[1] = h /\ \A k \in 2..(1 + length) : q[k] = Byte(about)
  BY <1>0, <1>3, <1>4, <1>6
<1>8. \A k \in 1..Len(q) : k = 1 \/ k \in 2..(1 + length)
  BY <1>0, <1>6
<1>9. Bytes(q, 1, length)
  BY <1>0, <1>2, <1>6, <1>7 DEF Bytes, IsByte
<1>10. \A k \in 1..Len(q) : q[k] # End
  BY <1>a, <1>7, <1>8
<1>11. \A k \in 1..Len(q) : k # 1 => IsByte(q[k]) /\ ~IsData(q[k]) /\ ~IsResponse(q[k])
  BY <1>2, <1>7, <1>8 DEF IsByte, IsData, IsResponse
<1>12. (IsData(h) <=> kind = "data") /\ (IsResponse(h) <=> kind # "data") /\ ~IsByte(h)
  BY <1>1 DEF IsData, IsResponse, IsByte
<1>13. Shape(q)
  <2>1. \A k \in 1..Len(q) :
          \/ q[k] = End /\ (k + 1 \in 1..Len(q) => ~IsByte(q[k + 1]) /\ q[k + 1] # End)
          \/ IsByte(q[k])
          \/ /\ IsData(q[k]) \/ IsResponse(q[k])
             /\ q[k].length <= MaxPayload /\ Bytes(q, k, q[k].length)
    BY <1>0, <1>1, <1>7, <1>9, <1>11, <1>12
  <2>2. \A k \in 1..Len(q) : IsData(q[k]) => \A j \in 1..(k - 1) : q[j] = End
    BY <1>11
  <2>3. \A k \in 1..Len(q) : IsResponse(q[k]) =>
           \A j \in (k + q[k].length + 1)..Len(q) : q[j] = End
    BY <1>0, <1>1, <1>6, <1>7, <1>11
  <2>. QED  BY <1>6, <2>1, <2>2, <2>3 DEF Shape, S
<1>14. Len(q) \in 1..Len(q) /\ q # <<>> /\ 1 \in 1..Len(q)
  BY <1>0, <1>6
<1>. QED  BY <1>7, <1>10, <1>11, <1>12, <1>13, <1>14 DEF Whole, NoData, NoResponse

LEMMA EndShape ==
  /\ Shape(<<End>>) /\ AllEnd(<<End>>) /\ NoData(<<End>>) /\ <<End>> # <<>>
  /\ Len(<<End>>) = 1 /\ <<End>>[1] = End /\ ~IsByte(End)
<1>1. ~IsByte(End) /\ ~IsData(End) /\ ~IsResponse(End)
  BY DEF IsByte, IsData, IsResponse, End
<1>2. <<End>> \in Seq(UnitRecord \cup {End})
  OBVIOUS
<1>3. \A k \in 1..Len(<<End>>) : k = 1 /\ <<End>>[k] = End
  OBVIOUS
<1>. QED  BY <1>1, <1>2, <1>3 DEF Shape, AllEnd, NoData

\* A transfer that ends with a response, or with data.
LEMMA TransferShape ==
  ASSUME NEW q, Whole(q), q[Len(q)] # End, NEW a \in Transfers(q)
  PROVE  /\ Whole(a)
         /\ NoData(q) => NoData(a)
         /\ NoResponse(q) => NoResponse(a)
<1>1. CASE a = q
  BY <1>1
<1>2. CASE a = Append(q, End)
  <2>0. q \in Seq(UnitRecord \cup {End}) /\ Len(q) \in Nat
    BY DEF Whole, Shape
  <2>1. a = q \o <<End>>
    BY <1>2, <2>0, AppendIsConcat
  <2>2. /\ Len(a) = Len(q) + 1 /\ a[Len(q) + 1] = End
        /\ \A k \in 1..Len(q) : a[k] = q[k]
    BY <1>2, <2>0, AppendProperties
  <2>3. Shape(a)
    BY <2>1, JoinShape, EndShape DEF Whole
  <2>4. 1 \in 1..Len(q) /\ a # <<>>
    BY <2>0, <2>2 DEF Whole
  <2>5. \A k \in 1..Len(a) : k \in 1..Len(q) \/ a[k] = End
    BY <2>0, <2>2
  <2>6. ~IsData(End) /\ ~IsResponse(End)
    BY DEF IsData, IsResponse, End
  <2>. QED  BY <2>2, <2>3, <2>4, <2>5, <2>6 DEF Whole, NoData, NoResponse
<1>. QED  BY <1>1, <1>2 DEF Transfers

\* Every regular answer is whole.
LEMMA AnswersWhole ==
  ASSUME NEW kind \in {"ok", "error", "already"}, NEW a \in Answers(kind),
         incoming.serial \in Nat, incoming.id \in Nat
  PROVE  Whole(a)
<1>0. 0 \in 0..MaxPayload /\ 1 \in 0..MaxPayload
  BY GeometryAssumption
<1>1. ASSUME NEW r \in Responses(kind) PROVE Whole(r) /\ r[Len(r)] # End /\ NoData(r)
  <2>1. \E n \in {0, 1} : r = Container(kind, incoming.id, n, incoming.serial)
    BY DEF Responses, Response
  <2>. QED  BY <1>0, <2>1, ContainerShape
<1>2. CASE incoming.kind = "read" /\ kind = "ok"
  <2>1. PICK n \in PayloadLengths, r \in Responses("ok") : a \in Sent(Data(n), r)
    BY <1>2 DEF Answers
  <2>. DEFINE d == Data(n)
  <2>2. Whole(d) /\ d[Len(d)] # End /\ NoResponse(d)
    <3>1. n \in 0..MaxPayload
      BY GeometryAssumption
    <3>. QED  BY <3>1, ContainerShape DEF Data
  <2>3. Whole(r) /\ r[Len(r)] # End /\ NoData(r)
    BY <1>1, <1>2
  <2>. HIDE DEF d
  <2>4. \/ a \in Transfers(d \o r)
        \/ \E x \in Transfers(d), y \in Transfers(r) : a = x \o y
    BY <2>1 DEF Sent, d
  <2>5. ASSUME NEW x, NEW y, Whole(x), NoResponse(x), Whole(y), NoData(y)
        PROVE  Whole(x \o y)
    <3>1. Shape(x \o y)
      BY <2>5, JoinShape DEF Whole
    <3>2. /\ x \in Seq(UnitRecord \cup {End}) /\ y \in Seq(UnitRecord \cup {End})
          /\ Len(x) \in Nat /\ Len(y) \in Nat /\ 1 \in 1..Len(x)
      BY <2>5 DEF Whole, Shape
    <3>3. (x \o y)[1] = x[1] /\ Len(x \o y) = Len(x) + Len(y)
      BY <3>2, ConcatUnits
    <3>4. x \o y # <<>>
      BY <3>2, <3>3
    <3>. QED  BY <2>5, <3>1, <3>3, <3>4 DEF Whole
  <2>6. CASE a \in Transfers(d \o r)
    <3>1. Whole(d \o r)
      BY <2>2, <2>3, <2>5
    <3>2. (d \o r)[Len(d \o r)] # End
      <4>1. /\ d \in Seq(UnitRecord \cup {End}) /\ r \in Seq(UnitRecord \cup {End})
            /\ Len(d) \in Nat /\ Len(r) \in Nat /\ 1 \in 1..Len(r)
        BY <2>2, <2>3 DEF Whole, Shape
      <4>2. /\ Len(d \o r) = Len(d) + Len(r)
            /\ \A k \in 1..(Len(d) + Len(r)) :
                  (d \o r)[k] = IF k <= Len(d) THEN d[k] ELSE r[k - Len(d)]
        BY <4>1, ConcatProperties
      <4>3. /\ Len(d) + Len(r) \in 1..(Len(d) + Len(r)) /\ ~(Len(d) + Len(r) <= Len(d))
            /\ Len(d) + Len(r) - Len(d) = Len(r)
        BY <4>1
      <4>. QED  BY <2>3, <4>2, <4>3
    <3>. QED  BY <2>6, <3>1, <3>2, TransferShape
  <2>7. ASSUME NEW x \in Transfers(d), NEW y \in Transfers(r), a = x \o y PROVE Whole(a)
    <3>1. Whole(x) /\ NoResponse(x) /\ Whole(y) /\ NoData(y)
      BY <2>2, <2>3, TransferShape
    <3>. QED  BY <2>5, <2>7, <3>1
  <2>. QED  BY <2>4, <2>6, <2>7
<1>3. CASE ~(incoming.kind = "read" /\ kind = "ok")
  <2>1. PICK r \in Responses(kind) : a \in Transfers(r)
    BY <1>3 DEF Answers
  <2>. QED  BY <1>1, <2>1, TransferShape
<1>. QED  BY <1>2, <1>3

-----------------------------------------------------------------------------
(* A prompt camera: nothing it sends fails a transaction.                  *)

LEMMA StreamIs ==
  ASSUME StreamTypes
  PROVE  /\ Stream \in Seq(UnitRecord \cup {End})
         /\ Len(Stream) = Len(buffer) + Len(pipe)
         /\ Len(buffer) \in Nat /\ Len(pipe) \in Nat /\ Len(Stream) \in Nat
         /\ \A k \in 1..Len(buffer) : k \in 1..Len(Stream) /\ Stream[k] = buffer[k]
         /\ \A k \in 1..Len(pipe) : Stream[Len(buffer) + k] = pipe[k]
         /\ \A k \in 1..Len(Stream) :
               Stream[k] = IF k <= Len(buffer) THEN buffer[k] ELSE pipe[k - Len(buffer)]
         /\ buffer = <<>> => Stream = pipe
<1>. DEFINE S == UnitRecord \cup {End}
<1>1. buffer \in Seq(S) /\ pipe \in Seq(S) /\ Len(buffer) \in Nat /\ Len(pipe) \in Nat
  BY DEF StreamTypes
<1>. HIDE DEF S
<1>2. /\ buffer \o pipe \in Seq(S)
      /\ Len(buffer \o pipe) = Len(buffer) + Len(pipe)
      /\ \A k \in 1..(Len(buffer) + Len(pipe)) : (buffer \o pipe)[k] =
            IF k <= Len(buffer) THEN buffer[k] ELSE pipe[k - Len(buffer)]
  BY <1>1, ConcatProperties
<1>3. buffer = <<>> => buffer \o pipe = pipe
  BY <1>1, ConcatEmptySeq
<1>4. \A k \in 1..Len(buffer) :
         k \in 1..(Len(buffer) + Len(pipe)) /\ (buffer \o pipe)[k] = buffer[k]
  BY <1>1, <1>2
<1>5. \A k \in 1..Len(pipe) : (buffer \o pipe)[Len(buffer) + k] = pipe[k]
  <2>. TAKE k \in 1..Len(pipe)
  <2>1. Len(buffer) + k \in 1..(Len(buffer) + Len(pipe)) /\ ~(Len(buffer) + k <= Len(buffer))
        /\ Len(buffer) + k - Len(buffer) = k
    BY <1>1
  <2>. QED  BY <1>2, <2>1
<1>. QED  BY <1>1, <1>2, <1>3, <1>4, <1>5 DEF Stream, S

LEMMA Kinds3 == ~IsByte(End) /\ ~IsData(End) /\ ~IsResponse(End)
  BY DEF IsByte, IsData, IsResponse, End

\* The units stay where they are in the stream.
LEMMA PromptSame ==
  ASSUME PromptInv, ~fault, fault' \in BOOLEAN,
         UNCHANGED <<step, stage, command, payload, container, left, incoming,
                     session, verdict, transactionId, poisoned>>,
         Stream' = Stream,
         filled' \in BOOLEAN, pipe' # <<>> /\ pipe'[1] = End => filled'
  PROVE  PromptInv'
<1>1. \A u : Fits(u)' <=> Fits(u)
  BY DEF Fits
<1>2. (Idle' <=> Idle) /\ (Unanswered' <=> Unanswered) /\ (Own(container)' <=> Own(container))
  BY DEF Idle, Unanswered, Own
<1>3. CutKept'
  BY <1>1, <1>2 DEF PromptInv, CutKept
<1>4. StageKept'
  BY <1>2 DEF PromptInv, StageKept
<1>. QED  BY <1>3, <1>4 DEF PromptInv

\* The end of a transfer is dropped from the stream.
LEMMA PromptDrops ==
  ASSUME PromptInv, ~fault, fault' \in BOOLEAN, StreamTypes, StreamTypes',
         UNCHANGED <<step, stage, command, payload, container, left, incoming,
                     session, verdict, transactionId, poisoned>>,
         NEW n \in 0..(Len(Stream) - 1), Stream[n + 1] = End,
         Len(Stream') = Len(Stream) - 1,
         \A k \in 1..Len(Stream') :
            Stream'[k] = IF k <= n THEN Stream[k] ELSE Stream[k + 1],
         filled' \in BOOLEAN, pipe' # <<>> /\ pipe'[1] = End => filled'
  PROVE  PromptInv'
<1>. DEFINE q == Stream
            r == Stream'
<1>0. q \in Seq(UnitRecord \cup {End}) /\ r \in Seq(UnitRecord \cup {End})
        /\ Len(q) \in Nat /\ Len(r) \in Nat /\ CutKept /\ left \in Nat
  BY StreamIs DEF PromptInv, StreamTypes, Stream
<1>1. Shape(q)
  BY <1>0 DEF CutKept
<1>2. /\ Shape(r)
      /\ \A from, c \in Nat : from + c <= n /\ Bytes(q, from, c) => Bytes(r, from, c)
  BY <1>0, <1>1, DropEnd
<1>3. \A k \in 1..Len(r) : \E m \in 1..Len(q) : m >= k /\ r[k] = q[m]
  <2>. TAKE k \in 1..Len(r)
  <2>1. k \in 1..Len(q) /\ k + 1 \in 1..Len(q) /\ k + 1 >= k /\ k >= k
    BY <1>0
  <2>. QED  BY <2>1
<1>4. (r # <<>> => 1 \in 1..Len(r)) /\ (q # <<>> => 1 \in 1..Len(q))
  BY <1>0
<1>5. \A u : Fits(u)' <=> Fits(u)
  BY DEF Fits
<1>6. (Idle' <=> Idle) /\ (Unanswered' <=> Unanswered) /\ (Own(container)' <=> Own(container))
  BY DEF Idle, Unanswered, Own
<1>7. StageKept'
  BY <1>6 DEF PromptInv, StageKept
\* What is not a byte at the front stays so.
<1>8. q # <<>> /\ ~IsByte(q[1]) => (r # <<>> => ~IsByte(r[1]))
  <2>. SUFFICES ASSUME ~IsByte(q[1]), r # <<>> PROVE ~IsByte(r[1])
    OBVIOUS
  <2>1. CASE n = 0
    <3>1. r[1] = q[2] /\ q[1] = End /\ 1 \in 1..Len(q) /\ 1 + 1 \in 1..Len(q)
      BY <1>0, <1>4, <2>1
    <3>. QED  BY <1>1, <3>1, Kinds3 DEF Shape
  <2>2. CASE n # 0
    BY <1>4, <2>2
  <2>. QED  BY <2>1, <2>2
<1>9. Idle' \/ Unanswered' => AllEnd(r)
  <2>1. AllEnd(q) => AllEnd(r)
    BY <1>3 DEF AllEnd
  <2>. QED  BY <1>0, <1>6, <2>1 DEF CutKept
<1>10. NoData(q) => NoData(r)
  BY <1>3 DEF NoData
<1>11. (~Idle => \A k \in 1..Len(Stream) :
          IsData(Stream[k]) \/ IsResponse(Stream[k]) =>
              Stream[k].id = command.id /\ Fits(Stream[k]))'
  <2>. SUFFICES ASSUME ~Idle, NEW k \in 1..Len(r), IsData(r[k]) \/ IsResponse(r[k])
                PROVE  (Stream[k].id = command.id /\ Fits(Stream[k]))'
    BY <1>6
  <2>1. PICK m \in 1..Len(q) : r[k] = q[m]
    BY <1>3
  <2>2. q[m].id = command.id /\ Fits(q[m])
    BY <1>0, <2>1 DEF CutKept
  <2>. QED  BY <2>1, <2>2 DEF Fits
<1>12. step = "payload" => Bytes(r, 0, left)
  <2>. SUFFICES ASSUME step = "payload" PROVE Bytes(r, 0, left)
    OBVIOUS
  <2>1. Bytes(q, 0, left)
    BY <1>0 DEF CutKept
  <2>2. ~(n + 1 \in 1..left)
    BY <1>0, <2>1, Kinds3 DEF Bytes
  <2>3. 0 + left <= n
    BY <1>0, <2>2
  <2>. QED  BY <1>0, <1>2, <2>1, <2>3
<1>13. (\A k \in (left + 1)..Len(q) : q[k] = End) => \A k \in (left + 1)..Len(r) : r[k] = End
  <2>. SUFFICES ASSUME \A k \in (left + 1)..Len(q) : q[k] = End, NEW k \in (left + 1)..Len(r)
                PROVE  r[k] = End
    OBVIOUS
  <2>1. k \in 1..Len(r)
    BY <1>0
  <2>2. PICK m \in 1..Len(q) : m >= k /\ r[k] = q[m]
    BY <1>3, <2>1
  <2>3. m \in (left + 1)..Len(q)
    BY <1>0, <2>2
  <2>. QED  BY <2>2, <2>3
<1>14. CutKept'
  <2>1. step' = "header" =>
           /\ left' = 1
           /\ r # <<>> => ~IsByte(r[1])
           /\ payload' # -1 => NoData(r)
    <3>1. r # <<>> => q # <<>>
      BY <1>0, <1>4
    <3>. QED  BY <1>0, <1>8, <1>10, <3>1 DEF CutKept
  <2>2. step' = "payload" =>
          /\ Own(container)' /\ Fits(container)'
          /\ Bytes(r, 0, left')
          /\ \/ IsData(container') /\ payload' = -1 /\ NoData(r)
             \/ IsResponse(container') /\ \A k \in (left' + 1)..Len(r) : r[k] = End
    BY <1>0, <1>5, <1>6, <1>10, <1>12, <1>13 DEF CutKept, Fits
  <2>. QED  BY <1>2, <1>9, <1>11, <2>1, <2>2 DEF CutKept
<1>. QED  BY <1>7, <1>14 DEF PromptInv


\* What a bulk read has moved is where it was in the stream.
LEMMA SplitPipe ==
  ASSUME NEW S, NEW q \in Seq(S), NEW n \in 0..Len(q), NEW m \in n..Len(q)
  PROVE  /\ SubSeq(q, 1, n) \o After(q, m) \in Seq(S)
         /\ Len(SubSeq(q, 1, n) \o After(q, m)) = Len(q) - (m - n)
         /\ \A k \in 1..(Len(q) - (m - n)) : (SubSeq(q, 1, n) \o After(q, m))[k] =
               IF k <= n THEN q[k] ELSE q[k + (m - n)]
<1>0. Len(q) \in Nat /\ n \in Nat /\ m \in Nat /\ m \in 0..Len(q) /\ 1 \in 1..(Len(q) + 1)
  OBVIOUS
<1>. DEFINE a == SubSeq(q, 1, n)
            b == After(q, m)
<1>1. a \in Seq(S) /\ Len(a) = n /\ \A i \in 1..n : a[i] = q[i]
  <2>1. /\ SubSeq(q, 1, n) \in Seq(S)
        /\ Len(SubSeq(q, 1, n)) = IF 1 <= n THEN n - 1 + 1 ELSE 0
        /\ \A i \in 1..(n - 1 + 1) : SubSeq(q, 1, n)[i] = q[1 + i - 1]
    BY <1>0, PartOfSequence
  <2>. HIDE DEF a
  <2>2. \A i \in 1..n : 1 + i - 1 = i /\ i \in 1..(n - 1 + 1)
    BY <1>0
  <2>. QED  BY <1>0, <2>1, <2>2 DEF a
<1>2. b \in Seq(S) /\ Len(b) = Len(q) - m /\ \A i \in 1..(Len(q) - m) : b[i] = q[m + i]
  BY <1>0, AfterPart
<1>. HIDE DEF a, b
<1>3. /\ a \o b \in Seq(S) /\ Len(a \o b) = Len(a) + Len(b)
      /\ \A k \in 1..(Len(a) + Len(b)) : (a \o b)[k] = IF k <= Len(a) THEN a[k] ELSE b[k - Len(a)]
  BY <1>1, <1>2, ConcatProperties
<1>4. Len(a) + Len(b) = Len(q) - (m - n)
  BY <1>0, <1>1, <1>2
<1>5. ASSUME NEW k \in 1..(Len(q) - (m - n))
      PROVE  (a \o b)[k] = IF k <= n THEN q[k] ELSE q[k + (m - n)]
  <2>1. CASE k <= n
    BY <1>0, <1>1, <1>3, <1>4, <2>1
  <2>2. CASE ~(k <= n)
    <3>1. k - n \in 1..(Len(q) - m) /\ m + (k - n) = k + (m - n)
      BY <1>0, <2>2
    <3>2. (a \o b)[k] = b[k - n] /\ b[k - n] = q[m + (k - n)]
      BY <1>0, <1>1, <1>2, <1>3, <1>4, <2>2, <3>1
    <3>. QED  BY <2>2, <3>1, <3>2
  <2>. QED  BY <2>1, <2>2
<1>. QED  BY <1>3, <1>4, <1>5 DEF a, b

\* A bulk read keeps the order of the stream.
LEMMA PromptReturns ==
  ASSUME PromptInv, ~fault, fault' \in BOOLEAN, StreamTypes, StreamTypes', ReadStarts,
         UNCHANGED <<payload, incoming, session, transactionId>>,
         NEW n \in 0..Len(pipe), NEW m \in {n, n + 1}, m <= Len(pipe),
         m = n => n > 0, m = n + 1 => pipe[n + 1] = End,
         NEW d, ReadReturns(n, d, After(pipe, m)),
         pipe' # <<>> /\ pipe'[1] = End => n = capacity /\ m = n /\ n > 0
  PROVE  PromptInv'
<1>. DEFINE q == Stream
            r == Stream'
<1>0. buffer = <<>> /\ pipe \in Seq(UnitRecord \cup {End}) /\ Len(pipe) \in Nat
        /\ Stream = pipe /\ pipe' = After(pipe, m)
  BY StreamIs DEF ReadStarts, ReadReturns
<1>1. UNCHANGED <<step, stage, command, payload, container, left, incoming,
                  session, verdict, transactionId, poisoned>>
  BY DEF ReadReturns
<1>2. filled' \in BOOLEAN /\ (n > 0 => filled' = (n = capacity))
  <2>1. CASE n > 0
    <3>1. filled' = (n = capacity)
      BY <2>1 DEF ReadReturns
    <3>2. (n = capacity) \in BOOLEAN
      OBVIOUS
    <3>. QED  BY <3>1, <3>2
  <2>2. CASE ~(n > 0)
    BY <2>2 DEF ReadReturns
  <2>. QED  BY <2>1, <2>2
<1>3. buffer' = SubSeq(pipe, 1, n)
  <2>1. CASE n > 0
    BY <2>1 DEF ReadReturns
  <2>2. CASE n = 0
    <3>1. buffer' = <<>>
      BY <1>0, <2>2 DEF ReadReturns
    <3>2. SubSeq(pipe, 1, 0) = <<>>
      BY <1>0, SubSeqProperties
    <3>. QED  BY <2>2, <3>1, <3>2
  <2>. QED  BY <2>1, <2>2
<1>4. Stream' = SubSeq(pipe, 1, n) \o After(pipe, m)
  BY <1>0, <1>3 DEF Stream
<1>5. m \in n..Len(pipe)
  BY <1>0
<1>6. /\ Stream' \in Seq(UnitRecord \cup {End})
      /\ Len(Stream') = Len(pipe) - (m - n)
      /\ \A k \in 1..(Len(pipe) - (m - n)) :
            Stream'[k] = IF k <= n THEN pipe[k] ELSE pipe[k + (m - n)]
  <2>. DEFINE S == UnitRecord \cup {End}
  <2>. HIDE DEF S
  <2>1. pipe \in Seq(S)
    BY <1>0 DEF S
  <2>2. /\ SubSeq(pipe, 1, n) \o After(pipe, m) \in Seq(S)
        /\ Len(SubSeq(pipe, 1, n) \o After(pipe, m)) = Len(pipe) - (m - n)
        /\ \A k \in 1..(Len(pipe) - (m - n)) : (SubSeq(pipe, 1, n) \o After(pipe, m))[k] =
              IF k <= n THEN pipe[k] ELSE pipe[k + (m - n)]
    BY <1>5, <2>1, SplitPipe, SMTT(40)
  <2>. QED  BY <1>4, <2>2 DEF S
<1>7. pipe' # <<>> /\ pipe'[1] = End => filled'
  BY <1>2
<1>8. CASE m = n
  <2>1. Len(Stream') = Len(Stream) /\ \A k \in 1..Len(Stream) : Stream'[k] = Stream[k]
    BY <1>0, <1>6, <1>8
  <2>2. Stream' = Stream
    BY <1>0, <1>6, <2>1, SeqEqual
  <2>. QED  BY <1>1, <1>2, <1>7, <2>2, PromptSame
<1>9. CASE m = n + 1
  <2>1. /\ n \in 0..(Len(Stream) - 1) /\ Stream[n + 1] = End
        /\ Len(Stream') = Len(Stream) - 1
        /\ \A k \in 1..Len(Stream') :
              Stream'[k] = IF k <= n THEN Stream[k] ELSE Stream[k + 1]
    BY <1>0, <1>6, <1>9, SMTT(40)
  <2>. QED  BY <1>1, <1>2, <1>7, <2>1, PromptDrops
<1>. QED  BY <1>8, <1>9

LEMMA PromptReads ==
  ASSUME StreamTypes, StreamTypes', PromptInv, ~fault',
         Read \/ WaitToRead
  PROVE  PromptInv'
<1>0. /\ Arrived \in 0..Len(pipe) /\ Len(pipe) \in Nat
      /\ \A k \in 1..Arrived : pipe[k] # End
      /\ TransferEnded => Arrived + 1 \in 1..Len(pipe) /\ pipe[Arrived + 1] = End
  BY ArrivedUnits DEF StreamTypes
<1>1. capacity \in Nat \ {0} /\ Packet \in Nat \ {0}
  BY CapacityFits, GeometryAssumption DEF StreamTypes
<1>2. fault \in BOOLEAN /\ pipe \in Seq(UnitRecord \cup {End})
  BY DEF PromptInv, StreamTypes
<1>3. ~fault /\ fault' = FALSE
  BY <1>2 DEF Read, ReadCompletes, ReadCut, ReadTruncated, WaitToRead
<1>4. fault' \in BOOLEAN /\ CutKept /\ filled \in BOOLEAN
  BY <1>3 DEF PromptInv
<1>5. \A x \in 0..Len(pipe) : pipe' = After(pipe, x) /\ pipe' # <<>> =>
          x + 1 \in 1..Len(pipe) /\ pipe'[1] = pipe[x + 1]
  <2>. SUFFICES ASSUME NEW x \in 0..Len(pipe), pipe' = After(pipe, x), pipe' # <<>>
                PROVE  x + 1 \in 1..Len(pipe) /\ pipe'[1] = pipe[x + 1]
    OBVIOUS
  <2>1. /\ Len(pipe') = Len(pipe) - x /\ pipe' \in Seq(UnitRecord \cup {End})
        /\ \A k \in 1..(Len(pipe) - x) : pipe'[k] = pipe[x + k]
    <3>. DEFINE S == UnitRecord \cup {End}
    <3>. HIDE DEF S
    <3>1. pipe \in Seq(S)
      BY <1>2 DEF S
    <3>2. /\ Len(After(pipe, x)) = Len(pipe) - x /\ After(pipe, x) \in Seq(S)
          /\ \A k \in 1..(Len(pipe) - x) : After(pipe, x)[k] = pipe[x + k]
      BY <3>1, AfterPart
    <3>. QED  BY <3>2 DEF S
  <2>2. 1 \in 1..(Len(pipe) - x)
    BY <1>0, <2>1
  <2>. QED  BY <1>0, <2>1, <2>2
<1>6. ASSUME NEW d, ReadCompletes(d) PROVE PromptInv'
  <2>0. ReadStarts /\ UNCHANGED <<payload, incoming, session, transactionId>>
    BY <1>6 DEF ReadCompletes, readFrame
  <2>1. CASE Arrived >= capacity /\ ReadReturns(capacity, d, After(pipe, capacity))
    <3>1. capacity \in 0..Len(pipe) /\ capacity > 0 /\ capacity # capacity + 1
      BY <1>0, <1>1, <2>1
    <3>. DEFINE c == capacity
    <3>2. /\ c \in 0..Len(pipe) /\ c \in {c, c + 1} /\ c <= Len(pipe) /\ c > 0
          /\ (c = c + 1 => pipe[c + 1] = End)
          /\ ReadReturns(c, d, After(pipe, c)) /\ c = capacity
      BY <1>0, <2>1, <3>1
    <3>. HIDE DEF c
    <3>. QED  BY <1>3, <1>4, <2>0, <3>2, PromptReturns
  <2>2. CASE /\ Arrived < capacity /\ TransferEnded
             /\ ReadReturns(Arrived, d, After(pipe, Arrived + 1))
    <3>. DEFINE c == Arrived
    <3>1. /\ c \in 0..Len(pipe) /\ c + 1 \in {c, c + 1} /\ c + 1 <= Len(pipe)
          /\ c + 1 # c /\ pipe[c + 1] = End /\ c + 1 \in 1..Len(pipe)
          /\ ReadReturns(c, d, After(pipe, c + 1))
      BY <1>0, <2>2
    <3>. HIDE DEF c
    <3>2. ~(pipe' # <<>> /\ pipe'[1] = End)
      <4>. SUFFICES ASSUME pipe' # <<>> PROVE pipe'[1] # End
        OBVIOUS
      <4>1. c + 1 \in 0..Len(pipe) /\ pipe' = After(pipe, c + 1)
        BY <1>0, <3>1 DEF ReadReturns
      <4>2. c + 1 + 1 \in 1..Len(pipe) /\ pipe'[1] = pipe[c + 1 + 1]
        BY <1>5, <4>1
      <4>3. Shape(pipe)
        BY <1>4, <2>0, StreamIs DEF CutKept, ReadStarts
      <4>4. pipe[c + 1 + 1] # End
        BY <3>1, <4>2, <4>3, Kinds3 DEF Shape
      <4>. QED  BY <4>2, <4>4
    <3>. QED  BY <1>3, <1>4, <2>0, <3>1, <3>2, PromptReturns
  <2>. QED  BY <1>6, <2>1, <2>2 DEF ReadCompletes
<1>7. ASSUME NEW k \in Nat, ReadCut(k) PROVE PromptInv'
  <2>. DEFINE n == k * Packet
  <2>0. ReadStarts /\ UNCHANGED <<payload, incoming, session, transactionId>>
    BY <1>7 DEF ReadCut, readFrame
  <2>1. /\ n \in Nat /\ n \in 1..Least(Arrived, capacity - 1)
        /\ ReadReturns(n, IoTimeout, After(pipe, n))
        /\ fault' = (fault \/ (n = Arrived /\ TransferEnded))
    BY <1>1, <1>7 DEF ReadCut
  <2>. HIDE DEF n
  <2>2. n \in 1..Arrived /\ n \in 0..Len(pipe) /\ n > 0 /\ n <= Len(pipe) /\ n # n + 1
    BY <1>0, <1>1, <2>1 DEF Least
  <2>3. ~(pipe' # <<>> /\ pipe'[1] = End)
    <3>. SUFFICES ASSUME pipe' # <<>> PROVE pipe'[1] # End
      OBVIOUS
    <3>1. n + 1 \in 1..Len(pipe) /\ pipe'[1] = pipe[n + 1]
      BY <1>5, <2>1, <2>2 DEF ReadReturns
    <3>2. CASE n = Arrived
      <4>1. ~TransferEnded
        BY <1>3, <2>1, <3>2
      <4>. QED  BY <1>0, <3>1, <3>2, <4>1 DEF TransferEnded
    <3>3. CASE n # Arrived
      <4>1. n + 1 \in 1..Arrived
        BY <1>0, <2>2, <3>3
      <4>. QED  BY <1>0, <3>1, <4>1
    <3>. QED  BY <3>2, <3>3
  <2>. QED  BY <1>3, <1>4, <2>0, <2>1, <2>2, <2>3, PromptReturns
<1>8. ~ReadTruncated
  <2>. SUFFICES ASSUME ReadTruncated PROVE FALSE
    OBVIOUS
  <2>1. Arrived = 0 /\ TransferEnded /\ ~filled
    BY DEF ReadTruncated
  <2>2. pipe # <<>> /\ pipe[1] = End
    BY <1>0, <1>2, <2>1
  <2>. QED  BY <1>4, <2>1, <2>2 DEF CutKept
<1>9. CASE WaitToRead
  <2>1. UNCHANGED <<step, stage, command, payload, container, left, incoming,
                    session, verdict, transactionId, poisoned>>
        /\ UNCHANGED <<buffer, pipe, filled>>
    BY <1>9 DEF WaitToRead, cameraVars
  <2>2. Stream' = Stream
    BY <2>1 DEF Stream
  <2>. QED  BY <1>3, <1>4, <2>1, <2>2, PromptSame DEF CutKept
<1>10. \A k \in 1..LastCapacity : k \in Nat
  OBVIOUS
<1>. QED  BY <1>6, <1>7, <1>8, <1>9, <1>10 DEF Read

\* With nothing but ends of transfers in the stream there is little to keep.
LEMMA EmptyCut ==
  ASSUME Shape(Stream)', AllEnd(Stream)', (pipe # <<>> /\ pipe[1] = End => filled)',
         step' # "payload", step' = "header" => left' = 1, StreamTypes'
  PROVE  CutKept'
<1>1. Len(Stream)' \in Nat /\ (Stream' # <<>> => 1 \in 1..Len(Stream)')
  BY DEF Shape
<1>2. (\A k \in 1..Len(Stream) : ~IsByte(Stream[k]) /\ ~IsData(Stream[k]) /\ ~IsResponse(Stream[k]))'
  BY Kinds3 DEF AllEnd
<1>3. NoData(Stream)' /\ (Stream # <<>> => ~IsByte(Stream[1]))'
  BY <1>1, <1>2 DEF NoData
<1>. QED  BY <1>2, <1>3 DEF CutKept

LEMMA StageSame ==
  ASSUME StageKept, UNCHANGED <<stage, command, session, verdict, transactionId>>,
         Idle' <=> Idle, Unanswered' => Unanswered
  PROVE  StageKept'
  BY DEF StageKept

\* The host takes the first units.
LEMMA StreamTaken ==
  ASSUME StreamTypes, StreamTypes', pipe' = pipe, NEW n \in 0..Len(buffer),
         Len(buffer') = Len(buffer) - n,
         \A k \in 1..Len(buffer') : buffer'[k] = buffer[k + n]
  PROVE  /\ Stream' \in Seq(UnitRecord \cup {End})
         /\ Len(Stream') = Len(Stream) - n
         /\ \A k \in 1..Len(Stream') : Stream'[k] = Stream[k + n]
<1>. DEFINE S == UnitRecord \cup {End}
<1>1. /\ buffer \in Seq(S) /\ pipe \in Seq(S) /\ Len(buffer) \in Nat /\ Len(pipe) \in Nat
      /\ buffer' \in Seq(S) /\ Len(buffer') \in Nat
  BY DEF StreamTypes
<1>. HIDE DEF S
<1>2. /\ buffer' \o pipe \in Seq(S)
      /\ Len(buffer' \o pipe) = Len(buffer') + Len(pipe)
      /\ \A k \in 1..(Len(buffer') + Len(pipe)) : (buffer' \o pipe)[k] =
            IF k <= Len(buffer') THEN buffer'[k] ELSE pipe[k - Len(buffer')]
  BY <1>1, ConcatProperties
<1>3. /\ Len(buffer \o pipe) = Len(buffer) + Len(pipe)
      /\ \A k \in 1..(Len(buffer) + Len(pipe)) : (buffer \o pipe)[k] =
            IF k <= Len(buffer) THEN buffer[k] ELSE pipe[k - Len(buffer)]
  BY <1>1, ConcatProperties
<1>4. Len(buffer' \o pipe) = Len(buffer \o pipe) - n
  BY <1>1, <1>2, <1>3
<1>5. ASSUME NEW k \in 1..Len(buffer' \o pipe)
      PROVE  (buffer' \o pipe)[k] = (buffer \o pipe)[k + n]
  <2>0. k \in 1..(Len(buffer') + Len(pipe)) /\ k + n \in 1..(Len(buffer) + Len(pipe))
    BY <1>1, <1>2
  <2>1. CASE k <= Len(buffer')
    <3>1. k \in 1..Len(buffer') /\ k + n <= Len(buffer)
      BY <1>1, <2>0, <2>1
    <3>. QED  BY <1>2, <1>3, <2>0, <2>1, <3>1
  <2>2. CASE ~(k <= Len(buffer'))
    <3>1. ~(k + n <= Len(buffer)) /\ k + n - Len(buffer) = k - Len(buffer')
      BY <1>1, <2>0, <2>2
    <3>. QED  BY <1>2, <1>3, <2>0, <2>2, <3>1, SMTT(40)
  <2>. QED  BY <2>1, <2>2
<1>. QED  BY <1>2, <1>4, <1>5 DEF Stream, S

LEMMA PromptHeader ==
  ASSUME StreamTypes, StreamTypes', PromptInv, ~fault', TakeHeader
  PROVE  PromptInv'
<1>. DEFINE u == Head(buffer)
            q == Stream
            r == Stream'
<1>0. /\ step = "header" /\ ~Idle /\ ~fault /\ fault' = fault /\ CutKept /\ StageKept
      /\ Stream \in Seq(UnitRecord \cup {End}) /\ Len(Stream) \in Nat
  BY StreamIs DEF TakeHeader, Idle, PromptInv
<1>1. /\ buffer \in Seq(UnitRecord) /\ buffer # <<>> /\ Len(buffer) \in Nat
      /\ buffer' = Tail(buffer)
      /\ UNCHANGED <<pipe, incoming, session, transactionId, payload, filled>>
  BY DEF TakeHeader, StreamTypes, cameraVars
<1>2. /\ u \in UnitRecord /\ u = buffer[1] /\ 1 \in 1..Len(buffer)
      /\ Len(buffer') = Len(buffer) - 1
      /\ \A k \in 1..Len(buffer') : buffer'[k] = buffer[k + 1]
  BY <1>1, HeadTailProperties
<1>3. q[1] = u /\ 1 \in 1..Len(q) /\ u # End /\ u.length \in Nat
  BY <1>2, StreamIs, EndIsNoUnit DEF UnitRecord
<1>4. /\ r \in Seq(UnitRecord \cup {End}) /\ Len(r) = Len(q) - 1
      /\ \A k \in 1..Len(r) : r[k] = q[k + 1]
  <2>1. 1 \in 0..Len(buffer)
    BY <1>2
  <2>. QED  BY <1>1, <1>2, <2>1, StreamTaken
<1>. HIDE DEF u
<1>5. Shape(q) /\ ~IsByte(u)
  <2>1. q # <<>>
    BY <1>3
  <2>. QED  BY <1>0, <1>3, <2>1 DEF CutKept
<1>6. (IsData(u) \/ IsResponse(u)) /\ u.length <= MaxPayload /\ Bytes(q, 1, u.length)
  BY <1>3, <1>5 DEF Shape
<1>7. /\ container' = u /\ step' = "payload" /\ left' = u.length
      /\ UNCHANGED <<poisoned, stage, command, verdict>>
  <2>1. ~(u.unit = "byte" \/ u.length > MaxPayload)
    BY <1>3, <1>5, <1>6, GeometryAssumption DEF IsByte
  <2>. QED  BY <2>1 DEF TakeHeader, u
<1>8. Shape(r) /\ Bytes(r, 0, u.length)
  <2>1. /\ Shape(r)
        /\ \A from, c \in Nat : Bytes(q, 1 + from, c) => Bytes(r, from, c)
    <3>1. 1 \in 0..Len(q)
      BY <1>3
    <3>. QED  BY <1>4, <1>5, <3>1, DropFirst
  <2>2. Bytes(q, 1 + 0, u.length)
    BY <1>6
  <2>. QED  BY <1>3, <2>1, <2>2
<1>9. \A k \in 1..Len(r) : k + 1 \in 1..Len(q) /\ 1 \in 1..(k + 1 - 1)
  BY <1>0, <1>4
<1>10. NoData(r)
  <2>1. \A k \in 1..Len(q) : IsData(q[k]) => \A j \in 1..(k - 1) : q[j] = End
    BY <1>5 DEF Shape
  <2>2. ASSUME NEW k \in 1..Len(r), IsData(r[k]) PROVE FALSE
    BY <1>3, <1>4, <1>9, <2>1, <2>2
  <2>. QED  BY <2>2 DEF NoData
<1>11. IsData(u) => payload = -1
  BY <1>0, <1>3 DEF CutKept, NoData
<1>12. IsResponse(u) => \A k \in (u.length + 1)..Len(r) : r[k] = End
  <2>. SUFFICES ASSUME IsResponse(u), NEW k \in (u.length + 1)..Len(r) PROVE r[k] = End
    OBVIOUS
  <2>1. \A j \in (1 + u.length + 1)..Len(q) : q[j] = End
    BY <1>3, <1>5 DEF Shape
  <2>2. k \in 1..Len(r) /\ k + 1 \in (1 + u.length + 1)..Len(q)
    BY <1>0, <1>3, <1>4
  <2>. QED  BY <1>4, <2>1, <2>2
<1>13. ~AllEnd(q)
  BY <1>3 DEF AllEnd
<1>14. incoming = NoCommand /\ ~Unanswered' /\ ~Idle'
  BY <1>0, <1>1, <1>7, <1>13 DEF CutKept, Unanswered, Idle
<1>15. \A k \in 1..Len(q) : IsData(q[k]) \/ IsResponse(q[k]) => q[k].id = command.id /\ Fits(q[k])
  BY <1>0 DEF CutKept
<1>16. \A v : Fits(v)' <=> Fits(v)
  BY <1>1, <1>7 DEF Fits
<1>17. u.id = command.id /\ Fits(u)
  BY <1>3, <1>6, <1>15
<1>18. (\A k \in 1..Len(Stream) : IsData(Stream[k]) \/ IsResponse(Stream[k]) =>
           Stream[k].id = command.id /\ Fits(Stream[k]))'
  BY <1>4, <1>7, <1>9, <1>15, <1>16
<1>19. (pipe # <<>> /\ pipe[1] = End => filled)'
  BY <1>0, <1>1 DEF CutKept
<1>20. (Own(container) /\ Fits(container))' /\ (IsData(container') \/ IsResponse(container'))
  BY <1>6, <1>7, <1>16, <1>17 DEF Own, Fits
<1>21. CutKept'
  BY <1>1, <1>7, <1>8, <1>10, <1>11, <1>12, <1>14, <1>18, <1>19, <1>20 DEF CutKept
<1>22. StageKept'
  BY <1>0, <1>1, <1>7, <1>14, StageSame
<1>. QED  BY <1>0, <1>1, <1>7, <1>21, <1>22 DEF PromptInv

LEMMA PromptPayload ==
  ASSUME StreamTypes, StreamTypes', PromptInv, ~fault', TakePayload
  PROVE  PromptInv'
<1>. DEFINE n == Least(left, Len(buffer))
            q == Stream
            r == Stream'
<1>0. /\ step = "payload" /\ ~Idle /\ ~fault /\ fault' = fault /\ CutKept /\ StageKept
      /\ Stream \in Seq(UnitRecord \cup {End}) /\ Len(Stream) \in Nat
      /\ buffer \in Seq(UnitRecord)
  BY StreamIs DEF TakePayload, Idle, PromptInv, StreamTypes
<1>1. n \in 0..Len(buffer) /\ n <= left /\ left \in Nat /\ Len(buffer) \in Nat /\ n \in 0..Len(q)
  BY StreamIs DEF StreamTypes, Least
<1>2. /\ buffer' = After(buffer, n) /\ left' = left - n
      /\ UNCHANGED <<step, stage, command, payload, container, incoming, session,
                     verdict, transactionId, poisoned, pipe, filled>>
  BY DEF TakePayload, cameraVars
<1>. HIDE DEF n
<1>3. Len(buffer') = Len(buffer) - n /\ \A k \in 1..Len(buffer') : buffer'[k] = buffer[k + n]
  <2>1. /\ Len(After(buffer, n)) = Len(buffer) - n
        /\ \A k \in 1..(Len(buffer) - n) : After(buffer, n)[k] = buffer[n + k]
    BY <1>0, <1>1, AfterPart
  <2>2. \A k \in 1..(Len(buffer) - n) : n + k = k + n
    BY <1>1
  <2>. QED  BY <1>2, <2>1, <2>2
<1>4. /\ r \in Seq(UnitRecord \cup {End}) /\ Len(r) = Len(q) - n
      /\ \A k \in 1..Len(r) : r[k] = q[k + n]
  BY <1>1, <1>2, <1>3, StreamTaken
<1>5. Shape(q) /\ Bytes(q, 0, left)
  BY <1>0 DEF CutKept
<1>6. Bytes(q, n, left - n) /\ left - n \in Nat
  <2>1. 0 + left = n + (left - n)
    BY <1>1
  <2>2. \A k \in (n + 1)..(n + (left - n)) : k \in (0 + 1)..(0 + left)
    BY <1>1
  <2>. QED  BY <1>1, <1>5, <2>1, <2>2 DEF Bytes
<1>7. Shape(r) /\ Bytes(r, 0, left - n)
  <2>1. /\ Shape(r)
        /\ \A from, c \in Nat : Bytes(q, n + from, c) => Bytes(r, from, c)
    BY <1>1, <1>4, <1>5, DropFirst
  <2>2. Bytes(q, n + 0, left - n)
    BY <1>1, <1>6
  <2>. QED  BY <1>6, <2>1, <2>2
<1>8. \A k \in 1..Len(r) : k + n \in 1..Len(q) /\ r[k] = q[k + n]
  BY <1>0, <1>1, <1>4
<1>9. (NoData(q) => NoData(r)) /\ (AllEnd(q) => AllEnd(r))
  BY <1>8 DEF NoData, AllEnd
<1>10. (\A k \in (left + 1)..Len(q) : q[k] = End) => \A k \in (left - n + 1)..Len(r) : r[k] = End
  <2>. SUFFICES ASSUME \A k \in (left + 1)..Len(q) : q[k] = End,
                       NEW k \in (left - n + 1)..Len(r)
                PROVE  r[k] = End
    OBVIOUS
  <2>1. k \in 1..Len(r) /\ k + n \in (left + 1)..Len(q)
    BY <1>0, <1>1, <1>4
  <2>. QED  BY <1>8, <2>1
<1>11. \A v : Fits(v)' <=> Fits(v)
  BY <1>2 DEF Fits
<1>12. (Idle' <=> Idle) /\ (Unanswered' <=> Unanswered) /\ (Own(container)' <=> Own(container))
  BY <1>2 DEF Idle, Unanswered, Own
<1>13. (\A k \in 1..Len(Stream) : IsData(Stream[k]) \/ IsResponse(Stream[k]) =>
           Stream[k].id = command.id /\ Fits(Stream[k]))'
  <2>1. \A k \in 1..Len(q) : IsData(q[k]) \/ IsResponse(q[k]) => q[k].id = command.id /\ Fits(q[k])
    BY <1>0 DEF CutKept
  <2>. QED  BY <1>2, <1>8, <1>11, <2>1
<1>14. Own(container)' /\ Fits(container)'
         /\ \/ IsData(container') /\ payload' = -1 /\ NoData(r)
            \/ IsResponse(container') /\ \A k \in (left' + 1)..Len(r) : r[k] = End
  BY <1>0, <1>2, <1>9, <1>10, <1>11, <1>12 DEF CutKept, Fits
<1>15. (pipe # <<>> /\ pipe[1] = End => filled)'
  BY <1>0, <1>2 DEF CutKept
<1>16. CutKept'
  BY <1>0, <1>2, <1>7, <1>9, <1>12, <1>13, <1>14, <1>15 DEF CutKept
<1>17. StageKept'
  BY <1>0, <1>2, <1>12, StageSame
<1>. QED  BY <1>0, <1>2, <1>16, <1>17 DEF PromptInv

LEMMA PromptJudges ==
  ASSUME StreamTypes, StreamTypes', PromptInv, ~fault', Judge
  PROVE  PromptInv'
<1>0. /\ step = "payload" /\ left = 0 /\ ~Idle /\ ~fault /\ fault' = fault
      /\ CutKept /\ StageKept /\ poisoned = FALSE /\ stage \in Stages /\ filled \in BOOLEAN
      /\ Stream \in Seq(UnitRecord \cup {End}) /\ Len(Stream) \in Nat
  BY StreamIs DEF Judge, Idle, PromptInv
<1>1. /\ UNCHANGED <<transactionId, buffer, pipe, incoming, session>>
      /\ Stream' = Stream
  BY DEF Judge, cameraVars, Stream
<1>2. /\ Own(container) /\ Fits(container) /\ Bytes(Stream, 0, 0)
      /\ \/ IsData(container) /\ payload = -1 /\ NoData(Stream)
         \/ IsResponse(container) /\ \A k \in 1..Len(Stream) : Stream[k] = End
  <2>1. 0 + 1 = 1
    OBVIOUS
  <2>. QED  BY <1>0, <2>1 DEF CutKept
<1>3. ~(IsData(container) /\ IsResponse(container))
  BY DEF IsData, IsResponse
<1>4. IsResponse(container) => buffer = <<>>
  <2>. SUFFICES ASSUME IsResponse(container), buffer # <<>> PROVE FALSE
    OBVIOUS
  <2>1. buffer \in Seq(UnitRecord) /\ 1 \in 1..Len(buffer)
    BY DEF StreamTypes
  <2>2. Stream[1] = buffer[1] /\ 1 \in 1..Len(Stream) /\ buffer[1] \in UnitRecord
    BY <2>1, StreamIs
  <2>. QED  BY <1>2, <1>3, <2>2, EndIsNoUnit
<1>5. Stream # <<>> => ~IsByte(Stream[1])
  <2>. SUFFICES ASSUME Stream # <<>> PROVE ~IsByte(Stream[1])
    OBVIOUS
  <2>1. 0 + 0 + 1 \in 1..Len(Stream) /\ 0 + 0 + 1 = 1
    BY <1>0
  <2>. QED  BY <1>2, <2>1 DEF Bytes
<1>6. Shape(Stream)' /\ (Unanswered' <=> incoming # NoCommand \/ step' \in {"command", "data"})
  BY <1>0, <1>1 DEF CutKept, Unanswered
<1>7. pipe # <<>> /\ pipe[1] = End => filled
  BY <1>0 DEF CutKept
\* The data container is complete: the response follows.
<1>8. CASE /\ container.unit = "data" /\ payload' = container.length
           /\ step' = "header" /\ left' = 1
           /\ UNCHANGED <<poisoned, stage, command, verdict, filled>>
  <2>1. IsData(container) /\ NoData(Stream)
    BY <1>2, <1>8 DEF IsResponse
  <2>2. ~Idle' /\ (Unanswered' => Unanswered)
    BY <1>6, <1>8 DEF Idle, Unanswered
  <2>3. \A v : Fits(v)' <=> Fits(v)
    BY <1>1, <1>8 DEF Fits
  <2>4. (\A k \in 1..Len(Stream) : IsData(Stream[k]) \/ IsResponse(Stream[k]) =>
           Stream[k].id = command.id /\ Fits(Stream[k]))'
    BY <1>0, <1>1, <1>8, <2>3 DEF CutKept
  <2>5. (Idle \/ Unanswered => AllEnd(Stream))'
    BY <1>0, <1>1, <2>2 DEF CutKept
  <2>6. CutKept'
    BY <1>1, <1>5, <1>6, <1>7, <1>8, <2>1, <2>2, <2>4, <2>5 DEF CutKept
  <2>7. StageKept'
    BY <1>0, <1>1, <1>8, <2>2, StageSame
  <2>. QED  BY <1>0, <1>8, <2>6, <2>7 DEF PromptInv
\* The response is complete.
<1>9. CASE /\ IsResponse(container)
           /\ Return(IF container.unit = "ok" THEN "ok"
                     ELSE IF container.unit = "already" THEN "already" ELSE "rejected")
           /\ UNCHANGED poisoned /\ filled' = filled
  <2>1. /\ step' = "idle" /\ Idle' /\ UNCHANGED <<stage, command>> /\ left' = 0
        /\ container.unit = "ok" => verdict' = "ok"
        /\ container.unit = "already" => verdict' = "already"
        /\ container.unit = "error" => verdict' = "rejected"
        /\ container.unit \in {"ok", "already", "error"}
    BY <1>9 DEF Return, Idle, IsResponse
  <2>2. AllEnd(Stream)'
    BY <1>1, <1>2, <1>3, <1>9 DEF AllEnd
  <2>3. CutKept'
    BY <1>1, <1>6, <1>7, <1>9, <2>1, <2>2, EmptyCut
  <2>4. StageKept'
    <3>1. verdict' \notin {"lost", "unsent"}
      BY <2>1
    <3>2. /\ stage \notin {"new", "over"}
          /\ stage \in {"opening", "reopening"} => command.id = 0
      BY <1>0 DEF StageKept
    <3>3. /\ verdict' = "rejected" => stage = "ready"
          /\ verdict' = "already" => stage = "opening"
          /\ verdict' = "ok" /\ stage \in {"clearing", "closing"} => session = "none"
      BY <1>2, <2>1 DEF Fits
    <3>4. verdict' \in {"rejected", "already", "ok"}
      BY <2>1
    <3>5. /\ stage = "opening" => verdict' \in {"ok", "already"}
          /\ stage \in {"clearing", "reopening", "closing"} => verdict' = "ok"
      BY <3>3, <3>4
    <3>. QED  BY <1>1, <2>1, <3>1, <3>2, <3>3, <3>5 DEF StageKept
  <2>. QED  BY <1>0, <1>9, <2>1, <2>3, <2>4 DEF PromptInv
<1>10. ASSUME \/ ~Own(container)
              \/ container.unit # "data" /\ buffer # <<>>
              \/ container.unit = "data" /\ payload >= 0
              \/ container.unit = "other"
       PROVE  FALSE
  BY <1>2, <1>4, <1>10 DEF IsData, IsResponse
<1>11. Observe => filled' = filled
  BY DEF Observe, FilledKept
<1>. QED  BY <1>8, <1>9, <1>10, <1>11 DEF Judge, IsResponse

\* Until the last container has gone out nothing is in the stream.
LEMMA PromptWrites ==
  ASSUME StreamTypes, StreamTypes', PromptInv, ~fault', NEW n, NEW d, WriteSome(n, d)
  PROVE  PromptInv'
<1>0. /\ step \in {"command", "data"} /\ ~Idle /\ ~fault /\ fault' = fault /\ Unanswered
      /\ CutKept /\ StageKept /\ poisoned = FALSE /\ stage \in Stages /\ filled \in BOOLEAN
  BY DEF WriteSome, Writing, Idle, Unanswered, PromptInv
<1>1. /\ UNCHANGED <<stage, command, verdict, session, poisoned, filled, buffer, pipe>>
      /\ step' \in {"command", "data", "header"} /\ (step' = "header" => left' = 1)
      /\ transactionId' \in {transactionId, command.id + 1}
  BY <1>0 DEF WriteSome, IdAfter
<1>2. Stream' = Stream /\ ~Idle'
  BY <1>1 DEF Stream, Idle
<1>3. AllEnd(Stream)' /\ Shape(Stream)' /\ (pipe # <<>> /\ pipe[1] = End => filled)'
  BY <1>0, <1>1, <1>2 DEF CutKept
<1>4. CutKept'
  BY <1>1, <1>3, EmptyCut
<1>5. StageKept'
  BY <1>0, <1>1, <1>2 DEF StageKept
<1>. QED  BY <1>0, <1>1, <1>4, <1>5 DEF PromptInv

LEMMA PromptHost ==
  ASSUME StreamTypes, StreamTypes', PromptInv, ~fault',
         Transact \/ WriteError \/ ReadError
  PROVE  PromptInv'
<1>1. ~WriteExpires /\ ~ReadExpires /\ ~WriteError /\ ~ReadError
  BY DEF WriteExpires, ReadExpires, WriteError, ReadError, WriteEnds
<1>2. CASE Write
  BY <1>2, PromptWrites DEF Write
<1>3. CASE WaitToWrite
  <2>1. UNCHANGED <<step, stage, command, payload, container, left, incoming,
                    session, verdict, transactionId, poisoned>>
        /\ UNCHANGED <<buffer, pipe, filled, fault>>
    BY <1>3 DEF WaitToWrite, cameraVars
  <2>2. Stream' = Stream /\ ~fault /\ filled \in BOOLEAN /\ CutKept /\ fault \in BOOLEAN
    BY <2>1 DEF Stream, PromptInv
  <2>. QED  BY <2>1, <2>2, PromptSame DEF CutKept
<1>. QED  BY <1>1, <1>2, <1>3, PromptReads, PromptHeader, PromptPayload, PromptJudges
          DEF Transact

-----------------------------------------------------------------------------
(* A prompt camera: the session opens, clears a stale one, and closes.     *)

LEMMA PromptBegins ==
  ASSUME StreamTypes', PromptInv, ~fault', NEW kind, NEW id, NEW hard, Begin(kind, id, hard)
  PROVE  /\ ~fault /\ fault' = FALSE /\ CutKept' /\ StageKept /\ poisoned' = FALSE
         /\ stage \in Stages /\ filled' \in BOOLEAN
         /\ Idle /\ session' = session
         /\ \/ /\ id # MaxId /\ ~Idle' /\ verdict' = verdict
               /\ command'.kind = kind /\ command'.id = id
            \/ /\ id = MaxId /\ Idle' /\ verdict' = "refused" /\ transactionId' = id
<1>0. /\ Idle /\ UNCHANGED <<fault, poisoned, filled, buffer, pipe, session>>
      /\ transactionId' = id
  BY DEF Begin, Idle
<1>1. /\ ~fault /\ fault' = FALSE /\ CutKept /\ StageKept /\ poisoned = FALSE
      /\ stage \in Stages /\ filled \in BOOLEAN
  BY <1>0 DEF PromptInv
<1>2. \/ /\ id # MaxId /\ step' = "command" /\ verdict' = verdict
         /\ command' = [kind |-> kind, serial |-> command.serial + 1, id |-> id, hard |-> hard]
      \/ id = MaxId /\ step' = "idle" /\ verdict' = "refused"
  BY <1>1 DEF Begin, Usable
<1>3. Stream' = Stream
  BY <1>0 DEF Stream
<1>4. AllEnd(Stream)' /\ Shape(Stream)' /\ (pipe # <<>> /\ pipe[1] = End => filled)'
  BY <1>0, <1>1, <1>3 DEF CutKept
<1>5. CutKept'
  BY <1>2, <1>4, EmptyCut
<1>. QED  BY <1>0, <1>1, <1>2, <1>5 DEF Idle

LEMMA PromptSession ==
  ASSUME StreamInv, StreamTypes', PromptInv, ~fault',
         \/ OpenSession \/ ClearStaleSession \/ ReopenSession \/ SessionOpened
         \/ \E kind \in {"read", "write"} : Call(kind)
         \/ CloseSession \/ SessionClosed
  PROVE  PromptInv'
<1>0. 0 # MaxId /\ 1 # MaxId /\ 0 + 1 = 1
  BY BoundsAssumption
\* The session moves on without a command.
<1>1. ASSUME Idle, stage' \in Stages, StageKept => StageKept',
             UNCHANGED <<transactionId, poisoned, buffer, filled, step, command, left,
                         payload, container, verdict, cameraVars, fault>>
      PROVE  PromptInv'
  <2>1. /\ CutKept /\ StageKept /\ poisoned = FALSE /\ filled \in BOOLEAN /\ fault' = FALSE
    BY <1>1 DEF PromptInv
  <2>2. Stream' = Stream /\ step' = "idle" /\ UNCHANGED pipe
    BY <1>1 DEF Stream, Idle, cameraVars
  <2>3. AllEnd(Stream)' /\ Shape(Stream)' /\ (pipe # <<>> /\ pipe[1] = End => filled)'
    BY <1>1, <2>1, <2>2 DEF CutKept
  <2>4. CutKept'
    BY <2>2, <2>3, EmptyCut
  <2>. QED  BY <1>1, <2>1, <2>4 DEF PromptInv
<1>2. CASE OpenSession
  <2>1. Begin("open", 0, HardTimeout) /\ stage = "new" /\ stage' = "opening"
    BY <1>2 DEF OpenSession
  <2>2. /\ fault' = FALSE /\ CutKept' /\ StageKept /\ poisoned' = FALSE /\ filled' \in BOOLEAN
        /\ Idle /\ session' = session /\ ~Idle'
        /\ command'.kind = "open" /\ command'.id = 0
    BY <1>0, <2>1, PromptBegins
  <2>3. StageKept'
    BY <2>1, <2>2 DEF StageKept
  <2>. QED  BY <2>1, <2>2, <2>3 DEF PromptInv, Stages
<1>3. CASE ClearStaleSession
  <2>1. /\ Begin("close", transactionId, HardTimeout) /\ stage = "opening"
        /\ stage' = "clearing" /\ verdict = "already"
    BY <1>3 DEF ClearStaleSession
  <2>2. Idle /\ StageKept
    BY <2>1, PromptBegins
  <2>3. transactionId = 1
    BY <1>0, <2>1, <2>2 DEF StageKept, StreamInv, IdsKept, Idle
  <2>4. /\ fault' = FALSE /\ CutKept' /\ poisoned' = FALSE /\ filled' \in BOOLEAN
        /\ session' = session /\ ~Idle' /\ command'.kind = "close"
    BY <1>0, <2>1, <2>3, PromptBegins
  <2>5. StageKept'
    BY <2>1, <2>4 DEF StageKept
  <2>. QED  BY <2>1, <2>4, <2>5 DEF PromptInv, Stages
<1>4. CASE ReopenSession
  <2>1. /\ Begin("open", 0, HardTimeout) /\ stage = "clearing" /\ stage' = "reopening"
    BY <1>4 DEF ReopenSession
  <2>2. /\ fault' = FALSE /\ CutKept' /\ StageKept /\ poisoned' = FALSE /\ filled' \in BOOLEAN
        /\ Idle /\ session' = session /\ ~Idle'
        /\ command'.kind = "open" /\ command'.id = 0
    BY <1>0, <2>1, PromptBegins
  <2>3. StageKept'
    BY <2>1, <2>2 DEF StageKept
  <2>. QED  BY <2>1, <2>2, <2>3 DEF PromptInv, Stages
<1>5. CASE SessionOpened
  <2>0. StageKept /\ Idle
    BY <1>5 DEF SessionOpened, PromptInv
  <2>1. stage' = "ready"
    BY <1>5, <2>0 DEF SessionOpened, StageKept
  <2>2. StageKept'
    BY <1>5, <2>0, <2>1 DEF SessionOpened, StageKept, Idle, cameraVars
  <2>. QED  BY <1>1, <1>5, <2>0, <2>1, <2>2 DEF SessionOpened, Stages
<1>6. ASSUME NEW kind \in {"read", "write"}, Call(kind) PROVE PromptInv'
  <2>1. Begin(kind, transactionId, HardTimeout) /\ stage = "ready" /\ stage' = "ready"
    BY <1>6 DEF Call
  <2>2. /\ fault' = FALSE /\ CutKept' /\ StageKept /\ poisoned' = FALSE /\ filled' \in BOOLEAN
        /\ Idle /\ session' = session
        /\ \/ ~Idle' /\ command'.kind = kind
           \/ Idle' /\ verdict' = "refused"
    BY <2>1, PromptBegins
  <2>3. StageKept'
    BY <1>6, <2>1, <2>2 DEF StageKept
  <2>. QED  BY <2>1, <2>2, <2>3 DEF PromptInv, Stages
<1>7. CASE CloseSession
  <2>0. StageKept /\ Idle /\ poisoned = FALSE /\ stage = "ready"
    BY <1>7 DEF CloseSession, PromptInv, Begin
  <2>1. CASE SafeToClose /\ stage' = "closing"
               /\ \E hard \in {HardTimeout, DropTimeout} : Begin("close", transactionId, hard)
    <3>1. transactionId # MaxId
      BY <2>1 DEF SafeToClose, Healthy, Usable
    <3>2. /\ fault' = FALSE /\ CutKept' /\ poisoned' = FALSE /\ filled' \in BOOLEAN
          /\ ~Idle' /\ command'.kind = "close"
      BY <2>1, <3>1, PromptBegins
    <3>3. StageKept'
      BY <2>1, <3>2 DEF StageKept
    <3>. QED  BY <2>1, <3>2, <3>3 DEF PromptInv, Stages
  <2>2. CASE ~SafeToClose /\ stage' = "over"
    <3>1. transactionId = MaxId
      BY <2>0, <2>2 DEF SafeToClose, Healthy, Usable
    <3>2. UNCHANGED <<transactionId, poisoned, buffer, filled, step, command, left,
                      payload, container, verdict, cameraVars, fault>>
      BY <1>7, <2>2 DEF CloseSession
    <3>3. StageKept'
      BY <2>0, <2>2, <3>1, <3>2 DEF StageKept, Idle
    <3>. QED  BY <1>1, <2>0, <2>2, <3>2, <3>3 DEF Stages
  <2>. QED  BY <1>7, <2>1, <2>2 DEF CloseSession
<1>8. CASE SessionClosed
  <2>0. StageKept /\ Idle /\ stage = "closing" /\ stage' = "over"
    BY <1>8 DEF SessionClosed, PromptInv
  <2>1. UNCHANGED <<transactionId, poisoned, buffer, filled, step, command, left,
                    payload, container, verdict, cameraVars, fault>>
    BY <1>8 DEF SessionClosed
  <2>2. StageKept'
    BY <2>0, <2>1 DEF StageKept, Idle, cameraVars
  <2>. QED  BY <1>1, <2>0, <2>1, <2>2 DEF Stages
<1>. QED  BY <1>2, <1>3, <1>4, <1>5, <1>6, <1>7, <1>8

\* The answers of a prompt camera.
LEMMA PromptAnswer ==
  ASSUME CameraAnswers, ~fault', fault \in BOOLEAN
  PROVE  \E kind \in {"ok", "error", "already"} :
            /\ \E a \in Answers(kind) : pipe' = pipe \o a
            /\ kind = "ok" => Executes(TRUE)
            /\ kind # "ok" => session' = session
            /\ kind = "already" => Opens /\ session # "none"
            /\ kind = "error" => MayRefuse
<1>1. CASE (\E a \in Answers("ok") : pipe' = pipe \o a) /\ Executes(TRUE)
  BY <1>1
<1>2. CASE /\ Opens /\ session # "none"
           /\ \E a \in Answers("already") : pipe' = pipe \o a
           /\ Executes(FALSE)
  <2>1. session' = session
    BY <1>2 DEF Executes
  <2>. QED  BY <1>2, <2>1
<1>3. CASE /\ \E a \in Answers("error") : pipe' = pipe \o a
           /\ Executes(FALSE)
           /\ fault' = (fault \/ ~MayRefuse)
  <2>1. session' = session
    BY <1>3 DEF Executes
  <2>2. MayRefuse
    BY <1>3
  <2>. QED  BY <1>3, <2>1, <2>2
<1>4. ~(fault' = TRUE)
  OBVIOUS
<1>. QED  BY <1>1, <1>2, <1>3, <1>4 DEF CameraAnswers

\* What went wrong stays so.
LEMMA CameraFault ==
  ASSUME CameraAnswers, fault \in BOOLEAN
  PROVE  fault' \in BOOLEAN /\ (fault => fault')
<1>1. fault' = fault \/ fault' = TRUE \/ fault' = (fault \/ ~MayRefuse)
  BY DEF CameraAnswers
<1>2. (fault \/ ~MayRefuse) \in BOOLEAN
  OBVIOUS
<1>3. CASE fault' = fault
  BY <1>3
<1>4. CASE fault' = TRUE
  BY <1>4
<1>5. CASE fault' = (fault \/ ~MayRefuse)
  <2>1. fault' \in BOOLEAN
    BY <1>2, <1>5
  <2>2. fault => fault'
    BY <1>5
  <2>. QED  BY <2>1, <2>2
<1>. QED  BY <1>1, <1>3, <1>4, <1>5

LEMMA PromptCamera ==
  ASSUME StreamInv, StreamTypes', PromptInv, ~fault', CameraAnswers
  PROVE  PromptInv'
<1>0. /\ StreamTypes /\ incoming # NoCommand /\ incoming' = NoCommand /\ UNCHANGED hostVars
      /\ fault \in BOOLEAN
  BY DEF CameraAnswers, StreamInv, PromptInv
<1>1. /\ ~fault /\ fault' = FALSE /\ CutKept /\ StageKept /\ poisoned = FALSE
      /\ stage \in Stages /\ filled \in BOOLEAN
  <2>1. ~fault
    BY <1>0, CameraFault
  <2>2. fault' = FALSE
    BY <1>0, CameraFault
  <2>. QED  BY <2>1, <2>2 DEF PromptInv
<1>2. UNCHANGED <<transactionId, poisoned, buffer, filled, stage, step, command, left,
                  payload, container, verdict>>
  BY <1>0 DEF hostVars
\* The host waits for the first container.
<1>3. /\ ~Idle /\ step = "header" /\ payload = -1 /\ incoming = command
      /\ AllEnd(Stream) /\ Unanswered
  <2>1. ~Idle /\ step \notin {"command", "data"}
    BY <1>0, <1>1 DEF StreamInv, IncomingKept
  <2>2. step \in {"header", "payload"}
    BY <1>0, <2>1 DEF StreamTypes, Idle
  <2>3. incoming = command /\ ~Accepted
    BY <1>0, <2>2 DEF StreamInv, IncomingKept
  <2>4. step # "payload"
    BY <1>1, <2>3 DEF CutKept, Accepted
  <2>5. step = "header" /\ payload = -1
    BY <2>2, <2>3, <2>4 DEF Accepted
  <2>6. Unanswered /\ AllEnd(Stream)
    BY <1>0, <1>1 DEF Unanswered, CutKept
  <2>. QED  BY <2>1, <2>3, <2>5, <2>6
<1>4. buffer = <<>> /\ Stream = pipe
  <2>1. ASSUME buffer # <<>> PROVE FALSE
    <3>1. buffer \in Seq(UnitRecord) /\ 1 \in 1..Len(buffer)
      BY <1>0, <2>1 DEF StreamTypes
    <3>2. Stream[1] = buffer[1] /\ 1 \in 1..Len(Stream) /\ buffer[1] \in UnitRecord
      BY <1>0, <3>1, StreamIs
    <3>. QED  BY <1>3, <3>2, EndIsNoUnit DEF AllEnd
  <2>. QED  BY <1>0, <2>1, StreamIs
<1>5. PICK kind \in {"ok", "error", "already"} :
         /\ \E a \in Answers(kind) : pipe' = pipe \o a
         /\ kind = "ok" => Executes(TRUE)
         /\ kind # "ok" => session' = session
         /\ kind = "already" => Opens /\ session # "none"
         /\ kind = "error" => MayRefuse
  BY <1>0, PromptAnswer
<1>6. PICK a \in Answers(kind) : pipe' = pipe \o a
  BY <1>5
<1>7. Whole(a) /\ AnswerTo(a, incoming.serial, incoming.id,
                           IF kind = "ok" THEN {"data", "ok"} ELSE {kind})
  <2>1. command.serial \in Nat /\ command.id \in Nat
    BY BoundsAssumption DEF StreamInv, ClockInv, CommandRecord
  <2>. QED  BY <1>3, <2>1, AnswersWhole, AnswersAbout
<1>8. /\ Stream' = pipe \o a /\ AllEnd(pipe) /\ Shape(pipe)
      /\ NoData(pipe) /\ NoResponse(pipe)
  <2>1. Stream' = pipe'
    <3>1. StreamTypes' /\ buffer' = <<>>
      BY <1>2, <1>4
    <3>2. pipe' \in Seq(UnitRecord \cup {End}) /\ Stream' = <<>> \o pipe'
      BY <3>1 DEF StreamTypes, Stream
    <3>. QED  BY <3>2, ConcatEmptySeq
  <2>2. Shape(pipe) /\ AllEnd(pipe)
    BY <1>1, <1>3, <1>4 DEF CutKept
  <2>. QED  BY <1>6, <2>1, <2>2, Kinds3 DEF AllEnd, NoData, NoResponse
<1>9. Shape(pipe \o a)
  BY <1>7, <1>8, JoinShape DEF Whole
<1>10. /\ Len(pipe) \in Nat /\ Len(a) \in Nat /\ Len(pipe \o a) = Len(pipe) + Len(a)
       /\ \A k \in 1..(Len(pipe) + Len(a)) :
             (pipe \o a)[k] = IF k <= Len(pipe) THEN pipe[k] ELSE a[k - Len(pipe)]
       /\ 1 \in 1..Len(a) /\ a[1] # End /\ ~IsByte(a[1]) /\ a \in Seq(UnitRecord \cup {End})
  <2>1. a \in Seq(UnitRecord \cup {End}) /\ pipe \in Seq(UnitRecord \cup {End})
    BY <1>7, <1>8 DEF Whole, Shape
  <2>2. Len(pipe) \in Nat /\ Len(a) \in Nat /\ a # <<>> /\ 1 \in 1..Len(a)
    BY <1>7, <2>1 DEF Whole
  <2>. QED  BY <1>7, <2>1, <2>2, ConcatProperties DEF Whole
<1>11. \A k \in 1..Len(pipe \o a) :
          \/ (pipe \o a)[k] = End
          \/ \E j \in 1..Len(a) : (pipe \o a)[k] = a[j]
  <2>. TAKE k \in 1..Len(pipe \o a)
  <2>1. CASE k <= Len(pipe)
    <3>1. k \in 1..Len(pipe) /\ (pipe \o a)[k] = pipe[k]
      BY <1>10, <2>1
    <3>. QED  BY <1>8, <3>1 DEF AllEnd
  <2>2. CASE ~(k <= Len(pipe))
    <3>1. k - Len(pipe) \in 1..Len(a) /\ (pipe \o a)[k] = a[k - Len(pipe)]
      BY <1>10, <2>2
    <3>. QED  BY <3>1
  <2>. QED  BY <2>1, <2>2
<1>12. (pipe \o a)[1] = IF pipe = <<>> THEN a[1] ELSE pipe[1]
  <2>1. 1 \in 1..(Len(pipe) + Len(a)) /\ (1 <= Len(pipe) <=> pipe # <<>>)
        /\ (pipe = <<>> => 1 - Len(pipe) = 1)
    BY <1>8, <1>10 DEF Shape
  <2>. QED  BY <1>10, <2>1
<1>13. ~IsByte((pipe \o a)[1])
  <2>1. pipe # <<>> => pipe[1] = End
    BY <1>8, <1>10 DEF AllEnd, Shape
  <2>. QED  BY <1>10, <1>12, <2>1, Kinds3
<1>14. (pipe # <<>> /\ pipe[1] = End => filled)'
  BY <1>1, <1>2, <1>6, <1>10, <1>12 DEF CutKept
\* What the camera says of the session.
<1>15. /\ stage \notin {"new", "over"}
       /\ stage \in {"opening", "reopening"} => Opens /\ incoming.id = 0
       /\ stage \in {"clearing", "closing"} => incoming.kind = "close"
       /\ stage = "ready" => incoming.kind \in {"read", "write"}
       /\ stage = "reopening" => session = "none"
  BY <1>1, <1>3 DEF StageKept, Opens
<1>16. kind = "error" => stage = "ready"
  BY <1>1, <1>5, <1>15 DEF MayRefuse, Opens, Stages
<1>17. kind = "already" => stage = "opening"
  BY <1>1, <1>5, <1>15 DEF Opens, Stages
<1>18. kind = "ok" /\ stage \in {"clearing", "closing"} => session' = "none"
  BY <1>5, <1>15 DEF Executes
<1>19. ASSUME NEW k \in 1..Len(pipe \o a), NEW u, u = (pipe \o a)[k], IsData(u) \/ IsResponse(u)
       PROVE  /\ u.id = command.id
              /\ u.unit = "error" => stage = "ready"
              /\ u.unit = "already" => stage = "opening"
              /\ u.unit = "ok" /\ stage \in {"clearing", "closing"} => session' = "none"
  <2>1. PICK j \in 1..Len(a) : u = a[j]
    BY <1>11, <1>19, Kinds3
  <2>2. u \in UnitsOf(a) /\ IsHeader(u)
    BY <1>19, <2>1, Kinds3 DEF UnitsOf, IsHeader, IsData, IsResponse
  <2>3. u.id = command.id /\ u.unit \in (IF kind = "ok" THEN {"data", "ok"} ELSE {kind})
    BY <1>3, <1>7, <2>2 DEF AnswerTo
  <2>4. /\ u.unit = "error" => kind = "error"
        /\ u.unit = "already" => kind = "already"
        /\ u.unit = "ok" => kind = "ok"
    BY <2>3
  <2>. QED  BY <1>16, <1>17, <1>18, <2>3, <2>4
<1>20. ~Idle' /\ ~Unanswered'
  BY <1>0, <1>2, <1>3 DEF Idle, Unanswered
<1>21. (step = "header" => left = 1)'
  BY <1>1, <1>2 DEF CutKept
<1>22. (\A k \in 1..Len(Stream) : IsData(Stream[k]) \/ IsResponse(Stream[k]) =>
           Stream[k].id = command.id /\ Fits(Stream[k]))'
  BY <1>2, <1>8, <1>19 DEF Fits
<1>23. CutKept'
  BY <1>2, <1>3, <1>8, <1>9, <1>13, <1>14, <1>20, <1>21, <1>22 DEF CutKept
<1>24. StageKept'
  BY <1>1, <1>2, <1>3, <1>20 DEF StageKept
<1>. QED  BY <1>1, <1>2, <1>23, <1>24 DEF PromptInv

LEMMA PromptNext == StreamInv /\ StreamInv' /\ PromptInv /\ [Next]_vars => PromptInv'
<1>. SUFFICES ASSUME StreamInv, StreamInv', PromptInv, [Next]_vars PROVE PromptInv'
  OBVIOUS
<1>0. StreamTypes /\ StreamTypes'
  BY DEF StreamInv
<1>1. fault \in BOOLEAN /\ fault' \in BOOLEAN
  <2>1. fault \in BOOLEAN
    BY DEF PromptInv
  <2>2. fault' = fault \/ fault' = TRUE \/ (\E k \in 1..LastCapacity : ReadCut(k))
          \/ CameraAnswers
    <3>1. CASE Transact \/ WriteError \/ ReadError
      <4>1. CASE Write \/ WaitToWrite \/ WriteExpires \/ WriteError
        BY <4>1 DEF Write, WriteSome, WaitToWrite, WriteExpires, WriteEnds, WriteError
      <4>2. CASE Read
        BY <4>2 DEF Read, ReadCompletes, ReadTruncated
      <4>3. CASE WaitToRead \/ ReadExpires \/ ReadError
        BY <4>3 DEF WaitToRead, ReadExpires, ReadError
      <4>4. CASE TakeHeader \/ TakePayload \/ Judge
        BY <4>4 DEF TakeHeader, TakePayload, Judge
      <4>. QED  BY <3>1, <4>1, <4>2, <4>3, <4>4 DEF Transact
    <3>2. CASE \/ OpenSession \/ ClearStaleSession \/ ReopenSession \/ SessionOpened
               \/ \E kind \in {"read", "write"} : Call(kind)
               \/ CloseSession \/ SessionClosed
      BY <3>2 DEF OpenSession, ClearStaleSession, ReopenSession, SessionOpened, Call,
                  CloseSession, SessionClosed, Begin
    <3>3. CASE UNCHANGED vars
      BY <3>3 DEF vars
    <3>. QED  BY <3>1, <3>2, <3>3 DEF Next
  <2>3. ASSUME NEW k, ReadCut(k) PROVE fault' \in BOOLEAN
    <3>1. fault' = (fault \/ (k * Packet = Arrived /\ TransferEnded))
      BY <2>3 DEF ReadCut
    <3>2. (fault \/ (k * Packet = Arrived /\ TransferEnded)) \in BOOLEAN
      OBVIOUS
    <3>. QED  BY <3>1, <3>2
  <2>4. CASE CameraAnswers
    BY <2>1, <2>4, CameraFault
  <2>. QED  BY <2>1, <2>2, <2>3, <2>4
<1>2. CASE fault'
  BY <1>1, <1>2 DEF PromptInv
<1>3. CASE ~fault'
  <2>1. CASE UNCHANGED vars
    <3>1. UNCHANGED <<hostVars, cameraVars, fault>>
      BY <2>1 DEF vars
    <3>2. UNCHANGED <<step, stage, command, payload, container, left, incoming,
                      session, verdict, transactionId, poisoned>>
          /\ UNCHANGED <<buffer, pipe, filled, fault>>
      BY <3>1 DEF hostVars, cameraVars
    <3>3. Stream' = Stream /\ ~fault /\ filled \in BOOLEAN /\ CutKept
      BY <1>3, <3>2 DEF Stream, PromptInv
    <3>. QED  BY <1>1, <3>2, <3>3, PromptSame DEF CutKept
  <2>. QED  BY <1>0, <1>3, <2>1, PromptHost, PromptSession, PromptCamera DEF Next
<1>. QED  BY <1>1, <1>2, <1>3

LEMMA PromptInit == Init => PromptInv
<1>. SUFFICES ASSUME Init PROVE PromptInv
  OBVIOUS
<1>1. /\ buffer = <<>> /\ pipe = <<>> /\ filled = FALSE /\ fault = FALSE
      /\ poisoned = FALSE /\ stage = "new" /\ step = "idle" /\ verdict = "none"
      /\ session \in {"none", "stale"} /\ incoming = NoCommand
  BY DEF Init
<1>2. Stream = <<>>
  <2>1. <<>> \in Seq(UnitRecord \cup {End})
    OBVIOUS
  <2>. QED  BY <1>1, <2>1, ConcatEmptySeq DEF Stream
<1>3. Shape(<<>>) /\ AllEnd(<<>>)
  BY DEF Shape, AllEnd
<1>4. Idle
  BY <1>1 DEF Idle
<1>5. CutKept
  BY <1>1, <1>2, <1>3, <1>4 DEF CutKept
<1>6. StageKept
  BY <1>1, <1>4 DEF StageKept
<1>. QED  BY <1>1, <1>5, <1>6 DEF PromptInv, Stages

THEOREM PromptInvariance == Spec => []PromptInv
<1>1. Init => PromptInv
  BY PromptInit
<1>2. StreamInv /\ StreamInv' /\ PromptInv /\ [Next]_vars => PromptInv'
  BY PromptNext
<1>. QED  BY <1>1, <1>2, StreamInvariance, PTL DEF Spec

\* A camera that answers in time, however its answers are cut into transfers,
\* packets and bulk reads, never poisons the session or costs a transaction,
\* and recovery from a stale session succeeds (BulkReadState::read_exact,
\* send_with_transport_and_deadline, open_session).
THEOREM PromptCameraIsServed == Spec => []PromptCameraKeepsSession
<1>1. PromptInv => PromptCameraKeepsSession
  BY DEF PromptInv, StageKept, PromptCameraKeepsSession
<1>. QED  BY <1>1, PromptInvariance, PTL

\* After Camera::close or its drop the camera is without our session, unless
\* the ids were used up (ensure_session_safe_to_close).
THEOREM SessionIsGivenBack == Spec => []SessionGivenBack
<1>1. StreamInv /\ PromptInv => SessionGivenBack
  BY DEF PromptInv, StageKept, SessionGivenBack, StreamInv, IdsKept
<1>. QED  BY <1>1, StreamInvariance, PromptInvariance, PTL
=============================================================================
