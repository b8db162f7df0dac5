---------------------------- MODULE PtpTransport ----------------------------
(***************************************************************************)
(* One PTP session over two USB bulk pipes (struct Ptp): commands with     *)
(* increasing transaction ids, containers cut into bulk reads and closed   *)
(* by short or zero-length packets, idle and hard deadlines, and a session *)
(* that is poisoned as soon as the pipes may be out of step.               *)
(*                                                                         *)
(* Lengths are counted in units: a container header is one unit, a packet  *)
(* Packet units, the read buffer a multiple of that.  Time is counted from *)
(* the start of the transaction.                                           *)
(***************************************************************************)
EXTENDS Integers, Sequences

CONSTANTS
    Packet,         \* units in a full packet of the bulk IN endpoint
    FirstCapacity,  \* read buffer at the start (read.initial_bytes)
    LastCapacity,   \* its greatest size (read.ceiling_bytes)
    Tiers,          \* sizes in between, whole packets (TIERS, align_down)
    Promotions,     \* full reads before a promotion (PROMOTION_SUCCESSES)
    PayloadLengths, \* what a data container carries
    MaxPayload,     \* the longest payload the host accepts
    DataLength,     \* payload of a data container the host sends
    MaxId,          \* the transaction id that is never used (u32::MAX)
    BulkTimeout,    \* the longest one bulk call waits
    IdleTimeout,    \* how long a phase waits without progress
    HardTimeout,    \* how long a transaction may take
    DropTimeout,    \* the same for the close in Camera::drop
    MaxCommands     \* bound: commands of one process

Capacities == {FirstCapacity, LastCapacity} \cup Tiers

ASSUME GeometryAssumption ==
    /\ Packet \in Nat \ {0}
    /\ \A size \in Capacities :
          size \in Nat \ {0} /\ size % Packet = 0
    /\ FirstCapacity <= LastCapacity
    /\ MaxPayload \in Nat \ {0} /\ PayloadLengths \subseteq 0..MaxPayload
    /\ DataLength \in Nat /\ Promotions \in Nat \ {0}
ASSUME TimeAssumption ==
    {BulkTimeout, IdleTimeout, HardTimeout, DropTimeout} \subseteq Nat \ {0}
ASSUME BoundsAssumption == MaxId \in Nat \ {0, 1} /\ MaxCommands \in Nat

VARIABLES
    transactionId,  \* Ptp.transaction_id
    poisoned,       \* Ptp.poisoned
    capacity,       \* Ptp.chunk_policy.read.effective_bytes
    successes,      \* ChunkPolicy.read_successes
    buffer,         \* BulkReadState: bytes read and not yet consumed
    filled,         \* BulkReadState.previous_read_filled_buffer
    stage,          \* how far the session is opened or closed
    step,           \* where the host is inside one transaction
    command,        \* the transaction: kind, serial number, id, hard deadline
    dispatched,     \* command_dispatched_or_ambiguous
    left,           \* units of the current container still to write or read
    payload,        \* the data received, in units; -1 before a data container
    container,      \* the header just read
    now,            \* the clock
    expires,        \* Deadline.expires_at of the current phase
    verdict,        \* what the last transaction returned
    sources,        \* history: whose answers the transaction consumed
    pipe,           \* what the camera sent and the host has not read
    incoming,       \* the command the camera has received
    session,        \* the camera's session: none, stale (another host), ours
    acted,          \* history: the camera executed the current command
    fault           \* history: the camera or the bus misbehaved

hostVars == <<transactionId, poisoned, capacity, successes, buffer, filled,
              stage, step, command, dispatched, left, payload, container,
              now, expires, verdict, sources>>
cameraVars == <<pipe, incoming, session, acted>>
vars == <<hostVars, cameraVars, fault>>

Kinds == {"open", "close", "read", "write"}
NoCommand == [kind |-> "none", serial |-> 0, id |-> 0, hard |-> 0]
Commands == [kind : Kinds, serial : 1..MaxCommands, id : 0..(MaxId - 1),
             hard : {HardTimeout, DropTimeout}]

\* What travels on the bulk IN pipe: container headers, payload, and the
\* end of a transfer (a short or a zero-length packet).
Header(kind, id, length, about) ==
    [unit |-> kind, id |-> id, length |-> length, about |-> about]
Byte(about) == [unit |-> "byte", id |-> 0, length |-> 0, about |-> about]
End == [unit |-> "end", id |-> 0, length |-> 0, about |-> 0]
NoHeader == Header("none", 0, 0, 0)
Units == [unit : {"data", "ok", "error", "already", "other", "byte"},
          id : 0..MaxId, length : 0..(MaxPayload + 1), about : 1..MaxCommands]

Stages == {"new", "opening", "clearing", "reopening", "ready", "closing", "over"}
Verdicts == {"none", "ok", "rejected", "already", "unsent", "refused", "lost"}

TypeOK ==
    /\ transactionId \in 0..MaxId
    /\ poisoned \in BOOLEAN
    /\ capacity \in Capacities
    /\ successes \in 0..(Promotions - 1)
    /\ buffer \in Seq(Units) /\ Len(buffer) <= capacity
    /\ filled \in BOOLEAN
    /\ stage \in Stages
    /\ step \in {"idle", "command", "data", "header", "payload"}
    /\ command \in Commands \cup {NoCommand}
    /\ dispatched \in BOOLEAN
    /\ left \in 0..(MaxPayload + DataLength + 1)
    /\ payload \in -1..MaxPayload
    /\ container \in Units \cup {NoHeader}
    /\ now \in Nat /\ expires \in 0..HardTimeout
    /\ verdict \in Verdicts
    /\ sources \subseteq 1..MaxCommands
    /\ pipe \in Seq(Units \cup {End})
    /\ incoming \in Commands \cup {NoCommand}
    /\ session \in {"none", "stale", "ours"}
    /\ acted \in BOOLEAN /\ fault \in BOOLEAN

Init ==
    /\ transactionId = 0 /\ poisoned = FALSE
    /\ capacity = FirstCapacity /\ successes = 0
    /\ buffer = <<>> /\ filled = FALSE
    /\ stage = "new" /\ step = "idle" /\ command = NoCommand
    /\ dispatched = FALSE /\ left = 0 /\ payload = -1 /\ container = NoHeader
    /\ now = 0 /\ expires = 0 /\ verdict = "none" /\ sources = {}
    /\ pipe = <<>> /\ incoming = NoCommand
    /\ session \in {"none", "stale"}
    /\ acted = FALSE /\ fault = FALSE

-----------------------------------------------------------------------------
(* Deadlines.                                                              *)

Least(a, b) == IF a < b THEN a ELSE b

\* Mutant: progress extends the idle deadline beyond the hard one.
ProgressUncapped(t) == t + IdleTimeout

\* Deadline::phase and record_progress.
Progress(t) == Least(t + IdleTimeout, command.hard)

\* Mutant: the loops never look at the deadline.
IoAlwaysStarts == TRUE

\* Deadline::io_timeout: Ok if a bulk call may start, and for how long.
IoMayStart == now < command.hard /\ now < expires
IoTimeout == Least(BulkTimeout, expires - now)

-----------------------------------------------------------------------------
(* A transaction begins and ends.                                          *)

\* Mutant: the exhausted id is used.
UsableAlways(id) == ~poisoned

\* The two refusals of send_with_transport_and_deadline.
Usable(id) == ~poisoned /\ id # MaxId

\* is_healthy.
Healthy == Usable(transactionId)

\* Begin a transaction of this kind with transaction id `id`.
Begin(kind, id, hard) ==
    /\ step = "idle" /\ command.serial < MaxCommands
    /\ transactionId' = id
    /\ acted' = FALSE
    /\ sources' = {}
    /\ payload' = -1
    /\ \/ /\ Usable(id)
          /\ command' = [kind |-> kind, serial |-> command.serial + 1,
                         id |-> id, hard |-> hard]
          /\ step' = "command"
          /\ dispatched' = FALSE
          /\ left' = 1
          /\ expires' = Least(IdleTimeout, hard)
          /\ UNCHANGED verdict
       \/ /\ ~Usable(id)
          /\ verdict' = "refused"
          /\ command' = [command EXCEPT !.serial = @ + 1]
          /\ UNCHANGED <<step, dispatched, left, expires>>
    /\ now' = 0
    /\ UNCHANGED <<poisoned, capacity, successes, buffer, filled, container,
                   pipe, incoming, session, fault>>

\* The transaction returns v; now and the phase are of no further use.
Return(v) ==
    /\ step' = "idle"
    /\ verdict' = v
    /\ now' = 0 /\ expires' = 0 /\ left' = 0
    /\ container' = NoHeader
    /\ UNCHANGED <<stage, command>>

-----------------------------------------------------------------------------
(* write_all_bulk: the command container, then the data container.         *)

Writing == step \in {"command", "data"}

\* The last container of the command; with it the camera has the whole of it.
LastContainer == step = "data" \/ command.kind # "write"

\* The id is used up as soon as any of the command may have been sent.
IdAfter(sent) == IF sent THEN command.id + 1 ELSE transactionId

\* A bulk write moves n units; then the next container, or the answer.
WriteSome(n, d) ==
    /\ Writing /\ IoMayStart
    /\ n \in 1..left /\ d \in 0..IoTimeout
    /\ now' = now + d
    /\ dispatched' = TRUE
    /\ expires' = Progress(now + d)
    /\ \/ /\ n < left
          /\ left' = left - n
          /\ UNCHANGED <<step, transactionId, incoming>>
       \/ /\ n = left
          /\ transactionId' = IdAfter(TRUE)
          /\ IF LastContainer
             THEN step' = "header" /\ left' = 1 /\ incoming' = command
             ELSE step' = "data" /\ left' = 1 + DataLength /\ UNCHANGED incoming
    /\ UNCHANGED <<poisoned, capacity, successes, buffer, filled, stage, command,
                   payload, container, verdict, sources, pipe, session, acted,
                   fault>>

\* No unit moved in time: the same units are tried again.
WaitToWrite ==
    /\ Writing /\ IoMayStart
    /\ now' = now + IoTimeout
    /\ UNCHANGED <<transactionId, poisoned, capacity, successes, buffer, filled,
                   stage, step, command, dispatched, left, payload, container,
                   expires, verdict, sources, cameraVars, fault>>

\* Mutant: a failed data write does not poison the session.
LostWriteForgiving(sent) == step = "command" /\ sent

\* What a write failure means: the command may be on its way, or the camera
\* waits for data that will never come.
LostWrite(sent) == step = "data" \/ sent

WriteEnds(sent) ==
    /\ dispatched' = sent
    /\ transactionId' = IdAfter(sent)
    /\ poisoned' = (poisoned \/ LostWrite(sent))
    /\ Return(IF LostWrite(sent) THEN "lost" ELSE "unsent")
    /\ fault' = TRUE
    /\ UNCHANGED <<capacity, successes, buffer, filled, payload, sources, pipe,
                   session, acted>>

\* An I/O error is ambiguous: the units may have arrived.  A write of zero
\* units is an error too, after whatever was sent before.
WriteError ==
    /\ Writing /\ IoMayStart
    /\ \/ WriteEnds(TRUE) /\ UNCHANGED incoming
       \/ WriteEnds(TRUE) /\ LastContainer /\ incoming' = command
       \/ WriteEnds(dispatched) /\ UNCHANGED incoming

WriteExpires == Writing /\ ~IoMayStart /\ WriteEnds(dispatched) /\ UNCHANGED incoming

-----------------------------------------------------------------------------
(* BulkReadState::read_exact: bulk reads fill the buffer, and containers   *)
(* are taken from it.                                                      *)

Reading == step \in {"header", "payload"} /\ left > 0

\* What is left of q after its first n units.
After(q, n) == SubSeq(q, n + 1, Len(q))

\* The units of the current transfer that wait in the pipe.
Arrived ==
    LET ends == {k \in 1..Len(pipe) : pipe[k] = End}
    IN  IF ends = {} THEN Len(pipe) ELSE (CHOOSE k \in ends : \A j \in ends : k <= j) - 1

TransferEnded == Arrived < Len(pipe)

\* A read returns n units; an empty one is a zero-length packet, which only
\* closes a transfer that has filled the buffer.
ReadReturns(n, d, rest) ==
    /\ now' = now + d
    /\ pipe' = rest
    /\ \/ /\ n > 0
          /\ buffer' = SubSeq(pipe, 1, n)
          /\ filled' = (n = capacity)
          /\ expires' = Progress(now + d)
          /\ UNCHANGED <<poisoned, stage, step, command, left, container, verdict>>
       \/ /\ n = 0 /\ filled
          /\ filled' = FALSE
          /\ expires' = Progress(now + d)
          /\ UNCHANGED <<poisoned, stage, step, command, left, container,
                         verdict, buffer>>

\* The buffer is empty and one more bulk read may start.
ReadStarts == Reading /\ buffer = <<>> /\ IoMayStart

readFrame == <<transactionId, capacity, successes, dispatched, payload,
               sources, incoming, session, acted>>

\* The read is complete: the buffer is full, or the transfer ended in it.
ReadCompletes(d) ==
    /\ ReadStarts /\ d \in 0..IoTimeout
    /\ \/ Arrived >= capacity /\ ReadReturns(capacity, d, After(pipe, capacity))
       \/ /\ Arrived < capacity /\ TransferEnded
          /\ ReadReturns(Arrived, d, After(pipe, Arrived + 1))
    /\ UNCHANGED <<readFrame, fault>>

\* The time of this read is up after some full packets: rusb returns them.
\* What is left of the transfer may be just its zero-length packet.
ReadCut(k) ==
    /\ ReadStarts
    /\ k * Packet \in 1..Least(Arrived, capacity - 1)
    /\ ReadReturns(k * Packet, IoTimeout, After(pipe, k * Packet))
    /\ fault' = (fault \/ (k * Packet = Arrived /\ TransferEnded))
    /\ UNCHANGED readFrame

\* Nothing arrived in time: the read is tried again.
WaitToRead ==
    /\ ReadStarts
    /\ now' = now + IoTimeout
    /\ UNCHANGED <<transactionId, poisoned, capacity, successes, buffer, filled,
                   stage, step, command, dispatched, left, payload, container,
                   expires, verdict, sources, cameraVars, fault>>

\* The response phase fails otherwise than by a framed error response.
Fail == poisoned' = TRUE /\ Return("lost")

\* A transfer ended before the container did.
ReadTruncated ==
    /\ ReadStarts
    /\ Arrived = 0 /\ TransferEnded /\ ~filled
    /\ pipe' = Tail(pipe)
    /\ Fail
    /\ UNCHANGED <<readFrame, buffer, filled, fault>>

ReadError ==
    /\ ReadStarts
    /\ Fail /\ fault' = TRUE
    /\ UNCHANGED <<readFrame, buffer, filled, pipe>>

ReadExpires ==
    /\ Reading /\ buffer = <<>> /\ ~IoMayStart
    /\ Fail /\ fault' = TRUE
    /\ UNCHANGED <<readFrame, buffer, filled, pipe>>

\* read_container: the header says how much payload follows, and the idle
\* deadline starts anew for it.
TakeHeader ==
    /\ step = "header" /\ left = 1 /\ buffer # <<>>
    /\ buffer' = Tail(buffer)
    /\ sources' = sources \cup {Head(buffer).about}
    /\ IF Head(buffer).unit = "byte" \/ Head(buffer).length > MaxPayload
       THEN Fail
       ELSE /\ container' = Head(buffer)
            /\ step' = "payload"
            /\ left' = Head(buffer).length
            /\ expires' = Progress(now)
            /\ UNCHANGED <<poisoned, stage, command, now, verdict>>
    /\ UNCHANGED <<transactionId, capacity, successes, filled, dispatched,
                   payload, cameraVars, fault>>

TakePayload ==
    /\ step = "payload" /\ left > 0 /\ buffer # <<>>
    /\ LET n == Least(left, Len(buffer)) IN
          /\ buffer' = After(buffer, n)
          /\ left' = left - n
          /\ sources' = sources \cup {buffer[k].about : k \in 1..n}
    /\ UNCHANGED <<transactionId, poisoned, capacity, successes, filled, stage,
                   step, command, dispatched, payload, container, now, expires,
                   verdict, cameraVars, fault>>

-----------------------------------------------------------------------------
(* The container is complete: send_with_transport_and_deadline judges it.  *)

\* Mutant: whatever response comes is the answer to this command.
OwnAny(c) == TRUE

\* The container carries the id of this transaction.
Own(c) == c.id = command.id

\* Mutant: the larger buffer forgets that the last read filled the old one.
FilledForgotten == FALSE

\* What BulkReadState::resized keeps of the last read.
FilledKept == filled

\* next_read_chunk: the next greater tier, or the ceiling.
NextChunk ==
    LET greater == {size \in Tiers \cup {LastCapacity} : size > capacity} IN
    {size \in greater : \A other \in greater : size <= other}

\* observe_read_success: enough full reads promote the buffer, if their pace
\* leaves time to fill it and it can be allocated.
Observe ==
    \/ /\ command.kind = "read" /\ payload >= capacity /\ capacity < LastCapacity
       /\ IF successes + 1 < Promotions
          THEN successes' = successes + 1 /\ UNCHANGED <<capacity, filled>>
          ELSE /\ successes' = 0
               /\ \/ capacity' \in NextChunk /\ filled' = FilledKept
                  \/ UNCHANGED <<capacity, filled>>
    \/ /\ ~(command.kind = "read" /\ payload >= capacity /\ capacity < LastCapacity)
       /\ UNCHANGED <<successes, capacity, filled>>

Judge ==
    /\ step = "payload" /\ left = 0
    /\ \/ /\ \/ ~Own(container)
             \/ container.unit # "data" /\ buffer # <<>>
             \/ container.unit = "data" /\ payload >= 0
             \/ container.unit = "other"
          /\ Fail
          /\ UNCHANGED <<payload, successes, capacity, filled>>
       \/ /\ Own(container) /\ container.unit = "data" /\ payload < 0
          /\ payload' = container.length
          /\ step' = "header" /\ left' = 1
          /\ expires' = Progress(now)
          /\ container' = NoHeader
          /\ UNCHANGED <<poisoned, stage, command, now, verdict, successes,
                         capacity, filled>>
       \/ /\ Own(container) /\ container.unit = "ok" /\ buffer = <<>>
          /\ Return("ok")
          /\ Observe
          /\ UNCHANGED <<poisoned, payload>>
       \/ /\ Own(container) /\ container.unit \in {"error", "already"} /\ buffer = <<>>
          /\ Return(IF container.unit = "already" THEN "already" ELSE "rejected")
          /\ UNCHANGED <<poisoned, payload, successes, capacity, filled>>
    /\ UNCHANGED <<transactionId, buffer, dispatched, sources, cameraVars, fault>>

-----------------------------------------------------------------------------
(* The session: open with recovery from a stale one, calls, close.         *)

Idle == step = "idle"

\* OpenSession carries transaction id 0.
OpenSession ==
    /\ stage = "new" /\ stage' = "opening"
    /\ Begin("open", 0, HardTimeout)

\* Another host left a session open: close it and retry once.
ClearStaleSession ==
    /\ Idle /\ stage = "opening" /\ verdict = "already"
    /\ stage' = "clearing"
    /\ Begin("close", transactionId, HardTimeout)

ReopenSession ==
    /\ Idle /\ stage = "clearing" /\ verdict = "ok"
    /\ stage' = "reopening"
    /\ Begin("open", 0, HardTimeout)

\* open_with gets its permit, or the transport is dropped without a close.
SessionOpened ==
    /\ Idle
    /\ \/ stage \in {"opening", "reopening"} /\ verdict = "ok" /\ stage' = "ready"
       \/ /\ \/ stage = "opening" /\ verdict \notin {"ok", "already"}
             \/ stage \in {"clearing", "reopening"} /\ verdict # "ok"
          /\ stage' = "over"
    /\ UNCHANGED <<transactionId, poisoned, capacity, successes, buffer, filled,
                   step, command, dispatched, left, payload, container, now,
                   expires, verdict, sources, cameraVars, fault>>

Call(kind) ==
    /\ stage = "ready"
    /\ Begin(kind, transactionId, HardTimeout)
    /\ UNCHANGED stage

\* Mutant: a camera that answered with an error is left without a close.
SafeToCloseAfterOk == Healthy /\ verdict = "ok"

\* ensure_session_safe_to_close, best_effort_close_session.
SafeToClose == Healthy

\* Camera::close, or the drop of a camera that was not closed.
CloseSession ==
    /\ Idle /\ stage = "ready"
    /\ \/ /\ SafeToClose
          /\ stage' = "closing"
          /\ \E hard \in {HardTimeout, DropTimeout} :
                Begin("close", transactionId, hard)
       \/ /\ ~SafeToClose
          /\ stage' = "over"
          /\ UNCHANGED <<transactionId, poisoned, capacity, successes, buffer,
                         filled, step, command, dispatched, left, payload,
                         container, now, expires, verdict, sources, cameraVars,
                         fault>>

\* Whatever the close returned, the permit is gone and so is the transport.
SessionClosed ==
    /\ Idle /\ stage = "closing"
    /\ stage' = "over"
    /\ UNCHANGED <<transactionId, poisoned, capacity, successes, buffer, filled,
                   step, command, dispatched, left, payload, container, now,
                   expires, verdict, sources, cameraVars, fault>>

-----------------------------------------------------------------------------
(* The camera.                                                             *)

Container(kind, id, length, about) ==
    <<Header(kind, id, length, about)>> \o [k \in 1..length |-> Byte(about)]

\* The units as one transfer.  One that ends on a packet boundary may or may
\* not be closed by a zero-length packet.
Transfers(units) ==
    {Append(units, End)} \cup (IF Len(units) % Packet = 0 THEN {units} ELSE {})

\* Several containers, in one transfer or each in its own.
Sent(first, second) ==
    Transfers(first \o second)
        \cup {a \o b : a \in Transfers(first), b \in Transfers(second)}

Data(length) == Container("data", incoming.id, length, incoming.serial)
Response(kind, length) == Container(kind, incoming.id, length, incoming.serial)

\* A response may carry a parameter.
Responses(kind) == {Response(kind, 0), Response(kind, 1)}

Answers(kind) ==
    IF incoming.kind = "read" /\ kind = "ok"
    THEN UNION {Sent(Data(n), r) : n \in PayloadLengths, r \in Responses("ok")}
    ELSE UNION {Transfers(r) : r \in Responses(kind)}

\* Answers no camera should give: none, a second data container or response,
\* no response, a transfer cut short, bytes after the response, an id or a
\* container that does not belong here, a length out of bounds.
BrokenAnswers ==
    LET r == Response("ok", 0)
        s == incoming.serial
        d == Data(1)
    IN  {<<>>, r \o <<End>> \o r \o <<End>>, r \o <<Byte(s), End>>,
         Container("ok", incoming.id + 1, 0, s) \o <<End>>,
         Container("other", incoming.id, 0, s) \o <<End>>,
         Container("data", incoming.id, MaxPayload + 1, s) \o <<End>>,
         d \o <<End>>, d \o <<End>> \o d \o <<End>> \o r \o <<End>>,
         Data(2) \o r \o <<Byte(s), End>>,
         <<Head(Data(2)), End>> \o r \o <<End>>}

Executes(done) ==
    /\ acted' = (acted \/ (done /\ incoming.serial = command.serial))
    /\ session' = IF done
                  THEN CASE incoming.kind = "open" -> "ours"
                         [] incoming.kind = "close" -> "none"
                         [] OTHER -> session
                  ELSE session

Opens == incoming.kind = "open"
MayExecute == ~Opens \/ (session = "none" /\ incoming.id = 0)

\* A property or an object may be refused at any time, a session only for a
\* wrong id.
MayRefuse == IF Opens THEN incoming.id # 0 ELSE incoming.kind # "close"

\* The camera executes the command and says so, or refuses it and says so,
\* or answers as it should not.
CameraAnswers ==
    /\ incoming # NoCommand
    /\ incoming' = NoCommand
    /\ \/ /\ MayExecute
          /\ \E a \in Answers("ok") : pipe' = pipe \o a
          /\ Executes(TRUE)
          /\ UNCHANGED fault
       \/ /\ Opens /\ session # "none" /\ incoming.id = 0
          /\ \E a \in Answers("already") : pipe' = pipe \o a
          /\ Executes(FALSE)
          /\ UNCHANGED fault
       \/ /\ MayRefuse \/ ~fault
          /\ \E a \in Answers("error") : pipe' = pipe \o a
          /\ Executes(FALSE)
          /\ fault' = (fault \/ ~MayRefuse)
       \/ /\ MayExecute
          /\ ~fault /\ fault' = TRUE
          /\ \E a \in BrokenAnswers : pipe' = pipe \o a
          /\ Executes(TRUE)
    /\ UNCHANGED hostVars

-----------------------------------------------------------------------------
Write == \E n \in 1..(DataLength + 1), d \in 0..BulkTimeout : WriteSome(n, d)
Read ==
    \/ \E d \in 0..BulkTimeout : ReadCompletes(d)
    \/ \E k \in 1..LastCapacity : ReadCut(k)
    \/ ReadTruncated

\* The host is at work inside a transaction.  Every bulk call returns.
Transact ==
    \/ Write \/ WaitToWrite \/ WriteExpires
    \/ Read \/ WaitToRead \/ ReadExpires
    \/ TakeHeader \/ TakePayload \/ Judge

Next ==
    \/ OpenSession \/ ClearStaleSession \/ ReopenSession \/ SessionOpened
    \/ \E kind \in {"read", "write"} : Call(kind)
    \/ CloseSession \/ SessionClosed
    \/ Transact
    \/ WriteError \/ ReadError
    \/ CameraAnswers

Spec == Init /\ [][Next]_vars /\ WF_vars(Transact)

-----------------------------------------------------------------------------
\* What a transaction returns as success, the camera sent for that very
\* command: no answer of an earlier one, late or repeated, is taken for it.
\* The ids that tell them apart stop short of the reserved one, after which
\* they would start again.
AnswersOwnCommand ==
    /\ Idle /\ verdict = "ok" => sources = {command.serial}
    /\ command.id # MaxId

\* A camera that answers in time, however it cuts its answers into transfers
\* and packets, never costs the session, and a session another host left
\* open never keeps this one from opening and closing.
PromptCameraKeepsSession ==
    ~fault =>
        /\ ~poisoned
        /\ Idle => verdict \notin {"lost", "unsent"}
        /\ Idle /\ stage \in {"clearing", "reopening", "closing"} => verdict = "ok"

\* No transaction outlasts its hard deadline.
WithinDeadline == now <= command.hard

\* Unless something went wrong the camera is left without our session, but
\* for the session whose ids are used up.
SessionGivenBack ==
    stage = "over" /\ ~fault /\ session = "ours" => transactionId = MaxId

\* Every transaction returns, whatever the camera does.
TransactionEnds == (step # "idle") ~> (step = "idle")

\* The session keeps the promise of PtpLink.
Link == INSTANCE PtpLink WITH
    healthy <- ~poisoned,
    verdict <- IF ~Idle THEN "pending"
               ELSE CASE verdict = "ok" -> "accepted"
                      [] verdict \in {"none", "lost"} -> verdict
                      [] OTHER -> "rejected"
KeepsLink == Link!LinkSpec
=============================================================================
