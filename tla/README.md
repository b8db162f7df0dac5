# Verification of fujicli

`fujicli` is a command-line program that talks PTP over USB to a Fujifilm
camera: it reads and writes custom-setting slots ("simulations"), converts RAW
files on the camera, and saves and restores camera backups. A camera is a slow,
stateful peer that can be unplugged, can refuse or silently coerce what it is
told, and has a user who turns its dials while the program runs. The program's
own promise is not that a command succeeds but that its *answer is true*:
"applied and verified", "rejected without change", "rolled back", or "camera
state unknown, do not retry".

This directory holds TLA+ models of the parts on which that promise rests, the
TLC configurations that check them on small instances, and TLAPS proofs of the
main results for every instance.

## 1. Inventory

| Component | Source | State it keeps | Operations | Modelled by |
| --- | --- | --- | --- | --- |
| Interrupt latch | `src/lib/interrupt.rs`, `src/cli/common/interrupt.rs`, `src/main.rs` | four atomics: transaction in flight, critical-region depth, camera write sent (sticky), interrupts seen | enter/leave a transaction, enter/leave a region, mark, record, take, the Ctrl-C handler, the drains | `InterruptLatch` |
| PTP transport | `src/lib/ptp/mod.rs`, `chunk_policy.rs`, `container.rs` | transaction id, `poisoned`, session and mutation permit ids, bulk read buffer, chunk policy | open (with stale-session recovery), close, read-only send, mutating send, deadlines, chunk promotion | `PtpTransport` |
| PTP codec, descriptors | `src/lib/ptp/codec.rs`, `descriptor.rs`, `structs.rs`, `props.rs` | none | encode, decode, validate a candidate | `PtpCodec` |
| Camera session | `src/lib/camera.rs` | claimed interface, session-control permit, binding | claim, open, close, drop | `CameraAccess`, `Preflight`, `PtpTransport` |
| Preflight, permits, policy | `src/lib/preflight.rs`, `camera/authorized.rs`, `policy.rs` | evidence, the operation-scoped mutation permit | run, validate, expire on drop | `Preflight`, `CameraAccess` |
| Selected slot adapter | `src/lib/features/simulation/transaction.rs` 685-797 | `selected` | get, set one setting of one slot | `SelectedSlotIo` |
| Simulation write transaction | same file 506-1097; generated code from `crates/codegen/src/common/simulations/camera.rs` | original, candidate, journal, rollback journal, flags | update, set | `SimulationTransaction` |
| Simulation commands | same file 506-532, 616-683; `src/cli/simulation/mod.rs` | selector snapshot, profiles read | list, get, export, set, import | `SimulationRead`, `SimulationCommand` |
| Render and recovery | `src/lib/features/render/manager.rs`, `crates/codegen/src/common/renders/camera.rs`, `src/cli/image/mod.rs` | conversion profile snapshot, observed handles, rendered object, `camera_processing_active` | upload, profile write, start, poll, fetch, delete, restore, recover | `Render` |
| Backup and restore | `src/lib/features/backup/*`, `src/cli/backup/mod.rs`, `src/cli/common/usb.rs` | artifact, recovery file, reconnect deadline | export, import, dry run, inspect, reconnect, verify | `BackupRestore` |
| Outcome audit | `src/lib/features/outcome.rs` | four statuses | build from an answer | `StateChangeAudit` |
| File output | `src/cli/common/file.rs` | temporary file | begin, write, sync, rename, sync the directory | `FileOutput` |
| Camera definition compiler | `crates/codegen` | none (a function) | normal form, effective rules, gates, read order, repair, inverse, option codecs, build checks | `Predicates`, `SettingRules`, `OptionCodec` |
| Developer tools | `crates/fujicli-dev`, `src/lib/reverse.rs` | audit log, a latch of their own | selector probe, discover commands; offline readers of firmware files | `NamespaceProbe`, `Discovery` |
| CLI, listing, logging | `src/cli/mod.rs`, `src/cli/device/mod.rs` | none | argument grammar, formatting | not modelled |

### How the components interact

One command is one process with two threads: the main thread, which does all
camera work synchronously, and the signal thread of the `ctrlc` crate. They
share only the four atomics of the interrupt latch.

The main thread is layered. A feature (simulation, render, backup) calls typed
property and object operations; every mutating one carries a permit from the
preflight; each becomes one PTP transaction of the transport: a command
container, optionally a data container, then containers from the camera until a
response. A transaction ends for its caller in one of three ways, and the whole
project hangs on that contract: a framed OK, a framed error (the camera did not
act), or anything else after the command went out. In the third case nobody
knows what the camera did, the session is poisoned, and nothing more may be sent
over it. `PtpTransport` shows that the transport keeps the contract (as
`PtpLink`), and `SelectedSlotIo` is written against it (`Accepted`, `Rejected`,
`Lost`).

Selector scopes and write commands enter a critical region of the latch and
drain it at the end. Every transaction is bracketed by `enter_transaction` and
checked by `after_transaction`, which turns a recorded Ctrl-C into an error
unless a region is open.

### What is hard here

- The camera has a second user: its owner turns the selector between any two
  transactions, so a setting can be read from or written to another slot.
- Accepted is not executed: the camera may ignore or coerce a value. Only a
  readback tells, and the readback goes to whatever slot is active then.
- Half-done work: a write journal, a rollback that can fail half way, a selector
  or a conversion profile to restore after all of that, and an answer that has
  to be true at the end.
- Settings hide settings: what a profile shows depends on its other settings, so
  two profiles that look alike can belong to different stored settings, and one
  compiled rule decides what is read, in which order, and what is repaired.
- A byte stream with in-band framing: zero-length packets that arrive late,
  answers merged or split over reads, a buffer that is replaced in between.
- A signal handler that decides on several atomics read one after the other and
  then ends the process.
- Objects that appear while a camera converts and go when it likes; the only copy
  of a rendered image may be on the camera.
- Files that must be whole after a power loss, while another process writes to
  the same directory.
- Evidence that goes stale: a permit, a descriptor or a serial number that was
  true of another session, body or firmware.

`PROJECT.json` lists these as hazards, each at its line, with the properties
that would catch it.

## 2. The modules

### SelectedSlotIo, SimulationTransaction, SlotWrite

`SelectedSlotIo` is the camera's slots and the adapter that works on one of them
(`SelectedSimulationIo`). One property access is the steps `select` →
`confirm` → `access` → `check` → `answered`, each one PTP transaction:
`ensure_selected` writes and verifies the selector unless `selected` is still
trusted, the access acts on whatever slot is active, `verify_selector` looks
again. The answer is `ok`, `unconfirmed`, or `uncertain` (a write was accepted
and the selector could not be confirmed afterwards). `TurnSelector` is the user.

`SimulationTransaction` is the command around it, from the generated
`update_simulation`/`set_simulation` through
`with_restored_simulation_selector` and `execute_simulation_transaction` to
`recover_original`:

| Phase | Code |
| --- | --- |
| `snapshot` | refusals before the scope; the selector is read and checked |
| `pullOriginal`, `noChangePull` | the profile is pulled, the candidate prepared or refused; without changes it is pulled once more |
| `apply`, `verify` | each change is written, journaled and read back |
| `finalPull` | the whole profile is compared with the candidate |
| `rejectPull` | nothing was journaled: is the profile still the original? |
| `undo`, `undoVerify`, `rollbackPull` | the journal in reverse, then the profile and the guard that decides whether the rollback is proved |
| `restore`, `confirmRestore` | the selector, after every outcome but those of a poisoned session |
| `done` | one of the five outcomes; a preparation failure is one of them too |

A pull reads the settings whose presence condition holds in what it has read so
far, in order. The presence conditions are a parameter (`Present`) of which only
what the generator guarantees is assumed: a condition depends on earlier settings
only. What a candidate contains is any profile: which values are requested, and
which the firmware table admits, is data.

`SlotWrite` is the abstract promise: a write answers at most once, with "applied",
"unchanged" or "unknown"; the first two are true of the target slot, of every
other slot and of the selector. `KeepsPromise` is the refinement.

Three modelling decisions matter. A framed error means that the camera did not
act. A user who turns the selector away and back within one access cannot be
noticed by reading the selector; such behaviours are marked `blind` and excepted
by name, because `docs/internals/runtime.md` 388-391 names this limit of the
adapter. Interrupts are not in this module: inside the scope they are deferred,
which is what `InterruptLatch` is about.

### PtpTransport, PtpLink

`PtpTransport` is `struct Ptp` with its two bulk pipes. `OpenSession`,
`ClearStaleSession`, `ReopenSession`, `Call`, `CloseSession` are the operations;
each `Begin`s a transaction that the write actions, the read actions,
`TakeHeader`, `TakePayload` and `Judge` carry out, one bulk call or one
container at a time. The pipe holds units (a header, a piece of payload) and
marks where a transfer ends. A read returns when the buffer is full, when the
transfer ends, or at its timeout with the full packets that have arrived; a
transfer that ends exactly at the end of the buffer leaves its zero-length packet
for the next read. The camera may put data and response into one transfer or
two, close a transfer on a packet boundary with a zero-length packet or not, add
a parameter to a response, refuse, and once break the protocol (`BrokenAnswers`).
The bus may fail at any call.

Time is counted in ticks from the start of a transaction: a bulk call takes
between 0 and its timeout. `fault` remembers that the camera or the bus did what
it should not, a transaction that ran out of time included; a slow but timely
camera is not a fault. Whether the pace of the last reads would fill a larger
buffer in time, and whether that buffer can be allocated, is a choice in
`Observe`; which size comes next is `NextChunk`, over the sizes that the tiers of
`chunk_policy.rs` leave for the endpoint's packet. The four classes of operation differ in their timeouts only; one set
stands for all. Abstracted away: units instead of bytes, the write chunks (a
write moves any part of the container), and the mutation permits. The pipes
start empty: what another process left unread in the IN pipe is outside the
model. `camera_processing_active`, the third reason against a close, belongs to
the render work.

`PtpLink` is the contract: call, then accepted (and the camera acted), rejected
(it did not and never will) or lost (and the session is unhealthy from then on).

### InterruptLatch

Every load and store of the four atomics by both threads is its own action. The
main thread opens sessions, runs transactions (`read`, `describe`, `write`,
`close`), enters nested regions, drains them, reconnects as `backup import` does,
and exits; the handler samples, loads, records, judges and exits. `owed` remembers
where an interrupt was recorded, to say what must come of it.

An error outside the regions unwinds to the close, with one exception: the
preflight takes `GeneralError` in answer to `GetDevicePropDesc` for a refusal and
reads the value instead (`ReadInstead`). The marker of an interrupt is a context of
that error, and `camera_refused` looks through it. So a failure `refused` stays
`refused` when it is marked, and the interrupt, already drained, goes with it;
`owed` then says `refused` instead of `read`. What is left of the documented
promise in this case is in the run `interrupts_heeded`, which fails (section 5).

### FileOutput

`OutputTransaction` and `write_all_new`: a temporary file in the destination's
directory, its sync, the rename (one that refuses to replace, unless `--force`
allows it), the sync of the directory. Every system call may fail, a rival
process may create the destination between the check and the rename, and power
may be lost after any step: `onDisk` is the set of names a restarted host may
find. The module has no behaviour of its own; `BackupRestore`,
`SimulationRead`, `NamespaceProbe` and `Discovery` compose it with theirs. That
the temporary file of a forced quit stays behind, and that a symbolic link which
appears after the check is replaced under `--force`, are consequences of the code
that no property speaks about.

### StateChangeAudit, BackupRestore

`StateChangeAudit` is `outcome.rs`: four statuses and the constructors that turn
an answer or an error into them. `BackupRestore` is `backup import`, its dry run,
`export` and `inspect`:

| Phase | Code |
| --- | --- |
| arguments, artifact | `BackupImportArgs::validation_error`, the envelope, `--expect-sha256`, the target's serial number |
| choice of the body | `select_only` and `find_camera_by_serial`, over bodies that are plugged in and out |
| `validate`, `preflight` | `validate_target`, the serial binding |
| recovery | the export to a new file, through `FileOutput` with policy `Exclusive` |
| import | one object, never repeated: accepted, refused, or lost; what was sent may be stored at once, when the session ends, as something else, or not at all |
| reconnect, verify | search by serial number until the deadline, fresh session, export, comparison of the payload |

The payload stands for the bytes and their digest; the manifest for the envelope.

### SimulationRead, SimulationCommand

`SimulationRead` EXTENDS `SelectedSlotIo` and `FileOutput`: snapshot of the
selector, the reads of every slot asked for, the restore and its readback, the
end of the critical region, and the output to a terminal, a pipe or a file.
`SimulationCommand` adds `set` and `import`. Their transaction is taken as what
`SlotWrite` promises (`Apply`, `ChangeNothing`, `LoseTrack`, and `Deceived` for
the blind spot of the adapter); the module is about what the command makes of
the answer: the exit status under Ctrl-C, the journal reported, the closed pipe.

### Render

`image render` and `image recover`, one PTP transaction at a time: upload,
snapshot, write and readback of the conversion profile, trigger, polls, the
inspection of the new handles, fetch, restore of the profile, save, and the
verified deletion. The camera adds and withdraws objects while it converts and
may coerce the profile. `named` and `told` are what the operator is told of
objects left on the camera and of a profile that was not put back; `mute` is an
error output that takes no text. The time is the number of polls that fit the
one render deadline. RAF and JPEG contents are a nondeterministic acceptance.

### CameraAccess, PtpCodec, Preflight

`CameraAccess` is pure: how a device resolves to a definition (`resolve_camera`),
which alternate setting is claimed (`select_ptp_usb_binding`), `policy.rs`
(`Authorized`) and `command_risk`. `PtpCodec` is the byte level: scalars, arrays,
strings, `DeviceInfo`, the descriptor datasets, the forms, static descriptors,
and the layout of a RAW conversion profile. Decoders refuse trailing bytes, too
many elements, a value outside its own form. A byte has `Base` values: 256 in
the code, 16 in the instances, which keeps every overflow and sign boundary.

`Preflight` is the life of one camera handle: claim, open, the general read-only
sends, `run` (profile selection, `GetDeviceInfo`, mode and battery, serial
binding, one descriptor at a time with its fall-back after a refusal), the
permit, what the permit's paths may send (`AuthorizedPtp`), and the drop that
ends both. `camera` and `truth` are what the camera really is; `learned` is what
the host believes. `wire` is the last command with its bytes. Assumed: a camera
that can describe a property never answers the request for it with
`GeneralError`, and what a property is does not change within a session. The
shipped definitions refuse every RAW conversion layout for writing at build
time, so that upload authority is reached only in the model's instance.

### RuleLeaves, Predicates, SettingRules, OptionCodec

What the definition compiler does, as functions and as the generated program.
`Predicates` has the predicates and their normal form (`into_disjuncts`,
`into_negation`) next to the reference meaning; it is the one module with
RECURSIVE operators and is used by `MCSettingRules` only. `RuleLeaves` is the
literals. `OptionCodec` has the four kinds of options: how an input becomes a
value, a value a word, a word a value, and what the build refuses.
`SettingRules` is the generated code over one definition: transformations and
their inverses, the rewriting of the rules by them, presence gates, the read
order as the edges of a graph, the gated read, merge, repair, encoding, write,
and the import of a file, whose values meet the firmware's capabilities only when
the profile is whole. A literal keeps how it was written, since an `in` of one
value is neither found by a rewriting nor inverted as an `equals` is. `Init` chooses the definition, among those the build
accepts, and the camera's state; a request is chosen when the read is done.

### NamespaceProbe, Discovery

`NamespaceProbe` is `fujicli-dev probe simulation-namespace`, the one command
that writes to a camera outside every permit: gates, backup, the attempt line in
the audit log, the write, the read-back, restore and verification, the closing
line; and the Ctrl-C handler with its own latch, every atomic access a step.
`Discovery` EXTENDS it with the discover commands of the same tool: their read
plans, which reads are needed, and what the artifacts say (`Verdict`, `Shape`,
`HasDigest`, `inspect_envelope`). It uses `PtpCodec` as `Codec`, because the
survey's verdicts are to agree with what a preflight would decide.

### How they compose

`SlotWrite` is kept by `SimulationTransaction` and assumed by
`SimulationCommand`; `PtpLink` is kept by `PtpTransport`, and every other module
writes its camera accesses in the three ways it allows. `SelectedSlotIo` is
shared by the write and the read commands, `FileOutput` by four modules,
`StateChangeAudit` by the import, `NamespaceProbe` by `Discovery`, `PtpCodec` by
`Preflight` and `Discovery`, `CameraAccess` by `Preflight`. The interrupt latch
is modelled in full once; the command modules have of it what a command sees: a
recorded Ctrl-C, the end of its region, and a second one that ends the process.

## 3. What is checked

| Run | Instance | States | Shows |
| --- | --- | --- | --- |
| `simulation_transaction` | 2 slots, 2 settings (the second applies only for one value of the first), 2 values, 2 turns of the selector | 1.9 million | `AppliedIsTrue`, `WrongSlotReported`, `SelectorPutBack`: each answer is true; `JournalExplainsChange`; `CleanRunApplies` (it also succeeds); `Answered`; `KeepsPromise` |
| `simulation_commands` | the same slots and settings, one slot outside the verified descriptor, 2 turns, 2 Ctrl-C, a rival process, a power loss | 1.3 million | `AnswerIsTrue`: what is printed belongs to the slot it is printed for, what is reported written is; `StatusAccounts`; `OutputIsWhole` |
| `ptp_transport` | 7 commands, ids up to 6, buffers of 1, 2 and 3 packets, payloads of 1, 3 and 4 units, deadlines of 3, 4 and 1 ticks | 0.4 million | `AnswersOwnCommand`, `PromptCameraKeepsSession`, `WithinDeadline`, `SessionGivenBack`, `TransactionEnds`, `KeepsLink` |
| `interrupt_latch` | 3 transactions, 3 sessions, 3 presses | 0.2 million | `HandlerReportsWrite`, `FirstPressWaits`, `InterruptNotForgotten`, `CleanStopMeansUntouched`, `StopsAfterTransfer`, `ForceQuitWorks` |
| `render` | 3 objects, 2 conversion profiles, 3 polls | 1.1 million | `DeletedOnlyWhenSaved`, `RetainedObjectsNamed`, `ProfileAccounted`, `NeverClosedWhileConverting`, `CommandEnds` |
| `backup_restore` | 2 bodies of different identity, 2 payloads, 2 moves on the bus, 1 more reconnect attempt | 1.8 million | `RecoveryDurable`, `OnlyTargetChanges`, `ExitIsTrue` |
| `preflight` | 3 products of which 2 are supported, 3 firmwares, 3 serial numbers, 5 properties with up to 10 descriptors, 6 operations | 0.8 million | `OnlyProvenMutations` |
| `setting_rules` | 24 definitions, 9 of them refused by the build | 20 thousand | `ReadBreaksNoRule`, `AcceptedBreaksNoRule`, `RequestTakesEffect` |
| `developer_tools` | 3 slots, 3 Ctrl-C; 7 sets of pins, every shape of value | 3.7 million | `WriteIsOnRecord`, `RecordIsTrue`, `ChangeIsReported`, `ArtifactIsTrue` |
| `transfer_never_abandoned`, `interrupts_heeded` | as `interrupt_latch` | | two statements of the documentation that the code does not keep, see 5 |
| `exported_profile_imports` | as `setting_rules` | | a third |

The type invariants that no run lists (`PtpTransport`, `BackupRestore`,
`SimulationRead`, `SimulationCommand`, `Render`, `Preflight`, `SettingRules`)
document the variables. `NoIoAfterPoison` and `UnchangedIsTrue` of
`SimulationTransaction` follow from `KeepsPromise` and are not run by themselves.

Why the bounds are enough.

- Simulations. One setting besides a conditional one is what the presence order
  can be got wrong with: a write of the first makes the second appear or vanish,
  both in the apply and in the rollback. Two slots are the target and another
  one; a third would be another of the same. Two turns are away and back; every
  check of the selector reads the present value only. One of the two slots is
  admitted by the descriptor and one is not.
- Transport. The payloads cover a transfer shorter than, exactly as long as, and
  longer than the buffers, on and off a packet boundary; seven commands are
  enough to recover a stale session, to promote the buffer twice, over the tier
  between the first size and the last, to read with the larger ones, and to use up
  the ids. Four ticks leave room for a bulk timeout, an
  idle deadline renewed once, and a hard deadline that caps the renewal.
- Latch. Three presses are the recorded one, the one that force-quits, and one
  that is queued meanwhile; three regions and transactions nest and follow each
  other.
- Render. Three objects are the JPEG, another that comes with it, and one that was
  there before. Two polls have to agree; the third sees them disagree first.
- Backup. A wrong body needs two bodies, unplugging and replugging two moves. One
  further attempt separates a search that retries from one that gives up.
- Preflight. One permit is minted per handle (`MaxPermits`); any number of
  preflights fail before it. There are two firmwares with a profile, of which one
  is verified, and one without; a mode and a battery level on either side of the
  limit; for every property a descriptor that suits, some that contradict
  themselves, and some that contradict the pin. A dataset may be cut or extended
  by a byte, or be that of another property.
- Setting rules. The shipped rule sets are cut along shared settings, which
  decides what can interact: white balance, film simulation, dynamic range, and
  the RAW profile's own. Synthetic definitions add what no shipped camera has and
  the compiler admits: demanded settings, repairs that disturb one another,
  negated gates, transformations that can be inverted or that clear, conditions
  that say the same in other words or twice, an inverse that is declared one-way,
  gates in a ring.
- Developer tools. Three slots tell the one written from the one found and from
  the one the camera falls back to; three presses as in the latch.

Every passing run switches deadlock checking off: a command ends (`done`, an
exited process, a finished session) and has no next step.

Fairness. `SimulationTransaction` and `SimulationCommand` assume that the host
goes on (`WF` of its steps), `Render` too: every PTP transaction returns, which
is `TransactionEnds` of `PtpTransport`. That property in turn assumes only that a
bulk call returns within the timeout it was given (`WF_vars(Transact)`; I/O
errors are not part of it, so no transaction depends on one to end). `CommandEnds`
of `Render` does not assume that the camera ever finishes. `InterruptLatch`
assumes only that the handler runs (`WF_vars(Handler)`): the main thread may be
stuck, and the force quit has to work then. Neither the user nor the camera owes
anything. The other modules check safety only.

Every property has a mutant in `PROJECT.json`: a definition of the code changed
as a plausible bug would change it, under which the property fails.

### What the properties except, and why

- `blind` (simulations): the selector was turned away and back around one access.
  `docs/internals/runtime.md` 388-391 names this limit.
- `RetainedObjectsNamed`, `ProfileAccounted`: not when an interrupt discards the
  result (exit status 3, the operator is told that the state is unknown), nor when
  standard error takes no text (`mute`).
- `AcceptedBreaksNoRule`: rules whose disjuncts do not break one another
  (`Independent`); the solver checks a flip against other rules only.
- `RequestTakesEffect`: not for settings that a rule demands rather than forbids
  (`Demanded`), nor for lookups that give one word to two numbers and decimals
  whose bounds do not scale to whole words (`Exact`); the build admits both.
- `ReadBreaksNoRule`: not for a camera whose words contradict one another under
  the definition's own transformations.
- `InterruptNotForgotten`, `StopsAfterTransfer`: not for an interrupt that was
  recorded while the camera refused a descriptor; that is a finding (section 5).
- `ChangeIsReported`: a Ctrl-C that the probe's handler sampled inside the window
  and counted after its drain (`fujicli-dev/src/interrupt.rs` 19-23, 82-84) has
  been announced as deferred and is forgotten. The exit status 0 that may follow
  still means that the selector was put back and verified.
- `ArtifactIsTrue`: a survey differs from the preflight on the empty string (one
  zero byte) and on text that is no UTF-16.

## 4. What is proved

`SimulationTransactionProofs` proves for every set of slots, values and settings,
every presence condition and every bound on turns, from `SlotsAssumption`,
`CountsAssumption` and `PresenceAssumption`:

- `TypeCorrect`: `Spec => []TypeOK`
- `SelectorIsPutBack`: `Spec => []SelectorPutBack`
- `WrongSlotIsReported`: `Spec => []WrongSlotReported`
- `JournalExplainsEveryChange`: `Spec => []JournalExplainsChange`
- `PoisonEndsIo`: `Spec => NoIoAfterPoison`

All follow from `Invariance`, the inductive invariant `Inv`. Its conjuncts are
the types; `Control`, which relates the phase to the access (an answer is there
exactly when the adapter has answered, only writing phases write, only a write
can be uncertain, a poisoned session has been noticed, a snapshot exists once it
is needed, an uncertain binding ends in "unknown", the rollback rewrites the
journal's own entry); `SelectorPutBack`; `OthersKept`, which says where the
knowledge of a stray write is between the moment it happens and the answer: in
the pending check, in the reply, in `bindingUncertain`; and `JournalCovers`,
which adds the write in flight to the journal. None of the properties is
inductive without them: a stray write is known for three steps only by the
position of the adapter. The proof is one lemma per action for the types and one
fact, `Decision`, for what all decisions of the executor have in common.

The module goes on to what the write promises, for the same constants:

- `AppliedTrue`: `Spec => []AppliedIsTrue`
- `UnchangedTrue`: `Spec => []UnchangedIsTrue`
- `PromiseKept`: `Spec => KeepsPromise`, the refinement of `SlotWrite`
- `CleanRun`: `Spec => []CleanRunApplies`

`Truth` says what a pull knows of the slot (`PullKept`: the settings before the
index that apply were read, and no other), which answers may be believed
(`ValueKept`), that the original is the target as it was (`OriginalKept`) and
what each outcome means (`AnswerKept`). Which settings apply depends on the values
of earlier ones, so that "a slot shows one profile" and "the final pull shows what
was asked for" need the least setting in which two profiles differ: `LeastNat`,
from the well-founded order of the naturals. `CleanRun` adds `SessionClean`, that
without faults and turns no answer is lost or refused, and `PlanKept`, that the
slot shows the candidate up to the change under way and the original after it.
The refinement maps the steps that decide an outcome to the steps of `SlotWrite`
and the rest to stutters.

`PreflightProofs` proves, for every camera, profile, descriptor and path, and
whatever the codec makes of an answer, that nothing changes the camera without a
permit that is worth something:

- `NoPermitOutlivesItsSession`: `Spec => []PermitOfSession`, a part of
  `OnlyProvenMutations`
- `EveryMutationIsPermitted`: `Spec => []MutationsArePermitted`: the session is
  open, the body is what it was opened as, the profile is verified, is for this
  product and this operation and has the command, and mode, battery and serial
  number are as it demands
- `EveryUploadIsVerified`: `Spec => []UploadsAreVerified`: no RAW image goes to a
  firmware that was not verified for writing

The invariant says what each stage of the preflight has established and the
later ones keep (`Verified`), that a changing command belongs to the open session
(`Sent`), and that the permit is marked as validated only for such a firmware
(`Evidence`).

What `OnlyProvenMutations` says beyond them, that the firmware and descriptors
the preflight *learned* are the true ones and that the bytes carry a value the
camera admits, depends on what the codec makes of the answers:

- `EncodedReadsBack`: a value that the decoder takes at all is decoded from the
  bytes it is encoded as, to the last one
- `MutationsProven`: `Spec => []OnlyProvenMutations`

The codec is shown to read back what was written, for any base of at least eight
and with no bound on lengths. `Agrees` says that bytes are those of an encoding as
far as they go, which is what a dataset cut short and one with a byte too many have
in common; so each lemma about a read has two ends, "read as it was written" and
"the bytes are used up" (`Yields`). The digits of a number add up to it
(`DigitsAddUp`), two's complement stands for it (`ComplementReadsBack`), and a
number, text, array or any value is read back (`ScalarReadsBack` to
`ValueReadsBack`, `SeriesReadsBack` for one after the other). From these follow
`InfoReadsBack`, `DescriptorReadsBack` with the three forms, `LayoutReadsBack` for
the conversion profile and `LiveReadsBack` for a value without its descriptor: what
is decoded of the bytes that come instead of a dataset is that dataset. What is
recursive here runs over numbers (digits, elements, types), so the least-number
argument `LeastNat` stands in for induction, and the recursive functions behind
`Power`, `ReadAll` and `FlattenSeq` are shown to exist step by step.

`DatasetAssumption` says what the cameras are: they send what the datasets have
room for, and two things that no decoder could make up for. The layouts of the
conversion profile are told apart by their count, code and length, so no two may
agree on these up to the byte that an answer may lose or gain. And where a
profile's static form stands for a descriptor the camera refuses, the type pinned
in the profile is as wide as the camera's own (`Alike`), for nothing tells a value
that is a byte too long from one of a wider type. TLC evaluates it on the instance
of `preflight`.

The invariant `Proven` goes along the stages once more: a camera that is open was
bound by exactly one setting (`Opened`); the profile is for the model and firmware
it reports (`Identified`); each property that was learned has the camera's own
type, access and form or, where the camera refuses to describe it, the profile's
form and a live value that suits it (`Learned`, `Known`); the permit's fingerprint
mark means that the live conversion profile has the layout (`Marked`); and what is
sent suits the property it is for (`Suited`).

The same module proves what the values are that a descriptor admits or refuses: the
codecs of the options, `OptionCodec`, which need no recursion.

- `ScaledTravels`: what a user may give a numeric option is read back as itself, and
  the range of a static descriptor, worked out a second time, does not refuse it
- `LookupTravels`: a number whose words are its own is read back as itself, and a
  text is taken for the nearest number
- `EnumTravels`: what the capabilities of a firmware allow is read back as itself

Their hypotheses are those that `RequestTakesEffect` names `Exact`: the least value
and the step of a number scale to whole words, and no word has two numbers. The
build demands neither of an option, hence the exceptions of
`RequestTakesEffect` in section 3. The greatest value need not scale to
a whole word: rounding and truncation both leave room for every whole word below it
(`WholeWords`), on either side of zero.

`RenderProofs` proves for any number of objects, profiles and polls, whatever the
camera answers or loses, from `BoundsAssumption` and `NoValueAssumption`:

- `DeletionSafe`: `Spec => []DeletedOnlyWhenSaved`
- `RetentionTold`: `Spec => []RetainedObjectsNamed`
- `ProfileRestored`: `Spec => []ProfileAccounted`
- `SessionHeldOpen`: `Spec => []NeverClosedWhileConverting`

What every transaction can do to the camera comes first, as one lemma per effect
and one for all steps (`CameraNext`): a lost answer either had its effect or had
not, and a handle that was used is never used again. The invariant follows the
JPEGs that were seen (`NamesKept`): those that are still there are covered by the
last poll, then by the handles to inspect, then by the names of the error or by
the one that was fetched, which is also the only one left if the cleanup does not
fail. `DeletionKept` says that the saved handle is the fetched one, which the
camera never gives to another object, `ProfileKept` that outside of the stages
between write and restore the profile is the original one or its loss is on
record, `SessionKept` that the host knows of a running conversion or has lost the
session.

`DiscoveryProofs` proves for the developer tools, for any slots, bounds, answers
and number of Ctrl-C, from the assumptions of `NamespaceProbe` and
`Discovery`:

- `WriteOnRecord`: `ToolSpec => []WriteIsOnRecord`
- `RecordTrue`: `ToolSpec => []RecordIsTrue`
- `ChangeReported`: `ToolSpec => []ChangeIsReported`
- `FileNeverTorn`: `ToolSpec => []NoTornFile`: what has a name is complete, also
  after a loss of power
- `ArtifactTrue`: `ToolSpec => []ArtifactIsTrue`

The invariant relates the four places where the probe keeps what it knows: the
file (`FileKept`: a name follows the sync), the log (`AttemptKept`: the attempt is
synced in every stage that can write), the camera (`SelectorKept`: a stage that
reports success has seen the selector it took the snapshot of) and the handler
(`LatchKept`: an interrupt is counted until it is drained). `EndKept` says what
each exit status implies, for good.

`ArtifactTrue` adds that every verdict so far is that of an answer the camera gave
to this question in this session (`ToolKept`, `AnswersKept`), and what the codec
decides on bytes of any length: `OneByte` and `TwoBytes` compute the recursive sum
of little-endian digits, from which follow when a word is zero (`ZeroWord`), which
bytes are a string (`TextIsRead`, `ReadIsText`) and what a capture reports
(`EnvelopeReported`). So the verdict of a survey, which comes from the decoder, is
that of the statement, which looks at the bytes. The attempt corrected the
statement: it looked for lone surrogates among the *bytes* of a string, which the
instance of TLC cannot tell from its 16-bit units. The sum is in Horner form for
this proof, since the provers have no powers.

`PtpTransportProofs` proves for all timeouts and numbers of commands, read buffers
of any number of whole packets with any tiers between the first and the last, and
any camera, from `GeometryAssumption`, `TimeAssumption` and
`BoundsAssumption`:

- `TransactionWithinDeadline`: `Spec => []WithinDeadline`
- `AnswersAreOwn`: `Spec => []AnswersOwnCommand`
- `LinkKept`: `Spec => KeepsLink`, the refinement of `PtpLink`
- `PromptCameraIsServed`: `Spec => []PromptCameraKeepsSession`
- `SessionIsGivenBack`: `Spec => []SessionGivenBack`

Three invariants carry them. `ClockInv` keeps the idle deadline of each phase
below the hard deadline and the clock below both, and the transaction id at most
the reserved one.

`StreamInv` follows the units in the buffer and the pipe: whose they are and under
which ids. A transaction that returns may leave units behind, so the next one
starts in a stream that is not empty; what saves it is that what is left comes
first and has another id (`LeftoversKept`, `StaleFirst` in `AnswerKept`), and that
the camera holds no command but the current one while the session is healthy
(`IncomingKept`). `ActedKept` relates a response to what the camera did, and with
it every step of the transport is one of `PtpLink` or a stutter.

`PromptInv` says what such a stream looks like as long as the camera answers in
time: whole containers (`Shape`), the end of a transfer at the front only after a
read that filled the buffer (`CutKept`: this is the terminating zero-length
packet, and what `resized` has to keep), nothing at all between transactions, and
responses that fit the stage of the session (`StageKept`). The lemmas `DropFirst`,
`DropEnd` and `JoinShape` are about all that ever happens to a stream: units are
taken from its front, the end of a transfer is dropped, an answer is appended.

The proof needs two bounds that no run needed: `MaxPayload >= 1`, since a response
may carry a parameter and is refused if it is longer than the limit (the limits
of `ptp/mod.rs` are megabytes), and `MaxId >= 2`, since the close that clears a
stale session has id 1 (`MaxId` is `u32::MAX`). It also showed that one CASE of
the camera's session had arms that overlapped; they are disjoint now.

`InterruptLatchProofs` proves for any number of transactions, sessions and
Ctrl-C, from `BoundsAssumption` alone:

- `TypeCorrect`: `Spec => []TypeOK`
- `WriteIsReported`: `Spec => []HandlerReportsWrite`
- `FirstPressIsDeferred`: `Spec => []FirstPressWaits`
- `CleanStopIsClean`: `Spec => []CleanStopMeansUntouched`
- `NothingForgotten`: `Spec => []InterruptNotForgotten`
- `OnlyTheCloseFollows`: `Spec => StopsAfterTransfer`

The invariant has five ideas. `MarkedFirst`: a write is marked, and a transfer is
in flight, before anything is on the wire. `StillTrue`: the transfer and the
region that a handler found are still under way while the history says so.
`Sampled`: what the handler has read and not yet used implies what it will do,
whatever the main thread did meanwhile. `Unwinding`: a command marked as
interrupted before any write is outside all regions, so it sends nothing more.
`Exited`: the three properties, which say something only once the process ended.

`Describing` says where a refused descriptor can be pending: outside the regions,
before any write, with a transaction left to read the value. `NothingForgotten` and
`OnlyTheCloseFollows` except the interrupt that goes with it, as their statements
say. They rest on `Memory`: regions nest in one way only, the restored one in
the write (`Nested`); what was recorded in a region is pending until the region
has drained it into the result (`RegionRemembers`), and what was recorded in a
read until the check that follows it (`ReadRemembers`). An interrupt
recorded in a region survives only because no reconnect search, which drops
interrupts, runs inside one: that is part of `Nested`.

`BackupRestoreProofs` proves for any bodies, payloads, plugs pulled and reconnect
attempts, from the assumptions of `BackupRestore`:

- `TypeCorrect`: `Spec => []TypeOK`
- `RecoverySaved`: `Spec => []RecoveryDurable`
- `OnlyTarget`: `Spec => []OnlyTargetChanges`
- `StatusTrue`: `Spec => []ExitIsTrue`

The invariant carries one chain of facts from phase to phase: a file gets its name
after its bytes are synced (`FileKept`), the session is that of the validated body
or gone, and what was exported is what that body had stored at the start
(`TargetKept`), so that from the moment something is sent the file holds the
settings to go back to (`SentKept`); only that body has changed, and once it was
reopened it has stored what it will store (`BodiesKept`); and the audit says
"succeeded" only after the verification (`AnswerKept`).

`SimulationCommandProofs` proves for `list`, `get`, `export`, `set` and `import`
together, for any slots, settings, values and presence conditions:

- `TypeCorrect`: `CommandSpec => []CommandTypeOK`
- `AnswersTrue`: `CommandSpec => []AnswerIsTrue`
- `StatusTrue`: `CommandSpec => []StatusAccounts`
- `OutputWhole`: `CommandSpec => []OutputIsWhole`

`PullKept` and `ShownKept` say that what was read is the slot's own unless the
selector was turned there and back around one access (`blind`); `SelectorKept`
that the selector is where it was found in every phase but those between snapshot
and restore, if nobody else turned it; `WriteKept` what each outcome of a write
has done to the slots; `FileKept` and `ExportKept` the same for the output.
`OneProfile`, that a slot shows one profile, is again an induction over the
settings by the least difference.

Only model-checked:

- all liveness, which is beyond the prover, as is everything about ENABLED;
- the definition compiler (`ReadBreaksNoRule`, `AcceptedBreaksNoRule`,
  `RequestTakesEffect`): its operators recurse over predicates and folds, and what
  a recursive definition computes for every input is an induction over data that
  the provers cannot instantiate. Only the part of `RequestTakesEffect` that is
  about one option, `OptionCodec`, is proved (above). Where an induction is over numbers only, as over
  the settings above, the least element of a set replaces it.

## 5. Where the code and its documents disagree

Each of the first three is a run that must find a violation:

- `TransferNeverAbandoned`: the handler looks at the latch and exits several
  steps later; a transfer that starts in between is abandoned by the first
  Ctrl-C. `exit-codes.md` 14-17 says that never happens.
- `InterruptsHeeded`: two errors are taken for something else, and the interrupt
  that they carry is dropped with them; the latch is already drained. A refused
  descriptor is what the run shows: `after_transaction` attaches the marker to the
  failed `GetDevicePropDesc` as a context (`interrupt.rs` 152-160), `camera_refused`
  (`preflight.rs` 905-911) downcasts through it to `GeneralError`, and the preflight
  reads the value instead (879) and goes on, up to camera writes and status 0. On an
  X-T5 with firmware 4.31 every descriptor is refused this way. `exit-codes.md` 19-20
  promises that the command stops before the next transaction and exits 130. The
  other one, which is a longer trace and fails the second conjunct:
  `find_camera_by_serial` (`usb.rs` 308) takes the error of an interrupted identity
  read for "not this camera", the search goes on, and `backup import` may end with 0
  where `exit-codes.md` 28 promises 3.
- `ExportedProfileImports`: the generated import takes a setting for optional only
  when a rule names its absence; the shipped presence rules name its presence. A
  profile exported while such a gate was closed lacks the setting and is refused
  as incomplete, while supplying it breaks the rule. `image render` with such a
  file is refused for the same reason (`src/cli/image/mod.rs` 159).

Met while modelling, and not runs of their own:

- `critical_camera_write` (`interrupt.rs` 86) drains the latch and then returns
  the operation's own error, so an interrupted write that was rolled back exits 1
  where `exit-codes.md` 25 promises 3. A known failure with a recorded Ctrl-C
  exits 1 too.
- A report that cannot be printed after an applied write exits 1, which row 1 of
  the table calls safely retryable. Selector writes under a write permit mark
  `camera_write_sent`, so a Ctrl-C in the report exits 3 even when nothing
  changed.
- `image` commands never attach the marker of an unknown camera state to a lost
  render transaction; they say so in words and exit 1 (row 3 of the table,
  `fail-closed-safety-model.md` 71-76).
- `docs/internals/runtime.md` about 317-320 says that a successful import only
  means that PTP accepted it; the code verifies it through a fresh session.
- `docs/contributors/reversing.md` 401 promises exactly one log line when an
  earlier gate of the probe aborts; the code writes none. After a failed read-back the probe attempts no
  restore, and a Ctrl-C latched meanwhile is masked by the failure (exit 1).
- `docs/internals/analyses.md` 290-300 lifts whenever the effects of a
  transformation are found in the profile; the code (`inverse.rs`) also wants the
  logical setting absent or already lifted, so that a transformation which sets
  its own trigger, as that of `hdr800_plus` does, is never inverted.
- The probe's handler announces a Ctrl-C as deferred before it is counted; one
  that is counted after the drain of the window is forgotten (section 3).
- After a lost session the discover commands report every later property as
  refused, although none was asked. A survey does not compare the property code
  of a descriptor with the one it asked for.

Not counted as a disagreement: a Ctrl-C recorded while a finished write closes
its session is ignored on purpose (`ptp/mod.rs` 618-622).

## 6. Not modelled, and why

- Command-line grammar, formatting, logging, listing: no state. Where an argument
  decides what a command does (`backup import`, overwrite policies, the binding of
  a session) it is in the module of that command.
- `fujicli-dev firmware`, `strings` and `surface`: offline readers of vendor files.
  They talk to no camera, and what they promise is about the bytes of one file
  format.
- Loading the definition files, aliases of identifiers, the generated clap
  arguments and `Display`: text. `skip_read` and `skip_write`: no shipped
  definition uses them.
- Detaching a kernel driver, endpoint descriptors, and the contents of RAF and
  JPEG: I/O and data on which no decision modelled here rests, but for their
  acceptance.
- What another process left in the IN pipe; the four sets of timeouts as four
  (one stands for all); the write chunks of a bulk transfer.
- The exported artifact on standard output for backups, and `--json` with it.
- Test code. It is about two fifths of the lines of the implementation files; the
  map covers more than half of the rest.

## 7. Plan

| Module | Checked | Proved | Next |
| --- | --- | --- | --- |
| `SelectedSlotIo`, `SimulationTransaction`, `SlotWrite` | 8 properties | types, all the invariants, `KeepsPromise` | |
| `InterruptLatch` | 7 properties, 2 findings | types and 5 properties | |
| `PtpTransport`, `PtpLink` | 6 properties | types, the deadline, own answers, the link, the prompt camera | |
| `Preflight`, `CameraAccess`, `PtpCodec` | 1 property | 3 invariants, the property, the codec's round trip | |
| `FileOutput` | in 3 runs | no torn file is named, within `Discovery`, `BackupRestore` and `SimulationCommand` | |
| `BackupRestore`, `StateChangeAudit` | 3 properties | types and 3 properties | |
| `Render` | 5 properties | types and 4 properties | |
| `SimulationRead`, `SimulationCommand` | 3 properties | types and 3 properties | |
| `OptionCodec`, `SettingRules` | 3 properties, 1 finding | the codecs of the options | what the repair of one rule keeps |
| `NamespaceProbe`, `Discovery` | 4 properties | 4 properties, no torn file | |

Every safety property and action property of a run is a theorem but the three of
the definition compiler, whose recursion over a rule stays with TLC. What is left
is what a repair keeps: that for one rule, without the recursion over the rules, the
solver's flips leave the settings the user named alone.
