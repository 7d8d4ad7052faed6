# Verification of go-sctp

go-sctp is a Go package for SCTP sockets on Linux.  This directory holds TLA+
modules of its concurrent core, the TLC configurations that check them on small
instances, and TLAPS proofs of the properties that matter most.  Paths below are
relative to `src/`.  `PROJECT.json` lists components, runs, mutants, findings,
hazards and theorems, and maps every definition to the lines it translates.

## 1. Inventory

### The system

The package wraps one kernel socket per `Conn` (one association), `Listener`, and
`Endpoint` (one-to-many: any number of associations).  It keeps little state of
its own.  What is hard is where that state meets the kernel's: an errno Linux
hands to one call only, records that stop in the middle, ids that are reused, a
poller deadline that two owners need, and a descriptor that must be closed once
whoever gets to it first.

| Component | State it keeps | Operations | What makes it correct |
|---|---|---|---|
| close lifecycle (`close.go`, `close_linux.go`) | `lifecycle.state`, `abort` and `done` channels, `shut` | Close, CloseWithTimeout, Abort, Shutdown | one release; no channel closed twice; answers are true; every call returns |
| send path (`send_linux.go`) | `sendState`: lock, caller's deadline, interrupted, shutdown mark, who ended the wait | SendMsg, SendMsgContext, Write, SetDeadline; context callback; wakeShutdown | the caller's deadline survives; a wake reaches who it is for; the error names what ended the wait |
| association end (`term_linux.go`) | `termState`: latched errno, failed, ended, drained | every read and send | one verdict for all calls; nothing queued is lost; no read parks for ever |
| receive path (`recv_linux.go`) | `recvState`: partial, record being served, subscriptions, handler | Read, RecvMsg, ReadMsg, Subscribe | messages stay whole; interruptions are reported; notifications reach the handler in order |
| Dial (`dial_linux.go`, `newConn`) | attempt, poller deadline, context callback | Dial and its attempts | only established associations; nothing of the dial left on the Conn; every socket closed; never a self-connection |
| Endpoint close (`endpoint_linux.go`) | ids already asked to shut down, `assocGone`'s view of the list | Close over a changing list | every listed association is asked; release on evidence; ends |
| Endpoint PeelOff and receive | `recordMu`, the record being assembled | PeelOff, RecvMsg | records stay whole; no association lost for want of a descriptor |
| send defaults, options (`send_linux.go`, `options*.go`) | cached defaults, `optMu` | SetDefaultSndInfo, SetDefaultPrInfo, their getters, SetPathThresholds, SetPathParams | sends and getters meet what was set last; no change of a shared kernel word is lost |
| bound addresses (`conn_linux.go`, `listener_linux.go`, `endpoint_linux.go`) | snapshots, `bindMu` | BindAdd, BindRemove, an Endpoint's first Connect, LocalAddr, the path scope | an older list never replaces a newer one; the last address is not removed |
| Listener, adoption (`listener_linux.go`, `socket_linux.go`) | deadline, descriptor ownership | Listen, Accept, FileConn, FileListener, Close | each descriptor closed by its one owner; no association lost for having ended; Close ends every Accept |
| Config (`config.go`, `config_linux.go`) | none (a list of steps) | prepare, Control, applyConfig | a valid Config is refused only by the host; a socket handed out has all of it |
| assembly buffers (`recv_linux.go`) | `readMsgBuffers`, shared by every connection | get, put, the growth of a message | no two calls share memory, and nobody keeps what was given back |
| notification records (`notification.go`) | `notificationAccumulator`, reused | add, peekType, keep, finish | whole records or a refusal, however recvmsg divides them |
| zones (`sockaddr.go`) | `zoneCache`: table, time, lock | index, refresh | no index older than the lifetime |

Interactions.  `lifecycle` is embedded in Conn and Endpoint and calls back into
them through `closeOps`: Conn's `startShutdown` issues the SHUTDOWN primitive and
wakes parked senders (`wakeShutdown`); Endpoint's walks the list of ids.  Sends
and reads share `termState`, since Linux gives an association's error to
whichever of them calls first.  A Dial ends in `newConn`, as do Accept, PeelOff
and FileConn.  Every wait goes through the Go runtime poller, whose one deadline
per direction is shared by the caller (SetDeadline) and the package (interrupts).

Hard behaviours.  (a) Compare-and-swap races of Close and Abort, with Shutdown
beside them.  (b) A context, a deadline, a shutdown and buffer space racing to
end one send.  (c) An errno, a record and a zero-length read that tell of the
same end, taken by different goroutines.  (d) Partial delivery, aborted in the
middle, across three kinds of read.  (e) A connect outcome that is gone again
before the dial first looks.  (f) A list of associations that changes under a
close.  The `hazards` of `PROJECT.json` give them line by line.

### Which module models what

| Module | Models | Environment it assumes |
|---|---|---|
| `Descriptor` | abstract: one owner, one release, true answers | - |
| `Lifecycle` | `close`, `abortNow`, `shutdown`, `finish*`, `closeClock`, `sockCloseOps` | the association may end or not; any closeOps call may fail |
| `SendWait` | `send`, `attempt`, `interrupt`, `wakeShutdown`, `setDeadline`, the end of a send | poller, buffer space, peer |
| `AssocEnd` | `termState`, and `attempt` of reads and sends as far as they consult it | Linux's queue, socket error and shutdown flag |
| `RecvRecords` | `Read`, `RecvMsg`, `ReadMsg`, `Subscribe` over the records of a queue | Linux's record order and framing |
| `Dial` | `dial`, `dialOnce`, `awaitEstablished`, `newConn`, `selfConnected` | handshake, edge-triggered poller, context |
| `EndpointClose` | `endpointCloseOps` under `lifecycle.close` | associations that appear and end; `idr_alloc_cyclic` |
| `PeelOff` | `PeelOff`, `RecvMsg` and `recordMu` | descriptor table, migration of queued records |
| `Accept` | `listen`, `fileListener`, `accept`, `fileConn`, `adoptFile`, `wrapSocketFile`, `newConn` | peers, failing system calls, the owner of an inherited file |
| `Setup` | `Config.prepare`, `setupSocket`, `applyConfig`, `enableAuth`, `openEndpoint`, `setupEndpoint` | the kernel's endpoint, sysctls of the host, Config.Control |
| `Options` | default send parameters and `encode`, path thresholds, `BindAdd`, `BindRemove`, `Connect` as far as it binds, the snapshots and the path scope | the kernel's defaults and lists, the peer's ASCONF |
| `ZoneCache` | `zoneCache`, `encodeZone` | clock, the host's interfaces |
| `ReadBuffers` | `readMsgBuffers` and `readMsg`'s buffer | messages of any length |
| `Notes` | `notificationAccumulator`, `addPiece`, `servePiece` and their callers | how recvmsg divides records |
| `Part` | which part a behaviour is of; extended by the modules that `Parts` composes | - |
| `Parts` | composes `Options`, `ZoneCache`, `PeelOff`, `Setup`, `ReadBuffers` and `Notes` | - |
| `*Proofs` | theorems about the module of that name; `OpeningProofs` about `Dial`, `ZoneCache` and `PeelOff`, `WaitProofs` about `SendWait` and `EndpointClose`, `BufferProofs` about `ReadBuffers`, `AssocEndProofs` about `AssocEnd` and `Notes` | - |
| `MC*` | small instances for TLC; `MCParts` is the one of `Parts` | - |

## 2. The modules

**Lifecycle.**  A caller's `pc` is the next atomic operation of the goroutine: each
atomic load, compare-and-swap, channel close and `closeOps` call is one action
(`Claim`, `Poll`, `Select`, `ClaimAborting`, `CloseDone`, ...), so TLC sees every
interleaving the Go memory model allows between them.  `op` is Close with grace,
Close without (`closeNow`, the CloseWithTimeout that is an Abort), Abort or
Shutdown.  `made` is false for a zero Conn.  `assoc`, `releases` and `refused`
are what the calls do to the kernel.  Closing a closed channel, a Go panic, is the
state "panicked".

**Descriptor.**  What a caller may rely on: the descriptor is open, claimed by one
caller, or released; a call that claims it releases it; ErrClosed is only answered
for a claimed descriptor.  `Lifecycle` implements it by the mapping at its end.

**SendWait.**  `send.mu` and `deadlineMu` are variables, and each region under
`deadlineMu` is one step except `setDeadline`, whose look at the clock and
replacement are two (`CheckDeadline`, `ReplaceDeadline`), since the poller does not
take that lock.  The poller's deadline is "none", "ahead", "past" (the caller's) or
"ago" (aLongTimeAgo, the package's).  The context callback is a second process.

**AssocEnd.**  The kernel's part is explicit: a queue, `skErr` that one call takes,
`rcvShut` for a one-to-one socket.  A failing association queues its COMM_LOST
record and sets the error; somebody outside may take the error (`outside`).

**RecvRecords.**  One step is what one `recvmsg` returned and all the code does
before the next.  A message has `MsgLen` pieces; `held` is the piece the caller
would have to see continued, `owed` the notifications taken for the handler.  A record
has a kind, or is too short to tell its type ("Untyped"), and a form: whole, not of the
length it declares, over the accumulator's limit (`Framing` is the error of each), or
cut by what follows it.

**Dial.**  `awaitEstablished` step by step: the look at SO_ERROR, SCTP_STATUS, the
peek and the second look are separate, since the kernel changes between them.  The
poller is edge-triggered (`edge`, `poll`).  `settled` records whether the setup was
complete or refused when the context ended.  The call that clears the read deadline
(`Clear`) may fail, which abandons an established association.

**EndpointClose.**  Associations are numbered by birth, which a reused id is told
apart by.  `seen` is the youngest when the list was last found empty.  CloseAssoc and
AbortAssoc go on until the descriptor is released: they check that the Endpoint is open
before their call, and a close may begin in between.

**PeelOff.**  Records of all associations share the endpoint's queue; a peel-off
moves those of one association away, also the rest of a record a reader is in the
middle of, unless `recordMu` forbids it.

**Accept.**  A maker is a goroutine that calls Accept again and again, or FileConn
once.  `cur` is the association whose socket it has, from `accept4` or the `dup` to
the Conn; each system call of `newConn` is a step that may fail by itself, and
between any two the association may end.  `InRead` is the read lock of the
Listener's file, which one Accept at a time holds.  `cut` says that an abortive
close left its marks on a socket, which the owner of a handed-over file would see.
`excused` collects the associations that may be lost.

**Setup.**  `prepareOK` and `ops` are `prepare`: which Configs are valid, and the list
of operations in its order.  The Config's fields that others depend on (AUTH and its
lists, ASCONF, interleaving, stream reconfiguration, defaults, subscriptions) keep
their values; a field of no consequence to another is unset, good or bad.  `Apply` is
one operation, `KernelRefuses` what the kernel holds against it in the state the
earlier ones, and Config.Control, have left, on hosts with either setting of the AUTH
and ASCONF sysctls.  A DefaultSndInfo is applied as the code applies it: the policy is
read, overwritten with the flags (`OverwriteSndInfo`), and set again unless it is
PRNone.  `left` is the policy that Control left, so that ConfigHolds can say that a
Config without a DefaultPrInfo keeps it.

**Options.**  A step is one lock operation or one system call.  `kern` is the one word
the kernel keeps both defaults in, `def` the copy sends are completed from, `set` what
the callers set last.  `torn` says that the write that restores the policy has failed,
and `misled` that a send or a getter met anything else.  Thresholds are those of the
association and of a path of it; what is written for the association the kernel
applies to its paths.  `addrs` are the kernel's lists and `snap` the package's, with
`fresh` for a last read that did not fail.  An Endpoint may be opened unbound; a Connect
binds it and takes the first snapshot under `bindMu`.  `blind` marks a BindRemove that
had no list to compare with.  Where ASCONF was negotiated the kernel's list of the
association follows a bind at once: the time until the peer has acknowledged it is not
modelled.

**ZoneCache.**  `until` remembers when a name last had each index, so that the age of
an answer can be told.  The read of the host's table and the stamp of the copy are two
steps (`interfaces`, `store`), and the clock may move between them.

**ReadBuffers.**  Memory is numbered; `holds` says whose bytes are in it.  A class of
buffers, its slots and the limits are small numbers, but the arithmetic of
`sizeToGrow` and `classFor` is the code's.

**Notes.**  A byte is its record and its place in it, so that a byte of another record,
or of another place, is told apart.  Records of every length, with headers that declare
every length, are cut into pieces everywhere.

**Part, Parts.**  The parts have no state in common, and a behaviour is of the one that
`part` names.  The variables of the parts it is not of are Absent and do not change;
in a behaviour of another part than the options, a socket is at rest on which nothing
is called.  A property of a part is stated of its behaviours (`part = "zones" => ...`),
and each part has a specification of its own (`ZoneSpec`, `PeelSpec`, `SetupSpec`,
`BuffersSpec`, `NotesSpec`), of which the theorems are: the behaviours of `PartsSpec` in
which `part` has its value.

## 3. Runs

| Run | Bounds | Shows |
|---|---|---|
| `lifecycle` | 2 callers, each calling any number of times | no double channel close, nil means ended, no wait on an untouched association, every call returns, implements Descriptor |
| `send_wait` | 1 sender, any number of sends, deadlines none or to come | the deadline is restored, callbacks are joined, a shutdown reaches a parked send, errors are true, a woken send returns |
| `send_deadline_race` | 1 sender, all deadlines | expected violation, see findings |
| `assoc_end` | 2 readers, 1 sender, 1 arrival | one verdict, nothing left unread, a failure is never a graceful end, a read of an ended association returns |
| `recv_records` | 2 readers (symmetry), all three reads, 2 messages of 2 pieces, 1 notification of any form | whole messages, no orphan pieces, aborts reported |
| `read_msg` | 1 ReadMsg loop, 3 notifications of any kind, queue limit 1 | the same past the limit, notifications reach the handler in order, an abandoned message ends its ReadMsg |
| `recv_malformed` | 1 reader, 1 notification | expected violation, see findings |
| `dial` | 2 self-connect retries | only established associations and never itself, every socket it opened closed, a verdict beats the context, the dial ends |
| `endpoint_close` | ids 1..2, 3 associations | each listed association is asked, nil leaves nothing up, the close ends |
| `accept` | 2 makers, 1 association and 1 handed over | one owner per descriptor and the socket of a handed-over file left as it was, no association lost for having ended, live Conns whole, Close ends Accept |
| `parts` | one behaviour is of one part (symmetry in the goroutines): about 700 Configs, each in two or five constructors, 2 goroutines on options, zones, buffers and PeelOff (2 associations, 2 records of 2 pieces, 2 descriptors), records of up to 6 bytes | the chunk list fits, a Config holds or is refused by the host, defaults in force, thresholds kept, snapshots current, zones recent, memory of one's own, notifications whole, records whole beside PeelOffs, no association lost but in the documented race, `recordMu` not held across a wait |
| `zone_lookup_race` | 2 goroutines looking up zones, 4 moments | expected violation, see findings |

Why the bounds are enough to be of interest.  Lifecycle: two callers meet at every
pair of steps, and each calls again, so that a late third call is one of theirs; the
proofs cover any number.  SendWait: sends of one Conn exclude each other by
`send.mu`; what a late callback or a wrong deadline would harm is the same
goroutine's next send.  AssocEnd: the error is taken by one of three calls and must
reach the other two.  RecvRecords: two messages are needed to mix two, two pieces to
cut one.  EndpointClose: three births over two ids reuse one.  PeelOff: two
associations, since the harm is another's record read as the rest of this one.
Accept: two makers contend for the read lock, and an accepted and an adopted Conn
are made at the same time; with two queued associations the invariants hold as well
(1.2 million states up to symmetry, in a run that is not kept).  Counters that the code
leaves unbounded (arrivals, records, births, notifications) are bounded in the
guards by the constants named in each module.  The parts share no variable and no
lock of the package, so that checking one at a time leaves no interleaving out; their
run has the variables of one at a time.  Two goroutines are enough for a lost update;
the proofs of Options, ZoneCache, PeelOff and ReadBuffers cover any number.  In Setup an
association's chunk list holds 3 types and an endpoint's 4, for the 16 and 20 of Linux:
the automatic pair and one more fill it.  In Notes the header is 2 bytes, the prefix 3
and the limit 5, which keeps their order.

In EndpointClose, `Wrapped = FALSE` keeps an id that is on the list from being given
to another association before the list is read again.  On Linux that takes 2^31 - 1
births between two looks.

Deadlock is checked everywhere: modules of one-shot operations end in an explicit
stutter (`Returned`, `Finished`).

Fairness.  Goroutines that can run do (weak fairness of their steps), and time
passes (`Expire`).  Steps that take a `sync.Mutex`, or the read lock of a file,
which others keep taking get strong fairness, since Go hands either to a waiter in
the end.  Nothing is owed by the peer, by buffer space, by a canceller, or by a
caller's Close: no liveness property leans on them.  In Dial a kernel that has begun
to fail a setup finishes, since the two effects are one softirq.  `recv_records`,
`parts` and the expected violations state safety and assume no fairness.

Each property has a mutant in `PROJECT.json`: a plausible bug in one mapped
definition (a dropped guard, a missing reset) that TLC finds with that property.

## 4. Findings

Properties taken from the documentation that the code does not have, each shown by
a run with `expect: violation`:

* `send_deadline_race`: `setDeadline` reads the clock (`send_linux.go:590`) and
  replaces the deadline afterwards.  A deadline that passes in between ends the
  wait, which may then report the context error that SendMsgContext's doc excludes.
* `recv_malformed`: `recvNext` clears `partial` and returns the framing error of a
  kept record alone; the branch for records not kept joins both.
* `zone_lookup_race`: `refresh` stamps its copy of the interface table after it has
  read it.  A lookup that began in between takes the copy for one read after it began
  (`sockaddr.go:275`), and an interface created in between is not "found at once", as
  the doc of the cache says.  The next lookup of the name finds it.

The properties are stated so as not to claim three more things the code does not
do.  A restart abandons a partly read message, and Read goes on with the next one
without ErrMessageInterrupted.  After a partial Read, a ReadMsg drops the record of
the abort, and nobody reports the interruption.  With `Wrapped = TRUE`, an id passed
on between two looks at the list is taken for one already shut down.

## 5. Proofs

`LifecycleProofs` proves, for every set of callers and with no assumption on it:

* `TypeCorrect`, `ReleasedAtMostOnce`, `NoDoubleChannelClose`, `TruthfulAnswers`
  (DoneAfterRelease, AbortReturnsAfterRelease, NilCloseEndsAssoc),
  `WaitsAreStarted`: the invariants of the run `lifecycle`, and three more
  (ReleasedOnce, DoneAfterRelease, AbortReturnsAfterRelease) that no run repeats;
* `ForwardOnly`: the action property StateForward, also proved only;
* `Refinement`: Lifecycle implements Descriptor.

Argument.  None of the invariants is inductive: that a second caller cannot
release depends on which step each caller is at.  `IInv` adds four facts to
them.  `CallPCs`: which call a step belongs to.  `Ownership`: at most one
caller is between its winning compare-and-swap and its close of `done`, and `state`
says how far it is.  `Overtaking`: the abort channel is open until the one Abort
that moved closing to aborting closes it.  `EndOfAssoc`: the owner that goes to
`release` has seen the association gone.  With `ZeroStaysZero`, a Conn never
opened stays so.  `InitIInv` and `NextIInv` show `IInv` inductive, one step per
action; every invariant is a conjunct or a consequence.  Refinement maps each
action: the winning compare-and-swap to a claim, `release` and `abortive` to a
release, the return to an answer, all else to a stutter.

`WaitProofs` proves, for every set of senders and every set of deadlines they set,
the three safety properties of `send_wait`: `NoTraceOfASend`, `ShutdownWakesAll` and
`ReportsAreTrue`.  The run has one sender.  Argument: the send lock has the one owner
that is past it (`Owner`); a callback and its completion belong to that owner until it
has joined (`Callbacks`); a flag is set only for a send that is parked (`Flags`); so
that the descriptor's deadline is the caller's unless a wake has moved it
(`Deadline`).  `Shut` is the handshake of the mark and the primitive, and `Crossing`
and `Errors` follow a deadline that has passed from the clock to the error.  Assumed:
no sender is the value that stands for none.

It also proves, of EndpointClose, `NothingLeftUp` for every number of ids and
associations, and `EveryoneIsAsked` where `Wrapped` is false, which it needs.  Argument:
all steps but a birth only age the associations (`Ages`); an id of the list read last is
held by nobody else (`IdsAreKept`); hence an id in `shut` is that of an association
already asked (`Asked`).

`AssocEndProofs` proves `OneVerdict`, `ReadsReachTheEnd` and `EndsAreTold`, for any
readers and senders (`EndAssumption`: no goroutine is both).  Argument: what was reported is what is latched, and the latch
holds what Linux set or, where that was taken outside, ENOTCONN (`Latch`); Linux keeps
the error until it is taken, and the record of the end is last in the queue (`Kernel`).

It also proves, of Notes, `NoteIsWholeHolds`: the property NoteIsWhole of the run
`parts`, for every header, prefix and limit, and for records of any length that declare
any length.  Argument (`NoteInv`): the accumulator holds the first bytes of the record
that is being read, as many as it is to keep of it, or has refused it, and then no
further byte could make it sound (`NotingInv`); a record that is being served was
accepted and is served from its start (`ServingInv`); between records nothing of the
last is left (`DoneInv`).

`OpeningProofs` proves, of Dial, `NoSocketLeaks`, `ConnReady` and `SettledIsReported`,
with the type invariant, for every bound on the retries.  Argument: `Balance` counts
descriptors by step; `Kernel` says that the records of an attempt tell what became of
its setup and stay; `Verdict` carries the verdict along the winning path; `Callbacks`
says that no callback is under way outside the wait, and that its deadline means a
context that is done.

It also proves, of ZoneCache and PeelOff, for any goroutines, associations, interfaces
and limits, `NoZoneTooOld`, `PeelCostsNothing`, `HolderAlwaysRuns` and `RecordsAreWhole`:
the properties ZoneIsRecent, LostOnlyInRace, HolderRuns and RecordWhole of the run
`parts`.  Argument: the lock is held at the steps that need it and by whoever is there
(`PeelInv`, `ZoneType`); so a descriptor is left for a peel-off that has looked, unless
another goroutine has taken one since, and a copy of the table is no older than its time
and one read (`CopyInv`).  A notification is begun only within a callback, its rest
heads the queue (`BegunInv`), and no other one of the queue is begun (`FreshInv`): a
peel-off, which filters the queue, runs when none is begun, and what it leaves is
made of whole records, whichever they are.

`OptionsProofs` proves `ThresholdsNeverLost`, `DefaultsAlwaysInForce` and
`SnapshotsAlwaysCurrent` of `Options`, whose Spec is the part of that name in the run
`parts`.  Argument: each lock is held at the steps that need it (`LockInv`); then who
writes thresholds has read those in force (`ThrInv`), the kernel's word and the copy
differ only between the two writes (`DefInv`), and a snapshot that was read is behind
only while a bind, or the Connect that bound the endpoint, has still to read (`LaddrInv`);
`ScopeInv` says the same of the scope, and `RemoveInv` that a removal that was allowed
leaves an address until it is made.  What is assumed of the constants of `Options` is
`OptionsAssumption`, which the theorems have as a premise; `Parts` assumes it, as
`ZoneCache`, `PeelOff`, `ReadBuffers`, `Notes` and `Setup` assume their own, and TLC
evaluates them all.

`BufferProofs` proves `ResultIsOwnHolds`: the property ResultIsOwn of the run `parts`, for
any finite set of connections and any sizes, slots and limits.  Argument (`BufferInv`):
a free buffer is one of its class and in the cache once (`PoolInv`), the buffer of a
call is of its class or its own (`BufInv`), the one it grows into is larger and another
(`GrownInv`), and no buffer is in two of these places; then only what a call assembles,
or has returned, holds bytes (`HoldsInv`), and a result is in memory of its call's own
(`ResInv`).  That a class always has memory for one more buffer is a count of the places
that refer to one.

`AcceptProofs` proves `DescriptorHasOneOwner`, `EndNeverLosesAConn` and
`ReturnedConnIsWhole`, for any sets of makers and of associations
(`AcceptAssumption`: the association handed over is not one of the queue, and neither
is the value that stands for none).  OneOwner counts the makers of an association; the
inductive invariant `AcceptInv` says instead where an association is: queued once, with
one maker, with its Conn, or lost (`PlaceInv`).  `FdInv` gives it a descriptor exactly
while a maker or a Conn has it, and `ConnInv` says what a Conn under construction
knows at each step of `newConn`, or that its association has ended.  The steps fall into
kinds (one that waits, takes an association, makes its Conn, gives it, loses it or
releases it), each with a lemma, and an action is of one of them.

`RecvRecordsProofs` proves `ReadMsgReturnsOneMessage`, and the action properties
`NoReadBeginsInTheMiddle` and `AbortIsReported`, for any readers, limits, messages, pieces
and notifications (`RecvAssumption` says what the kinds of calls and notifications are).
The runs have two readers and two messages of two pieces.  Argument: `StreamInv` is
Linux's side, that between two records with nothing but passing notifications between
them a piece follows its predecessor or begins a message after one that has ended;
`HeldInv` ties the front of the queue to what the caller was given, and with it
`partial` to the middle of a message; `ReadOK` says that a ReadMsg in the middle of a
message finds its next piece before any other.  Stated for every pair of positions
instead of recursively, they survive an append and a removal at the head without
induction (`AppendKeeps`, `PopKeeps`).  The attempt to prove `Types` showed that the model
had let a read that ended outside `recv.mu` release another reader's lock; `Finish` now
releases only its own, as `readMsg` does.

The inductive invariants `AcceptInv` and `RecvInv` hold on the instances of the runs
`accept` and `recv_records`, by TLC.

Only model-checked:

* liveness, and with it ENABLED, which are out of the prover's reach: EveryCallReturns,
  WokenSendReturns, EndedReadReturns, InterruptedReturns, DialEnds, CloseEnds,
  CloseEndsAccept;
* properties of lists that are concatenated or folded, which need induction over data:
  NotesReachHandler, and ConfigHolds and ChunkListFits (a list of operations is built
  and applied one by one).

## 6. Not modelled

* Byte layouts, encoders and parsers (`abi.go`, `msginfo.go`, `sockaddr.go`,
  `ParseNotification`): pure functions of bytes with table tests against C.
* One-system-call option accessors: they keep no state.  `Options` has the ones that
  take two calls.
* I-DATA in `RecvRecords`: ReadMsg is refused for it, and Read tracks nothing.  The
  check of SCTP_RCVINFO on an Endpoint's messages: a pure test of ancillary data.
* In Options, a bind to the wildcard address, which stands for every address in the
  lists, and addresses the kernel adds or removes by itself (`auto_asconf`).
* In RecvRecords, a malformed record that has its type but ends before the field that
  says what happened to the association: it is taken to have that field.
* Stubs for other systems, names and error wrapping.
* The composition of Lifecycle with SendWait and AssocEnd: each has the steps of a
  close that concern it (`Primitive`, `WakeShutdown`, `ReleaseConn`; the shut for reading),
  in the order Lifecycle takes them.  Their product has not been checked.

## 7. What could come next

Proofs about Setup, and RecvRecords with I-DATA.
