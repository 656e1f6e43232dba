# CrSDKPy in TLA+

Models, model checks and proofs for CrSDKPy, a Python interface to Sony's Camera
Remote SDK: the native bridge (`native/src/bridge.cpp`), the helper process around
it (`native/host/`), the Python backends that call them, and the public API
(`src/crsdkpy/`).  Paths below are relative to the repository.

## 1. The system

A client holds an `SDK`, the `SDK` a *backend*, and the backend reaches the vendor
library in one of three ways: in this process through a C ABI (`NativeBackend`), in
a helper process over pipes (`HostBackend`, frames of `_ipc.py` and
`ipc_protocol.h`), or not at all (`SimulatedBackend`, a deterministic scheduler).
Camera notifications arrive on vendor threads, wait in a bounded queue of the
bridge, are polled by the backend and end in two Python queues of the `Session`:
one for the user, one (`_op_events`) for operations that wait for something.

| Component | State | Operations | Interacts by | Hard because | Correct when |
|---|---|---|---|---|---|
| Session table of the bridge | `g_initialized`, `g_slots` with generations, `g_camera_keys` | init, shutdown, enumerate, open, close | calls under `g_mutex` | slots are reused, the table is dropped with the SDK | a handle reaches its own session or none; no camera stays connected with nobody to close it |
| Preview transfers of a bridge session | `transfer_gate_`, `transfer_` | fetch, take, vendor delivery, close | vendor callback without a request identity | deliveries late, partial, empty; close while a fetch waits; two threads | a fetch answers with its own still, once, and gives the gate up |
| Connection and event queue of a bridge session | `state_`, connect wait, event queue, postview | open, callbacks, poll, pull | vendor threads, condition variables | callback before the wait, drop-oldest at the limit | no lost wake-up; nothing dropped silently |
| `Session` | `_op_events`, user queue, half-press flag, content baseline | autofocus, capture, gated capture, content, events | backend calls, polled events | late, lost, reordered events; the link drops; leftovers of earlier calls | a release happens in focus, an exposure is the call's own, stages are released, calls return |
| Hosted backend | `_state`, `_process`, `_handles`, `_session_counter` | start, shutdown, open with retry, use, close, state | one request and response at a time under a lock | the process dies anywhere, restarts, several threads | an id reaches its own session; a crash is not a close; calls end |
| Wire format | bytes on the pipes | encode and decode frames and arguments | both ends of the pipes | widths, torn frames, sizing then fetching | a value, a list and a frame arrive whole, and what is described is the camera's |
| In-process backend | handle table, recording flag, frame sequence | as hosted, plus recording and live view | C ABI | fetch and take are two calls; record toggles | as for the layers below |
| `SDK` and `Camera` | cameras, open session per camera | discover, open, close | calls | a camera vanishes from an enumeration, one of several closes fails | every open session has an owner that closes it |
| Simulator | clock, scheduled events | as a backend | its own scheduler | cancelled operations leave events | stands for a camera |
| Properties, status, content projection, value types | none | conversions | calls | | |

The hazards, each at its line with the properties that bear on it, are listed in
`PROJECT.json`.

## 2. Modules

| Module | Models | Code |
|---|---|---|
| `SessionService` | the abstract promise: a handle reaches its session until it is closed, and nothing afterwards | contract of `backend/contract.py` |
| `BridgeSlots` | the session table | `bridge.cpp` 900-934, 1004-1213 |
| `PreviewTransfer` | one bridge session's preview transfers, with the two-call `get_preview` on top | `bridge.cpp` 473-659, 1620-1694, 1929-1961; `native.py` 1258-1298 |
| `EventStream` | one bridge session from the call that connects it, its event queue and announced postview, and the Session's two streams above it | `bridge.cpp` 380-500, 600-900; `session.py`; `events.py`; `native.py` |
| `SessionCapture` | autofocus, capture, gated capture and content of a `Session`, against a camera and a link | `session.py` 227-703, `capture.py` |
| `DeviceControl` | recording, live view and measured capabilities, shared by both native backends | `video.py`, `liveview.py`, `native.py` 352-395, 715-800 |
| `Ownership` | `SDK`, `Camera`, `Session` and the in-process backend over an instance of `BridgeSlots` | `sdk.py`, `camera.py`, `native.py` 880-1060 |
| `HostClient` | the hosted backend and its process; an instance of `BridgeSlots` is the process's table | `host.py`, `main.cpp` |
| `HostWire` | property calls byte by byte: slots, frames, sizing and fetching, description | `host.py`, `_ipc.py`, `main.cpp`, `native.py`, `_cabi.py` |
| `CameraProfiles`, `Simulator` | the simulated cameras and scenarios; the simulator's schedule, clock and commands | `simulator/`, `clock.py` |
| `X_proofs` | the theorems about `X`, for each of the above but `SessionService` and `CameraProfiles`; `PreviewTransfer_Simulator_proofs` holds those of both its modules | |
| `MC...` | values for TLC: threads, stills, keys, focus channels, camera records | |

How they compose: `BridgeSlots` is instantiated by `HostClient` (the table of the
helper process) and by `Ownership` (the table of this process), and both it and
`Ownership` are shown to implement `SessionService`, each at its level: handles of the
bridge, and `Session` objects of the client.  `PreviewTransfer`, `EventStream`,
`SessionCapture` and `DeviceControl` look into one session each; `HostWire` looks into
one exchange of `HostClient`.

### BridgeSlots

Every exported call holds `g_mutex` throughout, `crsdkpy_open_session_ex` included
with its wait for the connection, so each call is one action.  `slots` is
`g_slots`; an empty `shared_ptr` is `NoSession`, and a session object is the number
of its open.  `Resolve` is `resolve()`.  Indexes start at 1.  `connected` is the set
of sessions for which the vendor library holds a device.  `grants`, `opens` and
`epoch` are histories: the handles ever handed out, and when.

### PreviewTransfer

One bridge session.  `gate` is `transfer_gate_`; `transfer` is `PendingTransfer`;
steps are cut where the code gives a lock up.  The vendor's callbacks for one
accepted request are a short *script*: data below 100 %, data at 100 %, or
completion without data, in the orders the callback distinguishes.  A script may be
delivered at any time, also after the fetch that asked for it has ended; `late`
records that this happened.  `Session::close` is two steps because it gives
`transfer_mutex_` up between waking waiters and disconnecting.

### SessionCapture

One thread calls the session; each action ends where the code calls the backend
next.  The camera focuses, exposes, stores and reports, or does not; `wire` is a set,
so events are reordered and, when the link drops, lost.  Tags say which attempt,
shot or still an event is about; the code cannot see them, except the content id
of a content event, which may be absent.  A lens that has found focus is held while
the stage is pressed (single-shot autofocus).  A still is stored after its exposure,
in order.  `opq` is `_op_events`, `beq` what the backend holds for `poll_events`.

Letting the half-press go is two steps.  `LetGo` asks; the camera does it (`Clears`) when
it does, or much later, or never; `LetGoEnds` is the end of the polling, whichever way it
ended, because no caller looks at what `_release_half_press` returns.  `letting` is
therefore what a call may be held to: an engaged stage that has been asked to clear.  The
attempt goes through `af`.  What the camera publishes of it lands in pieces: each focus
report, and the indication that a direct read sees (`Indicates`), gets there by itself, in
any order and also when the half-press has been let go meanwhile, as the simulator's
scheduled events do.  `lens` is the attempt whose focus a direct read would report.  A
body that is in focus already may also say so at once and notify nobody.

`Settled` restricts the environment: an operation starts only when nothing of an earlier
one is still to be reported or let go (`Quiet`), and a camera that will expose is waited
for.  `MaxWork` bounds a behaviour as a whole: a capture counts three, an attempt and a
lost link two each.

### HostClient

Client threads share one backend.  Looking a handle up, exchanging frames under the
lock, and registering a new session are separate steps, because only the exchange is
under the lock.  Registering is four steps itself, as `open_session` does it: `+= 1` reads
the counter and writes it, the id is made of what the counter is by then, and the handle
is stored.  `Overlap` says whether the threads let their calls of `open_session` overlap;
if they do, two of them can get one id (section 5).  `given` remembers the session an id
was first issued for.  A shutdown that finds no process leaves the handles alone, as the
code's early return does.  The process serves a request (`Serve`, calling the actions of
`BridgeSlots`), dies at any point with pipes closed before or after its exit is
visible, and is started again.  `use` stands for every data operation on a session.
There is one camera, so a transport left behind by a dead process is one Boolean
(`held`); a connect then times out and the failed attempt clears it.

### EventStream

The vendor runs its callbacks one after the other on a thread of its own; `vendor` is
what the callback under way has still to do, step by step, because each of its writes
(the state, the event, the announced postview) is visible by itself.  `opener` is where
`Session::open` is: between finding the predicate of its wait false and sleeping it
holds the mutex, which `set_state` does not take.  `queue` is the bridge's bounded queue
and `dropped` what it dropped; `user` and `ops` are the two deques of the Session, `got`
and `opGot` what was taken from them.  `waiting` is the postview announced and not
claimed, `claimed` those a pull has claimed, before the vendor call that may still fail.
One client thread reads the stream by iterating, draining or waiting for a type, waits
for a state, asks for postview previews, and closes.

### DeviceControl

Client behaviours are records: which calls it makes, whether it lets the camera report
before it calls again (`patient`), whether it waits for the outcome.  `cam.rolling` is
what the camera does and `cam.shown` what it reports, which always trails: a press, the
end it leads to and a recording that breaks off by itself (`cam.broken` if it failed)
are each reported by a later step.  `cam.presses` are presses of the record button on
their way.  `since` remembers, from the beginning of a call, whether the camera recorded
or did not at some time, and whether it broke off.  A poll that brings no frame ends a
`frame` call; a measurement polls on.  That holds in process and hosted: `main.cpp` does
not translate `NOT_FOUND` after its sizing call, as `native.py` does, but the bridge
never gives that answer to a caller without a buffer.  `known` is what
`MeasuredCapabilities` and `FrameSequencer` remember.

### Ownership

Every public call is one action; the client is taken to be single-threaded.  Cameras
appear and vanish between discoveries, an open may raise after the bridge has connected,
the SDK is closed and started again.  `own` remembers which connection a `Session` object
was made for.  `crsdkpy_close_session` never fails, so in process `SDK.close` never stops
half-way; a hosted close may raise, which this module does not have.

### HostWire

Three paths: in process, through `main.cpp`, and through the helper that the tests use
(`tests/fake_host.py`), which reads the property code from another slot than `main.cpp`.
A frame is a sequence of units, read in pieces; the helper may die with any prefix
written.  The camera changes between any two calls into the vendor library, so also
between a sizing call and its fetch.  A slot holds `2 * SlotHalf` numbers: 32 bits in
the code, two bits in the run, so that the camera's values are four bits wide there.  In
process, properties are returned undescribed and busy is a connection error: `check`
(`_cabi.py`) has no busy category, `categorise` (`main.cpp`) has.  Which exception is
raised is part of the translation and decides nothing that a property says, only whether
a call raised.  The lock of `HostBackend` covers one exchange, not a call: what another
thread does between two exchanges of a call is covered by changes of the camera and by
refusals.

### Simulator

Time is kept as time left, so the clock needs no bound.  A setup fixes camera, mode,
destination, scenario, the commands the client uses, and whether it waits for a capture
or recording change to finish before it asks for the next.  All scenarios of
`scenarios.py` and all profiles of `profiles.py` are among the setups of the run.
`CameraProfiles` holds what a profile supports in each mode; frames and previews are
identities.  `LandFirst` is one turn of the loop of `drain_due`, and `Landed`, a fold of
as many turns as actions are due, is the loop.  The specification is `SimSpec`, and its
parts carry the same prefix, so that one proof module can extend it together with
`PreviewTransfer`, with which it shares no constant and no variable.

## 3. Runs

| Run | Question | Bounds |
|---|---|---|
| `slots_epochs` | handles never alias within an initialisation, connections have owners, the table implements `SessionService` | 2 cameras, 5 opens, 2 initialisations |
| `preview_transfers` | ownership of the in-flight mark, bytes served once, replies are own while the vendor is prompt, the gate is released | 2 threads, 2 stills, 2 accepted requests |
| `events_session` | a connection callback wakes the waiting open; every event reaches both streams once or is the oldest one dropped; types stay in order; the Session's state catches up; a seen postview can be pulled, once | queue of 2, polls of 1, 4 events, 2 captures |
| `capture_gates` | who leaves the half-press engaged has asked for its release, also when the camera does not let go in time or the link cut the call short; one exposure confirms one capture; a gated release is in focus, or was opened by a leftover of an earlier attempt; every call returns | 2 captures, or 1 capture with 2 attempts, or 1 of each and 1 lost link; direct reads only |
| `capture_settled` | in a settled session a gated release is in focus of its own attempt, though reports and indication land each in its own time; a capture never gets an earlier still | 2 captures, or 1 capture with 2 attempts; both focus channels |
| `device_calls` | a start never ends a recording; a returned call tells the truth, unless the recording broke off; live view that is there is used; two ways to count skipped frames agree | 6 client behaviours, 4 calls, 4 frames, 1 lost link |
| `owner_objects` | a connected camera has a `Session` that reaches it; nothing is connected after `SDK.close`; a `Session` behaves as a token of `SessionService` | 1 SDK, 2 cameras, 3 opens, 3 `Camera` objects, 2 starts |
| `host_threads` | ids reach their own sessions, no session is orphaned, while opens do not overlap | 2 threads, 2 opens, 1 process, which may die |
| `host_ends` | every call ends; a dead transport is recovered within one `open_session` | 2 threads, 1 open, 2 processes |
| `wire_calls` | values survive the slots; results are what the camera reported; lists are whole; the stream stays in step | 3 paths, 2 properties, 2 calls, 1 change of the camera, slots of 2 bits |
| `sim_session` | postviews and stills name each other; passing states end; new stills are found; live view pauses around an exposure | all scenarios and profiles, 3 commands, 2 frames |
| `wire_described` | violated, see section 5 | `main.cpp` alone, 1 call |

Why the bounds are enough.  A slot must be reused at least twice, and next to a slot
that is not, before its counters could confuse two handles: five opens of two cameras do
that on both sides of a shutdown.  Confusion of transfers needs a request, its leftover
and a second request; a race needs two threads.  Confusion of captures or attempts needs
two of them, an earlier and a later; a dropped link matters once, at every point.
`capture_gates` has no focus channel, since one report more per attempt multiplies the
orders in which they land; `capture_settled` has both.  A registry confuses two ids or
two processes with two of each. `host_threads` allows one process, and opens that do not
overlap, because otherwise the code does not keep its properties (section 5).
`host_ends` has one open: with two threads and two processes, more opens add nothing
that ends a call differently.  A queue of two with four events overflows twice; reads of
one leave events behind in it.  Both halves of a value of four bits take every sign and
every carry, and the settings lie inside, on and beyond the 64-bit boundary's image.  A
list of two can be cut, grow or shrink between sizing and fetching. Three commands of
the simulator let one overlap two others; its times are the profiles' own.

`CHECK_DEADLOCK FALSE` is set where clients run out of calls or a closed session is at
rest.  `wire_calls` and the runs of `Simulator`, `SessionCapture` and `HostClient` keep
the deadlock check, so that no call under way is stuck.  In `host_threads` threads are
interchangeable (symmetry); runs that check liveness use none.

Every module states its types in `TypeOK` (`SimTypeOK` in `Simulator`).  `slots_epochs` and
`preview_transfers` check it; in the other modules it holds in the same instances and is
left out of the configurations, which keep to what could go wrong in the code.

### Fairness

* `PreviewTransfer`: weak fairness of each caller's steps and of a close that began.
  Each wait in the bridge has a deadline (`await_transfer`), so a thread inside always
  has a step to take; starting a fetch and delivering data are owed by nobody.
* `SessionCapture`: weak fairness of the calling thread.  Each wait loop has a
  deadline that reads the clock, so its expiry is a step of that thread.  The camera
  and the link owe nothing.
* `HostClient`: weak fairness of each thread, and strong fairness of taking the lock:
  a thread that asks for an `RLock` again and again as others release it gets it.
  The process answers as long as it lives.  The read of a response has no timeout, so
  a process that hangs without dying would block its caller; `CallsEnd` excludes that
  case, and only that case.

## 4. Proofs

Eight modules hold the theorems about the nine state machines; the prover checks every
leaf. A theorem holds for every value of the constants that the assumptions of its
module allow, so for any number of threads, cameras, opens, captures, events or calls:
the bounds of the runs do not enter. Every proof has the same form. `IInv` (`SimIInv`
for `Simulator`) is an inductive invariant; there is a lemma for each action (or for
each group of actions that do the same to the state) that `IInv` survives it, and the
theorems follow from `Init => IInv`, `IInv /\ [Next]_vars => IInv'` and what `IInv`
says. Each `IInv` was checked by TLC on the instance of the module's run first (with its
quantifiers over `Nat` cut to the numbers of the instance).

| Module | Theorem | States |
|---|---|---|
| `BridgeSlots_proofs` | `HandlesNeverAlias`, `ConnectionsHaveOwners`, `TypeCorrect` | `NoAliasing`, `ConnectionsOwned`, `TypeOK` |
| | `TableImplementsService` | the table implements `SessionService` |
| `PreviewTransfer_Simulator_proofs` | `GateHolderOwnsFlight`, `BytesServedOnce`, `PromptReplyIsOwn`, `TypeCorrect` | `InFlightOwned`, `ServedOnce`, `ReplyIsOwn`, `TypeOK` |
| | `PostviewsOfStills`, `EveryTransientEnds`, `NewStills`, `StreamPausesForExposures`, `Typed` | `PostviewNamesStill`, `TransientEnds`, `NewStillsFoundInTurn`, `StreamPauses`, `SimTypeOK` |
| `EventStream_proofs` | `WaiterIsWoken`, `EveryEventAccounted`, `TypesStayInOrder`, `StateIsCaughtUp`, `PostviewsServed` | `WaiterWoken`, `EventsAccounted`, `TypesInOrder`, `StateCatchesUp`, `PostviewServed` |
| `SessionCapture_proofs` | `ExposureConfirmsOnce`, `HalfPressIsReleased`, `ReleasesInFocus`, `TypeCorrect` | `EventConfirmsOnce`, `HalfPressReleased`, `ReleaseInFocus`, `TypeOK` |
| | `ContentIsNotEarlier` (under `Settled`) | `ContentNotEarlier` |
| `DeviceControl_proofs` | `SkippedFramesCounted`, `BothCountsAgree` | `FramesAccounted`, `MeasureAgrees` |
| | `StartIsNoStop`, `ReturnsTellTheTruth`, `UsableIsNoticed`, `TypeCorrect` | `StartNeverStops`, `ReturnedIsTrue`, `LiveViewNoticed`, `TypeOK` |
| `HostClient_proofs` | `TypeCorrect`, `OneRetryIsEnough` (two processes) | `TypeOK`, `RetryClearsHeld` |
| | `NothingOrphaned`, `OwnSessionReached` (one process), `RetiredStaysRetired` (all under `~Overlap`) | `NoOrphan`, `CallsReachOwn`, `RetiredNamesNothing` |
| `Ownership_proofs` | `CamerasAreHeld`, `NothingStaysConnected`, `TypeCorrect` | `ConnectionsHeld`, `NothingConnectedAfterClose`, `TypeOK` |
| | `OneSdkImplementsService` (under `Single`) | `Session` objects implement `SessionService` |
| `HostWire_proofs` | `ValuesReachCamera`, `ResultsWereReported`, `ListsAreWhole`, `FramesStayInStep` | `SetReachesCamera`, `ResultHeld`, `ListWhole`, `StreamInStep` |

### Why the invariants are needed

*BridgeSlots.*  `NoAliasing` speaks of handles that are current and says nothing that
keeps an old handle from becoming current when its slot is filled again.
`GrantsTracked` does: a handle of this initialisation has at most its slot's generation,
and if it has exactly that, the slot holds its session or none.  `GenerationBounded`
keeps the counter from wrapping.  For `ConnectionsOwned` a second invariant, `OwnInv`,
says that what is connected is what the slots hold, that no session sits in two slots and
that each open slot's current handle was granted, once.  Both together give the
refinement: a step of the table is a step of `SessionService` or a stutter, with the
handles of the current initialisation as its tokens.  The lemmas at the end of the module
(`TableInv` and one lemma per operation) are what `HostClient_proofs` and
`Ownership_proofs` use through their instances of the module.

*PreviewTransfer.*  `ServedOnce` needs to know of deliveries that have not come yet:
`Fresh` says that what is held was never handed out, and that what is still to come is
neither held nor handed out.  `FetchIsOwn` follows a prompt request from the moment the
buffer is cleared until the bytes are in it.

*EventStream.*  Events carry numbers.  `QueueNumbered` says that the queue holds the
newest ones without a gap, so `Floor` is the number of the last that left it, and
`StreamWhole` that what was taken from a stream and what it holds are exactly the
numbers up to `Floor` that were not dropped.  `VendorInOrder` lists what a callback under
way may still have to do; `StateTold` relates the state of the bridge to the newest
connection event, and that to the state the Session knows.  `WaiterLooked` says why
nobody sleeps through a notification that is sent without the mutex: after the store a
push is still to come.  `PostviewsClaimed` says that the newest
postview announced waits or was claimed, and that the one that waits is no Capture's yet.

*SessionCapture.*  `EventsKnown`, `OnePlaceEach` and `Consumed` follow the event of an
exposure: it is in one place, and once a Capture has it, it is nowhere.  `Holding` says
that the gate's stage is engaged and not being let go while the gate waits and when it
has opened, and that a stage left engaged at the end was asked to clear.  `OwnFocus`
follows the current attempt: whatever a direct read or a report says of *it* is true, so
a gate that opens by it opens in focus.  For a settled session `FocusFresh` adds that
nothing else is read or heard of focus, since neither a report, nor an indication, nor an
attempt that still publishes is left when a gate begins; and `ShotsInTurn` that only the
newest Capture's shots are still to be stored.  Without `Settled` both are false, and with
them what `ReleaseInFocus` excepts and what `ContentNotEarlier` says (section 5).

*DeviceControl.*  `ButtonFollowed` says what a patient client may conclude at each stage
of a call from the state it last saw, `SeenSince` that what the camera does and what it
reports were so at some time since the call began; `WindowsCounted` relates the two ways
to count skipped frames while a measurement is under way.

*HostClient.*  `CallsFit` says what a call carries at each stage, `IdsInv` that an id in
use was given a session and its handle was issued, `ClosedGone` that a close that was
answered has closed.  While opens do not overlap, `Serial` says that the number a thread
reads is the one it writes, that the id made of it is new, and that ids and sessions
belong to each other one to one, also between the exchange and the registration.  The
theorems that need ids to be unique carry `~Overlap` for it; section 5 shows that they
fail without. `OwnSessionReached` is stated for the first process: with a second one the
table begins anew, and a handle that a thread looked up before may reach a session of
the new table (section 5).  `OneRetryIsEnough` is stated for two processes: with a third
the camera may be held again, by the death of the second, between the two attempts of
one `open_session`.  `RetryInv` counts processes for that.

*Ownership.*  `Held` is `ConnectionsHeld` with its reason: the open `Session` that
reaches a camera still has an id for it in its SDK's table.  `SessionsApart` keeps two
Sessions from sharing a connection, also when one `Camera` object was dropped by a
discovery and another was made.  `Current` says that with one SDK object no id outlives
the bridge's table; with two it is false, so the refinement is proved under `Single` and
the other theorems without it.

*HostWire.*  `CallFits` says that what is described and what is still to be described
make a whole list, `ReplyFits` that a response belongs to the exchange under way, and
`FrameInv` that what was read and what is in the pipe begin one frame.  `ShownGrows` is
why the change of a camera spoils nothing: what was reported during a call stays
reported.  `SetReachesCamera` rests on `JoinedBack`: cutting a value into two signed
slots and joining them loses nothing, for any size of a slot (`SlotHalf` is 2^31 in the
code, 2 in the run), by uniqueness of quotient and remainder.

*Simulator.*  What must hold of a session is stated of any session of a setup
(`SessionOK`), so that each operator that plans, lands or reports has a lemma of its
own, and a command is a chain of them.  `PostviewNamesStill` speaks of the postview that
waits to be fetched; `PostviewsNamed` says it of those still scheduled too.
`TransientEnds` asks that a passing state has its end in the schedule, and `Ends` says
why it stays there: behind each scheduled loss stands a recovery, at whatever time
further commands put theirs.  `NewStillsFoundInTurn` and `StreamPauses` need
`StillsNumbered` and `ExposureBlocks`, which hold only for a patient client: the one
still to come is newer than all of the index, and the block reaches at least to the
exposure.  With two captures under way both are false.  The clock moves over a whole
pause at once and `drain_due` lands all of it, so `LandedIsRun` turns the fold into the
last state of a run of single turns, and `StepByStep` carries what one turn preserves
along the run.  Its induction up to the length of the run is first-order: it takes the
least turn at which the invariant fails, from the library's theorem that a
well-founded relation has minima.

### Assumptions

They are named, stand in the modules that declare the constants, and are evaluated by
TLC in every run.  `BoundsAssumption` and `ConstantsAssumption` say that bounds are
natural numbers and sets of names do not overlap; `MaxOpens < GenModulus` that a slot is
not opened 2^32 times; `KeysAssumption` (`Ownership`) and `ConstantsAssumption`
(`HostWire`) that cameras and property codes are finitely many; `ClientAssumption`
(`DeviceControl`) what a client behaviour is; `SimulatorAssumption` that a setup is made
of a profile, a mode, a destination and a scenario whose delays are numbers and whose
ids grow; `NoneAssumption` (`CameraProfiles`) that `None` is no number.
`OverlapAssumption` says that `Overlap` is a Boolean.  `Settled`, `Single` and
`~Overlap` are hypotheses of the theorems that carry them, not assumptions; the runs
`capture_settled`, `owner_objects` and `host_threads` have them.

### Only model-checked

Liveness (`GateReleased`, `CallsReturn`, `CallsEnd`) is out of the prover's reach.  The
bound on pushed events in `EventStream`'s `TypeOK` and the positions of units in
`HostWire`'s are not proved; no run's property depends on them.

## 5. What the code does not keep

Each line is a statement of the repository that the code does not keep. `wire_described`
is a run.  Each other property is stated in its module and is violated when it takes the
place of the properties of the named configuration, with the change in brackets.

| Property | Statement | What happens | Shown by |
|---|---|---|---|
| `DescribedAsAdvertised` | `_with_values`: "Fill in what the camera says the property will accept." (`host.py`:729); "property code" in `u32_arg` (`ipc_protocol.h`:146) | `host.py` sends the code in `u32_arg`, `main.cpp` reads `i32_arg` and asks about property 0; `fake_host.py` reads `u32_arg`, so the tests pass | run `wire_described` |
| `ServedIsOwnWhenPrompt` | bytes are "provably those of the requested (content_id, file_id)" (`crsdkpy_abi.h`:474) | two threads: the second fetch replaces the bytes between the first one's fetch and take | `preview_transfers.cfg` |
| `FocusOwn` | "The release is gated: if autofocus does not reach an accepted state, no exposure is requested at all" (`session.py`:544) | a focus report of an earlier attempt, by the slower of the two channels or after a cancellation, opens the next gate while the lens still searches | `capture_settled.cfg` (`Settled = FALSE`, `MaxCaptures = 1`) |
| `RetiredNamesNothing` | "a retired session id fails cleanly instead of aliasing a newly opened one" (`architecture.md`:364) | two opens that overlap read one counter and make one id; the second handle goes under an id that its client has closed | `host_threads.cfg` (`Overlap = TRUE`) |
| `CallsReachOwn`, `NoOrphan` | as above | the same two opens: the id of one reaches the session of the other, whose own is connected with no id for it | `host_threads.cfg` (`Overlap = TRUE`) |
| `HalfPressCleared` | "and the half-press stage is released" (`session.py`:545) | the camera does not let go within the time `_release_half_press` polls; its False is ignored and the call returns with the stage engaged | `capture_gates.cfg` |
| `ContentOwn` | "durable content for this capture" (`capture.py`:131) | waiting for the first of two captures returns the still of the second | `capture_settled.cfg` |
| `CallsReachOwn` | "a retired session id fails cleanly" (`architecture.md`:364) | a crash seen as a broken pipe leaves `_handles`; after `start()` an old id reaches a new session | `host_threads.cfg` (`MaxStarts = 2`, one thread, no symmetry) |
| `StaleHandleRejected` | a stale handle "is rejected instead of aliasing a new one" (`bridge.cpp`:11) | `crsdkpy_shutdown` drops the generations | `slots_epochs.cfg` |
| `ServedIsOwn` | not "a leftover from an earlier fetch" (`crsdkpy_abi.h`:474) | a delivery after its fetch timed out is taken for the next fetch's, also with one thread | `preview_transfers.cfg` |
| `CloseFailsFast` | "a blocked fetch fails fast" (`bridge.cpp`:477) | a close between the connection check and `begin_transfer` wakes nobody | `preview_transfers.cfg` |
| `ExposedWasTaken` | a True for a photo never taken is "the specific failure this design exists to prevent" (`architecture.md`:140) | the event of an earlier release confirms a release the camera ignored | `capture_gates.cfg` |
| `StateAdvances` | the order of states (`architecture.md`:129) | content reported before the exposure: CONTENT_AVAILABLE, then EXPOSED | `capture_settled.cfg` |
| `FailedIsFinal` | FAILED is terminal (`enums.py`:133) | `wait_for_content` on a failed capture advances it | `capture_gates.cfg` |
| `DownThenUp` | "A DOWN must always be followed by an UP" (`raw.py`:72) | a transport error in the dwell leaves the button down | `capture_gates.cfg` |
| `CrashNotClosed` | a crash is not reported as closed (`architecture.md`:355) | another thread clears the handles between the state check and the look-up | `host_threads.cfg` |
| `CallsReachOwn` of `Ownership` | as above | two SDK objects share the bridge: one's shutdown drops the table, and a Session of the other reaches a new connection | `owner_objects.cfg` (two `Sdks`) |
| `CloseClosesAll` | "Close every camera session and shut the backend down" (`sdk.py`:133) | a Camera dropped by a discovery keeps its Sessions unclosed | `owner_objects.cfg` |
| `VideoNotLost` | "they cannot change within a session" (`native.py`:748) | a probe that fails while the link is down is cached as "no video" for good | `device_calls.cfg` |
| `PostviewOwn` | "an exact-still preview of this capture" (`capture.py`:140) | an earlier capture's postview that nobody pulled is handed over | `events_session.cfg` |
| `OpenedIsConnected` | returning "genuinely means the session is usable" (`bridge.cpp`:420) | the link is lost during the wait for quiet properties; open answers OK | `events_session.cfg` |
| `StateAlwaysCatchesUp` | drop-oldest spares what matters: nothing says so, but `Session.state` relies on it | a connection event dropped by a full queue leaves `Session.state` stale | `events_session.cfg` (`MaxQueued = 1`) |
| `NewStillsFound` | content newer than a given id (`contract.py`:77) | overlapping releases let an older id land after a newer one | `sim_session.cfg` |

Smaller facts the models show.  A stop may start a recording (`StopNeverStarts` of
`DeviceControl`): the recording has broken off, the camera still reports it, and the press
that was to end it begins another.  `set_property` cuts a value outside 64 bits silently, in
process and hosted.  `list_properties` may succeed although the helper died while the
properties were being described.  A simulated session that was closed can go back to
`CONNECTED` when a scheduled reconnection lands, and its `CLOSED` event is never
delivered; cancelling autofocus leaves its events scheduled; overlapping releases shorten
the live-view pause.  `list_content` looks at the newest date only.

## 6. Not modelled

Left out: value types, status conversions, JPEG scanning, loading of the native library,
tools, examples and tests; they keep no state over calls.  Image bytes and error texts
are abstracted everywhere, property values except in `HostWire`.  Transfers of files to
disk and the content index of the bridge are not modelled: the index is the abstract
camera of `SessionCapture`.  `EventStream` has one vendor thread, since the vendor
library runs the callbacks of a device serially, and one client thread.

## 7. Plan

All components of the first plan are modelled, and each safety property and action
property of their runs is proved.  Left: the types of `HostWire` and `EventStream` in
full, and the content index of the bridge, whose date scan `list_content` relies on, as
a component of its own.
