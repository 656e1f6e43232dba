---------------------------- MODULE EventStream ----------------------------
(***************************************************************************)
(* One bridge session from the call that connects it to the Session object *)
(* over it: the connection callback and the thread that waits for it, the  *)
(* bounded event queue, the two buffers of the Session (session.py) that   *)
(* every event lands in, and the postview a camera announces               *)
(* (bridge.cpp, class Session and class Callback).                         *)
(*                                                                         *)
(* The vendor SDK runs its callbacks one after the other on a thread of    *)
(* its own.  A callback is the sequence of its steps on the shared state;  *)
(* anything may happen between two of them, and between the moment the     *)
(* waiting thread finds nothing to wake for and the moment it sleeps.      *)
(* One client thread uses the Session.                                     *)
(***************************************************************************)
EXTENDS Naturals, Sequences, SequencesExt, FiniteSets

CONSTANTS
  MaxQueued,  \* kMaxQueued: what the bridge's queue holds
  Capacity,   \* what one poll_events takes at most
  Reported,   \* kinds of the events the camera reports by single callbacks
  MaxPushed,  \* bound: events
  MaxShots    \* bound: Capture objects

ConnectionStates ==
  {"connecting", "connected", "reconnecting", "closing", "closed"}

\* The type decode_event gives each kind of event; the kinds it does not
\* know get UnknownEvent.
Types ==
  [connection |-> "ConnectionEvent", transfer |-> "TransferEvent",
   property |-> "PropertyChangedEvent", focus |-> "FocusEvent",
   capture |-> "CaptureEvent", content |-> "ContentEvent",
   warning |-> "WarningEvent", error |-> "WarningEvent"]
TypeOf(kind) == IF kind \in DOMAIN Types THEN Types[kind] ELSE "UnknownEvent"
EventTypes == {TypeOf(k) : k \in {"connection", "property"} \cup Reported}

None == 0          \* no postview
NoState == "none"  \* what is not a connection event says of the connection

ASSUME ConstantsAssumption ==
  /\ MaxQueued \in Nat \ {0} /\ Capacity \in Nat \ {0}
  /\ {MaxPushed, MaxShots} \subseteq Nat
  /\ Reported \cap {"connection", "property"} = {}

VARIABLES
  state,      \* state_ of the bridge session
  opener,     \* where the thread in crsdkpy_open_session_ex is
  vendor,     \* what the callback in progress has still to do
  queue,      \* the bridge's queue of events
  pushed,     \* events pushed so far: the number of the newest
  dropped,    \* events the full queue dropped
  announced,  \* the newest postview announced: the number of its capture
  waiting,    \* postview_: the announcement nobody has claimed, or None
  claimed,    \* history: the announcements claimed, by a pull that may then fail
  client,     \* the call the client thread is in
  known,      \* Session._state
  closed,     \* Session._closed
  gone,       \* the backend was shut down under the Session
  user,       \* Session._user_events
  ops,        \* Session._op_events
  got,        \* events the client has taken from its stream
  opGot,      \* events operations have taken from theirs
  previews    \* per Capture: the capture its postview preview depicts, or None

bridge == <<state, opener, vendor>>
events == <<queue, pushed, dropped>>
postview == <<announced, waiting, claimed>>
session == <<client, known, closed, gone>>
streams == <<user, ops, got, opGot>>
vars == <<bridge, events, postview, session, streams, previews>>

\* The call the client is in, and what it waits for: a type of event, a state,
\* the postview of a capture.
Call(name, arg, capture) == [call |-> name, arg |-> arg, capture |-> capture]
Within(name) == Call(name, NoState, None)
Idle == Within("none")

Init ==
  /\ state = "closed" /\ opener = "new" /\ vendor = <<>>
  /\ queue = <<>> /\ pushed = 0 /\ dropped = {}
  /\ announced = None /\ waiting = None /\ claimed = {}
  /\ client = Within("opening") /\ known = "connecting"
  /\ closed = FALSE /\ gone = FALSE
  /\ user = <<>> /\ ops = <<>> /\ got = {} /\ opGot = {}
  /\ previews = <<>>

-----------------------------------------------------------------------------
(* The queue                                                               *)

\* Mutant: the waiting thread is not woken.
NotifiedNever == opener

Notified == IF opener = "asleep" THEN "woken" ELSE opener
Room == IF Len(queue) >= MaxQueued THEN Tail(queue) ELSE queue
PushWakes == Notified

\* The mutex is the waiting thread's between its test and its sleep.
MutexFree == opener \notin {"locked", "passed"}

\* What an event carries: the connection state it reports, the capture whose
\* postview it announces.
Event(kind, to, shot) == [kind |-> kind, to |-> to, shot |-> shot]
Change(to) == Event("connection", to, None)
Report(kind) == Event(kind, NoState, None)
Numbered(e, n) == [n |-> n, kind |-> e.kind, to |-> e.to, shot |-> e.shot]

\* The bound on events, those of the callback in progress counted.
PushesOf(steps) == Len(SelectSeq(steps, LAMBDA s : s.do = "push"))
InBound(n) == pushed + PushesOf(vendor) + n <= MaxPushed

\* Session::push.
Push(e) ==
  /\ queue' = Append(Room, Numbered(e, pushed + 1))
  /\ pushed' = pushed + 1
  /\ dropped' = dropped \cup (ToSet(queue) \ ToSet(Room))

-----------------------------------------------------------------------------
(* Opening: Session::open, under the bridge's global lock                  *)

Connected == {"connected", "closed"}   \* what the wait is for

OpenBegins ==
  /\ opener = "new"
  /\ state' = "connecting"
  /\ Push(Change("connecting"))
  /\ opener' = "connecting"
  /\ UNCHANGED <<vendor, postview, session, streams, previews>>

\* SDK::Connect refuses, or the wait failed: close() drops the device.
OpenFails ==
  /\ opener \in {"connecting", "failing"}
  /\ state' = "closed" /\ opener' = "failed" /\ vendor' = <<>>
  /\ UNCHANGED <<events, postview, session, streams, previews>>

ConnectReturns ==
  /\ opener = "connecting"
  /\ opener' = "check"
  /\ UNCHANGED <<state, vendor, events, postview, session, streams, previews>>

\* The predicate is evaluated with the mutex held; so is the last look at
\* the state, which may have changed again by then.
Check ==
  /\ opener \in {"check", "woken"}
  /\ opener' = IF state \in Connected THEN "passed" ELSE "locked"
  /\ UNCHANGED <<state, vendor, events, postview, session, streams, previews>>

Sleep ==
  /\ opener = "locked"
  /\ opener' = "asleep"
  /\ UNCHANGED <<state, vendor, events, postview, session, streams, previews>>

WaitTimesOut ==
  /\ opener \in {"asleep", "woken"}
  /\ opener' = IF state \in Connected THEN "passed" ELSE "failing"
  /\ UNCHANGED <<state, vendor, events, postview, session, streams, previews>>

Passed ==
  /\ opener = "passed"
  /\ opener' = IF state = "connected" THEN "settling" ELSE "failing"
  /\ UNCHANGED <<state, vendor, events, postview, session, streams, previews>>

\* wait_for_property_quiet does not look at the state again; apply_save_info
\* reports a directory the camera cannot use and fails nothing.
Settles ==
  /\ opener = "settling"
  /\ \/ UNCHANGED events
     \/ InBound(1) /\ Push(Report("warning"))
  /\ opener' = "opened"
  /\ client' = Within("construct")
  /\ UNCHANGED <<state, vendor, postview, known, closed, gone, streams, previews>>

-----------------------------------------------------------------------------
(* Callbacks of the vendor SDK                                             *)

Store(s) == [do |-> "store", arg |-> s]
Pushing(e) == [do |-> "push", arg |-> e]
Announce(k) == [do |-> "announce", arg |-> k]

\* Mutant: the event goes out before the state it is about.
ChangesEventFirst(s) == <<Pushing(Change(s)), Store(s)>>

\* OnConnected, OnDisconnected, OnWarning for the two reconnection codes.
Changes(s) == <<Store(s), Pushing(Change(s))>>
\* OnNotifyPostViewImage.
Announces(k) == <<Announce(k), Pushing(Event("content", NoState, k))>>
\* OnPropertyChangedCodes: an event for each code.
PropertyChanges(n) == [i \in 1..n |-> Pushing(Report("property"))]
\* OnWarning, OnWarningExt, OnError, OnNotifyRemoteTransferContentsListChanged.
Reports(kind) == <<Pushing(Report(kind))>>

Attached == opener \notin {"new", "failed"} /\ ~closed /\ ~gone

Callback(steps) ==
  /\ Attached /\ vendor = <<>>
  /\ InBound(PushesOf(steps))
  /\ vendor' = steps
  /\ UNCHANGED <<state, opener, events, postview, session, streams, previews>>

OnConnected == state \in {"connecting", "reconnecting"} /\ Callback(Changes("connected"))
OnReconnecting == state = "connected" /\ Callback(Changes("reconnecting"))
OnDisconnected ==
  state \in {"connecting", "connected", "reconnecting"} /\ Callback(Changes("closed"))
OnPropertyChangedCodes == \E n \in 1..2 : Callback(PropertyChanges(n))
OnReport == \E kind \in Reported : Callback(Reports(kind))
OnNotifyPostViewImage ==
  \E k \in (announced + 1)..Len(previews) : Callback(Announces(k))

\* Mutant: a newer announcement does not replace one nobody has claimed.
PendingFirst(k) == IF waiting = None THEN k ELSE waiting

\* Session::on_postview_announced: the newest announcement replaces the last.
Pending(k) == k

\* The callback in progress takes its next step.
CallbackStep ==
  /\ vendor # <<>>
  /\ vendor' = Tail(vendor)
  /\ LET step == Head(vendor) IN
     \/ /\ step.do = "store"     \* set_state: no lock, then notify_all
        /\ state' = step.arg
        /\ opener' = Notified
        /\ UNCHANGED <<events, postview>>
     \/ /\ step.do = "push" /\ MutexFree
        /\ Push(step.arg)
        /\ opener' = PushWakes
        /\ UNCHANGED <<state, postview>>
     \/ /\ step.do = "announce"
        /\ announced' = step.arg /\ waiting' = Pending(step.arg)
        /\ UNCHANGED <<state, opener, events, claimed>>
  /\ UNCHANGED <<session, streams, previews>>

-----------------------------------------------------------------------------
(* The Session's buffers: _pump                                            *)

Decode(e) == [n |-> e.n, type |-> TypeOf(e.kind), to |-> e.to, shot |-> e.shot]

\* poll_events: one batch, the oldest first.
Batch == [i \in 1..Min({Capacity, Len(queue)}) |-> Decode(queue[i])]

\* Mutant: what is over one batch is lost.
LeftNothing == <<>>
Left == SubSeq(queue, Len(Batch) + 1, Len(queue))

ConnectionEvents(s) == {i \in DOMAIN s : s[i].type = "ConnectionEvent"}
LastState(s) == IF ConnectionEvents(s) = {} THEN known
                ELSE s[Max(ConnectionEvents(s))].to

Open == opener = "opened" /\ ~closed
\* A call into the backend for a session it no longer knows raises instead.
Pumping == Open /\ ~gone

PumpedUser == user \o Batch
PumpedOps == ops \o Batch
Pumped ==
  /\ queue' = Left
  /\ known' = LastState(Batch)
  /\ UNCHANGED <<pushed, dropped>>

BackendState == IF gone THEN "closed" ELSE state

-----------------------------------------------------------------------------
(* The Session object                                                      *)

\* Session.__init__: a pump, then the state as the bridge has it.
ConstructPumps ==
  /\ client.call = "construct"
  /\ Pumped /\ user' = PumpedUser /\ ops' = PumpedOps
  /\ client' = Within("constructed")
  /\ UNCHANGED <<bridge, postview, closed, gone, got, opGot, previews>>

ConstructReads ==
  /\ client.call = "constructed"
  /\ known' = BackendState
  /\ client' = Idle
  /\ UNCHANGED <<bridge, events, postview, closed, gone, streams, previews>>

\* events(): what is buffered, else one pump.
NextEvent ==
  /\ client = Idle
  /\ \/ /\ user # <<>>
        /\ got' = got \cup {Head(user)} /\ user' = Tail(user)
        /\ UNCHANGED <<queue, pushed, dropped, known, ops>>
     \/ /\ user = <<>> /\ Pumping /\ Batch # <<>>
        /\ Pumped
        /\ got' = got \cup {Head(Batch)} /\ user' = Tail(Batch)
        /\ ops' = PumpedOps
  /\ UNCHANGED <<bridge, postview, client, closed, gone, opGot, previews>>

\* drain_events(): a pump, then everything; a closed Session still drains.
DrainEvents ==
  /\ client = Idle
  /\ \/ /\ Pumping
        /\ Pumped /\ ops' = PumpedOps
        /\ got' = got \cup ToSet(PumpedUser)
     \/ /\ closed
        /\ got' = got \cup ToSet(user)
        /\ UNCHANGED <<queue, pushed, dropped, known, ops>>
  /\ user' = <<>>
  /\ UNCHANGED <<bridge, postview, client, closed, gone, opGot, previews>>

\* The state property, and any operation waiting for its own events.
Pump ==
  /\ Pumping /\ client.call \notin {"construct", "constructed"}
  /\ Batch # <<>>
  /\ Pumped /\ user' = PumpedUser /\ ops' = PumpedOps
  /\ UNCHANGED <<bridge, postview, client, closed, gone, got, opGot, previews>>

WaitForEvent(type) ==
  /\ client = Idle
  /\ client' = Call("event", type, None)
  /\ UNCHANGED <<bridge, events, postview, known, closed, gone, streams, previews>>

Matches(type) == {i \in DOMAIN user : user[i].type = type}
\* Mutants: the newest match is returned; what came before the match goes.
FoundNewest(type) == Max(Matches(type))
RemainderAfter(i) == SubSeq(user, i + 1, Len(user))
Found(type) == Min(Matches(type))
Remainder(i) == RemoveAt(user, i)

EventFound ==
  /\ client.call = "event" /\ Matches(client.arg) # {}
  /\ LET i == Found(client.arg) IN
       got' = got \cup {user[i]} /\ user' = Remainder(i)
  /\ client' = Idle
  /\ UNCHANGED <<bridge, events, postview, known, closed, gone, ops, opGot, previews>>

\* The deadline passes, or the pump raises.
WaitEnds ==
  /\ \/ client.call = "event" /\ Matches(client.arg) = {}
     \/ client.call = "state" /\ BackendState # client.arg
     \/ client.call = "preview"
  /\ client' = Idle
  /\ UNCHANGED <<bridge, events, postview, known, closed, gone, streams, previews>>

WaitForState(s) ==
  /\ client = Idle /\ Open
  /\ client' = Call("state", s, None)
  /\ UNCHANGED <<bridge, events, postview, known, closed, gone, streams, previews>>

StateReached ==
  /\ client.call = "state" /\ BackendState = client.arg
  /\ known' = client.arg
  /\ client' = Idle
  /\ UNCHANGED <<bridge, events, postview, closed, gone, streams, previews>>

\* Any operation starts with _check_usable; a capture adds a Capture object.
CheckUsable ==
  /\ client = Idle /\ Open
  /\ known' = BackendState
  /\ \/ UNCHANGED previews
     \/ /\ BackendState = "connected" /\ Len(previews) < MaxShots
        /\ previews' = Append(previews, None)
  /\ UNCHANGED <<bridge, events, postview, client, closed, gone, streams>>

\* _take_op_events.
TakeOpEvents ==
  /\ client = Idle /\ Open /\ ops # <<>>
  /\ opGot' = opGot \cup ToSet(ops) /\ ops' = <<>>
  /\ UNCHANGED <<bridge, events, postview, session, user, got, previews>>

-----------------------------------------------------------------------------
(* A capture's postview: Capture.preview, pull_postview                    *)

Unclaimed == None

\* A preview already fetched is kept with its Capture.
FetchPostview(c) ==
  /\ client = Idle /\ Open /\ previews[c] = None
  /\ known' = BackendState
  /\ client' = IF BackendState = "connected" THEN Call("preview", NoState, c) ELSE Idle
  /\ UNCHANGED <<bridge, events, postview, closed, gone, streams, previews>>

\* The announcement is claimed before the vendor call that may fail.
PullPostview ==
  /\ client.call = "preview" /\ waiting # None
  /\ BackendState = "connected"
  /\ \/ previews' = [previews EXCEPT ![client.capture] = waiting]
     \/ UNCHANGED previews
  /\ waiting' = Unclaimed /\ claimed' = claimed \cup {waiting}
  /\ client' = Idle
  /\ UNCHANGED <<bridge, events, announced, known, closed, gone, streams>>

-----------------------------------------------------------------------------
(* The end                                                                 *)

\* Session.close, crsdkpy_close_session.
Close ==
  /\ client = Idle /\ Open
  /\ closed' = TRUE /\ known' = "closed"
  /\ state' = "closed" /\ vendor' = <<>>
  /\ UNCHANGED <<opener, events, postview, client, gone, streams, previews>>

\* The backend goes while the Session is open.
Shutdown ==
  /\ Open /\ ~gone /\ client = Idle
  /\ gone' = TRUE /\ state' = "closed" /\ vendor' = <<>>
  /\ UNCHANGED <<opener, events, postview, client, known, closed, streams, previews>>

Next ==
  \/ OpenBegins \/ OpenFails \/ ConnectReturns \/ Check \/ Sleep
  \/ WaitTimesOut \/ Passed \/ Settles
  \/ OnConnected \/ OnReconnecting \/ OnDisconnected \/ OnPropertyChangedCodes
  \/ OnReport \/ OnNotifyPostViewImage \/ CallbackStep
  \/ ConstructPumps \/ ConstructReads \/ NextEvent \/ DrainEvents \/ Pump
  \/ \E type \in EventTypes : WaitForEvent(type)
  \/ EventFound \/ WaitEnds
  \/ \E s \in ConnectionStates : WaitForState(s)
  \/ StateReached \/ CheckUsable \/ TakeOpEvents
  \/ \E c \in DOMAIN previews : FetchPostview(c)
  \/ PullPostview \/ Close \/ Shutdown

Spec == Init /\ [][Next]_vars

-----------------------------------------------------------------------------
(* Properties                                                              *)

Numbers(S) == {e.n : e \in S}
Carried(e) == e.to \in ConnectionStates \cup {NoState} /\ e.shot \in 0..announced

\* Every variable keeps its type; the bridge's queue stays within its bound
\* whatever the client does.
TypeOK ==
  /\ state \in ConnectionStates /\ known \in ConnectionStates
  /\ opener \in {"new", "connecting", "check", "locked", "asleep", "woken", "passed",
                 "failing", "failed", "settling", "opened"}
  /\ client.call \in {"opening", "construct", "constructed", "none", "event", "state",
                      "preview"}
  /\ \A e \in ToSet(queue) \cup dropped : e.n \in 1..pushed /\ Carried(e)
  /\ Len(queue) <= MaxQueued /\ pushed \in 0..MaxPushed
  /\ \A e \in ToSet(user) \cup ToSet(ops) \cup got \cup opGot :
       e.n \in 1..pushed /\ Carried(e) /\ (e.type = "ConnectionEvent" <=> e.to # NoState)
  /\ waiting \in {None, announced} /\ announced \in 0..Len(previews)
  /\ claimed \subseteq 1..announced
  /\ previews \in Seq(0..announced) /\ Len(previews) <= MaxShots
  /\ closed \in BOOLEAN /\ gone \in BOOLEAN

\* The thread that waits for the connection (Session::open) is not left asleep
\* when the callback has set a state it waits for and is done: set_state does
\* not take the mutex, so its notification may find nobody asleep yet.
WaiterWoken ==
  opener = "asleep" /\ vendor = <<>> => state \notin Connected

\* Each event reaches the caller's stream and the operations' stream once
\* (session.py, "Neither starves the other"), whatever one of them waits for
\* or takes, unless the full queue dropped it, and then it was the oldest.
EventsAccounted ==
  /\ Len(queue) <= MaxQueued
  /\ \A stream \in {<<got, user>>, <<opGot, ops>>} :
       LET held == stream[2] \o [i \in DOMAIN queue |-> Decode(queue[i])] IN
         /\ Numbers(stream[1]) \cup Numbers(ToSet(held)) = (1..pushed) \ Numbers(dropped)
         /\ Cardinality(stream[1]) + Len(held) = pushed - Cardinality(dropped)
  /\ \A n \in Numbers(dropped) : n + MaxQueued <= pushed

\* Events of one type reach the caller in the order they were reported, with
\* wait_for_event taking some of them out of turn.
TypesInOrder ==
  \A e \in got : \A later \in ToSet(user) \cup {Decode(r) : r \in ToSet(queue)} :
    e.type = later.type => e.n < later.n

\* When nothing is under way and the client has taken in every event, the
\* Session's state is the bridge's, though the two are written by different
\* threads and the Session learns of a change by two ways. A connection event
\* that the full queue dropped is the exception.
Newest == LET S == {e \in dropped : e.kind = "connection"} IN
          IF S = {} THEN 0 ELSE Max(Numbers(S))
Seen == {e \in got \cup ToSet(user) : e.type = "ConnectionEvent"}
Settled ==
  Open /\ ~gone /\ vendor = <<>> /\ queue = <<>> /\ client.call \notin {"construct", "constructed"}
StateCatchesUp ==
  Settled /\ (\E e \in Seen : e.n > Newest) => known = state

\* The same with nothing excepted.
StateAlwaysCatchesUp == Settled => known = state

\* Who has seen the content event of a postview can pull that postview: its
\* announcement waits, unless a pull has claimed it or a newer one came
\* (OnNotifyPostViewImage).
PostviewReady ==
  \A e \in got \cup ToSet(user) : e.type = "ContentEvent" /\ e.shot # None =>
    e.shot = waiting \/ e.shot \in claimed \/ e.shot < announced

\* No two captures get the same postview (take_postview_pending, "so exactly
\* one caller pulls it").
PostviewOnce ==
  \A c, d \in DOMAIN previews : previews[c] = previews[d] /\ c # d => previews[c] = None

PostviewServed == PostviewReady /\ PostviewOnce

\* A capture's postview preview depicts that capture (Capture.preview, "Fetch
\* an exact-still preview of this capture").
PostviewOwn == \A c \in DOMAIN previews : previews[c] \in {None, c}

\* A session that has just been opened is connected (native.py, open_session).
OpenedIsConnected == client.call = "construct" => state = "connected"

=============================================================================
