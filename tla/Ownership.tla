------------------------------ MODULE Ownership ------------------------------
(***************************************************************************)
(* Who owns an open camera: SDK (sdk.py), Camera (camera.py), Session      *)
(* (session.py) and the in-process backend (backend/native.py) above the   *)
(* session table of the bridge, BridgeSlots.                               *)
(*                                                                         *)
(* An SDK object has a backend of its own; the bridge is one for the whole *)
(* process.  The client is taken to have one thread: a public call is one  *)
(* action; a call that raises half-way leaves what it had done.  Objects   *)
(* are numbered in the order they are made and are never freed: the        *)
(* client may keep them.                                                   *)
(***************************************************************************)
EXTENDS Naturals, Sequences, FiniteSets, SequencesExt

CONSTANTS
  Sdks,       \* SDK objects of the process, each with its NativeBackend
  Keys,       \* device keys
  GenModulus, \* as in BridgeSlots
  MaxOpens,   \* bound: successful opens
  MaxStarts,  \* bound: initialisations of the bridge
  MaxCameras  \* bound: Camera objects

ASSUME KeysAssumption == IsFiniteSet(Keys)
ASSUME BoundsAssumption ==
  /\ {MaxOpens, MaxStarts, MaxCameras, GenModulus} \subseteq Nat
  /\ MaxOpens < GenModulus   \* as in BridgeSlots

VARIABLES
  initialized, keys, slots, connected, opens, epoch, grants, \* BridgeSlots
  started,   \* per SDK: SDK._started and its backend's _started, set together
  handles,   \* per SDK: NativeBackend._handles, a function from ids to handles
  counter,   \* per SDK: NativeBackend._counter
  listed,    \* per SDK: SDK._cameras, as a set of Camera objects
  cameras,   \* every Camera object: its SDK and its device key
  sessions,  \* every Session object: its camera, its id, _closed
  own,       \* history: per Session object, the bridge session it was made for
  failed     \* history: bridge sessions of an open that raised

bridge  == <<initialized, keys, slots, connected, opens, epoch, grants>>
objects == <<cameras, sessions, own>>
vars    == <<bridge, started, handles, counter, listed, objects, failed>>

Bridge == INSTANCE BridgeSlots WITH MaxEpochs <- MaxStarts

NoSession == 0
Cameras == 1..MaxCameras
Empty == [i \in {} |-> Bridge!MakeHandle(0, 0)]

Init ==
  /\ Bridge!Init
  /\ started = [d \in Sdks |-> FALSE]
  /\ handles = [d \in Sdks |-> Empty]
  /\ counter = [d \in Sdks |-> 0]
  /\ listed = [d \in Sdks |-> {}]
  /\ cameras = <<>> /\ sessions = <<>> /\ own = <<>>
  /\ failed = {}

-----------------------------------------------------------------------------
(* Starting and discovering.                                               *)

\* crsdkpy_init succeeds at once where another SDK initialised the bridge.
Start(d) ==
  /\ ~started[d]
  /\ IF initialized THEN UNCHANGED bridge ELSE Bridge!InitBridge
  /\ started' = [started EXCEPT ![d] = TRUE]
  /\ UNCHANGED <<handles, counter, listed, objects, failed>>

Known(d, k) == {c \in listed[d] : cameras[c].key = k}

\* discover: a key that was listed before keeps its Camera, another gets a new
\* one; a Camera whose key was not found is dropped, whatever it has open.
Discover(d) ==
  /\ started[d]
  /\ Bridge!Enumerate
  /\ LET new == {k \in keys' : Known(d, k) = {}}
         added == [i \in 1..Cardinality(new) |-> [sdk |-> d, key |-> SetToSeq(new)[i]]]
     IN  /\ Len(cameras) + Cardinality(new) <= MaxCameras
         /\ cameras' = cameras \o added
         /\ listed' = [listed EXCEPT ![d] =
              {c \in @ : cameras[c].key \in keys'}
                \cup (Len(cameras) + 1)..(Len(cameras) + Cardinality(new))]
  /\ UNCHANGED <<started, handles, counter, sessions, own, failed>>

\* The enumeration fails: the bridge forgets what it had listed, the SDK does
\* not.
DiscoverFails(d) ==
  /\ started[d]
  /\ Bridge!Enumerate /\ keys' = {}
  /\ UNCHANGED <<started, handles, counter, listed, objects, failed>>

-----------------------------------------------------------------------------
(* Opening and closing sessions.                                           *)

\* Mutant: sessions are numbered by how many are open.
NextIdByCount(d) == Cardinality(DOMAIN handles[d]) + 1

NextId(d) == counter[d] + 1

\* The bridge connects and the backend registers the session under a new id.
Registered(d, k) ==
  /\ started[d]
  /\ Bridge!OpenSession(k)
  /\ LET g == CHOOSE g \in grants' : g.session = opens'
     IN  handles' = [handles EXCEPT ![d] =
           [i \in DOMAIN @ \cup {NextId(d)} |-> IF i = NextId(d) THEN g.handle ELSE @[i]]]
  /\ counter' = [counter EXCEPT ![d] = @ + 1]
  /\ UNCHANGED <<started, listed, cameras>>

\* Camera.open.  A refused mode, destination or connection changes nothing.
Open(c) ==
  LET d == cameras[c].sdk
  IN  /\ Registered(d, cameras[c].key)
      /\ sessions' = Append(sessions, [camera |-> c, id |-> NextId(d), closed |-> FALSE])
      /\ own' = Append(own, opens')
      /\ UNCHANGED failed

\* ... or the destination cannot be applied, or the new Session's first poll
\* raises: nobody learns the id.
OpenRaises(c) ==
  /\ Registered(cameras[c].sdk, cameras[c].key)
  /\ failed' = failed \cup {opens'}
  /\ UNCHANGED <<sessions, own>>

SdkOf(s) == cameras[sessions[s].camera].sdk

HandleOf(s) ==
  LET table == handles[SdkOf(s)]
  IN  IF sessions[s].id \in DOMAIN table THEN table[sessions[s].id] ELSE Bridge!MakeHandle(0, 0)

\* What a call on a Session reaches.
Reached(s) == Bridge!Resolve(HandleOf(s))

\* Mutant: the backend forgets the session and leaves the bridge alone.
ForgetOnly(h) == UNCHANGED bridge

\* crsdkpy_close_session answers OK whatever the handle names.
CloseHandle(h) == IF Bridge!Resolve(h) = NoSession THEN UNCHANGED bridge ELSE Bridge!CloseSession(h)

\* Session.close and NativeBackend.close_session; a second close does nothing.
CloseSession(s) ==
  /\ ~sessions[s].closed
  /\ CloseHandle(HandleOf(s))
  /\ handles' = [handles EXCEPT ![SdkOf(s)] =
       [i \in DOMAIN @ \ {sessions[s].id} |-> @[i]]]
  /\ sessions' = [sessions EXCEPT ![s].closed = TRUE]
  /\ UNCHANGED <<started, counter, listed, cameras, own, failed>>

\* Mutant: the backend lets its sessions go and leaves the bridge alone.
ShutdownTableOnly(d) ==
  /\ handles' = [handles EXCEPT ![d] = Empty]
  /\ UNCHANGED bridge

\* NativeBackend.shutdown: the bridge closes whatever is open in the process.
ShutdownBackend(d) ==
  /\ handles' = [handles EXCEPT ![d] = Empty]
  /\ IF initialized THEN Bridge!Shutdown ELSE UNCHANGED bridge

\* SDK.close: the sessions of the listed cameras are closed, and then the
\* backend is shut down, which ends the others as well.
Close(d) ==
  /\ started[d]
  /\ ShutdownBackend(d)
  /\ sessions' = [s \in DOMAIN sessions |->
       [sessions[s] EXCEPT !.closed = @ \/ sessions[s].camera \in listed[d]]]
  /\ listed' = [listed EXCEPT ![d] = {}]
  /\ started' = [started EXCEPT ![d] = FALSE]
  /\ UNCHANGED <<counter, cameras, own, failed>>

Next ==
  \/ \E d \in Sdks : Start(d) \/ Discover(d) \/ DiscoverFails(d) \/ Close(d)
  \/ \E c \in DOMAIN cameras : Open(c) \/ OpenRaises(c)
  \/ \E s \in DOMAIN sessions : CloseSession(s)

Spec == Init /\ [][Next]_vars

-----------------------------------------------------------------------------
(* Correctness.                                                            *)

CameraRecord == [sdk : Sdks, key : Keys]
SessionRecord == [camera : Cameras, id : 1..MaxOpens, closed : BOOLEAN]

\* Types, and the table of each SDK: an id is used once and never reused.
TypeOK ==
  /\ Bridge!TypeOK
  /\ started \in [Sdks -> BOOLEAN]
  /\ counter \in [Sdks -> 0..MaxOpens]
  /\ \A d \in Sdks : /\ DOMAIN handles[d] \subseteq 1..counter[d]
                     /\ \A i \in DOMAIN handles[d] : handles[d][i] \in Bridge!IssuedHandle
  /\ listed \in [Sdks -> SUBSET DOMAIN cameras]
  /\ cameras \in Seq(CameraRecord)
  /\ sessions \in Seq(SessionRecord)
  /\ own \in Seq(1..MaxOpens) /\ Len(own) = Len(sessions)
  /\ failed \subseteq 1..MaxOpens

\* A camera that is connected has a holder: a Session object that is not
\* closed and still reaches it, whether its Camera is listed or was dropped by
\* a later discovery.  The exception is an open that raised after the bridge had
\* connected (native.py:1015, session.py:157): only SDK.close ends that one.
ConnectionsHeld ==
  \A b \in connected \ failed :
    \E s \in DOMAIN sessions : ~sessions[s].closed /\ own[s] = b /\ Reached(s) = b

\* "Close every camera session and shut the backend down" (sdk.py:133): once
\* every SDK of the process is closed no camera stays connected, not even one
\* whose Session or whose Camera the SDK had lost.
NothingConnectedAfterClose ==
  (\A d \in Sdks : ~started[d]) => connected = {} /\ ~initialized

\* For one SDK in the process, a Session is a token of SessionService: its
\* calls reach the camera it was opened for until it is closed, and nothing
\* afterwards, through any sequence of closes, restarts and rediscoveries.
Service == INSTANCE SessionService
             WITH Token <- 1..MaxOpens, Nothing <- NoSession,
                  issued <- {own[s] : s \in DOMAIN own},
                  reach <- [b \in 1..MaxOpens |->
                     IF \E s \in DOMAIN own : own[s] = b
                     THEN Reached(CHOOSE s \in DOMAIN own : own[s] = b) ELSE NoSession]
SessionsAreService == Service!Spec

\* The same without the limit to one SDK: a call on a Session reaches its own
\* camera connection or nothing.
CallsReachOwn == \A s \in DOMAIN sessions : Reached(s) \in {NoSession, own[s]}

\* The words of sdk.py:133 alone: after SDK.close every Session object it made
\* is closed.  A Camera dropped by a discovery keeps its Sessions open.
CloseClosesAll ==
  \A s \in DOMAIN sessions : ~started[SdkOf(s)] => sessions[s].closed
=============================================================================
