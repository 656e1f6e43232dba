----------------------------- MODULE HostClient -----------------------------
(***************************************************************************)
(* The hosted backend (backend/host.py) and the helper process behind it   *)
(* (native/host/main.cpp), whose session table is BridgeSlots.             *)
(*                                                                         *)
(* Client threads share one HostBackend.  A request and its response are   *)
(* exchanged under its lock; looking a handle up before the exchange and   *)
(* registering a new one after it are not, and the number of a new session *)
(* is read, written and read again in steps of their own.  The process may *)
(* die at any moment; its pipes may be closed before its exit can be       *)
(* observed.                                                               *)
(***************************************************************************)
EXTENDS Naturals, Sequences, FiniteSets

CONSTANTS
  Threads,    \* client threads
  NoThread,   \* nobody holds the lock
  Camera,     \* the device key of the one camera
  GenModulus, \* as in BridgeSlots
  Overlap,    \* do the threads let their calls of open_session overlap?
  MaxOpens,   \* bound: sessions the camera accepts
  MaxStarts   \* bound: helper processes that initialise the vendor SDK

ASSUME ThreadsAssumption == NoThread \notin Threads
ASSUME OverlapAssumption == Overlap \in BOOLEAN
ASSUME BoundsAssumption ==
  /\ {MaxOpens, MaxStarts, GenModulus} \subseteq Nat
  /\ MaxOpens < GenModulus   \* as in BridgeSlots

VARIABLES
  initialized, keys, slots, connected, opens, epoch, grants, \* BridgeSlots
  state,    \* HostBackend._state
  host,     \* self._process: "none" if it is None, else how the process is
  lock,     \* the thread inside `with self._lock`
  pc,       \* where each thread is
  call,     \* the call each thread makes
  reply,    \* what the process answered to the call under the lock
  counter,  \* _session_counter
  handles,  \* _handles: per session id, its handle
  held,     \* the camera still holds the transport of a process that died
  given,    \* history: per session id, the bridge session it was first issued for
  ended,    \* history: ids closed by close_session or by shutdown
  verdict   \* what each thread's last call ended with

bridge == <<initialized, keys, slots, connected, opens, epoch, grants>>
threads == <<lock, pc, call, reply, verdict>>
ids == <<counter, handles, given, ended>>
vars == <<bridge, state, host, threads, ids, held>>

Bridge == INSTANCE BridgeSlots WITH Keys <- {Camera}, MaxEpochs <- MaxStarts

Ids == 1..MaxOpens
NoSession == 0
NoHandle == [index |-> 0, generation |-> 0]
NoCall ==
  [op |-> "none", id |-> 0, handle |-> NoHandle, session |-> NoSession, attempt |-> 0]
NoReply == [status |-> "none", session |-> NoSession, handle |-> NoHandle]
Nothing == [answer |-> "none", id |-> 0]

Init ==
  /\ Bridge!Init
  /\ state = "not_started" /\ host = "none" /\ held = FALSE
  /\ lock = NoThread /\ reply = NoReply
  /\ pc = [t \in Threads |-> "idle"]
  /\ call = [t \in Threads |-> NoCall]
  /\ verdict = [t \in Threads |-> Nothing]
  /\ counter = 0
  /\ handles = [i \in Ids |-> NoHandle]
  /\ given = [i \in Ids |-> NoSession]
  /\ ended = {}

-----------------------------------------------------------------------------
(* The process                                                             *)

\* Whatever the process owned is gone.  Without an orderly end the camera goes
\* on holding a transport that was connected.
BridgeGone == IF initialized THEN Bridge!Shutdown ELSE UNCHANGED bridge
Abandoned == BridgeGone /\ held' = (held \/ connected # {})

\* The process dies: at once, or with its pipes closed and its exit still to be
\* seen by poll().
Crash ==
  /\ host = "running"
  /\ host' \in {"exiting", "dead"}
  /\ Abandoned
  /\ UNCHANGED <<state, threads, ids>>

Reaped ==
  /\ host = "exiting"
  /\ host' = "dead"
  /\ UNCHANGED <<bridge, state, threads, ids, held>>

-----------------------------------------------------------------------------
(* Lifecycle                                                               *)

Goto(t, label) == pc' = [pc EXCEPT ![t] = label]
End(t, answer) ==
  /\ Goto(t, "idle")
  /\ call' = [call EXCEPT ![t] = NoCall]
  /\ verdict' = [verdict EXCEPT ![t] = [answer |-> answer, id |-> call[t].id]]

\* _cleanup_process
Cleanup ==
  /\ host' = "none"
  /\ handles' = [i \in Ids |-> NoHandle]
  /\ UNCHANGED <<counter, given>>

\* start: the process is spawned, under the lock until it is ready.
Start(t) ==
  /\ pc[t] = "idle" /\ lock = NoThread
  /\ state # "ready"
  /\ epoch < MaxStarts
  /\ state' = "starting"
  /\ host' = "running"
  /\ lock' = t
  /\ Goto(t, "starting")
  /\ UNCHANGED <<bridge, call, reply, verdict, ids, held>>

\* ... or cannot be.
NoSuchProgram(t) ==
  /\ pc[t] = "idle" /\ lock = NoThread
  /\ state # "ready"
  /\ state' = "crashed"
  /\ UNCHANGED <<bridge, host, threads, ids, held>>

\* The handshake and OP_INIT succeed.
Started(t) ==
  /\ pc[t] = "starting"
  /\ host = "running"
  /\ Bridge!InitBridge
  /\ state' = "ready"
  /\ lock' = NoThread
  /\ Goto(t, "idle")
  /\ UNCHANGED <<host, call, reply, verdict, ids, held>>

\* A peer of another version or a vendor SDK that does not initialise: the
\* process is terminated and the state stays as start() set it.  A process that
\* died is noticed as such.
StartFails(t) ==
  /\ pc[t] = "starting"
  /\ state' = IF host = "running" THEN state ELSE "crashed"
  /\ Cleanup
  /\ lock' = NoThread
  /\ Goto(t, "idle")
  /\ UNCHANGED <<bridge, call, reply, verdict, ended, held>>

\* shutdown: BYE and an orderly end within five seconds, or a kill.  Without a
\* process it leaves the handles alone.
Shutdown(t) ==
  /\ pc[t] = "idle" /\ lock = NoThread
  /\ state' = "stopped"
  /\ IF host = "none" THEN UNCHANGED <<host, counter, handles, given>> ELSE Cleanup
  /\ BridgeGone
  /\ held' = held \/ held' = (held \/ connected # {})
  /\ ended' = ended \cup {i \in Ids : given[i] # NoSession /\ handles'[i] = NoHandle}
  /\ UNCHANGED threads

-----------------------------------------------------------------------------
(* Calls up to the exchange                                                *)

Ask(t, c) == Goto(t, "lock") /\ call' = [call EXCEPT ![t] = c]
Id(i) == [NoCall EXCEPT !.id = i]
WithHandle(op, i) == [NoCall EXCEPT !.op = op, !.id = i, !.handle = handles[i]]

OpenCall(t) ==
  /\ pc[t] = "idle"
  /\ Overlap \/ \A u \in Threads : call[u].op # "open"
  /\ Ask(t, [NoCall EXCEPT !.op = "open", !.attempt = 1])
  /\ UNCHANGED <<bridge, state, host, lock, reply, verdict, ids, held>>

EnumerateCall(t) ==
  /\ pc[t] = "idle"
  /\ state = "ready"
  /\ Ask(t, [NoCall EXCEPT !.op = "enumerate"])
  /\ UNCHANGED <<bridge, state, host, lock, reply, verdict, ids, held>>

\* Any operation on a session: _handle, then the exchange.
UseCall(t, i) ==
  /\ pc[t] = "idle"
  /\ given[i] # NoSession
  /\ IF handles[i] # NoHandle
     THEN Ask(t, WithHandle("use", i)) /\ UNCHANGED verdict
     ELSE /\ verdict' = [verdict EXCEPT ![t] = [answer |-> "raised", id |-> i]]
          /\ UNCHANGED <<pc, call>>
  /\ UNCHANGED <<bridge, state, host, lock, reply, ids, held>>

\* close_session: the id is forgotten first.
CloseCall(t, i) ==
  /\ pc[t] = "idle"
  /\ given[i] # NoSession
  /\ IF handles[i] # NoHandle
     THEN Ask(t, WithHandle("close", i))
     ELSE UNCHANGED <<pc, call>>
  /\ handles' = [handles EXCEPT ![i] = NoHandle]
  /\ ended' = ended \cup {i}
  /\ UNCHANGED <<bridge, state, host, lock, reply, verdict, counter, given, held>>

\* connection_state, first half: _refresh_state; a crashed backend raises.
Refreshed ==
  IF state \in {"ready", "starting"} /\ host = "dead" THEN "crashed" ELSE state

StateCall(t, i) ==
  /\ pc[t] = "idle"
  /\ given[i] # NoSession
  /\ state' = Refreshed
  /\ IF Refreshed = "crashed"
     THEN /\ verdict' = [verdict EXCEPT ![t] = [answer |-> "raised", id |-> i]]
          /\ UNCHANGED <<pc, call>>
     ELSE /\ Goto(t, "state")
          /\ call' = [call EXCEPT ![t] = Id(i)]
          /\ UNCHANGED verdict
  /\ UNCHANGED <<bridge, host, lock, reply, ids, held>>

\* ... second half: an id without a handle is CLOSED.
StateLookUp(t) ==
  /\ pc[t] = "state"
  /\ IF handles[call[t].id] = NoHandle
     THEN End(t, "closed")
     ELSE Ask(t, WithHandle("state", call[t].id)) /\ UNCHANGED verdict
  /\ UNCHANGED <<bridge, state, host, lock, reply, ids, held>>

-----------------------------------------------------------------------------
(* The exchange: _call_ex                                                  *)

Send(t) ==
  /\ pc[t] = "lock" /\ lock = NoThread
  /\ \/ /\ host = "running"
        /\ lock' = t
        /\ Goto(t, "sent")
        /\ UNCHANGED <<state, host, call, verdict, ids>>
     \/ /\ host = "none"
        /\ End(t, "raised")
        /\ UNCHANGED <<state, host, lock, ids>>
     \/ /\ host = "exiting"    \* the write finds a broken pipe
        /\ state' = "crashed"
        /\ End(t, "raised")
        /\ UNCHANGED <<host, lock, ids>>
     \/ /\ host = "dead"       \* _require_process
        /\ state' = "crashed"
        /\ Cleanup
        /\ UNCHANGED <<ended, lock>>
        /\ End(t, "raised")
  /\ UNCHANGED <<bridge, reply, held>>

Answer(t, r) == Goto(t, "answered") /\ reply' = r
Reached(t) == Bridge!Resolve(call[t].handle)

\* The process serves the request: dispatch() in main.cpp.
Serve(t) ==
  /\ pc[t] = "sent" /\ host = "running"
  /\ \/ /\ call[t].op = "enumerate"
        /\ Bridge!Enumerate
        /\ Answer(t, [NoReply EXCEPT !.status = "ok"])
        /\ UNCHANGED held
     \/ /\ call[t].op \in {"use", "state"}
        /\ Answer(t, [NoReply EXCEPT !.status = "ok", !.session = Reached(t)])
        /\ UNCHANGED <<bridge, held>>
     \/ /\ call[t].op = "close"
        /\ Answer(t, [NoReply EXCEPT !.status = "ok", !.session = Reached(t)])
        /\ IF Reached(t) # NoSession
           THEN Bridge!CloseSession(call[t].handle)
           ELSE UNCHANGED bridge
        /\ UNCHANGED held
     \/ /\ call[t].op = "open" /\ ~held
        /\ Bridge!OpenSession(Camera)
        /\ Answer(t, [status |-> "ok", session |-> opens',
                      handle |-> (CHOOSE g \in grants' : g.session = opens').handle])
        /\ UNCHANGED held
     \/ /\ call[t].op = "open"    \* no such camera, or the vendor refuses
        /\ Answer(t, [NoReply EXCEPT !.status = "error"])
        /\ UNCHANGED <<bridge, held>>
     \/ /\ call[t].op = "open" /\ held /\ Camera \in keys
        /\ Answer(t, [NoReply EXCEPT !.status = "connect_timeout"])
        /\ held' = FALSE    \* by the failed attempt's own disconnect
        /\ UNCHANGED bridge
  /\ UNCHANGED <<state, host, lock, call, verdict, ids>>

OneAttempt == 1    \* Mutant: no retry.
Attempts == 2      \* _CONNECT_RETRIES + 1, the bounded policy

\* Mutant: the lock stays with the thread that took it.
KeepLock == UNCHANGED lock /\ reply' = NoReply
Released == lock' = NoThread /\ reply' = NoReply

Opened(t) == call[t].op = "open" /\ reply.status = "ok"

\* crsdkpy_connection_state answers a handle that names nothing with CLOSED.
Outcome(t) ==
  IF call[t].op = "state" /\ reply.session = NoSession
  THEN "closed" ELSE reply.status

\* The response is read; open_session retries one kind of failure once.
Receive(t) ==
  /\ pc[t] = "answered" /\ host # "dead"
  /\ Released
  /\ IF Opened(t)
     THEN /\ Goto(t, "register")
          /\ call' = [call EXCEPT ![t].handle = reply.handle,
                                  ![t].session = reply.session]
          /\ UNCHANGED verdict
     ELSE IF reply.status = "connect_timeout" /\ call[t].attempt < Attempts
     THEN /\ Ask(t, [call[t] EXCEPT !.attempt = @ + 1])
          /\ UNCHANGED verdict
     ELSE End(t, Outcome(t))
  /\ UNCHANGED <<bridge, state, host, ids, held>>

\* The process ends before its response is read, whole or in part.
LoseAnswer(t) ==
  /\ pc[t] \in {"sent", "answered"} /\ host \in {"exiting", "dead"}
  /\ state' = "crashed"
  /\ Cleanup /\ UNCHANGED ended
  /\ Released
  /\ End(t, "raised")
  /\ UNCHANGED <<bridge, held>>

\* open_session after the exchange, without the lock.  `+= 1` reads the counter
\* and writes it; the id is made of what the counter is by then.
Registering == {"register", "count", "name", "store"}

ReadCounter(t) ==
  /\ pc[t] = "register"
  /\ call' = [call EXCEPT ![t].id = counter]
  /\ Goto(t, "count")
  /\ UNCHANGED <<bridge, state, host, lock, reply, verdict, ids, held>>

NotIncremented(n) == IF n = 0 THEN 1 ELSE n    \* Mutant: no increment.
Incremented(n) == n + 1
WriteCounter(t) ==
  /\ pc[t] = "count"
  /\ Incremented(call[t].id) \in Ids    \* the bound; true, as each open writes once
  /\ counter' = Incremented(call[t].id)
  /\ Goto(t, "name")
  /\ UNCHANGED <<bridge, state, host, lock, call, reply, verdict, handles, given, ended, held>>

MakeId(t) ==
  /\ pc[t] = "name"
  /\ call' = [call EXCEPT ![t].id = counter]
  /\ Goto(t, "store")
  /\ UNCHANGED <<bridge, state, host, lock, reply, verdict, ids, held>>

Register(t) ==
  LET id == call[t].id IN
  /\ pc[t] = "store"
  /\ handles' = [handles EXCEPT ![id] = call[t].handle]
  /\ given' = [given EXCEPT ![id] = IF @ = NoSession THEN call[t].session ELSE @]
  /\ call' = [call EXCEPT ![t] = NoCall]
  /\ Goto(t, "idle")
  /\ UNCHANGED <<bridge, state, host, lock, reply, verdict, counter, ended, held>>

-----------------------------------------------------------------------------
ThreadStep(t) ==
  \/ Started(t) \/ StartFails(t) \/ StateLookUp(t) \/ Serve(t)
  \/ Receive(t) \/ LoseAnswer(t)
  \/ ReadCounter(t) \/ WriteCounter(t) \/ MakeId(t) \/ Register(t)

Next ==
  \/ Crash \/ Reaped
  \/ \E t \in Threads :
       \/ Start(t) \/ NoSuchProgram(t) \/ Shutdown(t)
       \/ OpenCall(t) \/ EnumerateCall(t)
       \/ \E i \in Ids : UseCall(t, i) \/ CloseCall(t, i) \/ StateCall(t, i)
       \/ Send(t)
       \/ ThreadStep(t)

Spec == Init /\ [][Next]_vars

\* Threads run, the lock is handed to a thread that keeps asking, and the
\* process answers as long as it lives: the read of a response has no timeout.
FairSpec ==
  /\ Spec
  /\ \A t \in Threads : WF_vars(ThreadStep(t)) /\ SF_vars(Send(t))

-----------------------------------------------------------------------------
(* Properties                                                              *)

Handle == Bridge!IssuedHandle \cup {NoHandle}
CallRecord ==
  [op : {"none", "open", "enumerate", "use", "state", "close"},
   id : Ids \cup {0}, handle : Handle, session : Ids \cup {NoSession},
   attempt : 0..Attempts]
ReplyRecord ==
  [status : {"none", "ok", "error", "connect_timeout"},
   session : Ids \cup {NoSession}, handle : Handle]
Labels == {"idle", "starting", "lock", "state", "sent", "answered"} \cup Registering
VerdictRecord ==
  [answer : {"none", "ok", "error", "connect_timeout", "raised", "closed"},
   id : Ids \cup {0}]

TypeOK ==
  /\ state \in {"not_started", "starting", "ready", "stopped", "crashed"}
  /\ host \in {"none", "running", "exiting", "dead"}
  /\ lock \in Threads \cup {NoThread}
  /\ pc \in [Threads -> Labels]
  /\ call \in [Threads -> CallRecord]
  /\ reply \in ReplyRecord
  /\ verdict \in [Threads -> VerdictRecord]
  /\ counter \in 0..MaxOpens
  /\ handles \in [Ids -> Handle]
  /\ given \in [Ids -> Ids \cup {NoSession}]
  /\ ended \subseteq Ids
  /\ {initialized, held} \subseteq BOOLEAN
  /\ host # "running" => ~initialized

\* What a call through a session id reaches is the session the id was issued
\* for, or nothing: "a retired session id fails cleanly instead of aliasing a
\* newly opened one" (docs/architecture.md), whatever other threads open and
\* close between the look-up of the handle and the exchange.
CallsReachOwn ==
  \A t \in Threads :
    pc[t] = "answered" /\ call[t].op \in {"use", "state", "close"} =>
      reply.session \in {NoSession, given[call[t].id]}

\* A session the process keeps connected can be closed by somebody: an id names
\* it, or the call that opens or closes it is still under way (open_session,
\* close_session, _cleanup_process).
NoOrphan ==
  \A s \in connected :
    \/ \E i \in Ids : handles[i] # NoHandle /\ Bridge!Resolve(handles[i]) = s
    \/ \E t \in Threads :
         \/ call[t].op = "close" /\ Reached(t) = s
         \/ pc[t] \in Registering /\ call[t].session = s
         \/ pc[t] = "answered" /\ call[t].op = "open" /\ reply.session = s

\* An id that close_session or shutdown ended names no handle again: a retired
\* id is not another open's (open_session; docs/architecture.md as above).
RetiredNamesNothing == \A i \in ended : handles[i] = NoHandle

\* connection_state answers CLOSED only for a session its user or a shutdown
\* ended: "an orderly closed session and a vanished backend are different facts
\* and must not look alike" (docs/architecture.md).
CrashNotClosed ==
  \A t \in Threads : verdict[t].answer = "closed" => verdict[t].id \in ended

\* A camera left holding the transport of a process that died is recovered
\* within one open_session (_open_with_retry).
RetryClearsHeld == \A t \in Threads : verdict[t].answer # "connect_timeout"

\* Every call ends, with an answer or by raising, whatever the process does
\* short of hanging, and so does the hold on the lock.
CallsEnd == \A t \in Threads : pc[t] # "idle" ~> pc[t] = "idle"

=============================================================================
