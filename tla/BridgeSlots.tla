---------------------------- MODULE BridgeSlots ----------------------------
(***************************************************************************)
(* The process-wide session table of the native bridge                     *)
(* (native/src/bridge.cpp): initialisation, enumeration, the slot table    *)
(* with its generation counters, and the vendor connections it owns.       *)
(*                                                                         *)
(* Every exported call below holds g_mutex from its first to its last      *)
(* line, opening a session included (the connect wait runs under the       *)
(* lock), so each call is one atomic action.  What the vendor library      *)
(* answers is a nondeterministic choice.                                   *)
(*                                                                         *)
(* A session object is a natural number, fresh at every successful open:   *)
(* it stands for the identity of the std::shared_ptr<Session>.             *)
(***************************************************************************)
EXTENDS Naturals, Sequences, FiniteSets

CONSTANTS
  Keys,        \* device keys an enumeration can report
  GenModulus,  \* number of values of Slot::generation (2^32 in the code)
  MaxOpens,    \* bound: successful opens
  MaxEpochs    \* bound: init/shutdown cycles

ASSUME BoundsAssumption ==
  /\ MaxOpens \in Nat
  /\ MaxEpochs \in Nat
  /\ GenModulus \in Nat
  /\ MaxOpens < GenModulus   \* 2^32 opens of one slot are out of reach

VARIABLES
  initialized,  \* g_initialized
  keys,         \* g_camera_keys: what the last enumeration reported
  slots,        \* g_slots: a sequence of [session, generation]
  connected,    \* sessions the vendor library holds a device handle for
  opens,        \* history: successful opens so far; names the next session
  epoch,        \* history: successful crsdkpy_init calls so far
  grants        \* history: handles given to clients, with session and epoch

vars == <<initialized, keys, slots, connected, opens, epoch, grants>>

NoSession == 0
Session == 1..MaxOpens

\* make_handle: index in the low word, generation in the high word.  Indexes
\* start at 1 here and at 0 in the code, where generation 0 in slot 0 would be
\* the handle 0 that ipc_protocol.h reserves for "not applicable".
IssuedHandle == [index : 1..MaxOpens, generation : 1..(GenModulus - 1)]
MakeHandle(i, g) == [index |-> i, generation |-> g]

SlotRec == [session : Session \cup {NoSession}, generation : 0..(GenModulus - 1)]
Grant == [handle : IssuedHandle, session : Session, epoch : 1..MaxEpochs]

\* resolve(): the session a handle names, or nothing.
Resolve(h) ==
  IF /\ h.index \in DOMAIN slots
     /\ slots[h.index].generation = h.generation
  THEN slots[h.index].session
  ELSE NoSession

Open == {slots[i].session : i \in DOMAIN slots} \ {NoSession}

-----------------------------------------------------------------------------
Init ==
  /\ initialized = FALSE
  /\ keys = {}
  /\ slots = <<>>
  /\ connected = {}
  /\ opens = 0
  /\ epoch = 0
  /\ grants = {}

\* crsdkpy_init: idempotent; a failed adapter directory or a refused SDK::Init
\* leaves the state as it was (no step).
InitBridge ==
  /\ ~initialized
  /\ epoch < MaxEpochs
  /\ initialized' = TRUE
  /\ epoch' = epoch + 1
  /\ UNCHANGED <<keys, slots, connected, opens, grants>>

\* Mutant: shutdown drops the table without closing its sessions.
ShutdownTableOnly ==
  /\ initialized
  /\ initialized' = FALSE
  /\ slots' = <<>>
  /\ keys' = {}
  /\ UNCHANGED <<connected, opens, epoch, grants>>

\* crsdkpy_shutdown: closes every session, drops the whole table (and with it
\* the generation counters), forgets the enumeration, releases the SDK.
Shutdown ==
  /\ initialized
  /\ initialized' = FALSE
  /\ connected' = connected \ Open
  /\ slots' = <<>>
  /\ keys' = {}
  /\ UNCHANGED <<opens, epoch, grants>>

\* crsdkpy_enumerate: the new list replaces the old one; an enumeration that
\* fails or finds nothing clears it.  Open sessions are not affected.
Enumerate ==
  /\ initialized
  /\ keys' \in SUBSET Keys
  /\ UNCHANGED <<initialized, slots, connected, opens, epoch, grants>>

Free(i) == i \in DOMAIN slots => slots[i].session = NoSession

\* The slot crsdkpy_open_session_ex fills: the first free one, or a new one
\* behind the last.
FirstFree(i) ==
  /\ Free(i)
  /\ \A j \in 1..(i - 1) : ~Free(j)

\* Mutant: the counter is not bumped.
NoIncrement(g) == g

\* uint32_t increment: wraps to zero after the largest value.
Increment(g) == IF g + 1 = GenModulus THEN 0 ELSE g + 1

\* Mutant: only a new slot gets a generation.
KeepGeneration(i) == IF i \in DOMAIN slots THEN slots[i].generation ELSE 1

NextGeneration(i) ==
  Increment(IF i \in DOMAIN slots THEN slots[i].generation ELSE 0)

\* crsdkpy_open_session_ex when the camera connects.
OpenSession(k) ==
  /\ initialized
  /\ k \in keys
  /\ opens < MaxOpens
  /\ opens' = opens + 1
  /\ connected' = connected \cup {opens'}
  /\ \E i \in 1..(Len(slots) + 1) :
       LET filled == [session |-> opens', generation |-> NextGeneration(i)]
       IN  /\ FirstFree(i)
           /\ slots' = IF i \in DOMAIN slots
                       THEN [slots EXCEPT ![i] = filled]
                       ELSE Append(slots, filled)
           /\ grants' = grants \cup
                {[handle |-> MakeHandle(i, filled.generation),
                  session |-> opens', epoch |-> epoch]}
  /\ UNCHANGED <<initialized, keys, epoch>>

\* crsdkpy_close_session, by any handle a client was ever given: a handle that
\* names nothing is answered OK and changes nothing.  The slot keeps its
\* generation.
CloseSession(h) ==
  /\ Resolve(h) # NoSession
  /\ connected' = connected \ {Resolve(h)}
  /\ slots' = [slots EXCEPT ![h.index].session = NoSession]
  /\ UNCHANGED <<initialized, keys, opens, epoch, grants>>

Next ==
  \/ InitBridge
  \/ Shutdown
  \/ Enumerate
  \/ \E k \in Keys : OpenSession(k)
  \/ \E g \in grants : CloseSession(g.handle)

Spec == Init /\ [][Next]_vars

-----------------------------------------------------------------------------
\* Types.  A handle that was handed out always has a generation of at least 1:
\* open_session_ex bumps the counter before it makes the handle.
TypeOK ==
  /\ initialized \in BOOLEAN
  /\ keys \in SUBSET Keys
  /\ slots \in Seq(SlotRec)
  /\ Len(slots) <= opens
  /\ connected \in SUBSET Session
  /\ opens \in 0..MaxOpens
  /\ epoch \in 0..MaxEpochs
  /\ grants \in SUBSET Grant

\* A handle issued since the last crsdkpy_init names the session it was issued
\* for or nothing, however often its slot has been reused since: resolve()
\* "rejects a handle from a closed session instead of aliasing a newer one".
NoAliasing ==
  \A g \in grants :
    g.epoch = epoch => Resolve(g.handle) \in {NoSession, g.session}

\* Every device the vendor library keeps open belongs to exactly one slot, and
\* somebody holds a current handle that closes it: close, shutdown and the
\* reuse of a slot never leave a camera connected that nobody can release.
ConnectionsOwned ==
  /\ \A s \in connected :
       \E g \in grants : g.session = s /\ Resolve(g.handle) = s
  /\ Open \subseteq connected
  /\ \A i, j \in DOMAIN slots :
       slots[i].session = slots[j].session /\ i # j => slots[i].session = NoSession
  /\ ~initialized => connected = {}

\* The head comment of bridge.cpp and the architecture document state the rule
\* without the limit to one initialisation: a stale handle never names another
\* session.  crsdkpy_shutdown clears the generations, so it does not hold.
StaleHandleRejected ==
  \A g \in grants : Resolve(g.handle) \in {NoSession, g.session}

-----------------------------------------------------------------------------
\* For the holders of handles of the current initialisation the slot table
\* implements SessionService: a handle reaches its own session from the open to
\* the close, and nothing from then on.
GrantOf(s) == CHOOSE g \in grants : g.session = s
Reach ==
  [s \in Session |->
     IF s <= opens /\ GrantOf(s).epoch = epoch
     THEN Resolve(GrantOf(s).handle)
     ELSE NoSession]

Service == INSTANCE SessionService
             WITH Token <- Session, Nothing <- NoSession,
                  issued <- 1..opens, reach <- Reach
\* Every step of the bridge is a step of SessionService: the slots, their reuse
\* and a shutdown keep the promise a handle makes (head comment of bridge.cpp).
ImplementsService == Service!Spec

=============================================================================
