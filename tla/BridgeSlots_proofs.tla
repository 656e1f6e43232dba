------------------------- MODULE BridgeSlots_proofs -------------------------
(***************************************************************************)
(* Proofs about the session table of the bridge: its types, and that a     *)
(* handle never reaches another session than its own between two           *)
(* initialisations, for any number of cameras, opens and generations.      *)
(***************************************************************************)
EXTENDS BridgeSlots, TLAPS

\* A generation never runs ahead of the number of opens, so no counter wraps.
GenerationBounded ==
  \A i \in DOMAIN slots : slots[i].generation \in 1..opens

\* The table is empty before the first initialisation and after a shutdown.
EmptyWhenDown == ~initialized => slots = <<>>

EpochStarted == initialized => epoch >= 1

\* Grants lie in the past.
GrantsPast ==
  \A g \in grants : g.epoch <= epoch /\ g.session <= opens

\* A grant of this initialisation names a slot whose generation has reached
\* its own, and if the two are still equal the slot holds its session or none.
GrantsTracked ==
  initialized =>
    \A g \in grants :
      g.epoch = epoch =>
        /\ g.handle.index \in DOMAIN slots
        /\ g.handle.generation <= slots[g.handle.index].generation
        /\ g.handle.generation = slots[g.handle.index].generation =>
             slots[g.handle.index].session \in {NoSession, g.session}

IInv ==
  /\ TypeOK
  /\ GenerationBounded
  /\ EmptyWhenDown
  /\ EpochStarted
  /\ GrantsPast
  /\ GrantsTracked

-----------------------------------------------------------------------------
LEMMA InitIInv == Init => IInv
<1> SUFFICES ASSUME Init PROVE IInv
  OBVIOUS
<1>1. slots \in Seq(SlotRec) /\ Len(slots) = 0 /\ DOMAIN slots = {}
  BY DEF Init
<1>2. TypeOK
  <2>1. Len(slots) <= opens /\ opens \in 0..MaxOpens /\ epoch \in 0..MaxEpochs
    BY <1>1, BoundsAssumption DEF Init
  <2>2. /\ initialized \in BOOLEAN /\ keys \in SUBSET Keys
        /\ connected \in SUBSET Session /\ grants \in SUBSET Grant
    BY DEF Init
  <2>3. QED
    BY <1>1, <2>1, <2>2 DEF TypeOK
<1>3. GenerationBounded /\ EmptyWhenDown /\ EpochStarted /\ GrantsPast
  BY <1>1 DEF Init, GenerationBounded, EmptyWhenDown, EpochStarted, GrantsPast
<1>4. GrantsTracked
  BY DEF Init, GrantsTracked
<1>5. QED
  BY <1>2, <1>3, <1>4 DEF IInv

LEMMA InitBridgeIInv == IInv /\ InitBridge => IInv'
<1> SUFFICES ASSUME IInv, InitBridge PROVE IInv'
  OBVIOUS
<1>1. TypeOK'
  BY BoundsAssumption DEF IInv, InitBridge, TypeOK
<1>2. GenerationBounded' /\ EmptyWhenDown' /\ EpochStarted' /\ GrantsPast'
  BY DEF IInv, InitBridge, TypeOK, GenerationBounded, EmptyWhenDown,
         EpochStarted, GrantsPast, Grant
<1>3. GrantsTracked'
  \* no grant carries the new epoch
  BY DEF IInv, InitBridge, TypeOK, GrantsPast, GrantsTracked, Grant
<1>4. QED
  BY <1>1, <1>2, <1>3 DEF IInv

LEMMA ShutdownIInv == IInv /\ Shutdown => IInv'
<1> SUFFICES ASSUME IInv, Shutdown PROVE IInv'
  OBVIOUS
<1>1. slots' \in Seq(SlotRec) /\ Len(slots') = 0 /\ DOMAIN slots' = {}
  BY DEF Shutdown
<1>2. TypeOK'
  <2>1. connected' \in SUBSET Session
    BY DEF IInv, Shutdown, TypeOK
  <2>2. Len(slots') <= opens' /\ opens' \in 0..MaxOpens
    BY <1>1, BoundsAssumption DEF IInv, Shutdown, TypeOK
  <2>3. QED
    BY <1>1, <2>1, <2>2 DEF IInv, Shutdown, TypeOK
<1>3. /\ GenerationBounded' /\ EmptyWhenDown' /\ EpochStarted'
      /\ GrantsPast' /\ GrantsTracked'
  BY <1>1 DEF IInv, Shutdown, GenerationBounded, EmptyWhenDown, EpochStarted,
              GrantsPast, GrantsTracked
<1>4. QED
  BY <1>2, <1>3 DEF IInv

LEMMA EnumerateIInv == IInv /\ Enumerate => IInv'
  BY DEF IInv, Enumerate, TypeOK, GenerationBounded, EmptyWhenDown,
         EpochStarted, GrantsPast, GrantsTracked

LEMMA OpenSessionIInv ==
  ASSUME NEW k \in Keys, IInv, OpenSession(k)
  PROVE  IInv'
<1> DEFINE filled(i) == [session |-> opens', generation |-> NextGeneration(i)]
<1>1. PICK i \in 1..(Len(slots) + 1) :
        /\ FirstFree(i)
        /\ slots' = IF i \in DOMAIN slots
                    THEN [slots EXCEPT ![i] = filled(i)]
                    ELSE Append(slots, filled(i))
        /\ grants' = grants \cup
             {[handle |-> MakeHandle(i, filled(i).generation),
               session |-> opens', epoch |-> epoch]}
  BY DEF OpenSession
<1>2. /\ initialized /\ opens < MaxOpens /\ opens' = opens + 1
      /\ connected' = connected \cup {opens'}
      /\ UNCHANGED <<initialized, keys, epoch>>
  BY DEF OpenSession
<1>3. /\ slots \in Seq(SlotRec) /\ Len(slots) \in Nat /\ Len(slots) <= opens
      /\ DOMAIN slots = 1..Len(slots)
      /\ opens \in Nat /\ MaxOpens \in Nat /\ GenModulus \in Nat
      /\ MaxOpens < GenModulus
      /\ \A j \in DOMAIN slots : slots[j] \in SlotRec
  BY BoundsAssumption DEF IInv, TypeOK
\* The counter of the slot that is filled goes up by one: it cannot wrap.
<1>4. /\ NextGeneration(i) \in 1..opens'
      /\ i \in DOMAIN slots => NextGeneration(i) = slots[i].generation + 1
  BY <1>2, <1>3 DEF IInv, GenerationBounded, NextGeneration, Increment
<1>5. filled(i) \in SlotRec
  BY <1>2, <1>3, <1>4 DEF SlotRec, Session
<1>6. /\ slots' \in Seq(SlotRec)
      /\ Len(slots') <= Len(slots) + 1
      /\ DOMAIN slots \subseteq DOMAIN slots'
      /\ i \in DOMAIN slots' /\ slots'[i] = filled(i)
      /\ \A j \in DOMAIN slots' : j # i => j \in DOMAIN slots /\ slots'[j] = slots[j]
  <2>1. CASE i \in DOMAIN slots
    BY <1>1, <1>3, <1>5, <2>1
  <2>2. CASE i \notin DOMAIN slots
    <3>1. i = Len(slots) + 1
      BY <1>3, <2>2
    <3>2. slots' = Append(slots, filled(i))
      BY <1>1, <2>2
    <3>3. QED
      BY <1>3, <1>5, <3>1, <3>2
  <2>3. QED
    BY <2>1, <2>2
<1> DEFINE new == [handle |-> MakeHandle(i, filled(i).generation),
                   session |-> opens', epoch |-> epoch]
<1>7. new \in Grant
  <2>1. epoch \in 1..MaxEpochs
    BY <1>2 DEF IInv, TypeOK, EpochStarted
  <2>2. MakeHandle(i, filled(i).generation) \in IssuedHandle
    BY <1>2, <1>3, <1>4 DEF MakeHandle, IssuedHandle
  <2>3. QED
    BY <1>2, <1>3, <2>1, <2>2 DEF Grant, Session
<1>8. TypeOK'
  BY <1>1, <1>2, <1>3, <1>6, <1>7 DEF IInv, TypeOK, Session
<1>9. GenerationBounded' /\ EmptyWhenDown' /\ EpochStarted'
  BY <1>2, <1>3, <1>4, <1>6
  DEF IInv, GenerationBounded, EmptyWhenDown, EpochStarted
<1>10. GrantsPast'
  BY <1>1, <1>2, <1>3, <1>7 DEF IInv, TypeOK, GrantsPast, Grant, Session
<1>11. GrantsTracked'
  <2> SUFFICES ASSUME NEW g \in grants', g.epoch = epoch
               PROVE  /\ g.handle.index \in DOMAIN slots'
                      /\ g.handle.generation <= slots'[g.handle.index].generation
                      /\ g.handle.generation = slots'[g.handle.index].generation =>
                           slots'[g.handle.index].session \in {NoSession, g.session}
    BY <1>2 DEF GrantsTracked
  <2>1. CASE g = new
    BY <1>3, <1>4, <1>6, <2>1 DEF MakeHandle
  <2>2. CASE g \in grants /\ g.handle.index # i
    BY <1>2, <1>6, <2>2 DEF IInv, GrantsTracked
  \* An older grant of the slot being filled falls behind for good.
  <2>3. CASE g \in grants /\ g.handle.index = i
    <3>1. /\ i \in DOMAIN slots
          /\ g.handle.generation <= slots[i].generation
      BY <1>2, <2>3 DEF IInv, GrantsTracked
    <3>2. /\ g.handle.generation \in Nat
          /\ slots[i].generation \in Nat
      BY <1>3, <2>3, <3>1 DEF IInv, TypeOK, Grant, IssuedHandle, SlotRec
    <3>3. slots'[i].generation = slots[i].generation + 1
      BY <1>4, <1>6, <3>1
    <3>4. QED
      BY <1>6, <2>3, <3>1, <3>2, <3>3
  <2>4. QED
    BY <1>1, <2>1, <2>2, <2>3
<1>12. QED
  BY <1>8, <1>9, <1>10, <1>11 DEF IInv

LEMMA CloseSessionIInv ==
  ASSUME NEW h \in {g.handle : g \in grants}, IInv, CloseSession(h)
  PROVE  IInv'
<1>1. /\ h.index \in DOMAIN slots
      /\ slots' = [slots EXCEPT ![h.index].session = NoSession]
      /\ connected' \subseteq connected
      /\ UNCHANGED <<initialized, keys, opens, epoch, grants>>
  BY DEF CloseSession, Resolve
<1>2. /\ slots \in Seq(SlotRec)
      /\ DOMAIN slots = 1..Len(slots)
      /\ \A j \in DOMAIN slots : slots[j] \in SlotRec
  BY DEF IInv, TypeOK
\* Closing keeps every generation and only ever empties a slot.
<1>3. /\ slots' \in Seq(SlotRec)
      /\ Len(slots') = Len(slots)
      /\ DOMAIN slots' = DOMAIN slots
      /\ \A j \in DOMAIN slots :
           /\ slots'[j].generation = slots[j].generation
           /\ slots'[j].session \in {NoSession, slots[j].session}
  BY <1>1, <1>2 DEF SlotRec
<1>4. TypeOK'
  BY <1>1, <1>3 DEF IInv, TypeOK
<1>5. GenerationBounded' /\ EmptyWhenDown' /\ GrantsPast' /\ EpochStarted'
  BY <1>1, <1>2, <1>3
  DEF IInv, GenerationBounded, EmptyWhenDown, GrantsPast, EpochStarted
<1>6. GrantsTracked'
  BY <1>1, <1>3 DEF IInv, GrantsTracked
<1>7. QED
  BY <1>4, <1>5, <1>6 DEF IInv

LEMMA NextIInv == IInv /\ [Next]_vars => IInv'
<1> SUFFICES ASSUME IInv, [Next]_vars PROVE IInv'
  OBVIOUS
<1>1. CASE InitBridge
  BY <1>1, InitBridgeIInv
<1>2. CASE Shutdown
  BY <1>2, ShutdownIInv
<1>3. CASE Enumerate
  BY <1>3, EnumerateIInv
<1>4. CASE \E k \in Keys : OpenSession(k)
  BY <1>4, OpenSessionIInv
<1>5. CASE \E g \in grants : CloseSession(g.handle)
  BY <1>5, CloseSessionIInv
<1>6. CASE UNCHANGED vars
  BY <1>6 DEF vars, IInv, TypeOK, GenerationBounded, EmptyWhenDown,
              EpochStarted, GrantsPast, GrantsTracked
<1>7. QED
  BY <1>1, <1>2, <1>3, <1>4, <1>5, <1>6 DEF Next

-----------------------------------------------------------------------------
\* The session table keeps its types: in particular no handle that was handed
\* out has generation zero (open_session_ex bumps before it makes the handle).
THEOREM TypeCorrect == Spec => []TypeOK
<1>1. IInv => TypeOK
  BY DEF IInv
<1>2. QED
  BY InitIInv, NextIInv, <1>1, PTL DEF Spec

LEMMA TrackedImpliesNoAliasing == IInv => NoAliasing
<1> SUFFICES ASSUME IInv, NEW g \in grants, g.epoch = epoch
             PROVE  Resolve(g.handle) \in {NoSession, g.session}
  BY DEF NoAliasing
<1>1. CASE initialized
  BY <1>1 DEF IInv, GrantsTracked, Resolve
<1>2. CASE ~initialized
  BY <1>2 DEF IInv, EmptyWhenDown, Resolve
<1>3. QED
  BY <1>1, <1>2

\* Between two initialisations a handle reaches its own session or nothing,
\* whatever the slots went through (resolve, open_session_ex, close_session).
THEOREM HandlesNeverAlias == Spec => []NoAliasing
  BY InitIInv, NextIInv, TrackedImpliesNoAliasing, PTL DEF Spec

-----------------------------------------------------------------------------
(* Ownership.  ConnectionsOwned says that a connection has a handle; to keep *)
(* it, an open slot must have a grant that is exactly its current handle,    *)
(* and no grant may be shared between two sessions.                          *)

\* The vendor library holds exactly the devices of the open slots.
ConnectedIsOpen == connected = Open

\* No session sits in two slots.
SlotsDistinct ==
  \A i, j \in DOMAIN slots :
    slots[i].session = slots[j].session /\ i # j => slots[i].session = NoSession

\* An open slot's current handle was handed out in this initialisation.
OpenSlotsGranted ==
  \A i \in DOMAIN slots :
    slots[i].session # NoSession =>
      \E g \in grants : /\ g.session = slots[i].session
                        /\ g.handle = MakeHandle(i, slots[i].generation)
                        /\ g.epoch = epoch

\* Each successful open was granted, once.
OneGrantEach ==
  /\ \A s \in 1..opens : \E g \in grants : g.session = s
  /\ \A g, h \in grants : g.session = h.session => g = h

OwnInv == ConnectedIsOpen /\ SlotsDistinct /\ OpenSlotsGranted /\ OneGrantEach

LEMMA InitOwnInv == Init => OwnInv
<1> SUFFICES ASSUME Init PROVE OwnInv
  OBVIOUS
<1>1. DOMAIN slots = {} /\ connected = {} /\ grants = {} /\ opens = 0
  BY DEF Init
<1>2. OneGrantEach
  BY <1>1 DEF OneGrantEach
<1>3. QED
  BY <1>1, <1>2 DEF OwnInv, ConnectedIsOpen, Open, SlotsDistinct, OpenSlotsGranted

LEMMA InitBridgeOwnInv == IInv /\ OwnInv /\ InitBridge => OwnInv'
<1> SUFFICES ASSUME IInv, OwnInv, InitBridge PROVE OwnInv'
  OBVIOUS
<1>1. DOMAIN slots = {}
  BY DEF IInv, EmptyWhenDown, InitBridge
<1>2. QED
  BY <1>1 DEF InitBridge, OwnInv, ConnectedIsOpen, Open, SlotsDistinct,
              OpenSlotsGranted, OneGrantEach

LEMMA ShutdownOwnInv == IInv /\ OwnInv /\ Shutdown => OwnInv'
<1> SUFFICES ASSUME IInv, OwnInv, Shutdown PROVE OwnInv'
  OBVIOUS
<1>1. DOMAIN slots' = {} /\ connected' = {}
  BY DEF OwnInv, ConnectedIsOpen, Shutdown
<1>2. OneGrantEach'
  BY DEF Shutdown, OwnInv, OneGrantEach
<1>3. QED
  BY <1>1, <1>2 DEF OwnInv, ConnectedIsOpen, Open, SlotsDistinct, OpenSlotsGranted

\* What crsdkpy_open_session_ex does to the table, in the form the proofs use.
LEMMA OpenSessionEffect ==
  ASSUME NEW k \in Keys, IInv, OpenSession(k)
  PROVE  \E i \in 1..(Len(slots) + 1), gen \in 1..opens' :
           /\ opens' = opens + 1 /\ initialized /\ epoch' = epoch
           /\ opens \in Nat
           /\ connected' = connected \cup {opens'}
           /\ Free(i)
           /\ DOMAIN slots' = DOMAIN slots \cup {i}
           /\ slots'[i] = [session |-> opens', generation |-> gen]
           /\ \A j \in DOMAIN slots : j # i => slots'[j] = slots[j]
           /\ i \in DOMAIN slots => gen = slots[i].generation + 1
           /\ grants' = grants \cup {[handle |-> MakeHandle(i, gen),
                                      session |-> opens', epoch |-> epoch]}
<1> DEFINE filled(i) == [session |-> opens', generation |-> NextGeneration(i)]
<1>1. PICK i \in 1..(Len(slots) + 1) :
        /\ FirstFree(i)
        /\ slots' = IF i \in DOMAIN slots
                    THEN [slots EXCEPT ![i] = filled(i)]
                    ELSE Append(slots, filled(i))
        /\ grants' = grants \cup
             {[handle |-> MakeHandle(i, filled(i).generation),
               session |-> opens', epoch |-> epoch]}
  BY DEF OpenSession
<1>2. /\ initialized /\ opens < MaxOpens /\ opens' = opens + 1
      /\ connected' = connected \cup {opens'} /\ epoch' = epoch
  BY DEF OpenSession
<1>3. /\ slots \in Seq(SlotRec) /\ Len(slots) \in Nat
      /\ DOMAIN slots = 1..Len(slots)
      /\ opens \in Nat /\ MaxOpens \in Nat /\ GenModulus \in Nat
      /\ MaxOpens < GenModulus /\ Len(slots) <= opens
  BY BoundsAssumption DEF IInv, TypeOK
<1>4. /\ NextGeneration(i) \in 1..opens'
      /\ i \in DOMAIN slots => NextGeneration(i) = slots[i].generation + 1
  BY <1>2, <1>3 DEF IInv, GenerationBounded, NextGeneration, Increment
<1>5. /\ DOMAIN slots' = DOMAIN slots \cup {i}
      /\ slots'[i] = filled(i)
      /\ \A j \in DOMAIN slots : j # i => slots'[j] = slots[j]
  <2>1. CASE i \in DOMAIN slots
    BY <1>1, <1>3, <2>1
  <2>2. CASE i \notin DOMAIN slots
    <3>1. i = Len(slots) + 1 /\ slots' = Append(slots, filled(i))
      BY <1>1, <1>3, <2>2
    <3> HIDE DEF filled
    <3>2. QED
      BY <1>3, <3>1
  <2>3. QED
    BY <2>1, <2>2
<1>6. QED
  BY <1>1, <1>2, <1>3, <1>4, <1>5 DEF FirstFree

LEMMA OpenSessionOwnInv ==
  ASSUME NEW k \in Keys, IInv, OwnInv, OpenSession(k)
  PROVE  OwnInv'
<1>1. PICK i \in 1..(Len(slots) + 1), gen \in 1..opens' :
           /\ opens' = opens + 1 /\ initialized /\ epoch' = epoch
           /\ opens \in Nat
           /\ connected' = connected \cup {opens'}
           /\ Free(i)
           /\ DOMAIN slots' = DOMAIN slots \cup {i}
           /\ slots'[i] = [session |-> opens', generation |-> gen]
           /\ \A j \in DOMAIN slots : j # i => slots'[j] = slots[j]
           /\ i \in DOMAIN slots => gen = slots[i].generation + 1
           /\ grants' = grants \cup {[handle |-> MakeHandle(i, gen),
                                      session |-> opens', epoch |-> epoch]}
  BY OpenSessionEffect
<1> DEFINE new == [handle |-> MakeHandle(i, gen), session |-> opens', epoch |-> epoch]
<1>2. opens' # NoSession /\ slots'[i].session = opens'
  BY <1>1 DEF NoSession
\* The new session is in no other slot: those were granted before.
<1>3. \A j \in DOMAIN slots : slots[j].session # opens'
  BY <1>1, <1>2 DEF OwnInv, OpenSlotsGranted, IInv, GrantsPast, TypeOK, Grant, Session
<1>4. Open' = Open \cup {opens'}
  BY <1>1, <1>2 DEF Open, Free
<1>5. ConnectedIsOpen'
  BY <1>1, <1>4 DEF OwnInv, ConnectedIsOpen
<1>6. SlotsDistinct'
  BY <1>1, <1>2, <1>3 DEF OwnInv, SlotsDistinct
<1>7. OpenSlotsGranted'
  <2> SUFFICES ASSUME NEW j \in DOMAIN slots', slots'[j].session # NoSession
               PROVE  \E g \in grants' : /\ g.session = slots'[j].session
                                         /\ g.handle = MakeHandle(j, slots'[j].generation)
                                         /\ g.epoch = epoch'
    BY DEF OpenSlotsGranted
  <2>1. CASE j = i
    <3>1. new \in grants' /\ new.session = slots'[i].session /\ new.epoch = epoch'
      BY <1>1, <1>2
    <3>2. new.handle = MakeHandle(i, slots'[i].generation)
      BY <1>1
    <3>3. QED
      BY <2>1, <3>1, <3>2
  <2>2. CASE j # i
    BY <1>1, <2>2 DEF OwnInv, OpenSlotsGranted
  <2>3. QED
    BY <2>1, <2>2
<1>8. OneGrantEach'
  <2>1. \A g \in grants : g.session # opens'
    BY <1>1 DEF IInv, GrantsPast, TypeOK, Grant, Session
  <2>2. grants' = grants \cup {new} /\ new.session = opens'
    BY <1>1
  <2>3. \A s \in 1..opens' : s \in 1..opens \/ s = opens'
    BY <1>1
  <2>4. QED
    BY <2>1, <2>2, <2>3 DEF OwnInv, OneGrantEach
<1>9. QED
  BY <1>5, <1>6, <1>7, <1>8 DEF OwnInv

\* What crsdkpy_close_session does to the table.
LEMMA CloseSessionEffect ==
  ASSUME NEW h \in {g.handle : g \in grants}, IInv, CloseSession(h)
  PROVE  /\ h.index \in DOMAIN slots
         /\ slots[h.index].generation = h.generation
         /\ Resolve(h) = slots[h.index].session /\ Resolve(h) # NoSession
         /\ connected' = connected \ {Resolve(h)}
         /\ DOMAIN slots' = DOMAIN slots
         /\ slots'[h.index].session = NoSession
         /\ slots'[h.index].generation = slots[h.index].generation
         /\ \A j \in DOMAIN slots : j # h.index => slots'[j] = slots[j]
         /\ UNCHANGED <<initialized, keys, opens, epoch, grants>>
<1>1. /\ slots \in Seq(SlotRec)
      /\ \A j \in DOMAIN slots : slots[j] \in SlotRec
  BY DEF IInv, TypeOK
<1>2. QED
  BY <1>1 DEF CloseSession, Resolve, SlotRec

LEMMA CloseSessionOwnInv ==
  ASSUME NEW h \in {g.handle : g \in grants}, IInv, OwnInv, CloseSession(h)
  PROVE  OwnInv'
<1>1. /\ h.index \in DOMAIN slots
      /\ Resolve(h) = slots[h.index].session /\ Resolve(h) # NoSession
      /\ connected' = connected \ {Resolve(h)}
      /\ DOMAIN slots' = DOMAIN slots
      /\ slots'[h.index].session = NoSession
      /\ \A j \in DOMAIN slots : j # h.index => slots'[j] = slots[j]
      /\ UNCHANGED <<initialized, keys, opens, epoch, grants>>
  BY CloseSessionEffect
<1>2. Open' = Open \ {Resolve(h)}
  BY <1>1 DEF Open, OwnInv, SlotsDistinct
<1>3. ConnectedIsOpen' /\ SlotsDistinct'
  BY <1>1, <1>2 DEF OwnInv, ConnectedIsOpen, SlotsDistinct
<1>4. OpenSlotsGranted'
  BY <1>1 DEF OwnInv, OpenSlotsGranted
<1>5. OneGrantEach'
  BY <1>1 DEF OwnInv, OneGrantEach
<1>6. QED
  BY <1>3, <1>4, <1>5 DEF OwnInv

LEMMA NextOwnInv == IInv /\ OwnInv /\ [Next]_vars => OwnInv'
<1> SUFFICES ASSUME IInv, OwnInv, [Next]_vars PROVE OwnInv'
  OBVIOUS
<1>1. CASE InitBridge
  BY <1>1, InitBridgeOwnInv
<1>2. CASE Shutdown
  BY <1>2, ShutdownOwnInv
<1>3. CASE Enumerate \/ UNCHANGED vars
  BY <1>3 DEF Enumerate, vars, OwnInv, ConnectedIsOpen, Open, SlotsDistinct,
              OpenSlotsGranted, OneGrantEach
<1>4. CASE \E k \in Keys : OpenSession(k)
  BY <1>4, OpenSessionOwnInv
<1>5. CASE \E g \in grants : CloseSession(g.handle)
  BY <1>5, CloseSessionOwnInv
<1>6. QED
  BY <1>1, <1>2, <1>3, <1>4, <1>5 DEF Next

LEMMA OwnInvImpliesOwned == IInv /\ OwnInv => ConnectionsOwned
<1> SUFFICES ASSUME IInv, OwnInv PROVE ConnectionsOwned
  OBVIOUS
<1>1. ASSUME NEW s \in connected
      PROVE  \E g \in grants : g.session = s /\ Resolve(g.handle) = s
  <2>1. PICK i \in DOMAIN slots : slots[i].session = s /\ s # NoSession
    BY DEF OwnInv, ConnectedIsOpen, Open
  <2>2. PICK g \in grants : /\ g.session = s
                            /\ g.handle = MakeHandle(i, slots[i].generation)
    BY <2>1 DEF OwnInv, OpenSlotsGranted
  <2>3. Resolve(g.handle) = s
    BY <2>1, <2>2 DEF Resolve, MakeHandle
  <2>4. QED
    BY <2>2, <2>3
<1>2. ~initialized => connected = {}
  BY DEF IInv, EmptyWhenDown, OwnInv, ConnectedIsOpen, Open
<1>3. QED
  BY <1>1, <1>2 DEF ConnectionsOwned, OwnInv, ConnectedIsOpen, SlotsDistinct

\* Every device the vendor library holds sits in exactly one slot, and a handle
\* of this initialisation closes it: open, close, the reuse of slots and a
\* shutdown never leave a camera connected that nobody can release.
THEOREM ConnectionsHaveOwners == Spec => []ConnectionsOwned
  BY InitIInv, NextIInv, InitOwnInv, NextOwnInv, OwnInvImpliesOwned, PTL DEF Spec

-----------------------------------------------------------------------------
(* The table as its users need it: what holds of it, and what each operation *)
(* leaves connected and reachable.                                           *)

TableInv == IInv /\ OwnInv

LEMMA Facts ==
  ASSUME TableInv
  PROVE  /\ opens \in 0..MaxOpens /\ epoch \in 0..MaxEpochs /\ initialized \in BOOLEAN
         /\ NoSession \notin connected /\ connected \subseteq 1..opens
         /\ \A g \in grants : /\ g.session \in 1..opens /\ g.epoch \in 1..epoch
                              /\ g.handle \in IssuedHandle
         /\ \A g, h \in grants : g.session = h.session => g = h
         /\ \A s \in connected : \E g \in grants : g.session = s /\ Resolve(g.handle) = s
         /\ \A g \in grants : g.epoch = epoch => Resolve(g.handle) \in {NoSession, g.session}
         /\ \A h : Resolve(h) # NoSession => Resolve(h) \in connected
         /\ ~initialized => connected = {} /\ \A h : Resolve(h) = NoSession
         /\ initialized => epoch >= 1
<1>1. ConnectionsOwned /\ NoAliasing
  BY OwnInvImpliesOwned, TrackedImpliesNoAliasing DEF TableInv
<1>2. opens \in 0..MaxOpens /\ epoch \in 0..MaxEpochs /\ initialized \in BOOLEAN
  BY DEF TableInv, IInv, TypeOK
<1>3. \A g \in grants : /\ g.session \in 1..opens /\ g.epoch \in 1..epoch
                        /\ g.handle \in IssuedHandle
  BY <1>2, BoundsAssumption DEF TableInv, IInv, TypeOK, Grant, GrantsPast, Session
<1>4. \A h : Resolve(h) # NoSession => Resolve(h) \in connected
  BY DEF Resolve, TableInv, OwnInv, ConnectedIsOpen, Open
<1>5. ~initialized => \A h : Resolve(h) = NoSession
  BY DEF Resolve, TableInv, IInv, EmptyWhenDown
<1>6. \A s \in connected : s \in 1..opens
  BY <1>1, <1>3 DEF ConnectionsOwned
<1>7. NoSession \notin connected
  BY <1>6 DEF NoSession
<1>8. QED
  BY <1>1, <1>2, <1>3, <1>4, <1>5, <1>6, <1>7
     DEF ConnectionsOwned, NoAliasing, TableInv, OwnInv, OneGrantEach, IInv, EpochStarted

LEMMA ShutdownFacts ==
  ASSUME TableInv, Shutdown
  PROVE  /\ initialized /\ initialized' = FALSE /\ keys' = {} /\ connected' = {}
         /\ UNCHANGED <<opens, epoch, grants>>
         /\ \A h : Resolve(h)' = NoSession
<1>1. connected' = {}
  BY DEF Shutdown, TableInv, OwnInv, ConnectedIsOpen
<1>2. \A h : Resolve(h)' = NoSession
  BY DEF Shutdown, Resolve
<1>3. QED
  BY <1>1, <1>2 DEF Shutdown

LEMMA OpenFacts ==
  ASSUME TableInv, NEW k \in Keys, OpenSession(k)
  PROVE  /\ initialized /\ UNCHANGED <<initialized, keys, epoch>>
         /\ opens' = opens + 1 /\ opens' \in Session
         /\ connected' = connected \cup {opens'}
         /\ grants \subseteq grants'
         /\ \E g \in grants' : g.session = opens' /\ g.epoch = epoch /\ Resolve(g.handle)' = opens'
         /\ \A h : Resolve(h) # NoSession => Resolve(h)' = Resolve(h)
         /\ \A h : Resolve(h)' \in {Resolve(h), opens'}
<1>1. PICK i \in 1..(Len(slots) + 1), gen \in 1..opens' :
        /\ opens' = opens + 1 /\ initialized /\ epoch' = epoch
        /\ opens \in Nat
        /\ connected' = connected \cup {opens'}
        /\ Free(i)
        /\ DOMAIN slots' = DOMAIN slots \cup {i}
        /\ slots'[i] = [session |-> opens', generation |-> gen]
        /\ \A j \in DOMAIN slots : j # i => slots'[j] = slots[j]
        /\ i \in DOMAIN slots => gen = slots[i].generation + 1
        /\ grants' = grants \cup {[handle |-> MakeHandle(i, gen),
                                   session |-> opens', epoch |-> epoch]}
  BY OpenSessionEffect DEF TableInv
<1>2. opens < MaxOpens /\ UNCHANGED <<initialized, keys>>
  BY DEF OpenSession
<1>3. /\ \A h : Resolve(h) # NoSession => Resolve(h)' = Resolve(h)
      /\ \A h : Resolve(h)' \in {Resolve(h), opens'}
  BY <1>1 DEF Resolve, Free
<1>4. opens' \in Session
  BY <1>1, <1>2, BoundsAssumption DEF Session
<1>5. grants \subseteq grants' /\ \E g \in grants' :
        g.session = opens' /\ g.epoch = epoch /\ Resolve(g.handle)' = opens'
  <2>1. PICK new : new = [handle |-> MakeHandle(i, gen), session |-> opens', epoch |-> epoch]
    OBVIOUS
  <2>2. /\ new.session = opens' /\ new.epoch = epoch
        /\ new.handle.index = i /\ new.handle.generation = gen
    BY <2>1 DEF MakeHandle
  <2>3. grants' = grants \cup {new}
    BY <1>1, <2>1
  <2>4. Resolve(new.handle)' = opens'
    BY <1>1, <2>2 DEF Resolve
  <2>5. QED
    BY <2>2, <2>3, <2>4
<1>6. QED
  BY <1>1, <1>2, <1>3, <1>4, <1>5

LEMMA CloseFacts ==
  ASSUME TableInv, NEW g \in grants, CloseSession(g.handle)
  PROVE  /\ Resolve(g.handle) # NoSession
         /\ connected' = connected \ {Resolve(g.handle)}
         /\ UNCHANGED <<initialized, keys, opens, epoch, grants>>
         /\ Resolve(g.handle)' = NoSession
         /\ \A h : Resolve(h) # Resolve(g.handle) => Resolve(h)' = Resolve(h)
<1> DEFINE c == g.handle
<1>1. /\ c.index \in DOMAIN slots
      /\ slots[c.index].generation = c.generation
      /\ Resolve(c) = slots[c.index].session /\ Resolve(c) # NoSession
      /\ connected' = connected \ {Resolve(c)}
      /\ DOMAIN slots' = DOMAIN slots
      /\ slots'[c.index].session = NoSession
      /\ slots'[c.index].generation = slots[c.index].generation
      /\ \A j \in DOMAIN slots : j # c.index => slots'[j] = slots[j]
      /\ UNCHANGED <<initialized, keys, opens, epoch, grants>>
  BY CloseSessionEffect DEF TableInv
<1>2. grants' = grants
  BY <1>1
<1>3. Resolve(c)' = NoSession
  BY <1>1 DEF Resolve
<1> HIDE DEF c
<1>4. \A h : Resolve(h) # Resolve(c) => Resolve(h)' = Resolve(h)
  BY <1>1 DEF Resolve
<1>5. QED
  BY <1>1, <1>3, <1>4 DEF c

-----------------------------------------------------------------------------
(* The table implements SessionService.                                      *)

\* What the abstract reach says of a session, without the choice in GrantOf.
ReachGranted ==
  \A g \in grants :
    Reach[g.session] = IF g.epoch = epoch THEN Resolve(g.handle) ELSE NoSession
ReachFuture == \A s \in Session : ~(s <= opens) => Reach[s] = NoSession
ReachTotal == Reach = [s \in Session |-> Reach[s]]
ReachKnown == ReachGranted /\ ReachFuture /\ ReachTotal

LEMMA InvReachKnown == IInv /\ OwnInv => ReachKnown
<1> SUFFICES ASSUME IInv, OwnInv PROVE ReachKnown
  OBVIOUS
<1>1. ASSUME NEW g \in grants
      PROVE  Reach[g.session] = IF g.epoch = epoch THEN Resolve(g.handle) ELSE NoSession
  <2>1. g.session \in Session /\ g.session <= opens
    BY DEF IInv, TypeOK, Grant, GrantsPast
  <2>2. GrantOf(g.session) \in grants /\ GrantOf(g.session).session = g.session
    BY DEF GrantOf
  <2>3. GrantOf(g.session) = g
    BY <2>2 DEF OwnInv, OneGrantEach
  <2>4. QED
    BY <2>1, <2>3 DEF Reach
<1>2. ReachFuture /\ ReachTotal
  BY DEF Reach, ReachFuture, ReachTotal
<1>3. QED
  BY <1>1, <1>2 DEF ReachKnown, ReachGranted

\* Grants are the only sessions there are.
LEMMA SessionGranted ==
  ASSUME IInv, OwnInv, NEW s \in Session
  PROVE  ~(s <= opens) \/ \E g \in grants : g.session = s
  BY BoundsAssumption DEF IInv, OwnInv, TypeOK, OneGrantEach, Session

LEMMA InitBridgeImplements ==
  IInv /\ OwnInv /\ ReachKnown /\ ReachKnown' /\ InitBridge => Reach' = Reach /\ opens' = opens
<1> SUFFICES ASSUME IInv, OwnInv, ReachKnown, ReachKnown', InitBridge
             PROVE  Reach' = Reach /\ opens' = opens
  OBVIOUS
<1>1. grants' = grants /\ opens' = opens /\ epoch' = epoch + 1 /\ epoch \in Nat
  BY DEF InitBridge, IInv, TypeOK
<1>2. ASSUME NEW s \in Session PROVE Reach'[s] = Reach[s]
  <2>1. CASE ~(s <= opens)
    BY <1>1, <2>1 DEF ReachKnown, ReachFuture
  <2>2. CASE \E g \in grants : g.session = s
    <3>1. PICK g \in grants : g.session = s
      BY <2>2
    <3>2. g.epoch # epoch' /\ Resolve(g.handle) = NoSession
      BY <1>1 DEF InitBridge, IInv, EmptyWhenDown, GrantsPast, TypeOK, Grant, Resolve
    <3>3. QED
      BY <1>1, <3>1, <3>2 DEF ReachKnown, ReachGranted
  <2>3. QED
    BY <2>1, <2>2, SessionGranted
<1>3. QED
  BY <1>1, <1>2 DEF ReachKnown, ReachTotal

LEMMA ShutdownImplements ==
  IInv /\ OwnInv /\ ReachKnown /\ ReachKnown' /\ Shutdown => Service!CloseSome(1..opens)
<1> SUFFICES ASSUME IInv, OwnInv, ReachKnown, ReachKnown', Shutdown
             PROVE  Service!CloseSome(1..opens)
  OBVIOUS
<1>1. grants' = grants /\ opens' = opens /\ opens \in Nat /\ DOMAIN slots' = {}
  BY DEF Shutdown, IInv, TypeOK
<1>2. ASSUME NEW s \in Session
      PROVE  Reach'[s] = IF s \in 1..opens THEN NoSession ELSE Reach[s]
  <2>1. CASE ~(s <= opens)
    BY <1>1, <2>1 DEF ReachKnown, ReachFuture
  <2>2. CASE s <= opens
    <3>1. PICK g \in grants : g.session = s
      BY <2>2, SessionGranted
    <3>2. Resolve(g.handle)' = NoSession
      BY <1>1 DEF Resolve
    <3>3. Reach'[s] = NoSession
      BY <1>1, <3>1, <3>2 DEF ReachKnown, ReachGranted
    <3>4. s \in 1..opens
      BY <1>1, <2>2, BoundsAssumption DEF Session
    <3>5. QED
      BY <3>3, <3>4
  <2>3. QED
    BY <2>1, <2>2
<1>3. QED
  BY <1>1, <1>2 DEF Service!CloseSome, ReachKnown, ReachTotal

LEMMA OpenSessionImplements ==
  ASSUME NEW k \in Keys, IInv, OwnInv, ReachKnown, ReachKnown', OpenSession(k)
  PROVE  opens' \in Session /\ Service!OpenOne(opens')
<1>1. PICK i \in 1..(Len(slots) + 1), gen \in 1..opens' :
           /\ opens' = opens + 1 /\ initialized /\ epoch' = epoch
           /\ opens \in Nat
           /\ connected' = connected \cup {opens'}
           /\ Free(i)
           /\ DOMAIN slots' = DOMAIN slots \cup {i}
           /\ slots'[i] = [session |-> opens', generation |-> gen]
           /\ \A j \in DOMAIN slots : j # i => slots'[j] = slots[j]
           /\ i \in DOMAIN slots => gen = slots[i].generation + 1
           /\ grants' = grants \cup {[handle |-> MakeHandle(i, gen),
                                      session |-> opens', epoch |-> epoch]}
  BY OpenSessionEffect
<1> DEFINE new == [handle |-> MakeHandle(i, gen), session |-> opens', epoch |-> epoch]
<1>2. opens' \in Session
  BY <1>1, BoundsAssumption DEF OpenSession, Session
<1>3. Reach'[opens'] = opens'
  <2>1. new \in grants' /\ new.session = opens' /\ new.epoch = epoch'
    BY <1>1
  <2>2. new.handle = MakeHandle(i, gen) /\ Resolve(MakeHandle(i, gen))' = opens'
    BY <1>1 DEF Resolve, MakeHandle
  <2>3. QED
    BY <2>1, <2>2 DEF ReachKnown, ReachGranted
<1>4. ASSUME NEW s \in Session, s # opens' PROVE Reach'[s] = Reach[s]
  <2>1. CASE ~(s <= opens)
    <3>1. ~(s <= opens')
      BY <1>1, <1>4, <2>1 DEF Session
    <3>2. QED
      BY <2>1, <3>1 DEF ReachKnown, ReachFuture
  <2>2. CASE s <= opens
    <3>1. PICK g \in grants : g.session = s
      BY <2>2, SessionGranted
    <3>2. g \in grants' /\ (g.epoch = epoch' <=> g.epoch = epoch)
      BY <1>1
    <3>3. g.epoch = epoch => Resolve(g.handle)' = Resolve(g.handle)
      <4> SUFFICES ASSUME g.epoch = epoch
                   PROVE  Resolve(g.handle)' = Resolve(g.handle)
        OBVIOUS
      <4>1. /\ g.handle.index \in DOMAIN slots
            /\ g.handle.generation <= slots[g.handle.index].generation
        BY <1>1 DEF IInv, GrantsTracked
      <4>2. CASE g.handle.index # i
        BY <1>1, <4>1, <4>2 DEF Resolve
      \* The slot was free, and its new occupant has a later generation.
      <4>3. CASE g.handle.index = i
        <5>1. Resolve(g.handle) = NoSession
          BY <1>1, <4>3 DEF Resolve, Free
        <5>2. g.handle.generation \in Nat /\ slots[i].generation \in Nat
          <6>1. slots[i] \in SlotRec /\ g.handle \in IssuedHandle
            BY <4>1, <4>3 DEF IInv, TypeOK, Grant
          <6>2. QED
            BY <6>1, BoundsAssumption DEF IssuedHandle, SlotRec
        <5>3. slots'[i].generation # g.handle.generation
          BY <1>1, <4>1, <4>3, <5>2
        <5>4. QED
          BY <4>3, <5>1, <5>3 DEF Resolve
      <4>4. QED
        BY <4>2, <4>3
    <3>4. QED
      BY <3>1, <3>2, <3>3 DEF ReachKnown, ReachGranted
  <2>3. QED
    BY <2>1, <2>2
<1>5. Reach' = [Reach EXCEPT ![opens'] = opens']
  BY <1>2, <1>3, <1>4 DEF ReachKnown, ReachTotal
<1>6. opens' \notin 1..opens /\ 1..opens' = 1..opens \cup {opens'}
  BY <1>1
<1>7. QED
  BY <1>2, <1>5, <1>6 DEF Service!OpenOne

LEMMA CloseSessionImplements ==
  ASSUME NEW h \in {g.handle : g \in grants}, IInv, OwnInv, ReachKnown, ReachKnown',
         CloseSession(h)
  PROVE  Resolve(h) \in 1..opens /\ Service!CloseSome({Resolve(h)})
<1>1. /\ h.index \in DOMAIN slots
      /\ slots[h.index].generation = h.generation
      /\ Resolve(h) = slots[h.index].session /\ Resolve(h) # NoSession
      /\ DOMAIN slots' = DOMAIN slots
      /\ slots'[h.index].session = NoSession
      /\ slots'[h.index].generation = slots[h.index].generation
      /\ \A j \in DOMAIN slots : j # h.index => slots'[j] = slots[j]
      /\ UNCHANGED <<initialized, keys, opens, epoch, grants>>
  BY CloseSessionEffect
<1>2. PICK o \in grants : o.session = Resolve(h) /\ o.epoch = epoch
                          /\ o.handle = MakeHandle(h.index, slots[h.index].generation)
  BY <1>1 DEF OwnInv, OpenSlotsGranted
<1>3. Resolve(h) \in Session /\ Resolve(h) \in 1..opens
  BY <1>2, BoundsAssumption DEF IInv, TypeOK, GrantsPast, Grant, Session
<1>4. ASSUME NEW s \in Session
      PROVE  Reach'[s] = IF s \in {Resolve(h)} THEN NoSession ELSE Reach[s]
  <2>1. CASE ~(s <= opens)
    BY <1>1, <1>3, <2>1 DEF ReachKnown, ReachFuture
  <2>2. CASE s <= opens
    <3>1. PICK g \in grants : g.session = s
      BY <2>2, SessionGranted
    <3>2. Resolve(g.handle)' = IF Resolve(g.handle) = Resolve(h)
                               THEN NoSession ELSE Resolve(g.handle)
      BY <1>1 DEF Resolve, OwnInv, SlotsDistinct
    <3>3. CASE s = Resolve(h)
      <4>1. g = o
        BY <1>2, <3>1, <3>3 DEF OwnInv, OneGrantEach
      <4>2. Resolve(g.handle) = Resolve(h)
        BY <1>1, <1>2, <4>1 DEF Resolve, MakeHandle
      <4>3. QED
        BY <1>1, <3>1, <3>2, <3>3, <4>2 DEF ReachKnown, ReachGranted
    <3>4. CASE s # Resolve(h)
      \* no other current handle reached the session that ends
      <4>1. g.epoch = epoch => Resolve(g.handle) # Resolve(h)
        BY <1>1, <3>1, <3>4, TrackedImpliesNoAliasing DEF NoAliasing
      <4>2. QED
        BY <1>1, <3>1, <3>2, <3>4, <4>1 DEF ReachKnown, ReachGranted
    <3>5. QED
      BY <3>3, <3>4
  <2>3. QED
    BY <2>1, <2>2
<1>5. QED
  BY <1>1, <1>3, <1>4 DEF Service!CloseSome, ReachKnown, ReachTotal

LEMMA NextImplements ==
  IInv /\ OwnInv /\ ReachKnown /\ ReachKnown' /\ [Next]_vars => [Service!Next]_(Service!vars)
<1> SUFFICES ASSUME IInv, OwnInv, ReachKnown, ReachKnown', [Next]_vars
             PROVE  [Service!Next]_(Service!vars)
  OBVIOUS
<1>1. CASE InitBridge
  BY <1>1, InitBridgeImplements DEF Service!vars
<1>2. CASE Shutdown
  BY <1>2, ShutdownImplements DEF Service!Next
<1>3. CASE Enumerate \/ UNCHANGED vars
  <2>1. UNCHANGED <<slots, opens, epoch, grants>>
    BY <1>3 DEF Enumerate, vars
  <2>2. Reach' = Reach
    BY <2>1 DEF Reach, GrantOf, Resolve
  <2>3. QED
    BY <2>1, <2>2 DEF Service!vars
<1>4. CASE \E k \in Keys : OpenSession(k)
  BY <1>4, OpenSessionImplements DEF Service!Next
<1>5. CASE \E g \in grants : CloseSession(g.handle)
  <2>1. PICK g \in grants : CloseSession(g.handle)
    BY <1>5
  <2>2. Resolve(g.handle) \in 1..opens /\ Service!CloseSome({Resolve(g.handle)})
    BY <2>1, CloseSessionImplements
  <2>3. QED
    BY <2>2 DEF Service!Next
<1>6. QED
  BY <1>1, <1>2, <1>3, <1>4, <1>5 DEF Next

LEMMA InitImplements == Init => Service!Init
  BY DEF Init, Service!Init, Reach, Session

\* For the holders of handles of the current initialisation the table is a
\* SessionService: a handle reaches its session from the open to the close and
\* nothing from then on, whatever open_session_ex, close_session, shutdown and
\* init do to the slots and their generations.
THEOREM TableImplementsService == Spec => ImplementsService
<1>1. Spec => [](IInv /\ OwnInv)
  BY InitIInv, NextIInv, InitOwnInv, NextOwnInv, PTL DEF Spec
<1>2. QED
  BY <1>1, InitImplements, InvReachKnown, NextImplements, PTL
  DEF Spec, ImplementsService, Service!Spec
=============================================================================
