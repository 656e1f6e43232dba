-------------------------- MODULE Ownership_proofs --------------------------
(***************************************************************************)
(* Proofs about who owns an open camera: for any number of SDK objects,    *)
(* cameras and opens, a connected camera has a Session that reaches it and *)
(* nothing is connected once every SDK is closed; and for one SDK object a *)
(* Session is a token of SessionService.  What is proved of BridgeSlots is *)
(* used through the instance Table.                                        *)
(***************************************************************************)
EXTENDS Ownership, FiniteSetTheorems, TLAPS

Table == INSTANCE BridgeSlots_proofs WITH MaxEpochs <- MaxStarts

TableInv == Table!TableInv

Issued(h, b) == \E g \in grants : g.handle = h /\ g.session = b

\* The tables of the SDK objects.
Tables ==
  /\ handles = [d \in Sdks |-> handles[d]]
  /\ \A d \in Sdks : counter[d] <= opens
  /\ \A d \in Sdks : \A i \in DOMAIN handles[d] : \E g \in grants : g.handle = handles[d][i]
  /\ Len(cameras) <= MaxCameras

\* What a Session still has a handle for is what it was made for, and no two
\* Sessions share an id or a connection.
Has(s) == sessions[s].id \in DOMAIN handles[SdkOf(s)]
SessionFits(s) ==
  /\ sessions[s].camera \in DOMAIN cameras
  /\ sessions[s].id \in 1..counter[SdkOf(s)]
  /\ own[s] \in 1..opens
  /\ Has(s) => Issued(HandleOf(s), own[s])
SessionsFit == \A s \in DOMAIN sessions : SessionFits(s)
SessionsApart ==
  \A s, t \in DOMAIN sessions : s # t =>
    /\ own[s] # own[t]
    /\ SdkOf(s) = SdkOf(t) => sessions[s].id # sessions[t].id

\* ConnectionsHeld with the reason why the holder reaches its camera.
Held ==
  \A b \in connected \ failed :
    \E s \in DOMAIN sessions : ~sessions[s].closed /\ own[s] = b /\ Has(s)

Up == initialized => \E d \in Sdks : started[d]

\* With one SDK object its table never outlives the bridge's.
Single == \A d, e \in Sdks : d = e
Current ==
  Single =>
    /\ \A d \in Sdks : DOMAIN handles[d] # {} => initialized
    /\ \A s \in DOMAIN sessions : Has(s) =>
         \E g \in grants : g.handle = HandleOf(s) /\ g.session = own[s] /\ g.epoch = epoch

IInv ==
  /\ TableInv /\ TypeOK /\ Tables
  /\ SessionsFit /\ SessionsApart
  /\ Held /\ Up /\ Current

-----------------------------------------------------------------------------
(* The session table of the bridge.                                        *)

LEMMA TableBounds == Table!BoundsAssumption
  BY BoundsAssumption DEF Table!BoundsAssumption

LEMMA SameNumbers == /\ NoSession = 0 /\ Table!NoSession = 0 /\ Bridge!NoSession = 0
                     /\ \A h : Bridge!Resolve(h) = Table!Resolve(h)
  BY DEF NoSession, Table!NoSession, Bridge!NoSession, Bridge!Resolve, Table!Resolve

LEMMA SameOperations ==
  /\ Bridge!Init => Table!Init
  /\ Bridge!InitBridge => Table!InitBridge
  /\ Bridge!Shutdown => Table!Shutdown
  /\ Bridge!Enumerate => Table!Enumerate
  /\ \A k : Bridge!OpenSession(k) => Table!OpenSession(k)
  /\ \A h : Bridge!CloseSession(h) => Table!CloseSession(h)
<1>1. Bridge!Init => Table!Init
  BY DEF Bridge!Init, Table!Init
<1>2. Bridge!InitBridge => Table!InitBridge
  BY DEF Bridge!InitBridge, Table!InitBridge
<1>3. Bridge!Shutdown => Table!Shutdown
  BY DEF Bridge!Shutdown, Table!Shutdown, Bridge!Open, Table!Open, Bridge!NoSession, Table!NoSession
<1>4. Bridge!Enumerate => Table!Enumerate
  BY DEF Bridge!Enumerate, Table!Enumerate
<1>5. ASSUME NEW k, Bridge!OpenSession(k) PROVE Table!OpenSession(k)
  BY <1>5
     DEF Bridge!OpenSession, Table!OpenSession, Bridge!FirstFree, Table!FirstFree, Bridge!Free,
         Table!Free, Bridge!NextGeneration, Table!NextGeneration, Bridge!Increment, Table!Increment,
         Bridge!MakeHandle, Table!MakeHandle, Bridge!NoSession, Table!NoSession
<1>6. ASSUME NEW h, Bridge!CloseSession(h) PROVE Table!CloseSession(h)
  BY <1>6 DEF Bridge!CloseSession, Table!CloseSession, Bridge!Resolve, Table!Resolve,
         Bridge!NoSession, Table!NoSession
<1>7. QED
  BY <1>1, <1>2, <1>3, <1>4, <1>5, <1>6

\* What a step of an SDK object does to the table.
TableStep ==
  \/ UNCHANGED bridge
  \/ Bridge!InitBridge \/ Bridge!Shutdown \/ Bridge!Enumerate
  \/ \E k \in Keys : Bridge!OpenSession(k)
  \/ \E g \in grants : Bridge!CloseSession(g.handle)

LEMMA TableKept == TableInv /\ TableStep => TableInv'
<1> SUFFICES ASSUME TableInv, TableStep PROVE TableInv'
  OBVIOUS
<1>1. [Table!Next]_(Table!vars)
  <2>1. UNCHANGED bridge => UNCHANGED Table!vars
    BY DEF bridge, Table!vars
  <2>2. QED
    BY <2>1, SameOperations DEF TableStep, Table!Next
<1>2. QED
  BY <1>1, TableBounds, Table!NextIInv, Table!NextOwnInv DEF TableInv, Table!TableInv

LEMMA TableFacts ==
  ASSUME TableInv
  PROVE  /\ opens \in 0..MaxOpens /\ epoch \in 0..MaxStarts /\ initialized \in BOOLEAN
         /\ NoSession \notin connected /\ connected \subseteq 1..opens
         /\ \A g \in grants : /\ g.session \in 1..opens /\ g.epoch \in 1..epoch
                              /\ g.handle \in Bridge!IssuedHandle
         /\ \A g, h \in grants : g.session = h.session => g = h
         /\ \A s \in connected : \E g \in grants : g.session = s /\ Bridge!Resolve(g.handle) = s
         /\ \A g \in grants : g.epoch = epoch => Bridge!Resolve(g.handle) \in {NoSession, g.session}
         /\ \A h : Bridge!Resolve(h) # NoSession => Bridge!Resolve(h) \in connected
         /\ ~initialized => connected = {} /\ \A h : Bridge!Resolve(h) = NoSession
  BY TableBounds, Table!Facts, SameNumbers
     DEF TableInv, Bridge!IssuedHandle, Table!IssuedHandle

LEMMA ShutdownFacts ==
  ASSUME TableInv, Bridge!Shutdown
  PROVE  /\ initialized /\ initialized' = FALSE /\ keys' = {} /\ connected' = {}
         /\ UNCHANGED <<opens, epoch, grants>>
         /\ \A h : Bridge!Resolve(h)' = NoSession
<1>1. Table!Shutdown
  BY SameOperations
<1>2. QED
  BY <1>1, TableBounds, Table!ShutdownFacts
     DEF TableInv, Bridge!Resolve, Table!Resolve, NoSession, Bridge!NoSession, Table!NoSession

LEMMA OpenFacts ==
  ASSUME TableInv, NEW k \in Keys, Bridge!OpenSession(k)
  PROVE  /\ initialized /\ UNCHANGED <<initialized, keys, epoch>>
         /\ opens' = opens + 1 /\ opens' \in 1..MaxOpens
         /\ connected' = connected \cup {opens'}
         /\ grants \subseteq grants'
         /\ \E g \in grants' :
              g.session = opens' /\ g.epoch = epoch /\ Bridge!Resolve(g.handle)' = opens'
         /\ \A h : Bridge!Resolve(h) # NoSession => Bridge!Resolve(h)' = Bridge!Resolve(h)
         /\ \A h : Bridge!Resolve(h)' \in {Bridge!Resolve(h), opens'}
<1>1. Table!OpenSession(k)
  BY SameOperations
<1>2. QED
  BY <1>1, TableBounds, SameNumbers, Table!OpenFacts
     DEF TableInv, Table!Session, Bridge!Resolve, Table!Resolve, NoSession, Bridge!NoSession,
         Table!NoSession

LEMMA CloseFacts ==
  ASSUME TableInv, NEW g \in grants, Bridge!CloseSession(g.handle)
  PROVE  /\ connected' = connected \ {Bridge!Resolve(g.handle)}
         /\ UNCHANGED <<initialized, keys, opens, epoch, grants>>
         /\ Bridge!Resolve(g.handle) # NoSession /\ Bridge!Resolve(g.handle)' = NoSession
         /\ \A h : Bridge!Resolve(h) # Bridge!Resolve(g.handle) => Bridge!Resolve(h)' = Bridge!Resolve(h)
<1>1. Table!CloseSession(g.handle)
  BY SameOperations
<1>2. QED
  BY <1>1, TableBounds, Table!CloseFacts
     DEF TableInv, Bridge!Resolve, Table!Resolve, NoSession, Bridge!NoSession, Table!NoSession

\* The handle of no session names nothing.
LEMMA NothingNamed == TableInv => Bridge!Resolve(Bridge!MakeHandle(0, 0)) = NoSession
<1> SUFFICES ASSUME TableInv PROVE Bridge!Resolve(Bridge!MakeHandle(0, 0)) = NoSession
  OBVIOUS
<1>1. 0 \notin DOMAIN slots
  BY DEF TableInv, Table!TableInv, Table!IInv, Table!TypeOK
<1>2. Bridge!MakeHandle(0, 0).index = 0
  BY DEF Bridge!MakeHandle
<1>3. QED
  BY <1>1, <1>2 DEF Bridge!Resolve, NoSession, Bridge!NoSession

-----------------------------------------------------------------------------
(* What the operations do.                                                 *)

CamerasGrow ==
  /\ cameras' \in Seq(CameraRecord) /\ Len(cameras') <= MaxCameras
  /\ Len(cameras) <= Len(cameras')
  /\ \A c \in DOMAIN cameras : cameras'[c] = cameras[c]

LEMMA SetToSeqType ==
  ASSUME NEW S, IsFiniteSet(S)
  PROVE  Cardinality(S) \in Nat /\ SetToSeq(S) \in [1..Cardinality(S) -> S]
<1>1. Cardinality(S) \in Nat /\ \E f \in [1..Cardinality(S) -> S] : IsInjective(f)
  BY FS_CardinalityType DEF ExistsBijection, Bijection, Injection
<1>2. QED
  BY <1>1 DEF SetToSeq

LEMMA DiscoverEffect ==
  ASSUME IInv, NEW d \in Sdks, Discover(d)
  PROVE  CamerasGrow /\ listed' \in [Sdks -> SUBSET DOMAIN cameras']
<1> DEFINE new == {k \in keys' : Known(d, k) = {}}
           n == Cardinality(new)
           added == [i \in 1..n |-> [sdk |-> d, key |-> SetToSeq(new)[i]]]
<1>1. /\ cameras \in Seq(CameraRecord) /\ listed \in [Sdks -> SUBSET DOMAIN cameras]
  BY DEF IInv, TypeOK
<1>2. /\ keys' \subseteq Keys /\ Len(cameras) + n <= MaxCameras
      /\ cameras' = cameras \o added
      /\ listed' = [listed EXCEPT ![d] =
           {c \in @ : cameras[c].key \in keys'} \cup (Len(cameras) + 1)..(Len(cameras) + n)]
  BY DEF Discover, Bridge!Enumerate
<1>3. n \in Nat /\ \A i \in 1..n : SetToSeq(new)[i] \in Keys
  <2>1. IsFiniteSet(new) /\ new \subseteq Keys
    BY <1>2, KeysAssumption, FS_Subset
  <2> HIDE DEF new
  <2>2. QED
    BY <2>1, SetToSeqType
<1> HIDE DEF new
<1>4. added \in Seq(CameraRecord) /\ Len(added) = n
  <2> DEFINE key(i) == SetToSeq(new)[i]
  <2>1. \A i \in 1..n : key(i) \in Keys
    BY <1>3
  <2> HIDE DEF key
  <2>2. \A i \in 1..n : [sdk |-> d, key |-> key(i)] \in CameraRecord
    BY <2>1 DEF CameraRecord
  <2>3. added \in [1..n -> CameraRecord]
    BY <2>2 DEF key
  <2> HIDE DEF added, n
  <2>4. QED
    BY <1>3, <2>3
<1> HIDE DEF added, n
<1>5. /\ cameras' \in Seq(CameraRecord) /\ Len(cameras') = Len(cameras) + n
      /\ \A c \in DOMAIN cameras : cameras'[c] = cameras[c]
  <2>1. cameras' = cameras \o added /\ cameras' \in Seq(CameraRecord)
    BY <1>1, <1>2, <1>4
  <2>2. Len(cameras') = Len(cameras) + n
    <3>1. Len(cameras \o added) = Len(cameras) + Len(added)
      BY <1>1, <1>4
    <3>2. QED
      BY <1>4, <2>1, <3>1
  <2>3. ASSUME NEW c \in DOMAIN cameras PROVE cameras'[c] = cameras[c]
    <3>1. c \in 1..Len(cameras) /\ Len(cameras) \in Nat
      BY <1>1
    <3>2. (cameras \o added)[c] = cameras[c]
      BY <1>1, <1>4, <3>1
    <3>3. QED
      BY <2>1, <3>2
  <2>4. QED
    BY <2>1, <2>2, <2>3
<1>6. /\ DOMAIN cameras \subseteq DOMAIN cameras'
      /\ (Len(cameras) + 1)..(Len(cameras) + n) \subseteq DOMAIN cameras'
  BY <1>1, <1>3, <1>5
<1>7. listed' \in [Sdks -> SUBSET DOMAIN cameras']
  BY <1>1, <1>2, <1>6
<1>8. Len(cameras) <= Len(cameras') /\ Len(cameras') <= MaxCameras
  BY <1>1, <1>2, <1>3, <1>5
<1>9. QED
  BY <1>5, <1>7, <1>8 DEF CamerasGrow

LEMMA CamerasStep ==
  ASSUME IInv, [Next]_vars
  PROVE  /\ CamerasGrow /\ listed' \in [Sdks -> SUBSET DOMAIN cameras']
         /\ \A c \in DOMAIN cameras : c \in DOMAIN cameras'
<1>1. /\ cameras \in Seq(CameraRecord) /\ listed \in [Sdks -> SUBSET DOMAIN cameras]
      /\ Len(cameras) <= MaxCameras /\ Len(cameras) \in Nat
  BY DEF IInv, TypeOK, Tables
<1>2. CamerasGrow /\ listed' \in [Sdks -> SUBSET DOMAIN cameras']
  <2>1. CASE UNCHANGED <<cameras, listed>>
    BY <1>1, <2>1 DEF CamerasGrow
  <2>2. CASE \E d \in Sdks : Discover(d)
    BY <2>2, DiscoverEffect
  <2>3. ASSUME NEW d \in Sdks, Close(d) PROVE CamerasGrow /\ listed' \in [Sdks -> SUBSET DOMAIN cameras']
    <3>1. cameras' = cameras /\ listed' = [listed EXCEPT ![d] = {}]
      BY <2>3 DEF Close
    <3>2. QED
      BY <1>1, <3>1 DEF CamerasGrow
  <2>4. CASE ~\E d \in Sdks : Discover(d) \/ Close(d)
    <3>1. UNCHANGED <<cameras, listed>>
      BY <2>4 DEF Next, vars, objects, Start, DiscoverFails, Open, OpenRaises, Registered, CloseSession
    <3>2. QED
      BY <2>1, <3>1
  <2>5. QED
    BY <2>2, <2>3, <2>4
<1>3. \A c \in DOMAIN cameras : c \in DOMAIN cameras'
  BY <1>1, <1>2 DEF CamerasGrow
<1>4. QED
  BY <1>2, <1>3

\* An open registers the new connection's handle under a new id.
Registers(d) ==
  \E g \in grants' :
    /\ g.session = opens' /\ g.epoch = epoch' /\ Bridge!Resolve(g.handle)' = opens'
    /\ DOMAIN handles'[d] = DOMAIN handles[d] \cup {NextId(d)}
    /\ handles'[d][NextId(d)] = g.handle
    /\ \A i \in DOMAIN handles[d] : handles'[d][i] = handles[d][i]

LEMMA RegisteredEffect ==
  ASSUME IInv, NEW c \in DOMAIN cameras, Registered(cameras[c].sdk, cameras[c].key)
  PROVE  /\ cameras[c].sdk \in Sdks /\ cameras[c].key \in Keys /\ TableInv'
         /\ Registers(cameras[c].sdk) /\ Bridge!OpenSession(cameras[c].key)
         /\ handles' = [e \in Sdks |-> handles'[e]]
         /\ counter' \in [Sdks -> Nat] /\ counter'[cameras[c].sdk] = NextId(cameras[c].sdk)
         /\ \A e \in Sdks : e # cameras[c].sdk => handles'[e] = handles[e] /\ counter'[e] = counter[e]
         /\ UNCHANGED <<started, listed, cameras>>
<1> DEFINE d == cameras[c].sdk
           k == cameras[c].key
<1>1. cameras[c] \in CameraRecord
  BY DEF IInv, TypeOK
<1>2. d \in Sdks /\ k \in Keys
  BY <1>1 DEF CameraRecord
<1>3. /\ counter \in [Sdks -> 0..MaxOpens] /\ handles = [e \in Sdks |-> handles[e]]
      /\ TableInv /\ DOMAIN handles[d] \subseteq 1..counter[d]
  BY <1>2 DEF IInv, TypeOK, Tables
<1>4. /\ Bridge!OpenSession(k) /\ UNCHANGED <<started, listed, cameras>>
      /\ counter' = [counter EXCEPT ![d] = @ + 1]
      /\ LET g == CHOOSE g \in grants' : g.session = opens'
         IN  handles' = [handles EXCEPT ![d] =
               [i \in DOMAIN @ \cup {NextId(d)} |-> IF i = NextId(d) THEN g.handle ELSE @[i]]]
  BY DEF Registered
<1> HIDE DEF d, k
<1>5. TableInv'
  BY <1>2, <1>3, <1>4, TableKept DEF TableStep
<1>6. \A g, h \in grants' : g.session = h.session => g = h
  BY <1>5 DEF TableInv, Table!TableInv, Table!OwnInv, Table!OneGrantEach
<1>7. PICK g \in grants' : g.session = opens' /\ g.epoch = epoch /\ Bridge!Resolve(g.handle)' = opens'
  BY <1>2, <1>3, <1>4, OpenFacts
<1>8. g = CHOOSE h \in grants' : h.session = opens'
  BY <1>6, <1>7
<1>9. handles' = [handles EXCEPT ![d] =
        [i \in DOMAIN @ \cup {NextId(d)} |-> IF i = NextId(d) THEN g.handle ELSE @[i]]]
  BY <1>4, <1>8
<1>10. \A i \in DOMAIN handles[d] : i # NextId(d)
  BY <1>2, <1>3 DEF NextId
<1>11. /\ handles' = [e \in Sdks |-> handles'[e]]
       /\ \A e \in Sdks : e # d => handles'[e] = handles[e]
       /\ DOMAIN handles'[d] = DOMAIN handles[d] \cup {NextId(d)}
       /\ handles'[d][NextId(d)] = g.handle
       /\ \A i \in DOMAIN handles[d] : handles'[d][i] = handles[d][i]
  BY <1>2, <1>3, <1>9, <1>10
<1>12. epoch' = epoch
  BY <1>2, <1>3, <1>4, OpenFacts
<1>13. /\ counter' \in [Sdks -> Nat] /\ counter'[d] = NextId(d)
       /\ \A e \in Sdks : e # d => counter'[e] = counter[e]
  BY <1>2, <1>3, <1>4 DEF NextId
<1>14. QED
  BY <1>2, <1>4, <1>5, <1>7, <1>11, <1>12, <1>13 DEF Registers, d, k

\* A Session object stays what it is; a handle it has, it had before.
Kept(s) ==
  /\ s \in DOMAIN sessions' /\ own'[s] = own[s]
  /\ sessions'[s].id = sessions[s].id /\ sessions'[s].camera = sessions[s].camera
  /\ SdkOf(s)' = SdkOf(s)
  /\ Has(s)' => Has(s) /\ HandleOf(s)' = HandleOf(s)
\* ... and what it was open for goes on.
Goes(s) ==
  /\ Kept(s) /\ sessions'[s].closed = sessions[s].closed
  /\ Has(s) => Has(s)'

LEMMA SessionFacts ==
  ASSUME IInv, NEW s \in DOMAIN sessions
  PROVE  /\ sessions[s] \in SessionRecord /\ s \in DOMAIN own
         /\ SdkOf(s) \in Sdks /\ SessionFits(s)
         /\ counter \in [Sdks -> 0..MaxOpens] /\ handles = [d \in Sdks |-> handles[d]]
<1>1. /\ sessions \in Seq(SessionRecord) /\ cameras \in Seq(CameraRecord) /\ own \in Seq(1..MaxOpens)
      /\ Len(own) = Len(sessions) /\ sessions[s].camera \in DOMAIN cameras
      /\ counter \in [Sdks -> 0..MaxOpens] /\ handles = [d \in Sdks |-> handles[d]]
  BY DEF IInv, TypeOK, SessionsFit, SessionFits, Tables
<1>2. sessions[s] \in SessionRecord /\ s \in DOMAIN own
  BY <1>1
<1>3. cameras[sessions[s].camera] \in CameraRecord
  BY <1>1
<1>4. SdkOf(s) \in Sdks
  BY <1>3 DEF CameraRecord, SdkOf
<1>5. QED
  BY <1>1, <1>2, <1>4 DEF IInv, SessionsFit

\* Discovering and starting leave the Sessions alone.
LEMMA QuietGoes ==
  ASSUME IInv, CamerasGrow, UNCHANGED <<handles, sessions, own>>, NEW s \in DOMAIN sessions
  PROVE  Goes(s)
<1>1. sessions[s].camera \in DOMAIN cameras /\ s \in DOMAIN own /\ DOMAIN sessions' = DOMAIN sessions
  BY DEF IInv, SessionsFit, SessionFits, TypeOK
<1>2. sessions'[s] = sessions[s] /\ own'[s] = own[s] /\ handles' = handles
  OBVIOUS
<1>3. SdkOf(s)' = SdkOf(s)
  BY <1>1, <1>2 DEF SdkOf, CamerasGrow
<1>4. (Has(s)' <=> Has(s)) /\ HandleOf(s)' = HandleOf(s)
  BY <1>2, <1>3 DEF Has, HandleOf, Bridge!MakeHandle
<1>5. QED
  BY <1>1, <1>2, <1>3, <1>4 DEF Goes, Kept

\* An open, of whatever camera, leaves the other Sessions alone.
LEMMA RegisteredGoes ==
  ASSUME IInv, NEW c \in DOMAIN cameras, Registered(cameras[c].sdk, cameras[c].key),
         NEW s \in DOMAIN sessions, s \in DOMAIN sessions',
         sessions'[s] = sessions[s], own'[s] = own[s]
  PROVE  Goes(s)
<1> DEFINE d == cameras[c].sdk
<1>1. /\ Registers(d) /\ cameras' = cameras
      /\ \A e \in Sdks : e # d => handles'[e] = handles[e]
  BY RegisteredEffect
<1>2. SdkOf(s)' = SdkOf(s)
  BY <1>1 DEF SdkOf
<1>3. SdkOf(s) \in Sdks /\ sessions[s].id \in 1..counter[SdkOf(s)] /\ counter \in [Sdks -> 0..MaxOpens]
  BY SessionFacts DEF SessionFits
<1> HIDE DEF d
<1>4. (sessions[s].id \in DOMAIN handles'[SdkOf(s)] <=> Has(s))
      /\ (Has(s) => handles'[SdkOf(s)][sessions[s].id] = handles[SdkOf(s)][sessions[s].id])
  <2>1. CASE SdkOf(s) = d
    <3>1. sessions[s].id # NextId(d)
      BY <1>3, <2>1 DEF NextId
    <3>2. QED
      BY <1>1, <2>1, <3>1 DEF Registers, Has
  <2>2. CASE SdkOf(s) # d
    BY <1>1, <1>3, <2>2 DEF Has
  <2>3. QED
    BY <2>1, <2>2
<1>5. (Has(s)' <=> Has(s)) /\ (Has(s) => HandleOf(s)' = HandleOf(s))
  BY <1>2, <1>4 DEF Has, HandleOf
<1>6. QED
  BY <1>2, <1>5 DEF Goes, Kept

\* A close takes away one Session's handle.
LEMMA CloseSessionKept ==
  ASSUME IInv, NEW t \in DOMAIN sessions, CloseSession(t), NEW s \in DOMAIN sessions
  PROVE  /\ Kept(s) /\ (s # t => Goes(s)) /\ ~Has(t)'
<1>1. /\ sessions' = [sessions EXCEPT ![t].closed = TRUE]
      /\ handles' = [handles EXCEPT ![SdkOf(t)] = [i \in DOMAIN @ \ {sessions[t].id} |-> @[i]]]
      /\ UNCHANGED <<cameras, own>>
  BY DEF CloseSession
<1>2. /\ sessions \in Seq(SessionRecord) /\ handles = [d \in Sdks |-> handles[d]]
      /\ SdkOf(s) \in Sdks /\ SdkOf(t) \in Sdks
  BY SessionFacts DEF IInv, TypeOK
<1>3. /\ DOMAIN sessions' = DOMAIN sessions
      /\ sessions'[s].id = sessions[s].id /\ sessions'[s].camera = sessions[s].camera
      /\ sessions'[t].id = sessions[t].id /\ sessions'[t].camera = sessions[t].camera
      /\ s # t => sessions'[s] = sessions[s]
  <2>1. sessions[s] \in SessionRecord /\ sessions[t] \in SessionRecord
    BY <1>2
  <2>2. QED
    BY <1>1, <1>2, <2>1 DEF SessionRecord
<1>4. SdkOf(s)' = SdkOf(s) /\ SdkOf(t)' = SdkOf(t)
  BY <1>1, <1>3 DEF SdkOf
<1>5. /\ DOMAIN handles'[SdkOf(t)] = DOMAIN handles[SdkOf(t)] \ {sessions[t].id}
      /\ \A i \in DOMAIN handles'[SdkOf(t)] : handles'[SdkOf(t)][i] = handles[SdkOf(t)][i]
      /\ SdkOf(s) # SdkOf(t) => handles'[SdkOf(s)] = handles[SdkOf(s)]
  BY <1>1, <1>2
<1>6. ~Has(t)'
  BY <1>3, <1>4, <1>5 DEF Has
<1>7. Has(s)' => Has(s) /\ HandleOf(s)' = HandleOf(s)
  BY <1>3, <1>4, <1>5 DEF Has, HandleOf
<1>8. s # t => (Has(s) => Has(s)')
  <2>1. s # t /\ SdkOf(s) = SdkOf(t) => sessions[s].id # sessions[t].id
    BY DEF IInv, SessionsApart
  <2>2. QED
    BY <1>3, <1>4, <1>5, <2>1 DEF Has
<1>9. QED
  BY <1>1, <1>3, <1>4, <1>6, <1>7, <1>8 DEF Goes, Kept

\* Closing an SDK object takes away its Sessions' handles.
LEMMA CloseKept ==
  ASSUME IInv, NEW d \in Sdks, Close(d), NEW s \in DOMAIN sessions
  PROVE  Kept(s) /\ (SdkOf(s) = d => ~Has(s)') /\ DOMAIN sessions' = DOMAIN sessions
<1>1. /\ sessions' = [u \in DOMAIN sessions |->
           [sessions[u] EXCEPT !.closed = @ \/ sessions[u].camera \in listed[d]]]
      /\ handles' = [handles EXCEPT ![d] = Empty]
      /\ UNCHANGED <<cameras, own>>
  BY DEF Close, ShutdownBackend
<1>2. /\ sessions \in Seq(SessionRecord) /\ handles = [e \in Sdks |-> handles[e]]
      /\ SdkOf(s) \in Sdks /\ s \in DOMAIN own
  BY SessionFacts DEF IInv, TypeOK
<1>3. sessions[s] \in SessionRecord
  BY <1>2
<1>4. /\ DOMAIN sessions' = DOMAIN sessions
      /\ sessions'[s].id = sessions[s].id /\ sessions'[s].camera = sessions[s].camera
  BY <1>1, <1>3 DEF SessionRecord
<1>5. SdkOf(s)' = SdkOf(s)
  BY <1>1, <1>4 DEF SdkOf
<1>6. /\ DOMAIN handles'[d] = {}
      /\ SdkOf(s) # d => handles'[SdkOf(s)] = handles[SdkOf(s)]
  BY <1>1, <1>2 DEF Empty
<1>7. (SdkOf(s) = d => ~Has(s)') /\ (Has(s)' => Has(s) /\ HandleOf(s)' = HandleOf(s))
  BY <1>4, <1>5, <1>6 DEF Has, HandleOf
<1>8. QED
  BY <1>1, <1>4, <1>5, <1>7 DEF Kept

\* The kinds of step.
Quiet ==
  /\ UNCHANGED <<handles, counter, sessions, own, failed>>
  /\ \/ UNCHANGED bridge /\ \A d \in Sdks : started[d] => started'[d]
     \/ Bridge!InitBridge /\ \E d \in Sdks : started'[d]
     \/ Bridge!Enumerate /\ UNCHANGED started

LEMMA Kinds ==
  ASSUME IInv, [Next]_vars
  PROVE  \/ Quiet
         \/ \E c \in DOMAIN cameras : Open(c) \/ OpenRaises(c)
         \/ \E t \in DOMAIN sessions : CloseSession(t)
         \/ \E d \in Sdks : Close(d)
<1>0. started \in [Sdks -> BOOLEAN]
  BY DEF IInv, TypeOK
<1>1. ASSUME NEW d \in Sdks, Start(d) PROVE Quiet
  <2>1. /\ started' = [started EXCEPT ![d] = TRUE]
        /\ UNCHANGED <<handles, counter, sessions, own, failed>>
        /\ UNCHANGED bridge \/ Bridge!InitBridge
    BY <1>1 DEF Start, objects
  <2>2. started'[d] /\ \A e \in Sdks : started[e] => started'[e]
    BY <1>0, <2>1
  <2>3. QED
    BY <2>1, <2>2 DEF Quiet
<1>2. ASSUME NEW d \in Sdks, Discover(d) \/ DiscoverFails(d) PROVE Quiet
  BY <1>2 DEF Discover, DiscoverFails, Quiet, objects
<1>3. UNCHANGED vars => Quiet
  BY DEF vars, objects, Quiet
<1>4. QED
  BY <1>1, <1>2, <1>3 DEF Next

LEMMA CloseSessionEffect ==
  ASSUME IInv, NEW t \in DOMAIN sessions, CloseSession(t)
  PROVE  \/ UNCHANGED bridge /\ Bridge!Resolve(HandleOf(t)) = NoSession
         \/ \E g \in grants : /\ g.handle = HandleOf(t) /\ g.session = own[t] /\ Has(t)
                              /\ Bridge!CloseSession(g.handle)
<1>1. CASE Bridge!Resolve(HandleOf(t)) = NoSession
  BY <1>1 DEF CloseSession, CloseHandle
<1>2. CASE Bridge!Resolve(HandleOf(t)) # NoSession
  <2>1. Bridge!CloseSession(HandleOf(t))
    BY <1>2 DEF CloseSession, CloseHandle
  <2>2. Has(t)
    BY <1>2, NothingNamed DEF IInv, Has, HandleOf
  <2>3. QED
    BY <2>1, <2>2, SessionFacts DEF SessionFits, Issued
<1>3. QED
  BY <1>1, <1>2

LEMMA CloseEffect ==
  ASSUME IInv, NEW d \in Sdks, Close(d)
  PROVE  /\ connected' = {} /\ ~initialized' /\ UNCHANGED <<opens, epoch, grants>>
         /\ \A h : Bridge!Resolve(h)' = NoSession
<1>0. TableInv
  BY DEF IInv
<1>1. CASE initialized
  <2>1. Bridge!Shutdown
    BY <1>1 DEF Close, ShutdownBackend
  <2>2. QED
    BY <1>0, <2>1, ShutdownFacts
<1>2. CASE ~initialized
  <2>1. UNCHANGED bridge
    BY <1>2 DEF Close, ShutdownBackend
  <2>2. connected = {} /\ \A h : Bridge!Resolve(h) = NoSession
    BY <1>0, <1>2, TableFacts
  <2>3. QED
    BY <1>2, <2>1, <2>2 DEF bridge, Bridge!Resolve
<1>3. QED
  BY <1>1, <1>2

LEMMA QuietEffect ==
  ASSUME Quiet
  PROVE  /\ UNCHANGED <<connected, opens, grants>>
         /\ \A h : Bridge!Resolve(h)' = Bridge!Resolve(h)
         /\ \/ UNCHANGED <<epoch, initialized>>
            \/ ~initialized /\ initialized'
  BY DEF Quiet, bridge, Bridge!InitBridge, Bridge!Enumerate, Bridge!Resolve

LEMMA TableSteps ==
  ASSUME IInv, [Next]_vars
  PROVE  /\ TableInv' /\ grants \subseteq grants' /\ opens' >= opens
         /\ opens \in 0..MaxOpens /\ opens' \in 0..MaxOpens /\ MaxOpens \in Nat
<1>0. TableInv /\ opens \in 0..MaxOpens /\ MaxOpens \in Nat
  BY TableFacts, BoundsAssumption DEF IInv
<1>1. TableInv' /\ grants \subseteq grants' /\ opens' >= opens
  <2>1. CASE Quiet
    <3>1. TableInv'
      BY <1>0, <2>1, TableKept DEF TableStep, Quiet
    <3>2. QED
      BY <1>0, <2>1, <3>1, QuietEffect
  <2>2. ASSUME NEW c \in DOMAIN cameras, Open(c) \/ OpenRaises(c)
        PROVE  TableInv' /\ grants \subseteq grants' /\ opens' >= opens
    <3>1. Registered(cameras[c].sdk, cameras[c].key)
      BY <2>2 DEF Open, OpenRaises
    <3>2. TableInv' /\ cameras[c].key \in Keys /\ Bridge!OpenSession(cameras[c].key)
      BY <3>1, RegisteredEffect
    <3>3. QED
      BY <1>0, <3>2, OpenFacts
  <2>3. ASSUME NEW t \in DOMAIN sessions, CloseSession(t)
        PROVE  TableInv' /\ grants \subseteq grants' /\ opens' >= opens
    <3>1. CASE UNCHANGED bridge
      <4>1. TableInv'
        BY <1>0, <3>1, TableKept DEF TableStep
      <4>2. QED
        BY <1>0, <3>1, <4>1 DEF bridge
    <3>2. ASSUME NEW g \in grants, Bridge!CloseSession(g.handle)
          PROVE  TableInv' /\ grants \subseteq grants' /\ opens' >= opens
      <4>1. TableInv'
        BY <1>0, <3>2, TableKept DEF TableStep
      <4>2. QED
        BY <1>0, <3>2, <4>1, CloseFacts
    <3>3. QED
      BY <2>3, <3>1, <3>2, CloseSessionEffect
  <2>4. ASSUME NEW d \in Sdks, Close(d)
        PROVE  TableInv' /\ grants \subseteq grants' /\ opens' >= opens
    <3>1. TableInv'
      BY <1>0, <2>4, TableKept DEF TableStep, Close, ShutdownBackend
    <3>2. QED
      BY <1>0, <2>4, <3>1, CloseEffect
  <2>5. QED
    BY <2>1, <2>2, <2>3, <2>4, Kinds
<1>2. opens' \in 0..MaxOpens
  BY <1>1 DEF TableInv, Table!TableInv, Table!IInv, Table!TypeOK
<1>3. QED
  BY <1>0, <1>1, <1>2

\* The Session of an open is appended; the others stay.
LEMMA OpenEffect ==
  ASSUME IInv, NEW c \in DOMAIN cameras, Open(c)
  PROVE  LET n == Len(sessions) + 1
         IN  /\ n \notin DOMAIN sessions /\ n \notin DOMAIN own
             /\ DOMAIN sessions' = DOMAIN sessions \cup {n} /\ DOMAIN own' = DOMAIN own \cup {n}
             /\ \A s \in DOMAIN sessions : sessions'[s] = sessions[s] /\ own'[s] = own[s]
             /\ sessions'[n].camera = c /\ sessions'[n].id = NextId(cameras[c].sdk)
             /\ sessions'[n].closed = FALSE
             /\ own'[n] = opens'
             /\ sessions' \in Seq(SessionRecord) /\ own' \in Seq(1..MaxOpens)
             /\ Len(own') = Len(sessions')
<1> DEFINE n == Len(sessions) + 1
           d == cameras[c].sdk
           new == [camera |-> c, id |-> NextId(d), closed |-> FALSE]
<1>1. /\ sessions \in Seq(SessionRecord) /\ own \in Seq(1..MaxOpens) /\ Len(own) = Len(sessions)
      /\ c \in Cameras /\ counter \in [Sdks -> 0..MaxOpens] /\ TableInv
      /\ \A e \in Sdks : counter[e] <= opens
  <2>1. cameras \in Seq(CameraRecord) /\ Len(cameras) <= MaxCameras /\ MaxCameras \in Nat
    BY BoundsAssumption DEF IInv, TypeOK, Tables
  <2>2. QED
    BY <2>1 DEF IInv, TypeOK, Tables, Cameras
<1>2. Registered(d, cameras[c].key) /\ sessions' = Append(sessions, new) /\ own' = Append(own, opens')
  BY DEF Open
<1>3. d \in Sdks /\ cameras[c].key \in Keys /\ Bridge!OpenSession(cameras[c].key)
  BY <1>2, RegisteredEffect
<1>4. opens' = opens + 1 /\ opens' \in 1..MaxOpens /\ opens \in Nat
  BY <1>1, <1>3, OpenFacts, TableFacts
<1> HIDE DEF d
<1>5. new \in SessionRecord
  <2>1. NextId(d) \in 1..MaxOpens
    <3>1. counter[d] \in Nat /\ counter[d] <= opens /\ MaxOpens \in Nat
      BY <1>1, <1>3, BoundsAssumption
    <3>2. QED
      BY <1>4, <3>1 DEF NextId
  <2>2. QED
    BY <1>1, <2>1 DEF SessionRecord
<1>6. new.camera = c /\ new.id = NextId(d) /\ new.closed = FALSE
  OBVIOUS
<1> HIDE DEF new
<1>7. /\ n \notin DOMAIN sessions /\ DOMAIN sessions' = DOMAIN sessions \cup {n}
      /\ \A s \in DOMAIN sessions : sessions'[s] = sessions[s]
      /\ sessions'[n] = new /\ sessions' \in Seq(SessionRecord) /\ Len(sessions') = n
  BY <1>1, <1>2, <1>5
<1>8. /\ n \notin DOMAIN own /\ DOMAIN own' = DOMAIN own \cup {n}
      /\ \A s \in DOMAIN sessions : own'[s] = own[s]
      /\ own'[n] = opens' /\ own' \in Seq(1..MaxOpens) /\ Len(own') = n
  BY <1>1, <1>2, <1>4
<1>9. QED
  BY <1>6, <1>7, <1>8 DEF d

\* What every step does to the Sessions and to the tables of ids.
LEMMA SessionSteps ==
  ASSUME IInv, [Next]_vars, NEW s \in DOMAIN sessions
  PROVE  /\ Kept(s)
         /\ \/ Goes(s)
            \/ CloseSession(s) /\ ~Has(s)'
            \/ \E d \in Sdks : Close(d)
<1>1. CASE Quiet
  BY <1>1, CamerasStep, QuietGoes DEF Quiet, Goes
<1>2. ASSUME NEW c \in DOMAIN cameras, Open(c) \/ OpenRaises(c) PROVE Goes(s)
  <2>1. Registered(cameras[c].sdk, cameras[c].key)
    BY <1>2 DEF Open, OpenRaises
  <2>2. s \in DOMAIN sessions' /\ sessions'[s] = sessions[s] /\ own'[s] = own[s]
    <3>1. CASE Open(c)
      BY <3>1, OpenEffect
    <3>2. CASE OpenRaises(c)
      BY <3>2 DEF OpenRaises
    <3>3. QED
      BY <1>2, <3>1, <3>2
  <2>3. QED
    BY <2>1, <2>2, RegisteredGoes
<1>3. ASSUME NEW t \in DOMAIN sessions, CloseSession(t)
      PROVE  Kept(s) /\ (Goes(s) \/ (CloseSession(s) /\ ~Has(s)'))
  BY <1>3, CloseSessionKept
<1>4. ASSUME NEW d \in Sdks, Close(d) PROVE Kept(s)
  BY <1>4, CloseKept
<1>5. QED
  BY <1>1, <1>2, <1>3, <1>4, Kinds DEF Goes

-----------------------------------------------------------------------------
(* The tables of ids.                                                      *)

\* What an SDK object's table holds was granted, under an id it has given out.
TableFits(d) ==
  /\ counter[d] \in Nat /\ counter[d] <= opens
  /\ DOMAIN handles[d] \subseteq 1..counter[d]
  /\ \A i \in DOMAIN handles[d] : \E g \in grants : g.handle = handles[d][i]
TablesFit ==
  /\ handles = [d \in Sdks |-> handles[d]] /\ counter = [d \in Sdks |-> counter[d]]
  /\ \A d \in Sdks : TableFits(d)

LEMMA TablesFitNow == IInv => TablesFit
<1> SUFFICES ASSUME IInv PROVE TablesFit
  OBVIOUS
<1>1. /\ counter \in [Sdks -> 0..MaxOpens] /\ handles = [d \in Sdks |-> handles[d]]
      /\ \A d \in Sdks : DOMAIN handles[d] \subseteq 1..counter[d]
      /\ \A d \in Sdks : counter[d] <= opens
      /\ \A d \in Sdks : \A i \in DOMAIN handles[d] : \E g \in grants : g.handle = handles[d][i]
  BY DEF IInv, TypeOK, Tables
<1>2. counter = [d \in Sdks |-> counter[d]] /\ \A d \in Sdks : counter[d] \in Nat
  BY <1>1
<1>3. QED
  BY <1>1, <1>2 DEF TablesFit, TableFits

LEMMA TableFitsAfterOpen ==
  ASSUME IInv, NEW c \in DOMAIN cameras, Registered(cameras[c].sdk, cameras[c].key)
  PROVE  TablesFit'
<1> DEFINE d == cameras[c].sdk
           k == cameras[c].key
<1>1. /\ d \in Sdks /\ k \in Keys /\ Registers(d) /\ Bridge!OpenSession(k)
      /\ handles' = [e \in Sdks |-> handles'[e]]
      /\ counter' \in [Sdks -> Nat] /\ counter'[d] = NextId(d)
      /\ \A e \in Sdks : e # d => handles'[e] = handles[e] /\ counter'[e] = counter[e]
  BY RegisteredEffect
<1> HIDE DEF d, k
<1>2. TableInv /\ TablesFit
  BY TablesFitNow DEF IInv
<1>3. opens' = opens + 1 /\ opens \in Nat /\ grants \subseteq grants'
  BY <1>1, <1>2, OpenFacts, TableFacts
<1>4. ASSUME NEW e \in Sdks PROVE TableFits(e)'
  <2>1. TableFits(e)
    BY <1>2 DEF TablesFit
  <2>2. CASE e # d
    <3>1. handles'[e] = handles[e] /\ counter'[e] = counter[e]
      BY <1>1, <2>2
    <3>2. counter'[e] \in Nat /\ counter'[e] <= opens'
      BY <1>3, <2>1, <3>1 DEF TableFits
    <3>3. QED
      BY <1>3, <2>1, <3>1, <3>2 DEF TableFits
  <2>3. CASE e = d
    <3>1. counter'[e] \in Nat /\ counter'[e] = counter[e] + 1 /\ counter'[e] <= opens'
      BY <1>1, <1>3, <2>1, <2>3 DEF TableFits, NextId
    <3>2. DOMAIN handles'[e] = DOMAIN handles[e] \cup {counter'[e]}
      BY <1>1, <2>3 DEF Registers
    <3>3. DOMAIN handles'[e] \subseteq 1..counter'[e]
      BY <2>1, <3>1, <3>2 DEF TableFits
    <3>4. \A i \in DOMAIN handles'[e] : \E g \in grants' : g.handle = handles'[e][i]
      BY <1>1, <1>3, <2>1, <2>3 DEF TableFits, Registers
    <3>5. QED
      BY <3>1, <3>3, <3>4 DEF TableFits
  <2>4. QED
    BY <2>2, <2>3
<1>5. counter' = [e \in Sdks |-> counter'[e]]
  BY <1>1
<1>6. QED
  BY <1>1, <1>4, <1>5 DEF TablesFit

LEMMA TablesFitNext == IInv /\ [Next]_vars => TablesFit'
<1> SUFFICES ASSUME IInv, [Next]_vars PROVE TablesFit'
  OBVIOUS
<1>1. TableInv /\ TablesFit
  BY TablesFitNow DEF IInv
<1>2. CASE Quiet
  <2>1. UNCHANGED <<handles, counter, opens, grants>>
    BY <1>2, QuietEffect DEF Quiet
  <2>2. QED
    BY <1>1, <2>1 DEF TablesFit, TableFits
<1>3. ASSUME NEW c \in DOMAIN cameras, Open(c) \/ OpenRaises(c) PROVE TablesFit'
  BY <1>3, TableFitsAfterOpen DEF Open, OpenRaises
<1>4. ASSUME NEW t \in DOMAIN sessions, CloseSession(t) PROVE TablesFit'
  <2>1. UNCHANGED <<opens, grants>>
    BY <1>1, <1>4, CloseSessionEffect, CloseFacts DEF bridge
  <2>2. /\ handles' = [handles EXCEPT ![SdkOf(t)] = [i \in DOMAIN @ \ {sessions[t].id} |-> @[i]]]
        /\ counter' = counter
    BY <1>4 DEF CloseSession
  <2>3. handles = [e \in Sdks |-> handles[e]] /\ SdkOf(t) \in Sdks
    BY SessionFacts
  <2>4. /\ handles' = [e \in Sdks |-> handles'[e]]
        /\ \A e \in Sdks : /\ DOMAIN handles'[e] \subseteq DOMAIN handles[e]
                           /\ \A i \in DOMAIN handles'[e] : handles'[e][i] = handles[e][i]
    BY <2>2, <2>3
  <2>5. ASSUME NEW e \in Sdks PROVE TableFits(e)'
    <3>1. TableFits(e) /\ counter'[e] = counter[e]
      BY <1>1, <2>2 DEF TablesFit
    <3>2. QED
      BY <2>1, <2>4, <3>1 DEF TableFits
  <2>6. QED
    BY <1>1, <2>2, <2>4, <2>5 DEF TablesFit
<1>5. ASSUME NEW d \in Sdks, Close(d) PROVE TablesFit'
  <2>1. UNCHANGED <<opens, grants>>
    BY <1>5, CloseEffect
  <2>2. handles' = [handles EXCEPT ![d] = Empty] /\ counter' = counter
    BY <1>5 DEF Close, ShutdownBackend
  <2>3. /\ handles' = [e \in Sdks |-> handles'[e]]
        /\ \A e \in Sdks : /\ DOMAIN handles'[e] \subseteq DOMAIN handles[e]
                           /\ \A i \in DOMAIN handles'[e] : handles'[e][i] = handles[e][i]
    BY <1>1, <2>2 DEF TablesFit, Empty
  <2>4. ASSUME NEW e \in Sdks PROVE TableFits(e)'
    <3>1. TableFits(e) /\ counter'[e] = counter[e]
      BY <1>1, <2>2 DEF TablesFit
    <3>2. QED
      BY <2>1, <2>3, <3>1 DEF TableFits
  <2>5. QED
    BY <1>1, <2>2, <2>3, <2>4 DEF TablesFit
<1>6. QED
  BY <1>2, <1>3, <1>4, <1>5, Kinds

LEMMA TypeOKNext == IInv /\ [Next]_vars => TypeOK' /\ Tables'
<1> SUFFICES ASSUME IInv, [Next]_vars PROVE TypeOK' /\ Tables'
  OBVIOUS
<1>1. TableInv' /\ opens' \in 0..MaxOpens /\ MaxOpens \in Nat
  BY TableSteps
<1>2. Bridge!TypeOK'
  BY <1>1 DEF TableInv, Table!TableInv, Table!IInv, Table!TypeOK, Bridge!TypeOK,
              Table!IssuedHandle, Bridge!IssuedHandle, Table!NoSession, Bridge!NoSession,
              Table!SlotRec, Bridge!SlotRec, Table!Session, Bridge!Session, Table!Grant, Bridge!Grant
<1>3. CamerasGrow /\ listed' \in [Sdks -> SUBSET DOMAIN cameras']
  BY CamerasStep
<1>4. TablesFit'
  BY TablesFitNext
<1>5. /\ counter' \in [Sdks -> 0..MaxOpens]
      /\ \A d \in Sdks : DOMAIN handles'[d] \subseteq 1..counter'[d]
      /\ \A d \in Sdks : counter'[d] <= opens'
  <2>1. \A d \in Sdks : counter'[d] \in Nat /\ counter'[d] <= opens'
    BY <1>4 DEF TablesFit, TableFits
  <2>2. \A d \in Sdks : counter'[d] \in 0..MaxOpens
    BY <1>1, <2>1
  <2>3. counter' = [d \in Sdks |-> counter'[d]]
    BY <1>4 DEF TablesFit
  <2>4. QED
    BY <1>4, <2>1, <2>2, <2>3 DEF TablesFit, TableFits
<1>6. \A d \in Sdks : \A i \in DOMAIN handles'[d] : handles'[d][i] \in Bridge!IssuedHandle
  <2>1. \A g \in grants' : g.handle \in Table!IssuedHandle
    BY <1>1 DEF TableInv, Table!TableInv, Table!IInv, Table!TypeOK, Table!Grant
  <2>2. QED
    BY <1>4, <2>1 DEF TablesFit, TableFits, Table!IssuedHandle, Bridge!IssuedHandle
<1>7. started' \in [Sdks -> BOOLEAN]
  <2>1. started \in [Sdks -> BOOLEAN]
    BY DEF IInv, TypeOK
  <2>2. CASE UNCHANGED started
    BY <2>1, <2>2
  <2>3. CASE \E d \in Sdks : Start(d) \/ Close(d)
    BY <2>1, <2>3 DEF Start, Close
  <2>4. QED
    BY <2>2, <2>3 DEF Next, vars, Discover, DiscoverFails, Open, OpenRaises, Registered, CloseSession
<1>8. /\ sessions' \in Seq(SessionRecord) /\ own' \in Seq(1..MaxOpens)
      /\ Len(own') = Len(sessions')
  <2>1. /\ sessions \in Seq(SessionRecord) /\ own \in Seq(1..MaxOpens)
        /\ Len(own) = Len(sessions)
    BY DEF IInv, TypeOK
  <2>2. CASE UNCHANGED <<sessions, own>>
    BY <2>1, <2>2
  <2>3. ASSUME NEW c \in DOMAIN cameras, Open(c) \/ OpenRaises(c)
        PROVE  /\ sessions' \in Seq(SessionRecord) /\ own' \in Seq(1..MaxOpens)
               /\ Len(own') = Len(sessions')
    BY <2>2, <2>3, OpenEffect DEF OpenRaises
  <2>4. ASSUME NEW t \in DOMAIN sessions, CloseSession(t)
        PROVE  /\ sessions' \in Seq(SessionRecord) /\ own' \in Seq(1..MaxOpens)
               /\ Len(own') = Len(sessions')
    <3>1. sessions' = [sessions EXCEPT ![t].closed = TRUE] /\ own' = own
      BY <2>4 DEF CloseSession
    <3>2. [sessions[t] EXCEPT !.closed = TRUE] \in SessionRecord
      <4>1. sessions[t] \in SessionRecord
        BY <2>1
      <4>2. QED
        BY <4>1 DEF SessionRecord
    <3>3. QED
      BY <2>1, <3>1, <3>2
  <2>5. ASSUME NEW d \in Sdks, Close(d)
        PROVE  /\ sessions' \in Seq(SessionRecord) /\ own' \in Seq(1..MaxOpens)
               /\ Len(own') = Len(sessions')
    <3> DEFINE after(s) == [sessions[s] EXCEPT !.closed = @ \/ sessions[s].camera \in listed[d]]
    <3>1. sessions' = [s \in DOMAIN sessions |-> after(s)] /\ own' = own
      BY <2>5 DEF Close
    <3>2. \A s \in DOMAIN sessions : after(s) \in SessionRecord
      <4>1. \A s \in DOMAIN sessions : sessions[s] \in SessionRecord
        BY <2>1
      <4>2. QED
        BY <4>1 DEF SessionRecord
    <3> HIDE DEF after
    <3>3. DOMAIN sessions = 1..Len(sessions) /\ Len(sessions) \in Nat
      BY <2>1
    <3>4. sessions' \in Seq(SessionRecord) /\ Len(sessions') = Len(sessions)
      BY <3>1, <3>2, <3>3
    <3>5. QED
      BY <2>1, <3>1, <3>4
  <2>6. QED
    BY <2>2, <2>3, <2>4, <2>5, Kinds DEF Quiet
<1>9. failed' \subseteq 1..MaxOpens
  <2>1. failed \subseteq 1..MaxOpens /\ TableInv
    BY DEF IInv, TypeOK
  <2>2. ASSUME NEW c \in DOMAIN cameras, OpenRaises(c) PROVE failed' \subseteq 1..MaxOpens
    <3>1. Registered(cameras[c].sdk, cameras[c].key) /\ failed' = failed \cup {opens'}
      BY <2>2 DEF OpenRaises
    <3>2. cameras[c].key \in Keys /\ Bridge!OpenSession(cameras[c].key)
      BY <3>1, RegisteredEffect
    <3>3. opens' \in 1..MaxOpens
      BY <2>1, <3>2, OpenFacts
    <3>4. QED
      BY <2>1, <3>1, <3>3
  <2>3. CASE UNCHANGED failed
    BY <2>1, <2>3
  <2>4. QED
    BY <2>2, <2>3, Kinds DEF Quiet, Open, CloseSession, Close
<1>10. Len(cameras') <= MaxCameras /\ cameras' \in Seq(CameraRecord)
  BY <1>3 DEF CamerasGrow
<1>11. TypeOK'
  BY <1>2, <1>3, <1>5, <1>6, <1>7, <1>8, <1>9, <1>10 DEF TypeOK
<1>12. QED
  BY <1>4, <1>5, <1>10, <1>11 DEF Tables, TablesFit, TableFits

-----------------------------------------------------------------------------
(* The Sessions.                                                           *)

\* A Session that is made reaches the connection it is made for.
LEMMA NewSession ==
  ASSUME IInv, NEW n \in DOMAIN sessions', n \notin DOMAIN sessions, [Next]_vars
  PROVE  /\ \E c \in DOMAIN cameras : Open(c) /\ n = Len(sessions) + 1
         /\ opens' = opens + 1 /\ own'[n] = opens'
         /\ SdkOf(n)' \in Sdks /\ sessions'[n].camera \in DOMAIN cameras'
         /\ counter[SdkOf(n)'] \in Nat
         /\ sessions'[n].id = counter[SdkOf(n)'] + 1 /\ counter'[SdkOf(n)'] = sessions'[n].id
         /\ ~sessions'[n].closed /\ Has(n)'
         /\ \E g \in grants' : g.handle = HandleOf(n)' /\ g.session = own'[n] /\ g.epoch = epoch'
         /\ DOMAIN sessions' = DOMAIN sessions \cup {n}
<1>1. PICK c \in DOMAIN cameras : Open(c) /\ n = Len(sessions) + 1
  <2>1. CASE Quiet
    BY <2>1 DEF Quiet
  <2>2. ASSUME NEW c \in DOMAIN cameras, OpenRaises(c) PROVE FALSE
    BY <2>2 DEF OpenRaises
  <2>3. ASSUME NEW t \in DOMAIN sessions, CloseSession(t) PROVE FALSE
    BY <2>3 DEF CloseSession, IInv, TypeOK
  <2>4. ASSUME NEW d \in Sdks, Close(d) PROVE FALSE
    BY <2>4 DEF Close
  <2>5. ASSUME NEW c \in DOMAIN cameras, Open(c) PROVE n = Len(sessions) + 1
    BY <2>5, OpenEffect
  <2>6. QED
    BY <2>1, <2>2, <2>3, <2>4, <2>5, Kinds
<1> DEFINE d == cameras[c].sdk
<1>2. /\ sessions'[n].camera = c /\ sessions'[n].id = NextId(d) /\ ~sessions'[n].closed
      /\ own'[n] = opens' /\ DOMAIN sessions' = DOMAIN sessions \cup {n}
  BY <1>1, OpenEffect
<1>3. Registered(d, cameras[c].key)
  BY <1>1 DEF Open
<1>4. /\ d \in Sdks /\ cameras[c].key \in Keys /\ Bridge!OpenSession(cameras[c].key)
      /\ Registers(d) /\ counter'[d] = NextId(d) /\ cameras' = cameras
  BY <1>3, RegisteredEffect
<1>5. SdkOf(n)' = d
  BY <1>2, <1>4 DEF SdkOf
<1> HIDE DEF d
<1>6. opens' = opens + 1
  BY <1>4, OpenFacts DEF IInv
<1>7. PICK g \in grants' : /\ g.session = opens' /\ g.epoch = epoch'
                           /\ NextId(d) \in DOMAIN handles'[d] /\ handles'[d][NextId(d)] = g.handle
  BY <1>4 DEF Registers
<1>8. Has(n)' /\ HandleOf(n)' = g.handle
  BY <1>2, <1>5, <1>7 DEF Has, HandleOf
<1>9. counter[d] \in Nat
  BY <1>4, TablesFitNow DEF TablesFit, TableFits
<1>10. QED
  BY <1>1, <1>2, <1>4, <1>5, <1>6, <1>7, <1>8, <1>9 DEF NextId

LEMMA CounterGrows ==
  ASSUME IInv, [Next]_vars, NEW d \in Sdks
  PROVE  counter[d] \in Nat /\ counter'[d] \in Nat /\ counter[d] <= counter'[d]
<1>1. counter[d] \in Nat /\ counter'[d] \in Nat
  BY TablesFitNow, TablesFitNext DEF TablesFit, TableFits
<1>2. CASE UNCHANGED counter
  BY <1>1, <1>2
<1>3. ASSUME NEW c \in DOMAIN cameras, Open(c) \/ OpenRaises(c) PROVE counter[d] <= counter'[d]
  <2>1. Registered(cameras[c].sdk, cameras[c].key)
    BY <1>3 DEF Open, OpenRaises
  <2>2. \/ d # cameras[c].sdk /\ counter'[d] = counter[d]
        \/ d = cameras[c].sdk /\ counter'[d] = counter[d] + 1
    BY <2>1, RegisteredEffect DEF NextId
  <2>3. QED
    BY <1>1, <2>2
<1>4. QED
  BY <1>1, <1>2, <1>3, Kinds DEF Quiet, CloseSession, Close

LEMMA SessionsFitNext == IInv /\ [Next]_vars => SessionsFit'
<1> SUFFICES ASSUME IInv, [Next]_vars PROVE SessionsFit'
  OBVIOUS
<1>1. ASSUME NEW s \in DOMAIN sessions PROVE SessionFits(s)'
  <2>1. SessionFits(s) /\ SdkOf(s) \in Sdks
    BY SessionFacts
  <2>2. Kept(s)
    BY SessionSteps
  <2>3. sessions'[s].camera \in DOMAIN cameras'
    BY <2>1, <2>2, CamerasStep DEF SessionFits, Kept
  <2>4. sessions'[s].id \in 1..counter'[SdkOf(s)']
    BY <2>1, <2>2, CounterGrows DEF SessionFits, Kept
  <2>5. own'[s] \in 1..opens' /\ grants \subseteq grants'
    BY <2>1, <2>2, TableSteps DEF SessionFits, Kept
  <2>6. Has(s)' => \E g \in grants' : g.handle = HandleOf(s)' /\ g.session = own'[s]
    BY <2>1, <2>2, <2>5 DEF SessionFits, Kept, Issued
  <2>7. QED
    BY <2>3, <2>4, <2>5, <2>6 DEF SessionFits, Issued
<1>2. ASSUME NEW n \in DOMAIN sessions', n \notin DOMAIN sessions PROVE SessionFits(n)'
  <2>1. /\ opens' = opens + 1 /\ own'[n] = opens'
        /\ sessions'[n].camera \in DOMAIN cameras'
        /\ counter[SdkOf(n)'] \in Nat
        /\ sessions'[n].id = counter[SdkOf(n)'] + 1 /\ counter'[SdkOf(n)'] = sessions'[n].id
        /\ \E g \in grants' : g.handle = HandleOf(n)' /\ g.session = own'[n]
    BY <1>2, NewSession
  <2>2. opens \in Nat
    BY TableSteps
  <2>3. sessions'[n].id \in 1..counter'[SdkOf(n)'] /\ own'[n] \in 1..opens'
    BY <2>1, <2>2
  <2>4. QED
    BY <2>1, <2>3 DEF SessionFits, Issued
<1>3. QED
  BY <1>1, <1>2 DEF SessionsFit

LEMMA SessionsApartNext == IInv /\ [Next]_vars => SessionsApart'
<1> SUFFICES ASSUME IInv, [Next]_vars PROVE SessionsApart'
  OBVIOUS
<1> DEFINE Apart(s, t) == own[s] # own[t] /\ (SdkOf(s) = SdkOf(t) => sessions[s].id # sessions[t].id)
<1>1. ASSUME NEW s \in DOMAIN sessions, NEW t \in DOMAIN sessions, s # t
      PROVE  Apart(s, t)'
  <2>1. Kept(s) /\ Kept(t)
    BY SessionSteps
  <2>2. Apart(s, t)
    BY <1>1 DEF IInv, SessionsApart
  <2>3. QED
    BY <2>1, <2>2 DEF Kept
<1>2. ASSUME NEW n \in DOMAIN sessions', n \notin DOMAIN sessions, NEW s \in DOMAIN sessions
      PROVE  Apart(s, n)' /\ Apart(n, s)'
  <2>1. /\ opens' = opens + 1 /\ own'[n] = opens'
        /\ counter[SdkOf(n)'] \in Nat /\ sessions'[n].id = counter[SdkOf(n)'] + 1
    BY <1>2, NewSession
  <2>2. opens \in Nat
    BY TableSteps
  <2>3. /\ own[s] \in 1..opens /\ sessions[s].id \in 1..counter[SdkOf(s)]
        /\ own'[s] = own[s] /\ sessions'[s].id = sessions[s].id /\ SdkOf(s)' = SdkOf(s)
    BY SessionFacts, SessionSteps DEF SessionFits, Kept
  <2>4. own'[s] # own'[n]
    BY <2>1, <2>2, <2>3
  <2>5. SdkOf(s)' = SdkOf(n)' => sessions'[s].id # sessions'[n].id
    BY <2>1, <2>3
  <2>6. QED
    BY <2>4, <2>5
<1>3. \A n, m \in DOMAIN sessions' : n \notin DOMAIN sessions /\ m \notin DOMAIN sessions => n = m
  <2>1. ASSUME NEW n \in DOMAIN sessions', NEW m \in DOMAIN sessions',
               n \notin DOMAIN sessions, m \notin DOMAIN sessions
        PROVE  n = m
    BY <2>1, NewSession
  <2>2. QED
    BY <2>1
<1>4. QED
  BY <1>1, <1>2, <1>3 DEF SessionsApart

-----------------------------------------------------------------------------
(* Every connected camera is held.                                         *)

LEMMA HeldNext == IInv /\ [Next]_vars => Held'
<1> SUFFICES ASSUME IInv, [Next]_vars, NEW b \in (connected \ failed)'
             PROVE  (\E s \in DOMAIN sessions : ~sessions[s].closed /\ own[s] = b /\ Has(s))'
  BY DEF Held
<1> DEFINE Holds(s) == s \in DOMAIN sessions /\ ~sessions[s].closed /\ own[s] = b /\ Has(s)
<1>0. TableInv /\ Held
  BY DEF IInv
<1>1. ASSUME NEW s \in DOMAIN sessions, Holds(s), Goes(s) PROVE Holds(s)'
  BY <1>1 DEF Goes, Kept
<1>2. CASE b \notin connected
  <2>1. PICK c \in DOMAIN cameras : Open(c)
    <3>1. CASE Quiet
      BY <1>2, <3>1, QuietEffect
    <3>2. ASSUME NEW c \in DOMAIN cameras, OpenRaises(c) PROVE FALSE
      <4>1. Registered(cameras[c].sdk, cameras[c].key) /\ failed' = failed \cup {opens'}
        BY <3>2 DEF OpenRaises
      <4>2. connected' = connected \cup {opens'}
        BY <1>0, <4>1, RegisteredEffect, OpenFacts
      <4>3. QED
        BY <1>2, <4>1, <4>2
    <3>3. ASSUME NEW t \in DOMAIN sessions, CloseSession(t) PROVE FALSE
      <4>1. connected' \subseteq connected
        BY <1>0, <3>3, CloseSessionEffect, CloseFacts DEF bridge
      <4>2. QED
        BY <1>2, <4>1
    <3>4. ASSUME NEW d \in Sdks, Close(d) PROVE FALSE
      BY <3>4, CloseEffect
    <3>5. QED
      BY <3>1, <3>2, <3>3, <3>4, Kinds
  <2>2. Registered(cameras[c].sdk, cameras[c].key)
    BY <2>1 DEF Open
  <2>3. b = opens'
    <3>1. connected' = connected \cup {opens'}
      BY <1>0, <2>2, RegisteredEffect, OpenFacts
    <3>2. QED
      BY <1>2, <3>1
  <2>4. PICK n : n \in DOMAIN sessions' /\ n \notin DOMAIN sessions
    BY <2>1, OpenEffect
  <2>5. Holds(n)'
    BY <2>3, <2>4, NewSession
  <2>6. QED
    BY <2>5
<1>3. CASE b \in connected
  <2>1. b \notin failed
    <3>1. failed \subseteq failed'
      BY Kinds DEF Quiet, Open, OpenRaises, CloseSession, Close
    <3>2. QED
      BY <3>1
  <2>2. PICK s \in DOMAIN sessions : Holds(s)
    BY <1>0, <1>3, <2>1 DEF Held
  <2>3. CASE Goes(s)
    BY <1>1, <2>2, <2>3
  <2>4. CASE CloseSession(s)
    \* closing the holder disconnects the camera
    <3>1. ASSUME NEW g \in grants, g.handle = HandleOf(s), g.session = own[s], Bridge!CloseSession(g.handle)
          PROVE  FALSE
      <4>1. /\ connected' = connected \ {Bridge!Resolve(g.handle)}
            /\ Bridge!Resolve(g.handle) # NoSession
        BY <1>0, <3>1, CloseFacts
      <4>2. PICK h \in grants : h.session = b /\ Bridge!Resolve(h.handle) = b
        BY <1>0, <1>3, TableFacts
      <4>3. g = h
        BY <1>0, <2>2, <3>1, <4>2, TableFacts
      <4>4. QED
        BY <4>1, <4>2, <4>3
    <3>2. CASE UNCHANGED bridge /\ Bridge!Resolve(HandleOf(s)) = NoSession
      <4>1. PICK h \in grants : h.session = b /\ Bridge!Resolve(h.handle) = b
        BY <1>0, <1>3, TableFacts
      <4>2. PICK g \in grants : g.handle = HandleOf(s) /\ g.session = b
        BY <2>2, SessionFacts DEF SessionFits, Issued
      <4>3. g = h
        BY <1>0, <4>1, <4>2, TableFacts
      <4>4. b # NoSession
        BY <1>0, <1>3, TableFacts
      <4>5. QED
        BY <3>2, <4>1, <4>2, <4>3, <4>4
    <3>3. QED
      BY <2>4, <3>1, <3>2, CloseSessionEffect
  <2>5. ASSUME NEW d \in Sdks, Close(d) PROVE FALSE
    BY <2>5, CloseEffect
  <2>6. QED
    BY <2>3, <2>4, <2>5, SessionSteps
<1>4. QED
  BY <1>2, <1>3

LEMMA UpNext == IInv /\ [Next]_vars => Up'
<1> SUFFICES ASSUME IInv, [Next]_vars, initialized' PROVE \E d \in Sdks : started'[d]
  BY DEF Up
<1>1. Up /\ TableInv /\ initialized \in BOOLEAN
  BY TableFacts DEF IInv
<1>2. CASE UNCHANGED <<initialized, started>>
  BY <1>1, <1>2 DEF Up
<1>3. CASE Quiet
  BY <1>1, <1>3 DEF Up, Quiet, bridge, Bridge!Enumerate
<1>4. ASSUME NEW c \in DOMAIN cameras, Open(c) \/ OpenRaises(c) PROVE UNCHANGED <<initialized, started>>
  <2>1. Registered(cameras[c].sdk, cameras[c].key)
    BY <1>4 DEF Open, OpenRaises
  <2>2. QED
    BY <1>1, <2>1, RegisteredEffect, OpenFacts
<1>5. ASSUME NEW t \in DOMAIN sessions, CloseSession(t) PROVE UNCHANGED <<initialized, started>>
  BY <1>1, <1>5, CloseSessionEffect, CloseFacts DEF bridge, CloseSession
<1>6. ASSUME NEW d \in Sdks, Close(d) PROVE FALSE
  BY <1>6, CloseEffect
<1>7. QED
  BY <1>2, <1>3, <1>4, <1>5, <1>6, Kinds

\* With one SDK object no handle outlives the initialisation it is of.
LEMMA CurrentNext == IInv /\ [Next]_vars => Current'
<1> SUFFICES ASSUME IInv, [Next]_vars, Single PROVE Current'
  BY DEF Current, Single
<1> DEFINE NoneWhenDown == \A d \in Sdks : DOMAIN handles[d] # {} => initialized
           OfNow(s) == Has(s) =>
             \E g \in grants : g.handle = HandleOf(s) /\ g.session = own[s] /\ g.epoch = epoch
<1>0. /\ TableInv /\ initialized \in BOOLEAN
      /\ NoneWhenDown /\ \A s \in DOMAIN sessions : OfNow(s)
  BY TableFacts DEF IInv, Current
<1>1. ASSUME NEW s \in DOMAIN sessions, epoch' = epoch PROVE OfNow(s)'
  BY <1>0, <1>1, SessionSteps, TableSteps DEF Kept
<1>2. ASSUME NEW n \in DOMAIN sessions', n \notin DOMAIN sessions PROVE OfNow(n)'
  BY <1>2, NewSession
<1>3. CASE Quiet /\ UNCHANGED <<epoch, initialized>>
  BY <1>0, <1>1, <1>2, <1>3 DEF Quiet, Current, Single
<1>4. CASE Quiet /\ ~initialized
  <2>1. handles' = handles /\ sessions' = sessions /\ \A d \in Sdks : DOMAIN handles[d] = {}
    BY <1>0, <1>4 DEF Quiet
  <2>2. ASSUME NEW s \in DOMAIN sessions' PROVE OfNow(s)'
    <3>1. s \in DOMAIN sessions
      BY <2>1
    <3>2. ~Has(s)
      BY <2>1, <3>1, SessionFacts DEF Has
    <3>3. Kept(s)
      BY <3>1, SessionSteps
    <3>4. QED
      BY <3>2, <3>3 DEF Kept
  <2>3. QED
    BY <2>1, <2>2 DEF Current, Single
<1>5. ASSUME NEW c \in DOMAIN cameras, Open(c) \/ OpenRaises(c) PROVE Current'
  <2>1. Registered(cameras[c].sdk, cameras[c].key)
    BY <1>5 DEF Open, OpenRaises
  <2>2. initialized' /\ epoch' = epoch
    BY <1>0, <2>1, RegisteredEffect, OpenFacts
  <2>3. QED
    BY <1>1, <1>2, <2>2 DEF Current
<1>6. ASSUME NEW t \in DOMAIN sessions, CloseSession(t) PROVE Current'
  <2>1. UNCHANGED <<initialized, epoch>>
    BY <1>0, <1>6, CloseSessionEffect, CloseFacts DEF bridge
  <2>2. /\ handles' = [handles EXCEPT ![SdkOf(t)] = [i \in DOMAIN @ \ {sessions[t].id} |-> @[i]]]
        /\ handles = [d \in Sdks |-> handles[d]] /\ SdkOf(t) \in Sdks
    BY <1>6, SessionFacts DEF CloseSession
  <2>3. \A d \in Sdks : DOMAIN handles'[d] \subseteq DOMAIN handles[d]
    BY <2>2
  <2>4. NoneWhenDown'
    BY <1>0, <2>1, <2>3
  <2>5. QED
    BY <1>1, <1>2, <2>1, <2>4 DEF Current
<1>7. ASSUME NEW d \in Sdks, Close(d) PROVE Current'
  <2>1. handles' = [handles EXCEPT ![d] = Empty] /\ handles = [e \in Sdks |-> handles[e]]
    BY <1>7, TablesFitNow DEF Close, ShutdownBackend, TablesFit
  <2>2. \A e \in Sdks : DOMAIN handles'[e] = {}
    BY <2>1 DEF Empty, Single
  <2>3. ASSUME NEW s \in DOMAIN sessions' PROVE ~Has(s)'
    <3>1. s \in DOMAIN sessions
      BY <1>7, <2>3 DEF Close
    <3>2. SdkOf(s)' = SdkOf(s) /\ SdkOf(s) \in Sdks
      BY <3>1, SessionSteps, SessionFacts DEF Kept
    <3>3. QED
      BY <2>2, <3>2 DEF Has
  <2>4. QED
    BY <2>2, <2>3 DEF Current
<1>8. QED
  BY <1>3, <1>4, <1>5, <1>6, <1>7, Kinds, QuietEffect

-----------------------------------------------------------------------------
(* The invariant, and what it says.                                        *)

LEMMA InitIInv == Init => IInv
<1> SUFFICES ASSUME Init PROVE IInv
  OBVIOUS
<1>1. TableInv /\ initialized = FALSE /\ connected = {} /\ opens = 0
  <2>1. Table!Init
    BY SameOperations DEF Init
  <2>2. QED
    BY <2>1, TableBounds, Table!InitIInv, Table!InitOwnInv DEF TableInv, Table!TableInv, Table!Init
<1>2. Bridge!TypeOK
  BY <1>1 DEF TableInv, Table!TableInv, Table!IInv, Table!TypeOK, Bridge!TypeOK,
              Table!IssuedHandle, Bridge!IssuedHandle, Table!NoSession, Bridge!NoSession,
              Table!SlotRec, Bridge!SlotRec, Table!Session, Bridge!Session, Table!Grant, Bridge!Grant
<1>3. /\ cameras = <<>> /\ sessions = <<>> /\ own = <<>> /\ failed = {}
      /\ started = [d \in Sdks |-> FALSE] /\ counter = [d \in Sdks |-> 0]
      /\ handles = [d \in Sdks |-> Empty] /\ listed = [d \in Sdks |-> {}]
  BY DEF Init
<1>4. /\ \A d \in Sdks : DOMAIN handles[d] = {}
      /\ handles = [d \in Sdks |-> handles[d]]
  BY <1>3 DEF Empty
<1>5. TypeOK
  <2>1. /\ started \in [Sdks -> BOOLEAN] /\ counter \in [Sdks -> 0..MaxOpens]
        /\ listed \in [Sdks -> SUBSET DOMAIN cameras] /\ failed \subseteq 1..MaxOpens
    BY <1>3, BoundsAssumption
  <2>2. /\ cameras \in Seq(CameraRecord) /\ sessions \in Seq(SessionRecord)
        /\ own \in Seq(1..MaxOpens) /\ Len(own) = Len(sessions)
    BY <1>3
  <2>3. QED
    BY <1>2, <1>4, <2>1, <2>2 DEF TypeOK
<1>6. Tables
  BY <1>1, <1>3, <1>4, BoundsAssumption DEF Tables
<1>7. SessionsFit /\ SessionsApart
  BY <1>3 DEF SessionsFit, SessionsApart
<1>8. Held /\ Up /\ Current
  BY <1>1, <1>3, <1>4 DEF Held, Up, Current
<1>9. QED
  BY <1>1, <1>5, <1>6, <1>7, <1>8 DEF IInv

LEMMA NextIInv == IInv /\ [Next]_vars => IInv'
  BY TableSteps, TypeOKNext, SessionsFitNext, SessionsApartNext, HeldNext, UpNext, CurrentNext
     DEF IInv

LEMMA Invariance == Spec => []IInv
  BY InitIInv, NextIInv, PTL DEF Spec

\* Every variable of the objects above the bridge has its type, and a table of
\* ids holds handles the bridge issued, under ids its counter has passed:
\* NativeBackend.open_session (native.py:1015) never gives an id twice.
THEOREM TypeCorrect == Spec => []TypeOK
<1>1. IInv => TypeOK
  BY DEF IInv
<1>2. QED
  BY <1>1, Invariance, PTL

\* The Session that holds a connection has its handle still, and the bridge
\* granted one handle for each connection: the one that resolves to it.
LEMMA HeldIsReached == IInv => ConnectionsHeld
<1> SUFFICES ASSUME IInv, NEW b \in connected \ failed
             PROVE  \E s \in DOMAIN sessions : ~sessions[s].closed /\ own[s] = b /\ Reached(s) = b
  BY DEF ConnectionsHeld
<1>1. TableInv
  BY DEF IInv
<1>2. PICK s \in DOMAIN sessions : ~sessions[s].closed /\ own[s] = b /\ Has(s)
  BY DEF IInv, Held
<1>3. PICK g \in grants : g.handle = HandleOf(s) /\ g.session = b
  BY <1>2, SessionFacts DEF SessionFits, Issued
<1>4. PICK h \in grants : h.session = b /\ Bridge!Resolve(h.handle) = b
  BY <1>1, TableFacts
<1>5. g = h
  BY <1>1, <1>3, <1>4, TableFacts
<1>6. QED
  BY <1>2, <1>3, <1>4, <1>5 DEF Reached

\* No connection is lost: whatever SDK objects do to each other, and whichever
\* Cameras a discovery dropped, a connected camera has a Session that is open
\* and whose calls reach it (the exception is an open that raised).
THEOREM CamerasAreHeld == Spec => []ConnectionsHeld
  BY Invariance, HeldIsReached, PTL

\* After the last SDK.close nothing is connected and the bridge is down
\* (sdk.py:133), however many SDK objects shared the process.
THEOREM NothingStaysConnected == Spec => []NothingConnectedAfterClose
<1>1. IInv => NothingConnectedAfterClose
  <2> SUFFICES ASSUME IInv, \A d \in Sdks : ~started[d] PROVE connected = {} /\ ~initialized
    BY DEF NothingConnectedAfterClose
  <2>1. ~initialized
    BY DEF IInv, Up
  <2>2. QED
    BY <2>1, TableFacts DEF IInv
<1>2. QED
  BY <1>1, Invariance, PTL

\* With one SDK object in the process a call on a Session (session.py) reaches
\* the camera the Session was opened for or nothing: no restart, rediscovery or
\* close lets it reach another.
ReachesOwn == Single => CallsReachOwn

LEMMA SingleReachesOwn == IInv => ReachesOwn
<1> SUFFICES ASSUME IInv, Single, NEW s \in DOMAIN sessions
             PROVE  Reached(s) \in {NoSession, own[s]}
  BY DEF ReachesOwn, CallsReachOwn
<1>1. TableInv /\ Current
  BY DEF IInv
<1>2. CASE Has(s)
  BY <1>1, <1>2, TableFacts DEF Current, Reached
<1>3. CASE ~Has(s)
  BY <1>1, <1>3, NothingNamed DEF Has, HandleOf, Reached
<1>4. QED
  BY <1>2, <1>3

-----------------------------------------------------------------------------
(* One SDK object: Sessions as tokens of SessionService.                   *)

Given == {own[s] : s \in DOMAIN own}
Reach == [b \in 1..MaxOpens |->
            IF \E s \in DOMAIN own : own[s] = b
            THEN Reached(CHOOSE s \in DOMAIN own : own[s] = b) ELSE NoSession]

\* What the mapping says of a connection that has a Session, and of another.
ReachTotal == Reach = [b \in 1..MaxOpens |-> Reach[b]]
ReachGiven == \A s \in DOMAIN sessions :
                own[s] \in Given /\ own[s] \in 1..MaxOpens /\ Reach[own[s]] = Reached(s)
ReachOther == \A b \in 1..MaxOpens \ Given : Reach[b] = NoSession
ReachKnown == ReachTotal /\ ReachGiven /\ ReachOther

LEMMA InvReachKnown == IInv => ReachKnown
<1> SUFFICES ASSUME IInv PROVE ReachKnown
  OBVIOUS
<1>1. /\ own \in Seq(1..MaxOpens) /\ DOMAIN own = DOMAIN sessions
      /\ \A s, t \in DOMAIN own : own[s] = own[t] => s = t
  <2>1. own \in Seq(1..MaxOpens) /\ DOMAIN own = DOMAIN sessions
    BY DEF IInv, TypeOK
  <2>2. QED
    BY <2>1 DEF IInv, SessionsApart
<1>2. ASSUME NEW s \in DOMAIN sessions
      PROVE  own[s] \in Given /\ own[s] \in 1..MaxOpens /\ Reach[own[s]] = Reached(s)
  <2>1. s = CHOOSE t \in DOMAIN own : own[t] = own[s]
    <3>1. s \in DOMAIN own /\ \A t \in DOMAIN own : own[t] = own[s] => t = s
      BY <1>1
    <3>2. QED
      BY <3>1
  <2>2. own[s] \in 1..MaxOpens
    <3>1. own[s] \in 1..opens /\ opens \in 0..MaxOpens
      BY SessionFacts, TableFacts DEF SessionFits, IInv
    <3>2. QED
      BY <3>1, BoundsAssumption
  <2>3. QED
    BY <1>1, <2>1, <2>2 DEF Reach, Given
<1>3. ReachTotal /\ ReachOther
  BY DEF ReachTotal, ReachOther, Reach, Given
<1>4. QED
  BY <1>2, <1>3 DEF ReachKnown, ReachGiven

\* A Session without a handle reaches nothing.
NothingLost == \A s \in DOMAIN sessions : ~Has(s) => Reached(s) = NoSession

LEMMA LostReachesNothing == IInv => NothingLost
  BY NothingNamed DEF IInv, NothingLost, Has, HandleOf, Reached

\* A step after which each token reaches what it reached, or nothing if it is
\* among those that ended.
Ends(T) ==
  /\ DOMAIN sessions' = DOMAIN sessions
  /\ \A s \in DOMAIN sessions :
       own'[s] = own[s] /\ Reached(s)' = IF own[s] \in T THEN NoSession ELSE Reached(s)

LEMMA EndsImplements ==
  ASSUME IInv, IInv', NEW T \in SUBSET Given, Ends(T)
  PROVE  Given' = Given /\ Reach' = [b \in 1..MaxOpens |-> IF b \in T THEN NoSession ELSE Reach[b]]
<1>1. ReachKnown /\ ReachKnown'
  <2>1. IInv' => ReachKnown'
    BY InvReachKnown, PTL
  <2>2. QED
    BY <2>1, InvReachKnown
<1>2. DOMAIN own = DOMAIN sessions /\ DOMAIN own' = DOMAIN sessions'
  BY DEF IInv, TypeOK
<1>3. Given' = Given
  BY <1>2 DEF Given, Ends
<1>4. ASSUME NEW b \in 1..MaxOpens
      PROVE  Reach'[b] = IF b \in T THEN NoSession ELSE Reach[b]
  <2>1. CASE b \notin Given
    BY <1>1, <1>3, <2>1 DEF ReachKnown, ReachOther
  <2>2. CASE b \in Given
    <3>1. PICK s \in DOMAIN sessions : own[s] = b
      BY <1>2, <2>2 DEF Given
    <3>2. s \in DOMAIN sessions' /\ own'[s] = b
      BY <3>1 DEF Ends
    <3>3. Reach[b] = Reached(s) /\ Reach'[b] = Reached(s)'
      BY <1>1, <3>1, <3>2 DEF ReachKnown, ReachGiven
    <3>4. QED
      BY <3>1, <3>3 DEF Ends
  <2>3. QED
    BY <2>1, <2>2
<1>5. QED
  BY <1>1, <1>3, <1>4 DEF ReachKnown, ReachTotal

\* What a Session reaches changes with its handle and with the table only.
LEMMA GoesReached ==
  ASSUME IInv, IInv', NEW s \in DOMAIN sessions, Goes(s),
         NEW h, h = HandleOf(s), Has(s) => Bridge!Resolve(h)' = Bridge!Resolve(h)
  PROVE  Reached(s)' = Reached(s)
<1>1. Reached(s) = Bridge!Resolve(h)
  BY DEF Reached
<1>2. CASE Has(s)
  <2>1. HandleOf(s)' = h
    BY <1>2 DEF Goes, Kept
  <2>2. Reached(s)' = Bridge!Resolve(h)'
    BY <2>1 DEF Reached, Bridge!Resolve
  <2>3. QED
    BY <1>1, <1>2, <2>2
<1>3. CASE ~Has(s)
  <2>1. ~Has(s)' /\ s \in DOMAIN sessions'
    BY <1>3 DEF Goes, Kept
  <2>2. Reached(s) = NoSession
    BY <1>3, LostReachesNothing DEF NothingLost
  <2>3. Reached(s)' = NoSession
    <3>1. IInv' => NothingLost'
      BY LostReachesNothing, PTL
    <3>2. QED
      BY <2>1, <3>1 DEF NothingLost
  <2>4. QED
    BY <2>2, <2>3
<1>4. QED
  BY <1>2, <1>3

LEMMA QuietStutters ==
  ASSUME IInv, IInv', Quiet, CamerasGrow
  PROVE  UNCHANGED <<Given, Reach>>
<1>1. ASSUME NEW s \in DOMAIN sessions PROVE own'[s] = own[s] /\ Reached(s)' = Reached(s)
  <2>1. PICK h : h = HandleOf(s)
    OBVIOUS
  <2>2. Goes(s)
    BY QuietGoes DEF Quiet
  <2>3. Bridge!Resolve(h)' = Bridge!Resolve(h)
    BY QuietEffect
  <2>4. QED
    BY <2>1, <2>2, <2>3, GoesReached DEF Goes, Kept
<1>2. Ends({})
  BY <1>1 DEF Ends, Quiet
<1>3. Given' = Given /\ Reach' = [b \in 1..MaxOpens |-> Reach[b]]
  BY <1>2, EndsImplements
<1>4. QED
  BY <1>3, InvReachKnown DEF ReachKnown, ReachTotal

\* The other Sessions are not reached by what an open does.
LEMMA OpenLeaves ==
  ASSUME IInv, IInv', Single, NEW c \in DOMAIN cameras,
         Registered(cameras[c].sdk, cameras[c].key), NEW s \in DOMAIN sessions, s \in DOMAIN sessions',
         sessions'[s] = sessions[s], own'[s] = own[s]
  PROVE  Reached(s)' = Reached(s)
<1>1. Goes(s)
  BY RegisteredGoes
<1>2. PICK h : h = HandleOf(s)
  OBVIOUS
<1>3. /\ \A f : Bridge!Resolve(f)' \in {Bridge!Resolve(f), opens'}
      /\ opens' = opens + 1 /\ opens' # NoSession /\ opens \in Nat
  <2>1. cameras[c].key \in Keys /\ Bridge!OpenSession(cameras[c].key) /\ TableInv
    BY RegisteredEffect DEF IInv
  <2>2. /\ \A f : Bridge!Resolve(f)' \in {Bridge!Resolve(f), opens'}
        /\ opens' = opens + 1 /\ opens \in 0..MaxOpens
    BY <2>1, OpenFacts, TableFacts
  <2>3. QED
    BY <2>2, SameNumbers, BoundsAssumption
<1>4. own[s] \in 1..opens
  BY SessionFacts DEF SessionFits
<1>5. Has(s) => Bridge!Resolve(h)' = Bridge!Resolve(h)
  <2> SUFFICES ASSUME Has(s) PROVE Bridge!Resolve(h)' = Bridge!Resolve(h)
    OBVIOUS
  <2>1. HandleOf(s)' = h
    BY <1>1, <1>2 DEF Goes, Kept
  <2>2. Reached(s)' = Bridge!Resolve(h)'
    BY <2>1 DEF Reached, Bridge!Resolve
  <2>3. Reached(s)' \in {NoSession, own'[s]}
    <3>1. IInv' => ReachesOwn'
      BY SingleReachesOwn, PTL
    <3>2. QED
      BY <3>1 DEF ReachesOwn, CallsReachOwn
  <2>4. Bridge!Resolve(h)' # opens'
    BY <1>3, <1>4, <2>2, <2>3
  <2>5. QED
    BY <1>3, <2>4
<1>6. QED
  BY <1>1, <1>2, <1>5, GoesReached

LEMMA OpenImplements ==
  ASSUME IInv, IInv', Single, [Next]_vars, NEW c \in DOMAIN cameras, Open(c)
  PROVE  \E b \in 1..MaxOpens : Service!OpenOne(b)
<1>1. Registered(cameras[c].sdk, cameras[c].key)
  BY DEF Open
<1>2. PICK n : n = Len(sessions) + 1
  OBVIOUS
<1>3. /\ n \notin DOMAIN sessions /\ DOMAIN sessions' = DOMAIN sessions \cup {n}
      /\ DOMAIN own = DOMAIN sessions /\ DOMAIN own' = DOMAIN sessions'
      /\ \A s \in DOMAIN sessions : sessions'[s] = sessions[s] /\ own'[s] = own[s]
      /\ own'[n] = opens'
  <2>1. DOMAIN own = DOMAIN sessions
    BY DEF IInv, TypeOK
  <2>2. QED
    BY <1>2, <2>1, OpenEffect
<1>4. ReachKnown /\ ReachKnown'
  <2>1. IInv' => ReachKnown'
    BY InvReachKnown, PTL
  <2>2. QED
    BY <2>1, InvReachKnown
<1>5. opens' = opens + 1 /\ opens' \in 1..MaxOpens /\ opens \in Nat
  <2>1. cameras[c].key \in Keys /\ Bridge!OpenSession(cameras[c].key) /\ TableInv
    BY <1>1, RegisteredEffect DEF IInv
  <2>2. QED
    BY <2>1, OpenFacts, TableFacts
<1>6. Given' = Given \cup {opens'}
  BY <1>3 DEF Given
<1>7. opens' \notin Given
  <2>1. \A s \in DOMAIN sessions : own[s] \in 1..opens
    BY SessionFacts DEF SessionFits
  <2>2. QED
    BY <1>3, <1>5, <2>1 DEF Given
<1>8. Reach'[opens'] = opens'
  <2>1. Reach'[own'[n]] = Reached(n)'
    BY <1>3, <1>4 DEF ReachKnown, ReachGiven
  <2>2. Reached(n)' = opens'
    <3>1. PICK g \in grants' : g.handle = HandleOf(n)' /\ g.session = own'[n]
      BY <1>3, NewSession
    <3>2. PICK h \in grants' : h.session = opens' /\ Bridge!Resolve(h.handle)' = opens'
      BY <1>1, RegisteredEffect DEF Registers
    <3>3. g = h
      BY <1>3, <3>1, <3>2 DEF IInv, TableInv, Table!TableInv, Table!OwnInv, Table!OneGrantEach
    <3>4. QED
      BY <3>1, <3>2, <3>3 DEF Reached, Bridge!Resolve
  <2>3. QED
    BY <1>3, <2>1, <2>2
<1>9. ASSUME NEW b \in 1..MaxOpens, b # opens' PROVE Reach'[b] = Reach[b]
  <2>1. CASE b \in Given
    <3>1. PICK s \in DOMAIN sessions : own[s] = b
      BY <1>3, <2>1 DEF Given
    <3>2. s \in DOMAIN sessions' /\ own'[s] = b /\ Reached(s)' = Reached(s)
      BY <1>1, <1>3, <3>1, OpenLeaves
    <3>3. QED
      BY <1>4, <3>1, <3>2 DEF ReachKnown, ReachGiven
  <2>2. CASE b \notin Given
    BY <1>4, <1>6, <1>9, <2>2 DEF ReachKnown, ReachOther
  <2>3. QED
    BY <2>1, <2>2
<1>10. Reach' = [Reach EXCEPT ![opens'] = opens']
  BY <1>4, <1>5, <1>8, <1>9 DEF ReachKnown, ReachTotal
<1>11. PICK b \in 1..MaxOpens : b = opens'
  BY <1>5
<1>12. Service!OpenOne(b)
  BY <1>6, <1>7, <1>10, <1>11 DEF Service!OpenOne, Given, Reach
<1>13. QED
  BY <1>12

\* An open that raised made no Session.
LEMMA OpenRaisesStutters ==
  ASSUME IInv, IInv', Single, NEW c \in DOMAIN cameras, OpenRaises(c)
  PROVE  UNCHANGED <<Given, Reach>>
<1>1. Registered(cameras[c].sdk, cameras[c].key) /\ UNCHANGED <<sessions, own>>
  BY DEF OpenRaises
<1>2. Ends({})
  BY <1>1, OpenLeaves DEF Ends
<1>3. Given' = Given /\ Reach' = [b \in 1..MaxOpens |-> Reach[b]]
  BY <1>2, EndsImplements
<1>4. QED
  BY <1>3, InvReachKnown DEF ReachKnown, ReachTotal

LEMMA CloseSessionImplements ==
  ASSUME IInv, IInv', Single, NEW t \in DOMAIN sessions, CloseSession(t)
  PROVE  \E T \in SUBSET Given : Service!CloseSome(T)
<1>1. own[t] \in Given
  BY InvReachKnown DEF ReachKnown, ReachGiven
<1>2. DOMAIN sessions' = DOMAIN sessions /\ TableInv
  BY DEF CloseSession, IInv, TypeOK
<1>3. ASSUME NEW s \in DOMAIN sessions
      PROVE  own'[s] = own[s] /\ Reached(s)' = IF own[s] \in {own[t]} THEN NoSession ELSE Reached(s)
  <2>1. Kept(s)
    BY CloseSessionKept
  <2>2. CASE s = t
    <3>1. ~Has(s)' /\ s \in DOMAIN sessions'
      BY <2>1, <2>2, CloseSessionKept DEF Kept
    <3>2. IInv' => NothingLost'
      BY LostReachesNothing, PTL
    <3>3. QED
      BY <2>1, <2>2, <3>1, <3>2 DEF NothingLost, Kept
  <2>3. CASE s # t
    <3>1. own[s] # own[t] /\ Goes(s)
      BY <2>3, CloseSessionKept DEF IInv, SessionsApart
    <3>2. PICK h : h = HandleOf(s)
      OBVIOUS
    <3>3. Bridge!Resolve(h)' = Bridge!Resolve(h)
      <4>1. CASE UNCHANGED bridge
        BY <4>1 DEF bridge, Bridge!Resolve
      <4>2. ASSUME NEW g \in grants, g.handle = HandleOf(t), Bridge!CloseSession(g.handle)
            PROVE  Bridge!Resolve(h)' = Bridge!Resolve(h)
        <5>1. Bridge!Resolve(g.handle) = own[t]
          <6>1. Reached(t) \in {NoSession, own[t]} /\ Bridge!Resolve(g.handle) # NoSession
            BY <1>2, <4>2, CloseFacts, SingleReachesOwn DEF ReachesOwn, CallsReachOwn
          <6>2. QED
            BY <4>2, <6>1 DEF Reached
        <5>2. Bridge!Resolve(h) \in {NoSession, own[s]}
          BY <3>2, SingleReachesOwn DEF ReachesOwn, CallsReachOwn, Reached
        <5>3. Bridge!Resolve(h) # Bridge!Resolve(g.handle)
          BY <1>2, <3>1, <4>2, <5>1, <5>2, CloseFacts
        <5>4. QED
          BY <1>2, <4>2, <5>3, CloseFacts
      <4>3. QED
        BY <4>1, <4>2, CloseSessionEffect
    <3>4. QED
      BY <3>1, <3>2, <3>3, GoesReached DEF Goes, Kept
  <2>4. QED
    BY <2>2, <2>3
<1>4. Ends({own[t]})
  BY <1>2, <1>3 DEF Ends
<1>5. PICK T \in SUBSET Given : T = {own[t]}
  BY <1>1
<1>6. Service!CloseSome(T)
  BY <1>4, <1>5, EndsImplements DEF Service!CloseSome, Given, Reach, Ends
<1>7. QED
  BY <1>6

LEMMA CloseImplements ==
  ASSUME IInv, IInv', NEW d \in Sdks, Close(d)
  PROVE  \E T \in SUBSET Given : Service!CloseSome(T)
<1>1. DOMAIN sessions' = DOMAIN sessions /\ own' = own
  BY DEF Close
<1>2. ASSUME NEW s \in DOMAIN sessions
      PROVE  own'[s] = own[s] /\ Reached(s)' = IF own[s] \in Given THEN NoSession ELSE Reached(s)
  <2>1. own[s] \in Given
    BY InvReachKnown DEF ReachKnown, ReachGiven
  <2>2. PICK h : h = HandleOf(s)'
    OBVIOUS
  <2>3. Reached(s)' = Bridge!Resolve(h)' /\ Bridge!Resolve(h)' = NoSession
    BY <2>2, CloseEffect DEF Reached, Bridge!Resolve
  <2>4. QED
    BY <1>1, <2>1, <2>3
<1>3. Ends(Given)
  BY <1>1, <1>2 DEF Ends
<1>4. PICK T \in SUBSET Given : T = Given
  OBVIOUS
<1>5. Service!CloseSome(T)
  BY <1>3, <1>4, EndsImplements DEF Service!CloseSome, Given, Reach, Ends
<1>6. QED
  BY <1>5

LEMMA ServiceNext ==
  /\ \A b \in 1..MaxOpens : Service!OpenOne(b) => Service!Next
  /\ \A T \in SUBSET Given : Service!CloseSome(T) => Service!Next
<1>1. ASSUME NEW b \in 1..MaxOpens, Service!OpenOne(b) PROVE Service!Next
  BY <1>1 DEF Service!Next
<1>2. ASSUME NEW T \in SUBSET Given, Service!CloseSome(T) PROVE Service!Next
  BY <1>2 DEF Service!Next, Given
<1>3. QED
  BY <1>1, <1>2

LEMMA NextImplements ==
  ASSUME Single
  PROVE  IInv /\ IInv' /\ [Next]_vars => [Service!Next]_(Service!vars)
<1> SUFFICES ASSUME IInv, IInv', [Next]_vars PROVE [Service!Next]_(Service!vars)
  OBVIOUS
<1>1. CASE Quiet
  <2>1. UNCHANGED <<Given, Reach>>
    BY <1>1, CamerasStep, QuietStutters
  <2>2. QED
    BY <2>1 DEF Service!vars, Given, Reach
<1>2. ASSUME NEW c \in DOMAIN cameras, Open(c) PROVE Service!Next
  BY <1>2, OpenImplements, ServiceNext
<1>3. ASSUME NEW c \in DOMAIN cameras, OpenRaises(c) PROVE UNCHANGED Service!vars
  <2>1. UNCHANGED <<Given, Reach>>
    BY <1>3, OpenRaisesStutters
  <2>2. QED
    BY <2>1 DEF Service!vars, Given, Reach
<1>4. ASSUME NEW t \in DOMAIN sessions, CloseSession(t) PROVE Service!Next
  BY <1>4, CloseSessionImplements, ServiceNext
<1>5. ASSUME NEW d \in Sdks, Close(d) PROVE Service!Next
  BY <1>5, CloseImplements, ServiceNext
<1>6. QED
  BY <1>1, <1>2, <1>3, <1>4, <1>5, Kinds

LEMMA InitImplements == Init => Service!Init
<1> SUFFICES ASSUME Init PROVE Service!Init
  OBVIOUS
<1>1. DOMAIN own = {}
  BY DEF Init
<1>2. QED
  BY <1>1 DEF Service!Init

\* With one SDK object in the process its Sessions (session.py) are tokens of
\* SessionService: each reaches its camera from Camera.open to Session.close or
\* SDK.close and nothing afterwards, through restarts and rediscoveries.
\* (With two, a handle that one keeps through the other's close may come to
\* name a session of the next initialisation.)
THEOREM OneSdkImplementsService == ASSUME Single PROVE Spec => SessionsAreService
<1>1. IInv /\ IInv' /\ [Next]_vars => [Service!Next]_(Service!vars)
  BY NextImplements
<1>2. QED
  BY <1>1, InitImplements, Invariance, PTL DEF Spec, SessionsAreService, Service!Spec
=============================================================================
