------------------------- MODULE HostClient_proofs -------------------------
(***************************************************************************)
(* Proofs about the hosted backend: which session a call through an id     *)
(* reaches, who can close what the helper keeps connected, and when one    *)
(* retry is enough, for any number of threads, opens and processes.  What  *)
(* is proved of BridgeSlots is used through the instance Table.            *)
(***************************************************************************)
EXTENDS HostClient, FiniteSetTheorems, TLAPS

Table == INSTANCE BridgeSlots_proofs WITH Keys <- {Camera}, MaxEpochs <- MaxStarts

TableInv == Table!TableInv

\* Who starts or exchanges holds the lock; only a ready backend's process has a
\* vendor library, and without one nothing is enumerated.
LockInv ==
  /\ \A t \in Threads : pc[t] \in {"starting", "sent", "answered"} => lock = t
  /\ \A t \in Threads : pc[t] = "starting" => ~initialized
  /\ initialized => state = "ready"
  /\ ~initialized => keys = {}

\* A handle and a session it was issued for.
Issued(h, s) == \E g \in grants : g.handle = h /\ g.session = s

\* Where a call may be, and what it carries.
OnSession == {"use", "state", "close"}
CallFits(t) ==
  /\ pc[t] \in {"idle", "starting", "state"} => call[t].op = "none"
  /\ pc[t] \in {"lock", "sent", "answered"} => call[t].op # "none"
  /\ pc[t] = "state" => call[t].id \in Ids /\ given[call[t].id] # NoSession
  /\ call[t].op \in OnSession =>
       /\ pc[t] \in {"lock", "sent", "answered"}
       /\ call[t].id \in Ids /\ given[call[t].id] # NoSession
       /\ \E g \in grants : g.handle = call[t].handle
  /\ pc[t] \in Registering => call[t].op = "open" /\ Issued(call[t].handle, call[t].session)
  /\ pc[t] = "name" => counter \in Ids
  /\ pc[t] = "store" => call[t].id \in Ids
  /\ pc[t] = "answered" => reply.status # "none"
  /\ pc[t] = "answered" /\ reply.status # "ok" => reply.session = NoSession
  /\ pc[t] = "answered" /\ reply.status = "connect_timeout" => call[t].op = "open"
  /\ pc[t] = "answered" /\ Opened(t) => Issued(reply.handle, reply.session)
CallsFit == \A t \in Threads : CallFits(t)

\* The session a thread has opened and not registered yet.
Pending(t) ==
  IF pc[t] \in Registering THEN call[t].session
  ELSE IF pc[t] = "answered" /\ call[t].op = "open" THEN reply.session
  ELSE NoSession

\* An id in use was given a session, and its handle was issued.
IdsInv ==
  /\ \A i \in Ids : handles[i] # NoHandle =>
       given[i] # NoSession /\ \E g \in grants : g.handle = handles[i]
  /\ \A i \in Ids : given[i] \in 0..opens
  /\ \A t \in Threads : Pending(t) \in 0..opens

\* One open at a time: the counter it reads is the one it writes, the id it
\* makes is new, and each session of the bridge is named by one id at most.
Serial ==
  /\ \A t, u \in Threads : call[t].op = "open" /\ call[u].op = "open" => t = u
  /\ \A i \in Ids : i > counter => given[i] = NoSession
  /\ \A t \in Threads : pc[t] \in {"count", "store"} => call[t].id = counter
  /\ \A t \in Threads : pc[t] \in {"name", "store"} => given[counter] = NoSession
  /\ \A i, j \in Ids : i # j /\ given[i] = given[j] => given[i] = NoSession
  /\ \A t \in Threads, i \in Ids : Pending(t) = given[i] => given[i] = NoSession
  /\ \A i \in Ids : handles[i] # NoHandle => Issued(handles[i], given[i])
  /\ \A t \in Threads : call[t].op \in OnSession => Issued(call[t].handle, given[call[t].id])
  /\ \A i \in ended : given[i] # NoSession /\ handles[i] = NoHandle

\* A close that was answered has closed.
ClosedGone ==
  \A t \in Threads : pc[t] = "answered" /\ call[t].op = "close" =>
    Reached(t) = NoSession

ReachesOwn == epoch <= 1 => CallsReachOwn

\* The camera is held since a process died.  The second helper process frees it
\* once, and it takes a third to find it held again.
Retrying == \E t \in Threads : call[t].attempt = 2 \/ (pc[t] = "answered" /\ reply.status = "connect_timeout")
RetryInv ==
  /\ held => epoch >= 1
  /\ held /\ initialized => epoch >= 2
  /\ Retrying => epoch >= 2
  /\ epoch <= 2 /\ Retrying /\ initialized => ~held
  /\ epoch <= 2 => \A t \in Threads :
       pc[t] = "answered" /\ reply.status = "connect_timeout" => call[t].attempt # 2
  /\ epoch <= 2 => RetryClearsHeld

IInv ==
  /\ TableInv /\ TypeOK /\ LockInv
  /\ CallsFit /\ IdsInv /\ ClosedGone
  /\ RetryInv
  /\ ~Overlap => Serial /\ NoOrphan /\ ReachesOwn

-----------------------------------------------------------------------------
(* The session table of the process.                                       *)

LEMMA TableBounds == Table!BoundsAssumption
  BY BoundsAssumption DEF Table!BoundsAssumption

LEMMA SameNumbers == /\ NoSession = 0 /\ Table!NoSession = 0 /\ Bridge!NoSession = 0
                     /\ Ids = Table!Session
  BY DEF NoSession, Table!NoSession, Bridge!NoSession, Ids, Table!Session

LEMMA SameResolve == \A h : Bridge!Resolve(h) = Table!Resolve(h)
  BY DEF Bridge!Resolve, Table!Resolve, Table!NoSession, Bridge!NoSession

LEMMA SameOperations ==
  /\ Bridge!Init => Table!Init
  /\ Bridge!InitBridge => Table!InitBridge
  /\ Bridge!Shutdown => Table!Shutdown
  /\ Bridge!Enumerate => Table!Enumerate
  /\ Bridge!OpenSession(Camera) => Table!OpenSession(Camera)
  /\ \A h : Bridge!CloseSession(h) => Table!CloseSession(h)
<1>1. Bridge!Init => Table!Init
  BY DEF Bridge!Init, Table!Init
<1>2. Bridge!InitBridge => Table!InitBridge
  BY DEF Bridge!InitBridge, Table!InitBridge
<1>3. Bridge!Shutdown => Table!Shutdown
  BY DEF Bridge!Shutdown, Table!Shutdown, Bridge!Open, Table!Open, Bridge!NoSession, Table!NoSession
<1>4. Bridge!Enumerate => Table!Enumerate
  BY DEF Bridge!Enumerate, Table!Enumerate
<1>5. Bridge!OpenSession(Camera) => Table!OpenSession(Camera)
  BY DEF Bridge!OpenSession, Table!OpenSession, Bridge!FirstFree, Table!FirstFree, Bridge!Free,
         Table!Free, Bridge!NextGeneration, Table!NextGeneration, Bridge!Increment, Table!Increment,
         Bridge!MakeHandle, Table!MakeHandle, Bridge!NoSession, Table!NoSession
<1>6. ASSUME NEW h, Bridge!CloseSession(h) PROVE Table!CloseSession(h)
  BY <1>6 DEF Bridge!CloseSession, Table!CloseSession, Bridge!Resolve, Table!Resolve,
         Bridge!NoSession, Table!NoSession
<1>7. QED
  BY <1>1, <1>2, <1>3, <1>4, <1>5, <1>6

\* What a step of the hosted backend does to the table.
TableStep ==
  \/ UNCHANGED bridge
  \/ Bridge!InitBridge \/ Bridge!Shutdown \/ Bridge!Enumerate \/ Bridge!OpenSession(Camera)
  \/ \E g \in grants : Bridge!CloseSession(g.handle)

LEMMA TableKept == TableInv /\ TableStep => TableInv'
<1> SUFFICES ASSUME TableInv, TableStep PROVE TableInv'
  OBVIOUS
<1>1. [Table!Next]_(Table!vars)
  <2>1. UNCHANGED bridge => UNCHANGED Table!vars
    BY DEF bridge, Table!vars
  <2>2. QED
    BY <2>1, SameOperations DEF TableStep, Table!Next
<1>2. QED
  BY <1>1, TableBounds, Table!NextIInv, Table!NextOwnInv DEF TableInv, Table!TableInv

LEMMA TableFacts ==
  ASSUME TableInv
  PROVE  /\ opens \in 0..MaxOpens /\ epoch \in 0..MaxStarts /\ initialized \in BOOLEAN
         /\ connected \subseteq 1..opens
         /\ \A g \in grants : /\ g.session \in 1..opens /\ g.epoch \in 1..epoch
                              /\ g.handle \in Bridge!IssuedHandle
         /\ \A g, h \in grants : g.session = h.session => g = h
         /\ \A s \in connected : \E g \in grants : g.session = s /\ Bridge!Resolve(g.handle) = s
         /\ \A g \in grants : g.epoch = epoch => Bridge!Resolve(g.handle) \in {NoSession, g.session}
         /\ \A h : Bridge!Resolve(h) # NoSession => Bridge!Resolve(h) \in connected
         /\ ~initialized => connected = {} /\ \A h : Bridge!Resolve(h) = NoSession
         /\ initialized => epoch >= 1
  BY TableBounds, Table!Facts, SameResolve, SameNumbers
     DEF TableInv, Bridge!IssuedHandle, Table!IssuedHandle

\* What each operation leaves reachable.
LEMMA ShutdownFacts ==
  ASSUME TableInv, Bridge!Shutdown
  PROVE  /\ initialized /\ initialized' = FALSE /\ keys' = {} /\ connected' = {}
         /\ UNCHANGED <<opens, epoch, grants>>
         /\ \A h : Bridge!Resolve(h)' = NoSession
<1>1. Table!Shutdown
  BY SameOperations
<1>2. QED
  BY <1>1, TableBounds, Table!ShutdownFacts
     DEF TableInv, Bridge!Resolve, Table!Resolve, NoSession, Bridge!NoSession, Table!NoSession

LEMMA OpenFacts ==
  ASSUME TableInv, Bridge!OpenSession(Camera)
  PROVE  /\ initialized /\ UNCHANGED <<initialized, keys, epoch>>
         /\ opens' = opens + 1 /\ opens' \in Ids
         /\ connected' = connected \cup {opens'}
         /\ grants \subseteq grants' /\ \E g \in grants' : g.session = opens'
         /\ \A h : Bridge!Resolve(h) # NoSession => Bridge!Resolve(h)' = Bridge!Resolve(h)
<1>1. Table!OpenSession(Camera)
  BY SameOperations
<1>2. QED
  BY <1>1, TableBounds, SameNumbers, Table!OpenFacts
     DEF TableInv, Bridge!Resolve, Table!Resolve, NoSession, Bridge!NoSession, Table!NoSession

LEMMA CloseFacts ==
  ASSUME TableInv, NEW g \in grants, Bridge!CloseSession(g.handle)
  PROVE  /\ connected' = connected \ {Bridge!Resolve(g.handle)}
         /\ UNCHANGED <<initialized, keys, opens, epoch, grants>>
         /\ Bridge!Resolve(g.handle) # NoSession /\ Bridge!Resolve(g.handle)' = NoSession
         /\ \A h : Bridge!Resolve(h) # Bridge!Resolve(g.handle) => Bridge!Resolve(h)' = Bridge!Resolve(h)
<1>1. Table!CloseSession(g.handle)
  BY SameOperations
<1>2. QED
  BY <1>1, TableBounds, Table!CloseFacts
     DEF TableInv, Bridge!Resolve, Table!Resolve, NoSession, Bridge!NoSession, Table!NoSession

-----------------------------------------------------------------------------
(* What the threads do.                                                    *)

Others(t) ==
  \A u \in Threads : u # t =>
    pc'[u] = pc[u] /\ call'[u] = call[u] /\ verdict'[u] = verdict[u]

\* The calls a thread can ask for, and what it can say of them.
LEMMA CallRecords ==
  /\ NoHandle \in Handle /\ NoCall \in CallRecord /\ NoReply \in ReplyRecord
  /\ NoCall.op = "none" /\ NoCall.attempt = 0 /\ NoCall.id = 0 /\ NoCall.handle = NoHandle
  /\ NoCall.session = NoSession
  /\ NoReply.status = "none" /\ NoReply.session = NoSession
<1>1. NoHandle \in Handle
  BY DEF Handle
<1>2. 0 \in 0..Attempts
  BY DEF Attempts
<1>3. QED
  BY <1>1, <1>2 DEF NoCall, NoReply, CallRecord, ReplyRecord, NoSession

LEMMA OpenRecord ==
  /\ [NoCall EXCEPT !.op = "open", !.attempt = 1] \in CallRecord
  /\ [NoCall EXCEPT !.op = "open", !.attempt = 1].op = "open"
  /\ [NoCall EXCEPT !.op = "open", !.attempt = 1].attempt = 1
  /\ [NoCall EXCEPT !.op = "enumerate"] \in CallRecord
  /\ [NoCall EXCEPT !.op = "enumerate"].op = "enumerate"
  /\ [NoCall EXCEPT !.op = "enumerate"].attempt = 0
<1>1. NoHandle \in Handle /\ 0 \in 0..Attempts /\ 1 \in 0..Attempts
  BY DEF Handle, Attempts
<1>2. QED
  BY <1>1 DEF NoCall, CallRecord

LEMMA SessionRecord ==
  ASSUME TypeOK, NEW i \in Ids, NEW op \in OnSession
  PROVE  /\ WithHandle(op, i) \in CallRecord /\ WithHandle(op, i).op = op
         /\ WithHandle(op, i).id = i /\ WithHandle(op, i).handle = handles[i]
         /\ WithHandle(op, i).attempt = 0
         /\ Id(i) \in CallRecord /\ Id(i).op = "none" /\ Id(i).id = i /\ Id(i).attempt = 0
<1>1. handles[i] \in Handle /\ NoHandle \in Handle /\ 0 \in 0..Attempts
  BY DEF TypeOK, Handle, Attempts
<1>2. QED
  BY <1>1 DEF WithHandle, Id, NoCall, CallRecord, OnSession

LEMMA Moved ==
  ASSUME TypeOK, NEW t \in Threads, NEW label, Goto(t, label)
  PROVE  pc'[t] = label /\ \A u \in Threads : u # t => pc'[u] = pc[u]
  BY DEF TypeOK, Goto

LEMMA Asked ==
  ASSUME TypeOK, NEW t \in Threads, NEW c \in CallRecord, Ask(t, c)
  PROVE  /\ pc'[t] = "lock" /\ call'[t] = c /\ call' \in [Threads -> CallRecord]
         /\ \A u \in Threads : u # t => pc'[u] = pc[u] /\ call'[u] = call[u]
  BY Moved DEF TypeOK, Ask

LEMMA Ended ==
  ASSUME TypeOK, NEW t \in Threads, End(t, "ok") \/ End(t, "raised") \/ End(t, "closed")
                                    \/ End(t, "error") \/ End(t, "connect_timeout")
  PROVE  /\ pc'[t] = "idle" /\ call'[t] = NoCall /\ Others(t)
         /\ call' \in [Threads -> CallRecord] /\ verdict' \in [Threads -> VerdictRecord]
<1>1. call[t].id \in Ids \cup {0} /\ call \in [Threads -> CallRecord]
      /\ verdict \in [Threads -> VerdictRecord] /\ pc \in [Threads -> Labels]
  BY DEF TypeOK, CallRecord
<1>2. PICK a \in {"ok", "raised", "closed", "error", "connect_timeout"} : End(t, a)
  OBVIOUS
<1> DEFINE v == [answer |-> a, id |-> call[t].id]
<1>3. v \in VerdictRecord
  BY <1>1 DEF VerdictRecord
<1>4. /\ pc' = [pc EXCEPT ![t] = "idle"] /\ call' = [call EXCEPT ![t] = NoCall]
      /\ verdict' = [verdict EXCEPT ![t] = v]
  BY <1>2 DEF End, Goto
<1> HIDE DEF v
<1>5. QED
  BY <1>1, <1>3, <1>4, CallRecords DEF Others

(* The kinds of step.                                                      *)

Aside ==
  /\ UNCHANGED <<pc, call, lock, reply>>
  /\ \A u \in Threads : verdict'[u] = verdict[u] \/ verdict'[u].answer = "raised"
AsksOf(t) ==
  /\ pc[t] \in {"idle", "state"} /\ Others(t) /\ UNCHANGED <<lock, reply, verdict, bridge>>
  /\ call'[t].attempt # 2
  /\ \/ /\ pc'[t] = "lock" /\ call'[t].op \in {"open", "enumerate"}
        /\ Overlap \/ (call'[t].op = "open" => \A u \in Threads : call[u].op # "open")
     \/ pc'[t] = "state" /\ call'[t].op = "none" /\ call'[t].id \in Ids /\ given[call'[t].id] # NoSession
     \/ /\ pc'[t] = "lock" /\ call'[t].op \in OnSession /\ call'[t].id \in Ids
        /\ handles[call'[t].id] # NoHandle /\ call'[t].handle = handles[call'[t].id]
EndsOf(t) ==
  /\ pc'[t] = "idle" /\ call'[t] = NoCall /\ Others(t) /\ UNCHANGED bridge
  /\ \/ pc[t] \in {"lock", "state"} /\ UNCHANGED <<lock, reply>>
     \/ pc[t] \in {"sent", "answered"} /\ lock' = NoThread /\ reply' = NoReply
  /\ verdict'[t].answer = "connect_timeout" =>
       pc[t] = "answered" /\ reply.status = "connect_timeout" /\ call[t].attempt = 2
  /\ initialized => Pending(t) = NoSession /\ (call[t].op = "close" => pc[t] = "answered")
StartsOf(t) ==
  /\ {pc[t], pc'[t]} = {"idle", "starting"} /\ Others(t) /\ UNCHANGED <<call, verdict, reply>>
  /\ IF pc'[t] = "starting"
     THEN lock = NoThread /\ lock' = t /\ state # "ready" /\ UNCHANGED bridge
     ELSE lock' = NoThread
SendsOf(t) ==
  /\ pc[t] = "lock" /\ pc'[t] = "sent" /\ lock = NoThread /\ lock' = t
  /\ Others(t) /\ UNCHANGED <<call, reply, verdict, bridge>>
ServesOf(t) ==
  /\ pc[t] = "sent" /\ pc'[t] = "answered" /\ Others(t) /\ UNCHANGED <<call, lock, verdict>>
  /\ \/ call[t].op = "enumerate" /\ Bridge!Enumerate
        /\ reply'.status = "ok" /\ reply'.session = NoSession
     \/ call[t].op \in {"use", "state"} /\ UNCHANGED bridge
        /\ reply'.status = "ok" /\ reply'.session = Reached(t)
     \/ call[t].op = "close" /\ reply'.status = "ok" /\ reply'.session = Reached(t)
        /\ IF Reached(t) # NoSession THEN Bridge!CloseSession(call[t].handle) ELSE UNCHANGED bridge
     \/ call[t].op = "open" /\ ~held /\ Bridge!OpenSession(Camera)
        /\ reply'.status = "ok" /\ reply'.session = opens'
        /\ \E g \in grants' : g.handle = reply'.handle /\ g.session = opens'
     \/ call[t].op = "open" /\ UNCHANGED bridge
        /\ reply'.status = "error" /\ reply'.session = NoSession
     \/ call[t].op = "open" /\ UNCHANGED bridge /\ held /\ Camera \in keys /\ ~held'
        /\ reply'.status = "connect_timeout" /\ reply'.session = NoSession
ReceivesOf(t) ==
  /\ pc[t] = "answered" /\ pc'[t] = "register" /\ Opened(t)
  /\ call'[t].op = "open" /\ call'[t].handle = reply.handle /\ call'[t].session = reply.session
  /\ call'[t].attempt = call[t].attempt
  /\ lock' = NoThread /\ reply' = NoReply /\ Others(t) /\ UNCHANGED <<verdict, bridge>>
RetriesOf(t) ==
  /\ pc[t] = "answered" /\ pc'[t] = "lock" /\ reply.status = "connect_timeout"
  /\ call'[t].op = "open" /\ Pending(t) = NoSession
  /\ lock' = NoThread /\ reply' = NoReply /\ Others(t) /\ UNCHANGED <<verdict, bridge>>
NumbersOf(t) ==
  /\ \/ pc[t] = "register" /\ pc'[t] = "count" /\ counter' = counter /\ call'[t].id = counter
     \/ /\ pc[t] = "count" /\ pc'[t] = "name"
        /\ counter' = call[t].id + 1 /\ counter' \in Ids /\ call'[t].id = call[t].id
     \/ pc[t] = "name" /\ pc'[t] = "store" /\ counter' = counter /\ call'[t].id = counter
  /\ call'[t].op = call[t].op /\ call'[t].handle = call[t].handle
  /\ call'[t].session = call[t].session /\ call'[t].attempt = call[t].attempt
  /\ Others(t) /\ UNCHANGED <<lock, reply, verdict, handles, given, ended, bridge, held>>
RegistersOf(t) ==
  /\ pc[t] = "store" /\ pc'[t] = "idle" /\ call'[t] = NoCall /\ Others(t)
  /\ call[t].id \in Ids
  /\ handles' \in [Ids -> Handle] /\ given' \in [Ids -> Ids \cup {NoSession}]
  /\ \A i \in Ids :
       /\ handles'[i] = IF i = call[t].id THEN call[t].handle ELSE handles[i]
       /\ given'[i] = IF i = call[t].id /\ given[i] = NoSession THEN call[t].session ELSE given[i]
  /\ UNCHANGED <<lock, reply, verdict, counter, ended, bridge, held>>

Kind(t) ==
  \/ AsksOf(t) \/ EndsOf(t) \/ StartsOf(t) \/ SendsOf(t) \/ ServesOf(t)
  \/ ReceivesOf(t) \/ RetriesOf(t) \/ NumbersOf(t) \/ RegistersOf(t)

ThreadsTyped ==
  /\ lock \in Threads \cup {NoThread}
  /\ pc \in [Threads -> Labels]
  /\ call \in [Threads -> CallRecord]
  /\ reply \in ReplyRecord
  /\ verdict \in [Threads -> VerdictRecord]

LEMMA AsideTyped == TypeOK /\ UNCHANGED threads => ThreadsTyped' /\ Aside
  BY DEF TypeOK, threads, ThreadsTyped, Aside

LEMMA RaisedTyped ==
  ASSUME TypeOK, NEW t \in Threads, NEW i \in Ids, UNCHANGED <<pc, call, lock, reply>>,
         verdict' = [verdict EXCEPT ![t] = [answer |-> "raised", id |-> i]]
  PROVE  ThreadsTyped' /\ Aside
<1> DEFINE v == [answer |-> "raised", id |-> i]
<1>1. v \in VerdictRecord /\ v.answer = "raised"
  BY DEF VerdictRecord
<1>2. verdict' = [verdict EXCEPT ![t] = v]
  OBVIOUS
<1> HIDE DEF v
<1>3. QED
  BY <1>1, <1>2 DEF TypeOK, ThreadsTyped, Aside

\* Beginning a call, up to the wait for the lock.
LEMMA BeginKinds ==
  ASSUME IInv, NEW t \in Threads,
         \/ OpenCall(t) \/ EnumerateCall(t) \/ StateLookUp(t)
         \/ \E i \in Ids : UseCall(t, i) \/ CloseCall(t, i) \/ StateCall(t, i)
  PROVE  ThreadsTyped' /\ (Aside \/ AsksOf(t) \/ EndsOf(t))
<1>0. TypeOK /\ ThreadsTyped /\ CallFits(t)
  BY DEF IInv, TypeOK, ThreadsTyped, CallsFit
\* Waiting for the lock with call c.
<1>1. ASSUME NEW c \in CallRecord, Ask(t, c), pc[t] \in {"idle", "state"},
             UNCHANGED <<lock, reply, verdict, bridge>>, c.attempt # 2,
             \/ /\ c.op \in {"open", "enumerate"}
                /\ Overlap \/ (c.op = "open" => \A u \in Threads : call[u].op # "open")
             \/ /\ c.op \in OnSession /\ c.id \in Ids /\ handles[c.id] # NoHandle
                /\ c.handle = handles[c.id]
      PROVE  ThreadsTyped' /\ AsksOf(t)
  <2>1. /\ pc'[t] = "lock" /\ call'[t] = c /\ call' \in [Threads -> CallRecord]
        /\ \A u \in Threads : u # t => pc'[u] = pc[u] /\ call'[u] = call[u]
    BY <1>0, <1>1, Asked
  <2>2. pc' \in [Threads -> Labels]
    BY <1>0, <1>1 DEF ThreadsTyped, Ask, Goto, Labels, Registering
  <2>3. QED
    BY <1>0, <1>1, <2>1, <2>2 DEF AsksOf, Others, ThreadsTyped
<1>2. CASE OpenCall(t)
  <2>1. /\ pc[t] = "idle" /\ UNCHANGED <<lock, reply, verdict, bridge>>
        /\ Ask(t, [NoCall EXCEPT !.op = "open", !.attempt = 1])
        /\ Overlap \/ \A u \in Threads : call[u].op # "open"
    BY <1>2 DEF OpenCall
  <2> DEFINE c == [NoCall EXCEPT !.op = "open", !.attempt = 1]
  <2>2. c \in CallRecord /\ c.attempt # 2 /\ c.op = "open"
    BY OpenRecord
  <2>3. Ask(t, c)
    BY <2>1
  <2> HIDE DEF c
  <2>4. QED
    BY <1>1, <2>1, <2>2, <2>3
<1>3. CASE EnumerateCall(t)
  <2>1. /\ pc[t] = "idle" /\ UNCHANGED <<lock, reply, verdict, bridge>>
        /\ Ask(t, [NoCall EXCEPT !.op = "enumerate"])
    BY <1>3 DEF EnumerateCall
  <2> DEFINE c == [NoCall EXCEPT !.op = "enumerate"]
  <2>2. c \in CallRecord /\ c.attempt # 2 /\ c.op = "enumerate"
    BY OpenRecord
  <2>3. Ask(t, c)
    BY <2>1
  <2> HIDE DEF c
  <2>4. QED
    BY <1>1, <2>1, <2>2, <2>3
<1>4. ASSUME NEW i \in Ids, NEW op \in OnSession, Ask(t, WithHandle(op, i)), handles[i] # NoHandle,
             pc[t] \in {"idle", "state"}, UNCHANGED <<lock, reply, verdict, bridge>>
      PROVE  ThreadsTyped' /\ AsksOf(t)
  BY <1>0, <1>1, <1>4, SessionRecord
<1>5. ASSUME NEW i \in Ids, UseCall(t, i) PROVE ThreadsTyped' /\ (Aside \/ AsksOf(t))
  <2>1. pc[t] = "idle" /\ UNCHANGED <<lock, reply, bridge>>
    BY <1>5 DEF UseCall
  <2>2. CASE handles[i] # NoHandle
    BY <1>4, <1>5, <2>1, <2>2 DEF UseCall, OnSession
  <2>3. CASE handles[i] = NoHandle
    BY <1>0, <1>5, <2>1, <2>3, RaisedTyped DEF UseCall
  <2>4. QED
    BY <2>2, <2>3
<1>6. ASSUME NEW i \in Ids, CloseCall(t, i) PROVE ThreadsTyped' /\ (Aside \/ AsksOf(t))
  <2>1. pc[t] = "idle" /\ UNCHANGED <<lock, reply, verdict, bridge>>
    BY <1>6 DEF CloseCall
  <2>2. CASE handles[i] # NoHandle
    BY <1>4, <1>6, <2>1, <2>2 DEF CloseCall, OnSession
  <2>3. CASE handles[i] = NoHandle
    BY <1>0, <1>6, <2>1, <2>3, AsideTyped DEF CloseCall, threads
  <2>4. QED
    BY <2>2, <2>3
<1>7. ASSUME NEW i \in Ids, StateCall(t, i) PROVE ThreadsTyped' /\ (Aside \/ AsksOf(t))
  <2>1. pc[t] = "idle" /\ UNCHANGED <<lock, reply, bridge>> /\ given[i] # NoSession
    BY <1>7 DEF StateCall
  <2>2. CASE Refreshed = "crashed"
    BY <1>0, <1>7, <2>1, <2>2, RaisedTyped DEF StateCall
  <2>3. CASE Refreshed # "crashed"
    <3>1. Goto(t, "state") /\ call' = [call EXCEPT ![t] = Id(i)] /\ UNCHANGED verdict
      BY <1>7, <2>3 DEF StateCall
    <3>2. Id(i) \in CallRecord /\ Id(i).op = "none" /\ Id(i).id = i /\ Id(i).attempt = 0
      BY <1>0, SessionRecord DEF OnSession
    <3>3. /\ pc'[t] = "state" /\ \A u \in Threads : u # t => pc'[u] = pc[u]
      BY <1>0, <3>1, Moved
    <3>4. /\ call'[t] = Id(i) /\ call' \in [Threads -> CallRecord]
          /\ \A u \in Threads : u # t => call'[u] = call[u]
      BY <1>0, <3>1, <3>2 DEF ThreadsTyped
    <3>5. pc' \in [Threads -> Labels]
      BY <1>0, <3>1 DEF ThreadsTyped, Goto, Labels, Registering
    <3>6. QED
      BY <1>0, <2>1, <3>1, <3>2, <3>3, <3>4, <3>5 DEF AsksOf, Others, ThreadsTyped
  <2>4. QED
    BY <2>2, <2>3
<1>8. CASE StateLookUp(t)
  <2> DEFINE i == call[t].id
  <2>1. pc[t] = "state" /\ UNCHANGED <<lock, reply, bridge>>
    BY <1>8 DEF StateLookUp
  <2>2. i \in Ids /\ Pending(t) = NoSession /\ call[t].op # "close"
    <3>1. i \in Ids /\ call[t].op = "none"
      BY <1>0, <2>1 DEF CallFits
    <3>2. QED
      BY <2>1, <3>1 DEF Pending, Registering
  <2>3. CASE handles[i] = NoHandle
    <3>1. End(t, "closed")
      BY <1>8, <2>3 DEF StateLookUp
    <3>2. /\ pc'[t] = "idle" /\ call'[t] = NoCall /\ Others(t)
          /\ call' \in [Threads -> CallRecord] /\ verdict' \in [Threads -> VerdictRecord]
      BY <1>0, <3>1, Ended
    <3>3. verdict'[t].answer = "closed"
      BY <1>0, <3>1 DEF End, ThreadsTyped
    <3>4. pc' \in [Threads -> Labels]
      BY <1>0, <3>1 DEF ThreadsTyped, End, Goto, Labels, Registering
    <3>5. QED
      BY <1>0, <2>1, <2>2, <3>2, <3>3, <3>4 DEF EndsOf, ThreadsTyped
  <2>4. CASE handles[i] # NoHandle
    BY <1>4, <1>8, <2>1, <2>2, <2>4 DEF StateLookUp, OnSession
  <2>5. QED
    BY <2>3, <2>4
<1>9. QED
  BY <1>2, <1>3, <1>5, <1>6, <1>7, <1>8

\* Starting and ending the process.
LEMMA StartKinds ==
  ASSUME IInv, NEW t \in Threads, Start(t) \/ Started(t) \/ StartFails(t)
  PROVE  ThreadsTyped' /\ StartsOf(t)
<1>0. TypeOK /\ ThreadsTyped /\ CallFits(t)
  BY DEF IInv, TypeOK, ThreadsTyped, CallsFit
<1>1. CASE Start(t)
  <2>1. /\ pc[t] = "idle" /\ lock = NoThread /\ lock' = t /\ Goto(t, "starting")
        /\ state # "ready" /\ UNCHANGED <<bridge, call, reply, verdict>>
    BY <1>1 DEF Start
  <2>2. pc'[t] = "starting" /\ \A u \in Threads : u # t => pc'[u] = pc[u]
    BY <1>0, <2>1, Moved
  <2>3. pc' \in [Threads -> Labels]
    BY <1>0, <2>1 DEF ThreadsTyped, Goto, Labels, Registering
  <2>4. QED
    BY <1>0, <2>1, <2>2, <2>3 DEF ThreadsTyped, StartsOf, Others
<1>2. CASE Started(t) \/ StartFails(t)
  <2>1. /\ pc[t] = "starting" /\ lock' = NoThread /\ Goto(t, "idle")
        /\ UNCHANGED <<call, reply, verdict>>
    BY <1>2 DEF Started, StartFails
  <2>2. pc'[t] = "idle" /\ \A u \in Threads : u # t => pc'[u] = pc[u]
    BY <1>0, <2>1, Moved
  <2>3. pc' \in [Threads -> Labels]
    BY <1>0, <2>1 DEF ThreadsTyped, Goto, Labels, Registering
  <2>4. QED
    BY <1>0, <2>1, <2>2, <2>3 DEF ThreadsTyped, StartsOf, Others
<1>3. QED
  BY <1>1, <1>2

\* Taking the lock, or finding that there is no process.
LEMMA SendKinds ==
  ASSUME IInv, NEW t \in Threads, Send(t)
  PROVE  ThreadsTyped' /\ (SendsOf(t) \/ EndsOf(t))
<1>0. TypeOK /\ ThreadsTyped /\ CallFits(t)
  BY DEF IInv, TypeOK, ThreadsTyped, CallsFit
<1>1. pc[t] = "lock" /\ lock = NoThread /\ UNCHANGED <<bridge, reply>>
  BY DEF Send
<1>2. CASE lock' = t /\ Goto(t, "sent") /\ UNCHANGED <<call, verdict>>
  <2>1. pc'[t] = "sent" /\ \A u \in Threads : u # t => pc'[u] = pc[u]
    BY <1>0, <1>2, Moved
  <2>2. pc' \in [Threads -> Labels]
    BY <1>0, <1>2 DEF ThreadsTyped, Goto, Labels, Registering
  <2>3. QED
    BY <1>0, <1>1, <1>2, <2>1, <2>2 DEF ThreadsTyped, SendsOf, Others
<1>3. CASE End(t, "raised") /\ UNCHANGED lock /\ host # "running"
  <2>1. /\ pc'[t] = "idle" /\ call'[t] = NoCall /\ Others(t)
        /\ call' \in [Threads -> CallRecord] /\ verdict' \in [Threads -> VerdictRecord]
    BY <1>0, <1>3, Ended
  <2>2. verdict'[t].answer = "raised"
    BY <1>0, <1>3 DEF End, ThreadsTyped
  <2>3. pc' \in [Threads -> Labels]
    BY <1>0, <1>3 DEF ThreadsTyped, End, Goto, Labels, Registering
  <2>4. ~initialized
    BY <1>0, <1>3 DEF TypeOK
  <2>5. QED
    BY <1>0, <1>1, <1>3, <2>1, <2>2, <2>3, <2>4 DEF EndsOf, ThreadsTyped
<1>4. QED
  BY <1>2, <1>3 DEF Send

\* The answer of the process.
LEMMA ServeKinds ==
  ASSUME IInv, NEW t \in Threads, Serve(t)
  PROVE  ThreadsTyped' /\ ServesOf(t)
<1>0. TypeOK /\ ThreadsTyped /\ CallFits(t) /\ TableInv
  BY DEF IInv, TypeOK, ThreadsTyped, CallsFit
<1>1. pc[t] = "sent" /\ UNCHANGED <<lock, call, verdict>>
  BY DEF Serve
<1>2. opens \in 0..MaxOpens /\ MaxOpens \in Nat
  BY <1>0, TableFacts, BoundsAssumption
<1>3. Reached(t) \in Ids \cup {NoSession}
  <2>1. connected \subseteq Ids
    BY <1>0, <1>2, TableFacts DEF Ids
  <2>2. QED
    BY <1>0, <2>1, TableFacts DEF Reached
<1>4. ASSUME NEW r \in ReplyRecord, Answer(t, r)
      PROVE  ThreadsTyped' /\ pc'[t] = "answered" /\ Others(t) /\ reply' = r
  <2>1. Goto(t, "answered") /\ reply' = r
    BY <1>4 DEF Answer
  <2>2. pc'[t] = "answered" /\ \A u \in Threads : u # t => pc'[u] = pc[u]
    BY <1>0, <2>1, Moved
  <2>3. pc' \in [Threads -> Labels]
    BY <1>0, <2>1 DEF ThreadsTyped, Goto, Labels, Registering
  <2>4. QED
    BY <1>0, <1>1, <1>4, <2>1, <2>2, <2>3 DEF ThreadsTyped, Others
<1> DEFINE ok == [NoReply EXCEPT !.status = "ok"]
           reached == [NoReply EXCEPT !.status = "ok", !.session = Reached(t)]
           error == [NoReply EXCEPT !.status = "error"]
           timeout == [NoReply EXCEPT !.status = "connect_timeout"]
<1>5. /\ ok \in ReplyRecord /\ ok.status = "ok" /\ ok.session = NoSession
      /\ error \in ReplyRecord /\ error.status = "error" /\ error.session = NoSession
      /\ timeout \in ReplyRecord /\ timeout.status = "connect_timeout" /\ timeout.session = NoSession
  BY CallRecords DEF NoReply, ReplyRecord
<1>6. reached \in ReplyRecord /\ reached.status = "ok" /\ reached.session = Reached(t)
  BY <1>3, CallRecords DEF NoReply, ReplyRecord
<1> HIDE DEF ok, reached, error, timeout
<1>7. CASE call[t].op = "enumerate" /\ Bridge!Enumerate /\ Answer(t, ok)
  BY <1>1, <1>4, <1>5, <1>7 DEF ServesOf
<1>8. CASE call[t].op \in {"use", "state"} /\ Answer(t, reached) /\ UNCHANGED bridge
  BY <1>1, <1>4, <1>6, <1>8 DEF ServesOf
<1>9. CASE /\ call[t].op = "close" /\ Answer(t, reached)
           /\ IF Reached(t) # NoSession THEN Bridge!CloseSession(call[t].handle) ELSE UNCHANGED bridge
  BY <1>1, <1>4, <1>6, <1>9 DEF ServesOf
<1>10. CASE call[t].op = "open" /\ Answer(t, error) /\ UNCHANGED bridge
  BY <1>1, <1>4, <1>5, <1>10 DEF ServesOf
<1>11. CASE /\ call[t].op = "open" /\ held /\ Camera \in keys /\ Answer(t, timeout)
            /\ held' = FALSE /\ UNCHANGED bridge
  BY <1>1, <1>4, <1>5, <1>11 DEF ServesOf
<1> DEFINE g == CHOOSE h \in grants' : h.session = opens'
           opened == [status |-> "ok", session |-> opens', handle |-> g.handle]
<1>12. CASE /\ call[t].op = "open" /\ ~held /\ Bridge!OpenSession(Camera) /\ Answer(t, opened)
  <2>1. opens' \in Ids /\ \E h \in grants' : h.session = opens'
    BY <1>0, <1>12, OpenFacts
  <2>2. g \in grants' /\ g.session = opens'
    BY <2>1
  <2>3. TableInv'
    BY <1>0, <1>12, TableKept DEF TableStep
  <2>4. grants' \subseteq Table!Grant
    BY <2>3 DEF TableInv, Table!TableInv, Table!IInv, Table!TypeOK
  <2> HIDE DEF g
  <2>5. g.handle \in Handle
    BY <2>2, <2>4 DEF Table!Grant, Table!IssuedHandle, Handle, Bridge!IssuedHandle
  <2>6. opened \in ReplyRecord /\ opened.status = "ok" /\ opened.session = opens'
        /\ opened.handle = g.handle
    BY <2>1, <2>5 DEF ReplyRecord
  <2> HIDE DEF opened
  <2>7. ThreadsTyped' /\ pc'[t] = "answered" /\ Others(t) /\ reply' = opened
    BY <1>4, <1>12, <2>6
  <2>8. \E h \in grants' : h.handle = reply'.handle /\ h.session = opens'
    BY <2>2, <2>6, <2>7
  <2>9. QED
    BY <1>1, <1>12, <2>6, <2>7, <2>8 DEF ServesOf
<1>13. QED
  BY <1>7, <1>8, <1>9, <1>10, <1>11, <1>12 DEF Serve, ok, reached, error, timeout

\* The answer is read, or lost with the process.
LEMMA ReceiveKinds ==
  ASSUME IInv, NEW t \in Threads, Receive(t) \/ LoseAnswer(t)
  PROVE  ThreadsTyped' /\ (EndsOf(t) \/ ReceivesOf(t) \/ RetriesOf(t))
<1>0. TypeOK /\ ThreadsTyped /\ CallFits(t)
  BY DEF IInv, TypeOK, ThreadsTyped, CallsFit
<1>1. lock' = NoThread /\ reply' = NoReply /\ NoReply \in ReplyRecord /\ UNCHANGED bridge
  BY CallRecords DEF Receive, LoseAnswer, Released
<1>2. reply \in ReplyRecord /\ call[t] \in CallRecord
  BY <1>0 DEF ThreadsTyped
<1>3. ASSUME NEW a \in {"ok", "raised", "closed", "error", "connect_timeout"}, End(t, a)
      PROVE  /\ ThreadsTyped' /\ pc'[t] = "idle" /\ call'[t] = NoCall /\ Others(t)
             /\ verdict'[t].answer = a
  <2>1. /\ pc'[t] = "idle" /\ call'[t] = NoCall /\ Others(t)
        /\ call' \in [Threads -> CallRecord] /\ verdict' \in [Threads -> VerdictRecord]
    BY <1>0, <1>3, Ended
  <2>2. verdict'[t].answer = a
    BY <1>0, <1>3 DEF End, ThreadsTyped
  <2>3. pc' \in [Threads -> Labels]
    BY <1>0, <1>3 DEF ThreadsTyped, End, Goto, Labels, Registering
  <2>4. QED
    BY <1>0, <1>1, <2>1, <2>2, <2>3 DEF ThreadsTyped
<1>4. CASE LoseAnswer(t)
  <2>1. pc[t] \in {"sent", "answered"} /\ host # "running" /\ End(t, "raised")
    BY <1>4 DEF LoseAnswer
  <2>2. ~initialized
    BY <1>0, <2>1 DEF TypeOK
  <2>3. QED
    BY <1>1, <1>3, <2>1, <2>2 DEF EndsOf
<1>5. CASE Receive(t) /\ Opened(t)
  <2>1. /\ pc[t] = "answered" /\ Goto(t, "register") /\ UNCHANGED verdict
        /\ call' = [call EXCEPT ![t].handle = reply.handle, ![t].session = reply.session]
    BY <1>5 DEF Receive
  <2> DEFINE c == [call[t] EXCEPT !.handle = reply.handle, !.session = reply.session]
  <2>2. /\ c \in CallRecord /\ c.op = call[t].op /\ c.handle = reply.handle
        /\ c.session = reply.session /\ c.attempt = call[t].attempt
    BY <1>2 DEF CallRecord, ReplyRecord, NoSession
  <2>3. call' = [call EXCEPT ![t] = c]
    BY <1>0, <2>1 DEF ThreadsTyped
  <2> HIDE DEF c
  <2>4. /\ call'[t] = c /\ call' \in [Threads -> CallRecord]
        /\ \A u \in Threads : u # t => call'[u] = call[u]
    BY <1>0, <2>2, <2>3 DEF ThreadsTyped
  <2>5. pc'[t] = "register" /\ \A u \in Threads : u # t => pc'[u] = pc[u]
    BY <1>0, <2>1, Moved
  <2>6. pc' \in [Threads -> Labels]
    BY <1>0, <2>1 DEF ThreadsTyped, Goto, Labels, Registering
  <2>7. QED
    BY <1>0, <1>1, <1>5, <2>1, <2>2, <2>4, <2>5, <2>6 DEF ThreadsTyped, ReceivesOf, Others, Opened
<1>6. CASE Receive(t) /\ ~Opened(t) /\ reply.status = "connect_timeout" /\ call[t].attempt < Attempts
  <2>1. pc[t] = "answered" /\ UNCHANGED verdict /\ Ask(t, [call[t] EXCEPT !.attempt = @ + 1])
    BY <1>6 DEF Receive
  <2> DEFINE c == [call[t] EXCEPT !.attempt = @ + 1]
  <2>2. call[t].attempt + 1 \in 0..Attempts
    BY <1>2, <1>6 DEF CallRecord, Attempts
  <2>3. c \in CallRecord /\ c.op = call[t].op
    BY <1>2, <2>2 DEF CallRecord
  <2> HIDE DEF c
  <2>4. Ask(t, c)
    BY <2>1 DEF c
  <2>5. /\ pc'[t] = "lock" /\ call'[t] = c /\ call' \in [Threads -> CallRecord]
        /\ \A u \in Threads : u # t => pc'[u] = pc[u] /\ call'[u] = call[u]
    BY <1>0, <2>3, <2>4, Asked
  <2>6. pc' \in [Threads -> Labels]
    BY <1>0, <2>4 DEF ThreadsTyped, Ask, Goto, Labels, Registering
  <2>7. call[t].op = "open" /\ Pending(t) = NoSession
    BY <1>0, <1>6, <2>1 DEF CallFits, Pending, Registering
  <2>8. QED
    BY <1>0, <1>1, <1>6, <2>1, <2>3, <2>5, <2>6, <2>7 DEF ThreadsTyped, RetriesOf, Others
<1>7. CASE Receive(t) /\ ~Opened(t) /\ ~(reply.status = "connect_timeout" /\ call[t].attempt < Attempts)
  <2>1. pc[t] = "answered" /\ End(t, Outcome(t))
    BY <1>7 DEF Receive
  <2>2. Pending(t) = NoSession
    BY <1>0, <1>7, <2>1 DEF CallFits, Pending, Registering, Opened
  <2>3. Outcome(t) \in {"none", "ok", "error", "connect_timeout", "closed"}
    BY <1>2 DEF Outcome, ReplyRecord
  <2>4. Outcome(t) = "connect_timeout" => reply.status = "connect_timeout" /\ call[t].attempt = 2
    BY <1>2, <1>7 DEF Outcome, CallRecord, Attempts
  <2>5. Outcome(t) # "none"
    BY <1>0, <2>1 DEF Outcome, CallFits
  <2>6. QED
    BY <1>1, <1>3, <2>1, <2>2, <2>3, <2>4, <2>5 DEF EndsOf
<1>8. QED
  BY <1>4, <1>5, <1>6, <1>7

\* Numbering the new session: the call goes on with another id.
LEMMA NumberKinds ==
  ASSUME IInv, NEW t \in Threads, ReadCounter(t) \/ WriteCounter(t) \/ MakeId(t)
  PROVE  ThreadsTyped' /\ NumbersOf(t)
<1>0. TypeOK /\ ThreadsTyped /\ CallFits(t) /\ call[t] \in CallRecord /\ counter \in Ids \cup {0}
  BY BoundsAssumption DEF IInv, TypeOK, ThreadsTyped, CallsFit, Ids
<1>1. UNCHANGED <<lock, reply, verdict, handles, given, ended, bridge, held>>
  BY DEF ReadCounter, WriteCounter, MakeId, ids
<1>2. ASSUME NEW label \in Labels, Goto(t, label)
      PROVE  /\ pc'[t] = label /\ pc' \in [Threads -> Labels]
             /\ \A u \in Threads : u # t => pc'[u] = pc[u]
  BY <1>0, <1>2 DEF ThreadsTyped, Goto
<1> DEFINE c == [call[t] EXCEPT !.id = counter]
<1>3. /\ c \in CallRecord /\ c.id = counter /\ c.op = call[t].op /\ c.handle = call[t].handle
      /\ c.session = call[t].session /\ c.attempt = call[t].attempt
  BY <1>0 DEF CallRecord
<1>4. CASE ReadCounter(t) \/ MakeId(t)
  <2>1. call' = [call EXCEPT ![t] = c] /\ counter' = counter
    BY <1>0, <1>4 DEF ReadCounter, MakeId, ids, ThreadsTyped
  <2> HIDE DEF c
  <2>2. /\ call'[t] = c /\ call' \in [Threads -> CallRecord]
        /\ \A u \in Threads : u # t => call'[u] = call[u]
    BY <1>0, <1>3, <2>1 DEF ThreadsTyped
  <2>3. /\ pc' \in [Threads -> Labels] /\ \A u \in Threads : u # t => pc'[u] = pc[u]
        /\ \/ pc[t] = "register" /\ pc'[t] = "count"
           \/ pc[t] = "name" /\ pc'[t] = "store"
    BY <1>2, <1>4 DEF ReadCounter, MakeId, Labels, Registering
  <2>4. QED
    BY <1>0, <1>1, <1>3, <2>1, <2>2, <2>3 DEF ThreadsTyped, NumbersOf, Others
<1>5. CASE WriteCounter(t)
  <2>1. /\ pc[t] = "count" /\ counter' = call[t].id + 1 /\ counter' \in Ids /\ call' = call
        /\ Goto(t, "name")
    BY <1>5 DEF WriteCounter, Incremented
  <2>2. /\ pc' \in [Threads -> Labels] /\ \A u \in Threads : u # t => pc'[u] = pc[u]
        /\ pc'[t] = "name"
    BY <1>2, <2>1 DEF Labels, Registering
  <2>3. QED
    BY <1>0, <1>1, <2>1, <2>2 DEF ThreadsTyped, NumbersOf, Others
<1>6. QED
  BY <1>4, <1>5

LEMMA RegisterKinds ==
  ASSUME IInv, NEW t \in Threads, Register(t)
  PROVE  ThreadsTyped' /\ RegistersOf(t)
<1>0. TypeOK /\ ThreadsTyped /\ CallFits(t)
  BY DEF IInv, TypeOK, ThreadsTyped, CallsFit
<1>1. pc[t] = "store"
  BY DEF Register
<1> DEFINE id == call[t].id
<1>2. id \in Ids /\ call[t].handle \in Handle /\ call[t].session \in Ids \cup {NoSession}
  BY <1>0, <1>1 DEF ThreadsTyped, CallFits, CallRecord
<1>3. /\ handles' = [handles EXCEPT ![id] = call[t].handle]
      /\ given' = [given EXCEPT ![id] = IF @ = NoSession THEN call[t].session ELSE @]
      /\ call' = [call EXCEPT ![t] = NoCall]
      /\ Goto(t, "idle") /\ UNCHANGED <<bridge, lock, reply, verdict, counter, ended, held>>
  BY DEF Register
<1>4. /\ handles \in [Ids -> Handle] /\ given \in [Ids -> Ids \cup {NoSession}]
  BY <1>0 DEF TypeOK
<1>5. /\ handles' \in [Ids -> Handle] /\ given' \in [Ids -> Ids \cup {NoSession}]
      /\ \A i \in Ids :
           /\ handles'[i] = IF i = id THEN call[t].handle ELSE handles[i]
           /\ given'[i] = IF i = id /\ given[i] = NoSession THEN call[t].session ELSE given[i]
  <2> HIDE DEF id
  <2>1. QED
    BY <1>2, <1>3, <1>4
<1>6. /\ call'[t] = NoCall /\ call' \in [Threads -> CallRecord]
      /\ \A u \in Threads : u # t => call'[u] = call[u]
  BY <1>0, <1>3, CallRecords DEF ThreadsTyped
<1>7. pc'[t] = "idle" /\ \A u \in Threads : u # t => pc'[u] = pc[u]
  BY <1>0, <1>3, Moved
<1>8. pc' \in [Threads -> Labels]
  BY <1>0, <1>3 DEF ThreadsTyped, Goto, Labels, Registering
<1>9. ThreadsTyped'
  BY <1>0, <1>3, <1>6, <1>8 DEF ThreadsTyped
<1>10. QED
  BY <1>1, <1>2, <1>3, <1>5, <1>6, <1>7, <1>9 DEF RegistersOf, Others

\* Each step leaves the threads aside or is one of these.
LEMMA Kinds ==
  ASSUME IInv, [Next]_vars
  PROVE  ThreadsTyped' /\ (Aside \/ \E t \in Threads : Kind(t))
<1>0. TypeOK
  BY DEF IInv
<1>1. CASE Crash \/ Reaped \/ UNCHANGED vars \/ \E t \in Threads : NoSuchProgram(t) \/ Shutdown(t)
  <2>1. UNCHANGED threads
    BY <1>1 DEF Crash, Reaped, vars, NoSuchProgram, Shutdown
  <2>2. QED
    BY <1>0, <2>1, AsideTyped
<1>2. ASSUME NEW t \in Threads,
             \/ Start(t) \/ OpenCall(t) \/ EnumerateCall(t)
             \/ \E i \in Ids : UseCall(t, i) \/ CloseCall(t, i) \/ StateCall(t, i)
             \/ Send(t) \/ ThreadStep(t)
      PROVE  ThreadsTyped' /\ (Aside \/ Kind(t))
  BY <1>2, BeginKinds, StartKinds, SendKinds, ServeKinds, ReceiveKinds, NumberKinds,
     RegisterKinds
     DEF ThreadStep, Kind
<1>3. QED
  BY <1>1, <1>2 DEF Next

-----------------------------------------------------------------------------
(* What the steps do to the table and to the ids.                          *)

LEMMA GoneOrSame == ASSUME BridgeGone PROVE UNCHANGED bridge \/ (initialized /\ Bridge!Shutdown)
  BY DEF BridgeGone

\* Who does what to it.
LEMMA TableUsers ==
  ASSUME IInv, [Next]_vars
  PROVE  \/ UNCHANGED bridge
         \/ initialized /\ Bridge!Shutdown
         \/ Bridge!InitBridge /\ UNCHANGED held
         \/ \E t \in Threads : ServesOf(t)
<1>1. CASE Crash \/ \E t \in Threads : Shutdown(t)
  BY <1>1, GoneOrSame DEF Crash, Abandoned, Shutdown
<1>2. CASE \E t \in Threads : Started(t)
  BY <1>2 DEF Started
<1>3. CASE \E t \in Threads : Serve(t)
  BY <1>3, ServeKinds
<1>4. CASE /\ ~Crash /\ ~\E t \in Threads : Shutdown(t) \/ Started(t) \/ Serve(t)
  BY ZenonT(60), <1>4 DEF Next, ThreadStep, Reaped, vars, Start, NoSuchProgram, OpenCall, EnumerateCall, UseCall,
              CloseCall, StateCall, Send, StartFails, StateLookUp, Receive, LoseAnswer, ReadCounter, WriteCounter, MakeId, Register
<1>5. QED
  BY <1>1, <1>2, <1>3, <1>4

LEMMA TableSteps ==
  ASSUME IInv, [Next]_vars
  PROVE  TableStep
<1>1. ASSUME NEW t \in Threads, ServesOf(t) PROVE TableStep
  <2>1. call[t].op = "close" => \E g \in grants : g.handle = call[t].handle
    BY DEF IInv, CallsFit, CallFits, Issued, OnSession
  <2>2. QED
    BY <1>1, <2>1 DEF ServesOf, TableStep
<1>2. QED
  BY <1>1, TableUsers DEF TableStep

\* Opens and grants are only added.
LEMMA TableGrows ==
  ASSUME IInv, [Next]_vars
  PROVE  TableInv' /\ grants \subseteq grants' /\ opens' >= opens /\ opens' \in 0..MaxOpens
         /\ epoch' >= epoch /\ epoch' \in 0..MaxStarts
<1>0. TableInv
  BY DEF IInv
<1>1. TableInv'
  BY <1>0, TableSteps, TableKept
<1>2. opens' \in 0..MaxOpens /\ epoch' \in 0..MaxStarts
  BY <1>1 DEF TableInv, Table!TableInv, Table!IInv, Table!TypeOK
<1>3. opens \in 0..MaxOpens /\ epoch \in 0..MaxStarts
  BY <1>0 DEF TableInv, Table!TableInv, Table!IInv, Table!TypeOK
<1>4. grants \subseteq grants' /\ opens' >= opens /\ epoch' >= epoch
  <2>1. CASE UNCHANGED bridge \/ Bridge!InitBridge \/ Bridge!Shutdown \/ Bridge!Enumerate
    BY <1>3, <2>1 DEF bridge, Bridge!InitBridge, Bridge!Shutdown, Bridge!Enumerate
  <2>2. CASE Bridge!OpenSession(Camera)
    BY <1>0, <1>3, <2>2, OpenFacts
  <2>3. CASE \E g \in grants : Bridge!CloseSession(g.handle)
    BY <1>0, <1>3, <2>3, CloseFacts
  <2>4. QED
    BY <2>1, <2>2, <2>3, TableSteps DEF TableStep
<1>5. QED
  BY <1>1, <1>2, <1>3, <1>4

IdsKept ==
  /\ counter' = counter \/ \E t \in Threads : NumbersOf(t)
  /\ given' = given
  /\ handles' \in [Ids -> Handle]
  /\ \A i \in Ids : handles'[i] \in {handles[i], NoHandle}

LEMMA IdsSteps ==
  ASSUME IInv, [Next]_vars
  PROVE  IdsKept \/ \E t \in Threads : RegistersOf(t)
<1>0. TypeOK /\ handles \in [Ids -> Handle]
  BY DEF IInv, TypeOK
<1>1. ASSUME NEW t \in Threads, Register(t) PROVE \E u \in Threads : RegistersOf(u)
  BY <1>1, RegisterKinds
<1>2. CASE UNCHANGED <<counter, handles, given>>
  BY <1>0, <1>2 DEF IdsKept
<1>3. CASE handles' = [i \in Ids |-> NoHandle] /\ UNCHANGED <<counter, given>>
  BY <1>3, CallRecords DEF IdsKept
<1>4. ASSUME NEW t \in Threads, NEW i \in Ids, CloseCall(t, i) PROVE IdsKept
  BY <1>0, <1>4, CallRecords DEF CloseCall, IdsKept
<1>5. CASE \E t \in Threads : Shutdown(t) \/ StartFails(t) \/ LoseAnswer(t)
  BY <1>2, <1>3, <1>5 DEF Shutdown, StartFails, LoseAnswer, Cleanup
<1>6. ASSUME NEW t \in Threads, Send(t) PROVE IdsKept \/ \E u \in Threads : RegistersOf(u)
  <2>1. UNCHANGED ids \/ Cleanup
    BY <1>6 DEF Send
  <2>2. QED
    BY <1>2, <1>3, <2>1 DEF Cleanup, ids
<1>7. CASE \/ Crash \/ Reaped \/ UNCHANGED vars
           \/ \E t \in Threads :
                \/ Start(t) \/ NoSuchProgram(t) \/ OpenCall(t) \/ EnumerateCall(t)
                \/ \E i \in Ids : UseCall(t, i) \/ StateCall(t, i)
                \/ Started(t) \/ StateLookUp(t) \/ Serve(t) \/ Receive(t)
  <2>1. UNCHANGED ids
    BY <1>7 DEF Crash, Reaped, vars, Start, NoSuchProgram, OpenCall, EnumerateCall, UseCall, StateCall,
                Started, StateLookUp, Serve, Receive
  <2>2. QED
    BY <1>2, <2>1 DEF ids
<1>8. ASSUME NEW t \in Threads, ReadCounter(t) \/ WriteCounter(t) \/ MakeId(t) PROVE IdsKept
  BY <1>0, <1>8, NumberKinds DEF NumbersOf, IdsKept
<1>9. QED
  BY <1>1, <1>4, <1>5, <1>6, <1>7, <1>8 DEF Next, ThreadStep

\* An id is ended by the call that closes it or by a shutdown that drops its handle.
LEMMA EndedSteps ==
  ASSUME IInv, [Next]_vars, NEW i \in ended', i \notin ended
  PROVE  IdsKept /\ i \in Ids /\ given[i] # NoSession /\ handles'[i] = NoHandle
<1>0. TypeOK /\ handles \in [Ids -> Handle]
  BY DEF IInv, TypeOK
<1>1. ASSUME NEW t \in Threads, Shutdown(t)
      PROVE  /\ i \in Ids /\ given[i] # NoSession /\ handles'[i] = NoHandle
             /\ \A u \in Threads : ~RegistersOf(u)
  <2>1. pc' = pc
    BY <1>1 DEF Shutdown, threads
  <2>2. QED
    BY <1>1, <2>1 DEF Shutdown, RegistersOf
<1>2. ASSUME NEW t \in Threads, NEW j \in Ids, CloseCall(t, j)
      PROVE  /\ i \in Ids /\ given[i] # NoSession /\ handles'[i] = NoHandle
             /\ \A u \in Threads : ~RegistersOf(u)
  <2>1. i = j /\ ended' # ended
    BY <1>2 DEF CloseCall
  <2>2. QED
    BY <1>0, <1>2, <2>1 DEF CloseCall, RegistersOf
<1>3. CASE /\ \A t \in Threads : ~Shutdown(t)
           /\ \A t \in Threads, j \in Ids : ~CloseCall(t, j)
  <2>1. ended' = ended
    BY ZenonT(60), <1>3
       DEF Next, ThreadStep, vars, ids, Crash, Reaped, Start, NoSuchProgram, OpenCall, EnumerateCall,
           UseCall, StateCall, Send, Started, StartFails, StateLookUp, Serve, Receive, LoseAnswer,
           ReadCounter, WriteCounter, MakeId, Register
  <2>2. QED
    BY <2>1
<1>4. QED
  BY <1>1, <1>2, <1>3, IdsSteps

-----------------------------------------------------------------------------
(* The invariant, part by part.                                            *)

LEMMA LockStep == IInv /\ [Next]_vars => LockInv'
<1> SUFFICES ASSUME IInv, [Next]_vars PROVE LockInv'
  OBVIOUS
<1>0. LockInv /\ TableInv /\ TypeOK /\ NoThread \notin Threads
  BY ThreadsAssumption DEF IInv
\* Who is at work under the lock keeps it.
<1>1. \A t \in Threads : pc'[t] \in {"starting", "sent", "answered"} => lock' = t
  <2>1. CASE Aside
    BY <1>0, <2>1 DEF Aside, LockInv
  <2>2. ASSUME NEW u \in Threads, Kind(u), NEW t \in Threads, pc'[t] \in {"starting", "sent", "answered"}
        PROVE  lock' = t
    <3>1. CASE t = u
      BY <1>0, <2>2, <3>1 DEF LockInv, Kind, AsksOf, EndsOf, StartsOf, SendsOf, ServesOf, ReceivesOf,
                              RetriesOf, RegistersOf, NumbersOf
    <3>2. CASE t # u
      <4>1. pc[t] = pc'[t]
        BY <2>2, <3>2 DEF Kind, AsksOf, EndsOf, StartsOf, SendsOf, ServesOf, ReceivesOf, RetriesOf,
                          RegistersOf, NumbersOf, Others
      <4>2. lock = t
        BY <1>0, <2>2, <4>1 DEF LockInv
      <4>3. pc[u] \notin {"starting", "sent", "answered"} /\ lock # NoThread
        BY <1>0, <3>2, <4>2 DEF LockInv
      <4>4. lock' = lock
        BY <2>2, <4>3 DEF Kind, AsksOf, EndsOf, StartsOf, SendsOf, ServesOf, ReceivesOf, RetriesOf,
                          RegistersOf, NumbersOf
      <4>5. QED
        BY <4>2, <4>4
    <3>3. QED
      BY <3>1, <3>2
  <2>3. QED
    BY <2>1, <2>2, Kinds
\* A vendor library runs in a ready backend only.
<1>2. initialized' => state' = "ready" /\ \A t \in Threads : pc'[t] # "starting"
  <2>1. ASSUME NEW t \in Threads, Started(t), NEW u \in Threads, pc'[u] = "starting" PROVE FALSE
    <3>1. lock' = NoThread
      BY <2>1 DEF Started
    <3>2. QED
      BY <1>0, <1>1, <2>1, <3>1
  <2>2. \A t \in Threads : Started(t) => state' = "ready"
    BY DEF Started
  <2>3. ASSUME \A t \in Threads : ~Started(t), initialized' PROVE initialized
    <3>1. UNCHANGED bridge => initialized' = initialized
      BY DEF bridge
    <3>2. ~Bridge!InitBridge \/ UNCHANGED bridge
      BY ZenonT(60), <2>3 DEF Next, ThreadStep, Crash, Abandoned, BridgeGone, Reaped, vars, Start, NoSuchProgram,
                  OpenCall, EnumerateCall, UseCall, CloseCall, StateCall, Send, StartFails, StateLookUp,
                  Receive, LoseAnswer, ReadCounter, WriteCounter, MakeId, Register, Shutdown, Serve, Bridge!InitBridge, Bridge!Shutdown,
                  Bridge!Enumerate, Bridge!OpenSession, Bridge!CloseSession
    <3>3. QED
      BY <1>0, <2>3, <3>1, <3>2, TableSteps, ShutdownFacts, OpenFacts, CloseFacts
         DEF TableStep, Bridge!Enumerate
  <2>4. ASSUME \A t \in Threads : ~Started(t), initialized' PROVE state' = "ready"
    <3>1. initialized /\ state = "ready" /\ host = "running"
      BY <1>0, <2>3, <2>4 DEF LockInv, TypeOK
    <3>2. ASSUME NEW t \in Threads, Shutdown(t) PROVE FALSE
      BY <1>0, <2>4, <3>1, <3>2, ShutdownFacts DEF Shutdown, BridgeGone
    <3>3. ASSUME NEW t \in Threads, StartFails(t) PROVE FALSE
      BY <1>0, <3>1, <3>3 DEF StartFails, LockInv
    <3>4. state' = state
      BY ZenonT(60), <2>4, <3>1, <3>2, <3>3 DEF Next, ThreadStep, Crash, Reaped, vars, Start, NoSuchProgram,
                  OpenCall, EnumerateCall, UseCall, CloseCall, StateCall, Refreshed, Send, StateLookUp,
                  Receive, LoseAnswer, ReadCounter, WriteCounter, MakeId, Register, Serve
    <3>5. QED
      BY <3>1, <3>4
  <2>5. ASSUME \A t \in Threads : ~Started(t), initialized', NEW u \in Threads, pc'[u] = "starting"
        PROVE  FALSE
    <3>1. initialized /\ state = "ready"
      BY <1>0, <2>3, <2>5 DEF LockInv
    <3>2. pc[u] # "starting"
      BY <1>0, <3>1 DEF LockInv
    <3>3. ~Aside
      BY <2>5, <3>2 DEF Aside
    <3>4. ASSUME NEW t \in Threads, Kind(t) PROVE FALSE
      BY <2>5, <3>1, <3>2, <3>4 DEF Kind, AsksOf, EndsOf, StartsOf, SendsOf, ServesOf, ReceivesOf,
                                    RetriesOf, RegistersOf, NumbersOf, Others
    <3>5. QED
      BY <3>3, <3>4, Kinds
  <2>6. QED
    BY <2>1, <2>2, <2>4, <2>5
<1>3. ~initialized' => keys' = {}
  <2>1. CASE UNCHANGED bridge
    BY <1>0, <2>1 DEF LockInv, bridge
  <2>2. CASE Bridge!InitBridge \/ Bridge!Enumerate
    BY <2>2 DEF Bridge!InitBridge, Bridge!Enumerate
  <2>3. CASE Bridge!Shutdown
    BY <1>0, <2>3, ShutdownFacts
  <2>4. CASE Bridge!OpenSession(Camera)
    BY <1>0, <2>4, OpenFacts
  <2>5. ASSUME NEW g \in grants, Bridge!CloseSession(g.handle) PROVE ~initialized' => keys' = {}
    BY <1>0, <2>5, CloseFacts DEF LockInv
  <2>6. QED
    BY <2>1, <2>2, <2>3, <2>4, <2>5, TableSteps DEF TableStep
<1>4. QED
  BY <1>1, <1>2, <1>3 DEF LockInv

\* A thread that is passed over by a step, or takes it.
Bystander(u) ==
  /\ pc'[u] = pc[u] /\ call'[u] = call[u]
  /\ pc[u] = "answered" => reply' = reply

LEMMA Bystanders ==
  ASSUME IInv, [Next]_vars, NEW u \in Threads
  PROVE  Bystander(u) \/ Kind(u)
<1>0. LockInv
  BY DEF IInv
<1>1. CASE Aside
  BY <1>1 DEF Aside, Bystander
<1>2. ASSUME NEW t \in Threads, Kind(t), t # u PROVE Bystander(u)
  <2>1. pc'[u] = pc[u] /\ call'[u] = call[u]
    BY <1>2 DEF Kind, AsksOf, EndsOf, StartsOf, SendsOf, ServesOf, ReceivesOf, RetriesOf, RegistersOf, NumbersOf,
                Others
  <2>2. pc[u] = "answered" => pc[t] \notin {"sent", "answered"}
    BY <1>0, <1>2 DEF LockInv
  <2>3. pc[u] = "answered" => reply' = reply
    BY <1>2, <2>2 DEF Kind, AsksOf, EndsOf, StartsOf, SendsOf, ServesOf, ReceivesOf, RetriesOf,
                      RegistersOf, NumbersOf
  <2>4. QED
    BY <2>1, <2>3 DEF Bystander
<1>3. QED
  BY <1>1, <1>2, Kinds

\* What was issued stays issued, and an id in use stays what it is.
LEMMA IssuesStay ==
  ASSUME IInv, [Next]_vars
  PROVE  /\ \A h, s : Issued(h, s) => \E g \in grants' : g.handle = h /\ g.session = s
         /\ \A h : (\E g \in grants : g.handle = h) => \E g \in grants' : g.handle = h
         /\ \A i \in Ids : given[i] # NoSession => given'[i] = given[i]
<1>1. \A i \in Ids : given[i] # NoSession => given'[i] = given[i]
  BY IdsSteps DEF IdsKept, RegistersOf
<1>2. grants \subseteq grants'
  BY TableGrows
<1>3. QED
  BY <1>1, <1>2 DEF Issued

\* The counter is written with the next number only.
LEMMA CounterSteps ==
  ASSUME IInv, [Next]_vars
  PROVE  counter' = counter \/ \E t \in Threads : NumbersOf(t) /\ pc[t] = "count"
<1>1. CASE \E t \in Threads : RegistersOf(t)
  BY <1>1 DEF RegistersOf
<1>2. CASE IdsKept
  BY <1>2 DEF IdsKept, NumbersOf
<1>3. QED
  BY <1>1, <1>2, IdsSteps

LEMMA CallsStep == IInv /\ [Next]_vars => CallsFit'
<1> SUFFICES ASSUME IInv, [Next]_vars, NEW t \in Threads PROVE CallFits(t)'
  BY DEF CallsFit
<1>0. CallFits(t) /\ TypeOK /\ counter \in 0..MaxOpens /\ MaxOpens \in Nat
  BY BoundsAssumption DEF IInv, CallsFit, TypeOK
<1>c. counter \in Ids => counter' \in Ids
  BY <1>0, CounterSteps DEF NumbersOf
<1>1. CASE Bystander(t)
  BY <1>0, <1>1, <1>c, IssuesStay DEF Bystander, CallFits, Issued, Opened, OnSession, Registering
<1>2. CASE AsksOf(t)
  <2>1. ASSUME NEW i \in Ids, handles[i] # NoHandle
        PROVE  given[i] # NoSession /\ \E g \in grants : g.handle = handles[i]
    BY <2>1 DEF IInv, IdsInv
  <2>3. CASE pc'[t] = "lock" /\ call'[t].op \in {"open", "enumerate"}
    BY <2>3 DEF CallFits, OnSession, Registering
  <2>4. CASE pc'[t] = "state" /\ call'[t].op = "none" /\ call'[t].id \in Ids /\ given[call'[t].id] # NoSession
    BY <2>4, IssuesStay DEF CallFits, OnSession, Registering
  <2>5. CASE /\ pc'[t] = "lock" /\ call'[t].op \in OnSession /\ call'[t].id \in Ids
             /\ handles[call'[t].id] # NoHandle /\ call'[t].handle = handles[call'[t].id]
    <3>1. given[call'[t].id] # NoSession /\ \E g \in grants : g.handle = call'[t].handle
      BY <2>1, <2>5
    <3>2. given'[call'[t].id] # NoSession /\ \E g \in grants' : g.handle = call'[t].handle
      BY <2>5, <3>1, IssuesStay
    <3>4. QED
      BY <2>5, <3>2 DEF CallFits, OnSession, Registering
  <2>6. QED
    BY <1>2, <2>3, <2>4, <2>5 DEF AsksOf
<1>3. CASE EndsOf(t) \/ RegistersOf(t)
  BY <1>3, CallRecords DEF EndsOf, RegistersOf, CallFits, OnSession, Registering
<1>4. CASE StartsOf(t) \/ SendsOf(t)
  BY <1>0, <1>4, IssuesStay DEF StartsOf, SendsOf, CallFits, Issued, OnSession, Registering
<1>5. CASE ServesOf(t)
  <2>1. pc[t] = "sent" /\ pc'[t] = "answered" /\ call'[t] = call[t]
    BY <1>5 DEF ServesOf
  <2>2. /\ call'[t].op # "none"
        /\ call'[t].op \in OnSession =>
             /\ call'[t].id \in Ids /\ given'[call'[t].id] # NoSession
             /\ \E g \in grants' : g.handle = call'[t].handle
    BY <1>0, <2>1, IssuesStay DEF CallFits
  <2>3. /\ reply'.status # "none" /\ (reply'.status # "ok" => reply'.session = NoSession)
        /\ reply'.status = "connect_timeout" => call'[t].op = "open"
        /\ call'[t].op = "open" /\ reply'.status = "ok" =>
             \E g \in grants' : g.handle = reply'.handle /\ g.session = reply'.session
    BY <1>5, <2>1 DEF ServesOf
  <2>4. QED
    BY <2>1, <2>2, <2>3 DEF CallFits, Issued, Opened, OnSession, Registering
<1>6. CASE ReceivesOf(t)
  BY <1>0, <1>6, IssuesStay DEF ReceivesOf, CallFits, Issued, OnSession, Registering
<1>7. CASE RetriesOf(t)
  BY <1>7 DEF RetriesOf, CallFits, OnSession, Registering
<1>8. CASE NumbersOf(t)
  <2>1. /\ call'[t].op = call[t].op /\ call'[t].handle = call[t].handle
        /\ call'[t].session = call[t].session
        /\ pc[t] \in Registering /\ pc'[t] \in {"count", "name", "store"}
        /\ pc'[t] = "name" => counter' \in Ids
        /\ pc'[t] = "store" => pc[t] = "name" /\ call'[t].id = counter
    BY <1>8 DEF NumbersOf, Registering
  <2>2. call[t].op = "open" /\ Issued(call[t].handle, call[t].session)
        /\ (pc[t] = "name" => counter \in Ids)
    BY <1>0, <2>1 DEF CallFits
  <2>3. \E g \in grants' : g.handle = call'[t].handle /\ g.session = call'[t].session
    BY <2>1, <2>2, IssuesStay
  <2>4. QED
    BY <2>1, <2>2, <2>3 DEF CallFits, OnSession, Registering, Issued
<1>9. QED
  BY <1>1, <1>2, <1>3, <1>4, <1>5, <1>6, <1>7, <1>8, Bystanders DEF Kind

\* An open session is pending from its answer until it has an id.
LEMMA PendingSteps ==
  ASSUME IInv, [Next]_vars, NEW t \in Threads
  PROVE  \/ Pending(t)' \in {Pending(t), NoSession}
         \/ ServesOf(t) /\ Bridge!OpenSession(Camera) /\ Pending(t)' = opens + 1
<1>1. CASE Bystander(t)
  BY <1>1 DEF Bystander, Pending, Registering
<1>2. CASE \/ AsksOf(t) \/ EndsOf(t) \/ StartsOf(t) \/ SendsOf(t) \/ RetriesOf(t) \/ RegistersOf(t)
  BY <1>2 DEF Pending, Registering, AsksOf, EndsOf, StartsOf, SendsOf, RetriesOf, RegistersOf
<1>3. CASE ReceivesOf(t) \/ NumbersOf(t)
  BY <1>3 DEF Pending, Registering, ReceivesOf, NumbersOf, Opened
<1>4. CASE ServesOf(t)
  <2>1. CASE Bridge!OpenSession(Camera) /\ reply'.session = opens'
    BY <1>4, <2>1, OpenFacts DEF Pending, Registering, ServesOf, IInv
  <2>2. CASE call[t].op # "open" \/ reply'.session = NoSession
    BY <1>4, <2>2 DEF Pending, Registering, ServesOf
  <2>3. QED
    BY <1>4, <2>1, <2>2 DEF ServesOf
<1>5. QED
  BY <1>1, <1>2, <1>3, <1>4, Bystanders DEF Kind

LEMMA IdsStep == IInv /\ [Next]_vars => IdsInv'
<1> SUFFICES ASSUME IInv, [Next]_vars PROVE IdsInv'
  OBVIOUS
<1>0. /\ IdsInv /\ CallsFit /\ TableInv
      /\ opens \in 0..MaxOpens /\ MaxOpens \in Nat
      /\ opens' >= opens /\ opens' \in 0..MaxOpens
      /\ \A g \in grants : g.session \in 1..opens
  BY TableFacts, TableGrows, BoundsAssumption DEF IInv
<1>1. ASSUME NEW t \in Threads PROVE Pending(t)' \in 0..opens'
  <2>1. Pending(t) \in 0..opens
    BY <1>0 DEF IdsInv
  <2>2. CASE Pending(t)' \in {Pending(t), NoSession}
    BY <1>0, <2>1, <2>2 DEF NoSession
  <2>3. CASE Bridge!OpenSession(Camera) /\ Pending(t)' = opens + 1
    BY <1>0, <2>3, OpenFacts
  <2>4. QED
    BY <2>2, <2>3, PendingSteps
<1>2. ASSUME NEW i \in Ids PROVE given[i] \in 0..opens'
  <2>1. given[i] \in 0..opens
    BY <1>0 DEF IdsInv
  <2>2. QED
    BY <1>0, <2>1
<1>3. ASSUME NEW i \in Ids, handles[i] # NoHandle
      PROVE  given[i] # NoSession /\ \E g \in grants' : g.handle = handles[i]
  BY <1>0, <1>3, IssuesStay DEF IdsInv
<1>4. CASE IdsKept
  BY <1>1, <1>2, <1>3, <1>4 DEF IdsInv, IdsKept
<1>5. ASSUME NEW v \in Threads, RegistersOf(v) PROVE IdsInv'
  <2>1. /\ pc[v] = "store"
        /\ \A i \in Ids :
             /\ handles'[i] = IF i = call[v].id THEN call[v].handle ELSE handles[i]
             /\ given'[i] = IF i = call[v].id /\ given[i] = NoSession
                            THEN call[v].session ELSE given[i]
    BY <1>5 DEF RegistersOf
  <2>2. Issued(call[v].handle, call[v].session)
    BY <1>0, <2>1 DEF CallsFit, CallFits, Registering
  <2>3. /\ call[v].session \in 1..opens /\ call[v].session # NoSession
        /\ \E g \in grants' : g.handle = call[v].handle
    <3>1. call[v].session \in 1..opens
      BY <1>0, <2>2 DEF Issued
    <3>2. QED
      BY <2>2, <3>1, IssuesStay DEF NoSession
  <2>4. ASSUME NEW i \in Ids
        PROVE  /\ handles'[i] # NoHandle =>
                    given'[i] # NoSession /\ \E g \in grants' : g.handle = handles'[i]
               /\ given'[i] \in 0..opens'
    BY <1>0, <1>2, <1>3, <2>1, <2>3
  <2>5. QED
    BY <1>1, <2>4 DEF IdsInv
<1>6. QED
  BY <1>4, <1>5, IdsSteps

-----------------------------------------------------------------------------
(* While the opens of the threads do not overlap.                          *)

\* Only one thread opens, from its call to its registration.
LEMMA OneOpener ==
  ASSUME IInv, [Next]_vars, ~Overlap, Serial, NEW t \in Threads, NEW u \in Threads,
         call'[t].op = "open", call'[u].op = "open"
  PROVE  t = u
<1>1. \A v \in Threads : call'[v].op = "open" =>
        \/ call[v].op = "open"
        \/ Kind(v) /\ \A w \in Threads : call[w].op # "open"
  <2>1. ASSUME NEW v \in Threads, call'[v].op = "open", call[v].op # "open"
        PROVE  Kind(v) /\ \A w \in Threads : call[w].op # "open"
    <3>1. Kind(v)
      BY <2>1, Bystanders DEF Bystander
    <3>2. ~(pc[v] \in Registering) /\ (pc[v] = "answered" /\ reply.status = "connect_timeout" => call[v].op = "open")
      BY <2>1 DEF IInv, CallsFit, CallFits
    <3>3. ~EndsOf(v) /\ ~StartsOf(v) /\ ~SendsOf(v) /\ ~ServesOf(v) /\ ~NumbersOf(v) /\ ~RegistersOf(v)
      BY <2>1, CallRecords DEF EndsOf, StartsOf, SendsOf, ServesOf, NumbersOf, RegistersOf
    <3>4. ~ReceivesOf(v) /\ ~RetriesOf(v)
      BY <2>1, <3>2 DEF ReceivesOf, RetriesOf, Opened
    <3>5. AsksOf(v)
      BY <3>1, <3>3, <3>4 DEF Kind
    <3>6. QED
      BY <2>1, <3>1, <3>5 DEF AsksOf, OnSession
  <2>2. QED
    BY <2>1
<1>2. ASSUME Kind(t), t # u PROVE call'[u] = call[u]
  BY <1>2 DEF Kind, AsksOf, EndsOf, StartsOf, SendsOf, ServesOf, ReceivesOf, RetriesOf, NumbersOf,
              RegistersOf, Others
<1>3. ASSUME Kind(u), t # u PROVE call'[t] = call[t]
  BY <1>3 DEF Kind, AsksOf, EndsOf, StartsOf, SendsOf, ServesOf, ReceivesOf, RetriesOf, NumbersOf,
              RegistersOf, Others
<1>4. QED
  BY <1>1, <1>2, <1>3 DEF Serial

\* Who opens is the only one to touch the counter.
LEMMA NumberSteps ==
  ASSUME IInv, [Next]_vars, ~Overlap, Serial, NEW t \in Threads
  PROVE  /\ pc'[t] \in {"count", "store"} => call'[t].id = counter'
         /\ pc'[t] \in {"name", "store"} => given'[counter'] = NoSession
<1>0. counter \in 0..MaxOpens /\ MaxOpens \in Nat /\ CallFits(t)
  BY BoundsAssumption DEF IInv, TypeOK, CallsFit
<1>1. CASE NumbersOf(t)
  <2>1. given' = given
    BY <1>1 DEF NumbersOf
  <2>2. CASE pc[t] = "register" \/ pc[t] = "name"
    BY <1>1, <2>1, <2>2 DEF NumbersOf, Serial
  <2>3. CASE pc[t] = "count"
    <3>1. call[t].id = counter /\ counter' = counter + 1 /\ counter' \in Ids /\ pc'[t] = "name"
      BY <1>1, <2>3 DEF NumbersOf, Serial
    <3>2. given[counter'] = NoSession
      <4>1. \A i \in Ids : i > counter => given[i] = NoSession
        BY DEF Serial
      <4>2. counter' > counter
        BY <1>0, <3>1
      <4>3. QED
        BY <3>1, <4>1, <4>2
    <3>3. QED
      BY <2>1, <3>1, <3>2
  <2>4. QED
    BY <1>1, <2>2, <2>3 DEF NumbersOf
<1>2. CASE Bystander(t)
  <2> SUFFICES ASSUME pc[t] \in Registering
               PROVE  /\ pc'[t] \in {"count", "store"} => call'[t].id = counter'
                      /\ pc'[t] \in {"name", "store"} => given'[counter'] = NoSession
    BY <1>2 DEF Bystander, Registering
  <2>1. \A u \in Threads : u # t => pc[u] \notin Registering
    BY <1>0 DEF IInv, CallsFit, CallFits, Serial
  <2>2. \A u \in Threads : u # t => ~NumbersOf(u) /\ ~RegistersOf(u)
    BY <2>1 DEF NumbersOf, RegistersOf, Registering
  <2>3. ~NumbersOf(t) /\ ~RegistersOf(t)
    BY <1>2 DEF Bystander, NumbersOf, RegistersOf
  <2>4. counter' = counter /\ given' = given
    BY <2>2, <2>3, IdsSteps DEF IdsKept
  <2>5. QED
    BY <1>2, <2>4 DEF Bystander, Serial
<1>3. QED
  BY <1>1, <1>2, Bystanders
     DEF Kind, AsksOf, EndsOf, StartsOf, SendsOf, ServesOf, ReceivesOf, RetriesOf, RegistersOf

\* A registration gives the pending session an id that was not given before.
LEMMA NewId ==
  ASSUME IInv, ~Overlap, Serial, NEW v \in Threads, RegistersOf(v)
  PROVE  /\ call[v].id \in Ids /\ call[v].id = counter /\ given[call[v].id] = NoSession
         /\ handles[call[v].id] = NoHandle
         /\ call[v].session = Pending(v) /\ call[v].session # NoSession
         /\ Issued(call[v].handle, call[v].session) /\ Pending(v)' = NoSession
         /\ \A i \in Ids : i # call[v].id => handles'[i] = handles[i] /\ given'[i] = given[i]
         /\ handles'[call[v].id] = call[v].handle /\ given'[call[v].id] = call[v].session
         /\ UNCHANGED <<counter, ended>>
<1>1. pc[v] = "store" /\ pc'[v] = "idle" /\ call[v].id \in Ids /\ UNCHANGED <<counter, ended>>
  BY DEF RegistersOf
<1>2. call[v].id = counter /\ given[call[v].id] = NoSession
  BY <1>1 DEF Serial
<1>3. handles[call[v].id] = NoHandle
  BY <1>1, <1>2 DEF IInv, IdsInv
<1>4. Issued(call[v].handle, call[v].session)
  BY <1>1 DEF IInv, CallsFit, CallFits, Registering
<1>5. call[v].session # NoSession
  <2>1. \A g \in grants : g.session \in 1..opens
    BY TableFacts DEF IInv
  <2>2. opens \in Nat
    BY TableFacts, BoundsAssumption DEF IInv
  <2>3. QED
    BY <1>4, <2>1, <2>2 DEF Issued, NoSession
<1>6. call[v].session = Pending(v) /\ Pending(v)' = NoSession
  BY <1>1 DEF Pending, Registering
<1>7. /\ \A i \in Ids : i # call[v].id => handles'[i] = handles[i] /\ given'[i] = given[i]
      /\ handles'[call[v].id] = call[v].handle /\ given'[call[v].id] = call[v].session
  BY <1>1, <1>2 DEF RegistersOf
<1>8. QED
  BY <1>1, <1>2, <1>3, <1>4, <1>5, <1>6, <1>7

LEMMA SerialStep == IInv /\ [Next]_vars /\ ~Overlap => Serial'
<1> SUFFICES ASSUME IInv, [Next]_vars, ~Overlap PROVE Serial'
  OBVIOUS
<1>0. /\ Serial /\ CallsFit /\ IdsInv /\ TableInv
      /\ counter \in 0..MaxOpens /\ MaxOpens \in Nat
      /\ opens \in 0..MaxOpens /\ \A i \in Ids : i \in Nat /\ given[i] \in 0..opens
      /\ ended \subseteq Ids
  BY TableFacts, BoundsAssumption DEF IInv, IdsInv, TypeOK, Ids
<1>1. \A t, u \in Threads : call'[t].op = "open" /\ call'[u].op = "open" => t = u
  BY <1>0, OneOpener
<1>2. \A t \in Threads : /\ pc'[t] \in {"count", "store"} => call'[t].id = counter'
                         /\ pc'[t] \in {"name", "store"} => given'[counter'] = NoSession
  BY <1>0, NumberSteps
<1>3. counter' \in 0..MaxOpens /\ counter' >= counter
  <2>1. ASSUME NEW t \in Threads, NumbersOf(t), pc[t] = "count"
        PROVE  counter' = counter + 1 /\ counter' \in 0..MaxOpens
    BY <1>0, <2>1 DEF NumbersOf, Serial, Ids
  <2>2. QED
    BY <1>0, <2>1, CounterSteps
<1>4. ASSUME NEW i \in Ids, i > counter' PROVE given'[i] = NoSession
  <2>1. i > counter
    BY <1>0, <1>3, <1>4
  <2>2. given[i] = NoSession
    BY <1>0, <2>1 DEF Serial
  <2>3. CASE \E v \in Threads : RegistersOf(v)
    BY <1>0, <2>1, <2>2, <2>3, NewId
  <2>4. QED
    BY <2>2, <2>3, IdsSteps DEF IdsKept
\* An open session keeps its id to itself.
<1>5. \A t \in Threads : Pending(t)' \in {Pending(t), NoSession} \/ Pending(t)' = opens + 1
  BY PendingSteps
<1>6. ASSUME NEW i \in Ids, NEW j \in Ids, i # j, given'[i] = given'[j] PROVE given'[i] = NoSession
  <2>1. CASE IdsKept
    BY <1>0, <1>6, <2>1 DEF IdsKept, Serial
  <2>2. ASSUME NEW v \in Threads, RegistersOf(v) PROVE given'[i] = NoSession
    <3>1. /\ call[v].session = Pending(v) /\ call[v].session # NoSession
          /\ \A k \in Ids : k # call[v].id => given'[k] = given[k]
          /\ given'[call[v].id] = call[v].session
      BY <1>0, <2>2, NewId
    <3>2. \A k \in Ids : Pending(v) = given[k] => given[k] = NoSession
      BY <1>0 DEF Serial
    <3>3. given[i] = given[j] => given[i] = NoSession
      BY <1>0, <1>6 DEF Serial
    <3>4. QED
      BY <1>6, <3>1, <3>2, <3>3
  <2>3. QED
    BY <2>1, <2>2, IdsSteps
<1>7. ASSUME NEW t \in Threads, NEW i \in Ids, Pending(t)' = given'[i] PROVE given'[i] = NoSession
  <2>1. Pending(t) = given[i] => given[i] = NoSession
    BY <1>0 DEF Serial
  <2>2. CASE IdsKept
    <3>1. given'[i] = given[i] /\ given[i] \in 0..opens
      BY <1>0, <2>2 DEF IdsKept
    <3>2. QED
      BY <1>0, <1>5, <1>7, <2>1, <3>1
  <2>3. ASSUME NEW v \in Threads, RegistersOf(v) PROVE given'[i] = NoSession
    <3>1. /\ call[v].session = Pending(v) /\ call[v].session # NoSession /\ Pending(v)' = NoSession
          /\ i # call[v].id => given'[i] = given[i]
          /\ given'[call[v].id] = call[v].session
      BY <1>0, <2>3, NewId
    <3>2. CASE t = v
      BY <1>7, <3>1, <3>2
    <3>3. CASE t # v
      <4>1. call[v].op = "open"
        BY <1>0, <2>3 DEF RegistersOf, CallsFit, CallFits, Registering
      <4>2. call[t].op # "open" /\ call'[t] = call[t] /\ pc'[t] = pc[t]
        BY <1>0, <2>3, <3>3, <4>1 DEF Serial, RegistersOf, Others
      <4>3. pc[t] \notin Registering
        BY <1>0, <4>2 DEF CallsFit, CallFits
      <4>4. Pending(t)' = NoSession
        BY <4>2, <4>3 DEF Pending
      <4>5. QED
        BY <1>7, <4>4
    <3>4. QED
      BY <3>2, <3>3
  <2>4. QED
    BY <2>2, <2>3, IdsSteps
<1>8. ASSUME NEW i \in Ids, handles'[i] # NoHandle
      PROVE  \E g \in grants' : g.handle = handles'[i] /\ g.session = given'[i]
  <2>1. handles[i] # NoHandle => Issued(handles[i], given[i])
    BY <1>0 DEF Serial
  <2>2. CASE IdsKept
    BY <1>8, <2>1, <2>2, IssuesStay DEF IdsKept
  <2>3. ASSUME NEW v \in Threads, RegistersOf(v)
        PROVE  \E g \in grants' : g.handle = handles'[i] /\ g.session = given'[i]
    <3>1. /\ Issued(call[v].handle, call[v].session)
          /\ i # call[v].id => handles'[i] = handles[i] /\ given'[i] = given[i]
          /\ handles'[call[v].id] = call[v].handle /\ given'[call[v].id] = call[v].session
      BY <1>0, <2>3, NewId
    <3>2. QED
      BY <1>8, <2>1, <3>1, IssuesStay
  <2>4. QED
    BY <2>2, <2>3, IdsSteps
<1>9. ASSUME NEW t \in Threads, call'[t].op \in OnSession
      PROVE  \E g \in grants' : g.handle = call'[t].handle /\ g.session = given'[call'[t].id]
  <2>1. CASE call'[t] = call[t]
    <3>1. Issued(call[t].handle, given[call[t].id]) /\ call[t].id \in Ids /\ given[call[t].id] # NoSession
      BY <1>0, <1>9, <2>1 DEF Serial, CallsFit, CallFits
    <3>2. QED
      BY <2>1, <3>1, IssuesStay
  <2>2. CASE AsksOf(t)
    <3>1. call'[t].id \in Ids /\ handles[call'[t].id] # NoHandle /\ call'[t].handle = handles[call'[t].id]
      BY <1>9, <2>2 DEF AsksOf, OnSession
    <3>2. Issued(handles[call'[t].id], given[call'[t].id]) /\ given[call'[t].id] # NoSession
      BY <1>0, <3>1 DEF Serial, IdsInv
    <3>3. QED
      BY <3>1, <3>2, IssuesStay
  <2>3. CASE NumbersOf(t)
    BY <1>0, <1>9, <2>3 DEF NumbersOf, CallsFit, CallFits, OnSession, Registering
  <2>4. CASE ReceivesOf(t) \/ RetriesOf(t) \/ EndsOf(t) \/ RegistersOf(t)
    BY <1>9, <2>4, CallRecords DEF ReceivesOf, RetriesOf, EndsOf, RegistersOf, OnSession
  <2>5. QED
    BY <2>1, <2>2, <2>3, <2>4, Bystanders DEF Bystander, Kind, StartsOf, SendsOf, ServesOf
<1>10. ASSUME NEW i \in ended' PROVE given'[i] # NoSession /\ handles'[i] = NoHandle
  <2>1. CASE i \in ended
    <3>1. i \in Ids /\ given[i] # NoSession /\ handles[i] = NoHandle
      BY <1>0, <2>1 DEF Serial
    <3>2. CASE IdsKept
      BY <3>1, <3>2 DEF IdsKept
    <3>3. ASSUME NEW v \in Threads, RegistersOf(v) PROVE given'[i] # NoSession /\ handles'[i] = NoHandle
      BY <1>0, <3>1, <3>3, NewId
    <3>4. QED
      BY <3>2, <3>3, IdsSteps
  <2>2. CASE i \notin ended
    BY <2>2, EndedSteps DEF IdsKept
  <2>3. QED
    BY <2>1, <2>2
<1>11. QED
  BY <1>1, <1>2, <1>4, <1>6, <1>7, <1>8, <1>9, <1>10 DEF Serial, Issued

\* Only a call that the process serves makes a handle name something.
LEMMA NothingNamed ==
  ASSUME IInv, [Next]_vars, NEW h, Bridge!Resolve(h) = NoSession,
         \A t \in Threads : ~(ServesOf(t) /\ call[t].op = "open")
  PROVE  Bridge!Resolve(h)' = NoSession
<1>0. TableInv
  BY DEF IInv
<1>1. CASE UNCHANGED bridge \/ Bridge!InitBridge
  BY <1>1 DEF Bridge!Resolve, bridge, Bridge!InitBridge
<1>2. CASE Bridge!Shutdown
  BY <1>0, <1>2, ShutdownFacts
<1>3. ASSUME NEW t \in Threads, ServesOf(t) PROVE Bridge!Resolve(h)' = NoSession
  <2>1. CASE UNCHANGED bridge \/ Bridge!Enumerate
    BY <2>1 DEF Bridge!Resolve, bridge, Bridge!Enumerate
  <2>2. CASE call[t].op = "close" /\ Bridge!CloseSession(call[t].handle)
    <3>1. PICK g \in grants : g.handle = call[t].handle
      BY <2>2 DEF IInv, CallsFit, CallFits, Issued, OnSession
    <3>2. QED
      BY <1>0, <2>2, <3>1, CloseFacts
  <2>3. QED
    BY <1>3, <2>1, <2>2 DEF ServesOf
<1>4. QED
  BY <1>1, <1>2, <1>3, TableUsers

LEMMA ClosedStep == IInv /\ [Next]_vars => ClosedGone'
<1> SUFFICES ASSUME IInv, [Next]_vars, NEW t \in Threads, NEW h,
                    pc'[t] = "answered", call'[t].op = "close", call'[t].handle = h
             PROVE  Bridge!Resolve(h)' = NoSession
  BY DEF ClosedGone, Reached, Bridge!Resolve
<1>0. LockInv /\ ClosedGone /\ TableInv /\ CallFits(t)
  BY DEF IInv, CallsFit
<1>1. CASE Bystander(t)
  <2>1. pc[t] = "answered" /\ call'[t] = call[t] /\ Bridge!Resolve(h) = NoSession
    BY <1>0, <1>1 DEF Bystander, ClosedGone, Reached
  <2>2. \A u \in Threads : ~ServesOf(u)
    BY <1>0, <2>1 DEF LockInv, ServesOf
  <2>3. QED
    BY <2>1, <2>2, NothingNamed
<1>2. CASE ServesOf(t)
  <2>1. call'[t] = call[t] /\ call[t].op = "close"
    BY <1>2 DEF ServesOf
  <2>2. PICK g \in grants : g.handle = h
    BY <1>0, <2>1 DEF CallFits, Issued, OnSession
  <2>3. CASE Bridge!CloseSession(h)
    BY <1>0, <2>1, <2>2, <2>3, CloseFacts
  <2>4. CASE UNCHANGED bridge /\ Reached(t) = NoSession
    BY <2>1, <2>4 DEF Reached, bridge, Bridge!Resolve
  <2>5. QED
    BY <1>2, <2>1, <2>3, <2>4 DEF ServesOf
<1>3. QED
  BY <1>1, <1>2, Bystanders
     DEF Kind, AsksOf, EndsOf, StartsOf, SendsOf, ReceivesOf, RetriesOf, RegistersOf, NumbersOf

LEMMA ReachStep == IInv /\ [Next]_vars /\ ~Overlap => ReachesOwn'
<1> SUFFICES ASSUME IInv, [Next]_vars, ~Overlap, epoch' <= 1, NEW t \in Threads, pc'[t] = "answered",
                    call'[t].op \in OnSession
             PROVE  reply'.session \in {NoSession, given'[call'[t].id]}
  BY DEF ReachesOwn, CallsReachOwn, OnSession
<1>0. /\ TableInv /\ Serial /\ CallFits(t) /\ epoch \in 0..MaxStarts /\ epoch' \in 0..MaxStarts /\ MaxStarts \in Nat
      /\ epoch' >= epoch
  BY TableFacts, TableGrows, BoundsAssumption DEF IInv, CallsFit
<1>1. epoch <= 1
  BY <1>0
<1>2. CASE Bystander(t)
  <2>1. pc[t] = "answered" /\ call'[t] = call[t] /\ reply' = reply
    BY <1>2 DEF Bystander
  <2>2. reply.session \in {NoSession, given[call[t].id]}
    BY <1>1, <2>1 DEF IInv, ReachesOwn, CallsReachOwn, OnSession
  <2>3. given'[call[t].id] = given[call[t].id]
    BY <1>0, <1>2, IssuesStay DEF CallFits, Bystander
  <2>4. QED
    BY <2>1, <2>2, <2>3
<1>3. CASE ServesOf(t)
  <2>1. call'[t] = call[t] /\ reply'.session = Reached(t)
    BY <1>3 DEF ServesOf, OnSession
  <2>2. PICK g \in grants : g.handle = call[t].handle /\ g.session = given[call[t].id]
    BY <1>0, <2>1 DEF Serial, Issued
  <2>3. g.epoch = epoch
    <3>1. g.epoch \in 1..epoch
      BY <1>0, TableFacts
    <3>2. QED
      BY <1>0, <1>1, <3>1
  <2>4. Reached(t) \in {NoSession, g.session}
    BY <1>0, <2>2, <2>3, TableFacts DEF Reached
  <2>5. given'[call[t].id] = given[call[t].id]
    BY <1>0, <2>1, IssuesStay DEF CallFits
  <2>6. QED
    BY <2>1, <2>2, <2>4, <2>5
<1>4. QED
  BY <1>2, <1>3, Bystanders
     DEF Kind, AsksOf, EndsOf, StartsOf, SendsOf, ReceivesOf, RetriesOf, RegistersOf, NumbersOf

\* What names a session that stays connected goes on naming it.
LEMMA StillReached ==
  ASSUME IInv, [Next]_vars, NEW s, s \in connected, s \in connected'
  PROVE  /\ initialized /\ initialized'
         /\ \A h : Bridge!Resolve(h) = s => Bridge!Resolve(h)' = s
<1>0. TableInv /\ initialized
  BY TableFacts DEF IInv
<1>1. CASE UNCHANGED bridge
  BY <1>0, <1>1 DEF bridge, Bridge!Resolve
<1>2. ~Bridge!Shutdown
  BY <1>0, ShutdownFacts
<1>3. ~Bridge!InitBridge
  BY <1>0 DEF Bridge!InitBridge
<1>4. ASSUME NEW t \in Threads, ServesOf(t)
      PROVE  initialized' /\ \A h : Bridge!Resolve(h) = s => Bridge!Resolve(h)' = s
  <2>1. CASE UNCHANGED bridge \/ Bridge!Enumerate
    BY <1>0, <2>1 DEF Bridge!Resolve, bridge, Bridge!Enumerate
  <2>2. CASE call[t].op = "close" /\ Bridge!CloseSession(call[t].handle)
    <3>1. PICK g \in grants : g.handle = call[t].handle
      BY <2>2 DEF IInv, CallsFit, CallFits, Issued, OnSession
    <3>2. /\ connected' = connected \ {Bridge!Resolve(g.handle)} /\ initialized' = initialized
          /\ \A h : Bridge!Resolve(h) # Bridge!Resolve(g.handle) => Bridge!Resolve(h)' = Bridge!Resolve(h)
      BY <1>0, <2>2, <3>1, CloseFacts
    <3>3. QED
      BY <1>0, <3>2
  <2>3. CASE Bridge!OpenSession(Camera)
    <3>1. /\ initialized' = initialized
          /\ \A h : Bridge!Resolve(h) # NoSession => Bridge!Resolve(h)' = Bridge!Resolve(h)
      BY <1>0, <2>3, OpenFacts
    <3>2. s # NoSession
      <4>1. s \in 1..opens
        BY <1>0, TableFacts
      <4>2. QED
        BY <4>1 DEF NoSession
    <3>3. QED
      BY <1>0, <3>1, <3>2
  <2>4. QED
    BY <1>4, <2>1, <2>2, <2>3 DEF ServesOf
<1>5. QED
  BY <1>0, <1>1, <1>2, <1>3, <1>4, TableUsers

\* A handle is forgotten by the call that closes it, or with the process.
LEMMA HandlesForgotten ==
  ASSUME IInv, [Next]_vars, ~Overlap, initialized, initialized', NEW i \in Ids, handles[i] # NoHandle
  PROVE  \/ handles'[i] = handles[i]
         \/ \E t \in Threads : call'[t].op = "close" /\ call'[t].handle = handles[i]
<1>0. /\ TypeOK /\ LockInv /\ TableInv /\ handles \in [Ids -> Handle] /\ host = "running"
      /\ Serial
  BY TableFacts, BoundsAssumption DEF IInv, TypeOK
<1>1. ASSUME NEW t \in Threads, NEW j \in Ids, CloseCall(t, j), j = i
      PROVE  call'[t].op = "close" /\ call'[t].handle = handles[i]
  <2>1. Ask(t, WithHandle("close", i))
    BY <1>1 DEF CloseCall
  <2> DEFINE c == WithHandle("close", i)
  <2>2. c \in CallRecord /\ c.op = "close" /\ c.handle = handles[i]
    BY <1>0, SessionRecord DEF OnSession
  <2>3. Ask(t, c)
    BY <2>1
  <2> HIDE DEF c
  <2>4. QED
    BY <1>0, <2>2, <2>3, Asked
<1>2. ASSUME NEW t \in Threads, NEW j \in Ids, CloseCall(t, j), j # i
      PROVE  handles'[i] = handles[i]
  BY <1>0, <1>2 DEF CloseCall
<1>3. ASSUME NEW t \in Threads PROVE ~Shutdown(t) /\ ~StartFails(t) /\ ~LoseAnswer(t)
  BY <1>0, ShutdownFacts DEF Shutdown, BridgeGone, StartFails, LoseAnswer, LockInv
<1>4. ASSUME NEW t \in Threads, Send(t) PROVE UNCHANGED ids
  BY <1>0, <1>4 DEF Send
<1>5. ASSUME NEW t \in Threads, Register(t) PROVE handles'[i] = handles[i]
  <2>1. RegistersOf(t)
    BY <1>5, RegisterKinds
  <2>2. QED
    BY <1>0, <2>1, NewId
<1>6. CASE \/ Crash \/ Reaped \/ UNCHANGED vars
           \/ \E t \in Threads :
                \/ Start(t) \/ NoSuchProgram(t) \/ OpenCall(t) \/ EnumerateCall(t)
                \/ \E j \in Ids : UseCall(t, j) \/ StateCall(t, j)
                \/ Started(t) \/ StateLookUp(t) \/ Serve(t) \/ Receive(t)
                \/ ReadCounter(t) \/ WriteCounter(t) \/ MakeId(t)
  BY <1>6 DEF Crash, Reaped, vars, ids, Start, NoSuchProgram, OpenCall, EnumerateCall, UseCall,
              StateCall, Started, StateLookUp, Serve, Receive, ReadCounter, WriteCounter, MakeId
<1>7. QED
  BY <1>1, <1>2, <1>3, <1>4, <1>5, <1>6 DEF Next, ThreadStep, ids

\* Whose is a connected session: an id's, or a call's.
Named(s) == \E i \in Ids : handles[i] # NoHandle /\ Bridge!Resolve(handles[i]) = s
Closing(t, s) == call[t].op = "close" /\ Reached(t) = s


LEMMA OrphanStep == IInv /\ [Next]_vars /\ ~Overlap => NoOrphan'
<1> SUFFICES ASSUME IInv, [Next]_vars, ~Overlap, NEW s \in connected'
             PROVE  \/ Named(s)'
                    \/ \E t \in Threads :
                         \/ Closing(t, s)'
                         \/ pc'[t] \in Registering /\ call'[t].session = s
                         \/ pc'[t] = "answered" /\ call'[t].op = "open" /\ reply'.session = s
  BY DEF NoOrphan, Named, Closing
<1>0. TableInv /\ LockInv /\ CallsFit /\ ClosedGone /\ TypeOK /\ Serial /\ opens \in 0..MaxOpens /\ MaxOpens \in Nat
  BY TableFacts, BoundsAssumption DEF IInv
\* A session that was just opened: its answer is under way.
<1>1. CASE s \notin connected
  <2>1. ~UNCHANGED bridge /\ ~Bridge!InitBridge /\ ~Bridge!Shutdown
    BY <1>0, <1>1, ShutdownFacts DEF bridge, Bridge!InitBridge
  <2>2. PICK t \in Threads : ServesOf(t)
    BY <2>1, TableUsers
  <2>3. ~Bridge!Enumerate
    BY <1>1 DEF Bridge!Enumerate
  <2>4. ~(call[t].op = "close" /\ Bridge!CloseSession(call[t].handle))
    <3> SUFFICES ASSUME call[t].op = "close", Bridge!CloseSession(call[t].handle) PROVE FALSE
      OBVIOUS
    <3>1. PICK g \in grants : g.handle = call[t].handle
      BY <1>0 DEF CallsFit, CallFits, Issued, OnSession
    <3>2. connected' = connected \ {Bridge!Resolve(g.handle)}
      BY <1>0, <3>1, CloseFacts
    <3>3. QED
      BY <1>1, <3>2
  <2>5. call[t].op = "open" /\ Bridge!OpenSession(Camera) /\ reply'.session = opens'
    BY <2>1, <2>2, <2>3, <2>4 DEF ServesOf
  <2>6. s = opens'
    BY <1>0, <1>1, <2>5, OpenFacts
  <2>7. QED
    BY <2>2, <2>5, <2>6 DEF ServesOf
<1>2. CASE s \in connected
  <2>1. /\ initialized /\ initialized' /\ s \in 1..opens
        /\ \A h : Bridge!Resolve(h) = s => Bridge!Resolve(h)' = s
    BY <1>0, <1>2, TableFacts, StillReached
  <2>2. s # NoSession /\ NoHandle.index = 0
    BY <2>1 DEF NoSession, NoHandle
  <2>3. Named(s) \/ \E t \in Threads : Closing(t, s) \/ Pending(t) = s
    BY <1>2 DEF IInv, NoOrphan, Named, Closing, Pending, Registering
  \* An id names it: it goes on, or the session is being closed.
  <2>4. ASSUME NEW i \in Ids, handles[i] # NoHandle, Bridge!Resolve(handles[i]) = s
        PROVE  Named(s)' \/ \E t \in Threads : Closing(t, s)'
    <3>1. PICK k : k = handles[i]
      OBVIOUS
    <3>2. Bridge!Resolve(k)' = s
      BY <2>1, <2>4, <3>1
    <3>3. CASE handles'[i] = handles[i]
      BY <2>4, <3>1, <3>2, <3>3 DEF Named, Bridge!Resolve, NoHandle
    <3>4. ASSUME NEW t \in Threads, call'[t].op = "close", call'[t].handle = handles[i]
          PROVE  Closing(t, s)'
      BY <3>1, <3>2, <3>4 DEF Closing, Reached, Bridge!Resolve
    <3>5. QED
      BY <2>1, <2>4, <3>3, <3>4, HandlesForgotten
  \* A call is closing it.
  <2>5. ASSUME NEW t \in Threads, Closing(t, s) PROVE Closing(t, s)'
    <3>1. PICK k : k = call[t].handle
      OBVIOUS
    <3>2. Bridge!Resolve(k)' = s
      BY <2>1, <2>5, <3>1 DEF Closing, Reached
    <3>3. pc[t] \in {"lock", "sent"}
      BY <1>0, <2>2, <2>5 DEF CallsFit, CallFits, OnSession, Closing, ClosedGone
    <3>4. ~EndsOf(t)
      BY <2>1, <2>5, <3>3 DEF EndsOf, Closing
    <3>5. call'[t] = call[t]
      BY <3>3, <3>4, Bystanders DEF Bystander, Kind, AsksOf, StartsOf, SendsOf, ServesOf, ReceivesOf,
                                    RetriesOf, RegistersOf, NumbersOf
    <3>6. QED
      BY <2>5, <3>1, <3>2, <3>5 DEF Closing, Reached, Bridge!Resolve
  \* It was opened and has no id yet.
  <2>6. ASSUME NEW t \in Threads, Pending(t) = s
        PROVE  \/ pc'[t] \in Registering /\ call'[t].session = s
               \/ pc'[t] = "answered" /\ call'[t].op = "open" /\ reply'.session = s
               \/ Named(s)'
    <3>1. CASE RegistersOf(t)
      <4>1. /\ call[t].id \in Ids /\ handles'[call[t].id] = call[t].handle
            /\ call[t].session = s /\ Issued(call[t].handle, call[t].session)
        BY <1>0, <2>6, <3>1, NewId
      <4>2. PICK g \in grants : g.handle = call[t].handle /\ g.session = s
        BY <4>1 DEF Issued
      <4>3. PICK n : n = call[t].id
        OBVIOUS
      <4>4. Bridge!Resolve(g.handle) = s
        BY <1>0, <1>2, <4>2, TableFacts
      <4>5. g.handle # NoHandle
        <5>1. g.handle.index \in 1..MaxOpens
          BY <1>0, TableFacts DEF Bridge!IssuedHandle
        <5>2. QED
          BY <1>0, <2>2, <5>1
      <4>6. PICK k : k = g.handle
        OBVIOUS
      <4>7. n \in Ids /\ handles'[n] = k /\ k # NoHandle /\ Bridge!Resolve(k)' = s
        BY <2>1, <4>1, <4>2, <4>3, <4>4, <4>5, <4>6
      <4>8. QED
        BY <4>7 DEF Named, Bridge!Resolve, NoHandle
    <3>2. CASE Bystander(t) \/ ReceivesOf(t) \/ NumbersOf(t)
      BY <2>2, <2>6, <3>2 DEF Bystander, ReceivesOf, NumbersOf, Opened, Pending, Registering
    <3>3. CASE EndsOf(t) \/ AsksOf(t) \/ StartsOf(t) \/ SendsOf(t) \/ ServesOf(t) \/ RetriesOf(t)
      BY <2>1, <2>2, <2>6, <3>3 DEF Pending, Registering, EndsOf, AsksOf, StartsOf, SendsOf, ServesOf, RetriesOf
    <3>4. QED
      BY <3>1, <3>2, <3>3, Bystanders DEF Kind
  <2>7. QED
    BY <2>3, <2>4, <2>5, <2>6 DEF Named
<1>3. QED
  BY <1>1, <1>2

\* The camera is left holding a transport by an end of the process, and freed
\* by an attempt that runs into it.
LEMMA HeldSteps ==
  ASSUME IInv, [Next]_vars
  PROVE  /\ held' \in BOOLEAN
         /\ \/ held' = held
            \/ initialized /\ Bridge!Shutdown
            \/ held' = FALSE /\ UNCHANGED bridge
<1>0. TypeOK /\ TableInv /\ held \in BOOLEAN
  BY DEF IInv, TypeOK
<1>1. ASSUME BridgeGone, held' = held \/ held' = (held \/ connected # {})
      PROVE  held' \in BOOLEAN /\ (held' = held \/ (initialized /\ Bridge!Shutdown))
  <2>1. CASE initialized
    BY <1>0, <1>1, <2>1 DEF BridgeGone
  <2>2. CASE ~initialized
    <3>1. connected = {}
      BY <1>0, <2>2, TableFacts
    <3>2. QED
      BY <1>0, <1>1, <3>1
  <2>3. QED
    BY <2>1, <2>2
<1>2. CASE Crash \/ \E t \in Threads : Shutdown(t)
  BY <1>1, <1>2 DEF Crash, Abandoned, Shutdown
<1>3. ASSUME NEW t \in Threads, Serve(t)
      PROVE  held' \in BOOLEAN /\ (held' = held \/ (held' = FALSE /\ UNCHANGED bridge))
  BY <1>0, <1>3 DEF Serve
<1>4. CASE /\ ~Crash /\ ~\E t \in Threads : Shutdown(t) \/ Serve(t)
  BY ZenonT(60), <1>0, <1>4
     DEF Next, ThreadStep, Reaped, vars, Start, NoSuchProgram, OpenCall, EnumerateCall, UseCall,
         CloseCall, StateCall, Send, Started, StartFails, StateLookUp, Receive, LoseAnswer, ReadCounter, WriteCounter, MakeId, Register
<1>5. QED
  BY <1>2, <1>3, <1>4

\* Only the first step of a process makes the library run.
LEMMA InitSteps ==
  ASSUME IInv, [Next]_vars
  PROVE  \/ Bridge!InitBridge /\ UNCHANGED held /\ ~initialized /\ epoch' = epoch + 1
         \/ Bridge!Shutdown /\ ~initialized' /\ epoch' = epoch
         \/ initialized' = initialized /\ epoch' = epoch /\ ~Bridge!Shutdown
<1>0. TableInv
  BY DEF IInv
<1>1. ASSUME NEW t \in Threads, ServesOf(t) PROVE initialized' = initialized /\ epoch' = epoch
  <2>1. CASE UNCHANGED bridge \/ Bridge!Enumerate
    BY <2>1 DEF bridge, Bridge!Enumerate
  <2>2. CASE call[t].op = "close" /\ Bridge!CloseSession(call[t].handle)
    BY <2>2 DEF Bridge!CloseSession
  <2>3. CASE Bridge!OpenSession(Camera)
    BY <2>3 DEF Bridge!OpenSession
  <2>4. QED
    BY <1>1, <2>1, <2>2, <2>3 DEF ServesOf
<1>2. QED
  BY <1>0, <1>1, TableUsers, ShutdownFacts DEF bridge, Bridge!InitBridge

TimedOut(t) == pc[t] = "answered" /\ reply.status = "connect_timeout"

LEMMA RetryStep == IInv /\ [Next]_vars => RetryInv'
<1> SUFFICES ASSUME IInv, [Next]_vars PROVE RetryInv'
  OBVIOUS
<1>0. /\ RetryInv /\ LockInv /\ TableInv /\ held \in BOOLEAN /\ initialized \in BOOLEAN
      /\ epoch \in Nat /\ epoch' \in Nat
      /\ initialized => epoch >= 1
  <2>1. TableInv /\ RetryInv /\ LockInv /\ held \in BOOLEAN /\ initialized \in BOOLEAN
    BY DEF IInv, TypeOK
  <2>2. epoch \in 0..MaxStarts /\ epoch' \in 0..MaxStarts /\ MaxStarts \in Nat
    BY <2>1, TableFacts, TableGrows, BoundsAssumption
  <2>3. initialized => epoch >= 1
    BY <2>1, TableFacts
  <2>4. QED
    BY <2>1, <2>2, <2>3
<1> DEFINE down == Bridge!Shutdown
           up == Bridge!InitBridge
<1>a. /\ held => epoch >= 1
      /\ held /\ initialized => epoch >= 2
      /\ epoch <= 2 /\ Retrying /\ initialized => ~held
  BY <1>0 DEF RetryInv
<1>b. held' => held \/ (initialized /\ down)
  BY HeldSteps
<1>c. \/ up /\ (held' => held) /\ ~initialized /\ epoch' = epoch + 1
      \/ down /\ ~initialized' /\ epoch' = epoch
      \/ (initialized' => initialized) /\ epoch' = epoch /\ ~down
  BY InitSteps
<1> HIDE DEF down, up
<1>1. held' => epoch' >= 1
  BY <1>0, <1>a, <1>b, <1>c
<1>2. held' /\ initialized' => epoch' >= 2
  BY <1>0, <1>a, <1>b, <1>c
\* A call that times out meets a camera that is held while a library runs.
<1>3. ASSUME NEW t \in Threads, TimedOut(t)'
      PROVE  TimedOut(t) \/ (held /\ initialized /\ held' = FALSE /\ UNCHANGED bridge)
  <2>1. CASE ServesOf(t)
    <3>1. held /\ Camera \in keys /\ ~held' /\ UNCHANGED bridge
      BY <1>3, <2>1 DEF ServesOf, TimedOut
    <3>2. initialized
      BY <1>0, <3>1 DEF LockInv
    <3>3. QED
      BY <3>1, <3>2, HeldSteps
  <2>2. CASE Bystander(t)
    BY <1>3, <2>2 DEF Bystander, TimedOut
  <2>3. QED
    BY <1>3, <2>1, <2>2, Bystanders
       DEF TimedOut, Kind, AsksOf, EndsOf, StartsOf, SendsOf, ReceivesOf, RetriesOf, RegistersOf, NumbersOf
<1>4. ASSUME NEW t \in Threads, call'[t].attempt = 2
      PROVE  call[t].attempt = 2 \/ TimedOut(t)
  BY <1>4, Bystanders, CallRecords
     DEF TimedOut, Bystander, Kind, AsksOf, EndsOf, StartsOf, SendsOf, ServesOf, ReceivesOf, RetriesOf,
         RegistersOf, NumbersOf
<1>5. Retrying' => Retrying \/ (held /\ initialized /\ held' = FALSE /\ UNCHANGED bridge)
  <2>1. ASSUME NEW t \in Threads, call'[t].attempt = 2 \/ TimedOut(t)'
        PROVE  Retrying \/ (held /\ initialized /\ held' = FALSE /\ UNCHANGED bridge)
    BY <1>3, <1>4, <2>1 DEF Retrying, TimedOut
  <2>2. QED
    BY <2>1 DEF Retrying, TimedOut
<1>6. Retrying' => epoch' >= 2
  BY <1>0, <1>5, InitSteps DEF RetryInv
<1>7. epoch' <= 2 /\ Retrying' /\ initialized' => ~held'
  <2>1. Retrying => epoch >= 2
    BY <1>0 DEF RetryInv
  <2>2. CASE Retrying
    BY <1>0, <1>a, <1>b, <1>c, <2>1, <2>2
  <2>3. CASE ~Retrying
    BY <1>5, <2>3
  <2>4. QED
    BY <2>2, <2>3
<1>8. ASSUME epoch' <= 2, NEW t \in Threads, TimedOut(t)' PROVE call'[t].attempt # 2
  <2>1. epoch <= 2
    BY <1>0, <1>8, InitSteps
  <2>2. CASE TimedOut(t) /\ ~ServesOf(t)
    <3>1. call'[t] = call[t]
      BY <1>8, <2>2, Bystanders
         DEF TimedOut, Bystander, Kind, AsksOf, EndsOf, StartsOf, SendsOf, ReceivesOf, RetriesOf,
             RegistersOf, NumbersOf
    <3>2. QED
      BY <1>0, <2>1, <2>2, <3>1 DEF RetryInv, TimedOut
  <2>3. CASE ServesOf(t)
    <3>1. ~TimedOut(t) /\ call'[t] = call[t]
      BY <2>3 DEF ServesOf, TimedOut
    <3>2. held /\ initialized
      BY <1>3, <1>8, <3>1
    <3>3. ~Retrying
      BY <1>0, <2>1, <3>2 DEF RetryInv
    <3>4. QED
      BY <3>1, <3>3 DEF Retrying
  <2>4. CASE ~TimedOut(t) /\ ~ServesOf(t)
    BY <1>8, <2>4, Bystanders
       DEF TimedOut, Bystander, Kind, AsksOf, EndsOf, StartsOf, SendsOf, ReceivesOf, RetriesOf,
           RegistersOf, NumbersOf
  <2>5. QED
    BY <2>2, <2>3, <2>4
<1>9. ASSUME epoch' <= 2, NEW t \in Threads PROVE verdict'[t].answer # "connect_timeout"
  <2>1. epoch <= 2
    BY <1>0, <1>9, InitSteps
  <2>2. verdict[t].answer # "connect_timeout"
    BY <1>0, <2>1 DEF RetryInv, RetryClearsHeld
  <2>3. ~(pc[t] = "answered" /\ reply.status = "connect_timeout" /\ call[t].attempt = 2)
    BY <1>0, <2>1 DEF RetryInv
  <2>4. CASE Aside
    BY <2>2, <2>4 DEF Aside
  <2>5. ASSUME NEW u \in Threads, Kind(u) PROVE verdict'[t].answer # "connect_timeout"
    BY <2>2, <2>3, <2>5 DEF Kind, AsksOf, EndsOf, StartsOf, SendsOf, ServesOf, ReceivesOf, RetriesOf,
                            RegistersOf, NumbersOf, Others
  <2>6. QED
    BY <2>4, <2>5, Kinds
<1>10. QED
  BY <1>1, <1>2, <1>6, <1>7, <1>8, <1>9 DEF RetryInv, RetryClearsHeld, TimedOut

\* The states of the backend and of its process.
LEMMA HostStep ==
  ASSUME IInv, [Next]_vars
  PROVE  /\ state' \in {"not_started", "starting", "ready", "stopped", "crashed"}
         /\ host' \in {"none", "running", "exiting", "dead"}
         /\ ended' \subseteq Ids
         /\ host' # "running" => ~initialized'
<1>0. /\ state \in {"not_started", "starting", "ready", "stopped", "crashed"}
      /\ host \in {"none", "running", "exiting", "dead"}
      /\ ended \subseteq Ids /\ (host # "running" => ~initialized) /\ LockInv /\ TableInv
  BY DEF IInv, TypeOK
<1>1. CASE Crash \/ Reaped
  <2>1. state' = state /\ host' \in {"none", "running", "exiting", "dead"} /\ ended' = ended
    BY <1>1 DEF Crash, Reaped, ids
  <2>2. ~initialized'
    <3>1. CASE Crash
      BY <1>0, <3>1, ShutdownFacts DEF Crash, Abandoned, BridgeGone, bridge
    <3>2. CASE Reaped
      BY <1>0, <3>2 DEF Reaped, bridge
    <3>3. QED
      BY <1>1, <3>1, <3>2
  <2>3. QED
    BY <1>0, <2>1, <2>2
<1>2. ASSUME NEW t \in Threads, Start(t) \/ Started(t)
      PROVE  /\ state' \in {"starting", "ready"} /\ host' = "running" /\ ended' = ended
  BY <1>2 DEF Start, Started, ids
<1>3. ASSUME NEW t \in Threads, StartFails(t) \/ LoseAnswer(t)
      PROVE  /\ state' \in {state, "crashed"} /\ host' = "none" /\ ended' = ended /\ ~initialized'
  BY <1>0, <1>3 DEF StartFails, LoseAnswer, Cleanup, LockInv, bridge
<1>4. ASSUME NEW t \in Threads, Shutdown(t)
      PROVE  /\ state' = "stopped" /\ host' = "none" /\ ended' \subseteq Ids /\ ~initialized'
  BY <1>0, <1>4, ShutdownFacts DEF Shutdown, Cleanup, BridgeGone, bridge
<1>5. ASSUME NEW t \in Threads, Send(t)
      PROVE  /\ state' \in {state, "crashed"} /\ host' \in {"none", host} /\ ended' = ended
             /\ host' # "running" => ~initialized'
  BY <1>0, <1>5 DEF Send, Cleanup, bridge, ids
<1>6. ASSUME NEW t \in Threads, NEW i \in Ids, CloseCall(t, i)
      PROVE  UNCHANGED <<bridge, state, host>> /\ ended' \subseteq Ids
  BY <1>0, <1>6 DEF CloseCall
<1>7. CASE UNCHANGED vars \/ \E t \in Threads : OpenCall(t) \/ EnumerateCall(t) \/ Receive(t)
                                           \/ ReadCounter(t) \/ WriteCounter(t) \/ MakeId(t)
                                           \/ Register(t)
  <2>1. UNCHANGED <<bridge, state, host, ended>>
    BY <1>7 DEF vars, ids, OpenCall, EnumerateCall, Receive, ReadCounter, WriteCounter, MakeId, Register
  <2>2. QED
    BY <1>0, <2>1 DEF bridge
<1>10. ASSUME NEW t \in Threads,
             \/ NoSuchProgram(t) \/ StateLookUp(t)
             \/ \E i \in Ids : UseCall(t, i) \/ StateCall(t, i)
       PROVE  UNCHANGED <<bridge, host, ended>> /\ state' \in {state, "crashed"}
  BY <1>10 DEF ids, NoSuchProgram, StateLookUp, UseCall, StateCall, Refreshed
<1>8. ASSUME NEW t \in Threads, Serve(t)
      PROVE  UNCHANGED <<state, host, ids>> /\ host = "running"
  BY <1>8 DEF Serve
<1>9. QED
  BY <1>0, <1>1, <1>2, <1>3, <1>4, <1>5, <1>6, <1>7, <1>8, <1>10 DEF Next, ThreadStep, bridge, ids

LEMMA TypeStep == IInv /\ [Next]_vars => TypeOK'
<1> SUFFICES ASSUME IInv, [Next]_vars PROVE TypeOK'
  OBVIOUS
<1>0. /\ TypeOK /\ ThreadsTyped' /\ opens \in 0..MaxOpens /\ MaxOpens \in Nat
      /\ opens' >= opens /\ opens' \in 0..MaxOpens
  BY Kinds, TableFacts, TableGrows, BoundsAssumption DEF IInv
<1>1. initialized' \in BOOLEAN
  <2>1. TableInv'
    BY TableGrows
  <2>2. QED
    BY <2>1 DEF TableInv, Table!TableInv, Table!IInv, Table!TypeOK
<1>2. held' \in BOOLEAN
  BY HeldSteps
<1>3. counter' \in 0..MaxOpens /\ handles' \in [Ids -> Handle] /\ given' \in [Ids -> Ids \cup {NoSession}]
  <2>0. counter' \in 0..MaxOpens
    BY <1>0, CounterSteps DEF NumbersOf, Ids, TypeOK
  <2>1. CASE IdsKept
    BY <1>0, <2>0, <2>1 DEF IdsKept, TypeOK
  <2>2. CASE \E t \in Threads : RegistersOf(t)
    BY <2>0, <2>2 DEF RegistersOf
  <2>3. QED
    BY <2>1, <2>2, IdsSteps
<1>4. QED
  BY <1>0, <1>1, <1>2, <1>3, HostStep DEF TypeOK, ThreadsTyped

LEMMA InitIInv == Init => IInv
<1> SUFFICES ASSUME Init PROVE IInv
  OBVIOUS
<1>1. TableInv
  BY SameOperations, TableBounds, Table!InitIInv, Table!InitOwnInv DEF TableInv, Table!TableInv, Init
<1>2. /\ initialized = FALSE /\ keys = {} /\ connected = {} /\ opens = 0 /\ epoch = 0
  BY DEF Init, Bridge!Init
<1>3. MaxOpens \in Nat /\ \A i \in Ids : i > 0
  BY BoundsAssumption DEF Ids
<1>4. /\ state = "not_started" /\ host = "none" /\ held = FALSE /\ lock = NoThread /\ reply = NoReply
      /\ pc = [t \in Threads |-> "idle"] /\ call = [t \in Threads |-> NoCall]
      /\ verdict = [t \in Threads |-> Nothing] /\ counter = 0
      /\ handles = [i \in Ids |-> NoHandle] /\ given = [i \in Ids |-> NoSession] /\ ended = {}
  BY DEF Init
<1>5. TypeOK
  <2>1. Nothing \in VerdictRecord
    BY DEF Nothing, VerdictRecord
  <2>2. QED
    <3>1. /\ pc \in [Threads -> Labels]
          /\ call \in [Threads -> CallRecord] /\ verdict \in [Threads -> VerdictRecord]
          /\ handles \in [Ids -> Handle] /\ given \in [Ids -> Ids \cup {NoSession}]
      BY <1>4, <2>1, CallRecords DEF Labels
    <3>2. counter \in 0..MaxOpens
      BY <1>3, <1>4
    <3>3. {initialized, held} \subseteq BOOLEAN
      BY <1>2, <1>4
    <3>4. QED
      BY <1>2, <1>4, <3>1, <3>2, <3>3, CallRecords DEF TypeOK
<1>6. LockInv
  BY <1>2, <1>4 DEF LockInv
<1>7. CallsFit /\ ClosedGone /\ NoOrphan /\ ReachesOwn
  BY <1>2, <1>4, CallRecords DEF CallsFit, CallFits, ClosedGone, NoOrphan, ReachesOwn, CallsReachOwn,
                                OnSession, Registering
<1>8. IdsInv /\ Serial
  <2>1. \A t \in Threads : Pending(t) = 0 /\ call[t].op = "none" /\ pc[t] = "idle"
    BY <1>4, CallRecords DEF Pending, NoSession, Registering
  <2>2. \A i \in Ids : given[i] = 0 /\ handles[i] = NoHandle
    BY <1>4 DEF NoSession
  <2>3. 0 \in 0..opens /\ NoSession = 0
    BY <1>2 DEF NoSession
  <2>4. IdsInv
    BY <2>1, <2>2, <2>3 DEF IdsInv
  <2>5. Serial
    BY <1>4, <2>1, <2>2, <2>3 DEF Serial, OnSession
  <2>6. QED
    BY <2>4, <2>5
<1>9. RetryInv
  <2>1. \A t \in Threads : verdict[t].answer # "connect_timeout"
    BY <1>4 DEF Nothing
  <2>2. ~Retrying
    BY <1>4, CallRecords DEF Retrying
  <2>3. QED
    BY <1>2, <1>4, <2>1, <2>2 DEF RetryInv, RetryClearsHeld
<1>10. QED
  BY <1>1, <1>5, <1>6, <1>7, <1>8, <1>9 DEF IInv

LEMMA NextIInv == IInv /\ [Next]_vars => IInv'
<1> SUFFICES ASSUME IInv, [Next]_vars PROVE IInv'
  OBVIOUS
<1>1. TableInv' /\ TypeOK' /\ LockInv' /\ CallsFit' /\ IdsInv' /\ ClosedGone' /\ RetryInv'
  BY TableGrows, TypeStep, LockStep, CallsStep, IdsStep, ClosedStep, RetryStep
<1>2. ~Overlap => Serial' /\ NoOrphan' /\ ReachesOwn'
  BY SerialStep, OrphanStep, ReachStep
<1>3. QED
  BY <1>1, <1>2 DEF IInv

LEMMA Invariance == Spec => []IInv
  BY InitIInv, NextIInv, PTL DEF Spec

-----------------------------------------------------------------------------
\* The variables of the backend and of its calls stay within their types, and a
\* vendor library runs in a running process only.
THEOREM TypeCorrect == Spec => []TypeOK
<1>1. IInv => TypeOK
  BY DEF IInv
<1>2. QED
  BY <1>1, Invariance, PTL

\* While calls of open_session do not overlap, and whatever else the threads do
\* and however the process ends, a session that the helper keeps connected has
\* somebody who can close it: an id, or the call that opens or closes it
\* (open_session, close_session, _cleanup_process).  With two opens at once the
\* second can be given the id of the first, and the first is nobody's.
THEOREM NothingOrphaned == ~Overlap => (Spec => []NoOrphan)
<1>1. IInv /\ ~Overlap => NoOrphan
  BY DEF IInv
<1>2. SUFFICES ASSUME ~Overlap PROVE Spec => []NoOrphan
  OBVIOUS
<1>3. IInv => NoOrphan
  BY <1>1, <1>2
<1>4. QED
  BY <1>3, Invariance, PTL

\* While calls of open_session do not overlap, a call through a session id
\* reaches the session of that id or none, as long as the backend has had one
\* helper process (docs/architecture.md: "a retired session id fails cleanly").
\* With a second process this is not true: its table begins anew, and a handle
\* looked up before may be issued again.
THEOREM OwnSessionReached == ~Overlap => (Spec => [](epoch <= 1 => CallsReachOwn))
<1>1. IInv /\ ~Overlap => (epoch <= 1 => CallsReachOwn)
  BY DEF IInv, ReachesOwn
<1>2. SUFFICES ASSUME ~Overlap PROVE Spec => [](epoch <= 1 => CallsReachOwn)
  OBVIOUS
<1>3. IInv => (epoch <= 1 => CallsReachOwn)
  BY <1>1, <1>2
<1>4. QED
  BY <1>3, Invariance, PTL

\* While calls of open_session do not overlap, an id that close_session or
\* shutdown ended names no handle again, through any number of processes: the
\* number of a new session is taken by nobody else between its reading and its
\* use.
THEOREM RetiredStaysRetired == ~Overlap => (Spec => []RetiredNamesNothing)
<1>1. IInv /\ ~Overlap => RetiredNamesNothing
  BY DEF IInv, Serial, RetiredNamesNothing
<1>2. SUFFICES ASSUME ~Overlap PROVE Spec => []RetiredNamesNothing
  OBVIOUS
<1>3. IInv => RetiredNamesNothing
  BY <1>1, <1>2
<1>4. QED
  BY <1>3, Invariance, PTL

\* One retry recovers a camera left with the transport of a process that died,
\* as long as the backend has had two processes (_open_with_retry).  A third can
\* die between the two attempts and leave the camera held again.
THEOREM OneRetryIsEnough == Spec => [](epoch <= 2 => RetryClearsHeld)
<1>1. IInv => (epoch <= 2 => RetryClearsHeld)
  BY DEF IInv, RetryInv
<1>2. QED
  BY <1>1, Invariance, PTL
=============================================================================
