------------------------- MODULE EventStream_proofs -------------------------
(***************************************************************************)
(* Proofs about the events of one session: the thread that waits for the   *)
(* connection, the bounded queue, the two streams of the Session, the      *)
(* state it knows and the postviews it pulls, for any size of the queue    *)
(* and of a batch and any number of events and captures.                   *)
(***************************************************************************)
EXTENDS EventStream, WellFoundedInduction, FiniteSetTheorems, TLAPS

Kinds == {"connection", "property", "content", "warning"} \cup Reported
Carries == ConnectionStates \cup {NoState}
Queued == [n : Nat, kind : Kinds, to : Carries, shot : Nat]
Decoded == [n : Nat, type : {TypeOf(k) : k \in Kinds}, to : Carries, shot : Nat]

BridgeTyped ==
  /\ state \in ConnectionStates
  /\ announced \in Nat /\ waiting \in {None, announced}
  /\ previews \in Seq(Nat)
EventsTyped ==
  /\ queue \in Seq(Queued) /\ dropped \subseteq Queued /\ pushed \in Nat
  /\ user \in Seq(Decoded) /\ ops \in Seq(Decoded)
  /\ got \subseteq Decoded /\ opGot \subseteq Decoded

\* What a callback that is under way has still to do.  A state that was stored is
\* followed by its event, an announcement by its own.
Plain(e) == /\ e.kind \in Kinds \ {"connection"} /\ e.to = NoState /\ e.shot \in 0..announced
            /\ e = Event(e.kind, e.to, e.shot)
Storing(s) == vendor = <<Store(s), Pushing(Change(s))>>
Stored(s) == vendor = <<Pushing(Change(s))>> /\ state = s
Announcing(k) ==
  vendor = <<Announce(k), Pushing(Event("content", NoState, k))>> /\ announced < k
Telling(e) == vendor = <<Pushing(e)>> /\ Plain(e)
TellingTwo(e, f) == vendor = <<Pushing(e), Pushing(f)>> /\ Plain(e) /\ Plain(f)
Events == [kind : Kinds, to : Carries, shot : Nat]
VendorInOrder ==
  /\ opener = "new" => vendor = <<>>
  /\ \/ vendor = <<>>
     \/ \E s \in ConnectionStates : Storing(s) \/ Stored(s)
     \/ \E k \in Nat : Announcing(k)
     \/ \E e \in Events : Telling(e)
     \/ \E e, f \in Events : TellingTwo(e, f)

\* Who found nothing to wake for sleeps only as long as that is so, or a push
\* that will wake it is still to come.
WaiterLooked ==
  opener \in {"locked", "asleep"} /\ vendor = <<>> => state \notin Connected

(* The numbers of events: what left the queue, and what is in it.          *)
Floor == pushed - Len(queue)
QueueNumbered ==
  /\ Len(queue) <= MaxQueued /\ Floor \in Nat
  /\ \A i \in 1..Len(queue) : queue[i].n = Floor + i
DropsOldest ==
  /\ IsFiniteSet(dropped)
  /\ \A e \in dropped : e.n \in 1..Floor /\ e.n + MaxQueued <= pushed

\* A stream: what was taken from it, and what it holds in order, are what left
\* the queue alive.
Increasing(held) == \A i, j \in 1..Len(held) : i < j => held[i].n < held[j].n
Apart(taken, held) == \A e \in taken, i \in 1..Len(held) : e.n # held[i].n
NumberedTo(taken, held, floor) ==
  /\ \A e \in taken : e.n \in 1..floor
  /\ \A i \in 1..Len(held) : held[i].n \in 1..floor
StreamWhole(taken, held, floor, lost) ==
  /\ IsFiniteSet(taken)
  /\ NumberedTo(taken, held, floor) /\ Increasing(held) /\ Apart(taken, held)
  /\ Numbers(taken) \cup Numbers(ToSet(held)) = (1..floor) \ Numbers(lost)
  /\ Cardinality(taken) + Len(held) = floor - Cardinality(lost)
StreamsWhole ==
  /\ StreamWhole(got, user, Floor, dropped)
  /\ StreamWhole(opGot, ops, Floor, dropped)

\* Nothing that was taken is newer than what is held of its type.
TakenInOrder ==
  \A e \in got, i \in 1..Len(user) : e.type = user[i].type => e.n < user[i].n

(* The state, as the bridge has it and as the Session learns of it.        *)
ChangePending ==
  vendor # <<>> /\ vendor[1].do = "push" /\ vendor[1].arg.kind = "connection"
Live == opener # "failed" /\ ~closed /\ ~gone
IsConnection(e) == e.kind = "connection"
NewestQueued(i) ==
  /\ i \in 1..Len(queue) /\ IsConnection(queue[i])
  /\ \A j \in 1..Len(queue) : j > i => ~IsConnection(queue[j])
HeardLast ==
  \E e \in got \cup ToSet(user) :
    /\ e.type = "ConnectionEvent"
    /\ \A d \in dropped : IsConnection(d) => d.n < e.n
StateTold ==
  Live /\ ~ChangePending =>
    /\ \A i \in 1..Len(queue) : NewestQueued(i) => queue[i].to = state
    /\ (\A i \in 1..Len(queue) : ~IsConnection(queue[i])) /\ HeardLast => known = state

(* Postviews.                                                              *)
ShotsAnnounced ==
  /\ \A i \in 1..Len(queue) : queue[i].shot <= announced
  /\ \A e \in got \cup ToSet(user) : e.shot <= announced
PostviewsClaimed ==
  /\ \A c \in 1..Len(previews) : previews[c] <= announced
  /\ waiting # None => \A c \in 1..Len(previews) : previews[c] # waiting
  /\ \A c, d \in 1..Len(previews) : previews[c] = previews[d] /\ c # d => previews[c] = None
  /\ announced # None => waiting = announced \/ announced \in claimed

\* What the callbacks and the client do to the bridge's side, and what the events
\* go through.
BridgeInv ==
  BridgeTyped /\ VendorInOrder /\ WaiterLooked /\ PostviewsClaimed
EventsInv ==
  /\ EventsTyped /\ QueueNumbered /\ DropsOldest
  /\ StreamsWhole /\ TakenInOrder
  /\ StateTold /\ ShotsAnnounced
IInv == BridgeInv /\ EventsInv

-----------------------------------------------------------------------------
(* Numbers and sequences.                                                  *)

\* The least of a set of numbers: initial segments are well-founded by strict
\* inclusion.
LEMMA MinFacts ==
  ASSUME NEW S \in SUBSET Nat, S # {}
  PROVE  Min(S) \in S /\ \A x \in S : Min(S) <= x
<1> DEFINE T == {1..x : x \in S}
<1>0. \A x \in S : 1..x \in FiniteSubsetsOf(Nat)
  BY FS_Interval DEF FiniteSubsetsOf
<1>1. T \subseteq FiniteSubsetsOf(Nat) /\ T # {}
  BY <1>0
<1>2. PICK X \in T : \A Y \in T : ~(<<Y, X>> \in StrictSubsetOrdering(Nat))
  BY <1>1, FS_StrictSubsetOrderingWellFounded, WFMin
<1>3. PICK x \in S : X = 1..x
  OBVIOUS
<1>4. ASSUME NEW y \in S PROVE x <= y
  <2> SUFFICES ASSUME y < x PROVE FALSE
    OBVIOUS
  <2>0. x \in S
    BY <1>3
  <2>1. 1..y \in SUBSET Nat /\ 1..x \in SUBSET Nat /\ 1..y \subseteq 1..x /\ x \in 1..x /\ x \notin 1..y
    OBVIOUS
  <2>2. <<1..y, 1..x>> \in StrictSubsetOrdering(Nat)
    BY <2>1 DEF StrictSubsetOrdering
  <2>3. QED
    BY <1>2, <1>3, <2>2
<1>5. QED
  BY <1>4 DEF Min

LEMMA MaxFacts ==
  ASSUME NEW S \in SUBSET Nat, S # {}, NEW n \in Nat, \A x \in S : x <= n
  PROVE  Max(S) \in S /\ \A x \in S : Max(S) >= x
<1> DEFINE T == {n - x : x \in S}
<1>0. \A x \in S : n - x \in Nat
  OBVIOUS
<1>1. T \in SUBSET Nat /\ T # {}
  BY <1>0
<1>2. Min(T) \in T /\ \A y \in T : Min(T) <= y
  BY <1>1, MinFacts
<1>3. PICK x \in S : Min(T) = n - x
  BY <1>2
<1>4. \A y \in S : n - x <= n - y
  BY <1>2, <1>3
<1>5. \A y \in S : x >= y
  BY <1>4
<1>6. QED
  BY <1>5 DEF Max

LEMMA RemoveFacts ==
  ASSUME NEW S, NEW s \in Seq(S), NEW i \in 1..Len(s)
  PROVE  /\ RemoveAt(s, i) \in Seq(S) /\ Len(RemoveAt(s, i)) = Len(s) - 1
         /\ \A k \in 1..(Len(s) - 1) : RemoveAt(s, i)[k] = IF k < i THEN s[k] ELSE s[k + 1]
<1> DEFINE a == SubSeq(s, 1, i - 1)
           b == SubSeq(s, i + 1, Len(s))
<1>1. /\ a \in Seq(S) /\ Len(a) = i - 1
      /\ \A k \in 1..(i - 1) : a[k] = s[k]
  OBVIOUS
<1>2. /\ b \in Seq(S) /\ Len(b) = Len(s) - i
      /\ \A k \in 1..(Len(s) - i) : b[k] = s[i + k]
  OBVIOUS
<1>3. RemoveAt(s, i) = a \o b
  BY DEF RemoveAt
<1> HIDE DEF a, b
<1>0. Len(s) \in Nat
  OBVIOUS
<1>4. /\ a \o b \in Seq(S) /\ Len(a \o b) = Len(s) - 1
  <2>0. a \in Seq(S) /\ b \in Seq(S)
    BY <1>1, <1>2
  <2>1. a \o b \in Seq(S) /\ Len(a \o b) = Len(a) + Len(b)
    BY <2>0
  <2>2. QED
    BY <1>0, <1>1, <1>2, <2>1
<1>5. ASSUME NEW k \in 1..(Len(s) - 1) PROVE (a \o b)[k] = IF k < i THEN s[k] ELSE s[k + 1]
  <2>1. CASE k < i
    BY <1>1, <1>2, <2>1
  <2>2. CASE k >= i
    <3>1. (a \o b)[k] = b[k - (i - 1)]
      BY <1>1, <1>2, <2>2
    <3>2. k - (i - 1) \in 1..(Len(s) - i) /\ i + (k - (i - 1)) = k + 1
      BY <2>2
    <3>3. QED
      BY <1>2, <2>2, <3>1, <3>2
  <2>3. k < i \/ k >= i
    BY <1>0
  <2>4. QED
    BY <2>1, <2>2, <2>3
<1>6. QED
  BY <1>3, <1>4, <1>5

LEMMA TailFacts ==
  ASSUME NEW S, NEW s \in Seq(S), s # <<>>
  PROVE  /\ Tail(s) \in Seq(S) /\ Len(Tail(s)) = Len(s) - 1 /\ 1 \in 1..Len(s) /\ Head(s) = s[1]
         /\ \A k \in 1..(Len(s) - 1) : Tail(s)[k] = s[k + 1]
  OBVIOUS

LEMMA AppendFacts ==
  ASSUME NEW S, NEW s \in Seq(S), NEW e \in S
  PROVE  /\ Append(s, e) \in Seq(S) /\ Len(Append(s, e)) = Len(s) + 1
         /\ \A i \in 1..Len(s) : Append(s, e)[i] = s[i]
         /\ Append(s, e)[Len(s) + 1] = e
  OBVIOUS

LEMMA ConcatFacts ==
  ASSUME NEW S, NEW s \in Seq(S), NEW t \in Seq(S)
  PROVE  /\ s \o t \in Seq(S) /\ Len(s \o t) = Len(s) + Len(t)
         /\ \A i \in 1..Len(s) : (s \o t)[i] = s[i]
         /\ \A i \in (Len(s) + 1)..(Len(s) + Len(t)) : (s \o t)[i] = t[i - Len(s)]
         /\ ToSet(s \o t) = ToSet(s) \cup ToSet(t)
<1>1. /\ s \o t \in Seq(S) /\ Len(s \o t) = Len(s) + Len(t)
      /\ \A i \in 1..Len(s) : (s \o t)[i] = s[i]
      /\ \A i \in (Len(s) + 1)..(Len(s) + Len(t)) : (s \o t)[i] = t[i - Len(s)]
  OBVIOUS
<1>2. \A i \in 1..Len(t) : (s \o t)[Len(s) + i] = t[i]
  OBVIOUS
<1>3. ToSet(s) \subseteq ToSet(s \o t)
  BY <1>1 DEF ToSet
<1>4. ToSet(t) \subseteq ToSet(s \o t)
  <2> SUFFICES ASSUME NEW i \in 1..Len(t) PROVE t[i] \in ToSet(s \o t)
    BY SMTT(30) DEF ToSet
  <2>1. Len(s) + i \in DOMAIN (s \o t)
    BY <1>1
  <2>2. QED
    BY <1>2, <2>1 DEF ToSet
<1>5. ToSet(s \o t) \subseteq ToSet(s) \cup ToSet(t)
  <2> SUFFICES ASSUME NEW i \in 1..(Len(s) + Len(t))
               PROVE  (s \o t)[i] \in ToSet(s) \cup ToSet(t)
    BY <1>1 DEF ToSet
  <2>1. CASE i <= Len(s)
    BY <1>1, <2>1 DEF ToSet
  <2>2. CASE i > Len(s)
    <3>1. i - Len(s) \in 1..Len(t) /\ (s \o t)[i] = t[i - Len(s)]
      BY <1>1, <2>2
    <3>2. QED
      BY <3>1 DEF ToSet
  <2>3. QED
    BY <2>1, <2>2
<1>6. QED
  BY <1>1, <1>3, <1>4, <1>5

\* A sequence without repetition has as many elements as places.
LEMMA DistinctCount ==
  ASSUME NEW S, NEW s \in Seq(S), \A i, j \in 1..Len(s) : i # j => s[i] # s[j]
  PROVE  IsFiniteSet(ToSet(s)) /\ Cardinality(ToSet(s)) = Len(s)
<1> DEFINE f == [i \in 1..Len(s) |-> s[i]]
<1>1. Len(s) \in Nat /\ IsFiniteSet(1..Len(s)) /\ Cardinality(1..Len(s)) = Len(s)
  BY FS_Interval
<1>2. ToSet(s) = {s[i] : i \in 1..Len(s)}
  BY DEF ToSet
<1>3. f \in Bijection(1..Len(s), ToSet(s))
  BY <1>2 DEF Bijection, Injection, Surjection, IsInjective
<1>4. ExistsBijection(1..Len(s), ToSet(s))
  BY <1>3 DEF ExistsBijection
<1>5. QED
  BY <1>1, <1>4, FS_Bijection

-----------------------------------------------------------------------------
(* One stream, whatever is done to it.                                     *)

LostBefore(lost, floor) == IsFiniteSet(lost) /\ \A d \in lost : d.n \in 1..floor

LEMMA StreamParts ==
  ASSUME NEW taken, NEW held, NEW floor, NEW lost,
         IsFiniteSet(taken), NumberedTo(taken, held, floor), Increasing(held), Apart(taken, held),
         Numbers(taken) \cup Numbers(ToSet(held)) = (1..floor) \ Numbers(lost),
         Cardinality(taken) + Len(held) = floor - Cardinality(lost)
  PROVE  StreamWhole(taken, held, floor, lost)
  BY DEF StreamWhole

LEMMA StreamEmpty == StreamWhole({}, <<>>, 0, {}) /\ IsFiniteSet({})
<1>1. /\ IsFiniteSet({}) /\ Cardinality({}) = 0 /\ Len(<<>>) = 0
      /\ Numbers({}) = {} /\ ToSet(<<>>) = {} /\ 1..0 = {}
  BY FS_EmptySet DEF Numbers, ToSet
<1>2. \A i \in 1..Len(<<>>) : FALSE
  BY <1>1
<1>3. Numbers({}) \cup Numbers(ToSet(<<>>)) = (1..0) \ Numbers({})
  BY <1>1
<1>4. Cardinality({}) + Len(<<>>) = 0 - Cardinality({})
  BY <1>1
<1>5. QED
  BY <1>1, <1>2, <1>3, <1>4 DEF StreamWhole, NumberedTo, Increasing, Apart

\* A batch comes in behind what is held.
LEMMA StreamGrows ==
  ASSUME NEW taken, NEW held \in Seq(Decoded), NEW floor \in Nat, NEW lost,
         StreamWhole(taken, held, floor, lost), LostBefore(lost, floor),
         NEW batch \in Seq(Decoded), \A i \in 1..Len(batch) : batch[i].n = floor + i
  PROVE  StreamWhole(taken, held \o batch, floor + Len(batch), lost)
<1> DEFINE new == held \o batch
           b == Len(batch)
           h == Len(held)
<1>1. /\ Len(new) = h + b /\ h \in Nat /\ b \in Nat
      /\ \A i \in 1..h : new[i] = held[i]
      /\ \A i \in (h + 1)..(h + b) : new[i] = batch[i - h]
      /\ ToSet(new) = ToSet(held) \cup ToSet(batch)
  BY ConcatFacts
<1> HIDE DEF new
<1>0. /\ \A i \in 1..h : held[i].n \in 1..floor
      /\ \A i, j \in 1..h : i < j => held[i].n < held[j].n
      /\ \A e \in taken : e.n \in 1..floor
  BY DEF StreamWhole, NumberedTo, Increasing, Apart
<1>2. \A i \in (h + 1)..(h + b) : new[i].n = floor + (i - h)
  <2> SUFFICES ASSUME NEW i \in (h + 1)..(h + b) PROVE new[i].n = floor + (i - h)
    OBVIOUS
  <2>1. i - h \in 1..b
    BY <1>1
  <2>2. QED
    BY <1>1, <2>1
<1>3. \A i \in 1..h : new[i].n \in 1..floor
  BY <1>0, <1>1
<1> HIDE DEF b, h
<1>4. \A i \in 1..Len(new) : new[i].n \in 1..(floor + b)
  <2> SUFFICES ASSUME NEW i \in 1..Len(new) PROVE new[i].n \in 1..(floor + b)
    OBVIOUS
  <2>1. CASE i <= h
    <3>1. new[i].n \in 1..floor
      BY <1>1, <1>3, <2>1
    <3>2. QED
      BY <1>1, <3>1
  <2>2. CASE i > h
    <3>1. new[i].n = floor + (i - h) /\ i - h \in 1..b
      BY <1>1, <1>2, <2>2
    <3>2. QED
      BY <1>1, <3>1
  <2>3. QED
    BY <1>1, <2>1, <2>2
<1>5. ASSUME NEW i \in 1..Len(new), NEW j \in 1..Len(new), i < j PROVE new[i].n < new[j].n
  <2>1. CASE j <= h
    BY <1>0, <1>1, <1>5, <2>1
  <2>2. CASE i <= h /\ j > h
    <3>1. new[i].n \in 1..floor /\ new[j].n = floor + (j - h) /\ j - h > 0
      BY <1>1, <1>2, <1>3, <2>2
    <3>2. QED
      BY <1>1, <3>1
  <2>3. CASE i > h
    BY <1>1, <1>2, <1>5, <2>3
  <2>4. QED
    BY <1>1, <2>1, <2>2, <2>3
<1>6. ASSUME NEW e \in taken, NEW i \in 1..Len(new) PROVE e.n # new[i].n
  <2>1. CASE i <= h
    BY <1>1, <2>1 DEF StreamWhole, NumberedTo, Increasing, Apart, h
  <2>2. CASE i > h
    <3>1. e.n \in 1..floor /\ new[i].n = floor + (i - h)
      BY <1>0, <1>1, <1>2, <2>2
    <3>2. QED
      BY <1>1, <2>2, <3>1
  <2>3. QED
    BY <1>1, <2>1, <2>2
<1>7. Numbers(ToSet(batch)) = (floor + 1)..(floor + b)
  <2>1. Numbers(ToSet(batch)) \subseteq (floor + 1)..(floor + b)
    <3>1. \A i \in 1..b : floor + i \in (floor + 1)..(floor + b)
      BY <1>1
    <3>2. QED
      BY <3>1 DEF Numbers, ToSet, b
  <2>2. ASSUME NEW m \in (floor + 1)..(floor + b) PROVE m \in Numbers(ToSet(batch))
    <3>1. m - floor \in 1..b /\ floor + (m - floor) = m
      BY <1>1
    <3>2. m - floor \in DOMAIN batch /\ batch[m - floor].n = m
      BY <3>1 DEF b
    <3>3. QED
      BY <3>2 DEF Numbers, ToSet
  <2>3. QED
    BY <2>1, <2>2
<1>8. Numbers(taken) \cup Numbers(ToSet(new)) = (1..(floor + b)) \ Numbers(lost)
  <2>1. Numbers(ToSet(new)) = Numbers(ToSet(held)) \cup Numbers(ToSet(batch))
    BY <1>1 DEF Numbers
  <2>2. \A d \in Numbers(lost) : d \in 1..floor
    BY DEF Numbers, LostBefore
  <2>3. 1..(floor + b) = (1..floor) \cup ((floor + 1)..(floor + b))
    BY <1>1
  <2>4. ((floor + 1)..(floor + b)) \cap Numbers(lost) = {}
    BY <1>1, <2>2
  <2>5. QED
    BY <1>7, <2>1, <2>3, <2>4 DEF StreamWhole, NumberedTo, Increasing, Apart
<1>9. Cardinality(taken) + Len(new) = (floor + b) - Cardinality(lost)
  <2>1. Cardinality(taken) + h = floor - Cardinality(lost)
    BY DEF StreamWhole, NumberedTo, Increasing, Apart, h
  <2>2. Cardinality(taken) \in Nat /\ Cardinality(lost) \in Nat
    BY FS_CardinalityType DEF StreamWhole, NumberedTo, Increasing, Apart, LostBefore
  <2> DEFINE c == Cardinality(taken)
             l == Cardinality(lost)
             n == Len(new)
  <2>3. n = h + b /\ c + h = floor - l /\ c \in Nat /\ l \in Nat /\ n \in Nat
    BY <1>1, <2>1, <2>2
  <2> HIDE DEF c, l, n
  <2>4. c + n = (floor + b) - l
    BY <1>1, <2>3
  <2>5. QED
    BY <2>4 DEF c, l, n
<1>10. \A e \in taken : e.n \in 1..(floor + b)
  BY <1>0, <1>1
<1>11. IsFiniteSet(taken)
  BY DEF StreamWhole, NumberedTo, Increasing, Apart
<1>12. StreamWhole(taken, new, floor + b, lost)
  <2>1. NumberedTo(taken, new, floor + b) /\ Increasing(new) /\ Apart(taken, new)
    BY <1>4, <1>5, <1>6, <1>10 DEF NumberedTo, Increasing, Apart
  <2>2. QED
    BY <1>8, <1>9, <1>11, <2>1, StreamParts
<1>13. QED
  BY <1>12 DEF new, b

\* The event that would have come in next is lost.
LEMMA StreamLoses ==
  ASSUME NEW taken, NEW held \in Seq(Decoded), NEW floor \in Nat, NEW lost,
         StreamWhole(taken, held, floor, lost), LostBefore(lost, floor),
         NEW x, x.n = floor + 1
  PROVE  /\ StreamWhole(taken, held, floor + 1, lost \cup {x})
         /\ LostBefore(lost \cup {x}, floor + 1)
<1>1. x \notin lost
  BY DEF LostBefore
<1>2. /\ IsFiniteSet(lost \cup {x}) /\ Cardinality(lost) \in Nat
      /\ Cardinality(lost \cup {x}) = Cardinality(lost) + 1
  BY <1>1, FS_AddElement, FS_CardinalityType DEF LostBefore
<1>3. Numbers(lost \cup {x}) = Numbers(lost) \cup {floor + 1}
  BY DEF Numbers
<1>4. 1..(floor + 1) = (1..floor) \cup {floor + 1} /\ floor + 1 \notin 1..floor
  OBVIOUS
<1>5. Cardinality(taken) + Len(held) = (floor + 1) - Cardinality(lost \cup {x})
  <2>1. Cardinality(taken) \in Nat /\ Len(held) \in Nat
    BY FS_CardinalityType DEF StreamWhole, NumberedTo, Increasing, Apart
  <2>2. Cardinality(taken) + Len(held) = floor - Cardinality(lost)
    BY DEF StreamWhole, NumberedTo, Increasing, Apart
  <2>3. QED
    BY <1>2, <2>1, <2>2
<1>6. Numbers(taken) \cup Numbers(ToSet(held)) = (1..(floor + 1)) \ Numbers(lost \cup {x})
  BY <1>3, <1>4 DEF StreamWhole, NumberedTo, Increasing, Apart
<1>7. /\ \A e \in taken : e.n \in 1..(floor + 1)
      /\ \A i \in 1..Len(held) : held[i].n \in 1..(floor + 1)
      /\ \A d \in lost \cup {x} : d.n \in 1..(floor + 1)
  BY DEF StreamWhole, NumberedTo, Increasing, Apart, LostBefore
<1>8. StreamWhole(taken, held, floor + 1, lost \cup {x})
  <2>0. IsFiniteSet(taken) /\ Increasing(held) /\ Apart(taken, held)
    BY DEF StreamWhole
  <2>1. NumberedTo(taken, held, floor + 1)
    BY <1>7 DEF NumberedTo
  <2>2. QED
    BY <1>5, <1>6, <2>0, <2>1, StreamParts
<1>9. QED
  BY <1>2, <1>7, <1>8 DEF LostBefore

\* One of the events held is taken, from wherever it is.
LEMMA StreamTakesOne ==
  ASSUME NEW taken, NEW held \in Seq(Decoded), NEW floor \in Nat, NEW lost,
         StreamWhole(taken, held, floor, lost), LostBefore(lost, floor),
         NEW i \in 1..Len(held), NEW rest \in Seq(Decoded), Len(rest) = Len(held) - 1,
         \A k \in 1..(Len(held) - 1) : rest[k] = IF k < i THEN held[k] ELSE held[k + 1]
  PROVE  StreamWhole(taken \cup {held[i]}, rest, floor, lost)
<1> DEFINE at(k) == IF k < i THEN k ELSE k + 1
           x == held[i]
<1>0. Len(held) \in Nat /\ Len(rest) \in Nat /\ i \in Nat
  OBVIOUS
<1>1. \A k \in 1..Len(rest) : at(k) \in 1..Len(held) /\ at(k) # i /\ rest[k] = held[at(k)]
  BY <1>0
<1>2. \A k \in 1..Len(held) : k # i => \E m \in 1..Len(rest) : at(m) = k
  <2> SUFFICES ASSUME NEW k \in 1..Len(held), k # i PROVE \E m \in 1..Len(rest) : at(m) = k
    OBVIOUS
  <2>1. CASE k < i
    <3>1. k \in 1..Len(rest) /\ at(k) = k
      BY <1>0, <2>1
    <3>2. QED
      BY <3>1
  <2>2. CASE k > i
    <3>1. k - 1 \in 1..Len(rest) /\ at(k - 1) = k
      BY <1>0, <2>2
    <3>2. QED
      BY <3>1
  <2>3. QED
    BY <1>0, <2>1, <2>2
<1>3. \A k, m \in 1..Len(rest) : k < m => at(k) < at(m)
  BY <1>0
<1> HIDE DEF at
<1>4. \A k \in 1..Len(held) : held[k].n \in 1..floor
  BY DEF StreamWhole, NumberedTo, Increasing, Apart
<1>5. ASSUME NEW k \in 1..Len(held), k # i PROVE held[k].n # x.n
  BY <1>0, <1>4, <1>5 DEF StreamWhole, NumberedTo, Increasing, Apart
<1>6. x \notin taken /\ x.n \in 1..floor
  BY <1>4 DEF StreamWhole, NumberedTo, Increasing, Apart
<1>7. /\ IsFiniteSet(taken \cup {x}) /\ Cardinality(taken) \in Nat
      /\ Cardinality(taken \cup {x}) = Cardinality(taken) + 1
  BY <1>6, FS_AddElement, FS_CardinalityType DEF StreamWhole, NumberedTo, Increasing, Apart
<1>8. Cardinality(taken \cup {x}) + Len(rest) = floor - Cardinality(lost)
  BY <1>0, <1>7, FS_CardinalityType DEF StreamWhole, NumberedTo, Increasing, Apart, LostBefore
<1>9. Numbers(taken \cup {x}) \cup Numbers(ToSet(rest)) = (1..floor) \ Numbers(lost)
  <2>1. ToSet(held) = ToSet(rest) \cup {x}
    <3>1. ToSet(rest) \cup {x} \subseteq ToSet(held)
      <4>1. \A k \in 1..Len(held) : held[k] \in ToSet(held)
        BY DEF ToSet
      <4>2. \A k \in 1..Len(rest) : rest[k] \in ToSet(held)
        BY <1>1, <4>1
      <4>3. ToSet(rest) \subseteq ToSet(held)
        BY <4>2 DEF ToSet
      <4>4. QED
        BY <4>1, <4>3
    <3>2. ASSUME NEW k \in 1..Len(held), k # i PROVE held[k] \in ToSet(rest)
      <4>1. PICK m \in 1..Len(rest) : at(m) = k
        BY <1>2, <3>2
      <4>2. m \in DOMAIN rest /\ rest[m] = held[k]
        BY <1>1, <4>1
      <4>3. QED
        BY <4>2 DEF ToSet
    <3>3. ToSet(held) \subseteq ToSet(rest) \cup {x}
      BY <3>2 DEF ToSet
    <3>4. QED
      BY <3>1, <3>3
  <2>2. QED
    BY SMTT(30), <2>1 DEF StreamWhole, NumberedTo, Increasing, Apart, Numbers
<1>10. \A k \in 1..Len(rest) : rest[k].n \in 1..floor
  BY <1>1, <1>4
<1>11. \A k, m \in 1..Len(rest) : k < m => rest[k].n < rest[m].n
  BY <1>1, <1>3 DEF StreamWhole, NumberedTo, Increasing, Apart
<1>12. \A e \in taken \cup {x}, k \in 1..Len(rest) : e.n # rest[k].n
  BY <1>1, <1>5 DEF StreamWhole, NumberedTo, Increasing, Apart
<1>13. \A e \in taken \cup {x} : e.n \in 1..floor
  BY <1>6 DEF StreamWhole, NumberedTo, Increasing, Apart
<1>14. QED
  BY <1>7, <1>8, <1>9, <1>10, <1>11, <1>12, <1>13 DEF StreamWhole, NumberedTo, Increasing, Apart

\* All of it is taken.
LEMMA StreamTakesAll ==
  ASSUME NEW taken, NEW held \in Seq(Decoded), NEW floor \in Nat, NEW lost,
         StreamWhole(taken, held, floor, lost), LostBefore(lost, floor)
  PROVE  StreamWhole(taken \cup ToSet(held), <<>>, floor, lost)
<1>0. Len(held) \in Nat /\ Len(<<>>) = 0 /\ ToSet(<<>>) = {}
  BY DEF ToSet
<1>1. \A i, j \in 1..Len(held) : i # j => held[i] # held[j]
  <2> SUFFICES ASSUME NEW i \in 1..Len(held), NEW j \in 1..Len(held), i # j
               PROVE  held[i] # held[j]
    OBVIOUS
  <2>1. held[i].n \in 1..floor /\ held[j].n \in 1..floor
    BY DEF StreamWhole, NumberedTo, Increasing, Apart
  <2>2. held[i].n < held[j].n \/ held[j].n < held[i].n
    BY <1>0 DEF StreamWhole, NumberedTo, Increasing, Apart
  <2>3. QED
    BY <2>1, <2>2
<1>2. IsFiniteSet(ToSet(held)) /\ Cardinality(ToSet(held)) = Len(held)
  BY <1>1, DistinctCount
<1>3. taken \cap ToSet(held) = {}
  BY DEF StreamWhole, NumberedTo, Increasing, Apart, ToSet
<1>4. /\ IsFiniteSet(taken \cup ToSet(held))
      /\ Cardinality(taken \cup ToSet(held)) = Cardinality(taken) + Len(held)
      /\ Cardinality(taken) \in Nat
  <2>1. IsFiniteSet(taken) /\ Cardinality(taken) \in Nat
    BY FS_CardinalityType DEF StreamWhole, NumberedTo, Increasing, Apart
  <2>2. /\ IsFiniteSet(taken \cup ToSet(held))
        /\ Cardinality(taken \cup ToSet(held)) =
             Cardinality(taken) + Cardinality(ToSet(held)) - Cardinality(taken \cap ToSet(held))
    BY <1>2, <2>1, FS_Union
  <2>3. Cardinality(taken \cap ToSet(held)) = 0
    BY <1>3, FS_EmptySet
  <2> DEFINE c == Cardinality(taken)
             l == Len(held)
             n == Cardinality(taken \cup ToSet(held))
  <2>4. c \in Nat /\ l \in Nat /\ n = c + l - 0
    BY <1>0, <1>2, <2>1, <2>2, <2>3
  <2> HIDE DEF c, l, n
  <2>5. n = c + l
    BY <2>4
  <2>6. QED
    BY <2>1, <2>2, <2>5 DEF c, l, n
<1>5. Cardinality(taken \cup ToSet(held)) + Len(<<>>) = floor - Cardinality(lost)
  BY <1>0, <1>4, FS_CardinalityType DEF StreamWhole, NumberedTo, Increasing, Apart, LostBefore
<1>6. Numbers(taken \cup ToSet(held)) \cup Numbers(ToSet(<<>>)) = (1..floor) \ Numbers(lost)
  BY <1>0 DEF StreamWhole, NumberedTo, Increasing, Apart, Numbers
<1>7. \A e \in taken \cup ToSet(held) : e.n \in 1..floor
  BY DEF StreamWhole, NumberedTo, Increasing, Apart, ToSet
<1>8. \A i \in 1..Len(<<>>) : FALSE
  BY <1>0
<1>9. QED
  BY <1>4, <1>5, <1>6, <1>7, <1>8 DEF StreamWhole, NumberedTo, Increasing, Apart

-----------------------------------------------------------------------------
(* The steps, as far as the events can tell them apart.                    *)

\* Nothing happens to any event.
QuietStep ==
  /\ UNCHANGED <<events, streams>>
  /\ announced \in Nat /\ announced' \in Nat /\ announced' >= announced
  /\ Live' /\ ~ChangePending' =>
       Live /\ ~ChangePending /\ state' = state /\ known' \in {known, state}

\* The bridge pushes an event: the state it has just stored, or something that is
\* not about the connection.
PushStep ==
  \E e \in Events :
    /\ Push(e) /\ e.shot <= announced
    /\ UNCHANGED <<streams, announced, known>>
    /\ \/ e.kind = "connection" /\ e.to = state'
       \/ /\ e.kind # "connection"
          /\ Live' /\ ~ChangePending' => Live /\ ~ChangePending /\ state' = state

\* The Session pumps, and takes none, one or all.
PumpStep ==
  /\ Pumped /\ ops' = PumpedOps
  /\ UNCHANGED <<bridge, announced, closed, gone, opGot>>
  /\ \/ user' = PumpedUser /\ got' = got
     \/ user = <<>> /\ Batch # <<>> /\ got' = got \cup {Head(Batch)} /\ user' = Tail(Batch)
     \/ got' = got \cup ToSet(PumpedUser) /\ user' = <<>>

\* The client takes the next event, the first of a type, or all; or an operation
\* takes its own.
TakeStep ==
  /\ UNCHANGED <<bridge, events, announced, known, closed, gone>>
  /\ \/ user # <<>> /\ got' = got \cup {Head(user)} /\ user' = Tail(user)
        /\ UNCHANGED <<ops, opGot>>
     \/ \E type : /\ Matches(type) # {}
                  /\ got' = got \cup {user[Found(type)]} /\ user' = Remainder(Found(type))
                  /\ UNCHANGED <<ops, opGot>>
     \/ got' = got \cup ToSet(user) /\ user' = <<>> /\ UNCHANGED <<ops, opGot>>
     \/ opGot' = opGot \cup ToSet(ops) /\ ops' = <<>> /\ UNCHANGED <<user, got>>

LEMMA DroppedBefore == EventsInv => LostBefore(dropped, Floor)
  BY DEF EventsInv, DropsOldest, LostBefore

LEMMA TypeOfFacts ==
  \A k \in Kinds : TypeOf(k) = "ConnectionEvent" <=> k = "connection"
  BY DEF TypeOf, Types

LEMMA PushFacts ==
  ASSUME EventsTyped, QueueNumbered, NEW e \in Events, Push(e)
  PROVE  /\ pushed' = pushed + 1 /\ Numbered(e, pushed + 1) \in Queued
         /\ queue' \in Seq(Queued) /\ queue'[Len(queue')] = Numbered(e, pushed + 1)
         /\ \/ /\ Len(queue') = Len(queue) + 1 /\ Len(queue') <= MaxQueued
               /\ dropped' = dropped /\ Floor' = Floor
               /\ \A i \in 1..Len(queue) : queue'[i] = queue[i]
            \/ /\ Len(queue') = Len(queue) /\ Len(queue) = MaxQueued /\ 1 \in 1..Len(queue)
               /\ dropped' = dropped \cup {queue[1]} /\ Floor' = Floor + 1
               /\ \A i \in 1..(Len(queue) - 1) : queue'[i] = queue[i + 1]
<1> DEFINE x == Numbered(e, pushed + 1)
           room == Room
<1>1. x \in Queued
  BY DEF Numbered, Events, Queued, EventsTyped
<1>2. pushed' = pushed + 1 /\ queue' = Append(room, x)
      /\ dropped' = dropped \cup (ToSet(queue) \ ToSet(room))
  BY DEF Push
<1>3. Len(queue) \in Nat /\ pushed \in Nat /\ MaxQueued \in Nat \ {0} /\ queue \in Seq(Queued)
  BY ConstantsAssumption DEF EventsTyped
<1> HIDE DEF x
<1>4. CASE Len(queue) < MaxQueued
  <2>1. room = queue
    BY <1>3, <1>4 DEF Room
  <2>2. dropped' = dropped
    BY <1>2, <2>1
  <2>3. /\ queue' \in Seq(Queued) /\ Len(queue') = Len(queue) + 1
        /\ \A i \in 1..Len(queue) : queue'[i] = queue[i]
        /\ queue'[Len(queue) + 1] = x
    BY <1>1, <1>2, <1>3, <2>1, AppendFacts
  <2>4. Floor' = Floor
    BY <1>2, <1>3, <2>3 DEF Floor
  <2>5. QED
    BY <1>1, <1>2, <1>3, <1>4, <2>2, <2>3, <2>4 DEF x
<1>5. CASE Len(queue) = MaxQueued
  <2>0. room = Tail(queue) /\ queue # <<>>
    BY <1>3, <1>5 DEF Room
  <2>1. /\ room \in Seq(Queued) /\ Len(room) = Len(queue) - 1 /\ 1 \in 1..Len(queue)
        /\ \A k \in 1..(Len(queue) - 1) : room[k] = queue[k + 1]
    BY <1>3, <2>0, TailFacts
  <2> HIDE DEF room
  <2>2. /\ queue' \in Seq(Queued) /\ Len(queue') = Len(room) + 1
        /\ \A i \in 1..Len(room) : queue'[i] = room[i]
        /\ queue'[Len(room) + 1] = x
    BY <1>1, <1>2, <2>1, AppendFacts
  <2>3. /\ Len(queue') = Len(queue) /\ queue'[Len(queue)] = x
        /\ \A i \in 1..(Len(queue) - 1) : queue'[i] = queue[i + 1]
    BY <1>3, <2>1, <2>2
  <2>4. ToSet(queue) \ ToSet(room) = {queue[1]}
    <3>1. \A i, j \in 1..Len(queue) : i # j => queue[i] # queue[j]
      <4> SUFFICES ASSUME NEW i \in 1..Len(queue), NEW j \in 1..Len(queue), i # j
                   PROVE  queue[i] # queue[j]
        OBVIOUS
      <4>1. queue[i].n = Floor + i /\ queue[j].n = Floor + j /\ Floor \in Nat
        BY DEF QueueNumbered
      <4>2. QED
        BY <4>1
    <3>2. queue[1] \notin ToSet(room)
      <4> SUFFICES ASSUME NEW k \in 1..Len(room) PROVE room[k] # queue[1]
        BY DEF ToSet
      <4>1. k + 1 \in 1..Len(queue) /\ k + 1 # 1 /\ room[k] = queue[k + 1]
        BY <1>3, <2>1
      <4>2. QED
        BY <2>1, <3>1, <4>1
    <3>3. ASSUME NEW i \in 1..Len(queue), i # 1 PROVE queue[i] \in ToSet(room)
      <4>1. i - 1 \in 1..Len(room) /\ room[i - 1] = queue[(i - 1) + 1] /\ (i - 1) + 1 = i
        BY <1>3, <2>1, <3>3
      <4>2. QED
        BY <4>1 DEF ToSet
    <3>4. queue[1] \in ToSet(queue)
      BY <2>1 DEF ToSet
    <3>5. ToSet(queue) \subseteq {queue[1]} \cup ToSet(room)
      BY <3>3 DEF ToSet
    <3>6. QED
      BY <3>2, <3>4, <3>5
  <2>5. Floor' = Floor + 1
    BY <1>2, <1>3, <2>3 DEF Floor
  <2>6. QED
    BY <1>1, <1>2, <1>5, <2>1, <2>2, <2>3, <2>4, <2>5 DEF x
<1>6. QED
  BY <1>3, <1>4, <1>5 DEF QueueNumbered

LEMMA PushKeeps == EventsInv /\ PushStep => EventsInv'
<1> SUFFICES ASSUME EventsInv, PushStep PROVE EventsInv'
  OBVIOUS
<1>0. PICK e \in Events :
        /\ Push(e) /\ e.shot <= announced
        /\ UNCHANGED <<streams, announced, known>>
        /\ \/ e.kind = "connection" /\ e.to = state'
           \/ /\ e.kind # "connection"
              /\ Live' /\ ~ChangePending' => Live /\ ~ChangePending /\ state' = state
  BY DEF PushStep
<1> DEFINE x == Numbered(e, pushed + 1)
           q == Len(queue)
<1>1. /\ pushed' = pushed + 1 /\ x \in Queued
      /\ queue' \in Seq(Queued) /\ queue'[Len(queue')] = x
      /\ \/ /\ Len(queue') = q + 1 /\ Len(queue') <= MaxQueued
            /\ dropped' = dropped /\ Floor' = Floor
            /\ \A i \in 1..q : queue'[i] = queue[i]
         \/ /\ Len(queue') = q /\ q = MaxQueued /\ 1 \in 1..q
            /\ dropped' = dropped \cup {queue[1]} /\ Floor' = Floor + 1
            /\ \A i \in 1..(q - 1) : queue'[i] = queue[i + 1]
  BY <1>0, PushFacts DEF EventsInv
<1>2. /\ q \in Nat /\ pushed \in Nat /\ MaxQueued \in Nat \ {0} /\ q <= MaxQueued
      /\ Floor \in Nat /\ \A i \in 1..q : queue[i].n = Floor + i /\ queue[i] \in Queued
  BY ConstantsAssumption DEF EventsInv, EventsTyped, QueueNumbered
<1>3. /\ user' = user /\ ops' = ops /\ got' = got /\ opGot' = opGot
      /\ announced' = announced /\ known' = known
  BY <1>0 DEF streams
<1>4. x.n = pushed + 1 /\ x.kind = e.kind /\ x.to = e.to /\ x.shot = e.shot
  BY DEF Numbered
<1>5. Floor + q = pushed
  BY <1>2 DEF Floor
<1> HIDE DEF x, q
<1>6. EventsTyped'
  <2>1. dropped' \subseteq Queued
    BY SMTT(30), <1>1, <1>2 DEF EventsInv, EventsTyped
  <2>2. QED
    BY <1>1, <1>2, <1>3, <2>1 DEF EventsInv, EventsTyped
<1>7. QueueNumbered'
  <2>1. CASE /\ Len(queue') = q + 1 /\ Len(queue') <= MaxQueued /\ Floor' = Floor
             /\ \A i \in 1..q : queue'[i] = queue[i]
    <3>1. ASSUME NEW i \in 1..Len(queue') PROVE queue'[i].n = Floor' + i
      <4>1. i \in 1..q \/ i = q + 1
        BY <1>2, <2>1
      <4>2. i \in 1..q => queue'[i] = queue[i] /\ queue[i].n = Floor + i
        BY <1>2, <2>1
      <4>3. i = q + 1 => queue'[i] = x
        BY <1>1, <2>1
      <4>4. pushed + 1 = Floor + (q + 1)
        BY <1>2, <1>5
      <4>5. QED
        BY <1>4, <2>1, <4>1, <4>2, <4>3, <4>4
    <3>2. QED
      BY <1>2, <2>1, <3>1 DEF QueueNumbered
  <2>2. CASE /\ Len(queue') = q /\ q = MaxQueued /\ 1 \in 1..q /\ Floor' = Floor + 1
             /\ \A i \in 1..(q - 1) : queue'[i] = queue[i + 1]
    <3>1. ASSUME NEW i \in 1..(q - 1) PROVE queue'[i].n = Floor' + i
      <4>1. i + 1 \in 1..q
        BY <1>2
      <4>2. QED
        BY <1>2, <2>2, <4>1
    <3>2. queue'[q].n = Floor' + q
      <4>1. queue'[q] = x /\ x.n = pushed + 1
        BY <1>1, <1>4, <2>2
      <4>2. pushed + 1 = Floor' + q
        <5> DEFINE f == Floor
        <5>1. f \in Nat /\ q \in Nat /\ pushed = f + q /\ Floor' = f + 1
          BY <1>2, <1>5, <2>2
        <5> HIDE DEF f
        <5>2. QED
          BY <5>1
      <4>3. QED
        BY <4>1, <4>2
    <3>3. ASSUME NEW i \in 1..Len(queue') PROVE queue'[i].n = Floor' + i
      <4>1. i = q \/ i \in 1..(q - 1)
        BY <1>2, <2>2
      <4>2. QED
        BY <3>1, <3>2, <4>1
    <3>4. QED
      BY <1>2, <2>2, <3>3 DEF QueueNumbered
  <2>3. QED
    BY <1>1, <2>1, <2>2
<1>8. DropsOldest'
  <2>0. /\ IsFiniteSet(dropped)
        /\ \A d \in dropped : d.n \in 1..Floor /\ d.n + MaxQueued <= pushed
    BY DEF EventsInv, DropsOldest
  <2>1. CASE dropped' = dropped /\ Floor' = Floor
    BY <1>1, <1>2, <2>0, <2>1 DEF DropsOldest
  <2>2. CASE /\ q = MaxQueued /\ 1 \in 1..q
             /\ dropped' = dropped \cup {queue[1]} /\ Floor' = Floor + 1
    <3>1. IsFiniteSet(dropped')
      BY <2>0, <2>2, FS_AddElement
    <3>2. queue[1].n = Floor + 1
      BY <1>2, <2>2
    <3>3. \A d \in dropped' : d.n \in 1..Floor' /\ d.n + MaxQueued <= pushed'
      BY <1>1, <1>2, <1>5, <2>0, <2>2, <3>2
    <3>4. QED
      BY <3>1, <3>3 DEF DropsOldest
  <2>3. QED
    BY <1>1, <2>1, <2>2
<1>9. StreamsWhole'
  <2>1. CASE dropped' = dropped /\ Floor' = Floor
    BY <1>3, <2>1 DEF EventsInv, StreamsWhole
  <2>2. CASE 1 \in 1..q /\ dropped' = dropped \cup {queue[1]} /\ Floor' = Floor + 1
    <3>1. queue[1].n = Floor + 1
      BY <1>2, <2>2
    <3>2. /\ user \in Seq(Decoded) /\ ops \in Seq(Decoded) /\ LostBefore(dropped, Floor)
          /\ StreamWhole(got, user, Floor, dropped) /\ StreamWhole(opGot, ops, Floor, dropped)
      BY DroppedBefore DEF EventsInv, EventsTyped, StreamsWhole
    <3>3. /\ StreamWhole(got, user, Floor + 1, dropped \cup {queue[1]})
          /\ StreamWhole(opGot, ops, Floor + 1, dropped \cup {queue[1]})
      BY <1>2, <3>1, <3>2, StreamLoses
    <3>4. QED
      BY <1>3, <2>2, <3>3 DEF StreamsWhole
  <2>3. QED
    BY <1>1, <2>1, <2>2
<1>10. TakenInOrder'
  BY <1>3 DEF EventsInv, TakenInOrder
<1>11. ShotsAnnounced'
  <2>1. \A i \in 1..Len(queue') : queue'[i].shot <= announced
    <3>1. x.shot <= announced
      BY <1>0, <1>4
    <3>2. \A i \in 1..q : queue[i].shot <= announced
      BY DEF EventsInv, ShotsAnnounced, q
    <3>3. ASSUME NEW i \in 1..Len(queue') PROVE queue'[i] = x \/ \E j \in 1..q : queue'[i] = queue[j]
      <4>1. CASE i = Len(queue')
        BY <1>1, <4>1
      <4>2. CASE i # Len(queue')
        <5>1. (Len(queue') = q + 1 => i \in 1..q) /\ (Len(queue') = q => i \in 1..(q - 1) /\ i + 1 \in 1..q)
          BY <1>2, <4>2
        <5>2. QED
          BY <1>1, <5>1
      <4>3. QED
        BY <4>1, <4>2
    <3>4. QED
      BY <3>1, <3>2, <3>3
  <2>2. QED
    BY <1>3, <2>1 DEF EventsInv, ShotsAnnounced
<1>12. StateTold'
  <2> SUFFICES ASSUME Live', ~ChangePending'
               PROVE  /\ \A i \in 1..Len(queue') : NewestQueued(i)' => queue'[i].to = state'
                      /\ (\A i \in 1..Len(queue') : ~IsConnection(queue'[i])) /\ HeardLast'
                           => known' = state'
    BY DEF StateTold
  <2>1. CASE e.kind = "connection" /\ e.to = state'
    <3>1. IsConnection(x) /\ x.to = state' /\ Len(queue') \in 1..Len(queue') /\ queue'[Len(queue')] = x
      BY <1>1, <1>2, <1>4, <2>1 DEF IsConnection
    <3>2. ASSUME NEW i \in 1..Len(queue'), NewestQueued(i)' PROVE i = Len(queue')
      BY <1>1, <1>2, <3>1, <3>2 DEF NewestQueued
    <3>3. QED
      BY <3>1, <3>2
  <2>2. CASE e.kind # "connection"
    <3>1. ~IsConnection(x)
      BY <1>4, <2>2 DEF IsConnection
    <3>2. /\ state' = state
          /\ \A i \in 1..q : NewestQueued(i) => queue[i].to = state
          /\ (\A i \in 1..q : ~IsConnection(queue[i])) /\ HeardLast => known = state
      BY <1>0, <2>2 DEF EventsInv, StateTold, q
    <3>3. CASE /\ Len(queue') = q + 1 /\ dropped' = dropped
               /\ \A i \in 1..q : queue'[i] = queue[i]
      <4>1. ASSUME NEW i \in 1..Len(queue'), NewestQueued(i)' PROVE queue'[i].to = state'
        <5>1. i # q + 1
          BY <1>1, <3>1, <3>3, <4>1 DEF NewestQueued
        <5>2. i \in 1..q /\ IsConnection(queue[i])
          BY <1>2, <3>3, <4>1, <5>1 DEF NewestQueued
        <5>3. NewestQueued(i)
          <6> SUFFICES ASSUME NEW j \in 1..q, j > i PROVE ~IsConnection(queue[j])
            BY <5>2 DEF NewestQueued, q
          <6>1. j \in 1..Len(queue') /\ ~IsConnection(queue'[j])
            BY <1>2, <3>3, <4>1 DEF NewestQueued
          <6>2. QED
            BY <3>3, <6>1
        <5>4. QED
          BY <3>2, <3>3, <5>2, <5>3
      <4>2. ASSUME \A i \in 1..Len(queue') : ~IsConnection(queue'[i]), HeardLast'
            PROVE  known' = state'
        <5>1. \A i \in 1..q : ~IsConnection(queue[i])
          BY <1>2, <3>3, <4>2
        <5>2. HeardLast
          BY <1>3, <3>3, <4>2 DEF HeardLast
        <5>3. QED
          BY <1>3, <3>2, <5>1, <5>2
      <4>3. QED
        BY <4>1, <4>2
    <3>4. CASE /\ Len(queue') = q /\ 1 \in 1..q /\ dropped' = dropped \cup {queue[1]}
               /\ \A i \in 1..(q - 1) : queue'[i] = queue[i + 1]
      <4>1. ASSUME NEW i \in 1..Len(queue'), NewestQueued(i)' PROVE queue'[i].to = state'
        <5>1. i # q /\ i \in 1..(q - 1) /\ i + 1 \in 1..q
          BY <1>1, <1>2, <3>1, <3>4, <4>1 DEF NewestQueued
        <5>2. queue'[i] = queue[i + 1] /\ IsConnection(queue[i + 1])
          BY <3>4, <4>1, <5>1 DEF NewestQueued
        <5>3. NewestQueued(i + 1)
          <6> SUFFICES ASSUME NEW j \in 1..q, j > i + 1 PROVE ~IsConnection(queue[j])
            BY <5>1, <5>2 DEF NewestQueued, q
          <6>1. j - 1 \in 1..(q - 1) /\ j - 1 \in 1..Len(queue') /\ j - 1 > i /\ (j - 1) + 1 = j
            BY <1>2, <3>4, <5>1
          <6>2. ~IsConnection(queue'[j - 1]) /\ queue'[j - 1] = queue[j]
            BY <3>4, <4>1, <6>1 DEF NewestQueued
          <6>3. QED
            BY <6>2
        <5>4. QED
          BY <3>2, <5>1, <5>2, <5>3
      <4>2. ASSUME \A i \in 1..Len(queue') : ~IsConnection(queue'[i]), HeardLast'
            PROVE  known' = state'
        <5>1. ASSUME NEW i \in 1..q, i # 1 PROVE ~IsConnection(queue[i])
          <6>1. i - 1 \in 1..(q - 1) /\ i - 1 \in 1..Len(queue') /\ (i - 1) + 1 = i
            BY <1>2, <3>4, <5>1
          <6>2. QED
            BY <3>4, <4>2, <6>1
        <5>2. HeardLast
          BY <1>3, <3>4, <4>2 DEF HeardLast
        <5>3. ~IsConnection(queue[1])
          <6> SUFFICES ASSUME IsConnection(queue[1]) PROVE FALSE
            OBVIOUS
          <6>1. PICK g \in got \cup ToSet(user) : queue[1].n < g.n
            BY <1>3, <3>4, <4>2 DEF HeardLast
          <6>2. g.n \in 1..Floor
            BY DEF EventsInv, StreamsWhole, StreamWhole, NumberedTo, ToSet
          <6>3. queue[1].n = Floor + 1
            BY <1>2, <3>4
          <6>4. QED
            BY <1>2, <6>1, <6>2, <6>3
        <5>4. QED
          BY <1>3, <3>2, <5>1, <5>2, <5>3
      <4>3. QED
        BY <4>1, <4>2
    <3>5. QED
      BY <1>1, <3>3, <3>4
  <2>3. QED
    BY <1>0, <2>1, <2>2
<1>13. QED
  BY <1>6, <1>7, <1>8, <1>9, <1>10, <1>11, <1>12 DEF EventsInv

LEMMA QuietKeeps == EventsInv /\ QuietStep => EventsInv'
<1> SUFFICES ASSUME EventsInv, QuietStep PROVE EventsInv'
  OBVIOUS
<1>1. /\ queue' = queue /\ pushed' = pushed /\ dropped' = dropped
      /\ user' = user /\ ops' = ops /\ got' = got /\ opGot' = opGot
  BY DEF QuietStep, events, streams
<1>2. Floor' = Floor
  BY <1>1 DEF Floor
<1>3. EventsTyped' /\ QueueNumbered' /\ DropsOldest' /\ StreamsWhole' /\ TakenInOrder'
  BY <1>1, <1>2 DEF EventsInv, EventsTyped, QueueNumbered, DropsOldest, StreamsWhole, TakenInOrder
<1>4. ShotsAnnounced'
  <2>1. \A i \in 1..Len(queue) : queue[i].shot \in Nat
    <3>1. \A i \in 1..Len(queue) : queue[i] \in Queued
      BY DEF EventsInv, EventsTyped
    <3>2. QED
      BY <3>1 DEF Queued
  <2>2. \A e \in got \cup ToSet(user) : e.shot \in Nat
    <3>1. got \cup ToSet(user) \subseteq Decoded
      BY DEF EventsInv, EventsTyped, ToSet
    <3>2. QED
      BY <3>1 DEF Decoded
  <2>3. /\ \A i \in 1..Len(queue) : queue[i].shot <= announced
        /\ \A e \in got \cup ToSet(user) : e.shot <= announced
        /\ announced' \in Nat /\ announced' >= announced /\ announced \in Nat
    BY DEF EventsInv, ShotsAnnounced, QuietStep
  <2>4. /\ \A i \in 1..Len(queue) : queue[i].shot <= announced'
        /\ \A e \in got \cup ToSet(user) : e.shot <= announced'
    BY <2>1, <2>2, <2>3
  <2>5. QED
    BY <1>1, <2>4 DEF ShotsAnnounced
<1>5. StateTold'
  <2> SUFFICES ASSUME Live', ~ChangePending'
               PROVE  /\ \A i \in 1..Len(queue) : NewestQueued(i)' => queue[i].to = state'
                      /\ (\A i \in 1..Len(queue) : ~IsConnection(queue[i])) /\ HeardLast'
                           => known' = state'
    BY <1>1 DEF StateTold
  <2>1. /\ state' = state /\ known' \in {known, state}
        /\ \A i \in 1..Len(queue) : NewestQueued(i) => queue[i].to = state
        /\ (\A i \in 1..Len(queue) : ~IsConnection(queue[i])) /\ HeardLast => known = state
    BY DEF QuietStep, EventsInv, StateTold
  <2>2. \A i \in 1..Len(queue) : NewestQueued(i)' => NewestQueued(i)
    BY <1>1 DEF NewestQueued
  <2>3. HeardLast' => HeardLast
    BY <1>1 DEF HeardLast
  <2>4. QED
    BY <2>1, <2>2, <2>3
<1>6. QED
  BY <1>3, <1>4, <1>5 DEF EventsInv

\* What is taken does not change what has been heard.
LEMMA HeardSame ==
  ASSUME EventsInv, got' \cup ToSet(user') = got \cup ToSet(user),
         UNCHANGED <<bridge, events, announced, known, closed, gone>>
  PROVE  StateTold' /\ ShotsAnnounced'
<1>1. /\ queue' = queue /\ dropped' = dropped /\ announced' = announced /\ known' = known
      /\ state' = state /\ opener' = opener /\ vendor' = vendor /\ closed' = closed /\ gone' = gone
  BY DEF bridge, events
<1>2. ShotsAnnounced'
  BY <1>1 DEF EventsInv, ShotsAnnounced
<1>3. HeardLast' <=> HeardLast
  BY <1>1 DEF HeardLast
<1>4. (Live' <=> Live) /\ (ChangePending' <=> ChangePending)
  BY <1>1 DEF Live, ChangePending
<1>5. \A i \in 1..Len(queue) : NewestQueued(i)' <=> NewestQueued(i)
  BY <1>1 DEF NewestQueued
<1>6. StateTold'
  BY <1>1, <1>3, <1>4, <1>5 DEF EventsInv, StateTold
<1>7. QED
  BY <1>2, <1>6

LEMMA TakeKeeps == EventsInv /\ TakeStep => EventsInv'
<1> SUFFICES ASSUME EventsInv, TakeStep PROVE EventsInv'
  OBVIOUS
<1>0. UNCHANGED <<bridge, events, announced, known, closed, gone>>
  BY DEF TakeStep
<1>1. queue' = queue /\ pushed' = pushed /\ dropped' = dropped
  BY <1>0 DEF events
<1>2. Floor' = Floor /\ Floor \in Nat
  BY <1>1 DEF Floor, EventsInv, QueueNumbered
<1>3. QueueNumbered' /\ DropsOldest'
  BY <1>1, <1>2 DEF EventsInv, QueueNumbered, DropsOldest
<1>4. /\ user \in Seq(Decoded) /\ ops \in Seq(Decoded) /\ got \subseteq Decoded /\ opGot \subseteq Decoded
      /\ StreamWhole(got, user, Floor, dropped) /\ StreamWhole(opGot, ops, Floor, dropped)
      /\ LostBefore(dropped, Floor)
  BY DroppedBefore DEF EventsInv, EventsTyped, StreamsWhole
<1>5. ASSUME NEW i \in 1..Len(user), got' = got \cup {user[i]},
             user' \in Seq(Decoded), Len(user') = Len(user) - 1,
             \A k \in 1..(Len(user) - 1) : user'[k] = IF k < i THEN user[k] ELSE user[k + 1],
             ops' = ops, opGot' = opGot,
             \A k \in 1..Len(user) : k < i => user[k].type # user[i].type
      PROVE  EventsInv'
  <2>1. EventsTyped'
    BY <1>1, <1>4, <1>5 DEF EventsInv, EventsTyped
  <2>2. StreamsWhole'
    <3>1. StreamWhole(got \cup {user[i]}, user', Floor, dropped)
      BY <1>2, <1>4, <1>5, StreamTakesOne
    <3>2. QED
      BY <1>1, <1>2, <1>4, <1>5, <3>1 DEF StreamsWhole
  <2>0. Len(user) \in Nat /\ Len(user') \in Nat
    BY <1>4, <1>5
  <2>3. ASSUME NEW k \in 1..Len(user')
        PROVE  \E j \in 1..Len(user) : j # i /\ user'[k] = user[j]
    <3>1. CASE k < i
      BY <1>5, <2>0, <3>1
    <3>2. CASE k >= i
      <4>1. k + 1 \in 1..Len(user) /\ k + 1 # i /\ user'[k] = user[k + 1]
        BY <1>5, <2>0, <3>2
      <4>2. QED
        BY <4>1
    <3>3. QED
      BY <3>1, <3>2
  <2>4. TakenInOrder'
    <3> SUFFICES ASSUME NEW e \in got', NEW k \in 1..Len(user'), e.type = user'[k].type
                 PROVE  e.n < user'[k].n
      BY DEF TakenInOrder
    <3>1. PICK j \in 1..Len(user) : j # i /\ user'[k] = user[j]
      BY <2>3
    <3>2. CASE e \in got
      BY <3>1, <3>2 DEF EventsInv, TakenInOrder
    <3>3. CASE e = user[i]
      <4>1. i < j
        BY <1>5, <2>0, <3>1, <3>3
      <4>2. QED
        BY <1>4, <3>1, <3>3, <4>1 DEF StreamWhole, Increasing
    <3>4. QED
      BY <1>5, <3>2, <3>3
  <2>5. got' \cup ToSet(user') = got \cup ToSet(user)
    <3>1. ToSet(user') \cup {user[i]} = ToSet(user)
      <4>1. ToSet(user') \cup {user[i]} \subseteq ToSet(user)
        BY <2>3 DEF ToSet
      <4>2. ASSUME NEW j \in 1..Len(user), j # i PROVE user[j] \in ToSet(user')
        <5>1. CASE j < i
          <6>1. j \in 1..Len(user') /\ user'[j] = user[j]
            BY <1>5, <2>0, <5>1
          <6>2. QED
            BY <6>1 DEF ToSet
        <5>2. CASE j > i
          <6>1. j - 1 \in 1..Len(user') /\ user'[j - 1] = user[j]
            <7>1. j - 1 \in 1..(Len(user) - 1) /\ ~(j - 1 < i) /\ (j - 1) + 1 = j
              BY <2>0, <5>2
            <7>2. QED
              BY <1>5, <7>1
          <6>2. QED
            BY <6>1 DEF ToSet
        <5>3. QED
          BY <2>0, <4>2, <5>1, <5>2
      <4> DEFINE R == ToSet(user')
      <4>3. \A j \in 1..Len(user) : user[j] \in R \cup {user[i]}
        BY <4>2
      <4> HIDE DEF R
      <4>4. ToSet(user) \subseteq R \cup {user[i]}
        BY <4>3 DEF ToSet
      <4>5. QED
        BY <4>1, <4>4 DEF R
    <3>2. QED
      BY <1>5, <3>1
  <2>6. StateTold' /\ ShotsAnnounced'
    BY <1>0, <2>5, HeardSame
  <2>7. QED
    BY <1>3, <2>1, <2>2, <2>4, <2>6 DEF EventsInv
<1>6. CASE user # <<>> /\ got' = got \cup {Head(user)} /\ user' = Tail(user) /\ UNCHANGED <<ops, opGot>>
  <2>1. /\ Tail(user) \in Seq(Decoded) /\ Len(Tail(user)) = Len(user) - 1 /\ 1 \in 1..Len(user)
        /\ Head(user) = user[1] /\ \A k \in 1..(Len(user) - 1) : Tail(user)[k] = user[k + 1]
    BY <1>4, <1>6, TailFacts
  <2>2. QED
    BY <1>5, <1>6, <2>1
<1>7. ASSUME NEW type, Matches(type) # {}, got' = got \cup {user[Found(type)]},
             user' = Remainder(Found(type)), UNCHANGED <<ops, opGot>>
      PROVE  EventsInv'
  <2>1. Matches(type) \in SUBSET Nat /\ Matches(type) \subseteq 1..Len(user)
    BY <1>4 DEF Matches
  <2>2. Found(type) \in Matches(type) /\ \A k \in Matches(type) : Found(type) <= k
    BY <1>7, <2>1, MinFacts DEF Found
  <2> DEFINE i == Found(type)
  <2>3. i \in 1..Len(user) /\ user[i].type = type
    BY <2>1, <2>2 DEF Matches
  <2>4. /\ user' \in Seq(Decoded) /\ Len(user') = Len(user) - 1
        /\ \A k \in 1..(Len(user) - 1) : user'[k] = IF k < i THEN user[k] ELSE user[k + 1]
    BY <1>4, <1>7, <2>3, RemoveFacts DEF Remainder
  <2>5. \A k \in 1..Len(user) : k < i => user[k].type # user[i].type
    BY <2>2, <2>3 DEF Matches
  <2> HIDE DEF i
  <2>6. QED
    BY <1>5, <1>7, <2>3, <2>4, <2>5 DEF i
<1>8. CASE got' = got \cup ToSet(user) /\ user' = <<>> /\ UNCHANGED <<ops, opGot>>
  <2>0. <<>> \in Seq(Decoded) /\ ToSet(<<>>) = {} /\ \A k \in 1..Len(<<>>) : FALSE
    BY DEF ToSet
  <2>1. EventsTyped'
    <3>1. ToSet(user) \subseteq Decoded
      BY <1>4 DEF ToSet
    <3>2. QED
      BY <1>1, <1>4, <1>8, <2>0, <3>1 DEF EventsInv, EventsTyped
  <2>2. StreamsWhole'
    <3>1. StreamWhole(got \cup ToSet(user), <<>>, Floor, dropped)
      BY <1>2, <1>4, StreamTakesAll
    <3>2. QED
      BY <1>1, <1>2, <1>4, <1>8, <3>1 DEF StreamsWhole
  <2>3. TakenInOrder'
    BY <1>8, <2>0 DEF TakenInOrder
  <2>4. got' \cup ToSet(user') = got \cup ToSet(user)
    BY <1>8, <2>0
  <2>5. StateTold' /\ ShotsAnnounced'
    BY <1>0, <2>4, HeardSame
  <2>6. QED
    BY <1>3, <2>1, <2>2, <2>3, <2>5 DEF EventsInv
<1>9. CASE opGot' = opGot \cup ToSet(ops) /\ ops' = <<>> /\ UNCHANGED <<user, got>>
  <2>1. EventsTyped'
    <3>1. ToSet(ops) \subseteq Decoded /\ <<>> \in Seq(Decoded)
      BY <1>4 DEF ToSet
    <3>2. QED
      BY <1>1, <1>4, <1>9, <3>1 DEF EventsInv, EventsTyped
  <2>2. StreamsWhole'
    <3>1. StreamWhole(opGot \cup ToSet(ops), <<>>, Floor, dropped)
      BY <1>2, <1>4, StreamTakesAll
    <3>2. QED
      BY <1>1, <1>2, <1>4, <1>9, <3>1 DEF StreamsWhole
  <2>3. TakenInOrder'
    BY <1>9 DEF EventsInv, TakenInOrder
  <2>4. got' \cup ToSet(user') = got \cup ToSet(user)
    BY <1>9
  <2>5. StateTold' /\ ShotsAnnounced'
    BY <1>0, <2>4, HeardSame
  <2>6. QED
    BY <1>3, <2>1, <2>2, <2>3, <2>5 DEF EventsInv
<1>10. QED
  BY <1>6, <1>7, <1>8, <1>9 DEF TakeStep

LEMMA BatchFacts ==
  ASSUME EventsInv
  PROVE  /\ Len(Batch) \in 0..Len(queue) /\ Batch \in Seq(Decoded)
         /\ \A i \in 1..Len(Batch) : Batch[i] = Decode(queue[i]) /\ Batch[i].n = Floor + i
         /\ Left \in Seq(Queued) /\ Len(Left) = Len(queue) - Len(Batch)
         /\ \A k \in 1..(Len(queue) - Len(Batch)) : Left[k] = queue[Len(Batch) + k]
<1> DEFINE m == Min({Capacity, Len(queue)})
           B == Batch
<1>0. queue \in Seq(Queued) /\ Len(queue) \in Nat /\ Capacity \in Nat /\ Floor \in Nat
      /\ \A i \in 1..Len(queue) : queue[i] \in Queued /\ queue[i].n = Floor + i
  BY ConstantsAssumption DEF EventsInv, EventsTyped, QueueNumbered
<1>1. m \in 0..Len(queue)
  <2>1. {Capacity, Len(queue)} \in SUBSET Nat /\ {Capacity, Len(queue)} # {}
    BY <1>0
  <2>2. m \in {Capacity, Len(queue)} /\ \A x \in {Capacity, Len(queue)} : m <= x
    BY <2>1, MinFacts
  <2>3. QED
    BY <1>0, <2>2
<1>2. B = [i \in 1..m |-> Decode(queue[i])]
  BY DEF Batch
<1> HIDE DEF m
<1>3. \A i \in 1..m : Decode(queue[i]) \in Decoded /\ Decode(queue[i]).n = queue[i].n
  <2>1. \A r \in Queued : Decode(r) \in Decoded /\ Decode(r).n = r.n
    BY DEF Queued, Decoded, Decode
  <2>2. QED
    BY <1>0, <1>1, <2>1
<1> HIDE DEF B
<1>4. B \in Seq(Decoded) /\ Len(B) = m /\ \A i \in 1..m : B[i] = Decode(queue[i])
  BY <1>1, <1>2, <1>3
<1>5. \A i \in 1..Len(B) : B[i].n = Floor + i
  BY <1>0, <1>1, <1>3, <1>4
<1>6. Left = SubSeq(queue, m + 1, Len(queue))
  BY <1>4 DEF Left, B
<1>7. /\ Left \in Seq(Queued) /\ Len(Left) = Len(queue) - m
      /\ \A k \in 1..(Len(queue) - m) : Left[k] = queue[m + k]
  <2> DEFINE l == SubSeq(queue, m + 1, Len(queue))
  <2>1. /\ l \in Seq(Queued) /\ Len(l) = Len(queue) - m
        /\ \A k \in 1..(Len(queue) - m) : l[k] = queue[m + k]
    BY <1>0, <1>1
  <2>2. QED
    BY <1>6, <2>1
<1>8. QED
  BY <1>0, <1>1, <1>4, <1>5, <1>7 DEF B

LEMMA LastStateFacts ==
  ASSUME EventsInv
  PROVE  \/ /\ \A i \in 1..Len(Batch) : ~IsConnection(queue[i])
            /\ LastState(Batch) = known
         \/ \E i \in 1..Len(Batch) :
              /\ IsConnection(queue[i]) /\ LastState(Batch) = queue[i].to
              /\ \A j \in 1..Len(Batch) : j > i => ~IsConnection(queue[j])
<1> DEFINE B == Batch
           C == ConnectionEvents(B)
<1>1. /\ Len(B) \in 0..Len(queue) /\ B \in Seq(Decoded)
      /\ \A i \in 1..Len(B) : B[i] = Decode(queue[i])
  BY BatchFacts
<1>0. \A i \in 1..Len(queue) : queue[i] \in Queued
  BY DEF EventsInv, EventsTyped
<1>2. \A i \in 1..Len(B) : (B[i].type = "ConnectionEvent" <=> IsConnection(queue[i]))
                           /\ B[i].to = queue[i].to
  <2>1. \A r \in Queued : (Decode(r).type = "ConnectionEvent" <=> IsConnection(r))
                          /\ Decode(r).to = r.to
    BY TypeOfFacts DEF Queued, Decode, IsConnection
  <2>2. \A i \in 1..Len(B) : i \in 1..Len(queue)
    BY <1>1
  <2>3. QED
    BY <1>0, <1>1, <2>1, <2>2
<1>3. LastState(B) = IF C = {} THEN known ELSE B[Max(C)].to
  BY DEF LastState
<1> HIDE DEF B
<1>4. C = {i \in 1..Len(B) : B[i].type = "ConnectionEvent"}
  BY <1>1 DEF ConnectionEvents
<1> HIDE DEF C
<1>5. CASE C = {}
  BY <1>2, <1>3, <1>4, <1>5 DEF B
<1>6. CASE C # {}
  <2>1. C \in SUBSET Nat /\ Len(B) \in Nat /\ \A i \in C : i <= Len(B)
    BY <1>1, <1>4
  <2>2. Max(C) \in C /\ \A j \in C : Max(C) >= j
    BY <1>6, <2>1, MaxFacts
  <2> DEFINE i == Max(C)
  <2>3. i \in 1..Len(B) /\ IsConnection(queue[i]) /\ LastState(B) = queue[i].to
    BY <1>2, <1>3, <1>4, <1>6, <2>2
  <2>4. \A j \in 1..Len(B) : j > i => ~IsConnection(queue[j])
    <3> SUFFICES ASSUME NEW j \in 1..Len(B), j > i, IsConnection(queue[j]) PROVE FALSE
      OBVIOUS
    <3>1. j \in C
      BY <1>2, <1>4
    <3>2. QED
      BY <2>2, <2>3, <3>1
  <2>5. QED
    BY <2>3, <2>4 DEF B
<1>7. QED
  BY <1>5, <1>6

LEMMA PumpKeeps == EventsInv /\ PumpStep => EventsInv'
<1> SUFFICES ASSUME EventsInv, PumpStep PROVE EventsInv'
  OBVIOUS
<1> DEFINE B == Batch
           b == Len(B)
           pu == user \o B
           po == ops \o B
           q == Len(queue)
<1>1. /\ b \in 0..q /\ B \in Seq(Decoded)
      /\ \A i \in 1..b : B[i] = Decode(queue[i]) /\ B[i].n = Floor + i
      /\ Left \in Seq(Queued) /\ Len(Left) = q - b
      /\ \A k \in 1..(q - b) : Left[k] = queue[b + k]
  BY BatchFacts
<1>2. \/ /\ \A i \in 1..b : ~IsConnection(queue[i])
         /\ known' = known
      \/ \E i \in 1..b :
           /\ IsConnection(queue[i]) /\ known' = queue[i].to
           /\ \A j \in 1..b : j > i => ~IsConnection(queue[j])
  BY LastStateFacts DEF PumpStep, Pumped
<1>3. /\ queue' = Left /\ pushed' = pushed /\ dropped' = dropped /\ announced' = announced
      /\ ops' = po /\ opGot' = opGot /\ state' = state
      /\ (Live' <=> Live) /\ (ChangePending' <=> ChangePending)
      /\ \/ user' = pu /\ got' = got
         \/ user = <<>> /\ B # <<>> /\ got' = got \cup {Head(B)} /\ user' = Tail(B)
         \/ got' = got \cup ToSet(pu) /\ user' = <<>>
  BY DEF PumpStep, Pumped, PumpedUser, PumpedOps, bridge, Live, ChangePending
<1>4. /\ q \in Nat /\ pushed \in Nat /\ Floor \in Nat /\ q <= MaxQueued /\ MaxQueued \in Nat
      /\ \A i \in 1..q : queue[i].n = Floor + i
      /\ user \in Seq(Decoded) /\ ops \in Seq(Decoded) /\ got \subseteq Decoded /\ opGot \subseteq Decoded
      /\ StreamWhole(got, user, Floor, dropped) /\ StreamWhole(opGot, ops, Floor, dropped)
      /\ LostBefore(dropped, Floor)
  BY ConstantsAssumption, DroppedBefore
  DEF EventsInv, EventsTyped, StreamsWhole, QueueNumbered
<1>5. \A i \in 1..b : B[i] = Decode(queue[i])
  BY <1>1
<1> HIDE DEF B
<1>6. /\ pu \in Seq(Decoded) /\ Len(pu) = Len(user) + b
      /\ \A i \in 1..Len(user) : pu[i] = user[i]
      /\ \A i \in (Len(user) + 1)..(Len(user) + b) : pu[i] = B[i - Len(user)]
      /\ ToSet(pu) = ToSet(user) \cup ToSet(B) /\ po \in Seq(Decoded)
  <2>1. user \in Seq(Decoded) /\ ops \in Seq(Decoded) /\ B \in Seq(Decoded)
    BY <1>1, <1>4
  <2>2. po \in Seq(Decoded)
    BY <2>1, ConcatFacts
  <2>3. /\ pu \in Seq(Decoded) /\ Len(pu) = Len(user) + b
        /\ \A i \in 1..Len(user) : pu[i] = user[i]
        /\ \A i \in (Len(user) + 1)..(Len(user) + b) : pu[i] = B[i - Len(user)]
        /\ ToSet(pu) = ToSet(user) \cup ToSet(B)
    BY ONLY ZenonT(60), <2>1, ConcatFacts
  <2>4. QED
    BY <2>2, <2>3
<1>7. /\ StreamWhole(got, pu, Floor + b, dropped)
      /\ StreamWhole(opGot, po, Floor + b, dropped)
  BY <1>1, <1>4, StreamGrows
<1>8. Floor' = Floor + b
  <2> DEFINE l == Len(Left)
  <2>1. Floor' = pushed - l /\ Floor = pushed - q /\ l = q - b /\ b \in Nat
    BY <1>1, <1>3 DEF Floor
  <2> HIDE DEF l, b, q
  <2>2. QED
    BY <1>4, <2>1
<1>9. user = <<>> => pu = B
  BY <1>1
<1> HIDE DEF pu, po
<1>10. LostBefore(dropped, Floor + b)
  <2>1. \A d \in dropped : d.n \in 1..(Floor + b)
    BY <1>1, <1>4 DEF LostBefore
  <2>2. QED
    BY <1>4, <2>1 DEF LostBefore
<1>11. ToSet(B) \subseteq Decoded /\ ToSet(pu) \subseteq Decoded
  BY <1>1, <1>6 DEF ToSet
<1>12. \A i \in 1..b : B[i] \in ToSet(B)
  BY <1>1 DEF ToSet
<1>13. ASSUME B # <<>>
       PROVE  /\ Tail(B) \in Seq(Decoded) /\ Len(Tail(B)) = b - 1 /\ 1 \in 1..b /\ Head(B) = B[1]
              /\ \A k \in 1..(b - 1) : Tail(B)[k] = B[k + 1]
  BY <1>1, <1>13, TailFacts
<1>14. EventsTyped'
  <2>1. user' \in Seq(Decoded) /\ got' \subseteq Decoded
    <3>1. CASE user' = pu /\ got' = got
      BY <1>4, <1>6, <3>1
    <3>2. CASE B # <<>> /\ got' = got \cup {Head(B)} /\ user' = Tail(B)
      BY <1>4, <1>11, <1>12, <1>13, <3>2
    <3>3. CASE got' = got \cup ToSet(pu) /\ user' = <<>>
      BY <1>4, <1>11, <3>3
    <3>4. QED
      BY <1>3, <3>1, <3>2, <3>3
  <2>2. QED
    BY <1>1, <1>3, <1>4, <1>6, <2>1 DEF EventsInv, EventsTyped
<1>15. QueueNumbered'
  <2>1. ASSUME NEW k \in 1..(q - b) PROVE Left[k].n = Floor + b + k
    <3>1. b + k \in 1..q /\ Left[k] = queue[b + k]
      BY <1>1, <1>4
    <3>2. Left[k].n = Floor + (b + k)
      BY <1>4, <3>1
    <3> DEFINE f == Floor
    <3>3. f \in Nat /\ b \in Nat /\ k \in Nat /\ Left[k].n = f + (b + k)
      BY <1>1, <1>4, <3>2
    <3> HIDE DEF f, b
    <3>4. Left[k].n = f + b + k
      BY <3>3
    <3>5. QED
      BY <3>4 DEF f
  <2>2. Len(Left) <= MaxQueued /\ Floor + b \in Nat
    BY <1>1, <1>4
  <2>3. QED
    BY <1>1, <1>3, <1>8, <2>1, <2>2 DEF QueueNumbered
<1>16. DropsOldest'
  <2>1. /\ IsFiniteSet(dropped)
        /\ \A d \in dropped : d.n \in 1..(Floor + b) /\ d.n + MaxQueued <= pushed
    BY <1>10 DEF EventsInv, DropsOldest, LostBefore
  <2>2. QED
    BY <1>3, <1>8, <2>1 DEF DropsOldest
<1>17. StreamsWhole'
  <2>1. StreamWhole(got', user', Floor + b, dropped)
    <3>1. CASE user' = pu /\ got' = got
      BY <1>7, <3>1
    <3>2. CASE user = <<>> /\ B # <<>> /\ got' = got \cup {Head(B)} /\ user' = Tail(B)
      <4>1. StreamWhole(got, B, Floor + b, dropped) /\ Floor + b \in Nat
        BY <1>1, <1>4, <1>7, <1>9, <3>2
      <4>2. StreamWhole(got \cup {B[1]}, Tail(B), Floor + b, dropped)
        <5> DEFINE r == Tail(B)
                   F == Floor + b
        <5>1. /\ F \in Nat /\ StreamWhole(got, B, F, dropped) /\ LostBefore(dropped, F)
              /\ 1 \in 1..Len(B) /\ r \in Seq(Decoded) /\ Len(r) = Len(B) - 1
              /\ \A k \in 1..(Len(B) - 1) : r[k] = IF k < 1 THEN B[k] ELSE B[k + 1]
          BY <1>10, <1>13, <3>2, <4>1
        <5> HIDE DEF r, F
        <5>2. StreamWhole(got \cup {B[1]}, r, F, dropped)
          BY <1>1, <5>1, StreamTakesOne
        <5>3. QED
          BY <5>2 DEF r, F
      <4>3. QED
        BY <1>13, <3>2, <4>2
    <3>3. CASE got' = got \cup ToSet(pu) /\ user' = <<>>
      <4>1. Floor + b \in Nat
        BY <1>1, <1>4
      <4>2. QED
        BY <1>6, <1>7, <1>10, <3>3, <4>1, StreamTakesAll
    <3>4. QED
      BY <1>3, <3>1, <3>2, <3>3
  <2>2. QED
    BY <1>3, <1>7, <1>8, <2>1 DEF StreamsWhole
<1>18. TakenInOrder'
  <2>0. \A e \in got : e.n \in 1..Floor
    BY <1>4 DEF StreamWhole, NumberedTo
  <2>1. CASE user' = pu /\ got' = got
    <3> SUFFICES ASSUME NEW e \in got, NEW i \in 1..Len(pu), e.type = pu[i].type PROVE e.n < pu[i].n
      BY <2>1 DEF TakenInOrder
    <3>1. Len(user) \in Nat
      BY <1>4
    <3>2. CASE i <= Len(user)
      BY <1>6, <3>1, <3>2 DEF EventsInv, TakenInOrder
    <3>3. CASE i > Len(user)
      <4>0. b \in Nat /\ i \in 1..(Len(user) + b)
        BY <1>1, <1>6
      <4>1. i - Len(user) \in 1..b /\ pu[i] = B[i - Len(user)]
        <5>1. i \in (Len(user) + 1)..(Len(user) + b) /\ i - Len(user) \in 1..b
          BY <3>1, <3>3, <4>0
        <5>2. QED
          BY <1>6, <5>1
      <4>2. pu[i].n = Floor + (i - Len(user))
        BY <1>1, <4>1
      <4>3. QED
        BY <1>4, <2>0, <4>1, <4>2
    <3>4. QED
      BY <3>1, <3>2, <3>3
  <2>2. CASE user = <<>> /\ B # <<>> /\ got' = got \cup {Head(B)} /\ user' = Tail(B)
    <3> SUFFICES ASSUME NEW e \in got', NEW k \in 1..(b - 1) PROVE e.n < Tail(B)[k].n
      BY <1>13, <2>2 DEF TakenInOrder
    <3>1. Tail(B)[k].n = Floor + (k + 1) /\ k + 1 \in 1..b
      <4>1. k + 1 \in 1..b /\ Tail(B)[k] = B[k + 1]
        BY <1>1, <1>13, <2>2
      <4>2. QED
        BY <1>1, <4>1
    <3>2. e.n \in 1..(Floor + 1)
      <4>1. B[1].n = Floor + 1
        BY <1>1, <1>13, <2>2
      <4>2. QED
        BY <1>4, <1>13, <2>0, <2>2, <4>1
    <3>3. QED
      BY <1>4, <3>1, <3>2
  <2>3. CASE user' = <<>>
    <3>1. \A i \in 1..Len(<<>>) : FALSE
      OBVIOUS
    <3>2. QED
      BY <2>3, <3>1 DEF TakenInOrder
  <2>4. QED
    BY <1>3, <2>1, <2>2, <2>3
<1>19. got' \cup ToSet(user') = (got \cup ToSet(user)) \cup ToSet(B)
  <2>1. CASE user' = pu /\ got' = got
    BY <1>6, <2>1
  <2>2. CASE user = <<>> /\ B # <<>> /\ got' = got \cup {Head(B)} /\ user' = Tail(B)
    <3>1. ToSet(B) = {B[1]} \cup ToSet(Tail(B)) /\ ToSet(user) = {}
      <4>1. \A k \in 1..(b - 1) : Tail(B)[k] \in ToSet(B)
        <5>1. \A k \in 1..(b - 1) : k + 1 \in 1..b
          BY <1>1
        <5>2. QED
          BY <1>12, <1>13, <2>2, <5>1
      <4>2. ToSet(Tail(B)) \subseteq ToSet(B)
        <5> DEFINE r == Tail(B)
                   R == ToSet(B)
        <5>1. r \in Seq(Decoded) /\ \A k \in 1..Len(r) : r[k] \in R
          BY <1>13, <2>2, <4>1
        <5> HIDE DEF r, R
        <5>2. ToSet(r) \subseteq R
          BY <5>1 DEF ToSet
        <5>3. QED
          BY <5>2 DEF r, R
      <4>3. ASSUME NEW i \in 1..b, i # 1 PROVE B[i] \in ToSet(Tail(B))
        <5>1. i - 1 \in 1..(b - 1) /\ (i - 1) + 1 = i
          BY <1>1, <4>3
        <5>2. i - 1 \in DOMAIN Tail(B) /\ Tail(B)[i - 1] = B[i]
          BY <1>13, <2>2, <5>1
        <5>3. QED
          BY <5>2 DEF ToSet
      <4>4. ToSet(B) \subseteq {B[1]} \cup ToSet(Tail(B))
        <5> DEFINE R == ToSet(Tail(B))
        <5>1. \A i \in 1..Len(B) : B[i] \in {B[1]} \cup R
          BY <4>3
        <5> HIDE DEF R
        <5>2. ToSet(B) \subseteq {B[1]} \cup R
          BY <5>1, <1>1 DEF ToSet
        <5>3. QED
          BY <5>2 DEF R
      <4>5. B[1] \in ToSet(B) /\ ToSet(user) = {}
        BY <1>12, <1>13, <2>2 DEF ToSet
      <4>6. QED
        BY <4>2, <4>4, <4>5
    <3>2. QED
      BY <1>13, <2>2, <3>1
  <2>3. CASE got' = got \cup ToSet(pu) /\ user' = <<>>
    <3>1. ToSet(<<>>) = {}
      BY DEF ToSet
    <3>2. QED
      BY <1>6, <2>3, <3>1
  <2>4. QED
    BY <1>3, <2>1, <2>2, <2>3
<1>20. ASSUME NEW e \in ToSet(B)
       PROVE  \E i \in 1..b : /\ i \in 1..q /\ e.shot = queue[i].shot
                              /\ e.type = "ConnectionEvent" => IsConnection(queue[i])
  <2>1. PICK i \in 1..b : e = B[i]
    BY <1>1 DEF ToSet
  <2>2. i \in 1..q /\ e = Decode(queue[i]) /\ queue[i] \in Queued
    BY <1>1, <1>4, <2>1 DEF EventsInv, EventsTyped
  <2>3. e.shot = queue[i].shot /\ (e.type = "ConnectionEvent" => IsConnection(queue[i]))
    BY <2>2, TypeOfFacts DEF Decode, IsConnection, Queued
  <2>4. QED
    BY <2>2, <2>3
<1>21. ShotsAnnounced'
  <2>1. /\ \A i \in 1..q : queue[i].shot <= announced
        /\ \A e \in got \cup ToSet(user) : e.shot <= announced
    BY DEF EventsInv, ShotsAnnounced
  <2>2. \A e \in ToSet(B) : e.shot <= announced
    BY <1>20, <2>1
  <2>3. \A k \in 1..(q - b) : b + k \in 1..q
    BY <1>1, <1>4
  <2>4. \A k \in 1..Len(Left) : Left[k].shot <= announced
    BY <1>1, <2>1, <2>3
  <2>5. QED
    BY <1>3, <1>19, <2>1, <2>2, <2>4 DEF ShotsAnnounced
<1>22. StateTold'
  <2> SUFFICES ASSUME Live, ~ChangePending
               PROVE  /\ \A k \in 1..Len(Left) : NewestQueued(k)' => Left[k].to = state
                      /\ (\A k \in 1..Len(Left) : ~IsConnection(Left[k])) /\ HeardLast'
                           => known' = state
    BY <1>3 DEF StateTold
  <2>1. /\ \A i \in 1..q : NewestQueued(i) => queue[i].to = state
        /\ (\A i \in 1..q : ~IsConnection(queue[i])) /\ HeardLast => known = state
    BY DEF EventsInv, StateTold
  <2>2. ASSUME NEW k \in 1..Len(Left), NewestQueued(k)' PROVE Left[k].to = state
    <3>0. b \in Nat /\ q \in Nat /\ k \in 1..(q - b)
      BY <1>1, <1>4
    <3>1. b + k \in 1..q /\ Left[k] = queue[b + k]
      <4>1. b + k \in 1..q
        <5> HIDE DEF b, q
        <5>1. QED
          BY <3>0
      <4>2. QED
        BY <1>1, <3>0, <4>1
    <3>2. IsConnection(queue[b + k])
      BY <1>3, <2>2, <3>1 DEF NewestQueued
    <3>3. ASSUME NEW j \in 1..q, j > b + k PROVE ~IsConnection(queue[j])
      <4>1. j - b \in 1..(q - b) /\ j - b > k /\ b + (j - b) = j
        BY <1>1, <1>4, <3>3
      <4>2. ~IsConnection(Left[j - b])
        BY <1>1, <1>3, <2>2, <4>1 DEF NewestQueued
      <4>3. QED
        BY <1>1, <4>1, <4>2
    <3>4. NewestQueued(b + k)
      BY <3>1, <3>2, <3>3 DEF NewestQueued, q
    <3>5. QED
      BY <2>1, <3>1, <3>4
  <2>3. ASSUME \A k \in 1..Len(Left) : ~IsConnection(Left[k]), HeardLast' PROVE known' = state
    <3>1. ASSUME NEW j \in 1..q, j > b PROVE ~IsConnection(queue[j])
      <4>1. j - b \in 1..(q - b) /\ b + (j - b) = j
        BY <1>1, <1>4, <3>1
      <4>2. QED
        BY <1>1, <2>3, <4>1
    <3>2. CASE (\A i \in 1..b : ~IsConnection(queue[i])) /\ known' = known
      <4>1. \A i \in 1..q : ~IsConnection(queue[i])
        BY <1>1, <1>4, <3>1, <3>2
      <4>2. HeardLast
        <5>1. \A e \in ToSet(B) : e.type # "ConnectionEvent"
          BY <1>20, <3>2
        <5>2. QED
          BY <1>3, <1>19, <2>3, <5>1 DEF HeardLast
      <4>3. QED
        BY <2>1, <3>2, <4>1, <4>2
    <3>3. CASE \E i \in 1..b : /\ IsConnection(queue[i]) /\ known' = queue[i].to
                               /\ \A j \in 1..b : j > i => ~IsConnection(queue[j])
      <4>1. PICK i \in 1..b : /\ IsConnection(queue[i]) /\ known' = queue[i].to
                              /\ \A j \in 1..b : j > i => ~IsConnection(queue[j])
        BY <3>3
      <4>2. i \in 1..q
        BY <1>1, <1>4
      <4>3. ASSUME NEW j \in 1..q, j > i PROVE ~IsConnection(queue[j])
        <5>1. CASE j > b
          BY <3>1, <5>1
        <5>2. CASE j <= b
          BY <1>1, <4>1, <4>3, <5>2
        <5>3. QED
          BY <1>1, <5>1, <5>2
      <4>4. NewestQueued(i)
        BY <4>1, <4>2, <4>3 DEF NewestQueued, q
      <4>5. QED
        BY <2>1, <4>1, <4>2, <4>4
    <3>4. QED
      BY <1>2, <3>2, <3>3
  <2>4. QED
    BY <2>2, <2>3
<1>23. QED
  BY <1>14, <1>15, <1>16, <1>17, <1>18, <1>21, <1>22 DEF EventsInv

-----------------------------------------------------------------------------
(* The steps, one by one.                                                  *)

\* The steps of a callback: it stores a state, pushes the event of the state it
\* stored, announces a postview, or pushes an event of another kind.
Rests(e) == vendor' = <<>> \/ \E f \in Events : vendor' = <<Pushing(f)>> /\ Plain(f)
StoresState(s) ==
  /\ state' = s /\ vendor' = <<Pushing(Change(s))>> /\ opener' = Notified
  /\ UNCHANGED <<events, postview>>
TellsState(s) ==
  /\ state = s /\ vendor = <<Pushing(Change(s))>> /\ vendor' = <<>>
  /\ MutexFree /\ Push(Change(s)) /\ opener' = Notified /\ UNCHANGED <<state, postview>>
AnnouncesShot(k) ==
  /\ vendor[1] = Announce(k) /\ announced < k /\ announced' = k /\ waiting' = k
  /\ vendor' = <<Pushing(Event("content", NoState, k))>>
  /\ UNCHANGED <<state, opener, events>>
TellsOther(e) ==
  /\ Plain(e) /\ vendor[1] = Pushing(e) /\ Rests(e)
  /\ MutexFree /\ Push(e) /\ opener' = Notified /\ UNCHANGED <<state, postview>>

LEMMA CallbackCases ==
  ASSUME BridgeInv, CallbackStep
  PROVE  /\ vendor # <<>> /\ UNCHANGED <<session, streams, previews>>
         /\ \/ \E s \in ConnectionStates : StoresState(s) \/ TellsState(s)
            \/ \E k \in Nat : AnnouncesShot(k)
            \/ \E e \in Events : TellsOther(e)
<1>0. vendor # <<>> /\ UNCHANGED <<session, streams, previews>> /\ vendor' = Tail(vendor)
  BY DEF CallbackStep
<1> DEFINE step == Head(vendor)
<1>1. \/ step.do = "store" /\ state' = step.arg /\ opener' = Notified
         /\ UNCHANGED <<events, postview>>
      \/ step.do = "push" /\ MutexFree /\ Push(step.arg) /\ opener' = Notified
         /\ UNCHANGED <<state, postview>>
      \/ step.do = "announce" /\ announced' = step.arg /\ waiting' = step.arg
         /\ UNCHANGED <<state, opener, events>>
  BY DEF CallbackStep, PushWakes, Pending
<1>2. ASSUME NEW s \in ConnectionStates, Storing(s) PROVE StoresState(s)
  <2>1. step = Store(s) /\ Tail(vendor) = <<Pushing(Change(s))>>
    BY <1>2 DEF Storing
  <2>2. step.do = "store" /\ step.arg = s
    BY <2>1 DEF Store
  <2>3. QED
    BY <1>0, <1>1, <2>1, <2>2 DEF StoresState
<1>3. ASSUME NEW s \in ConnectionStates, Stored(s) PROVE TellsState(s)
  <2>1. step = Pushing(Change(s)) /\ Tail(vendor) = <<>> /\ vendor = <<Pushing(Change(s))>> /\ state = s
    BY <1>3 DEF Stored
  <2>2. step.do = "push" /\ step.arg = Change(s)
    BY <2>1 DEF Pushing
  <2>3. QED
    BY <1>0, <1>1, <2>1, <2>2 DEF TellsState
<1>4. ASSUME NEW k \in Nat, Announcing(k) PROVE AnnouncesShot(k)
  <2>1. /\ step = Announce(k) /\ vendor[1] = Announce(k) /\ Tail(vendor) = <<Pushing(Event("content", NoState, k))>>
        /\ announced < k
    BY <1>4 DEF Announcing
  <2>2. step.do = "announce" /\ step.arg = k
    BY <2>1 DEF Announce
  <2>3. QED
    BY <1>0, <1>1, <2>1, <2>2 DEF AnnouncesShot
<1>5. ASSUME NEW e \in Events, Plain(e), vendor[1] = Pushing(e), Head(vendor) = Pushing(e), Rests(e)
      PROVE  TellsOther(e)
  <2>1. step.do = "push" /\ step.arg = e
    BY <1>5 DEF Pushing
  <2>2. QED
    BY <1>1, <1>5, <2>1 DEF TellsOther
<1>6. ASSUME NEW e \in Events, Telling(e) PROVE TellsOther(e)
  <2>1. Head(vendor) = Pushing(e) /\ vendor[1] = Pushing(e) /\ Tail(vendor) = <<>>
    BY <1>6 DEF Telling
  <2>2. QED
    BY <1>0, <1>5, <1>6, <2>1 DEF Telling, Rests
<1>7. ASSUME NEW e \in Events, NEW f \in Events, TellingTwo(e, f) PROVE TellsOther(e)
  <2>1. Head(vendor) = Pushing(e) /\ vendor[1] = Pushing(e) /\ Tail(vendor) = <<Pushing(f)>>
    BY <1>7 DEF TellingTwo
  <2>2. Rests(e)
    BY <1>0, <1>7, <2>1 DEF TellingTwo, Rests
  <2>3. QED
    BY <1>5, <1>7, <2>1, <2>2 DEF TellingTwo
<1> HIDE DEF step
<1>8. QED
  BY <1>0, <1>2, <1>3, <1>4, <1>6, <1>7 DEF BridgeInv, VendorInOrder

\* Pushing an event that is not about the connection is not pending a change.
LEMMA PlainNotPending ==
  /\ \A f : Plain(f) /\ vendor = <<Pushing(f)>> => ~ChangePending
  /\ \A f : Plain(f) /\ vendor # <<>> /\ vendor[1] = Pushing(f) => ~ChangePending
  /\ vendor = <<>> => ~ChangePending
  BY DEF Plain, Pushing, ChangePending

LEMMA StepKinds ==
  ASSUME IInv, [Next]_vars
  PROVE  QuietStep \/ PushStep \/ PumpStep \/ TakeStep
<1>0. announced \in Nat /\ state \in ConnectionStates
  BY DEF IInv, BridgeInv, BridgeTyped
\* A step that leaves the state alone, or ends the session.
<1>1. ASSUME UNCHANGED <<events, streams, announced>>, Live' => Live,
             Live' => ChangePending' \/ (~ChangePending /\ state' = state /\ known' \in {known, state})
      PROVE  QuietStep
  <2>1. announced' = announced
    BY <1>1
  <2>2. UNCHANGED <<events, streams>>
    BY <1>1
  <2>3. announced' >= announced
    BY <1>0, <2>1
  <2>4. QED
    BY <1>0, <1>1, <2>1, <2>2, <2>3 DEF QuietStep
<1>2. CASE OpenBegins
  <2>1. /\ Push(Change("connecting")) /\ state' = "connecting"
        /\ UNCHANGED <<vendor, postview, session, streams, previews>>
    BY <1>2 DEF OpenBegins
  <2>2. /\ Change("connecting") \in Events /\ Change("connecting").kind = "connection"
        /\ Change("connecting").to = "connecting" /\ Change("connecting").shot = 0
    BY DEF Change, Event, Events, Kinds, Carries, ConnectionStates, None
  <2>3. QED
    BY <1>0, <2>1, <2>2 DEF PushStep, postview, session
<1>3. CASE Settles
  <2>1. UNCHANGED <<state, vendor, postview, known, closed, gone, streams, previews>>
        /\ opener = "settling" /\ opener' = "opened"
    BY <1>3 DEF Settles
  <2>2. (Live' => Live) /\ (ChangePending' <=> ChangePending)
    BY <2>1 DEF Live, ChangePending
  <2>3. CASE UNCHANGED events
    BY <1>1, <2>1, <2>2, <2>3 DEF postview
  <2>4. CASE Push(Report("warning"))
    <3>1. /\ Report("warning") \in Events /\ Report("warning").kind = "warning"
          /\ Report("warning").shot = 0
      BY DEF Report, Event, Events, Kinds, Carries, None
    <3>2. QED
      BY <1>0, <2>1, <2>2, <2>4, <3>1 DEF PushStep, postview
  <2>5. QED
    BY <1>3, <2>3, <2>4 DEF Settles
<1>4. CASE CallbackStep
  <2>1. /\ vendor # <<>> /\ UNCHANGED <<session, streams, previews>>
        /\ \/ \E s \in ConnectionStates : StoresState(s) \/ TellsState(s)
           \/ \E k \in Nat : AnnouncesShot(k)
           \/ \E e \in Events : TellsOther(e)
    BY <1>4, CallbackCases DEF IInv
  <2>2. known' = known /\ closed' = closed /\ gone' = gone
    BY <2>1 DEF session
  <2>3. opener' \in {opener, Notified} => (Live' => Live)
    BY <2>2 DEF Live, Notified
  <2>4. ASSUME NEW s \in ConnectionStates, StoresState(s) PROVE QuietStep
    <3>1. ChangePending'
      BY <2>4 DEF StoresState, ChangePending, Pushing, Change, Event
    <3>2. QED
      BY <1>1, <2>1, <2>3, <2>4, <3>1 DEF StoresState, postview
  <2>5. ASSUME NEW s \in ConnectionStates, TellsState(s) PROVE PushStep
    <3>1. Change(s) \in Events /\ Change(s).kind = "connection" /\ Change(s).to = s /\ Change(s).shot = 0
      BY DEF Change, Event, Events, Kinds, Carries, None
    <3>2. QED
      BY <1>0, <2>1, <2>2, <2>5, <3>1 DEF PushStep, TellsState, postview
  <2>6. ASSUME NEW k \in Nat, AnnouncesShot(k) PROVE QuietStep
    <3>1. ~ChangePending
      <4>1. vendor[1].do # "push"
        BY <2>6 DEF AnnouncesShot, Announce
      <4>2. QED
        BY <4>1 DEF ChangePending
    <3>2. QED
      BY <1>0, <2>1, <2>2, <2>3, <2>6, <3>1 DEF QuietStep, AnnouncesShot
  <2>7. ASSUME NEW e \in Events, TellsOther(e) PROVE PushStep
    <3>1. ~ChangePending
      BY <2>1, <2>7, PlainNotPending DEF TellsOther
    <3>2. e.kind # "connection" /\ e.shot <= announced
      BY <1>0, <2>7 DEF TellsOther, Plain
    <3>3. QED
      BY <2>1, <2>2, <2>3, <2>7, <3>1, <3>2 DEF PushStep, TellsOther, postview
  <2>8. QED
    BY <2>1, <2>4, <2>5, <2>6, <2>7
<1>5. CASE OnConnected \/ OnReconnecting \/ OnDisconnected \/ OnPropertyChangedCodes \/ OnReport
           \/ OnNotifyPostViewImage
  <2>1. /\ vendor = <<>>
        /\ UNCHANGED <<state, opener, events, postview, session, streams, previews>>
    BY <1>5 DEF OnConnected, OnReconnecting, OnDisconnected, OnPropertyChangedCodes, OnReport,
                OnNotifyPostViewImage, Callback
  <2>2. (Live' <=> Live) /\ ~ChangePending
    BY <2>1, PlainNotPending DEF Live, session
  <2>3. QED
    BY <1>1, <2>1, <2>2 DEF session, postview
<1>6. CASE OpenFails \/ Close \/ Shutdown
  <2>1. ~Live' /\ UNCHANGED <<events, streams, announced>>
    BY <1>6 DEF OpenFails, Close, Shutdown, Live, postview
  <2>2. QED
    BY <1>1, <2>1
<1>7. CASE ConnectReturns \/ Check \/ Sleep \/ WaitTimesOut \/ Passed
  <2>1. UNCHANGED <<state, vendor, events, postview, session, streams, previews>> /\ opener # "failed"
    BY <1>7 DEF ConnectReturns, Check, Sleep, WaitTimesOut, Passed
  <2>2. (Live' => Live) /\ (ChangePending' <=> ChangePending)
    BY <2>1 DEF Live, ChangePending, session
  <2>3. QED
    BY <1>1, <2>1, <2>2 DEF session, postview
\* The client.
<1>8. ASSUME UNCHANGED <<bridge, closed, gone>>
      PROVE  (Live' <=> Live) /\ (ChangePending' <=> ChangePending) /\ state' = state
  BY <1>8 DEF bridge, Live, ChangePending
<1>9. CASE ConstructReads \/ WaitEnds \/ StateReached \/ CheckUsable \/ PullPostview
           \/ (\E type \in EventTypes : WaitForEvent(type))
           \/ (\E s \in ConnectionStates : WaitForState(s))
           \/ (\E c \in DOMAIN previews : FetchPostview(c))
  <2>1. UNCHANGED <<bridge, closed, gone, events, streams, announced>> /\ known' \in {known, BackendState}
    BY <1>9 DEF ConstructReads, WaitEnds, StateReached, CheckUsable, PullPostview, WaitForEvent,
                WaitForState, FetchPostview, postview
  <2>2. Live => BackendState = state
    BY DEF Live, BackendState
  <2>3. QED
    BY <1>1, <1>8, <2>1, <2>2
<1>10. CASE ConstructPumps \/ Pump
  BY <1>10 DEF ConstructPumps, Pump, PumpStep, postview
<1>11. CASE NextEvent
  BY <1>11 DEF NextEvent, PumpStep, TakeStep, postview, events
<1>12. CASE DrainEvents
  BY <1>12 DEF DrainEvents, PumpStep, TakeStep, postview, events
<1>13. CASE EventFound
  BY <1>13 DEF EventFound, TakeStep, postview, events
<1>14. CASE TakeOpEvents
  BY <1>14 DEF TakeOpEvents, TakeStep, postview, events, session
<1>15. CASE UNCHANGED vars
  <2>1. UNCHANGED <<bridge, closed, gone, events, streams, announced, known>>
    BY <1>15 DEF vars, session, postview
  <2>2. QED
    BY <1>1, <1>8, <2>1
<1>16. QED
  BY <1>2, <1>3, <1>4, <1>5, <1>6, <1>7, <1>9, <1>10, <1>11, <1>12, <1>13, <1>14, <1>15 DEF Next

\* Three kinds of steps leave the bridge's part in order: one that touches nothing
\* of it, ones that end the session, and a callback that begins.
LEMMA BridgeKeeps == IInv /\ [Next]_vars => BridgeInv'
<1> SUFFICES ASSUME IInv, [Next]_vars PROVE BridgeInv'
  OBVIOUS
<1>0. /\ state \in ConnectionStates /\ announced \in Nat /\ waiting \in {None, announced}
      /\ previews \in Seq(Nat)
  BY DEF IInv, BridgeInv, BridgeTyped
<1>a. UNCHANGED postview /\ previews' = previews => PostviewsClaimed'
  BY DEF IInv, BridgeInv, PostviewsClaimed, postview
<1>b. UNCHANGED <<announced, state, vendor, opener>> => VendorInOrder' /\ WaiterLooked'
  BY DEF IInv, BridgeInv, VendorInOrder, WaiterLooked, Storing, Stored, Announcing, Telling,
         TellingTwo, Plain
<1>c. UNCHANGED <<state, vendor, announced>> /\ opener # "new" /\ opener' # "new"
        => VendorInOrder'
  BY DEF IInv, BridgeInv, VendorInOrder, Storing, Stored, Announcing, Telling, TellingTwo, Plain
<1>d. vendor' = <<>> => VendorInOrder'
  BY DEF VendorInOrder
<1>1. CASE OpenBegins
  <2>1. /\ opener = "new" /\ opener' = "connecting" /\ state' = "connecting" /\ vendor' = vendor
        /\ UNCHANGED postview /\ previews' = previews
    BY <1>1 DEF OpenBegins
  <2>2. vendor' = <<>>
    BY <2>1 DEF IInv, BridgeInv, VendorInOrder
  <2>3. BridgeTyped'
    BY <1>0, <2>1 DEF BridgeTyped, ConnectionStates, postview
  <2>4. WaiterLooked'
    BY <2>1 DEF WaiterLooked
  <2>5. QED
    BY <1>a, <1>d, <2>1, <2>2, <2>3, <2>4 DEF BridgeInv
<1>2. CASE OpenFails \/ Close \/ Shutdown
  <2>1. /\ state' = "closed" /\ vendor' = <<>> /\ opener' \in {"failed", "opened"}
        /\ UNCHANGED postview /\ previews' = previews
    BY <1>2 DEF OpenFails, Close, Shutdown, Open
  <2>2. BridgeTyped'
    BY <1>0, <2>1 DEF BridgeTyped, ConnectionStates, postview
  <2>3. WaiterLooked'
    BY <2>1 DEF WaiterLooked
  <2>4. QED
    BY <1>a, <1>d, <2>1, <2>2, <2>3 DEF BridgeInv
<1>3. CASE ConnectReturns \/ Check \/ Sleep \/ WaitTimesOut \/ Passed \/ Settles
  <2>1. /\ UNCHANGED <<state, vendor, postview, previews>> /\ opener # "new" /\ opener' # "new"
        /\ opener' = "locked" => state \notin Connected
        /\ opener' = "asleep" => opener = "locked"
    BY <1>3 DEF ConnectReturns, Check, Sleep, WaitTimesOut, Passed, Settles
  <2>2. BridgeTyped'
    BY <1>0, <2>1 DEF BridgeTyped, postview
  <2>3. WaiterLooked'
    BY <2>1 DEF IInv, BridgeInv, WaiterLooked
  <2>4. QED
    BY <1>a, <1>c, <2>1, <2>2, <2>3 DEF BridgeInv, postview
<1>4. CASE CallbackStep
  <2>1. /\ vendor # <<>> /\ UNCHANGED <<session, streams, previews>>
        /\ \/ \E s \in ConnectionStates : StoresState(s) \/ TellsState(s)
           \/ \E k \in Nat : AnnouncesShot(k)
           \/ \E e \in Events : TellsOther(e)
    BY <1>4, CallbackCases DEF IInv
  <2>2. opener # "new"
    BY <2>1 DEF IInv, BridgeInv, VendorInOrder
  <2>3. Notified # "new" /\ Notified # "asleep" /\ (Notified = "locked" => opener = "locked")
    BY <2>2 DEF Notified
  <2>4. ASSUME NEW s \in ConnectionStates, StoresState(s) PROVE BridgeInv'
    <3>1. /\ state' = s /\ vendor' = <<Pushing(Change(s))>> /\ opener' = Notified
          /\ UNCHANGED <<postview, previews>>
      BY <2>1, <2>4 DEF StoresState
    <3>2. BridgeTyped'
      BY <1>0, <3>1 DEF BridgeTyped, postview
    <3>3. VendorInOrder'
      BY <2>3, <3>1 DEF VendorInOrder, Stored
    <3>4. WaiterLooked'
      BY <3>1 DEF WaiterLooked
    <3>5. QED
      BY <1>a, <3>1, <3>2, <3>3, <3>4 DEF BridgeInv
  <2>5. ASSUME NEW s \in ConnectionStates, TellsState(s) PROVE BridgeInv'
    <3>1. /\ vendor' = <<>> /\ opener' = Notified /\ MutexFree /\ UNCHANGED <<state, postview, previews>>
      BY <2>1, <2>5 DEF TellsState
    <3>2. BridgeTyped'
      BY <1>0, <3>1 DEF BridgeTyped, postview
    <3>3. WaiterLooked'
      BY <2>3, <3>1 DEF WaiterLooked, MutexFree
    <3>4. QED
      BY <1>a, <1>d, <3>1, <3>2, <3>3 DEF BridgeInv
  <2>6. ASSUME NEW k \in Nat, AnnouncesShot(k) PROVE BridgeInv'
    <3>1. /\ announced < k /\ announced' = k /\ waiting' = k /\ previews' = previews
          /\ vendor' = <<Pushing(Event("content", NoState, k))>> /\ UNCHANGED <<state, opener>>
      BY <2>1, <2>6 DEF AnnouncesShot
    <3>2. BridgeTyped'
      BY <1>0, <3>1 DEF BridgeTyped
    <3>3. VendorInOrder'
      <4> DEFINE e == Event("content", NoState, k)
      <4>1. /\ e \in Events /\ e.kind = "content" /\ e.to = NoState /\ e.shot = k
            /\ e = Event(e.kind, e.to, e.shot)
        BY DEF Event, Events, Kinds, Carries
      <4>2. vendor' = <<Pushing(e)>>
        BY <3>1
      <4> HIDE DEF e
      <4>3. "content" \in Kinds \ {"connection"} /\ k \in 0..announced'
        BY <3>1 DEF Kinds
      <4>4. Telling(e)'
        BY <4>1, <4>2, <4>3 DEF Telling, Plain
      <4>5. QED
        BY <2>2, <3>1, <4>1, <4>4 DEF VendorInOrder
    <3>4. WaiterLooked'
      BY <3>1 DEF WaiterLooked
    <3>5. PostviewsClaimed'
      <4>1. \A c \in 1..Len(previews) : previews[c] \in Nat /\ previews[c] <= announced
        BY <1>0 DEF IInv, BridgeInv, PostviewsClaimed
      <4>2. \A c \in 1..Len(previews) : previews[c] <= k /\ previews[c] # k
        BY <1>0, <3>1, <4>1
      <4>3. QED
        BY <3>1, <4>2 DEF IInv, BridgeInv, PostviewsClaimed
    <3>6. QED
      BY <3>2, <3>3, <3>4, <3>5 DEF BridgeInv
  <2>7. ASSUME NEW e \in Events, TellsOther(e) PROVE BridgeInv'
    <3>1. Rests(e) /\ opener' = Notified /\ MutexFree /\ UNCHANGED <<state, postview, previews>>
      BY <2>1, <2>7 DEF TellsOther
    <3>2. BridgeTyped'
      BY <1>0, <3>1 DEF BridgeTyped, postview
    <3>3. VendorInOrder'
      <4>1. CASE vendor' = <<>>
        BY <1>d, <4>1
      <4>2. ASSUME NEW f \in Events, vendor' = <<Pushing(f)>>, Plain(f) PROVE VendorInOrder'
        <5>1. Plain(f)'
          BY <3>1, <4>2 DEF Plain, postview
        <5>2. QED
          BY <2>3, <3>1, <4>2, <5>1 DEF VendorInOrder, Telling
      <4>3. QED
        BY <3>1, <4>1, <4>2 DEF Rests
    <3>4. WaiterLooked'
      BY <2>3, <3>1 DEF WaiterLooked, MutexFree
    <3>5. QED
      BY <1>a, <3>1, <3>2, <3>3, <3>4 DEF BridgeInv
  <2>8. QED
    BY <2>1, <2>4, <2>5, <2>6, <2>7
\* A callback that begins.
<1>5. ASSUME NEW steps, Callback(steps), steps # <<>>,
             \/ \E s \in ConnectionStates : steps = Changes(s)
             \/ \E k \in Nat : announced < k /\ steps = Announces(k)
             \/ \E e \in Events : Plain(e) /\ steps = <<Pushing(e)>>
             \/ \E e, f \in Events : Plain(e) /\ Plain(f) /\ steps = <<Pushing(e), Pushing(f)>>
      PROVE  BridgeInv'
  <2>1. /\ vendor' = steps /\ opener # "new"
        /\ UNCHANGED <<state, opener, announced, waiting, claimed, previews>>
    BY <1>5 DEF Callback, Attached, postview
  <2>2. BridgeTyped'
    BY <1>0, <2>1 DEF BridgeTyped
  <2>3. VendorInOrder'
    <3>1. \A e : Plain(e) => Plain(e)'
      BY <2>1 DEF Plain
    <3>2. QED
      BY <1>5, <2>1, <3>1 DEF VendorInOrder, Storing, Announcing, Telling, TellingTwo, Changes, Announces
  <2>4. WaiterLooked'
    BY <1>5, <2>1 DEF WaiterLooked
  <2>5. QED
    BY <1>a, <2>1, <2>2, <2>3, <2>4 DEF BridgeInv, postview
<1>6. \A s \in ConnectionStates : Changes(s) # <<>>
  BY DEF Changes
<1>7. CASE OnConnected
  BY <1>5, <1>6, <1>7 DEF OnConnected, ConnectionStates
<1>8. CASE OnReconnecting
  BY <1>5, <1>6, <1>8 DEF OnReconnecting, ConnectionStates
<1>9. CASE OnDisconnected
  BY <1>5, <1>6, <1>9 DEF OnDisconnected, ConnectionStates
<1>10. ASSUME NEW kind \in Kinds \ {"connection"}
       PROVE  Report(kind) \in Events /\ Plain(Report(kind))
  <2>1. /\ Report(kind).kind = kind /\ Report(kind).to = NoState /\ Report(kind).shot = 0
        /\ Report(kind) = Event(kind, NoState, 0)
    BY DEF Report, Event, None
  <2>2. Report(kind) \in Events
    BY DEF Report, Event, Events, None, Carries
  <2>3. QED
    BY <1>0, <2>1, <2>2 DEF Plain
<1>11. CASE OnPropertyChangedCodes
  <2>1. PICK n \in 1..2 : Callback(PropertyChanges(n))
    BY <1>11 DEF OnPropertyChangedCodes
  <2>2. "property" \in Kinds \ {"connection"}
    BY DEF Kinds
  <2> DEFINE p == Pushing(Report("property"))
  <2>3. PropertyChanges(n) = [i \in 1..n |-> p]
    BY DEF PropertyChanges
  <2> HIDE DEF p
  <2>4. CASE n = 1
    <3>1. PropertyChanges(n) = <<p>> /\ <<p>> # <<>>
      BY <2>3, <2>4
    <3>2. QED
      BY <1>5, <1>10, <2>1, <2>2, <3>1 DEF p
  <2>5. CASE n = 2
    <3>1. PropertyChanges(n) = <<p, p>> /\ <<p, p>> # <<>>
      BY <2>3, <2>5
    <3>2. QED
      BY <1>5, <1>10, <2>1, <2>2, <3>1 DEF p
  <2>6. QED
    BY <2>4, <2>5
<1>12. CASE OnReport
  <2>1. PICK kind \in Reported : Callback(Reports(kind))
    BY <1>12 DEF OnReport
  <2>2. kind \in Kinds \ {"connection"}
    BY ConstantsAssumption DEF Kinds
  <2>3. Reports(kind) # <<>>
    BY DEF Reports
  <2>4. QED
    BY <1>5, <1>10, <2>1, <2>2, <2>3 DEF Reports
<1>13. CASE OnNotifyPostViewImage
  <2>1. PICK k \in (announced + 1)..Len(previews) : Callback(Announces(k))
    BY <1>13 DEF OnNotifyPostViewImage
  <2>2. k \in Nat /\ announced < k
    BY <1>0
  <2>3. Announces(k) # <<>>
    BY DEF Announces
  <2>4. QED
    BY <1>5, <2>1, <2>2, <2>3
\* The client.
<1>14. ASSUME UNCHANGED <<bridge, postview>>, previews' \in Seq(Nat) PROVE BridgeTyped' /\ VendorInOrder' /\ WaiterLooked'
  BY <1>0, <1>14, <1>b DEF BridgeTyped, bridge, postview
<1>15. CASE \/ ConstructPumps \/ ConstructReads \/ NextEvent \/ DrainEvents \/ Pump
            \/ (\E type \in EventTypes : WaitForEvent(type))
            \/ EventFound \/ WaitEnds
            \/ (\E s \in ConnectionStates : WaitForState(s))
            \/ StateReached \/ TakeOpEvents
            \/ (\E c \in DOMAIN previews : FetchPostview(c))
            \/ UNCHANGED vars
  <2>1. UNCHANGED <<bridge, postview, previews>>
    BY <1>15 DEF ConstructPumps, ConstructReads, NextEvent, DrainEvents, Pump, WaitForEvent,
                 EventFound, WaitEnds, WaitForState, StateReached, TakeOpEvents, FetchPostview, vars
  <2>2. QED
    BY <1>0, <1>a, <1>14, <2>1 DEF BridgeInv
<1>16. CASE CheckUsable
  <2>1. /\ UNCHANGED <<bridge, postview>>
        /\ previews' = previews \/ previews' = Append(previews, None)
    BY <1>16 DEF CheckUsable
  <2>2. CASE previews' = previews
    BY <1>0, <1>a, <1>14, <2>1, <2>2 DEF BridgeInv
  <2>3. CASE previews' = Append(previews, None)
    <3>1. /\ previews' \in Seq(Nat) /\ Len(previews') = Len(previews) + 1
          /\ \A c \in 1..Len(previews) : previews'[c] = previews[c]
          /\ previews'[Len(previews) + 1] = None
      <4>1. None \in Nat
        BY DEF None
      <4>2. QED
        BY <1>0, <2>3, <4>1, AppendFacts
    <3>2. \A c \in 1..Len(previews') : c \in 1..Len(previews) \/ c = Len(previews) + 1
      BY <1>0, <3>1
    <3>3. None <= announced
      BY <1>0 DEF None
    <3>4. PostviewsClaimed'
      <4>1. announced' = announced /\ waiting' = waiting /\ claimed' = claimed
        BY <2>1 DEF postview
      <4>2. \A c \in 1..Len(previews') : previews'[c] <= announced'
        BY <3>1, <3>2, <3>3, <4>1 DEF IInv, BridgeInv, PostviewsClaimed
      <4>3. waiting' # None => \A c \in 1..Len(previews') : previews'[c] # waiting'
        BY <3>1, <3>2, <4>1 DEF IInv, BridgeInv, PostviewsClaimed
      <4>4. \A c, d \in 1..Len(previews') : previews'[c] = previews'[d] /\ c # d => previews'[c] = None
        BY <3>1, <3>2 DEF IInv, BridgeInv, PostviewsClaimed
      <4>5. QED
        BY <4>1, <4>2, <4>3, <4>4 DEF IInv, BridgeInv, PostviewsClaimed
    <3>5. QED
      BY <1>14, <2>1, <3>1, <3>4 DEF BridgeInv
  <2>4. QED
    BY <2>1, <2>2, <2>3
<1>17. CASE PullPostview
  <2>1. /\ UNCHANGED bridge /\ waiting # None /\ waiting' = None /\ announced' = announced
        /\ claimed' = claimed \cup {waiting}
        /\ previews' = [previews EXCEPT ![client.capture] = waiting] \/ previews' = previews
    BY <1>17 DEF PullPostview, Unclaimed
  <2> DEFINE c == client.capture
  <2>2. waiting = announced /\ waiting \in Nat
    BY <1>0, <2>1
  <2>3. /\ previews' \in Seq(Nat) /\ Len(previews') = Len(previews)
        /\ \A d \in 1..Len(previews) : previews'[d] = previews[d] \/ (d = c /\ previews'[d] = waiting)
    <3> HIDE DEF c
    <3>1. CASE previews' = previews
      BY <1>0, <3>1
    <3>2. CASE previews' = [previews EXCEPT ![c] = waiting]
      <4> DEFINE n == Len(previews)
                 new == [d \in 1..n |-> IF d = c THEN waiting ELSE previews[d]]
      <4>0. DOMAIN previews = 1..n /\ n \in Nat /\ previews = [d \in 1..n |-> previews[d]]
        BY <1>0
      <4>1. previews' = new /\ n \in Nat
        BY <3>2, <4>0
      <4>2. \A d \in 1..n : new[d] \in Nat
        BY <1>0, <2>2
      <4>3. new \in Seq(Nat) /\ Len(new) = n
        BY <4>1, <4>2
      <4>4. \A d \in 1..n : new[d] = previews[d] \/ (d = c /\ new[d] = waiting)
        OBVIOUS
      <4> HIDE DEF new
      <4>5. QED
        BY <4>1, <4>3, <4>4
    <3>3. QED
      BY <2>1, <3>1, <3>2 DEF c
  <2> HIDE DEF c
  <2>4. /\ \A d \in 1..Len(previews) : previews[d] <= announced /\ previews[d] # waiting
        /\ \A d, e \in 1..Len(previews) : previews[d] = previews[e] /\ d # e => previews[d] = None
    BY <2>1 DEF IInv, BridgeInv, PostviewsClaimed
  <2>5. PostviewsClaimed'
    <3>1. \A d \in 1..Len(previews') : previews'[d] <= announced'
      BY SMTT(30), <1>0, <2>1, <2>2, <2>3, <2>4
    <3>2. \A d, e \in 1..Len(previews') : previews'[d] = previews'[e] /\ d # e => previews'[d] = None
      BY <2>3, <2>4
    <3>3. announced' \in claimed'
      BY <2>1, <2>2
    <3>4. QED
      BY <2>1, <3>1, <3>2, <3>3 DEF PostviewsClaimed
  <2>6. BridgeTyped'
    BY <1>0, <2>1, <2>3 DEF BridgeTyped, bridge
  <2>7. VendorInOrder' /\ WaiterLooked'
    BY <1>b, <2>1 DEF bridge
  <2>8. QED
    BY <2>5, <2>6, <2>7 DEF BridgeInv
<1>18. QED
  BY <1>1, <1>2, <1>3, <1>4, <1>7, <1>8, <1>9, <1>11, <1>12, <1>13, <1>15, <1>16, <1>17 DEF Next

-----------------------------------------------------------------------------
(* The invariant.                                                          *)

LEMMA Invariance == Spec => []IInv
<1>1. Init => IInv
  <2> SUFFICES ASSUME Init PROVE IInv
    OBVIOUS
  <2>1. /\ state = "closed" /\ opener = "new" /\ vendor = <<>> /\ queue = <<>> /\ pushed = 0
        /\ dropped = {} /\ announced = 0 /\ waiting = 0 /\ user = <<>> /\ ops = <<>>
        /\ got = {} /\ opGot = {} /\ previews = <<>>
    BY DEF Init, None
  <2>2. /\ Len(<<>>) = 0 /\ ToSet(<<>>) = {} /\ MaxQueued \in Nat
        /\ \A S : <<>> \in Seq(S)
        /\ \A i \in 1..Len(<<>>) : FALSE
    BY ConstantsAssumption DEF ToSet
  <2>3. Floor = 0
    <3>1. Floor = 0 - 0
      BY <2>1, <2>2 DEF Floor
    <3>2. QED
      BY <3>1
  <2>4. BridgeInv
    BY <2>1, <2>2 DEF BridgeInv, BridgeTyped, VendorInOrder, WaiterLooked, PostviewsClaimed,
                      ConnectionStates, None
  <2>5. EventsTyped /\ QueueNumbered /\ DropsOldest
    BY <2>1, <2>2, <2>3, StreamEmpty DEF EventsTyped, QueueNumbered, DropsOldest
  <2>6. StreamsWhole
    BY <2>1, <2>3, StreamEmpty DEF StreamsWhole
  <2>7. TakenInOrder /\ ShotsAnnounced
    BY <2>1, <2>2 DEF TakenInOrder, ShotsAnnounced
  <2>8. StateTold
    <3>1. ~HeardLast
      BY <2>1, <2>2 DEF HeardLast
    <3>2. QED
      BY <2>1, <2>2, <3>1 DEF StateTold
  <2>9. QED
    BY <2>4, <2>5, <2>6, <2>7, <2>8 DEF IInv, EventsInv
<1>2. IInv /\ [Next]_vars => IInv'
  <2> SUFFICES ASSUME IInv, [Next]_vars PROVE IInv'
    OBVIOUS
  <2>1. EventsInv
    BY DEF IInv
  <2>2. EventsInv'
    BY <2>1, StepKinds, QuietKeeps, PushKeeps, PumpKeeps, TakeKeeps
  <2>3. QED
    BY <2>2, BridgeKeeps DEF IInv
<1>3. QED
  BY <1>1, <1>2, PTL DEF Spec

\* Session::open does not sleep through the change it waits for: once the callback
\* that brought it is done, the thread is awake, though set_state notifies without
\* the mutex.
THEOREM WaiterIsWoken == Spec => []WaiterWoken
<1>1. IInv => WaiterWoken
  BY DEF IInv, BridgeInv, WaiterLooked, WaiterWoken
<1>2. QED
  BY <1>1, Invariance, PTL

\* Each event reaches the client's stream and the operations' once, or the full
\* queue dropped it and it was the oldest, for any size of queue and batch.
THEOREM EveryEventAccounted == Spec => []EventsAccounted
<1>1. IInv => EventsAccounted
  <2> SUFFICES ASSUME IInv PROVE EventsAccounted
    OBVIOUS
  <2> DEFINE rest == [i \in DOMAIN queue |-> Decode(queue[i])]
  <2>0. /\ queue \in Seq(Queued) /\ Len(queue) \in Nat /\ pushed \in Nat /\ Floor \in Nat
        /\ \A i \in 1..Len(queue) : queue[i] \in Queued /\ queue[i].n = Floor + i
        /\ user \in Seq(Decoded) /\ ops \in Seq(Decoded) /\ LostBefore(dropped, Floor)
        /\ StreamWhole(got, user, Floor, dropped) /\ StreamWhole(opGot, ops, Floor, dropped)
    BY DroppedBefore DEF IInv, EventsInv, EventsTyped, QueueNumbered, StreamsWhole
  <2>1. \A r \in Queued : Decode(r) \in Decoded /\ Decode(r).n = r.n
    BY DEF Queued, Decoded, Decode
  <2>2. rest \in Seq(Decoded) /\ Len(rest) = Len(queue) /\ \A i \in 1..Len(rest) : rest[i].n = Floor + i
    <3> DEFINE n == Len(queue)
               r == [i \in 1..n |-> Decode(queue[i])]
    <3>1. rest = r /\ n \in Nat
      BY <2>0
    <3>2. \A i \in 1..n : Decode(queue[i]) \in Decoded /\ Decode(queue[i]).n = Floor + i
      BY <2>0, <2>1
    <3> HIDE DEF n
    <3>3. r \in Seq(Decoded) /\ Len(r) = n /\ \A i \in 1..n : r[i].n = Floor + i
      BY <3>1, <3>2
    <3> HIDE DEF r, rest
    <3>4. QED
      BY <3>1, <3>3 DEF n
  <2>3. Floor + Len(rest) = pushed
    <3> DEFINE q == Len(queue)
    <3>1. Floor = pushed - q /\ q \in Nat /\ Len(rest) = q
      BY <2>0, <2>2 DEF Floor
    <3> HIDE DEF q, rest
    <3>2. QED
      BY <2>0, <3>1
  <2> HIDE DEF rest
  <2>4. /\ StreamWhole(got, user \o rest, pushed, dropped)
        /\ StreamWhole(opGot, ops \o rest, pushed, dropped)
    <3>1. /\ StreamWhole(got, user \o rest, Floor + Len(rest), dropped)
          /\ StreamWhole(opGot, ops \o rest, Floor + Len(rest), dropped)
      BY <2>0, <2>2, StreamGrows
    <3>2. QED
      BY <2>3, <3>1
  <2>5. ASSUME NEW taken, NEW held, StreamWhole(taken, held \o rest, pushed, dropped)
        PROVE  /\ Numbers(taken) \cup Numbers(ToSet(held \o rest)) = (1..pushed) \ Numbers(dropped)
               /\ Cardinality(taken) + Len(held \o rest) = pushed - Cardinality(dropped)
    BY <2>5 DEF StreamWhole
  <2>6. /\ Len(queue) <= MaxQueued
        /\ \A e \in dropped : e.n + MaxQueued <= pushed
    BY DEF IInv, EventsInv, QueueNumbered, DropsOldest
  <2>7. \A n \in Numbers(dropped) : n + MaxQueued <= pushed
    BY <2>6 DEF Numbers
  <2>8. \A stream \in {<<got, user>>, <<opGot, ops>>} :
          /\ Numbers(stream[1]) \cup Numbers(ToSet(stream[2] \o rest)) = (1..pushed) \ Numbers(dropped)
          /\ Cardinality(stream[1]) + Len(stream[2] \o rest) = pushed - Cardinality(dropped)
    BY <2>4, <2>5
  <2>9. QED
    BY <2>6, <2>7, <2>8 DEF EventsAccounted, rest
<1>2. QED
  BY <1>1, Invariance, PTL

\* Events of one type reach the client in the order the camera reported them,
\* with wait_for_event taking some out of turn.
THEOREM TypesStayInOrder == Spec => []TypesInOrder
<1>1. IInv => TypesInOrder
  <2> SUFFICES ASSUME IInv, NEW e \in got,
                      NEW later \in ToSet(user) \cup {Decode(r) : r \in ToSet(queue)},
                      e.type = later.type
               PROVE  e.n < later.n
    BY DEF TypesInOrder
  <2>1. e.n \in 1..Floor /\ Floor \in Nat
    BY DEF IInv, EventsInv, StreamsWhole, StreamWhole, NumberedTo, QueueNumbered
  <2>2. CASE later \in ToSet(user)
    BY <2>2 DEF IInv, EventsInv, TakenInOrder, ToSet
  <2>3. CASE later \in {Decode(r) : r \in ToSet(queue)}
    <3>1. PICK i \in 1..Len(queue) : later = Decode(queue[i])
      BY <2>3 DEF ToSet, IInv, EventsInv, EventsTyped
    <3>2. later.n = Floor + i
      BY <3>1 DEF Decode, IInv, EventsInv, QueueNumbered
    <3>3. QED
      BY <2>1, <3>2
  <2>4. QED
    BY <2>2, <2>3
<1>2. QED
  BY <1>1, Invariance, PTL

\* Who has taken in every event knows the state the bridge is in, unless the full
\* queue dropped a newer change than the newest the client saw.
THEOREM StateIsCaughtUp == Spec => []StateCatchesUp
<1>1. IInv => StateCatchesUp
  <2> SUFFICES ASSUME IInv, Settled, NEW e \in Seen, e.n > Newest PROVE known = state
    BY DEF StateCatchesUp
  <2>1. Live /\ ~ChangePending /\ queue = <<>>
    BY DEF Settled, Open, Live, ChangePending
  <2>2. HeardLast
    <3> DEFINE S == {d \in dropped : d.kind = "connection"}
               N == Numbers(S)
    <3>1. /\ IsFiniteSet(dropped) /\ Floor \in Nat /\ \A d \in dropped : d.n \in 1..Floor
      BY DEF IInv, EventsInv, DropsOldest, QueueNumbered
    <3>2. N \in SUBSET Nat /\ \A n \in N : n <= Floor
      BY <3>1 DEF Numbers
    <3>3. \A d \in S : d.n \in N
      BY DEF Numbers
    <3>4. Newest = IF S = {} THEN 0 ELSE Max(N)
      BY DEF Newest
    <3>5. e \in got \cup ToSet(user) /\ e.type = "ConnectionEvent" /\ e.n \in 1..Floor
      BY DEF Seen, IInv, EventsInv, StreamsWhole, StreamWhole, NumberedTo, ToSet
    <3>6. ASSUME NEW d \in dropped, IsConnection(d) PROVE d.n < e.n
      <4>1. d \in S
        BY <3>6 DEF IsConnection
      <4> HIDE DEF S, N
      <4>2. N # {} /\ Newest = Max(N) /\ d.n \in N
        BY <3>3, <3>4, <4>1
      <4>3. Max(N) \in N /\ Max(N) >= d.n
        BY <3>1, <3>2, <4>2, MaxFacts
      <4>a. e.n > Max(N)
        BY <4>2
      <4>b. d.n \in Nat /\ Max(N) \in Nat
        BY <3>2, <4>2, <4>3
      <4>c. e.n \in Nat
        BY <3>1, <3>5
      <4>4. d.n \in Nat /\ Max(N) \in Nat /\ e.n \in Nat /\ e.n > Max(N)
        BY <4>a, <4>b, <4>c
      <4> DEFINE m == Max(N)
      <4>5. m \in Nat /\ m >= d.n /\ e.n > m
        BY <4>3, <4>4
      <4> HIDE DEF m
      <4>6. QED
        BY <4>4, <4>5
    <3>7. QED
      BY <3>5, <3>6 DEF HeardLast
  <2>3. \A i \in 1..Len(<<>>) : FALSE
    OBVIOUS
  <2>4. QED
    BY <2>1, <2>2, <2>3 DEF IInv, EventsInv, StateTold
<1>2. QED
  BY <1>1, Invariance, PTL

\* Who has seen a postview's content event can pull that postview, unless a pull
\* has claimed it or a newer one came, and no two captures get the same postview.
THEOREM PostviewsServed == Spec => []PostviewServed
<1>1. IInv => PostviewServed
  <2> SUFFICES ASSUME IInv PROVE PostviewReady /\ PostviewOnce
    BY DEF PostviewServed
  <2>1. PostviewReady
    <3> SUFFICES ASSUME NEW e \in got \cup ToSet(user), e.shot # None,
                        e.shot # waiting, e.shot \notin claimed
                 PROVE  e.shot < announced
      BY DEF PostviewReady
    <3>1. e.shot <= announced
      BY DEF IInv, EventsInv, ShotsAnnounced
    <3>2. e.shot # announced
      BY DEF IInv, BridgeInv, PostviewsClaimed
    <3>3. e.shot \in Nat /\ announced \in Nat
      <4>1. user \in Seq(Decoded) /\ got \subseteq Decoded /\ announced \in Nat
        BY DEF IInv, BridgeInv, BridgeTyped, EventsInv, EventsTyped
      <4>2. ToSet(user) \subseteq Decoded
        BY <4>1 DEF ToSet
      <4>3. e \in Decoded
        BY <4>1, <4>2
      <4>4. QED
        BY <4>1, <4>3 DEF Decoded
    <3>4. QED
      BY <3>1, <3>2, <3>3
  <2>2. previews \in Seq(Nat)
    BY DEF IInv, BridgeInv, BridgeTyped
  <2>3. PostviewOnce
    BY <2>2 DEF IInv, BridgeInv, PostviewsClaimed, PostviewOnce
  <2>4. QED
    BY <2>1, <2>3
<1>2. QED
  BY <1>1, Invariance, PTL
=============================================================================
