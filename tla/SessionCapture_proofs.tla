----------------------- MODULE SessionCapture_proofs -----------------------
(***************************************************************************)
(* Proofs about the captures of one Session: what the calls leave behind,  *)
(* what confirms them, and whose still they resolve to, for any number of  *)
(* captures, autofocus attempts and losses of the link.                    *)
(***************************************************************************)
EXTENDS SessionCapture, WellFoundedInduction, FiniteSetTheorems, TLAPS

Gate == {"clear", "press", "immediate", "wait", "refuse", "refusing"}
Releasing == {"gated", "plain", "fire"}
Events == [kind : Channels \cup {"capture", "content", "indication"}, tag : Nat, focused : BOOLEAN]

EventsTyped == wire \subseteq Events /\ opq \in Seq(Events) /\ beq \in Seq(Events)

\* The stage the operation is at is one of its kind, and the Capture it works on
\* is the newest.
StageFits ==
  /\ pc \in Gate => op.kind \in HasGate
  /\ pc \in {"down", "dwell", "await"} => op.kind \in Releasing
  /\ pc \in {"tidy", "tidying"} => op.kind = "gated"
  /\ pc = "content" => op.kind = "content" /\ op.capture \in 1..Len(captures)
  /\ pc # "idle" /\ op.kind \in Releasing => op.capture = Len(captures) /\ op.capture > 0

\* The bounds: a started attempt and a release that is still to come have room.
RoomLeft ==
  /\ pc \in {"clear", "press"} => attempt < MaxAttempts
  /\ Len(shots) <= Len(captures)
  /\ pc \in Gate \cup {"down"} /\ op.kind \in Releasing => Len(shots) < Len(captures)

(* Reports of focus: the events, and the indication on its way.             *)
IsReport(e) == e.kind \in Channels \cup {"indication"}
SaysFocused(e) == IsReport(e) /\ e.focused

(* The events that are on their way or wait to be pumped.                  *)
Abroad == wire \cup {Pumped[i] : i \in 1..Len(Pumped)}
Taken == {"exposed", "stored"}
Known(e) ==
  /\ e.kind = "capture" =>
       /\ e = CaptureEvent(e.tag)
       /\ e.tag \in 1..Len(shots) /\ shots[e.tag].stage \in Taken
  /\ e.kind = "content" => e.tag <= Len(card)
  /\ IsReport(e) => e.tag <= attempt
EventsKnown == \A e \in Abroad : Known(e)

\* Each still is of another shot; a Capture's still is newer than its baseline.
StillsStored ==
  /\ \A i \in 1..Len(card) : shots[card[i]].stage = "stored"
  /\ \A i, j \in 1..Len(card) : i # j => card[i] # card[j]
  /\ \A n \in 1..Len(captures) :
       /\ captures[n].baseline <= Len(card)
       /\ captures[n].content # NONE =>
            captures[n].content > captures[n].baseline /\ captures[n].content <= Len(card)

\* Of each exposure there is one event, and once a Capture has it none is left.
OnePlaceEach ==
  /\ \A i, j \in 1..Len(Pumped) :
       IsCapture(Pumped[i]) /\ IsCapture(Pumped[j]) /\ i # j => Pumped[i].tag # Pumped[j].tag
  /\ \A e \in wire, i \in 1..Len(Pumped) :
       IsCapture(e) /\ IsCapture(Pumped[i]) => e.tag # Pumped[i].tag
Consumed ==
  \A n \in 1..Len(captures) : captures[n].exposedBy # NONE =>
    /\ captures[n].exposedBy \in 1..Len(shots)
    /\ shots[captures[n].exposedBy].stage \in Taken
    /\ \A e \in Abroad : IsCapture(e) => e.tag # captures[n].exposedBy
    /\ \A m \in 1..Len(captures) : m # n => captures[m].exposedBy # captures[n].exposedBy

\* The stage while the gate waits and after it has opened, and once it was asked
\* to be let go.
Holding ==
  /\ pc \in {"immediate", "wait"} \/ (pc = "down" /\ op.kind = "gated") => half /\ ~letting
  /\ pc \in {"refusing", "tidying"} => (half => letting)

\* What is read or heard of focus in the attempt under way is true, and so is
\* what the gate concludes from it.
OwnFocus ==
  /\ lens <= attempt
  /\ pc \in {"immediate", "wait"} =>
       /\ attempt > 0
       /\ (lens = attempt \/ \E e \in Abroad : SaysFocused(e) /\ e.tag = attempt) => af = "found"
  /\ pc = "down" /\ op.kind = "gated" /\ Current.focusBy = attempt => af = "found"

\* With nothing left over at the start, nothing else is read or heard of focus.
FocusFresh ==
  Settled =>
    /\ pc \in {"clear", "press"} =>
         /\ lens = NONE /\ ~half /\ ~letting /\ af \notin Underway
         /\ \A e \in Abroad : ~IsReport(e)
    /\ pc \in {"immediate", "wait"} =>
         /\ lens \in {NONE, attempt}
         /\ \A e \in Abroad : SaysFocused(e) => e.tag = attempt
    /\ pc = "down" /\ op.kind = "gated" => Current.focusBy = attempt

\* ... and only the newest Capture has shots that are still to be stored.
ShotsInTurn ==
  Settled =>
    /\ \A s \in 1..Len(shots) :
         shots[s].stage \in {"requested", "exposed"} => shots[s].of = Len(captures)
    /\ \A n \in 1..Len(captures), id \in 1..Len(card) :
         id > captures[n].baseline => shots[card[id]].of >= n

IInv ==
  /\ TypeOK /\ EventsTyped
  /\ StageFits /\ RoomLeft
  /\ EventsKnown /\ StillsStored
  /\ OnePlaceEach /\ Consumed
  /\ HalfPressReleased /\ Holding
  /\ OwnFocus /\ FocusFresh /\ ShotsInTurn

-----------------------------------------------------------------------------
(* Numbers and sequences.                                                  *)

LEMMA MinFacts ==
  ASSUME NEW S \in SUBSET Nat, S # {}
  PROVE  Min(S) \in S /\ \A x \in S : Min(S) <= x
<1> DEFINE T == {1..x : x \in S}
<1>0. \A x \in S : 1..x \in FiniteSubsetsOf(Nat)
  BY FS_Interval DEF FiniteSubsetsOf
<1>1. T \subseteq FiniteSubsetsOf(Nat) /\ T # {}
  BY <1>0
<1>2. PICK X \in T : \A Y \in T : ~(<<Y, X>> \in StrictSubsetOrdering(Nat))
  BY <1>1, FS_StrictSubsetOrderingWellFounded, WFMin
<1>3. PICK x \in S : X = 1..x
  OBVIOUS
<1>4. ASSUME NEW y \in S PROVE x <= y
  <2> SUFFICES ASSUME y < x PROVE FALSE
    OBVIOUS
  <2>0. x \in S
    BY <1>3
  <2>1. 1..y \in SUBSET Nat /\ 1..x \in SUBSET Nat /\ 1..y \subseteq 1..x /\ x \in 1..x /\ x \notin 1..y
    OBVIOUS
  <2>2. <<1..y, 1..x>> \in StrictSubsetOrdering(Nat)
    BY <2>1 DEF StrictSubsetOrdering
  <2>3. QED
    BY <1>2, <1>3, <2>2
<1>5. QED
  BY <1>4 DEF Min

LEMMA AppendFacts ==
  ASSUME NEW S, NEW s \in Seq(S), NEW e \in S
  PROVE  /\ Append(s, e) \in Seq(S) /\ Len(Append(s, e)) = Len(s) + 1
         /\ \A i \in 1..Len(s) : Append(s, e)[i] = s[i]
         /\ Append(s, e)[Len(s) + 1] = e
  OBVIOUS

LEMMA ConcatFacts ==
  ASSUME NEW S, NEW s \in Seq(S), NEW t \in Seq(S)
  PROVE  /\ s \o t \in Seq(S) /\ Len(s \o t) = Len(s) + Len(t)
         /\ \A i \in 1..Len(s) : (s \o t)[i] = s[i]
         /\ \A i \in 1..Len(t) : (s \o t)[i + Len(s)] = t[i]
<1>1. /\ s \o t \in Seq(S) /\ Len(s \o t) = Len(s) + Len(t)
      /\ \A i \in 1..Len(s) : (s \o t)[i] = s[i]
  OBVIOUS
<1>2. ASSUME NEW i \in 1..Len(t) PROVE (s \o t)[i + Len(s)] = t[i]
  OBVIOUS
<1>3. QED
  BY <1>1, <1>2

LEMMA CountTo ==
  ASSUME NEW n \in Nat
  PROVE  IsFiniteSet(1..n) /\ Cardinality(1..n) = n
<1>1. 1 \in Int /\ n \in Int
  OBVIOUS
<1>2. IsFiniteSet(1..n) /\ Cardinality(1..n) = IF 1 > n THEN 0 ELSE n - 1 + 1
  BY <1>1, FS_Interval
<1>3. QED
  BY <1>2

\* A sequence without repetition is no longer than the set it is taken from.
LEMMA DistinctBound ==
  ASSUME NEW n \in Nat, NEW s \in Seq(1..n), \A i, j \in 1..Len(s) : i # j => s[i] # s[j]
  PROVE  Len(s) <= n
<1> DEFINE R == {s[i] : i \in 1..Len(s)}
           f == [i \in 1..Len(s) |-> s[i]]
<1>1. Len(s) \in Nat /\ IsFiniteSet(1..Len(s)) /\ Cardinality(1..Len(s)) = Len(s)
  <2>1. Len(s) \in Nat
    OBVIOUS
  <2>2. QED
    BY <2>1, CountTo
<1>2. f \in Bijection(1..Len(s), R)
  BY DEF Bijection, Injection, Surjection, IsInjective
<1>3. IsFiniteSet(R) /\ Cardinality(R) = Len(s)
  <2>1. ExistsBijection(1..Len(s), R)
    BY <1>2 DEF ExistsBijection
  <2>2. QED
    BY <1>1, <2>1, FS_Bijection
<1>4. R \subseteq 1..n
  OBVIOUS
<1>5. IsFiniteSet(1..n) /\ Cardinality(1..n) = n
  BY CountTo
<1>6. Cardinality(R) <= Cardinality(1..n)
  BY <1>4, <1>5, FS_Subset
<1>7. QED
  BY <1>3, <1>5, <1>6

-----------------------------------------------------------------------------
(* Events on their way.                                                    *)

LEMMA PumpedFacts ==
  ASSUME EventsTyped
  PROVE  /\ Pumped \in Seq(Events) /\ Len(Pumped) = Len(opq) + Len(beq) /\ Len(Pumped) \in Nat
         /\ \A i \in 1..Len(opq) : Pumped[i] = opq[i]
         /\ \A i \in 1..Len(beq) : Pumped[i + Len(opq)] = beq[i]
         /\ Abroad \subseteq Events
<1>1. /\ Pumped \in Seq(Events) /\ Len(Pumped) = Len(opq) + Len(beq)
      /\ \A i \in 1..Len(opq) : Pumped[i] = opq[i]
      /\ \A i \in 1..Len(beq) : Pumped[i + Len(opq)] = beq[i]
  <2>1. opq \in Seq(Events) /\ beq \in Seq(Events)
    BY DEF EventsTyped
  <2>2. QED
    BY <2>1, ConcatFacts DEF Pumped
<1>2. \A i \in 1..Len(Pumped) : Pumped[i] \in Events
  BY <1>1
<1>3. Abroad \subseteq Events
  BY <1>2 DEF Abroad, EventsTyped
<1>4. QED
  BY <1>1, <1>3

\* What can become of them: some are read or lost, the oldest first; one is
\* delivered; the camera sends some.
Fewer ==
  /\ wire' \subseteq wire
  /\ \E d \in Nat : /\ Len(Pumped') \in Nat /\ Len(Pumped') + d = Len(Pumped)
                    /\ \A i \in 1..Len(Pumped') : Pumped'[i] = Pumped[i + d]
Delivers == \E e \in wire : wire' = wire \ {e} /\ Pumped' = Append(Pumped, e)
Sends == wire \subseteq wire' /\ Pumped' = Pumped

LEMMA FewerFacts ==
  ASSUME EventsTyped, Fewer
  PROVE  Abroad' \subseteq Abroad /\ (OnePlaceEach => OnePlaceEach')
<1>1. PICK d \in Nat : /\ Len(Pumped') \in Nat /\ Len(Pumped') + d = Len(Pumped)
                       /\ \A i \in 1..Len(Pumped') : Pumped'[i] = Pumped[i + d]
  BY DEF Fewer
<1>2. wire' \subseteq wire
  BY DEF Fewer
<1>3. \A i \in 1..Len(Pumped') : i + d \in 1..Len(Pumped)
  BY <1>1
<1>4. \A i \in 1..Len(Pumped') : Pumped'[i] \in Abroad
  BY <1>1, <1>3 DEF Abroad
<1>5. Abroad' \subseteq Abroad
  <2>1. Abroad' = wire' \cup {Pumped'[i] : i \in 1..Len(Pumped')}
    BY DEF Abroad
  <2>2. wire' \subseteq Abroad
    BY <1>2 DEF Abroad
  <2> HIDE DEF Abroad
  <2>3. QED
    BY <1>4, <2>1, <2>2
<1>6. ASSUME OnePlaceEach PROVE OnePlaceEach'
  <2>1. ASSUME NEW i \in 1..Len(Pumped'), NEW j \in 1..Len(Pumped'), i # j,
               IsCapture(Pumped'[i]), IsCapture(Pumped'[j])
        PROVE  Pumped'[i].tag # Pumped'[j].tag
    <3>1. i + d \in 1..Len(Pumped) /\ j + d \in 1..Len(Pumped) /\ i + d # j + d
      BY <1>1, <1>3, <2>1
    <3>2. QED
      BY <1>1, <1>6, <2>1, <3>1 DEF OnePlaceEach
  <2>2. \A e \in wire', i \in 1..Len(Pumped') :
          IsCapture(e) /\ IsCapture(Pumped'[i]) => e.tag # Pumped'[i].tag
    BY <1>1, <1>2, <1>3, <1>6 DEF OnePlaceEach
  <2>3. QED
    BY <2>1, <2>2 DEF OnePlaceEach, IsCapture
<1>7. QED
  BY <1>5, <1>6

LEMMA DeliversFacts ==
  ASSUME EventsTyped, EventsKnown, Delivers
  PROVE  Abroad' = Abroad /\ (OnePlaceEach => OnePlaceEach')
<1>1. PICK e \in wire : wire' = wire \ {e} /\ Pumped' = Append(Pumped, e)
  BY DEF Delivers
<1>2. Pumped \in Seq(Events) /\ e \in Events /\ Len(Pumped) \in Nat
  BY PumpedFacts DEF EventsTyped
<1> DEFINE n == Len(Pumped)
           q == Pumped'
<1>3. /\ Len(q) = n + 1 /\ q[n + 1] = e
      /\ \A i \in 1..n : q[i] = Pumped[i]
  BY <1>1, <1>2, AppendFacts
<1>4. \A i \in 1..Len(q) : i \in 1..n \/ i = n + 1
  BY <1>2, <1>3
<1>5. n + 1 \in 1..Len(q) /\ \A i \in 1..n : i \in 1..Len(q)
  BY <1>2, <1>3
<1>6. Abroad' = Abroad
  <2>1. {q[i] : i \in 1..Len(q)} = {Pumped[i] : i \in 1..n} \cup {e}
    BY <1>3, <1>4, <1>5
  <2>2. Abroad' = wire' \cup {q[i] : i \in 1..Len(q)}
    BY DEF Abroad
  <2>3. QED
    BY <1>1, <2>1, <2>2 DEF Abroad
<1>7. ASSUME OnePlaceEach PROVE OnePlaceEach'
  <2>0. \A f \in wire : IsCapture(f) => f = CaptureEvent(f.tag)
    BY DEF EventsKnown, Known, Abroad, IsCapture
  <2>1. \A i, j \in 1..Len(q) :
          IsCapture(q[i]) /\ IsCapture(q[j]) /\ i # j => q[i].tag # q[j].tag
    BY <1>3, <1>4, <1>7 DEF OnePlaceEach
  <2>2. \A f \in wire', i \in 1..Len(q) :
          IsCapture(f) /\ IsCapture(q[i]) => f.tag # q[i].tag
    <3> SUFFICES ASSUME NEW f \in wire', NEW i \in 1..Len(q), IsCapture(f), IsCapture(q[i]), f.tag = q[i].tag
                 PROVE  FALSE
      OBVIOUS
    <3>1. f \in wire /\ f # e
      BY <1>1
    <3>2. CASE i \in 1..n
      BY <1>3, <1>7, <3>1, <3>2 DEF OnePlaceEach
    <3>3. CASE i = n + 1
      BY <1>3, <2>0, <3>1, <3>3
    <3>4. QED
      BY <1>4, <3>2, <3>3
  <2> HIDE DEF q, n
  <2>3. QED
    BY <2>1, <2>2 DEF OnePlaceEach, IsCapture, q
<1>8. QED
  BY <1>6, <1>7

-----------------------------------------------------------------------------
(* What a step does to the Capture objects.                                *)

\* One Capture is replaced.
LEMMA ReplaceOne ==
  ASSUME NEW S, NEW s \in Seq(S), NEW c \in S, NEW k
  PROVE  /\ [s EXCEPT ![k] = c] \in Seq(S) /\ Len([s EXCEPT ![k] = c]) = Len(s)
         /\ \A n \in 1..Len(s) : [s EXCEPT ![k] = c][n] = IF n = k THEN c ELSE s[n]
<1> DEFINE l == Len(s)
           new == [n \in 1..l |-> IF n = k THEN c ELSE s[n]]
<1>1. DOMAIN s = 1..l /\ l \in Nat /\ s = [n \in 1..l |-> s[n]]
  OBVIOUS
<1>2. [s EXCEPT ![k] = c] = new
  BY <1>1
<1>3. \A n \in 1..l : new[n] \in S
  OBVIOUS
<1>4. new \in Seq(S) /\ Len(new) = l
  BY <1>1, <1>3
<1>5. \A n \in 1..l : new[n] = IF n = k THEN c ELSE s[n]
  OBVIOUS
<1> HIDE DEF new
<1>6. QED
  BY <1>2, <1>4, <1>5

\* What a Capture keeps, and what still it may resolve to.
Keeps(c, d) ==
  /\ d \in CaptureRecord /\ d.baseline = c.baseline
  /\ d.content = c.content \/ (d.content > c.baseline /\ d.content <= Len(card))
Updated(c, d) == Keeps(c, d) /\ d.exposedBy = c.exposedBy

LEMMA CaptureFields ==
  ASSUME NEW c \in CaptureRecord
  PROVE  /\ \A st \in States : Updated(c, [c EXCEPT !.state = st])
         /\ \A a \in 0..MaxAttempts, st \in States :
              Updated(c, [c EXCEPT !.state = st, !.focusBy = a])
         /\ \A t \in 0..MaxCaptures, st \in States :
              LET d == [c EXCEPT !.state = st, !.exposedBy = t]
              IN  Keeps(c, d) /\ d.exposedBy = t
         /\ \A x \in 0..MaxCaptures, st \in States :
              x > c.baseline /\ x <= Len(card) =>
                Updated(c, [c EXCEPT !.content = x, !.state = st])
<1>1. ASSUME NEW st \in States PROVE Updated(c, [c EXCEPT !.state = st])
  <2> DEFINE d == [c EXCEPT !.state = st]
  <2>1. d \in CaptureRecord
    BY DEF CaptureRecord
  <2>2. d.baseline = c.baseline /\ d.content = c.content /\ d.exposedBy = c.exposedBy
    BY DEF CaptureRecord
  <2>3. QED
    BY <2>1, <2>2 DEF Updated, Keeps
<1>2. ASSUME NEW a \in 0..MaxAttempts, NEW st \in States
      PROVE  Updated(c, [c EXCEPT !.state = st, !.focusBy = a])
  <2> DEFINE d == [c EXCEPT !.state = st, !.focusBy = a]
  <2>1. d \in CaptureRecord
    BY DEF CaptureRecord
  <2>2. d.baseline = c.baseline /\ d.content = c.content /\ d.exposedBy = c.exposedBy
    BY DEF CaptureRecord
  <2>3. QED
    BY <2>1, <2>2 DEF Updated, Keeps
<1>3. ASSUME NEW t \in 0..MaxCaptures, NEW st \in States
      PROVE  Keeps(c, [c EXCEPT !.state = st, !.exposedBy = t])
             /\ [c EXCEPT !.state = st, !.exposedBy = t].exposedBy = t
  <2> DEFINE d == [c EXCEPT !.state = st, !.exposedBy = t]
  <2>1. d \in CaptureRecord
    BY DEF CaptureRecord
  <2>2. d.baseline = c.baseline /\ d.content = c.content /\ d.exposedBy = t
    BY DEF CaptureRecord
  <2>3. QED
    BY <2>1, <2>2 DEF Keeps
<1>4. ASSUME NEW x \in 0..MaxCaptures, NEW st \in States, x > c.baseline, x <= Len(card)
      PROVE  Updated(c, [c EXCEPT !.content = x, !.state = st])
  <2> DEFINE d == [c EXCEPT !.content = x, !.state = st]
  <2>1. d \in CaptureRecord
    BY DEF CaptureRecord
  <2>2. d.baseline = c.baseline /\ d.content = x /\ d.exposedBy = c.exposedBy
    BY DEF CaptureRecord
  <2>3. QED
    BY <1>4, <2>1, <2>2 DEF Updated, Keeps
<1>5. QED
  BY <1>1, <1>2, <1>3, <1>4

LEMMA CardBound ==
  ASSUME TypeOK, RoomLeft, StillsStored
  PROVE  Len(card) <= Len(shots) /\ Len(shots) <= Len(captures) /\ Len(captures) <= MaxCaptures
         /\ {Len(card), Len(shots), Len(captures), MaxCaptures, MaxAttempts} \subseteq Nat
<1>1. /\ Len(shots) \in Nat /\ card \in Seq(1..Len(shots)) /\ Len(card) \in Nat
      /\ Len(captures) \in Nat /\ Len(captures) <= MaxCaptures
  BY DEF TypeOK
<1>2. Len(card) <= Len(shots)
  BY <1>1, DistinctBound DEF StillsStored
<1>3. QED
  BY <1>1, <1>2, ConstantsAssumption DEF RoomLeft

\* _record_content.
LEMMA RecordFacts ==
  ASSUME TypeOK, RoomLeft, StillsStored, NEW c \in CaptureRecord, NEW run \in Seq(Events),
         \A i \in 1..Len(run) : Known(run[i])
  PROVE  Updated(c, Record(c, run))
<1>0. "content_available" \in States
  BY DEF States
<1>1. CASE c.content = NONE /\ Naming(c, run) # {}
  <2> DEFINE i == Min(Naming(c, run))
             x == run[i].tag
  <2>1. Naming(c, run) \in SUBSET Nat
    BY DEF Naming
  <2>2. i \in Naming(c, run)
    BY <1>1, <2>1, MinFacts
  <2>3. i \in 1..Len(run) /\ Names(c, run[i])
    BY <2>2 DEF Naming
  <2> HIDE DEF i
  <2>4. run[i] \in Events /\ Known(run[i]) /\ run[i].kind = "content" /\ x > c.baseline
    BY <2>3 DEF Names
  <2>5. x \in Nat /\ x <= Len(card)
    BY <2>4 DEF Known, Events
  <2>6. x \in 0..MaxCaptures
    BY <2>5, CardBound
  <2>7. Record(c, run) = [c EXCEPT !.content = x, !.state = "content_available"]
    BY <1>1 DEF Record, i
  <2> HIDE DEF x
  <2>8. Updated(c, [c EXCEPT !.content = x, !.state = "content_available"])
    <3>1. x > c.baseline /\ x <= Len(card) /\ x \in 0..MaxCaptures
      BY <2>4, <2>5, <2>6
    <3>2. QED
      BY ONLY <1>0, <3>1, c \in CaptureRecord, CaptureFields
  <2>9. QED
    BY <2>7, <2>8
<1>2. CASE ~(c.content = NONE /\ Naming(c, run) # {})
  BY <1>2 DEF Record, Updated, Keeps
<1>3. QED
  BY <1>1, <1>2

\* Every Capture is kept; or all but the one an exposure confirms; or one is new.
AllKept ==
  /\ captures' \in Seq(CaptureRecord) /\ Len(captures') = Len(captures)
  /\ \A n \in 1..Len(captures) : Updated(captures[n], captures'[n])
OneConfirmed ==
  /\ pc = "await" /\ wire' = wire /\ Pumped' = <<>>
  /\ captures' \in Seq(CaptureRecord) /\ Len(captures') = Len(captures)
  /\ \E i \in 1..Len(Pumped) :
       /\ IsCapture(Pumped[i])
       /\ \A n \in 1..Len(captures) :
            /\ Keeps(captures[n], captures'[n])
            /\ captures'[n].exposedBy = IF n = op.capture THEN Pumped[i].tag
                                        ELSE captures[n].exposedBy
OneNew ==
  \E k \in Releasing :
    /\ Begin(k) /\ Len(captures) < MaxCaptures
    /\ captures' = Append(captures, NewCapture(k)) /\ NewCapture(k) \in CaptureRecord

LEMMA ChangeKeeps ==
  ASSUME TypeOK, NEW c, Change(c), op.capture \in 1..Len(captures) => Updated(Current, c)
  PROVE  AllKept
<1>1. captures \in Seq(CaptureRecord) /\ captures' = [captures EXCEPT ![op.capture] = c]
  BY DEF TypeOK, Change
<1>2. \A n \in 1..Len(captures) : captures[n] \in CaptureRecord /\ Updated(captures[n], captures[n])
  BY <1>1 DEF Updated, Keeps
<1>3. CASE op.capture \in 1..Len(captures)
  <2>1. Updated(captures[op.capture], c) /\ c \in CaptureRecord
    BY <1>3 DEF Current, Updated, Keeps
  <2>2. /\ captures' \in Seq(CaptureRecord) /\ Len(captures') = Len(captures)
        /\ \A n \in 1..Len(captures) : captures'[n] = IF n = op.capture THEN c ELSE captures[n]
    BY <1>1, <2>1, ReplaceOne
  <2>3. QED
    BY <1>2, <2>1, <2>2 DEF AllKept
<1>4. CASE op.capture \notin 1..Len(captures)
  <2>1. captures' = captures
    <3> DEFINE l == Len(captures)
    <3>1. DOMAIN captures = 1..l /\ captures = [n \in 1..l |-> captures[n]]
      BY <1>1
    <3>2. QED
      BY <1>1, <1>4, <3>1
  <2>2. QED
    BY <1>1, <1>2, <2>1 DEF AllKept
<1>5. QED
  BY <1>3, <1>4

\* Where the code writes a Capture.
LEMMA CapturesStep ==
  ASSUME IInv, [Next]_vars
  PROVE  AllKept \/ OneConfirmed \/ OneNew
<1>0. /\ TypeOK /\ RoomLeft /\ StillsStored /\ EventsTyped /\ EventsKnown /\ StageFits
      /\ captures \in Seq(CaptureRecord) /\ attempt \in 0..MaxAttempts
  BY DEF IInv, TypeOK
<1>a. {Len(card), Len(shots), Len(captures), MaxCaptures, MaxAttempts} \subseteq Nat
      /\ Len(card) <= Len(shots) /\ Len(shots) <= Len(captures) /\ Len(captures) <= MaxCaptures
  BY <1>0, CardBound
<1>b. \A n \in 1..Len(captures) : captures[n] \in CaptureRecord
  BY <1>0
<1>c. op.capture \in 1..Len(captures) => Current \in CaptureRecord
  BY <1>b DEF Current
<1>d. {"focused", "failed", "exposed", "content_available", "preview_available"} \subseteq States
  BY DEF States
<1>1. captures' = captures => AllKept
  BY <1>0, <1>b DEF AllKept, Updated, Keeps
<1>2. ASSUME NEW a \in 0..MaxAttempts, Confirm(a) PROVE AllKept
  <2>1. CASE UNCHANGED captures
    BY <1>1, <2>1
  <2>2. CASE Change([Current EXCEPT !.state = "focused", !.focusBy = a])
    <3>1. op.capture \in 1..Len(captures) =>
            Updated(Current, [Current EXCEPT !.state = "focused", !.focusBy = a])
      BY <1>c, <1>d, CaptureFields
    <3>2. QED
      BY <1>0, <2>2, <3>1, ChangeKeeps
  <2>3. QED
    BY <1>2, <2>1, <2>2 DEF Confirm
<1>3. ASSUME NEW st \in States, Change([Current EXCEPT !.state = st]) PROVE AllKept
  <2>1. op.capture \in 1..Len(captures) => Updated(Current, [Current EXCEPT !.state = st])
    BY <1>c, CaptureFields
  <2>2. QED
    BY <1>0, <1>3, <2>1, ChangeKeeps
<1>4. ASSUME NEW k \in Kinds \ {"content"}, Begin(k) PROVE AllKept \/ OneNew
  <2>1. CASE k = "autofocus"
    BY <1>1, <1>4, <2>1 DEF Begin
  <2>2. CASE k # "autofocus"
    <3>1. k \in Releasing /\ Len(captures) < MaxCaptures /\ captures' = Append(captures, NewCapture(k))
      BY <1>4, <2>2 DEF Begin, Kinds, Releasing
    <3>2. k = "gated" => attempt < MaxAttempts
      BY <1>4 DEF Begin, HasGate
    <3> DEFINE s0 == IF k = "gated" THEN "focusing" ELSE "requested"
               a0 == IF k = "gated" THEN attempt + 1 ELSE NONE
    <3>3. /\ s0 \in States /\ a0 \in 0..MaxAttempts /\ Len(card) \in 0..MaxCaptures
          /\ NONE \in 0..MaxCaptures /\ NONE \in 0..MaxAttempts
      BY <1>0, <1>a, <3>2 DEF States, NONE
    <3> HIDE DEF s0, a0
    <3>4. NewCapture(k) = [state |-> s0, baseline |-> Len(card), content |-> NONE,
                           attempt |-> a0, focusBy |-> NONE, exposedBy |-> NONE]
      BY DEF NewCapture, s0, a0
    <3>5. NewCapture(k) \in CaptureRecord
      BY <3>3, <3>4 DEF CaptureRecord
    <3>6. QED
      BY <1>4, <3>1, <3>5 DEF OneNew
  <2>3. QED
    BY <2>1, <2>2
<1>5. CASE ReadAtOnce \/ GateRead \/ GateExpires
  <2>1. Confirm(lens) \/ captures' = captures
    BY <1>5 DEF ReadAtOnce, GateRead, GateExpires
  <2>2. lens \in 0..MaxAttempts
    BY <1>0 DEF TypeOK
  <2>3. QED
    BY <1>1, <1>2, <2>1, <2>2
<1>6. CASE GateEvents
  <2> DEFINE focused == {i \in DOMAIN Pumped : IsFocused(Pumped[i])}
  <2>1. CASE focused = {}
    <3>1. captures' = captures
      BY <1>6, <2>1 DEF GateEvents, session
    <3>2. QED
      BY <1>1, <3>1
  <2>2. CASE focused # {}
    <3> DEFINE i == Min(focused)
    <3>1. DOMAIN Pumped = 1..Len(Pumped) /\ Len(Pumped) \in Nat
      BY <1>0, PumpedFacts
    <3>2. focused \in SUBSET Nat
      BY <3>1
    <3>3. i \in focused
      BY <2>2, <3>2, MinFacts
    <3>4. Confirm(Pumped[i].tag)
      BY <1>6, <2>2 DEF GateEvents
    <3> HIDE DEF i
    <3>5. i \in 1..Len(Pumped) /\ IsFocusEvent(Pumped[i])
      BY <3>1, <3>3 DEF IsFocused
    <3>6. Pumped[i] \in Abroad /\ Pumped[i] \in Events /\ Known(Pumped[i])
      BY <1>0, <3>5, PumpedFacts DEF Abroad, EventsKnown
    <3>7. Pumped[i].tag \in 0..MaxAttempts
      BY <1>0, <1>a, <3>5, <3>6 DEF Known, IsReport, IsFocusEvent, Events
    <3>8. QED
      BY <1>2, <3>4, <3>7
  <2>3. QED
    BY <2>1, <2>2
<1>7. CASE LetGoEnds \/ AwaitExpires
  BY <1>1, <1>3, <1>7, <1>d DEF LetGoEnds, AwaitExpires
\* Reading a run of the events.
<1>8. ASSUME NEW run \in Seq(Events), \A i \in 1..Len(run) : Known(run[i]), op.capture \in 1..Len(captures)
      PROVE  Updated(Current, Record(Current, run))
  BY <1>0, <1>8, <1>c, RecordFacts
<1>9. CASE AwaitEvents
  <2> DEFINE exposures == {i \in DOMAIN Pumped : IsCapture(Pumped[i])}
             first == Min(exposures)
             before == IF exposures = {} THEN Pumped ELSE SubSeq(Pumped, 1, first - 1)
             r == Record(Current, before)
             t == Pumped[first].tag
  <2>0. /\ DOMAIN Pumped = 1..Len(Pumped) /\ Len(Pumped) \in Nat /\ Pumped \in Seq(Events)
        /\ \A i \in 1..Len(Pumped) : Known(Pumped[i])
    BY <1>0, PumpedFacts DEF EventsKnown, Abroad
  <2>a. op.capture \in 1..Len(captures)
    BY <1>0, <1>9, <1>a DEF AwaitEvents, StageFits
  <2>1. exposures \in SUBSET Nat
    BY <2>0
  <2>2. CASE exposures = {}
    <3>1. Change(Record(Current, Pumped))
      BY <1>9, <2>2 DEF AwaitEvents
    <3>2. QED
      BY <1>0, <1>8, <2>0, <3>1, ChangeKeeps
  <2>3. CASE exposures # {}
    <3>1. first \in exposures
      BY <2>1, <2>3, MinFacts
    <3>2. /\ Change([r EXCEPT !.state = "exposed", !.exposedBy = t])
          /\ pc = "await" /\ wire' = wire /\ opq' = <<>> /\ beq' = <<>>
      BY <1>9, <2>3 DEF AwaitEvents, PumpAndTake, transport
    <3>3. first \in 1..Len(Pumped) /\ IsCapture(Pumped[first])
      BY <2>0, <3>1
    <3>4. before \in Seq(Events) /\ \A i \in 1..Len(before) : Known(before[i])
      <4> DEFINE cut == SubSeq(Pumped, 1, first - 1)
      <4> HIDE DEF first
      <4>1. before = cut
        BY <2>3
      <4>2. cut \in Seq(Events) /\ Len(cut) = first - 1 /\ \A i \in 1..(first - 1) : cut[i] = Pumped[i]
        BY <2>0, <3>3
      <4>3. \A i \in 1..(first - 1) : i \in 1..Len(Pumped)
        BY <2>0, <3>3
      <4> HIDE DEF cut
      <4>4. \A i \in 1..Len(cut) : Known(cut[i])
        BY <2>0, <4>2, <4>3
      <4>5. QED
        BY <4>1, <4>2, <4>4
    <3> HIDE DEF first, before, exposures
    <3>5. t \in 0..MaxCaptures
      BY <1>a, <2>0, <3>3 DEF Known, IsCapture
    <3>6. Updated(Current, r)
      BY <1>8, <2>a, <3>4
    <3> DEFINE d == [r EXCEPT !.state = "exposed", !.exposedBy = t]
    <3> HIDE DEF r, t
    <3>7. r \in CaptureRecord
      BY <3>6 DEF Updated, Keeps
    <3>8. Keeps(r, d) /\ d.exposedBy = t
      BY <1>d, <3>5, <3>7, CaptureFields
    <3> HIDE DEF d
    <3>9. Keeps(Current, d)
      BY <3>6, <3>8 DEF Updated, Keeps
    <3>10. d \in CaptureRecord /\ captures' = [captures EXCEPT ![op.capture] = d]
      BY <3>2, <3>8 DEF Keeps, Change, d
    <3>11. /\ captures' \in Seq(CaptureRecord) /\ Len(captures') = Len(captures)
           /\ \A n \in 1..Len(captures) : captures'[n] = IF n = op.capture THEN d ELSE captures[n]
      BY <1>0, <3>10, ReplaceOne
    <3>12. \A n \in 1..Len(captures) :
             /\ Keeps(captures[n], captures'[n])
             /\ captures'[n].exposedBy = IF n = op.capture THEN Pumped[first].tag
                                         ELSE captures[n].exposedBy
      BY <1>b, <3>8, <3>9, <3>11 DEF Keeps, Current, t
    <3>13. Pumped' = <<>>
      BY <3>2 DEF Pumped
    <3>14. QED
      BY <3>2, <3>3, <3>11, <3>12, <3>13 DEF OneConfirmed
  <2>4. QED
    BY <2>2, <2>3
<1>10. CASE ContentRound
  <2>1. opq \in Seq(Events) /\ \A i \in 1..Len(opq) : Known(opq[i])
    <3>1. /\ opq \in Seq(Events) /\ Len(opq) \in Nat /\ Len(beq) \in Nat
          /\ Len(Pumped) = Len(opq) + Len(beq) /\ \A i \in 1..Len(opq) : Pumped[i] = opq[i]
      BY <1>0, PumpedFacts DEF EventsTyped
    <3>2. \A i \in 1..Len(opq) : i \in 1..Len(Pumped)
      BY <3>1
    <3>3. \A i \in 1..Len(Pumped) : Known(Pumped[i])
      BY <1>0 DEF EventsKnown, Abroad
    <3>4. QED
      BY <3>1, <3>2, <3>3
  <2>2. CASE Change(Record(Current, opq))
    BY <1>0, <1>8, <2>1, <2>2, ChangeKeeps
  <2>3. CASE /\ Len(card) > Current.baseline
             /\ Change([Current EXCEPT !.content = Len(card), !.state = "content_available"])
    <3> DEFINE x == Len(card)
    <3>1. x \in 0..MaxCaptures /\ x <= Len(card) /\ x > Current.baseline
      BY <1>a, <2>3
    <3>2. op.capture \in 1..Len(captures) =>
            Updated(Current, [Current EXCEPT !.content = x, !.state = "content_available"])
      <4> HIDE DEF x
      <4>1. QED
        BY <1>c, <1>d, <3>1, CaptureFields
    <3>3. QED
      BY <1>0, <2>3, <3>2, ChangeKeeps
  <2>4. QED
    BY <1>1, <1>10, <2>2, <2>3 DEF ContentRound
<1>11. ASSUME NEW n \in DOMAIN captures, Preview(n) PROVE AllKept
  <2> DEFINE c == [captures[n] EXCEPT !.state = "preview_available"]
  <2>1. n \in 1..Len(captures) /\ captures' = [captures EXCEPT ![n] = c]
    BY <1>0, <1>11 DEF Preview
  <2>2. Updated(captures[n], c)
    BY <1>b, <1>d, <2>1, CaptureFields
  <2> HIDE DEF c
  <2>3. c \in CaptureRecord
    BY <2>2 DEF Updated, Keeps
  <2>4. /\ captures' \in Seq(CaptureRecord) /\ Len(captures') = Len(captures)
        /\ \A m \in 1..Len(captures) : captures'[m] = IF m = n THEN c ELSE captures[m]
    BY <1>0, <2>1, <2>3, ReplaceOne
  <2>5. \A m \in 1..Len(captures) : Updated(captures[m], captures[m])
    BY <1>b DEF Updated, Keeps
  <2>6. QED
    BY <2>2, <2>4, <2>5 DEF AllKept
<1>12. CASE \/ ClearStale \/ Press \/ Down \/ Up \/ LetGo \/ ContentExpires \/ Raise \/ UserPump
            \/ AfTracks \/ AfEnds \/ Clears
            \/ (\E n \in DOMAIN captures : WaitForContent(n))
            \/ (\E s \in DOMAIN shots : Expose(s) \/ Store(s))
            \/ (\E e \in wire : Indicates(e) \/ Deliver(e)) \/ LinkDrops \/ LinkRecovers \/ UNCHANGED vars
  <2>1. captures' = captures
    BY <1>12 DEF ClearStale, Press, Down, Up, LetGo, ContentExpires, Raise, UserPump, AfTracks, AfEnds,
                 Clears, WaitForContent, Expose, Store, Indicates, Deliver, LinkDrops, LinkRecovers, session, vars
  <2>2. QED
    BY <1>1, <2>1
<1>13. QED
  BY <1>4, <1>5, <1>6, <1>7, <1>9, <1>10, <1>11, <1>12 DEF Next, Proceed

-----------------------------------------------------------------------------
(* What a step does to the shots, the stills and the events.               *)

ShotsSame == shots' = shots /\ card' = card

\* Shots and stills are only added, and a shot that was taken stays taken.
ShotsGrown ==
  /\ shots' \in Seq(ShotRecord) /\ card' \in Seq(1..Len(shots'))
  /\ Len(shots') \in Nat /\ Len(shots') >= Len(shots)
  /\ \A s \in 1..Len(shots) :
       /\ shots'[s].of = shots[s].of
       /\ shots[s].stage \in Taken => shots'[s].stage \in Taken
       /\ shots[s].stage = "stored" => shots'[s].stage = "stored"
  /\ Len(card') \in Nat /\ Len(card') >= Len(card)
  /\ \A i \in 1..Len(card) : card'[i] = card[i]

\* One shot changes its stage.
LEMMA StageChange ==
  ASSUME shots \in Seq(ShotRecord), NEW s \in 1..Len(shots),
         NEW st \in {"requested", "refused", "exposed", "stored"},
         shots' = [shots EXCEPT ![s].stage = st]
  PROVE  /\ shots' \in Seq(ShotRecord) /\ Len(shots') = Len(shots)
         /\ shots'[s].stage = st /\ shots'[s].of = shots[s].of
         /\ \A r \in 1..Len(shots) : r # s => shots'[r] = shots[r]
<1> DEFINE d == [shots[s] EXCEPT !.stage = st]
<1>1. shots[s] \in ShotRecord
  OBVIOUS
<1>2. d \in ShotRecord /\ d.stage = st /\ d.of = shots[s].of
  BY <1>1 DEF ShotRecord
<1>3. shots' = [shots EXCEPT ![s] = d]
  OBVIOUS
<1> HIDE DEF d
<1>4. /\ shots' \in Seq(ShotRecord) /\ Len(shots') = Len(shots)
      /\ \A r \in 1..Len(shots) : shots'[r] = IF r = s THEN d ELSE shots[r]
  BY <1>2, <1>3, ReplaceOne
<1>5. QED
  BY <1>2, <1>4

LEMMA ShotsStep ==
  ASSUME IInv, [Next]_vars
  PROVE  /\ ShotsGrown
         /\ \/ ShotsSame
            \/ Down
            \/ \E s \in 1..Len(shots) : Expose(s) \/ Store(s)
<1>0. /\ shots \in Seq(ShotRecord) /\ card \in Seq(1..Len(shots))
      /\ Len(shots) \in Nat /\ Len(card) \in Nat /\ MaxCaptures \in Nat /\ StageFits
      /\ Len(captures) \in Nat /\ Len(captures) <= MaxCaptures
  BY ConstantsAssumption DEF IInv, TypeOK
<1>1. ShotsSame => ShotsGrown
  BY <1>0 DEF ShotsSame, ShotsGrown, Taken
<1>2. CASE Down
  <2>1. op.capture \in 1..MaxCaptures
    BY <1>0, <1>2 DEF Down, StageFits, IInv, TypeOK, OpRecord
  <2>2. PICK st \in {"requested", "refused"} :
          shots' = Append(shots, [of |-> op.capture, stage |-> st])
    BY <1>2 DEF Down
  <2> DEFINE n == [of |-> op.capture, stage |-> st]
  <2>3. n \in ShotRecord
    BY <2>1 DEF ShotRecord
  <2> HIDE DEF n
  <2>4. /\ shots' \in Seq(ShotRecord) /\ Len(shots') = Len(shots) + 1
        /\ \A r \in 1..Len(shots) : shots'[r] = shots[r]
    BY <1>0, <2>2, <2>3, AppendFacts DEF n
  <2>5. card' = card
    BY <1>2 DEF Down
  <2>6. card \in Seq(1..Len(shots'))
    <3>1. \A i \in 1..Len(shots) : i \in 1..Len(shots')
      BY <1>0, <2>4
    <3>2. card \in Seq(1..Len(shots)) /\ 1..Len(shots) \subseteq 1..Len(shots')
      BY <1>0, <3>1
    <3>3. Len(card) \in Nat /\ card \in [1..Len(card) -> 1..Len(shots)]
      BY <3>2
    <3>4. card \in [1..Len(card) -> 1..Len(shots')]
      BY <3>2, <3>3
    <3>5. QED
      BY <3>3, <3>4
  <2>7. QED
    BY <1>0, <1>2, <2>4, <2>5, <2>6 DEF ShotsGrown
<1>3. ASSUME NEW s \in 1..Len(shots), Expose(s) PROVE ShotsGrown
  <2>1. /\ shots' \in Seq(ShotRecord) /\ Len(shots') = Len(shots)
        /\ shots'[s].stage = "exposed" /\ shots'[s].of = shots[s].of
        /\ \A r \in 1..Len(shots) : r # s => shots'[r] = shots[r]
    BY <1>0, <1>3, StageChange DEF Expose
  <2>2. shots[s].stage = "requested" /\ card' = card
    BY <1>3 DEF Expose
  <2>3. \A r \in 1..Len(shots) :
          /\ shots'[r].of = shots[r].of
          /\ shots[r].stage \in Taken => shots'[r].stage \in Taken
          /\ shots[r].stage = "stored" => shots'[r].stage = "stored"
    BY <2>1, <2>2 DEF Taken
  <2>4. QED
    BY <1>0, <2>1, <2>2, <2>3 DEF ShotsGrown
<1>4. ASSUME NEW s \in 1..Len(shots), Store(s) PROVE ShotsGrown
  <2>1. /\ shots' \in Seq(ShotRecord) /\ Len(shots') = Len(shots)
        /\ shots'[s].stage = "stored" /\ shots'[s].of = shots[s].of
        /\ \A r \in 1..Len(shots) : r # s => shots'[r] = shots[r]
    BY <1>0, <1>4, StageChange DEF Store
  <2>2. shots[s].stage = "exposed" /\ card' = Append(card, s)
    BY <1>4 DEF Store
  <2>3. \A r \in 1..Len(shots) :
          /\ shots'[r].of = shots[r].of
          /\ shots[r].stage \in Taken => shots'[r].stage \in Taken
          /\ shots[r].stage = "stored" => shots'[r].stage = "stored"
    BY <2>1, <2>2 DEF Taken
  <2>4. /\ card' \in Seq(1..Len(shots)) /\ Len(card') = Len(card) + 1
        /\ \A i \in 1..Len(card) : card'[i] = card[i]
    BY <1>0, <2>2, AppendFacts
  <2>5. QED
    BY <1>0, <2>1, <2>3, <2>4 DEF ShotsGrown
<1>5. ASSUME NEW s \in DOMAIN shots PROVE s \in 1..Len(shots)
  BY <1>0
<1>6. CASE \/ (\E k \in Kinds \ {"content"} : Begin(k))
           \/ (\E n \in DOMAIN captures : WaitForContent(n) \/ Preview(n))
           \/ ClearStale \/ Press \/ ReadAtOnce \/ GateRead \/ GateExpires \/ LetGo \/ LetGoEnds
           \/ Up \/ AwaitExpires \/ ContentExpires \/ Raise
           \/ GateEvents \/ AwaitEvents \/ ContentRound \/ UserPump \/ AfTracks \/ AfEnds \/ Clears
           \/ (\E e \in wire : Indicates(e) \/ Deliver(e)) \/ LinkDrops \/ LinkRecovers \/ UNCHANGED vars
  <2>1. ShotsSame
    BY <1>6 DEF ShotsSame, Begin, WaitForContent, Preview, ClearStale, Press, ReadAtOnce, GateRead,
                GateExpires, LetGo, LetGoEnds, Up, AwaitExpires, ContentExpires, Raise, GateEvents,
                AwaitEvents, ContentRound, UserPump, AfTracks, AfEnds, Clears, Indicates, Deliver,
                LinkDrops, LinkRecovers,
                camera, vars
  <2>2. QED
    BY <1>1, <2>1
<1>7. QED
  BY <1>2, <1>3, <1>4, <1>5, <1>6 DEF Next, Proceed

\* Where events come from.
SendsKnown ==
  /\ Sends
  /\ \/ /\ AfTracks \/ AfEnds
        /\ ShotsSame
        /\ \A e \in wire' \ wire :
             /\ e \in Events /\ IsReport(e) /\ ~IsCapture(e) /\ e.kind # "content"
             /\ e.tag = attempt /\ (e.focused => af' = "found")
     \/ \E s \in 1..Len(shots) : Expose(s) /\ wire' = wire \cup {CaptureEvent(s)}
     \/ \E s \in 1..Len(shots), id \in Nat :
          Store(s) /\ id <= Len(card') /\ wire' = wire \cup {ContentEvent(id)}

LEMMA EventsStep ==
  ASSUME IInv, [Next]_vars
  PROVE  EventsTyped' /\ (Fewer \/ Delivers \/ SendsKnown)
<1>0. /\ EventsTyped /\ shots \in Seq(ShotRecord) /\ card \in Seq(1..Len(shots))
      /\ wire \subseteq Events /\ opq \in Seq(Events) /\ beq \in Seq(Events)
      /\ Len(shots) \in Nat /\ Len(card) \in Nat /\ attempt \in Nat
  BY ConstantsAssumption DEF IInv, TypeOK, EventsTyped
<1>1. /\ Pumped \in Seq(Events) /\ Len(Pumped) = Len(opq) + Len(beq) /\ Len(Pumped) \in Nat
      /\ \A i \in 1..Len(beq) : Pumped[i + Len(opq)] = beq[i]
  BY <1>0, PumpedFacts
<1>2. <<>> \in Seq(Events) /\ Len(<<>>) = 0 /\ <<>> \o <<>> = <<>>
  OBVIOUS
<1>3. ASSUME wire' \subseteq wire, opq' = opq /\ beq' = beq PROVE EventsTyped' /\ Fewer
  <2>1. Pumped' = Pumped
    BY <1>3 DEF Pumped
  <2>2. Len(Pumped) + 0 = Len(Pumped) /\ \A i \in 1..Len(Pumped) : i + 0 = i
    BY <1>1
  <2>3. QED
    BY <1>0, <1>1, <1>3, <2>1, <2>2 DEF Fewer, EventsTyped
<1>4. ASSUME wire' = wire, PumpAndTake PROVE EventsTyped' /\ Fewer
  <2>1. Pumped' = <<>> /\ opq' = <<>> /\ beq' = <<>>
    BY <1>2, <1>4 DEF PumpAndTake, Pumped
  <2>2. Len(Pumped') = 0 /\ Len(Pumped') + Len(Pumped) = Len(Pumped) /\ \A i \in 1..Len(Pumped') : FALSE
    BY <1>1, <1>2, <2>1
  <2>3. QED
    BY <1>0, <1>1, <1>2, <1>4, <2>1, <2>2 DEF Fewer, EventsTyped
<1>5. CASE UserPump
  <2>1. opq' = Pumped /\ beq' = <<>> /\ wire' = wire
    BY <1>5 DEF UserPump, transport
  <2>2. Pumped' = Pumped
    <3>1. Pumped \o <<>> = Pumped
      BY <1>1
    <3>2. QED
      BY <2>1, <3>1 DEF Pumped
  <2>3. Len(Pumped) + 0 = Len(Pumped) /\ \A i \in 1..Len(Pumped) : i + 0 = i
    BY <1>1
  <2>4. QED
    BY <1>0, <1>1, <1>2, <2>1, <2>2, <2>3 DEF Fewer, EventsTyped
<1>6. CASE ContentRound
  <2>1. /\ wire' = wire
        /\ (opq' = <<>> /\ beq' = beq) \/ (opq' = beq /\ beq' = <<>>)
    <3>1. UNCHANGED transport
      BY <1>6 DEF ContentRound
    <3>2. (opq' = <<>> /\ UNCHANGED beq) \/ (opq' = beq /\ beq' = <<>>)
      BY ONLY <1>6, Zenon DEF ContentRound
    <3>3. QED
      BY <3>1, <3>2 DEF transport
  <2>2. Pumped' = beq
    <3>1. <<>> \o beq = beq /\ beq \o <<>> = beq
      BY <1>0
    <3>2. QED
      BY <2>1, <3>1 DEF Pumped
  <2>3. Len(opq) \in Nat /\ Len(beq) \in Nat /\ Len(beq) + Len(opq) = Len(Pumped)
    BY <1>0, <1>1
  <2>4. QED
    BY <1>0, <1>1, <1>2, <2>1, <2>2, <2>3 DEF Fewer, EventsTyped
<1>7. ASSUME NEW e \in wire, Deliver(e) PROVE EventsTyped' /\ Delivers
  <2>1. wire' = wire \ {e} /\ beq' = Append(beq, e) /\ opq' = opq
    BY <1>7 DEF Deliver
  <2>2. beq' \in Seq(Events) /\ e \in Events
    BY <1>0, <2>1
  <2>3. Pumped' = Append(Pumped, e)
    <3>1. opq \o Append(beq, e) = Append(opq \o beq, e)
      BY <1>0, <2>2
    <3>2. QED
      BY <2>1, <3>1 DEF Pumped
  <2>4. QED
    BY <1>0, <2>1, <2>2, <2>3 DEF Delivers, EventsTyped
<1>8. ASSUME wire \subseteq wire', UNCHANGED <<opq, beq>>, wire' \subseteq Events
      PROVE  EventsTyped' /\ Sends
  BY <1>0, <1>8 DEF EventsTyped, Sends, Pumped
<1>9. CASE AfTracks \/ AfEnds
  <2>1. PICK ok \in BOOLEAN : Publishes(ok) /\ (ok => af' = "found")
    <3>1. CASE AfTracks
      BY <3>1 DEF AfTracks
    <3>2. CASE AfEnds
      BY <3>2 DEF AfEnds
    <3>3. QED
      BY <1>9, <3>1, <3>2
  <2> DEFINE sources == Channels \cup {"indication"}
  <2>2. PICK chans \in SUBSET sources :
          wire' = wire \cup {Focus(c, attempt, ok) : c \in chans}
    <3>1. PICK some \in SUBSET Channels :
            wire' = wire \cup {Focus(c, attempt, ok) : c \in some} \cup {Focus("indication", attempt, ok)}
      BY <2>1 DEF Publishes, Indication
    <3>2. wire' = wire \cup {Focus(c, attempt, ok) : c \in some \cup {"indication"}}
      BY <3>1
    <3>3. QED
      BY <3>2
  <2>3. \A c \in sources :
          /\ Focus(c, attempt, ok) \in Events /\ Focus(c, attempt, ok).kind = c
          /\ Focus(c, attempt, ok).tag = attempt
    BY <1>0 DEF Focus, Events
  <2>4. \A c \in sources : Focus(c, attempt, ok).focused = ok
    BY DEF Focus
  <2>5. \A c \in sources : c # "capture" /\ c # "content"
    BY ConstantsAssumption
  <2>6. UNCHANGED <<opq, beq>> /\ ShotsSame
    BY <1>9 DEF AfTracks, AfEnds, ShotsSame, queues
  <2>7. wire \subseteq wire' /\ wire' \subseteq Events
    BY <1>0, <2>2, <2>3
  <2>8. ASSUME NEW e \in wire' \ wire
        PROVE  /\ e \in Events /\ IsReport(e) /\ ~IsCapture(e) /\ e.kind # "content"
               /\ e.tag = attempt /\ (e.focused => af' = "found")
    <3>1. PICK c \in chans : e = Focus(c, attempt, ok)
      BY <2>2, <2>8
    <3>2. c \in sources /\ e.kind = c /\ e.tag = attempt /\ e.focused = ok /\ e \in Events
      BY <2>3, <2>4, <3>1
    <3>3. e.focused => af' = "found"
      BY <2>1, <3>2
    <3>4. QED
      BY <2>5, <3>2, <3>3 DEF IsReport, IsCapture
  <2>9. QED
    BY <1>8, <1>9, <2>6, <2>7, <2>8 DEF SendsKnown
<1>10. ASSUME NEW s \in 1..Len(shots), Expose(s) PROVE EventsTyped' /\ SendsKnown
  <2>1. wire' = wire \cup {CaptureEvent(s)} /\ UNCHANGED <<opq, beq>>
    BY <1>10 DEF Expose, queues
  <2>2. CaptureEvent(s) \in Events
    BY <1>0 DEF CaptureEvent, Events
  <2>3. QED
    BY <1>0, <1>8, <1>10, <2>1, <2>2 DEF SendsKnown
<1>11. ASSUME NEW s \in 1..Len(shots), Store(s) PROVE EventsTyped' /\ SendsKnown
  <2>1. /\ card' = Append(card, s) /\ UNCHANGED <<opq, beq>>
        /\ \E id \in {NONE, Len(card')} : wire' = wire \cup {ContentEvent(id)}
    BY <1>11 DEF Store, queues
  <2>2. Len(card') = Len(card) + 1
    BY <1>0, <2>1, AppendFacts
  <2>3. PICK id \in Nat : id <= Len(card') /\ wire' = wire \cup {ContentEvent(id)}
    <3>1. NONE \in Nat /\ Len(card') \in Nat /\ NONE <= Len(card')
      BY <1>0, <2>2 DEF NONE
    <3>2. QED
      BY <2>1, <3>1
  <2>4. ContentEvent(id) \in Events
    BY DEF ContentEvent, Events
  <2>5. QED
    BY <1>0, <1>8, <1>11, <2>1, <2>3, <2>4 DEF SendsKnown
<1>12. CASE GateEvents \/ AwaitEvents
  <2>1. wire' = wire /\ PumpAndTake
    BY <1>12 DEF GateEvents, AwaitEvents, transport
  <2>2. QED
    BY <1>4, <2>1
<1>13. CASE \/ (\E k \in Kinds \ {"content"} : Begin(k))
            \/ (\E n \in DOMAIN captures : WaitForContent(n) \/ Preview(n))
            \/ ClearStale \/ Press \/ ReadAtOnce \/ GateRead \/ GateExpires \/ LetGo \/ LetGoEnds
            \/ Down \/ Up \/ AwaitExpires \/ ContentExpires \/ Raise
            \/ Clears \/ (\E e \in wire : Indicates(e)) \/ LinkDrops \/ LinkRecovers \/ UNCHANGED vars
  <2>1. wire' \subseteq wire /\ opq' = opq /\ beq' = beq
    BY <1>13 DEF Begin, WaitForContent, Preview, ClearStale, Press, ReadAtOnce, GateRead,
                 GateExpires, LetGo, LetGoEnds, Down, Up, AwaitExpires, ContentExpires, Raise,
                 Clears, Indicates, LinkDrops, LinkRecovers, queues, transport, vars
  <2>2. QED
    BY <1>3, <2>1
<1>14. ASSUME NEW s \in DOMAIN shots PROVE s \in 1..Len(shots)
  BY <1>0
<1>15. QED
  BY <1>5, <1>6, <1>7, <1>9, <1>10, <1>11, <1>12, <1>13, <1>14 DEF Next, Proceed

-----------------------------------------------------------------------------
(* The invariant, part by part.                                            *)

LEMMA Basics ==
  ASSUME IInv
  PROVE  /\ shots \in Seq(ShotRecord) /\ card \in Seq(1..Len(shots)) /\ captures \in Seq(CaptureRecord)
         /\ Len(shots) \in Nat /\ Len(card) \in Nat /\ Len(captures) \in Nat
         /\ Len(card) <= Len(shots) /\ Len(shots) <= Len(captures) /\ Len(captures) <= MaxCaptures
         /\ MaxCaptures \in Nat /\ MaxAttempts \in Nat /\ attempt \in 0..MaxAttempts
         /\ \A n \in 1..Len(captures) : captures[n] \in CaptureRecord
         /\ \A s \in 1..Len(shots) : shots[s] \in ShotRecord
         /\ \A i \in 1..Len(card) : card[i] \in 1..Len(shots)
         /\ Abroad \subseteq Events /\ Len(Pumped) \in Nat
         /\ \A i \in 1..Len(Pumped) : Pumped[i] \in Abroad
<1>1. /\ shots \in Seq(ShotRecord) /\ card \in Seq(1..Len(shots)) /\ captures \in Seq(CaptureRecord)
      /\ attempt \in 0..MaxAttempts
  BY DEF IInv, TypeOK
<1>2. /\ Len(card) <= Len(shots) /\ Len(shots) <= Len(captures) /\ Len(captures) <= MaxCaptures
      /\ {Len(card), Len(shots), Len(captures), MaxCaptures, MaxAttempts} \subseteq Nat
  BY CardBound DEF IInv
<1>3. \A n \in 1..Len(captures) : captures[n] \in CaptureRecord
  BY <1>1
<1>4. \A s \in 1..Len(shots) : shots[s] \in ShotRecord
  BY <1>1
<1>5. \A i \in 1..Len(card) : card[i] \in 1..Len(shots)
  BY <1>1
<1>6. Abroad \subseteq Events /\ Len(Pumped) \in Nat
  BY PumpedFacts DEF IInv
<1>7. \A i \in 1..Len(Pumped) : Pumped[i] \in Abroad
  BY DEF Abroad
<1>8. QED
  BY <1>1, <1>2, <1>3, <1>4, <1>5, <1>6, <1>7

LEMMA AttemptGrows == IInv /\ [Next]_vars => attempt' \in Nat /\ attempt' >= attempt
<1> SUFFICES ASSUME IInv, [Next]_vars PROVE attempt' \in Nat /\ attempt' >= attempt
  OBVIOUS
<1>1. attempt \in Nat
  BY ConstantsAssumption DEF IInv, TypeOK
<1>2. CASE Press
  BY <1>1, <1>2 DEF Press
<1>3. CASE ~Press
  <2>1. attempt' = attempt
    BY <1>3 DEF Next, Proceed, Begin, WaitForContent, Preview, ClearStale, ReadAtOnce, GateRead,
                GateExpires, LetGo, LetGoEnds, Down, Up, AwaitExpires, ContentExpires, Raise, GateEvents,
                AwaitEvents, ContentRound, UserPump, AfTracks, AfEnds, Clears, Indicates, Expose, Store,
                Deliver, LinkDrops, LinkRecovers, camera, vars
  <2>2. QED
    BY <1>1, <2>1
<1>4. QED
  BY <1>2, <1>3

LEMMA KnownKept ==
  ASSUME IInv, [Next]_vars, NEW e \in Events, Known(e)
  PROVE  Known(e)'
<1>1. e.kind = "capture" => e = CaptureEvent(e.tag) /\ e.tag \in 1..Len(shots') /\ shots'[e.tag].stage \in Taken
  <2> SUFFICES ASSUME e.kind = "capture"
               PROVE e = CaptureEvent(e.tag) /\ e.tag \in 1..Len(shots') /\ shots'[e.tag].stage \in Taken
    OBVIOUS
  <2>1. e = CaptureEvent(e.tag) /\ e.tag \in 1..Len(shots) /\ shots[e.tag].stage \in Taken
    BY DEF Known
  <2>2. Len(shots) \in Nat
    BY Basics
  <2>3. QED
    BY <2>1, <2>2, ShotsStep DEF ShotsGrown
<1>2. e.kind = "content" => e.tag <= Len(card')
  <2>1. e.tag \in Nat /\ Len(card) \in Nat
    BY Basics DEF Events
  <2>2. Len(card') \in Nat /\ Len(card') >= Len(card)
    BY ShotsStep DEF ShotsGrown
  <2>3. e.kind = "content" => e.tag <= Len(card)
    BY DEF Known
  <2>4. QED
    BY <2>1, <2>2, <2>3
<1>3. IsReport(e) => e.tag <= attempt'
  <2>1. e.tag \in Nat /\ attempt \in Nat
    BY Basics DEF Events
  <2>2. attempt' \in Nat /\ attempt' >= attempt
    BY AttemptGrows
  <2>3. IsReport(e) => e.tag <= attempt
    BY DEF Known
  <2>4. QED
    BY <2>1, <2>2, <2>3
<1>4. QED
  BY <1>1, <1>2, <1>3 DEF Known, IsReport

\* What a step adds to the events abroad, it adds to the wire.
LEMMA AbroadGrows ==
  ASSUME IInv, [Next]_vars
  PROVE  Abroad' \subseteq Abroad \/ (SendsKnown /\ Abroad' = Abroad \cup (wire' \ wire))
<1>1. CASE Fewer
  BY <1>1, FewerFacts DEF IInv
<1>2. CASE Delivers
  BY <1>2, DeliversFacts DEF IInv
<1>3. CASE SendsKnown
  <2>1. wire \subseteq wire' /\ Pumped' = Pumped
    BY <1>3 DEF SendsKnown, Sends
  <2>2. QED
    BY <1>3, <2>1 DEF Abroad
<1>4. QED
  BY <1>1, <1>2, <1>3, EventsStep

LEMMA KnownStep == IInv /\ [Next]_vars => EventsKnown'
<1> SUFFICES ASSUME IInv, [Next]_vars PROVE EventsKnown'
  OBVIOUS
<1>1. \A e \in Abroad : Known(e)'
  BY Basics, KnownKept DEF IInv, EventsKnown
<1>2. CASE Abroad' \subseteq Abroad
  BY <1>1, <1>2 DEF EventsKnown
<1>3. CASE SendsKnown /\ Abroad' = Abroad \cup (wire' \ wire)
  <2>1. ASSUME NEW e \in wire' \ wire PROVE Known(e)'
    <3>1. CASE /\ e \in Events /\ IsReport(e) /\ ~IsCapture(e) /\ e.kind # "content"
               /\ e.tag = attempt
      <4>1. e.tag <= attempt'
        BY <3>1, Basics, AttemptGrows
      <4>2. QED
        BY <3>1, <4>1 DEF Known, IsCapture, IsReport
    <3>2. ASSUME NEW s \in 1..Len(shots), Expose(s), e = CaptureEvent(s) PROVE Known(e)'
      <4>1. /\ Len(shots') = Len(shots) /\ shots'[s].stage = "exposed"
        BY <3>2, Basics, StageChange DEF Expose
      <4>2. e.kind = "capture" /\ e.tag = s /\ "capture" \notin Channels
        BY <3>2, ConstantsAssumption DEF CaptureEvent
      <4>3. QED
        BY <3>2, <4>1, <4>2 DEF Known, Taken, IsReport
    <3>3. ASSUME NEW id \in Nat, id <= Len(card'), e = ContentEvent(id) PROVE Known(e)'
      <4>1. e.kind = "content" /\ e.tag = id /\ "content" \notin Channels
        BY <3>3, ConstantsAssumption DEF ContentEvent
      <4>2. QED
        BY <3>3, <4>1 DEF Known, IsReport
    <3>4. QED
      BY <1>3, <2>1, <3>1, <3>2, <3>3 DEF SendsKnown
  <2>2. QED
    BY <1>1, <1>3, <2>1 DEF EventsKnown
<1>4. QED
  BY <1>2, <1>3, AbroadGrows

LEMMA OnePlaceStep == IInv /\ [Next]_vars => OnePlaceEach'
<1> SUFFICES ASSUME IInv, [Next]_vars PROVE OnePlaceEach'
  OBVIOUS
<1>0. EventsTyped /\ EventsKnown /\ OnePlaceEach
  BY DEF IInv
<1>1. CASE SendsKnown
  <2>1. wire \subseteq wire' /\ Pumped' = Pumped
    BY <1>1 DEF SendsKnown, Sends
  <2>2. ASSUME NEW e \in wire' \ wire, IsCapture(e), NEW i \in 1..Len(Pumped), IsCapture(Pumped[i])
        PROVE  e.tag # Pumped[i].tag
    <3>1. PICK s \in 1..Len(shots) : Expose(s) /\ e = CaptureEvent(s)
      BY <1>1, <2>2 DEF SendsKnown, IsCapture, ContentEvent
    <3>2. shots[s].stage = "requested" /\ e.tag = s
      BY <3>1 DEF Expose, CaptureEvent
    <3>3. shots[Pumped[i].tag].stage \in Taken
      BY <1>0, <2>2, Basics DEF EventsKnown, Known, IsCapture
    <3>4. QED
      BY <3>2, <3>3 DEF Taken
  <2>3. QED
    BY <1>0, <2>1, <2>2 DEF OnePlaceEach
<1>2. QED
  BY <1>0, <1>1, EventsStep, FewerFacts, DeliversFacts

LEMMA ConsumedStep == IInv /\ [Next]_vars => Consumed'
<1> SUFFICES ASSUME IInv, [Next]_vars, NEW n \in 1..Len(captures'), captures'[n].exposedBy # NONE
             PROVE  /\ captures'[n].exposedBy \in 1..Len(shots')
                    /\ shots'[captures'[n].exposedBy].stage \in Taken
                    /\ \A e \in Abroad' : IsCapture(e) => e.tag # captures'[n].exposedBy
                    /\ \A m \in 1..Len(captures') : m # n => captures'[m].exposedBy # captures'[n].exposedBy
  BY DEF Consumed, IsCapture
<1>0. /\ Len(shots) \in Nat /\ Len(captures) \in Nat /\ captures \in Seq(CaptureRecord)
      /\ \A i \in 1..Len(Pumped) : Pumped[i] \in Abroad
  BY Basics
<1>1. \A s \in 1..Len(shots) : shots[s].stage \in Taken => s \in 1..Len(shots') /\ shots'[s].stage \in Taken
  BY <1>0, ShotsStep DEF ShotsGrown
\* A shot that was taken already is not reported again.
<1>2. ASSUME NEW s \in 1..Len(shots), shots[s].stage \in Taken,
             \A e \in Abroad : IsCapture(e) => e.tag # s
      PROVE  \A e \in Abroad' : IsCapture(e) => e.tag # s
  <2>1. CASE Abroad' \subseteq Abroad
    BY <1>2, <2>1
  <2>2. CASE SendsKnown /\ Abroad' = Abroad \cup (wire' \ wire)
    <3>1. ASSUME NEW e \in wire' \ wire, IsCapture(e) PROVE e.tag # s
      <4>1. PICK r \in 1..Len(shots) : Expose(r) /\ e = CaptureEvent(r)
        BY <2>2, <3>1 DEF SendsKnown, IsCapture, ContentEvent
      <4>2. shots[r].stage = "requested" /\ e.tag = r
        BY <4>1 DEF Expose, CaptureEvent
      <4>3. QED
        BY <1>2, <4>2 DEF Taken
    <3>2. QED
      BY <1>2, <2>2, <3>1
  <2>3. QED
    BY <2>1, <2>2, AbroadGrows
\* A Capture whose exposure was confirmed before.
<1>3. ASSUME n \in 1..Len(captures), captures'[n].exposedBy = captures[n].exposedBy
      PROVE  /\ captures'[n].exposedBy \in 1..Len(shots')
             /\ shots'[captures'[n].exposedBy].stage \in Taken
             /\ \A e \in Abroad' : IsCapture(e) => e.tag # captures'[n].exposedBy
             /\ \A e \in Abroad : IsCapture(e) => e.tag # captures'[n].exposedBy
             /\ \A m \in 1..Len(captures) : m # n => captures[m].exposedBy # captures'[n].exposedBy
  <2>1. /\ captures[n].exposedBy \in 1..Len(shots)
        /\ shots[captures[n].exposedBy].stage \in Taken
        /\ \A e \in Abroad : IsCapture(e) => e.tag # captures[n].exposedBy
        /\ \A m \in 1..Len(captures) : m # n => captures[m].exposedBy # captures[n].exposedBy
    BY <1>3 DEF IInv, Consumed
  <2>2. QED
    BY <1>1, <1>2, <1>3, <2>1
<1>4. CASE AllKept
  BY <1>3, <1>4 DEF AllKept, Updated
<1>5. CASE OneNew
  <2>1. PICK k \in Releasing : captures' = Append(captures, NewCapture(k)) /\ NewCapture(k) \in CaptureRecord
    BY <1>5 DEF OneNew
  <2>2. /\ Len(captures') = Len(captures) + 1
        /\ \A m \in 1..Len(captures) : captures'[m] = captures[m]
        /\ captures'[Len(captures) + 1] = NewCapture(k)
    BY <1>0, <2>1, AppendFacts
  <2>3. NewCapture(k).exposedBy = NONE
    BY DEF NewCapture
  <2>4. \A m \in 1..Len(captures') : m \in 1..Len(captures) \/ m = Len(captures) + 1
    BY <1>0, <2>2
  <2>5. QED
    BY <1>3, <2>2, <2>3, <2>4
<1>6. CASE OneConfirmed
  <2>1. /\ wire' = wire /\ Pumped' = <<>> /\ Len(captures') = Len(captures)
    BY <1>6 DEF OneConfirmed
  <2>2. PICK i \in 1..Len(Pumped) :
          /\ IsCapture(Pumped[i])
          /\ \A m \in 1..Len(captures) :
               captures'[m].exposedBy = IF m = op.capture THEN Pumped[i].tag
                                        ELSE captures[m].exposedBy
    BY <1>6 DEF OneConfirmed
  <2> DEFINE t == Pumped[i].tag
  <2>3. /\ Pumped[i] \in Abroad /\ t \in 1..Len(shots) /\ shots[t].stage \in Taken
    BY <1>0, <2>2 DEF IInv, EventsKnown, Known, IsCapture
  <2>4. \A e \in Abroad' : e \in wire
    <3>1. {Pumped'[j] : j \in 1..Len(Pumped')} = {}
      BY <2>1
    <3>2. QED
      BY <2>1, <3>1 DEF Abroad
  <2>5. \A m \in 1..Len(captures) : captures[m].exposedBy # t
    <3> SUFFICES ASSUME NEW m \in 1..Len(captures), captures[m].exposedBy = t PROVE FALSE
      OBVIOUS
    <3>1. t # NONE
      BY <2>3 DEF NONE
    <3>2. QED
      BY <2>2, <2>3, <3>1 DEF IInv, Consumed
  <2>6. CASE n = op.capture
    <3>1. captures'[n].exposedBy = t
      BY <2>1, <2>2, <2>6
    <3>2. \A e \in Abroad' : IsCapture(e) => e.tag # t
      BY <2>2, <2>4 DEF IInv, OnePlaceEach
    <3>3. \A m \in 1..Len(captures') : m # n => captures'[m].exposedBy # t
      BY <2>1, <2>2, <2>5, <2>6
    <3>4. QED
      BY <1>1, <2>3, <3>1, <3>2, <3>3
  <2>7. CASE n # op.capture
    <3>1. captures'[n].exposedBy = captures[n].exposedBy
      BY <2>1, <2>2, <2>7
    <3>2. /\ captures'[n].exposedBy \in 1..Len(shots')
          /\ shots'[captures'[n].exposedBy].stage \in Taken
          /\ \A e \in Abroad' : IsCapture(e) => e.tag # captures'[n].exposedBy
          /\ \A m \in 1..Len(captures) : m # n => captures[m].exposedBy # captures'[n].exposedBy
      BY <1>3, <2>1, <3>1
    <3>3. t # captures'[n].exposedBy
      BY <2>1, <2>5, <3>1
    <3>4. \A m \in 1..Len(captures') : m # n => captures'[m].exposedBy # captures'[n].exposedBy
      BY <2>1, <2>2, <3>2, <3>3
    <3>5. QED
      BY <3>2, <3>4
  <2>8. QED
    BY <2>6, <2>7
<1>7. QED
  BY <1>4, <1>5, <1>6, CapturesStep

-----------------------------------------------------------------------------
(* The stages of an operation.                                             *)

LEMMA OpFields ==
  ASSUME NEW o \in OpRecord
  PROVE  /\ [o EXCEPT !.confirmed = TRUE] \in OpRecord
         /\ [o EXCEPT !.confirmed = TRUE].kind = o.kind
         /\ [o EXCEPT !.confirmed = TRUE].capture = o.capture
         /\ [o EXCEPT !.confirmed = TRUE].confirmed = TRUE
         /\ [o EXCEPT !.kind = "content"] \in OpRecord
         /\ [o EXCEPT !.kind = "content"].kind = "content"
         /\ [o EXCEPT !.kind = "content"].capture = o.capture
  BY DEF OpRecord, Kinds

\* Captures are only added, and that by the start of a call.
LEMMA CountStep ==
  ASSUME IInv, [Next]_vars
  PROVE  /\ captures' \in Seq(CaptureRecord) /\ Len(captures') \in Nat /\ Len(captures') <= MaxCaptures
         /\ \/ Len(captures') = Len(captures)
            \/ \E k \in Releasing : /\ Begin(k) /\ Len(captures') = Len(captures) + 1
                                    /\ captures' = Append(captures, NewCapture(k))
<1>1. captures \in Seq(CaptureRecord) /\ Len(captures) \in Nat /\ Len(captures) <= MaxCaptures
      /\ MaxCaptures \in Nat
  BY Basics
<1>2. CASE AllKept \/ OneConfirmed
  BY <1>1, <1>2 DEF AllKept, OneConfirmed
<1>3. CASE OneNew
  <2>1. PICK k \in Releasing : /\ Begin(k) /\ Len(captures) < MaxCaptures
                               /\ captures' = Append(captures, NewCapture(k))
                               /\ NewCapture(k) \in CaptureRecord
    BY <1>3 DEF OneNew
  <2>2. captures' \in Seq(CaptureRecord) /\ Len(captures') = Len(captures) + 1
    BY <1>1, <2>1, AppendFacts
  <2>3. QED
    BY <1>1, <2>1, <2>2
<1>4. QED
  BY <1>2, <1>3, CapturesStep

\* The parts of the invariant that the stage of the running call decides.
Control ==
  /\ pc \in {"idle", "clear", "press", "immediate", "wait", "refuse",
             "refusing", "down", "dwell", "await", "tidy", "tidying", "content"}
  /\ op \in OpRecord
  /\ {half, letting, full} \subseteq BOOLEAN
  /\ attempt \in 0..MaxAttempts
  /\ StageFits /\ RoomLeft /\ HalfPressReleased /\ Holding

\* A step that the running call does not take.
LEMMA Aside ==
  ASSUME IInv, UNCHANGED <<pc, op, half, letting, full, attempt>>, Len(captures') = Len(captures),
         Len(shots') = Len(shots)
  PROVE  Control'
<1>1. Control
  BY DEF IInv, TypeOK, Control
<1>2. QED
  BY <1>1 DEF Control, StageFits, RoomLeft, HalfPressReleased, Holding

\* The gate lets the call go on.
LEMMA ConfirmControl ==
  ASSUME IInv, [Next]_vars, NEW a, Confirm(a), pc \in {"immediate", "wait"}, UNCHANGED camera
  PROVE  Control'
<1>1. /\ op \in OpRecord /\ {half, letting, full} \subseteq BOOLEAN /\ attempt \in 0..MaxAttempts
      /\ StageFits /\ RoomLeft /\ Holding
  BY DEF IInv, TypeOK
<1>2. Len(captures') = Len(captures)
  BY CountStep DEF Begin
<1>3. op' \in OpRecord /\ op'.kind = op.kind /\ op'.capture = op.capture /\ op'.confirmed = TRUE
  BY <1>1, OpFields DEF Confirm
<1>4. UNCHANGED <<half, letting, full, attempt, shots>>
  BY DEF camera, button
<1>5. op.kind \in HasGate
  BY <1>1 DEF StageFits, Gate
<1>6. CASE op.kind = "autofocus"
  <2>1. pc' = "idle"
    BY <1>6 DEF Confirm
  <2>2. QED
    BY <1>1, <1>2, <1>3, <1>4, <1>6, <2>1
       DEF Control, StageFits, RoomLeft, HalfPressReleased, Holding, Gate, Releasing
<1>7. CASE op.kind = "gated"
  <2>1. pc' = "down"
    BY <1>7 DEF Confirm
  <2>2. QED
    BY <1>1, <1>2, <1>3, <1>4, <1>7, <2>1
       DEF Control, StageFits, RoomLeft, HalfPressReleased, Holding, Gate, Releasing
<1>8. QED
  BY <1>5, <1>6, <1>7 DEF HasGate

LEMMA ControlStep == IInv /\ [Next]_vars => Control'
<1> SUFFICES ASSUME IInv, [Next]_vars PROVE Control'
  OBVIOUS
<1>0. /\ op \in OpRecord /\ op.kind \in Kinds /\ op.capture \in Nat
      /\ {half, letting, full} \subseteq BOOLEAN /\ attempt \in 0..MaxAttempts /\ MaxAttempts \in Nat
      /\ StageFits /\ RoomLeft /\ HalfPressReleased /\ Holding
  BY ConstantsAssumption DEF IInv, TypeOK, OpRecord
<1>a. Len(captures) \in Nat /\ Len(shots) \in Nat /\ MaxCaptures \in Nat /\ Len(captures) <= MaxCaptures
      /\ Len(shots) <= Len(captures) /\ shots \in Seq(ShotRecord)
  BY Basics
<1>b. pc # "idle" => Len(captures') = Len(captures)
  BY CountStep DEF Begin
<1>1. ASSUME NEW k \in Kinds \ {"content"}, Begin(k) PROVE Control'
  <2>1. /\ UNCHANGED <<half, letting, full, attempt, shots>> /\ pc' = IF k \in HasGate THEN "clear" ELSE "down"
        /\ k \in HasGate => attempt < MaxAttempts
    BY <1>1 DEF Begin, camera, button
  <2>2. CASE k = "autofocus"
    <3>1. /\ captures' = captures /\ op' = [kind |-> k, capture |-> NONE, confirmed |-> FALSE]
      BY <1>1, <2>2 DEF Begin
    <3>2. op' \in OpRecord /\ op'.kind = "autofocus"
      BY <1>a, <2>2, <3>1 DEF OpRecord, Kinds, NONE
    <3>3. QED
      BY <1>0, <1>a, <2>1, <2>2, <3>1, <3>2
         DEF Control, StageFits, RoomLeft, HalfPressReleased, Holding, Gate, HasGate, Releasing
  <2>3. CASE k # "autofocus"
    <3>1. k \in Releasing
      BY <2>3 DEF Kinds, Releasing
    <3>2. captures' = Append(captures, NewCapture(k)) /\ Len(captures) < MaxCaptures
          /\ op' = [kind |-> k, capture |-> Len(captures'), confirmed |-> FALSE]
      BY <1>1, <2>3 DEF Begin
    <3>3. Len(captures') = Len(captures) + 1
      BY <3>2, Basics
    <3>4. op' \in OpRecord /\ op'.kind = k /\ op'.capture = Len(captures')
      BY <1>a, <3>2, <3>3 DEF OpRecord, Kinds
    <3>5. QED
      BY <1>0, <1>a, <2>1, <3>1, <3>3, <3>4
         DEF Control, StageFits, RoomLeft, HalfPressReleased, Holding, Gate, HasGate, Releasing
  <2>4. QED
    BY <2>2, <2>3
<1>2. ASSUME NEW n \in DOMAIN captures, WaitForContent(n) PROVE Control'
  <2>1. /\ n \in 1..Len(captures) /\ pc' = "content" /\ UNCHANGED <<half, letting, full, attempt, shots, captures>>
        /\ op' = [kind |-> "content", capture |-> n, confirmed |-> FALSE]
    BY <1>2, Basics DEF WaitForContent, camera, button
  <2>2. op' \in OpRecord /\ op'.kind = "content" /\ op'.capture = n
    BY <1>a, <2>1 DEF OpRecord, Kinds
  <2>3. QED
    BY <1>0, <1>a, <2>1, <2>2
       DEF Control, StageFits, RoomLeft, HalfPressReleased, Holding, Gate, HasGate, Releasing
<1>3. CASE ReadAtOnce \/ GateRead \/ GateExpires
  <2>1. /\ pc \in {"immediate", "wait"} /\ UNCHANGED camera
        /\ \/ Confirm(lens)
           \/ UNCHANGED <<op, captures>> /\ pc = "immediate" /\ pc' = "wait"
           \/ UNCHANGED <<op, captures>> /\ pc = "wait" /\ pc' = "refuse"
    BY <1>3 DEF ReadAtOnce, GateRead, GateExpires
  <2>2. UNCHANGED <<half, letting, full, attempt, shots>>
    BY <2>1 DEF camera, button
  <2>3. CASE UNCHANGED <<op, captures>>
    BY <1>0, <1>a, <2>1, <2>2, <2>3, ConfirmControl
       DEF Control, StageFits, RoomLeft, HalfPressReleased, Holding, Gate
  <2>4. QED
    BY <2>1, <2>3, ConfirmControl
<1>4. CASE GateEvents
  <2>1. pc = "wait" /\ UNCHANGED camera /\ ((\E a : Confirm(a)) \/ UNCHANGED session)
    BY <1>4 DEF GateEvents
  <2>2. CASE UNCHANGED session
    BY <2>1, <2>2, Aside DEF session, camera, button
  <2>3. QED
    BY <2>1, <2>2, ConfirmControl
<1>5. CASE ClearStale
  <2>1. /\ pc = "clear" /\ pc' = "press" /\ half' = half /\ letting' = half
        /\ UNCHANGED <<op, captures, full, attempt, shots>>
    BY <1>5 DEF ClearStale, AskRelease
  <2>2. QED
    BY <1>0, <1>a, <2>1 DEF Control, StageFits, RoomLeft, HalfPressReleased, Holding, Gate
<1>6. CASE Press
  <2>1. /\ pc = "press" /\ pc' = "immediate" /\ half' = TRUE /\ letting' = FALSE /\ attempt' = attempt + 1
        /\ UNCHANGED <<op, captures, full, shots>>
    BY <1>6 DEF Press
  <2>2. attempt' \in 0..MaxAttempts
    BY <1>0, <2>1 DEF RoomLeft
  <2>3. QED
    BY <1>0, <1>a, <2>1, <2>2 DEF Control, StageFits, RoomLeft, HalfPressReleased, Holding, Gate
<1>7. CASE LetGo
  <2>1. /\ (pc = "refuse" /\ pc' = "refusing") \/ (pc = "tidy" /\ pc' = "tidying")
        /\ half' = half /\ letting' = half /\ UNCHANGED <<op, captures, full, attempt, shots>>
    BY <1>7 DEF LetGo, AskRelease
  <2>2. QED
    BY <1>0, <1>a, <2>1 DEF Control, StageFits, RoomLeft, HalfPressReleased, Holding, Gate
<1>8. CASE LetGoEnds
  <2>1. pc \in {"refusing", "tidying"} /\ pc' = "idle" /\ UNCHANGED <<op, half, letting, full, attempt, shots>>
    BY <1>8 DEF LetGoEnds, camera, button
  <2>2. Len(captures') = Len(captures)
    BY <1>b, <2>1
  <2>3. QED
    BY <1>0, <1>a, <2>1, <2>2 DEF Control, StageFits, RoomLeft, HalfPressReleased, Holding, Gate
<1>9. CASE Clears
  <2>1. /\ letting /\ half' = FALSE /\ letting' = FALSE
        /\ UNCHANGED <<pc, op, captures, full, attempt, shots>>
    BY <1>9 DEF Clears, session
  <2>2. Holding'
    BY <1>0, <2>1 DEF Holding
  <2>3. HalfPressReleased'
    BY <2>1 DEF HalfPressReleased
  <2>4. StageFits' /\ RoomLeft'
    BY <1>0, <2>1 DEF StageFits, RoomLeft, Gate
  <2>5. /\ UNCHANGED <<pc, op, attempt>> /\ {half', letting', full'} \subseteq BOOLEAN
    BY <1>0, <2>1
  <2>6. Control
    BY DEF IInv, TypeOK, Control
  <2>7. QED
    BY <2>2, <2>3, <2>4, <2>5, <2>6 DEF Control
<1>10. CASE Down
  <2>1. /\ pc = "down" /\ pc' = "dwell" /\ full' = TRUE /\ UNCHANGED <<op, captures, half, letting, attempt>>
        /\ \E st \in {"requested", "refused"} : shots' = Append(shots, [of |-> op.capture, stage |-> st])
    BY <1>10 DEF Down, button
  <2>2. Len(shots') = Len(shots) + 1
    BY <1>a, <2>1
  <2>3. Len(shots) < Len(captures)
    BY <1>0, <2>1 DEF StageFits, RoomLeft
  <2>4. QED
    BY <1>0, <1>a, <2>1, <2>2, <2>3
       DEF Control, StageFits, RoomLeft, HalfPressReleased, Holding, Gate
<1>11. CASE Up
  <2>1. /\ pc = "dwell" /\ pc' = (IF op.kind = "fire" THEN "idle" ELSE "await") /\ full' = FALSE
        /\ letting' \in {letting, half}
    BY <1>11 DEF Up
  <2>2. UNCHANGED <<op, captures, half, attempt, shots>>
    BY <1>11 DEF Up
  <2>3. letting' \in BOOLEAN
    BY <1>0, <2>1
  <2>4. QED
    BY <1>0, <1>a, <2>1, <2>2, <2>3
       DEF Control, StageFits, RoomLeft, HalfPressReleased, Holding, Gate, Releasing
<1>12. CASE AwaitEvents \/ AwaitExpires
  <2>1. pc = "await" /\ pc' \in {pc, AfterExposure} /\ UNCHANGED op /\ UNCHANGED camera
    BY <1>12 DEF AwaitEvents, AwaitExpires
  <2>2. Len(captures') = Len(captures) /\ UNCHANGED <<half, letting, full, attempt, shots>>
    BY <1>b, <2>1 DEF camera, button
  <2>3. op.kind \in Releasing
    BY <1>0, <2>1 DEF StageFits
  <2>4. CASE op.kind = "gated"
    BY <1>0, <1>a, <2>1, <2>2, <2>3, <2>4
       DEF Control, StageFits, RoomLeft, HalfPressReleased, Holding, Gate, Releasing, AfterExposure
  <2>5. CASE op.kind # "gated"
    BY <1>0, <1>a, <2>1, <2>2, <2>3, <2>5
       DEF Control, StageFits, RoomLeft, HalfPressReleased, Holding, Gate, Releasing, AfterExposure
  <2>6. QED
    BY <2>4, <2>5
<1>13. CASE ContentRound \/ ContentExpires
  <2>1. pc = "content" /\ pc' \in {"content", "idle"} /\ UNCHANGED op /\ UNCHANGED camera
    BY <1>13 DEF ContentRound, ContentExpires
  <2>2. Len(captures') = Len(captures) /\ UNCHANGED <<half, letting, full, attempt, shots>>
    BY <1>b, <2>1 DEF camera, button
  <2>3. QED
    BY <1>0, <1>a, <2>1, <2>2
       DEF Control, StageFits, RoomLeft, HalfPressReleased, Holding, Gate
<1>14. CASE Raise
  <2>1. pc' = "idle" /\ op' = [op EXCEPT !.kind = "content"] /\ UNCHANGED <<captures, half, letting, full, attempt, shots>>
    BY <1>14 DEF Raise, camera, button
  <2>2. op' \in OpRecord /\ op'.kind = "content"
    BY <1>0, <2>1, OpFields
  <2>3. QED
    BY <1>0, <1>a, <2>1, <2>2
       DEF Control, StageFits, RoomLeft, HalfPressReleased, Holding, Gate
<1>15. ASSUME NEW n \in DOMAIN captures, Preview(n) PROVE Control'
  <2>1. UNCHANGED <<pc, op, half, letting, full, attempt, shots>> /\ Len(captures') = Len(captures)
    BY <1>15, <1>a DEF Preview, camera, button
  <2>2. QED
    BY <2>1, Aside
<1>16. ASSUME NEW s \in DOMAIN shots, Expose(s) \/ Store(s) PROVE Control'
  <2>1. UNCHANGED <<pc, op, captures, half, letting, full, attempt>> /\ Len(shots') = Len(shots)
    BY <1>16, <1>a DEF Expose, Store, session, button
  <2>2. QED
    BY <2>1, Aside
<1>17. CASE UserPump \/ AfTracks \/ AfEnds \/ (\E e \in wire : Indicates(e) \/ Deliver(e))
             \/ LinkDrops \/ LinkRecovers \/ UNCHANGED vars
  <2>1. UNCHANGED <<pc, op, captures, half, letting, full, attempt, shots>>
    BY <1>17 DEF UserPump, AfTracks, AfEnds, Indicates, Deliver, LinkDrops, LinkRecovers, session, camera,
                 button, vars
  <2>2. QED
    BY <2>1, Aside
<1>18. QED
  BY <1>1, <1>2, <1>3, <1>4, <1>5, <1>6, <1>7, <1>10, <1>11, <1>12, <1>13, <1>14, <1>15, <1>16,
     <1>17, <1>8, <1>9 DEF Next, Proceed

\* What a read reports of focus is of the current attempt or one before it.
LEMMA LensStep ==
  ASSUME IInv, [Next]_vars
  PROVE  /\ lens' \in 0..attempt' /\ af' \in Underway \cup {"off", "found", "failed"}
         /\ lens' = lens \/ Press \/ Clears \/ \E e \in wire : Indicates(e)
<1> DEFINE Progress == Underway \cup {"off", "found", "failed"}
           Done == /\ lens' \in 0..attempt' /\ af' \in Progress
                   /\ lens' = lens \/ Press \/ Clears \/ \E e \in wire : Indicates(e)
<1>0. lens \in Nat /\ lens <= attempt /\ attempt \in Nat /\ af \in Progress /\ EventsTyped /\ EventsKnown
  BY Basics DEF IInv, TypeOK, OwnFocus
<1>1. attempt' \in Nat /\ attempt' >= attempt
  BY AttemptGrows
<1>2. ASSUME lens' = lens, af' \in Progress PROVE Done
  BY <1>0, <1>1, <1>2
<1>3. CASE Press
  <2>1. lens' = lens \/ lens' = attempt'
    BY <1>3 DEF Press
  <2>2. af' \in Progress
    BY <1>3 DEF Press, Underway
  <2>3. QED
    BY <1>0, <1>1, <1>3, <2>1, <2>2
<1>4. CASE Clears
  <2>1. lens' = 0 /\ af' \in Progress
    BY <1>0, <1>4 DEF Clears, NONE
  <2>2. QED
    BY <1>1, <1>4, <2>1
<1>5. ASSUME NEW e \in wire, Indicates(e) PROVE Done
  <2>1. e \in Events /\ IsReport(e) /\ Known(e)
    BY <1>0, <1>5 DEF EventsTyped, EventsKnown, Abroad, Indicates, IsReport
  <2>2. e.tag \in Nat /\ e.tag <= attempt
    BY <2>1 DEF Known, Events
  <2>3. lens' \in {0, e.tag} /\ af' = af
    BY <1>5 DEF Indicates, NONE
  <2>4. QED
    BY <1>0, <1>1, <1>5, <2>2, <2>3
<1>6. CASE AfTracks \/ AfEnds
  <2>1. lens' = lens /\ af' \in Progress
    BY <1>6 DEF AfTracks, AfEnds, Underway
  <2>2. QED
    BY <1>2, <2>1
<1>7. CASE \/ (\E k \in Kinds \ {"content"} : Begin(k))
           \/ (\E n \in DOMAIN captures : WaitForContent(n) \/ Preview(n))
           \/ ClearStale \/ ReadAtOnce \/ GateRead \/ GateExpires \/ LetGo \/ LetGoEnds \/ Down \/ Up
           \/ AwaitExpires \/ ContentExpires
           \/ Raise \/ GateEvents \/ AwaitEvents \/ ContentRound \/ UserPump
           \/ (\E s \in DOMAIN shots : Expose(s) \/ Store(s))
           \/ (\E e \in wire : Deliver(e)) \/ LinkDrops \/ LinkRecovers \/ UNCHANGED vars
  <2>1. lens' = lens /\ af' = af
    BY <1>7 DEF Begin, WaitForContent, Preview, ClearStale, ReadAtOnce, GateRead, GateExpires, LetGo,
                LetGoEnds, Down, Up, AwaitExpires, ContentExpires, Raise, GateEvents, AwaitEvents,
                ContentRound, UserPump, Expose, Store, Deliver, LinkDrops, LinkRecovers, camera, focus,
                vars
  <2>2. QED
    BY <1>0, <1>2, <2>1
<1>8. Done
  BY <1>3, <1>4, <1>5, <1>6, <1>7 DEF Next, Proceed
<1>9. QED
  BY <1>8

LEMMA TypeStep == IInv /\ [Next]_vars => TypeOK'
<1> SUFFICES ASSUME IInv, [Next]_vars PROVE TypeOK'
  OBVIOUS
<1> DEFINE Progress == Underway \cup {"off", "found", "failed"}
<1>0. /\ link \in BOOLEAN /\ drops \in 0..MaxDrops /\ MaxDrops \in Nat /\ MaxAttempts \in Nat
  BY ConstantsAssumption DEF IInv, TypeOK
<1>1. lens' \in 0..MaxAttempts /\ af' \in Progress
  <2>1. attempt' \in 0..MaxAttempts
    BY ControlStep DEF Control
  <2>2. QED
    BY <1>0, <2>1, LensStep
<1>2. link' \in BOOLEAN /\ drops' \in 0..MaxDrops
  <2>1. CASE LinkDrops \/ LinkRecovers
    <3>1. link' = FALSE \/ link' = TRUE
      BY <2>1 DEF LinkDrops, LinkRecovers
    <3>2. drops' = drops \/ (drops < MaxDrops /\ drops' = drops + 1)
      BY <2>1 DEF LinkDrops, LinkRecovers
    <3>3. drops' \in 0..MaxDrops
      BY <1>0, <3>2
    <3>4. QED
      BY <3>1, <3>3
  <2>2. CASE ~LinkDrops /\ ~LinkRecovers
    <3>1. link' = link /\ drops' = drops
      BY <2>2 DEF Next, Proceed, Begin, WaitForContent, Preview, ClearStale, Press, ReadAtOnce, GateRead,
                  GateExpires, LetGo, LetGoEnds, Down, Up, AwaitExpires, ContentExpires, Raise, GateEvents,
                  AwaitEvents, ContentRound, UserPump, AfTracks, AfEnds, Clears, Indicates, Expose, Store,
                  Deliver, transport, vars
    <3>2. QED
      BY <1>0, <3>1
  <2>3. QED
    BY <2>1, <2>2
<1>3. Control'
  BY ControlStep
<1>4. captures' \in Seq(CaptureRecord) /\ Len(captures') <= MaxCaptures
  BY CountStep
<1>5. shots' \in Seq(ShotRecord) /\ card' \in Seq(1..Len(shots'))
  BY ShotsStep DEF ShotsGrown
<1>6. DOMAIN shots' = 1..Len(shots')
  BY <1>5
<1>7. QED
  BY <1>1, <1>2, <1>3, <1>4, <1>5, <1>6 DEF TypeOK, Control

-----------------------------------------------------------------------------
(* The stills.                                                             *)

LEMMA StillsStep == IInv /\ [Next]_vars => StillsStored'
<1> SUFFICES ASSUME IInv, [Next]_vars PROVE StillsStored'
  OBVIOUS
<1>0. /\ Len(card) \in Nat /\ Len(shots) \in Nat /\ Len(captures) \in Nat
      /\ card \in Seq(1..Len(shots)) /\ shots \in Seq(ShotRecord) /\ StillsStored
      /\ \A i \in 1..Len(card) : card[i] \in 1..Len(shots)
      /\ \A n \in 1..Len(captures) : captures[n] \in CaptureRecord
  BY Basics DEF IInv
<1>1. /\ Len(card') \in Nat /\ Len(card') >= Len(card)
      /\ \A i \in 1..Len(card) : card'[i] = card[i]
      /\ \A s \in 1..Len(shots) : shots[s].stage = "stored" => shots'[s].stage = "stored"
  BY ShotsStep DEF ShotsGrown
\* The stills that were there are still of stored shots; a new one is of a shot
\* that was not stored yet.
<1>2. /\ \A i \in 1..Len(card') : shots'[card'[i]].stage = "stored"
      /\ \A i, j \in 1..Len(card') : i # j => card'[i] # card'[j]
  <2>1. \A i \in 1..Len(card) : shots[card[i]].stage = "stored" /\ shots'[card'[i]].stage = "stored"
    BY <1>0, <1>1 DEF StillsStored
  <2>2. CASE card' = card
    BY <1>0, <2>1, <2>2 DEF StillsStored
  <2>3. ASSUME NEW s \in 1..Len(shots), Store(s)
        PROVE  /\ \A i \in 1..Len(card') : shots'[card'[i]].stage = "stored"
               /\ \A i, j \in 1..Len(card') : i # j => card'[i] # card'[j]
    <3>1. /\ Len(card') = Len(card) + 1 /\ card'[Len(card) + 1] = s
          /\ shots[s].stage = "exposed"
      BY <1>0, <2>3, AppendFacts DEF Store
    <3>2. shots'[s].stage = "stored"
      BY <1>0, <2>3, StageChange DEF Store
    <3>3. \A i \in 1..Len(card') : i \in 1..Len(card) \/ i = Len(card) + 1
      BY <1>0, <3>1
    <3>4. \A i \in 1..Len(card) : card'[i] # s
      BY <1>1, <2>1, <3>1
    <3>5. \A i, j \in 1..Len(card) : i # j => card'[i] # card'[j]
      BY <1>0, <1>1 DEF StillsStored
    <3>6. QED
      BY <2>1, <3>1, <3>2, <3>3, <3>4, <3>5
  <2>4. (\E s \in 1..Len(shots) : Store(s)) \/ card' = card
    BY ShotsStep DEF ShotsSame, Down, Expose
  <2>5. QED
    BY <2>2, <2>3, <2>4
<1>3. ASSUME NEW n \in 1..Len(captures')
      PROVE  /\ captures'[n].baseline <= Len(card')
             /\ captures'[n].content # NONE =>
                  captures'[n].content > captures'[n].baseline /\ captures'[n].content <= Len(card')
  <2>1. ASSUME n \in 1..Len(captures), Keeps(captures[n], captures'[n])
        PROVE  /\ captures'[n].baseline <= Len(card')
               /\ captures'[n].content # NONE =>
                    captures'[n].content > captures'[n].baseline /\ captures'[n].content <= Len(card')
    <3>1. /\ captures[n].baseline <= Len(card)
          /\ captures[n].content # NONE =>
               captures[n].content > captures[n].baseline /\ captures[n].content <= Len(card)
      BY <2>1 DEF IInv, StillsStored
    <3>2. /\ captures'[n].baseline = captures[n].baseline
          /\ \/ captures'[n].content = captures[n].content
             \/ captures'[n].content > captures[n].baseline /\ captures'[n].content <= Len(card)
      BY <2>1 DEF Keeps
    <3>3. {captures[n].baseline, captures[n].content, captures'[n].content} \subseteq Nat
      BY <1>0, <2>1 DEF Keeps, CaptureRecord
    <3>4. QED
      BY <1>0, <1>1, <3>1, <3>2, <3>3
  <2>2. CASE AllKept \/ OneConfirmed
    BY <2>1, <2>2 DEF AllKept, OneConfirmed, Updated
  <2>3. CASE OneNew
    <3>1. PICK k \in Releasing : captures' = Append(captures, NewCapture(k)) /\ NewCapture(k) \in CaptureRecord
                                 /\ Begin(k)
      BY <2>3 DEF OneNew
    <3>2. /\ Len(captures') = Len(captures) + 1
          /\ \A m \in 1..Len(captures) : captures'[m] = captures[m]
          /\ captures'[Len(captures) + 1] = NewCapture(k)
      BY <3>1, Basics, AppendFacts
    <3>3. NewCapture(k).content = NONE /\ NewCapture(k).baseline = Len(card)
      BY DEF NewCapture
    <3>4. n \in 1..Len(captures) \/ n = Len(captures) + 1
      BY <1>0, <3>2
    <3>5. CASE n \in 1..Len(captures)
      <4>1. Keeps(captures[n], captures'[n])
        BY <1>0, <3>2, <3>5 DEF Keeps
      <4>2. QED
        BY <2>1, <3>5, <4>1
    <3>6. QED
      BY <1>0, <1>1, <3>2, <3>3, <3>4, <3>5
  <2>4. QED
    BY <2>2, <2>3, CapturesStep
<1>4. QED
  BY <1>2, <1>3 DEF StillsStored

\* Of a settled session, only the newest Capture has shots that are to be stored.
LEMMA InTurnStep == IInv /\ [Next]_vars => ShotsInTurn'
<1> SUFFICES ASSUME IInv, [Next]_vars, Settled
             PROVE  /\ \A s \in 1..Len(shots') :
                         shots'[s].stage \in {"requested", "exposed"} => shots'[s].of = Len(captures')
                    /\ \A n \in 1..Len(captures'), id \in 1..Len(card') :
                         id > captures'[n].baseline => shots'[card'[id]].of >= n
  BY DEF ShotsInTurn
<1>0. /\ Len(card) \in Nat /\ Len(shots) \in Nat /\ Len(captures) \in Nat
      /\ card \in Seq(1..Len(shots)) /\ shots \in Seq(ShotRecord) /\ captures \in Seq(CaptureRecord)
      /\ \A i \in 1..Len(card) : card[i] \in 1..Len(shots)
      /\ \A n \in 1..Len(captures) : captures[n] \in CaptureRecord /\ captures[n].baseline <= Len(card)
      /\ DOMAIN shots = 1..Len(shots)
  BY Basics DEF IInv, StillsStored
<1>1. /\ \A s \in 1..Len(shots) :
           shots[s].stage \in {"requested", "exposed"} => shots[s].of = Len(captures)
      /\ \A n \in 1..Len(captures), id \in 1..Len(card) :
           id > captures[n].baseline => shots[card[id]].of >= n
  BY DEF IInv, ShotsInTurn
<1>2. ASSUME Len(captures') = Len(captures),
             \A n \in 1..Len(captures) : captures'[n].baseline = captures[n].baseline
      PROVE  /\ \A s \in 1..Len(shots') :
                  shots'[s].stage \in {"requested", "exposed"} => shots'[s].of = Len(captures')
             /\ \A n \in 1..Len(captures'), id \in 1..Len(card') :
                  id > captures'[n].baseline => shots'[card'[id]].of >= n
  <2>1. CASE ShotsSame
    BY <1>1, <1>2, <2>1 DEF ShotsSame
  <2>2. CASE Down
    <3>1. op.capture = Len(captures)
      BY <2>2 DEF Down, IInv, StageFits
    <3>2. PICK st \in {"requested", "refused"} : shots' = Append(shots, [of |-> op.capture, stage |-> st])
      BY <2>2 DEF Down
    <3> DEFINE new == [of |-> op.capture, stage |-> st]
    <3>3. new.of = Len(captures) /\ shots' = Append(shots, new)
      BY <3>1, <3>2
    <3> HIDE DEF new
    <3>4. /\ Len(shots') = Len(shots) + 1 /\ shots'[Len(shots) + 1] = new
          /\ \A r \in 1..Len(shots) : shots'[r] = shots[r]
      BY <1>0, <3>3
    <3>5. \A r \in 1..Len(shots') : r \in 1..Len(shots) \/ r = Len(shots) + 1
      BY <1>0, <3>4
    <3>6. card' = card
      BY <2>2 DEF Down
    <3>7. QED
      BY <1>0, <1>1, <1>2, <3>3, <3>4, <3>5, <3>6
  <2>3. ASSUME NEW s \in 1..Len(shots), Expose(s) \/ Store(s)
        PROVE  /\ \A r \in 1..Len(shots') :
                    shots'[r].stage \in {"requested", "exposed"} => shots'[r].of = Len(captures')
               /\ \A n \in 1..Len(captures'), id \in 1..Len(card') :
                    id > captures'[n].baseline => shots'[card'[id]].of >= n
    <3>1. /\ Len(shots') = Len(shots) /\ shots'[s].of = shots[s].of
          /\ \A r \in 1..Len(shots) : r # s => shots'[r] = shots[r]
      BY <1>0, <2>3, StageChange DEF Expose, Store
    <3>2. shots[s].stage \in {"requested", "exposed"}
      BY <2>3 DEF Expose, Store
    <3>3. shots[s].of = Len(captures)
      BY <1>1, <3>2
    <3>4. \A r \in 1..Len(shots) : shots'[r].of = shots[r].of
      BY <3>1
    <3>5. \A r \in 1..Len(shots') :
            shots'[r].stage \in {"requested", "exposed"} => shots'[r].of = Len(captures')
      BY <1>1, <1>2, <3>1, <3>3
    <3>6. ASSUME card' = card
          PROVE  \A n \in 1..Len(captures'), id \in 1..Len(card') :
                   id > captures'[n].baseline => shots'[card'[id]].of >= n
      BY <1>0, <1>1, <1>2, <3>4, <3>6
    <3>7. ASSUME card' = Append(card, s)
          PROVE  \A n \in 1..Len(captures'), id \in 1..Len(card') :
                   id > captures'[n].baseline => shots'[card'[id]].of >= n
      <4>1. /\ Len(card') = Len(card) + 1 /\ card'[Len(card) + 1] = s
            /\ \A i \in 1..Len(card) : card'[i] = card[i]
        BY <1>0, <3>7
      <4>2. \A i \in 1..Len(card') : i \in 1..Len(card) \/ i = Len(card) + 1
        BY <1>0, <4>1
      <4>3. shots'[s].of = Len(captures)
        BY <3>1, <3>3
      <4>4. ASSUME NEW n \in 1..Len(captures'), NEW id \in 1..Len(card'), id > captures'[n].baseline
            PROVE  shots'[card'[id]].of >= n
        <5>1. CASE id = Len(card) + 1
          BY <1>0, <1>2, <4>1, <4>3, <5>1
        <5>2. CASE id \in 1..Len(card)
          BY <1>0, <1>1, <1>2, <3>4, <4>1, <4>4, <5>2
        <5>3. QED
          BY <4>2, <5>1, <5>2
      <4>5. QED
        BY <4>4
    <3>8. QED
      BY <2>3, <3>5, <3>6, <3>7 DEF Expose, Store
  <2>4. QED
    BY <2>1, <2>2, <2>3, ShotsStep
<1>3. CASE AllKept \/ OneConfirmed
  BY <1>2, <1>3 DEF AllKept, OneConfirmed, Updated, Keeps
\* A call starts with no shot that is still to be stored.
<1>4. CASE OneNew
  <2>1. PICK k \in Releasing : Begin(k) /\ captures' = Append(captures, NewCapture(k))
    BY <1>4 DEF OneNew
  <2>2. /\ Len(captures') = Len(captures) + 1
        /\ \A m \in 1..Len(captures) : captures'[m] = captures[m]
        /\ captures'[Len(captures) + 1].baseline = Len(card)
    <3> DEFINE new == NewCapture(k)
    <3>1. new.baseline = Len(card)
      BY DEF NewCapture
    <3> HIDE DEF new
    <3>2. captures' = Append(captures, new)
      BY <2>1 DEF new
    <3>3. QED
      BY <1>0, <3>1, <3>2
  <2>3. \A s \in 1..Len(shots) : shots[s].stage \in {"refused", "stored"}
    BY <1>0, <2>1 DEF Begin, Quiet
  <2>4. UNCHANGED <<shots, card>>
    BY <2>1 DEF Begin, camera
  <2>5. \A n \in 1..Len(captures') : n \in 1..Len(captures) \/ n = Len(captures) + 1
    BY <1>0, <2>2
  <2>6. \A s \in 1..Len(shots) : ~(shots[s].stage \in {"requested", "exposed"})
    BY <2>3
  <2>7. \A n \in 1..Len(captures'), id \in 1..Len(card) :
          id > captures'[n].baseline => n \in 1..Len(captures) /\ id > captures[n].baseline
    BY <1>0, <2>2, <2>5
  <2>8. QED
    BY <1>1, <2>4, <2>6, <2>7
<1>5. QED
  BY <1>3, <1>4, CapturesStep

-----------------------------------------------------------------------------
(* Focus.                                                                  *)

\* A report of focus is as old as the step, or the camera makes it now.
LEMMA FocusFrom ==
  ASSUME IInv, [Next]_vars, NEW e \in Abroad', IsReport(e)
  PROVE  \/ e \in Abroad
         \/ (AfTracks \/ AfEnds) /\ e.tag = attempt /\ (e.focused => af' = "found")
<1>1. CASE Abroad' \subseteq Abroad
  BY <1>1
<1>2. CASE SendsKnown /\ Abroad' = Abroad \cup (wire' \ wire)
  <2>1. CASE e \notin Abroad
    <3>1. e \in wire' \ wire /\ e.kind \in Channels \cup {"indication"}
      BY <1>2, <2>1 DEF IsReport
    <3>2. e.kind # "capture" /\ e.kind # "content"
      BY <3>1, ConstantsAssumption
    <3>3. \A s \in Nat : e # CaptureEvent(s) /\ e # ContentEvent(s)
      BY <3>2 DEF CaptureEvent, ContentEvent
    <3>4. \A s \in 1..Len(shots) : s \in Nat
      BY Basics
    <3>5. ASSUME NEW s \in 1..Len(shots) PROVE wire' # wire \cup {CaptureEvent(s)}
      BY <3>1, <3>3, <3>4
    <3>6. ASSUME NEW id \in Nat PROVE wire' # wire \cup {ContentEvent(id)}
      BY <3>1, <3>3
    <3>7. (AfTracks \/ AfEnds) /\ \A f \in wire' \ wire : f.tag = attempt /\ (f.focused => af' = "found")
      BY <1>2, <3>5, <3>6 DEF SendsKnown
    <3>8. QED
      BY <3>1, <3>7
  <2>2. QED
    BY <2>1
<1>3. QED
  BY <1>1, <1>2, AbroadGrows

\* What the gate concludes goes into the Capture it works for.
LEMMA ConfirmFocus ==
  ASSUME IInv, NEW a \in 0..MaxAttempts, Confirm(a), pc \in {"immediate", "wait"}
  PROVE  /\ pc' \in {"idle", "down"}
         /\ pc' = "down" /\ op'.kind = "gated" => Current'.focusBy = a
<1>0. op \in OpRecord /\ captures \in Seq(CaptureRecord) /\ StageFits
  BY DEF IInv, TypeOK
<1>1. op'.kind = op.kind /\ op'.capture = op.capture
  BY <1>0, OpFields DEF Confirm
<1>2. CASE op.kind = "autofocus"
  BY <1>1, <1>2 DEF Confirm
<1>3. CASE op.kind # "autofocus"
  <2>1. op.capture \in 1..Len(captures)
    BY <1>0, <1>3 DEF StageFits, Gate, HasGate, Releasing
  <2>2. Current \in CaptureRecord
    BY <1>0, <2>1 DEF Current
  <2> DEFINE c == [Current EXCEPT !.state = "focused", !.focusBy = a]
  <2>3. c \in CaptureRecord /\ c.focusBy = a
    BY <2>2 DEF CaptureRecord, States
  <2>4. pc' = "down" /\ captures' = [captures EXCEPT ![op.capture] = c]
    BY <1>3 DEF Confirm, Change
  <2> HIDE DEF c
  <2>5. captures'[op.capture] = c
    BY <1>0, <2>1, <2>3, <2>4, ReplaceOne
  <2>6. QED
    BY <1>1, <2>3, <2>4, <2>5 DEF Current
<1>4. QED
  BY <1>2, <1>3

LEMMA FocusStep == IInv /\ [Next]_vars => OwnFocus' /\ FocusFresh'
<1> DEFINE Heard == \E e \in Abroad : SaysFocused(e) /\ e.tag = attempt
           Waiting == pc \in {"immediate", "wait"} =>
                        attempt > 0 /\ (lens = attempt \/ Heard => af = "found")
           Opened == pc = "down" /\ op.kind = "gated" /\ Current.focusBy = attempt => af = "found"
           Clean == /\ lens = NONE /\ ~half /\ ~letting /\ af \notin Underway
                    /\ \A e \in Abroad : ~IsReport(e)
           Own == lens \in {NONE, attempt} /\ \A e \in Abroad : SaysFocused(e) => e.tag = attempt
           Fresh == Settled =>
                      /\ pc \in {"clear", "press"} => Clean
                      /\ pc \in {"immediate", "wait"} => Own
                      /\ pc = "down" /\ op.kind = "gated" => Current.focusBy = attempt
           Goal == Waiting' /\ Opened' /\ Fresh'
<1> SUFFICES ASSUME IInv, [Next]_vars PROVE OwnFocus' /\ FocusFresh'
  OBVIOUS
<1> SUFFICES Goal
  <2>1. lens' \in 0..attempt' /\ attempt' \in Nat
    BY LensStep, AttemptGrows
  <2>2. lens' <= attempt'
    BY <2>1
  <2>3. ASSUME Goal PROVE OwnFocus'
    BY <2>2, <2>3 DEF OwnFocus
  <2>4. ASSUME Goal PROVE FocusFresh'
    BY <2>4 DEF FocusFresh
  <2>5. QED
    BY <2>3, <2>4
<1>0. /\ Waiting /\ Opened /\ Fresh /\ Holding /\ StageFits /\ op \in OpRecord
      /\ lens \in Nat /\ lens <= attempt /\ attempt \in Nat /\ attempt \in 0..MaxAttempts
  <2>1. OwnFocus /\ FocusFresh /\ Holding /\ StageFits /\ op \in OpRecord /\ lens \in 0..MaxAttempts
        /\ MaxAttempts \in Nat /\ attempt \in 0..MaxAttempts
    BY Basics DEF IInv, TypeOK
  <2>2. Waiting /\ Opened
    BY <2>1 DEF OwnFocus
  <2>3. Fresh
    BY <2>1 DEF FocusFresh
  <2>4. lens <= attempt
    BY <2>1 DEF OwnFocus
  <2>5. QED
    BY <2>1, <2>2, <2>3, <2>4
<1>a. \A e \in Abroad : e \in Events /\ (IsReport(e) => e.tag \in Nat /\ e.tag <= attempt)
  <2>1. \A e \in Abroad : e \in Events /\ Known(e)
    BY Basics DEF IInv, EventsKnown
  <2>2. QED
    BY <2>1 DEF Known, Events
<1>b. SaysFocused(NONE) \in BOOLEAN /\ \A e : SaysFocused(e) => IsReport(e)
  BY DEF SaysFocused
\* Where the camera publishes nothing, there are no new reports.
<1>1. ASSUME ~AfTracks, ~AfEnds
      PROVE  \A e \in Abroad' : IsReport(e) => e \in Abroad
  BY <1>1, FocusFrom
<1>2. CASE AfTracks \/ AfEnds
  <2>1. af \in Underway /\ UNCHANGED <<pc, op, captures, lens, attempt>> /\ af # "found"
    BY <1>2 DEF AfTracks, AfEnds, session, Underway
  <2>2. ASSUME NEW e \in Abroad', SaysFocused(e), pc \in {"immediate", "wait"}, e.tag = attempt
        PROVE  af' = "found"
    <3>1. e \notin Abroad
      BY <1>0, <2>1, <2>2
    <3>2. QED
      BY <2>2, <3>1, FocusFrom DEF SaysFocused
  <2>3. pc \in {"immediate", "wait"} => lens # attempt /\ attempt > 0
    BY <1>0, <2>1
  <2>4. Waiting'
    BY <2>1, <2>2, <2>3 DEF SaysFocused, IsReport
  <2>5. Opened'
    BY <1>0, <2>1 DEF Current
  <2>6. ASSUME NEW e \in Abroad', SaysFocused(e), pc \in {"immediate", "wait"}, Settled
        PROVE  e.tag = attempt
    BY <1>0, <2>6, FocusFrom DEF SaysFocused
  <2>7. Fresh'
    BY <1>0, <2>1, <2>6 DEF Current, SaysFocused, IsReport
  <2>8. QED
    BY <2>4, <2>5, <2>7
<1>3. ASSUME UNCHANGED <<pc, op, half, letting, lens, af, attempt>>, ~AfTracks, ~AfEnds,
             pc = "down" => UNCHANGED captures
      PROVE  Goal
  <2>1. Waiting'
    BY <1>0, <1>1, <1>3 DEF SaysFocused, IsReport
  <2>2. Opened'
    BY <1>0, <1>3 DEF Current
  <2>3. Fresh'
    BY <1>0, <1>1, <1>3 DEF SaysFocused, IsReport, Current
  <2>4. QED
    BY <2>1, <2>2, <2>3
<1>4. ASSUME pc' \notin {"clear", "press", "immediate", "wait", "down"}
      PROVE  Goal
  BY <1>4
<1>5. ASSUME NEW a \in 0..MaxAttempts, Confirm(a), UNCHANGED camera, pc \in {"immediate", "wait"},
             a = attempt => af = "found", Settled => a = attempt
      PROVE  Goal
  <2>1. /\ pc' \in {"idle", "down"} /\ UNCHANGED <<attempt, af>>
        /\ pc' = "down" /\ op'.kind = "gated" => Current'.focusBy = a
    BY <1>5, ConfirmFocus DEF camera, focus
  <2>2. QED
    BY <1>5, <2>1
<1>6. ASSUME NEW k \in Kinds \ {"content"}, Begin(k) PROVE Goal
  <2>1. pc' = IF k \in HasGate THEN "clear" ELSE "down"
    BY <1>6 DEF Begin
  <2>2. pc' = "down" => op'.kind # "gated"
    BY <1>6, <2>1 DEF Begin, HasGate
  <2>3. Settled =>
          /\ wire = {} /\ opq = <<>> /\ beq = <<>> /\ UNCHANGED <<wire, opq, beq, half, letting, lens, af>>
          /\ ~letting /\ af \notin Underway /\ (k \in HasGate => ~half /\ lens = NONE)
    BY <1>6 DEF Begin, Quiet, camera, button, focus, queues, transport
  <2>4. Settled => Abroad' = {}
    <3> SUFFICES ASSUME Settled PROVE Abroad' = {}
      OBVIOUS
    <3>1. Pumped' = <<>>
      BY <2>3 DEF Pumped
    <3>2. {Pumped'[i] : i \in 1..Len(Pumped')} = {}
      BY <3>1
    <3>3. QED
      BY <2>3, <3>2 DEF Abroad
  <2>5. Settled /\ k \in HasGate => Clean'
    BY <2>3, <2>4
  <2>6. QED
    BY <2>1, <2>2, <2>5
<1>7. CASE ClearStale
  <2>1. pc = "clear" /\ pc' = "press" /\ half' = half /\ letting' = half /\ UNCHANGED <<lens, af>>
    BY <1>7 DEF ClearStale, AskRelease, focus
  <2>2. ~AfTracks /\ ~AfEnds
    BY <2>1 DEF AfTracks, AfEnds, session
  <2>3. Settled => Clean'
    BY <1>0, <1>1, <2>1, <2>2 DEF IsReport
  <2>4. QED
    BY <2>1, <2>3
<1>8. CASE Press
  <2>1. /\ pc = "press" /\ pc' = "immediate" /\ attempt' = attempt + 1
        /\ \/ af' = "searching" /\ lens' = lens
           \/ af' = "found" /\ lens' = attempt'
    BY <1>8 DEF Press
  <2>2. ~AfTracks /\ ~AfEnds
    BY <2>1 DEF AfTracks, AfEnds, session
  <2>3. \A e \in Abroad' : IsReport(e) => e.tag # attempt'
    BY <1>0, <1>1, <1>a, <2>1, <2>2
  <2>4. attempt' > 0 /\ lens # attempt'
    BY <1>0, <2>1
  <2>5. Waiting'
    BY <2>1, <2>3, <2>4 DEF SaysFocused, IsReport
  <2>6. Settled => lens = NONE /\ \A e \in Abroad' : ~IsReport(e)
    BY <1>0, <1>1, <2>1, <2>2
  <2>7. Fresh'
    BY <2>1, <2>6 DEF SaysFocused, IsReport
  <2>8. QED
    BY <2>1, <2>5, <2>7
<1>9. CASE ReadAtOnce \/ GateRead \/ GateExpires
  <2>1. /\ pc \in {"immediate", "wait"} /\ UNCHANGED camera
        /\ \/ lens # NONE /\ Confirm(lens)
           \/ pc = "immediate" /\ pc' = "wait" /\ UNCHANGED op
           \/ pc' = "refuse"
    BY <1>9 DEF ReadAtOnce, GateRead, GateExpires
  <2>2. CASE pc = "immediate" /\ pc' = "wait" /\ UNCHANGED op
    <3>1. ~AfTracks /\ ~AfEnds /\ UNCHANGED <<lens, af, attempt>>
      BY <2>1, <2>2 DEF AfTracks, AfEnds, session, camera, focus
    <3>2. Waiting' /\ Fresh'
      BY <1>0, <1>1, <2>2, <3>1 DEF SaysFocused, IsReport
    <3>3. QED
      BY <2>2, <3>2
  <2>3. CASE lens # NONE /\ Confirm(lens)
    <3>1. lens \in 0..MaxAttempts /\ (lens = attempt => af = "found") /\ (Settled => lens = attempt)
      BY <1>0, <2>1, <2>3 DEF IInv, TypeOK
    <3>2. QED
      BY <1>5, <2>1, <2>3, <3>1
  <2>4. QED
    BY <1>4, <2>1, <2>2, <2>3
<1>10. CASE GateEvents
  <2> DEFINE focused == {i \in DOMAIN Pumped : IsFocused(Pumped[i])}
  <2>1. pc = "wait" /\ UNCHANGED camera
        /\ IF focused # {} THEN Confirm(Pumped[Min(focused)].tag) ELSE UNCHANGED session
    BY <1>10 DEF GateEvents
  <2>2. CASE focused # {}
    <3>1. focused \subseteq 1..Len(Pumped) /\ focused \subseteq Nat
      BY PumpedFacts DEF IInv
    <3>2. Min(focused) \in focused
      BY <2>2, <3>1, MinFacts
    <3>3. PICK i \in 1..Len(Pumped) : IsFocused(Pumped[i]) /\ Confirm(Pumped[i].tag)
      BY <2>1, <2>2, <3>1, <3>2
    <3>4. Pumped[i] \in Abroad /\ SaysFocused(Pumped[i])
      BY <3>3 DEF Abroad, SaysFocused, IsReport, IsFocused, IsFocusEvent
    <3> DEFINE a == Pumped[i].tag
    <3>5. a \in Nat /\ a <= attempt
      BY <1>a, <1>b, <3>4
    <3>6. a \in 0..MaxAttempts
      BY <1>0, <3>5, Basics
    <3>7. (a = attempt => af = "found") /\ (Settled => a = attempt)
      BY <1>0, <2>1, <3>4
    <3> HIDE DEF a
    <3>8. Confirm(a)
      BY <3>3 DEF a
    <3>9. QED
      BY <1>5, <2>1, <3>6, <3>7, <3>8
  <2>3. CASE focused = {}
    <3>1. UNCHANGED <<pc, op, captures, half, letting, lens, af, attempt>>
      BY <2>1, <2>3 DEF session, camera, button, focus
    <3>2. ~AfTracks /\ ~AfEnds
      BY <3>1 DEF AfTracks, AfEnds, Underway
    <3>3. QED
      BY <1>3, <3>1, <3>2
  <2>4. QED
    BY <2>2, <2>3
<1>11. CASE \/ (\E n \in DOMAIN captures : WaitForContent(n))
            \/ LetGo \/ LetGoEnds \/ Down \/ Up \/ AwaitEvents \/ AwaitExpires \/ ContentRound
            \/ ContentExpires \/ Raise
  <2>1. pc' \notin {"clear", "press", "immediate", "wait", "down"}
    BY <1>11 DEF WaitForContent, LetGo, LetGoEnds, Down, Up, AwaitEvents, AwaitExpires, ContentRound,
                 ContentExpires, Raise, AfterExposure
  <2>2. QED
    BY <1>4, <2>1
<1>12. CASE /\ ~AfTracks /\ ~AfEnds
            /\ \/ (\E n \in DOMAIN captures : Preview(n))
               \/ UserPump \/ (\E s \in DOMAIN shots : Expose(s) \/ Store(s))
               \/ (\E e \in wire : Deliver(e)) \/ LinkDrops \/ LinkRecovers \/ UNCHANGED vars
  <2>1. UNCHANGED <<pc, op, half, letting, lens, af, attempt>> /\ (pc = "down" => UNCHANGED captures)
    BY <1>12 DEF Preview, UserPump, Expose, Store, Deliver, LinkDrops, LinkRecovers, session, camera,
                 button, focus, vars
  <2>2. QED
    BY <1>3, <1>12, <2>1
\* A stage that the gate holds is not being let go.
<1>13. CASE Clears
  <2>1. letting /\ UNCHANGED <<pc, op>>
    BY <1>13 DEF Clears, session
  <2>2. ~(pc \in {"immediate", "wait"}) /\ ~(pc = "down" /\ op.kind = "gated")
    BY <1>0, <2>1 DEF Holding
  <2>3. Settled => pc \notin {"clear", "press"}
    BY <1>0, <2>1
  <2>4. QED
    BY <2>1, <2>2, <2>3
\* What the indication says was on its way.
<1>14. ASSUME NEW e \in wire, Indicates(e), ~AfTracks, ~AfEnds PROVE Goal
  <2>1. /\ e.kind = "indication" /\ lens' = (IF e.focused THEN e.tag ELSE NONE)
        /\ UNCHANGED <<pc, op, captures, half, letting, af, attempt>>
    BY <1>14 DEF Indicates, session, button
  <2>2. e \in Abroad /\ IsReport(e)
    BY <2>1 DEF Abroad, IsReport
  <2>3. Settled => pc \notin {"clear", "press"}
    BY <1>0, <2>2
  <2>4. pc \in {"immediate", "wait"} /\ lens' = attempt => af = "found"
    <3>1. SaysFocused(e) \/ lens' = NONE
      BY <2>1, <2>2 DEF SaysFocused
    <3>2. CASE lens' = NONE
      BY <1>0, <3>2 DEF NONE
    <3>3. CASE SaysFocused(e)
      BY <1>0, <2>1, <2>2, <3>3 DEF SaysFocused
    <3>4. QED
      BY <3>1, <3>2, <3>3
  <2>5. Waiting'
    BY <1>0, <1>1, <1>14, <2>1, <2>4 DEF SaysFocused, IsReport
  <2>6. Opened'
    BY <1>0, <2>1 DEF Current
  <2>7. Settled /\ pc \in {"immediate", "wait"} => lens' \in {NONE, attempt}
    BY <1>0, <2>1, <2>2 DEF SaysFocused
  <2>8. Fresh'
    BY <1>0, <1>1, <1>14, <2>1, <2>3, <2>7 DEF Current, SaysFocused, IsReport
  <2>9. QED
    BY <2>5, <2>6, <2>8
<1>15. QED
  BY <1>2, <1>6, <1>7, <1>8, <1>9, <1>10, <1>11, <1>12, <1>13, <1>14, ZenonT(60) DEF Next, Proceed

-----------------------------------------------------------------------------
(* The invariant and what follows from it.                                 *)

LEMMA InitIInv == Init => IInv
<1> SUFFICES ASSUME Init PROVE IInv
  OBVIOUS
<1>0. {MaxCaptures, MaxAttempts, MaxDrops} \subseteq Nat
  BY ConstantsAssumption
<1>1. /\ pc = "idle" /\ op = [kind |-> "content", capture |-> NONE, confirmed |-> FALSE]
      /\ captures = <<>> /\ opq = <<>> /\ beq = <<>> /\ wire = {} /\ shots = <<>> /\ card = <<>>
      /\ half = FALSE /\ letting = FALSE /\ full = FALSE /\ lens = NONE /\ af = "off"
      /\ attempt = 0 /\ link = TRUE /\ drops = 0
  BY DEF Init
<1>2. op \in OpRecord /\ op.kind = "content"
  BY <1>0, <1>1 DEF OpRecord, Kinds, NONE
<1>3. /\ captures \in Seq(CaptureRecord) /\ shots \in Seq(ShotRecord) /\ card \in Seq(DOMAIN shots)
      /\ opq \in Seq(Events) /\ beq \in Seq(Events) /\ Len(captures) = 0 /\ Len(shots) = 0
      /\ Len(card) = 0
  BY <1>1
<1>4. Pumped = <<>> /\ Len(Pumped) = 0 /\ Abroad = {}
  <2>1. Pumped = <<>>
    BY <1>1 DEF Pumped
  <2>2. {Pumped[i] : i \in 1..Len(Pumped)} = {}
    BY <2>1
  <2>3. QED
    BY <1>1, <2>1, <2>2 DEF Abroad
<1>5. TypeOK
  <2>1. /\ Len(captures) <= MaxCaptures /\ {half, letting, full, link} \subseteq BOOLEAN
        /\ attempt \in 0..MaxAttempts /\ lens \in 0..MaxAttempts /\ drops \in 0..MaxDrops
    <3>1. MaxCaptures \in Nat /\ MaxAttempts \in Nat /\ MaxDrops \in Nat
      BY <1>0
    <3>2. Len(captures) <= MaxCaptures
      BY <1>3, <3>1
    <3>3. attempt \in 0..MaxAttempts /\ lens \in 0..MaxAttempts /\ drops \in 0..MaxDrops
      BY <1>1, <3>1 DEF NONE
    <3>4. {half, letting, full, link} \subseteq BOOLEAN
      BY <1>1
    <3>5. QED
      BY <3>2, <3>3, <3>4
  <2>2. QED
    BY <1>1, <1>2, <1>3, <2>1 DEF TypeOK
<1>6. EventsTyped /\ StageFits /\ RoomLeft /\ HalfPressReleased /\ Holding
  BY <1>1, <1>2, <1>3 DEF EventsTyped, StageFits, RoomLeft, HalfPressReleased, Holding, Gate, Releasing
<1>7. EventsKnown /\ StillsStored /\ OnePlaceEach /\ Consumed
  BY <1>1, <1>3, <1>4 DEF EventsKnown, StillsStored, OnePlaceEach, Consumed
<1>8. OwnFocus /\ FocusFresh /\ ShotsInTurn
  BY <1>1, <1>3 DEF OwnFocus, FocusFresh, ShotsInTurn, NONE
<1>9. QED
  BY <1>5, <1>6, <1>7, <1>8 DEF IInv

LEMMA StepIInv == IInv /\ [Next]_vars => IInv'
<1> SUFFICES ASSUME IInv, [Next]_vars PROVE IInv'
  OBVIOUS
<1>1. Control'
  BY ControlStep
<1>2. EventsTyped'
  BY EventsStep
<1>3. QED
  BY <1>1, <1>2, TypeStep, KnownStep, StillsStep, OnePlaceStep, ConsumedStep, FocusStep, InTurnStep
     DEF IInv, Control

LEMMA Invariance == Spec => []IInv
  BY InitIInv, StepIInv, PTL DEF Spec

\* The types and bounds of a session's captures, attempts, shots and stills hold.
THEOREM TypeCorrect == Spec => []TypeOK
<1>1. IInv => TypeOK
  BY DEF IInv
<1>2. QED
  BY <1>1, Invariance, PTL

\* An exposure confirms one Capture at most, and it took place: whatever the
\* timeouts, late events and losses of the link, and however often the user
\* pumps in between, the event that ends a wait is read by that wait alone.
THEOREM ExposureConfirmsOnce == Spec => []EventConfirmsOnce
<1>1. IInv => EventConfirmsOnce
  <2> SUFFICES ASSUME IInv PROVE EventConfirmsOnce
    OBVIOUS
  <2>1. DOMAIN captures = 1..Len(captures)
    BY Basics
  <2>2. QED
    BY <2>1 DEF IInv, Consumed, EventConfirmsOnce, Taken
<1>2. QED
  BY <1>1, Invariance, PTL

\* Who leaves the half-press engaged, when a gated call or an autofocus that was
\* not confirmed returns, has asked for its release; and no gate presses over a
\* stage that an earlier call left engaged without asking it back first.
THEOREM HalfPressIsReleased == Spec => []HalfPressReleased
<1>1. IInv => HalfPressReleased
  BY DEF IInv
<1>2. QED
  BY <1>1, Invariance, PTL

\* A gated capture releases in focus.  Only in a session that is not settled can
\* it be otherwise, and then because the gate took what an earlier attempt
\* reported for the focus of this one (_focus_gate).
THEOREM ReleasesInFocus == Spec => []ReleaseInFocus
<1>1. IInv => ReleaseInFocus
  <2> SUFFICES ASSUME IInv, pc = "down", op.kind = "gated"
               PROVE  (af = "found" /\ half) \/ (~Settled /\ Current.focusBy # attempt)
    BY DEF ReleaseInFocus
  <2>1. half
    BY DEF IInv, Holding
  <2>2. Current.focusBy = attempt => af = "found"
    BY DEF IInv, OwnFocus
  <2>3. Settled => Current.focusBy = attempt
    BY DEF IInv, FocusFresh
  <2>4. QED
    BY <2>1, <2>2, <2>3
<1>2. QED
  BY <1>1, Invariance, PTL

\* In a settled session the still of a Capture was not taken for an earlier one.
THEOREM ContentIsNotEarlier == ASSUME Settled PROVE Spec => []ContentNotEarlier
<1>1. IInv => ContentNotEarlier
  <2> SUFFICES ASSUME IInv, NEW n \in 1..Len(captures), captures[n].content # NONE
               PROVE  shots[card[captures[n].content]].of >= n
    <3>1. IInv => DOMAIN captures = 1..Len(captures)
      BY Basics
    <3>2. QED
      BY <3>1 DEF ContentNotEarlier
  <2>1. captures[n] \in CaptureRecord /\ Len(card) \in Nat
    BY Basics
  <2>2. captures[n].content > captures[n].baseline /\ captures[n].content <= Len(card)
    BY DEF IInv, StillsStored
  <2>3. captures[n].content \in 1..Len(card)
    BY <2>1, <2>2 DEF CaptureRecord
  <2>4. QED
    BY <2>2, <2>3 DEF IInv, ShotsInTurn
<1>2. QED
  BY <1>1, Invariance, PTL
=============================================================================
