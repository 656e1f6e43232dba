--------------------------- MODULE HostWire_proofs ---------------------------
(***************************************************************************)
(* Proofs about property calls on the wire: a value reaches the camera as  *)
(* it was given, whatever the size of a slot; what is returned was         *)
(* reported during the call; a returned list is whole; and the stream of   *)
(* frames stays in step, for any camera, any number of calls and changes.  *)
(***************************************************************************)
EXTENDS HostWire, FiniteSetTheorems, TLAPS

ItemRecord == [code : Codes, value : Int, kind : {"none", "undecoded", "range", "enum"},
               values : Seq(Int), text : Nat]
CallRecord == [op : {"none", "get", "list", "set"}, step : {"first", "string", "values"},
               code : Codes \cup {0}, value : Int, todo : Seq(ItemRecord), done : Seq(ItemRecord)]
Status == {"ok", "not_found", "buffer_too_small"} \cup Refusal

Types ==
  /\ path \in Paths /\ alive \in BOOLEAN /\ crashed \in BOOLEAN /\ capacity \in Nat
  /\ camera \in [Codes -> CameraRecord]
  /\ shown \in [Codes -> SUBSET CameraRecord]
  /\ \A c \in Codes : camera[c] \in shown[c]
  /\ pc \in {"idle", "ready", "sent", "sized", "reading", "answered"}

\* What ResultHeld says of one property.
ItemShown(p) ==
  /\ \E r \in shown[p.code] : r.there /\ r.value = p.value
  /\ \E r \in shown[p.code] : Reported(p, r)
  /\ p.text # 0 => \E r \in shown[p.code] : r.text = p.text
Good(s) == s \in Seq(ItemRecord) /\ \A i \in DOMAIN s : ItemShown(s[i])

\* What ListWhole says of a list, without counting.
Apart(s) == \A i, j \in DOMAIN s : s[i].code = s[j].code => i = j
Complete(s) ==
  /\ Apart(s)
  /\ \A c \in Codes : (\A r \in shown[c] : r.there) => \E i \in DOMAIN s : s[i].code = c

\* A call under way: what is described and what is still to describe.
CallFits(c) ==
  /\ c \in CallRecord /\ c.op # "none"
  /\ (c.step = "first") <=> (c.todo = <<>>)
  /\ c.step = "first" => c.done = <<>>
  /\ c.op = "set" => c.step = "first"
  /\ Good(c.todo) /\ Good(c.done)
  /\ c.op = "list" /\ c.step # "first" => Complete(c.done \o c.todo)
CallInv == pc # "idle" => CallFits(call)

\* The request under way is the one of the call.
RequestInv == pc \in {"sent", "sized", "reading", "answered"} => request = Request

\* A response to a call.
ReplyFits(c, r) ==
  /\ r.status \in Status /\ Len(r.blob) \in Nat
  /\ r.status = "ok" =>
       /\ c.step = "first" => /\ Good(r.blob)
                              /\ c.op = "list" => Complete(r.blob)
                              /\ c.op = "set" => r.blob = <<>>
       /\ c.step = "string" => r.text \in Nat /\ \E q \in shown[Head(c.todo).code] : q.text = r.text
       /\ c.step = "values" =>
            /\ r.kind \in Kinds /\ r.blob \in Seq(Int)
            /\ \E q \in shown[Head(c.todo).code] : q.kind = r.kind /\ q.values = r.blob
ReplyInv == pc \in {"reading", "answered"} => ReplyFits(call, reply)

\* What was read and what is in the pipe begin one frame.
Unit == [at : Nat, total : Nat]
Total == 3 + Len(reply.blob)
Framed ==
  /\ got \in Seq(Unit) /\ pipe \in Seq(Unit)
  /\ Len(got) + Len(pipe) <= Total
  /\ alive => Len(got) + Len(pipe) = Total
  /\ \A k \in DOMAIN got : got[k].total = Total
  /\ \A k \in DOMAIN pipe : pipe[k].total = Total
FrameInv ==
  /\ pc \in {"idle", "ready", "sent", "sized"} => pipe = <<>> /\ got = <<>>
  /\ pc = "reading" => Framed
  /\ pc = "answered" => pipe = <<>>

ResultFits(r) ==
  /\ Good(r.properties)
  /\ r.op = "list" /\ r.raised = "none" => Complete(r.properties)
ResultInv == ResultFits(result)

IInv ==
  /\ Types /\ CallInv /\ RequestInv /\ ReplyInv /\ FrameInv /\ ResultInv
  /\ SetReachesCamera

-----------------------------------------------------------------------------
(* Numbers.                                                                *)

LEMMA Sizes == SlotHalf \in Nat /\ SlotHalf > 0 /\ SlotSize = 2 * SlotHalf /\ SlotSize \in Nat /\ SlotSize > 0
  BY ConstantsAssumption DEF SlotSize

LEMMA DivMod ==
  ASSUME NEW n \in Int, NEW S \in Nat, S > 0
  PROVE  /\ n \div S \in Int /\ n % S \in Int /\ 0 <= n % S /\ n % S < S
         /\ n = S * (n \div S) + (n % S)
<1>1. n \div S \in Int /\ n % S \in Int
  OBVIOUS
<1>2. 0 <= n % S /\ n % S < S
  OBVIOUS
<1>3. n = S * (n \div S) + (n % S)
  OBVIOUS
<1>4. QED
  BY <1>1, <1>2, <1>3

\* A remainder is what is left of a multiple.
LEMMA ModUnique ==
  ASSUME NEW n \in Int, NEW S \in Nat, S > 0, NEW k \in Int, NEW r \in Int,
         0 <= r, r < S, n = S * k + r
  PROVE  n % S = r
<1> DEFINE q == n \div S
           t == n % S
<1>1. q \in Int /\ t \in Int /\ 0 <= t /\ t < S /\ n = S * q + t
  BY DivMod
<1> HIDE DEF q, t
<1>2. S * (q - k) = r - t
  <2>1. S * (q - k) = S * q - S * k
    BY <1>1
  <2>2. QED
    BY <1>1, <2>1
<1>3. ~(q - k >= 1)
  <2>1. q - k >= 1 => S * (q - k) >= S
    BY <1>1
  <2>2. r - t < S
    BY <1>1
  <2>3. QED
    BY <1>1, <1>2, <2>1, <2>2
<1>4. ~(q - k <= -1)
  <2>1. q - k <= -1 => S * (q - k) <= -S
    BY <1>1
  <2>2. r - t > -S
    BY <1>1
  <2>3. QED
    BY <1>1, <1>2, <2>1, <2>2
<1>5. q = k
  BY <1>1, <1>3, <1>4
<1>6. t = r
  BY <1>1, <1>5
<1>7. QED
  BY <1>6 DEF t

\* A number that a slot holds is not changed by _as_int32.
LEMMA SignedHolds ==
  ASSUME NEW q \in Int, -SlotHalf <= q, q < SlotHalf
  PROVE  Signed(q) = q
<1>1. CASE q >= 0
  <2>1. q % SlotSize = q
    <3>1. q = SlotSize * 0 + q /\ q < SlotSize
      BY <1>1, Sizes
    <3>2. QED
      BY <1>1, <3>1, Sizes, ModUnique
  <2>2. QED
    BY <2>1, Sizes DEF Signed
<1>2. CASE q < 0
  <2>1. q % SlotSize = q + SlotSize
    <3>1. q = SlotSize * (-1) + (q + SlotSize) /\ 0 <= q + SlotSize /\ q + SlotSize < SlotSize
      BY <1>2, Sizes
    <3>2. q + SlotSize \in Int /\ -1 \in Int
      BY Sizes
    <3>3. QED
      BY <3>1, <3>2, Sizes, ModUnique
  <2>2. q + SlotSize >= SlotHalf /\ (q + SlotSize) - SlotSize = q
    BY Sizes
  <2>3. QED
    BY <2>1, <2>2, Sizes DEF Signed
<1>3. QED
  BY <1>1, <1>2

\* The low slot, taken as unsigned, is the remainder.
LEMMA LowHolds ==
  ASSUME NEW v \in Int
  PROVE  Signed(v) % SlotSize = v % SlotSize
<1> DEFINE r == v % SlotSize
<1>1. r \in Int /\ 0 <= r /\ r < SlotSize
  BY Sizes, DivMod
<1>2. Signed(v) = r \/ Signed(v) = r - SlotSize
  BY DEF Signed
<1> HIDE DEF r
<1>3. CASE Signed(v) = r
  <2>1. r = SlotSize * 0 + r
    BY <1>1, Sizes
  <2>2. QED
    BY <1>1, <1>3, <2>1, Sizes, ModUnique DEF r
<1>4. CASE Signed(v) = r - SlotSize
  <2>1. r - SlotSize = SlotSize * (-1) + r /\ r - SlotSize \in Int /\ -1 \in Int
    BY <1>1, Sizes
  <2>2. (r - SlotSize) % SlotSize = r
    BY <1>1, <2>1, Sizes, ModUnique
  <2>3. QED
    BY <1>4, <2>2 DEF r
<1>5. QED
  BY <1>2, <1>3, <1>4

\* A value that fits in two slots comes out of them as it went in.
LEMMA JoinedBack == \A v \in Whole : Joined(Low(v), High(v)) = v
<1> SUFFICES ASSUME NEW v \in Whole PROVE Joined(Low(v), High(v)) = v
  OBVIOUS
<1> DEFINE q == v \div SlotSize
           r == v % SlotSize
           h == SlotHalf * SlotSize
<1>1. v \in Int /\ -h <= v /\ v < h /\ h \in Int
  BY Sizes DEF Whole
<1>2. q \in Int /\ r \in Int /\ 0 <= r /\ r < SlotSize /\ v = SlotSize * q + r
  BY <1>1, Sizes, DivMod
<1> HIDE DEF q, r
<1>3. q < SlotHalf
  <2>1. q >= SlotHalf => SlotSize * q >= SlotSize * SlotHalf
    BY <1>2, Sizes
  <2>2. SlotSize * SlotHalf = h
    BY Sizes
  <2>3. SlotSize * q \in Int
    BY <1>2, Sizes
  <2> HIDE DEF h
  <2>4. QED
    BY <1>1, <1>2, <2>1, <2>2, <2>3, Sizes
<1>4. -SlotHalf <= q
  <2>1. q <= -SlotHalf - 1 => SlotSize * q <= SlotSize * (-SlotHalf - 1)
    BY <1>2, Sizes
  <2>2. SlotSize * (-SlotHalf - 1) = -h - SlotSize
    BY Sizes
  <2>3. SlotSize * q \in Int
    BY <1>2, Sizes
  <2> HIDE DEF h
  <2>4. QED
    BY <1>1, <1>2, <2>1, <2>2, <2>3, Sizes
<1>5. High(v) = q
  BY <1>2, <1>3, <1>4, SignedHolds DEF High, q
<1>6. Low(v) % SlotSize = r
  BY <1>1, LowHolds DEF Low, r
<1>7. QED
  BY <1>2, <1>5, <1>6, Sizes DEF Joined

-----------------------------------------------------------------------------
(* What was reported stays reported while the call is under way.           *)

ShownGrows == \A c \in Codes : shown[c] \subseteq shown'[c]

LEMMA ItemFields ==
  ASSUME NEW p \in ItemRecord
  PROVE  /\ p.code \in Codes /\ p.value \in Int /\ p.text \in Nat /\ p.values \in Seq(Int)
         /\ p.kind \in {"none", "undecoded", "range", "enum"}
  BY DEF ItemRecord

LEMMA CallFields ==
  ASSUME NEW c \in CallRecord
  PROVE  /\ c.op \in {"none", "get", "list", "set"} /\ c.step \in {"first", "string", "values"}
         /\ c.code \in Codes \cup {0} /\ c.value \in Int
         /\ c.todo \in Seq(ItemRecord) /\ c.done \in Seq(ItemRecord)
  BY DEF CallRecord

LEMMA NextToDescribe ==
  ASSUME NEW s \in Seq(ItemRecord), s # <<>>
  PROVE  /\ Len(s) \in Nat /\ Len(s) >= 1 /\ 1 \in DOMAIN s /\ Head(s) = s[1] /\ Head(s) \in ItemRecord
         /\ Tail(s) \in Seq(ItemRecord) /\ Len(Tail(s)) = Len(s) - 1
         /\ \A i \in DOMAIN Tail(s) : i + 1 \in DOMAIN s /\ Tail(s)[i] = s[i + 1]
  OBVIOUS

LEMMA ConcatFacts ==
  ASSUME NEW R, NEW s \in Seq(R), NEW t \in Seq(R)
  PROVE  /\ s \o t \in Seq(R) /\ Len(s) \in Nat /\ Len(t) \in Nat /\ Len(s \o t) = Len(s) + Len(t)
         /\ DOMAIN (s \o t) = 1..(Len(s) + Len(t))
         /\ \A i \in 1..Len(s) : (s \o t)[i] = s[i]
         /\ \A i \in (Len(s) + 1)..(Len(s) + Len(t)) : (s \o t)[i] = t[i - Len(s)]
<1> DEFINE a == s \o t
<1>1. a \in Seq(R) /\ Len(s) \in Nat /\ Len(t) \in Nat /\ Len(a) = Len(s) + Len(t)
  OBVIOUS
<1>2. \A i \in 1..Len(s) : a[i] = s[i]
  OBVIOUS
<1>3. \A i \in (Len(s) + 1)..(Len(s) + Len(t)) : a[i] = t[i - Len(s)]
  OBVIOUS
<1> HIDE DEF a
<1>4. DOMAIN a = 1..(Len(s) + Len(t))
  BY <1>1
<1>5. QED
  BY <1>1, <1>2, <1>3, <1>4 DEF a

LEMMA ItemStays ==
  ASSUME ShownGrows, NEW p \in ItemRecord, ItemShown(p)
  PROVE  ItemShown(p)'
<1>1. shown[p.code] \subseteq shown'[p.code]
  BY ItemFields DEF ShownGrows
<1>2. QED
  BY <1>1 DEF ItemShown, Reported

LEMMA GoodStays ==
  ASSUME ShownGrows, NEW s, Good(s)
  PROVE  Good(s)'
<1>1. s \in Seq(ItemRecord) /\ \A i \in DOMAIN s : s[i] \in ItemRecord /\ ItemShown(s[i])
  BY DEF Good
<1>2. \A i \in DOMAIN s : ItemShown(s[i])'
  BY <1>1, ItemStays
<1>3. QED
  BY <1>1, <1>2 DEF Good

LEMMA CompleteStays ==
  ASSUME ShownGrows, NEW s, Complete(s)
  PROVE  Complete(s)'
  BY DEF ShownGrows, Complete, Apart

LEMMA CallStays ==
  ASSUME ShownGrows, NEW c, CallFits(c)
  PROVE  CallFits(c)'
<1>1. Good(c.todo)' /\ Good(c.done)'
  BY GoodStays DEF CallFits
<1>2. c.op = "list" /\ c.step # "first" => Complete(c.done \o c.todo)'
  BY CompleteStays DEF CallFits
<1>3. QED
  BY <1>1, <1>2 DEF CallFits

LEMMA ReplyStays ==
  ASSUME ShownGrows, NEW c, CallFits(c), NEW r, ReplyFits(c, r)
  PROVE  ReplyFits(c, r)'
<1>1. Good(r.blob) => Good(r.blob)'
  BY GoodStays
<1>2. Complete(r.blob) => Complete(r.blob)'
  BY CompleteStays
<1>3. c.step # "first" => shown[Head(c.todo).code] \subseteq shown'[Head(c.todo).code]
  <2> SUFFICES ASSUME c.step # "first" PROVE shown[Head(c.todo).code] \subseteq shown'[Head(c.todo).code]
    OBVIOUS
  <2>1. c.todo \in Seq(ItemRecord) /\ c.todo # <<>>
    BY DEF CallFits, Good
  <2>2. Head(c.todo) \in ItemRecord
    BY <2>1, NextToDescribe
  <2>3. QED
    BY <2>2, ItemFields DEF ShownGrows
<1>4. QED
  BY <1>1, <1>2, <1>3 DEF ReplyFits

LEMMA ResultStays ==
  ASSUME ShownGrows, ResultInv, result' = result
  PROVE  ResultInv'
<1>1. PICK r : r = result
  OBVIOUS
<1>2. Good(r.properties)'
  BY <1>1, GoodStays DEF ResultInv, ResultFits
<1>3. r.op = "list" /\ r.raised = "none" => Complete(r.properties)'
  BY <1>1, CompleteStays DEF ResultInv, ResultFits
<1>4. ResultFits(r)'
  BY <1>2, <1>3 DEF ResultFits
<1>5. result' = r
  BY <1>1
<1>6. QED
  BY <1>4, <1>5 DEF ResultInv

-----------------------------------------------------------------------------
(* What the bridge answers.                                                *)

LEMMA CameraFacts ==
  ASSUME Types, NEW c \in Codes
  PROVE  /\ camera[c] \in CameraRecord /\ camera[c] \in shown[c]
         /\ camera[c].there \in BOOLEAN /\ camera[c].value \in Int /\ camera[c].text \in Nat
         /\ camera[c].kind \in Kinds /\ camera[c].values \in Seq(Int)
  BY DEF Types, CameraRecord

LEMMA ItemIsShown ==
  ASSUME Types, NEW c \in Codes, There(c)
  PROVE  Item(c) \in ItemRecord /\ Item(c).code = c /\ ItemShown(Item(c))
<1>1. /\ Item(c) \in ItemRecord
      /\ Item(c).code = c /\ Item(c).value = camera[c].value /\ Item(c).kind = "none" /\ Item(c).text = 0
  BY CameraFacts DEF Item, ItemRecord
<1>2. camera[c] \in shown[c] /\ camera[c].there
  BY CameraFacts DEF There
<1> HIDE DEF Item
<1>3. Reported(Item(c), camera[c])
  BY <1>1 DEF Reported
<1>4. QED
  BY <1>1, <1>2, <1>3 DEF ItemShown

LEMMA ArrayFits ==
  ASSUME Types
  PROVE  Good(PropertyArray) /\ Complete(PropertyArray)
<1> DEFINE there == {c \in Codes : There(c)}
           n == Cardinality(there)
           f == SetToSeq(there)
<1>1. IsFiniteSet(there)
  BY ConstantsAssumption, FS_Subset
<1>2. n \in Nat /\ f \in [1..n -> there] /\ IsInjective(f) /\ \A c \in there : \E i \in 1..n : f[i] = c
  <2>1. n \in Nat /\ \E g \in [1..n -> there] : IsInjective(g)
    BY <1>1, FS_CardinalityType DEF ExistsBijection, Bijection, Injection
  <2>2. f \in [1..n -> there] /\ IsInjective(f)
    BY <2>1 DEF SetToSeq
  <2>3. f \in Injection(1..n, there)
    BY <2>2 DEF Injection
  <2> HIDE DEF f
  <2>4. Cardinality(1..n) = n
    BY <2>1, FS_Interval
  <2>5. f \in Surjection(1..n, there)
    BY <1>1, <2>3, <2>4, FS_Injection
  <2>6. QED
    BY <2>1, <2>2, <2>5 DEF Surjection
<1> HIDE DEF f, n
<1>3. PropertyArray = [i \in 1..n |-> Item(f[i])]
  BY DEF PropertyArray, f, n
<1>4. \A i \in 1..n : f[i] \in Codes /\ There(f[i])
  BY <1>2
<1>5. \A i \in 1..n : Item(f[i]) \in ItemRecord /\ Item(f[i]).code = f[i] /\ ItemShown(Item(f[i]))
  BY <1>4, ItemIsShown
<1>6. DOMAIN PropertyArray = 1..n /\ PropertyArray \in Seq(ItemRecord)
  BY <1>2, <1>3, <1>5
<1>7. \A i \in 1..n : PropertyArray[i].code = f[i] /\ ItemShown(PropertyArray[i])
  BY <1>3, <1>5
<1> HIDE DEF there
<1>8. Good(PropertyArray)
  BY <1>6, <1>7 DEF Good
<1>9. Apart(PropertyArray)
  BY <1>2, <1>6, <1>7 DEF Apart, IsInjective
<1>10. ASSUME NEW c \in Codes, \A r \in shown[c] : r.there
       PROVE  \E i \in DOMAIN PropertyArray : PropertyArray[i].code = c
  <2>1. c \in there
    BY <1>10, CameraFacts DEF there, There
  <2>2. QED
    BY <1>2, <1>6, <1>7, <2>1
<1>11. QED
  BY <1>8, <1>9, <1>10 DEF Complete

-----------------------------------------------------------------------------
(* Describing one property after the other.                                *)

LEMMA SameCodes ==
  ASSUME NEW s, NEW t, DOMAIN s = DOMAIN t, \A i \in DOMAIN s : s[i].code = t[i].code, Complete(s)
  PROVE  Complete(t)
<1>1. Apart(t)
  BY DEF Complete, Apart
<1>2. ASSUME NEW c \in Codes, \A r \in shown[c] : r.there PROVE \E i \in DOMAIN t : t[i].code = c
  BY <1>2 DEF Complete
<1>3. QED
  BY <1>1, <1>2 DEF Complete

LEMMA AppendedFits ==
  ASSUME NEW d, Good(d), NEW p \in ItemRecord, ItemShown(p)
  PROVE  Good(Append(d, p))
<1>1. d \in Seq(ItemRecord) /\ Len(d) \in Nat
  BY DEF Good
<1> DEFINE a == Append(d, p)
<1>2. /\ a \in Seq(ItemRecord) /\ Len(a) = Len(d) + 1 /\ a[Len(d) + 1] = p
      /\ \A i \in 1..Len(d) : a[i] = d[i]
  BY <1>1
<1> HIDE DEF a
<1>3. \A i \in DOMAIN a : ItemShown(a[i])
  <2> SUFFICES ASSUME NEW i \in DOMAIN a PROVE ItemShown(a[i])
    OBVIOUS
  <2>1. i \in 1..(Len(d) + 1)
    BY <1>1, <1>2
  <2>2. CASE i = Len(d) + 1
    BY <1>2, <2>2
  <2>3. CASE i \in 1..Len(d)
    BY <1>1, <1>2, <2>3 DEF Good
  <2>4. QED
    BY <1>1, <2>1, <2>2, <2>3
<1>4. QED
  BY <1>2, <1>3 DEF Good, a

LEMMA TailFits ==
  ASSUME NEW t, Good(t), t # <<>>
  PROVE  Good(Tail(t))
<1>1. t \in Seq(ItemRecord)
  BY DEF Good
<1>2. Tail(t) \in Seq(ItemRecord) /\ \A i \in DOMAIN Tail(t) : i + 1 \in DOMAIN t /\ Tail(t)[i] = t[i + 1]
  BY <1>1, NextToDescribe
<1>3. QED
  BY <1>2 DEF Good

LEMMA SameJoined ==
  ASSUME NEW d \in Seq(ItemRecord), NEW s \in Seq(ItemRecord), NEW t \in Seq(ItemRecord),
         DOMAIN s = DOMAIN t, \A i \in DOMAIN s : s[i].code = t[i].code
  PROVE  LET a == d \o s
             b == d \o t
         IN  DOMAIN a = DOMAIN b /\ \A i \in DOMAIN a : a[i].code = b[i].code
<1> DEFINE a == d \o s
           b == d \o t
           m == Len(d)
           n == Len(s)
<1>1. m \in Nat /\ n \in Nat /\ Len(t) = n /\ DOMAIN s = 1..n
  OBVIOUS
<1>2. /\ DOMAIN a = 1..(m + n) /\ \A i \in 1..m : a[i] = d[i]
      /\ \A i \in (m + 1)..(m + n) : a[i] = s[i - m]
  BY ConcatFacts
<1>3. /\ DOMAIN b = 1..(m + Len(t)) /\ \A i \in 1..m : b[i] = d[i]
      /\ \A i \in (m + 1)..(m + Len(t)) : b[i] = t[i - m]
  BY ConcatFacts
<1> HIDE DEF a, b, m, n
<1>4. \A i \in (m + 1)..(m + n) : i - m \in 1..n
  BY <1>1
<1>5. \A i \in 1..(m + n) : i \in 1..m \/ i \in (m + 1)..(m + n)
  BY <1>1
<1>6. QED
  BY <1>1, <1>2, <1>3, <1>4, <1>5 DEF a, b

\* A property that moves from what is to be described to what is described
\* keeps its place.
LEMMA MovedOn ==
  ASSUME NEW d \in Seq(ItemRecord), NEW t \in Seq(ItemRecord), t # <<>>,
         NEW p \in ItemRecord, p.code = Head(t).code
  PROVE  LET a == d \o t
             b == Append(d, p) \o Tail(t)
         IN  DOMAIN a = DOMAIN b /\ \A i \in DOMAIN a : a[i].code = b[i].code
<1> DEFINE a == d \o t
           e == Append(d, p)
           f == Tail(t)
           b == e \o f
           m == Len(d)
<1>1. /\ m \in Nat /\ Len(t) \in Nat /\ Len(t) >= 1 /\ Head(t) = t[1]
      /\ f \in Seq(ItemRecord) /\ Len(f) = Len(t) - 1
      /\ \A i \in DOMAIN f : f[i] = t[i + 1]
  BY NextToDescribe
<1>2. /\ e \in Seq(ItemRecord) /\ Len(e) = m + 1 /\ e[m + 1] = p
      /\ \A i \in 1..m : e[i] = d[i]
  BY <1>1
<1>3. /\ DOMAIN a = 1..(m + Len(t)) /\ \A i \in 1..m : a[i] = d[i]
      /\ \A i \in (m + 1)..(m + Len(t)) : a[i] = t[i - m]
  BY ConcatFacts
<1> HIDE DEF e, f
<1>4. /\ DOMAIN b = 1..(m + Len(t))
      /\ \A i \in 1..(m + 1) : b[i] = e[i]
      /\ \A i \in (m + 2)..(m + Len(t)) : b[i] = f[i - (m + 1)]
  <2>1. /\ DOMAIN b = 1..(Len(e) + Len(f)) /\ \A i \in 1..Len(e) : b[i] = e[i]
        /\ \A i \in (Len(e) + 1)..(Len(e) + Len(f)) : b[i] = f[i - Len(e)]
    <3>1. e \in Seq(ItemRecord)
      BY <1>2
    <3>2. f \in Seq(ItemRecord)
      BY <1>1
    <3>3. QED
      BY <3>1, <3>2, ConcatFacts
  <2> HIDE DEF b, m
  <2>2. QED
    BY <1>1, <1>2, <2>1
<1> HIDE DEF a, b, m
<1>5. ASSUME NEW i \in 1..(m + Len(t)) PROVE a[i].code = b[i].code
  <2>1. CASE i \in 1..m
    BY <1>1, <1>2, <1>3, <1>4, <2>1
  <2>2. CASE i = m + 1
    <3>1. a[i] = t[1] /\ b[i] = p
      BY <1>1, <1>2, <1>3, <1>4, <2>2
    <3>2. QED
      BY <1>1, <3>1
  <2>3. CASE i \in (m + 2)..(m + Len(t))
    <3>1. i - (m + 1) \in DOMAIN f /\ (i - (m + 1)) + 1 = i - m
      BY <1>1, <2>3
    <3>2. f[i - (m + 1)] = t[i - m]
      BY <1>1, <3>1
    <3>3. a[i] = t[i - m] /\ b[i] = f[i - (m + 1)]
      BY <1>1, <1>3, <1>4, <2>3
    <3>4. QED
      BY <3>2, <3>3
  <2>4. QED
    BY <1>1, <2>1, <2>2, <2>3
<1>6. QED
  BY <1>3, <1>4, <1>5 DEF a, b, e, f

\* How an exchange ends: with the call or with its next exchange.
Progress ==
  \/ \E r : End(r) /\ ResultFits(r)
  \/ \E c : Continue(c) /\ CallFits(c)

LEMMA FailFits ==
  ASSUME NEW raised, raised # "none", Fail(raised)
  PROVE  Progress
<1> DEFINE r == [Nothing EXCEPT !.op = call.op, !.raised = raised]
<1>1. r.properties = <<>> /\ r.raised = raised
  BY DEF Nothing
<1>2. Good(<<>>)
  BY DEF Good
<1>3. End(r)
  BY DEF Fail
<1> HIDE DEF r
<1>4. ResultFits(r)
  BY <1>1, <1>2 DEF ResultFits
<1>5. QED
  BY <1>3, <1>4 DEF Progress

LEMMA ReturnFits ==
  ASSUME NEW ps, Good(ps), call.op = "list" => Complete(ps), Return(ps)
  PROVE  Progress
<1> DEFINE r == [Nothing EXCEPT !.op = call.op, !.properties = ps]
<1>1. r.properties = ps /\ r.op = call.op
  BY DEF Nothing
<1>2. End(r)
  BY DEF Return
<1> HIDE DEF r
<1>3. ResultFits(r)
  BY <1>1 DEF ResultFits
<1>4. QED
  BY <1>2, <1>3 DEF Progress

LEMMA DescribingFits ==
  ASSUME NEW c \in CallRecord, c.op \in {"get", "list"}, c.todo # <<>>, Good(c.todo), Good(c.done),
         c.op = "list" => Complete(c.done \o c.todo)
  PROVE  CallFits(Describing(c))
<1> DEFINE n == Describing(c)
<1>1. n \in CallRecord /\ n.op = c.op /\ n.step # "first" /\ n.todo = c.todo /\ n.done = c.done
  BY DEF Describing, CallRecord
<1> HIDE DEF n
<1>2. CallFits(n)
  BY <1>1 DEF CallFits
<1>3. QED
  BY <1>2 DEF n

LEMMA DescribedFits ==
  ASSUME CallFits(call), call.step # "first", NEW p \in ItemRecord, ItemShown(p),
         p.code = Head(call.todo).code, Described(p)
  PROVE  Progress
<1> DEFINE c == [call EXCEPT !.todo = Tail(@), !.done = Append(@, p)]
<1>1. /\ call \in CallRecord /\ call.todo \in Seq(ItemRecord) /\ call.done \in Seq(ItemRecord)
      /\ call.todo # <<>> /\ call.op \in {"get", "list"} /\ Good(call.todo) /\ Good(call.done)
      /\ call.op = "list" => Complete(call.done \o call.todo)
  BY CallFields DEF CallFits
<1>2. Good(Tail(call.todo)) /\ Good(Append(call.done, p))
  BY <1>1, TailFits, AppendedFits
<1>3. call.op = "list" => Complete(Append(call.done, p) \o Tail(call.todo))
  <2> DEFINE a == call.done \o call.todo
             b == Append(call.done, p) \o Tail(call.todo)
  <2>1. DOMAIN a = DOMAIN b /\ \A i \in DOMAIN a : a[i].code = b[i].code
    BY <1>1, MovedOn
  <2> HIDE DEF a, b
  <2>2. Complete(a) => Complete(b)
    BY <2>1, SameCodes
  <2>3. QED
    BY <1>1, <2>2 DEF a, b
<1>4. /\ c \in CallRecord /\ c.op = call.op
      /\ c.todo = Tail(call.todo) /\ c.done = Append(call.done, p)
  <2>1. Tail(call.todo) \in Seq(ItemRecord) /\ Append(call.done, p) \in Seq(ItemRecord)
    BY <1>2 DEF Good
  <2>2. QED
    BY <1>1, <2>1 DEF CallRecord
<1>5. IF c.todo = <<>> THEN Return(c.done) ELSE Continue(Describing(c))
  BY DEF Described
<1> HIDE DEF c
<1>6. CASE c.todo = <<>>
  <2>1. Append(call.done, p) \o Tail(call.todo) = c.done
    <3>1. c.done \in Seq(ItemRecord)
      BY <1>2, <1>4 DEF Good
    <3>2. c.done \o <<>> = c.done
      BY <3>1
    <3>3. QED
      BY <1>4, <1>6, <3>2
  <2>2. call.op = "list" => Complete(c.done)
    BY <1>3, <2>1
  <2>3. QED
    BY <1>2, <1>4, <1>5, <1>6, <2>2, ReturnFits
<1>7. CASE c.todo # <<>>
  <2>1. CallFits(Describing(c))
    BY <1>1, <1>2, <1>3, <1>4, <1>7, DescribingFits
  <2>2. QED
    BY <1>5, <1>7, <2>1 DEF Progress
<1>8. QED
  BY <1>6, <1>7

LEMMA AcceptsFits ==
  ASSUME NEW p \in ItemRecord, ItemShown(p), NEW r, r.kind \in Kinds, r.blob \in Seq(Int),
         \E q \in shown[p.code] : q.kind = r.kind /\ q.values = r.blob
  PROVE  Accepts(p, r) \in ItemRecord /\ Accepts(p, r).code = p.code /\ ItemShown(Accepts(p, r))
<1> DEFINE a == [p EXCEPT !.kind = "undecoded"]
           b == [p EXCEPT !.kind = r.kind, !.values = r.blob]
<1>1. /\ a \in ItemRecord /\ a.code = p.code /\ a.value = p.value /\ a.text = p.text
      /\ a.kind = "undecoded"
  BY DEF ItemRecord
<1>2. ASSUME r.kind \in {"range", "enum"}
      PROVE  /\ b \in ItemRecord /\ b.code = p.code /\ b.value = p.value /\ b.text = p.text
             /\ b.kind = r.kind /\ b.values = r.blob
  BY <1>2 DEF ItemRecord
<1>3. \/ Accepts(p, r) = a /\ r.kind = "raw"
      \/ Accepts(p, r) = p
      \/ Accepts(p, r) = b /\ r.kind \in {"range", "enum"}
  <2>1. CASE r.kind = "raw"
    BY <2>1 DEF Accepts
  <2>2. CASE r.kind = "none" \/ (r.kind # "raw" /\ r.blob = <<>>)
    <3>1. r.blob = <<>> => Len(r.blob) # 3
      OBVIOUS
    <3>2. QED
      BY <2>2, <3>1 DEF Accepts
  <2>3. CASE r.kind = "range" /\ r.blob # <<>> /\ Len(r.blob) = 3
    BY <2>3 DEF Accepts
  <2>4. CASE r.kind = "range" /\ r.blob # <<>> /\ Len(r.blob) # 3
    BY <2>4 DEF Accepts
  <2>5. CASE r.kind = "enum" /\ r.blob # <<>>
    BY <2>5 DEF Accepts
  <2>6. QED
    BY <2>1, <2>2, <2>3, <2>4, <2>5 DEF Kinds
<1> HIDE DEF a, b
<1>4. ASSUME r.kind = "raw" PROVE ItemShown(a)
  BY <1>1, <1>4 DEF ItemShown, Reported
<1>5. ASSUME r.kind \in {"range", "enum"} PROVE ItemShown(b)
  BY <1>2, <1>5 DEF ItemShown, Reported
<1>6. QED
  BY <1>1, <1>2, <1>3, <1>4, <1>5

-----------------------------------------------------------------------------
(* Every failure is raised as one.                                         *)

LEMMA RaisedIsError ==
  ASSUME NEW s \in Status, s # "ok"
  PROVE  Raised(s) # "none"
<1>1. s \in {"not_found", "buffer_too_small", "invalid_handle", "not_connected", "busy",
             "adapter_busy", "adapter", "vendor"}
  BY ConstantsAssumption DEF Status, Refusal, Positive
<1>2. Checked(s) # "none"
  BY <1>1 DEF Checked, Positive
<1>3. Category(s) \in {"BUSY", "ADAPTER_PATH", "VENDOR", "STALE_HANDLE", "NOT_CONNECTED", "NOT_FOUND"}
  BY <1>1 DEF Category, Busy
<1>4. ToException[Category(s)] # "none"
  BY <1>3 DEF ToException
<1>5. QED
  BY <1>2, <1>4 DEF Raised

LEMMA ExchangeFailsFits ==
  ASSUME CallFits(call), NEW raised, raised # "none", ExchangeFails(raised)
  PROVE  Progress
<1>1. call \in CallRecord /\ call.step \in {"first", "string", "values"}
  BY CallFields DEF CallFits
<1>2. CASE call.step = "first"
  BY <1>2, FailFits DEF ExchangeFails
<1>3. CASE call.step = "string"
  <2> DEFINE c == [call EXCEPT !.step = "values"]
  <2>1. Continue(c)
    BY <1>3 DEF ExchangeFails
  <2>2. /\ c \in CallRecord /\ c.op = call.op /\ c.step = "values" /\ c.todo = call.todo
        /\ c.done = call.done
    BY <1>1 DEF CallRecord
  <2> HIDE DEF c
  <2>3. CallFits(c)
    BY <1>3, <2>2 DEF CallFits
  <2>4. QED
    BY <2>1, <2>3 DEF Progress
<1>4. CASE call.step = "values"
  <2> DEFINE p == Head(call.todo)
  <2>1. call.todo \in Seq(ItemRecord) /\ call.todo # <<>> /\ Good(call.todo)
    BY <1>4 DEF CallFits, Good
  <2>2. p \in ItemRecord /\ p = call.todo[1] /\ 1 \in DOMAIN call.todo
    BY <2>1, NextToDescribe
  <2>3. ItemShown(call.todo[1])
    BY <2>1, <2>2 DEF Good
  <2>4. Described(p)
    BY <1>4 DEF ExchangeFails
  <2>5. p \in ItemRecord /\ ItemShown(p) /\ p.code = Head(call.todo).code
    BY <2>2, <2>3
  <2> HIDE DEF p
  <2>6. QED
    BY <1>4, <2>4, <2>5, DescribedFits
<1>5. QED
  BY <1>1, <1>2, <1>3, <1>4

LEMMA UseFits ==
  ASSUME CallFits(call), ReplyFits(call, reply), Use
  PROVE  Progress
<1>1. call \in CallRecord /\ call.step \in {"first", "string", "values"}
  BY CallFields DEF CallFits
<1>2. CASE reply.status # "ok"
  <2>1. ExchangeFails(Raised(reply.status))
    BY <1>2 DEF Use
  <2>2. Raised(reply.status) # "none"
    BY <1>2, RaisedIsError DEF ReplyFits
  <2>3. QED
    BY <2>1, <2>2, ExchangeFailsFits
<1>3. CASE reply.status = "ok" /\ call.step = "string"
  <2> DEFINE p == [Head(call.todo) EXCEPT !.text = reply.text]
             t == <<p>> \o Tail(call.todo)
             c == [call EXCEPT !.step = "values", !.todo = t]
  <2>1. Continue(c)
    BY <1>3 DEF Use
  <2>2. /\ call.todo \in Seq(ItemRecord) /\ call.todo # <<>> /\ Good(call.todo) /\ Good(call.done)
        /\ call.done \in Seq(ItemRecord)
        /\ call.op # "set" /\ call.op = "list" => Complete(call.done \o call.todo)
    BY <1>3 DEF CallFits, Good
  <2>3. Head(call.todo) \in ItemRecord /\ ItemShown(Head(call.todo))
    BY <2>2, NextToDescribe DEF Good
  <2>4. p \in ItemRecord /\ p.code = Head(call.todo).code /\ ItemShown(p)
    <3>1. reply.text \in Nat /\ \E q \in shown[Head(call.todo).code] : q.text = reply.text
      BY <1>3 DEF ReplyFits
    <3>2. /\ p \in ItemRecord /\ p.code = Head(call.todo).code /\ p.value = Head(call.todo).value
          /\ p.kind = Head(call.todo).kind /\ p.values = Head(call.todo).values /\ p.text = reply.text
      BY <2>3, <3>1 DEF ItemRecord
    <3> HIDE DEF p
    <3>3. QED
      BY <2>3, <3>1, <3>2 DEF ItemShown, Reported
  <2> HIDE DEF p
  <2>5. t \in Seq(ItemRecord) /\ t # <<>> /\ DOMAIN t = DOMAIN call.todo
        /\ \A i \in DOMAIN t : t[i] = IF i = 1 THEN p ELSE call.todo[i]
    <3>1. /\ Tail(call.todo) \in Seq(ItemRecord) /\ Len(Tail(call.todo)) = Len(call.todo) - 1
          /\ \A i \in DOMAIN Tail(call.todo) : Tail(call.todo)[i] = call.todo[i + 1]
          /\ Len(call.todo) \in Nat /\ Len(call.todo) >= 1
      BY <2>2, NextToDescribe
    <3> DEFINE f == Tail(call.todo)
    <3>2. f \in Seq(ItemRecord) /\ Len(f) = Len(call.todo) - 1 /\ \A i \in DOMAIN f : f[i] = call.todo[i + 1]
      BY <3>1
    <3>3. t = <<p>> \o f
      OBVIOUS
    <3> HIDE DEF f, t
    <3>4. t \in Seq(ItemRecord) /\ Len(t) = 1 + Len(f) /\ t[1] = p
          /\ \A i \in 2..(1 + Len(f)) : t[i] = f[i - 1]
      BY <2>4, <3>2, <3>3
    <3>5. Len(t) = Len(call.todo) /\ DOMAIN t = 1..Len(call.todo) /\ DOMAIN call.todo = 1..Len(call.todo)
      BY <2>2, <3>1, <3>2, <3>4
    <3>6. \A i \in 2..Len(call.todo) : t[i] = call.todo[i]
      <4> SUFFICES ASSUME NEW i \in 2..Len(call.todo) PROVE t[i] = call.todo[i]
        OBVIOUS
      <4>1. i - 1 \in DOMAIN f /\ (i - 1) + 1 = i
        BY <3>1, <3>2
      <4>2. QED
        BY <3>1, <3>2, <3>4, <4>1
    <3>7. QED
      BY <3>1, <3>4, <3>5, <3>6
  <2>6. Good(t)
    BY <2>2, <2>4, <2>5 DEF Good
  <2>7. call.op = "list" => Complete(call.done \o t)
    <3> DEFINE a == call.done \o call.todo
               b == call.done \o t
    <3>1. DOMAIN a = DOMAIN b /\ \A i \in DOMAIN a : a[i].code = b[i].code
      <4>1. call.done \in Seq(ItemRecord) /\ call.todo \in Seq(ItemRecord) /\ t \in Seq(ItemRecord)
        BY <2>2, <2>5
      <4>2. \A i \in DOMAIN call.todo : call.todo[i].code = t[i].code
        <5>1. Head(call.todo) = call.todo[1]
          BY <2>2, NextToDescribe
        <5>2. QED
          BY <2>4, <2>5, <5>1
      <4>3. QED
        BY <2>5, <4>1, <4>2, SameJoined
    <3> HIDE DEF a, b
    <3>2. Complete(a) => Complete(b)
      BY <3>1, SameCodes
    <3>3. QED
      BY <2>2, <3>2 DEF a, b
  <2> HIDE DEF t
  <2>8. c \in CallRecord /\ c.op = call.op /\ c.step = "values" /\ c.todo = t /\ c.done = call.done
    BY <1>1, <2>5 DEF CallRecord
  <2> HIDE DEF c
  <2>9. CallFits(c)
    BY <2>2, <2>5, <2>6, <2>7, <2>8 DEF CallFits
  <2>10. QED
    BY <2>1, <2>9 DEF Progress
<1>4. CASE reply.status = "ok" /\ call.step = "values"
  <2> DEFINE h == Head(call.todo)
             p == Accepts(h, reply)
  <2>1. call.todo \in Seq(ItemRecord) /\ call.todo # <<>> /\ Good(call.todo)
    BY <1>4 DEF CallFits, Good
  <2>2. h \in ItemRecord /\ ItemShown(h)
    BY <2>1, NextToDescribe DEF Good
  <2>3. /\ reply.kind \in Kinds /\ reply.blob \in Seq(Int)
        /\ \E q \in shown[h.code] : q.kind = reply.kind /\ q.values = reply.blob
    BY <1>4 DEF ReplyFits
  <2>4. Described(p)
    BY <1>4 DEF Use
  <2> HIDE DEF h
  <2>5. p \in ItemRecord /\ p.code = h.code /\ ItemShown(p)
    BY <2>2, <2>3, AcceptsFits
  <2> HIDE DEF p
  <2>6. p.code = Head(call.todo).code
    BY <2>5 DEF h
  <2>7. QED
    BY <1>4, <2>4, <2>5, <2>6, DescribedFits
<1>5. CASE reply.status = "ok" /\ call.step = "first"
  <2>1. Good(reply.blob) /\ (call.op = "list" => Complete(reply.blob)) /\ (call.op = "set" => reply.blob = <<>>)
    BY <1>5 DEF ReplyFits
  <2>2. CASE Hosted /\ reply.blob # <<>>
    <3> DEFINE c == [call EXCEPT !.todo = reply.blob]
    <3>1. Continue(Describing(c))
      BY <1>5, <2>2 DEF Use
    <3>2. reply.blob \in Seq(ItemRecord) /\ call.done = <<>> /\ call.op \in {"get", "list"}
      BY <1>1, <1>5, <2>1, <2>2, CallFields DEF Good, CallFits
    <3>3. c \in CallRecord /\ c.op = call.op /\ c.todo = reply.blob /\ c.done = <<>>
      BY <1>1, <3>2 DEF CallRecord
    <3> HIDE DEF c
    <3>4. <<>> \o reply.blob = reply.blob
      BY <3>2
    <3>5. Good(<<>>)
      BY DEF Good
    <3>6. CallFits(Describing(c))
      BY <2>1, <2>2, <3>2, <3>3, <3>4, <3>5, DescribingFits
    <3>7. QED
      BY <3>1, <3>6 DEF Progress
  <2>3. CASE ~(Hosted /\ reply.blob # <<>>)
    <3>1. Return(reply.blob)
      BY <1>5, <2>3 DEF Use
    <3>2. QED
      BY <2>1, <3>1, ReturnFits
  <2>4. QED
    BY <2>2, <2>3
<1>6. QED
  BY <1>1, <1>2, <1>3, <1>4, <1>5

-----------------------------------------------------------------------------
(* The answers of the bridge fit the call.                                 *)

LEMMA RequestFacts ==
  ASSUME CallFits(call), request = Request
  PROVE  /\ request.op \in {"get", "list", "set"} => call.step = "first" /\ call.op = request.op
         /\ request.op \in {"get", "set"} => request.u32 = call.code
         /\ request.op = "set" => request.i32 = Low(call.value) /\ request.i32_2 = High(call.value)
         /\ request.op \in {"string", "values"} =>
              /\ call.step = request.op /\ request.u32 = Head(call.todo).code /\ request.i32 = 0
<1>1. call.op \in {"get", "list", "set"} /\ call.step \in {"first", "string", "values"}
  BY CallFields DEF CallFits
<1>2. CASE call.step = "first" /\ call.op = "set"
  <2>1. request = [op |-> "set", u32 |-> call.code, i32 |-> Low(call.value), i32_2 |-> High(call.value)]
    BY <1>2 DEF Request
  <2>2. QED
    BY <1>2, <2>1
<1>3. CASE call.step = "first" /\ call.op # "set"
  <2>1. request = [op |-> call.op, u32 |-> call.code, i32 |-> 0, i32_2 |-> 0]
    BY <1>3 DEF Request, NoRequest
  <2>2. QED
    BY <1>1, <1>3, <2>1
<1>4. CASE call.step # "first"
  <2>1. request = [op |-> call.step, u32 |-> Head(call.todo).code, i32 |-> 0, i32_2 |-> 0]
    BY <1>4 DEF Request, NoRequest
  <2>2. QED
    BY <1>1, <1>4, <2>1
<1>5. QED
  BY <1>2, <1>3, <1>4

LEMMA PlainFits ==
  ASSUME NEW c, NEW s \in Status, s # "ok"
  PROVE  ReplyFits(c, [NoReply EXCEPT !.status = s])
  BY DEF ReplyFits, NoReply

LEMMA FetchedFits ==
  ASSUME Types, CallFits(call), request = Request, Sizable
  PROVE  ReplyFits(call, Fetched)
<1>1. CASE request.op = "list"
  <2>1. call.step = "first" /\ call.op = "list"
    BY <1>1, RequestFacts
  <2>2. Fetched = [status |-> "ok", kind |-> "none", text |-> 0, blob |-> PropertyArray]
    BY <1>1 DEF Fetched, NoReply
  <2>3. Good(PropertyArray) /\ Complete(PropertyArray)
    BY ArrayFits
  <2>4. Len(PropertyArray) \in Nat
    BY <2>3 DEF Good
  <2> HIDE DEF PropertyArray
  <2>5. QED
    BY <2>1, <2>2, <2>3, <2>4 DEF ReplyFits, Status
<1>2. CASE request.op \in {"string", "values"} /\ There(CodeAsked)
  <2>1. call.step = request.op /\ request.u32 = Head(call.todo).code /\ request.i32 = 0
    BY <1>2, RequestFacts
  <2>2. CodeAsked \in Codes
    BY <1>2 DEF There
  <2>3. CodeAsked = Head(call.todo).code
    BY <2>1, <2>2, ConstantsAssumption DEF CodeAsked
  <2> DEFINE q == camera[CodeAsked]
  <2>4. /\ q \in shown[Head(call.todo).code] /\ q.text \in Nat /\ q.kind \in Kinds
        /\ q.values \in Seq(Int) /\ Len(q.values) \in Nat
    BY <2>2, <2>3, CameraFacts
  <2>5. CASE request.op = "string"
    <3>1. Fetched = [status |-> "ok", kind |-> "none", text |-> q.text, blob |-> <<>>]
      BY <2>5 DEF Fetched, NoReply
    <3> HIDE DEF q
    <3>2. QED
      BY <2>1, <2>4, <2>5, <3>1 DEF ReplyFits, Status
  <2>6. CASE request.op = "values"
    <3>1. Fetched = [status |-> "ok", kind |-> q.kind, text |-> 0, blob |-> q.values]
      BY <2>6 DEF Fetched, NoReply
    <3> HIDE DEF q
    <3>2. QED
      BY <2>1, <2>4, <2>6, <3>1 DEF ReplyFits, Status
  <2>7. QED
    BY <1>2, <2>5, <2>6
<1>3. QED
  BY <1>1, <1>2 DEF Sizable

LEMMA GetFits ==
  ASSUME Types, CallFits(call), request = Request, request.op = "get", There(request.u32)
  PROVE  ReplyFits(call, [NoReply EXCEPT !.blob = <<Item(request.u32)>>])
<1> DEFINE s == <<Item(request.u32)>>
           r == [NoReply EXCEPT !.blob = s]
<1>1. call.step = "first" /\ call.op = "get"
  BY RequestFacts
<1>2. Item(request.u32) \in ItemRecord /\ ItemShown(Item(request.u32))
  BY ItemIsShown DEF There
<1>3. Len(s) = 1 /\ s \in Seq(ItemRecord) /\ DOMAIN s = {1} /\ s[1] = Item(request.u32)
  BY <1>2
<1> HIDE DEF s
<1>4. r.status = "ok" /\ r.blob = s
  BY DEF NoReply
<1>5. Good(s)
  BY <1>2, <1>3 DEF Good
<1> HIDE DEF r
<1>6. ReplyFits(call, r)
  BY <1>1, <1>3, <1>4, <1>5 DEF ReplyFits, Status
<1>7. QED
  BY <1>6 DEF r, s

-----------------------------------------------------------------------------
(* The steps.                                                              *)

\* An exchange that ended leaves the invariant as it was.
LEMMA ProgressKeeps ==
  ASSUME IInv, Progress, UNCHANGED <<path, alive, camera, shown, written>>,
         crashed' \in BOOLEAN, pipe' = <<>>
  PROVE  IInv'
<1>0. ShownGrows
  BY DEF ShownGrows
<1>1. CASE \E r : End(r) /\ ResultFits(r)
  <2>1. PICK r : End(r) /\ ResultFits(r)
    BY <1>1
  <2>2. pc' = "idle" /\ result' = r /\ got' = <<>> /\ capacity' = 0
    BY <2>1 DEF End
  <2>3. ResultFits(r)'
    <3>1. Good(r.properties)'
      BY <1>0, <2>1, GoodStays DEF ResultFits
    <3>2. r.op = "list" /\ r.raised = "none" => Complete(r.properties)'
      BY <1>0, <2>1, CompleteStays DEF ResultFits
    <3>3. QED
      BY <3>1, <3>2 DEF ResultFits
  <2>4. Types'
    BY <2>2 DEF IInv, Types
  <2>5. ResultInv'
    BY <2>2, <2>3 DEF ResultInv
  <2>6. CallInv' /\ RequestInv' /\ ReplyInv' /\ FrameInv'
    BY <2>2 DEF CallInv, RequestInv, ReplyInv, FrameInv
  <2>7. SetReachesCamera'
    BY DEF IInv, SetReachesCamera
  <2>8. QED
    BY <2>4, <2>5, <2>6, <2>7 DEF IInv
<1>2. CASE \E c : Continue(c) /\ CallFits(c)
  <2>1. PICK c : Continue(c) /\ CallFits(c)
    BY <1>2
  <2>2. pc' = "ready" /\ call' = c /\ result' = result /\ got' = <<>> /\ capacity' = 0
    BY <2>1 DEF Continue
  <2>3. CallFits(c)'
    BY <1>0, <2>1, CallStays
  <2>4. CallInv'
    BY <2>2, <2>3 DEF CallInv
  <2>5. Types'
    BY <2>2 DEF IInv, Types
  <2>6. RequestInv' /\ ReplyInv' /\ FrameInv'
    BY <2>2 DEF RequestInv, ReplyInv, FrameInv
  <2>7. SetReachesCamera'
    BY DEF IInv, SetReachesCamera
  <2>8. ResultInv'
    BY <1>0, <2>2, ResultStays DEF IInv
  <2>9. QED
    BY <2>4, <2>5, <2>6, <2>7, <2>8 DEF IInv
<1>3. QED
  BY <1>1, <1>2 DEF Progress

\* What does not touch a call under way leaves what it has alone, as long as
\* nothing that was reported is forgotten.
LEMMA CallKeeps ==
  ASSUME IInv, ShownGrows, UNCHANGED <<pc, call, request, reply, result>>
  PROVE  CallInv' /\ RequestInv' /\ ReplyInv' /\ ResultInv'
<1>1. ResultInv'
  BY ResultStays DEF IInv
<1>2. RequestInv'
  BY DEF IInv, RequestInv, Request
<1>3. PICK c : c = call
  OBVIOUS
<1>4. PICK r : r = reply
  OBVIOUS
<1>5. CallInv'
  <2>1. pc # "idle" => CallFits(c)'
    BY <1>3, CallStays DEF IInv, CallInv
  <2>2. call' = c /\ pc' = pc
    BY <1>3
  <2>3. QED
    BY <2>1, <2>2 DEF CallInv
<1>6. ReplyInv'
  <2>1. pc \in {"reading", "answered"} => CallFits(c) /\ ReplyFits(c, r)
    BY <1>3, <1>4 DEF IInv, CallInv, ReplyInv
  <2>2. pc \in {"reading", "answered"} => ReplyFits(c, r)'
    BY <2>1, ReplyStays
  <2>3. call' = c /\ pc' = pc /\ reply' = r
    BY <1>3, <1>4
  <2>4. QED
    BY <2>2, <2>3 DEF ReplyInv
<1>7. QED
  BY <1>1, <1>2, <1>5, <1>6

LEMMA CameraChangesKeeps == IInv /\ CameraChanges => IInv'
<1> SUFFICES ASSUME IInv, CameraChanges PROVE IInv'
  OBVIOUS
<1>0. PICK c \in Codes : \E r \in Records[c] : /\ camera' = [camera EXCEPT ![c] = r]
                                              /\ shown' = [shown EXCEPT ![c] = @ \cup {r}]
  BY DEF CameraChanges
<1>1. PICK r \in Records[c] : /\ camera' = [camera EXCEPT ![c] = r]
                             /\ shown' = [shown EXCEPT ![c] = @ \cup {r}]
  BY <1>0
<1>2. r \in CameraRecord
  BY ConstantsAssumption
<1>3. UNCHANGED <<path, alive, crashed, calls, call, result, pc, request, capacity, reply, pipe, got, written>>
  BY DEF CameraChanges, process, client, wire
<1>4. Types'
  <2>1. /\ path' \in Paths /\ alive' \in BOOLEAN /\ crashed' \in BOOLEAN /\ capacity' \in Nat
        /\ pc' \in {"idle", "ready", "sent", "sized", "reading", "answered"}
    BY <1>3 DEF IInv, Types
  <2>2. camera' \in [Codes -> CameraRecord]
    BY <1>1, <1>2 DEF IInv, Types
  <2>3. shown' \in [Codes -> SUBSET CameraRecord]
    BY <1>1, <1>2 DEF IInv, Types
  <2>4. ASSUME NEW d \in Codes PROVE camera'[d] \in shown'[d]
    BY <1>1 DEF IInv, Types
  <2>5. QED
    BY <2>1, <2>2, <2>3, <2>4 DEF Types
<1>5. ShownGrows
  BY <1>1 DEF ShownGrows, IInv, Types
<1>6. CallInv' /\ RequestInv' /\ ReplyInv' /\ ResultInv'
  BY <1>3, <1>5, CallKeeps
<1>7. FrameInv'
  BY <1>3 DEF IInv, FrameInv, Framed, Total
<1>8. SetReachesCamera'
  BY <1>3 DEF IInv, SetReachesCamera
<1>9. QED
  BY <1>4, <1>6, <1>7, <1>8 DEF IInv

LEMMA CutShort ==
  ASSUME NEW R, NEW s \in Seq(R), NEW n \in 0..Len(s)
  PROVE  /\ SubSeq(s, 1, n) \in Seq(R) /\ Len(SubSeq(s, 1, n)) = n /\ n \in Nat
         /\ DOMAIN SubSeq(s, 1, n) = 1..n /\ 1..n \subseteq DOMAIN s
         /\ \A k \in 1..n : SubSeq(s, 1, n)[k] = s[k]
<1> DEFINE a == SubSeq(s, 1, n)
<1>1. a \in Seq(R) /\ Len(a) = n /\ n \in Nat /\ \A k \in 1..n : a[k] = s[k]
  OBVIOUS
<1>2. 1..n \subseteq DOMAIN s
  OBVIOUS
<1> HIDE DEF a
<1>3. DOMAIN a = 1..n
  BY <1>1
<1>4. QED
  BY <1>1, <1>2, <1>3 DEF a

LEMMA HelperDiesKeeps == IInv /\ HelperDies => IInv'
<1> SUFFICES ASSUME IInv, HelperDies PROVE IInv'
  OBVIOUS
<1>1. PICK n \in 0..Len(pipe) : pipe' = SubSeq(pipe, 1, n)
  BY DEF HelperDies
<1>2. alive' = FALSE
  BY DEF HelperDies
<1>3. UNCHANGED <<path, camera, crashed, calls, call, result, pc, request, capacity, reply, got, written, shown>>
  BY DEF HelperDies, device, client
<1>4. Types'
  BY <1>2, <1>3 DEF IInv, Types
<1>5. ShownGrows
  BY <1>3 DEF ShownGrows
<1>6. CallInv' /\ RequestInv' /\ ReplyInv' /\ ResultInv'
  BY <1>3, <1>5, CallKeeps
<1>7. pipe = <<>> => pipe' = <<>>
  BY <1>1
<1>8. FrameInv'
  <2>1. pc' # "reading" => FrameInv'
    BY <1>3, <1>7 DEF IInv, FrameInv
  <2>2. ASSUME pc = "reading" PROVE Framed'
    <3>1. pipe \in Seq(Unit) /\ got \in Seq(Unit)
      BY <2>2 DEF IInv, FrameInv, Framed
    <3>1a. pipe \in Seq(Unit)
      BY <3>1
    <3>2. /\ pipe' \in Seq(Unit) /\ Len(pipe') = n /\ n \in Nat
          /\ DOMAIN pipe' = 1..n /\ 1..n \subseteq DOMAIN pipe
          /\ \A k \in 1..n : pipe'[k] = pipe[k]
      <4> DEFINE cut == SubSeq(pipe, 1, n)
      <4>1. /\ cut \in Seq(Unit) /\ Len(cut) = n /\ n \in Nat
            /\ DOMAIN cut = 1..n /\ 1..n \subseteq DOMAIN pipe
            /\ \A k \in 1..n : cut[k] = pipe[k]
        BY <1>1, <3>1a, CutShort
      <4>2. pipe' = cut
        BY <1>1
      <4> HIDE DEF cut
      <4>3. QED
        BY <4>1, <4>2
    <3>3. /\ Len(got) + Len(pipe) <= Total /\ \A k \in DOMAIN got : got[k].total = Total
          /\ \A k \in DOMAIN pipe : pipe[k].total = Total
      BY <2>2 DEF IInv, FrameInv, Framed
    <3>4. Total' = Total /\ got' = got
      BY <1>3 DEF Total
    <3>5. Total \in Nat
      BY <2>2 DEF IInv, ReplyInv, ReplyFits, Total
    <3>6. Len(got) + n <= Total
      <4>1. Len(got) \in Nat /\ Len(pipe) \in Nat
        BY <3>1
      <4>2. QED
        BY <3>3, <3>5, <4>1
    <3>7. /\ got' \in Seq(Unit) /\ Len(got') + Len(pipe') <= Total'
          /\ \A k \in DOMAIN got' : got'[k].total = Total'
          /\ \A k \in DOMAIN pipe' : pipe'[k].total = Total'
      BY <3>1, <3>2, <3>3, <3>4, <3>6
    <3>8. QED
      BY <1>2, <3>2, <3>7 DEF Framed
  <2>3. QED
    BY <1>3, <2>1, <2>2 DEF FrameInv
<1>9. SetReachesCamera'
  BY <1>3 DEF IInv, SetReachesCamera
<1>10. QED
  BY <1>4, <1>6, <1>8, <1>9 DEF IInv

LEMMA BeginKeeps ==
  ASSUME IInv, NEW op \in {"get", "list", "set"}, NEW code \in Codes \cup {0}, NEW value \in Int,
         Begin(op, code, value)
  PROVE  IInv'
<1> DEFINE c == [NoCall EXCEPT !.op = op, !.code = code, !.value = value]
<1>1. pc = "idle" /\ pc' = "ready" /\ call' = c /\ result' = Nothing /\ shown' = [d \in Codes |-> {camera[d]}]
  BY DEF Begin
<1>2. UNCHANGED <<path, camera, alive, crashed, request, capacity, reply, pipe, got, written>>
  BY DEF Begin, device, process, wire
<1>3. /\ c \in CallRecord /\ c.op = op /\ c.step = "first" /\ c.todo = <<>> /\ c.done = <<>>
  <2>1. <<>> \in Seq(ItemRecord)
    OBVIOUS
  <2>2. NoCall \in CallRecord
    BY <2>1 DEF NoCall, CallRecord
  <2>3. NoCall.step = "first" /\ NoCall.todo = <<>> /\ NoCall.done = <<>>
    BY DEF NoCall
  <2>4. QED
    BY <2>2, <2>3 DEF CallRecord
<1> HIDE DEF c
<1>4. Good(<<>>)'
  BY DEF Good
<1>5. CallFits(c)'
  BY <1>3, <1>4 DEF CallFits
<1>6. CallInv'
  BY <1>1, <1>5 DEF CallInv
<1>7. ResultInv'
  <2>1. result'.properties = <<>> /\ result'.op = "none"
    BY <1>1 DEF Nothing
  <2>2. QED
    BY <1>4, <2>1 DEF ResultInv, ResultFits
<1>8. Types'
  BY <1>1, <1>2 DEF IInv, Types
<1>9. RequestInv' /\ ReplyInv' /\ FrameInv'
  BY <1>1, <1>2 DEF IInv, RequestInv, ReplyInv, FrameInv
<1>10. SetReachesCamera'
  BY <1>2 DEF IInv, SetReachesCamera
<1>11. QED
  BY <1>6, <1>7, <1>8, <1>9, <1>10 DEF IInv

LEMMA SendKeeps == IInv /\ Send => IInv'
<1> SUFFICES ASSUME IInv, Send PROVE IInv'
  OBVIOUS
<1>1. pc = "ready" /\ pc' = "sent" /\ request' = Request
  BY DEF Send
<1>2. UNCHANGED <<path, camera, alive, crashed, call, result, capacity, reply, pipe, got, written, shown>>
  BY DEF Send, device, process, client, wire
<1>3. RequestInv'
  BY <1>1, <1>2 DEF RequestInv, Request
<1>4. ShownGrows
  BY <1>2 DEF ShownGrows
<1>5. CallInv'
  <2>1. PICK c : c = call
    OBVIOUS
  <2>2. CallFits(c)'
    BY <1>1, <1>4, <2>1, CallStays DEF IInv, CallInv
  <2>3. call' = c
    BY <1>2, <2>1
  <2>4. QED
    BY <2>2, <2>3 DEF CallInv
<1>6. ResultInv'
  BY <1>2, <1>4, ResultStays DEF IInv
<1>7. Types' /\ ReplyInv' /\ FrameInv' /\ SetReachesCamera'
  BY <1>1, <1>2 DEF IInv, Types, ReplyInv, FrameInv, SetReachesCamera
<1>8. QED
  BY <1>3, <1>5, <1>6, <1>7 DEF IInv

LEMMA FailsKeeps == IInv /\ (SendFails \/ StreamEnds \/ Use) => IInv'
<1>1. ASSUME IInv, SendFails PROVE IInv'
  <2>1. pc = "ready" /\ crashed' = TRUE /\ ExchangeFails("BackendError")
        /\ UNCHANGED <<path, camera, alive, pipe, written, shown>>
    BY <1>1 DEF SendFails, device
  <2>2. Progress
    BY <1>1, <2>1, ExchangeFailsFits DEF IInv, CallInv
  <2>3. pipe' = <<>>
    BY <1>1, <2>1 DEF IInv, FrameInv
  <2>4. QED
    BY <1>1, <2>1, <2>2, <2>3, ProgressKeeps
<1>2. ASSUME IInv, StreamEnds PROVE IInv'
  <2>1. pc # "idle" /\ crashed' = TRUE /\ ExchangeFails("BackendError") /\ pipe' = <<>>
        /\ UNCHANGED <<path, camera, alive, written, shown>>
    BY <1>2 DEF StreamEnds, Torn, device
  <2>2. Progress
    BY <1>2, <2>1, ExchangeFailsFits DEF IInv, CallInv
  <2>3. QED
    BY <1>2, <2>1, <2>2, ProgressKeeps
<1>3. ASSUME IInv, Use PROVE IInv'
  <2>1. pc = "answered" /\ UNCHANGED <<path, camera, alive, crashed, pipe, written, shown>>
    BY <1>3 DEF Use, device, process
  <2>2. Progress
    BY <1>3, <2>1, UseFits DEF IInv, CallInv, ReplyInv
  <2>3. pipe' = <<>> /\ crashed' \in BOOLEAN
    BY <1>3, <2>1 DEF IInv, FrameInv, Types
  <2>4. QED
    BY <1>3, <2>1, <2>2, <2>3, ProgressKeeps
<1>4. QED
  BY <1>1, <1>2, <1>3

LEMMA ExtentNat ==
  ASSUME Types, Sizable
  PROVE  Extent \in Nat
<1>1. CASE request.op = "list"
  <2>1. IsFiniteSet({c \in Codes : There(c)})
    BY ConstantsAssumption, FS_Subset
  <2>2. QED
    BY <1>1, <2>1, FS_CardinalityType DEF Extent
<1>2. CASE request.op \in {"string", "values"} /\ There(CodeAsked)
  <2>1. CodeAsked \in Codes
    BY <1>2 DEF There
  <2>2. camera[CodeAsked].text \in Nat /\ camera[CodeAsked].values \in Seq(Int)
    BY <2>1, CameraFacts
  <2>3. Len(camera[CodeAsked].values) \in Nat
    BY <2>2
  <2>4. QED
    BY <1>2, <2>2, <2>3 DEF Extent
<1>3. QED
  BY <1>1, <1>2 DEF Sizable

\* An answer to the call: what it brings fits, and its frame is on its way.
LEMMA AnswerKeeps ==
  ASSUME IInv, pc \in {"sent", "sized"}, NEW r, Answer(r), ReplyFits(call, r), ShownGrows, Types',
         SetReachesCamera'
  PROVE  IInv'
<1>1. /\ reply' = r /\ pc' = (IF Hosted THEN "reading" ELSE "answered")
      /\ UNCHANGED <<path, alive, crashed, call, result, request, capacity, got>>
  BY DEF Answer, process, client
<1>2. PICK c : c = call
  OBVIOUS
<1>3. call' = c /\ CallFits(c) /\ ReplyFits(c, r)
  BY <1>1, <1>2 DEF IInv, CallInv
<1>4. CallFits(c)' /\ ReplyFits(c, r)'
  BY <1>3, CallStays, ReplyStays
<1>5. CallInv'
  BY <1>3, <1>4 DEF CallInv
<1>6. ReplyInv'
  BY <1>1, <1>3, <1>4 DEF ReplyInv
<1>7. RequestInv'
  BY <1>1 DEF IInv, RequestInv, Request
<1>8. ResultInv'
  BY <1>1, ResultStays DEF IInv
<1>9. FrameInv'
  <2>1. pipe = <<>> /\ got = <<>>
    BY DEF IInv, FrameInv
  <2>2. CASE ~Hosted
    <3>1. pc' = "answered" /\ pipe' = <<>>
      BY <1>1, <2>1, <2>2 DEF Answer
    <3>2. QED
      BY <3>1 DEF FrameInv
  <2>3. CASE Hosted
    <3> DEFINE u == Units(r)
               n == 3 + Len(r.blob)
    <3>1. Len(r.blob) \in Nat /\ n \in Nat
      BY <1>3 DEF ReplyFits
    <3>2. u = [k \in 1..n |-> [at |-> k, total |-> n]]
      BY DEF Units
    <3> HIDE DEF u, n
    <3>3. \A k \in 1..n : [at |-> k, total |-> n] \in Unit
      BY <3>1 DEF Unit
    <3>4. u \in Seq(Unit) /\ Len(u) = n /\ DOMAIN u = 1..n
      <4>1. u \in [1..n -> Unit]
        BY <3>2, <3>3
      <4>2. QED
        BY <3>1, <4>1
    <3>5. \A k \in DOMAIN u : u[k].total = n
      BY <3>2, <3>4
    <3>6. pipe' = u
      <4>1. pipe' = <<>> \o u
        BY <2>1, <2>3 DEF Answer, u
      <4>2. QED
        BY <3>4, <4>1
    <3>7. pc' = "reading" /\ got' = <<>> /\ Total' = n
      BY <1>1, <2>1, <2>3 DEF Total, n
    <3>8. Len(got') + Len(pipe') = Total'
      BY <3>1, <3>4, <3>6, <3>7
    <3>9. got' \in Seq(Unit) /\ DOMAIN got' = {}
      BY <3>7
    <3>10. Framed'
      BY <3>1, <3>4, <3>5, <3>6, <3>7, <3>8, <3>9 DEF Framed
    <3>11. QED
      BY <3>7, <3>10 DEF FrameInv
  <2>4. QED
    BY <2>2, <2>3
<1>10. QED
  BY <1>5, <1>6, <1>7, <1>8, <1>9 DEF IInv

\* An answer that changes neither the camera nor the call.
LEMMA PlainAnswerKeeps ==
  ASSUME IInv, pc \in {"sent", "sized"}, NEW r, Answer(r), ReplyFits(call, r),
         UNCHANGED <<camera, written, shown>>
  PROVE  IInv'
<1>1. ShownGrows
  BY DEF ShownGrows
<1>2. Types'
  BY DEF IInv, Types, Answer, process
<1>3. SetReachesCamera'
  BY DEF IInv, SetReachesCamera
<1>4. QED
  BY <1>1, <1>2, <1>3, AnswerKeeps

LEMMA ServeKeeps ==
  IInv /\ (ServeFails \/ ServeMissing \/ ServeGet \/ ServeAtOnce \/ ServeFetch) => IInv'
<1> SUFFICES ASSUME IInv, ServeFails \/ ServeMissing \/ ServeGet \/ ServeAtOnce \/ ServeFetch PROVE IInv'
  OBVIOUS
<1>1. /\ pc \in {"sent", "sized"} /\ UNCHANGED <<camera, written, shown>>
  BY DEF ServeFails, ServeMissing, ServeGet, ServeAtOnce, ServeFetch, Serving
<1>2. Types /\ CallFits(call) /\ request = Request
  BY <1>1 DEF IInv, CallInv, RequestInv
<1>3. "not_found" \in Status /\ "buffer_too_small" \in Status /\ Refusals \subseteq Status /\ "ok" \notin Refusals
  BY ConstantsAssumption DEF Status, Refusal, Positive
<1>4. CASE ServeFails
  <2>1. PICK s \in Refusals : Answer([NoReply EXCEPT !.status = s])
    BY <1>4 DEF ServeFails
  <2>2. ReplyFits(call, [NoReply EXCEPT !.status = s])
    BY <1>3, PlainFits
  <2>3. QED
    BY <1>1, <2>1, <2>2, PlainAnswerKeeps
<1>5. CASE ServeMissing
  <2>1. Answer([NoReply EXCEPT !.status = "not_found"])
    BY <1>5 DEF ServeMissing
  <2>2. ReplyFits(call, [NoReply EXCEPT !.status = "not_found"])
    BY <1>3, PlainFits
  <2>3. QED
    BY <1>1, <2>1, <2>2, PlainAnswerKeeps
<1>6. CASE ServeGet
  <2>1. Answer([NoReply EXCEPT !.blob = <<Item(request.u32)>>]) /\ request.op = "get" /\ There(request.u32)
    BY <1>6 DEF ServeGet
  <2>2. ReplyFits(call, [NoReply EXCEPT !.blob = <<Item(request.u32)>>])
    BY <1>2, <2>1, GetFits
  <2>3. QED
    BY <1>1, <2>1, <2>2, PlainAnswerKeeps
<1>7. CASE ServeAtOnce
  <2>1. Answer(Fetched) /\ Sizable
    BY <1>7 DEF ServeAtOnce
  <2>2. ReplyFits(call, Fetched)
    BY <1>2, <2>1, FetchedFits
  <2>3. QED
    BY <1>1, <2>1, <2>2, PlainAnswerKeeps
<1>8. CASE ServeFetch
  <2>1. \/ Answer([NoReply EXCEPT !.status = "not_found"])
        \/ Answer([NoReply EXCEPT !.status = "buffer_too_small"])
        \/ Sizable /\ Answer(Fetched)
    <3> DEFINE a == [NoReply EXCEPT !.status = "not_found"]
               b == [NoReply EXCEPT !.status = "buffer_too_small"]
               r == CASE ~Sizable -> a
                      [] Sizable /\ Extent > capacity -> b
                      [] Sizable /\ Extent <= capacity -> Fetched
    <3>1. Answer(r)
      BY <1>8 DEF ServeFetch
    <3> HIDE DEF a, b
    <3>2. CASE ~Sizable
      <4>1. r = a
        BY <3>2
      <4>2. QED
        BY <3>1, <4>1 DEF a
    <3>3. CASE Sizable /\ Extent > capacity
      <4>1. r = b
        <5>1. ~(Extent <= capacity)
          BY <3>3, ExtentNat, <1>2 DEF Types
        <5>2. QED
          BY <3>3, <5>1
      <4>2. QED
        BY <3>1, <4>1 DEF b
    <3>4. CASE Sizable /\ ~(Extent > capacity)
      <4>1. r = Fetched
        <5>1. Extent <= capacity
          BY <3>4, ExtentNat, <1>2 DEF Types
        <5>2. QED
          BY <3>4, <5>1
      <4>2. QED
        BY <3>1, <3>4, <4>1
    <3>5. QED
      BY <3>2, <3>3, <3>4
  <2>2. /\ ReplyFits(call, [NoReply EXCEPT !.status = "not_found"])
        /\ ReplyFits(call, [NoReply EXCEPT !.status = "buffer_too_small"])
        /\ Sizable => ReplyFits(call, Fetched)
    BY <1>2, <1>3, PlainFits, FetchedFits
  <2>3. QED
    BY <1>1, <2>1, <2>2, PlainAnswerKeeps
<1>9. QED
  BY <1>4, <1>5, <1>6, <1>7, <1>8

\* A value is set: what went into the slots came out of them.
LEMMA ServeSetKeeps == IInv /\ ServeSet => IInv'
<1> SUFFICES ASSUME IInv, ServeSet PROVE IInv'
  OBVIOUS
<1>1. Types /\ CallFits(call) /\ request = Request /\ pc \in {"sent", "sized"}
  BY DEF IInv, CallInv, RequestInv, ServeSet, Serving
<1>2. /\ request.u32 \in Codes /\ request.i32 = Low(call.value) /\ request.i32_2 = High(call.value)
      /\ call.step = "first" /\ call.op = "set" /\ call.value \in Int
  BY <1>1, RequestFacts, CallFields DEF ServeSet, There, CallFits
<1> DEFINE v == Joined(Low(call.value), High(call.value))
           c == request.u32
           q == [camera[c] EXCEPT !.value = v]
<1>3. /\ written' = [asked |-> call.value, set |-> v]
      /\ camera' = [camera EXCEPT ![c] = q]
      /\ shown' = [shown EXCEPT ![c] = @ \cup {q}]
  BY <1>2 DEF ServeSet, Wrapped
<1>4. Answer(NoReply)
  BY DEF ServeSet
<1>5. v \in Int
  <2>1. Low(call.value) \in Int /\ High(call.value) \in Int
    <3>1. \A n \in Int : Signed(n) \in Int
      BY Sizes, DivMod DEF Signed
    <3>2. call.value \div SlotSize \in Int
      BY <1>2, Sizes, DivMod
    <3>3. QED
      BY <1>2, <3>1, <3>2 DEF Low, High
  <2>2. Low(call.value) % SlotSize \in Int
    BY <2>1, Sizes, DivMod
  <2>3. QED
    BY <2>1, <2>2, Sizes DEF Joined
<1>6. SetReachesCamera'
  <2>1. call.value \in Whole => v = call.value
    BY JoinedBack
  <2> HIDE DEF v
  <2>2. written'.asked = call.value /\ written'.set = v
    BY <1>3
  <2>3. QED
    BY <2>1, <2>2 DEF SetReachesCamera
<1> HIDE DEF v
<1>7. q \in CameraRecord
  BY <1>1, <1>2, <1>5, CameraFacts DEF CameraRecord
<1> HIDE DEF q
<1>8. Types'
  <2>1. /\ path' \in Paths /\ alive' \in BOOLEAN /\ crashed' \in BOOLEAN /\ capacity' \in Nat
        /\ pc' \in {"idle", "ready", "sent", "sized", "reading", "answered"}
    BY <1>1, <1>4 DEF Types, Answer, process
  <2>2. camera' \in [Codes -> CameraRecord]
    BY <1>1, <1>3, <1>7 DEF Types
  <2>3. shown' \in [Codes -> SUBSET CameraRecord]
    BY <1>1, <1>3, <1>7 DEF Types
  <2>4. ASSUME NEW d \in Codes PROVE camera'[d] \in shown'[d]
    BY <1>1, <1>3 DEF Types
  <2>5. QED
    BY <2>1, <2>2, <2>3, <2>4 DEF Types
<1>9. ShownGrows
  BY <1>1, <1>3 DEF ShownGrows, Types
<1>10. NoReply.blob = <<>> /\ ReplyFits(call, NoReply)
  <2>1. Good(<<>>)
    BY DEF Good
  <2>2. NoReply.blob = <<>> /\ NoReply.status = "ok" /\ Len(NoReply.blob) \in Nat
    BY DEF NoReply
  <2>3. QED
    BY <1>2, <2>1, <2>2 DEF ReplyFits, Status
<1>11. QED
  BY <1>1, <1>4, <1>6, <1>8, <1>9, <1>10, AnswerKeeps

LEMMA ServeSizeKeeps == IInv /\ ServeSize => IInv'
<1> SUFFICES ASSUME IInv, ServeSize PROVE IInv'
  OBVIOUS
<1>1. pc = "sent" /\ pc' = "sized" /\ capacity' = Extent /\ Sizable
  BY DEF ServeSize, Serving
<1>2. UNCHANGED <<path, camera, alive, crashed, call, result, request, reply, pipe, got, written, shown>>
  BY DEF ServeSize, device, process, client, wire
<1>3. Types'
  BY <1>1, <1>2, ExtentNat DEF IInv, Types
<1>4. ShownGrows
  BY <1>2 DEF ShownGrows
<1>5. CallInv'
  <2>1. PICK c : c = call
    OBVIOUS
  <2>2. CallFits(c)'
    BY <1>1, <1>4, <2>1, CallStays DEF IInv, CallInv
  <2>3. call' = c
    BY <1>2, <2>1
  <2>4. QED
    BY <2>2, <2>3 DEF CallInv
<1>6. ResultInv'
  BY <1>2, <1>4, ResultStays DEF IInv
<1>7. RequestInv'
  BY <1>1, <1>2 DEF IInv, RequestInv, Request
<1>8. ReplyInv' /\ FrameInv' /\ SetReachesCamera'
  BY <1>1, <1>2 DEF IInv, ReplyInv, FrameInv, SetReachesCamera
<1>9. QED
  BY <1>3, <1>5, <1>6, <1>7, <1>8 DEF IInv

-----------------------------------------------------------------------------
(* Reading a frame.                                                        *)

\* What is read moves from the pipe to the client, and nothing is lost.
LEMMA Chunk ==
  ASSUME NEW R, NEW g \in Seq(R), NEW s \in Seq(R), NEW n \in 1..Len(s), NEW t, \A k \in DOMAIN g : g[k].total = t,
         \A k \in DOMAIN s : s[k].total = t
  PROVE  /\ g \o SubSeq(s, 1, n) \in Seq(R) /\ SubSeq(s, n + 1, Len(s)) \in Seq(R)
         /\ Len(g \o SubSeq(s, 1, n)) = Len(g) + n /\ Len(SubSeq(s, n + 1, Len(s))) = Len(s) - n
         /\ \A k \in DOMAIN (g \o SubSeq(s, 1, n)) : (g \o SubSeq(s, 1, n))[k].total = t
         /\ \A k \in DOMAIN SubSeq(s, n + 1, Len(s)) : SubSeq(s, n + 1, Len(s))[k].total = t
<1> DEFINE a == SubSeq(s, 1, n)
           b == SubSeq(s, n + 1, Len(s))
           e == g \o a
<1>1. n \in Nat /\ n >= 1 /\ n <= Len(s) /\ Len(s) \in Nat /\ n \in 0..Len(s)
  OBVIOUS
<1>2. a \in Seq(R) /\ Len(a) = n /\ \A k \in 1..n : a[k] = s[k]
  BY <1>1, CutShort
<1>3. /\ b \in Seq(R) /\ Len(b) = Len(s) - n
      /\ \A k \in 1..(Len(s) - n) : b[k] = s[n + k]
  <2>1. b \in Seq(R) /\ Len(b) = Len(s) - n
    BY <1>1
  <2>2. \A k \in 1..(Len(s) - n) : b[k] = s[n + k]
    BY <1>1
  <2>3. QED
    BY <2>1, <2>2
<1> HIDE DEF a, b
<1>4. /\ e \in Seq(R) /\ Len(e) = Len(g) + n /\ DOMAIN e = 1..(Len(g) + n) /\ Len(g) \in Nat
      /\ \A k \in 1..Len(g) : e[k] = g[k]
      /\ \A k \in (Len(g) + 1)..(Len(g) + n) : e[k] = a[k - Len(g)]
  <2>1. a \in Seq(R)
    BY <1>2
  <2>2. /\ e \in Seq(R) /\ Len(e) = Len(g) + Len(a) /\ DOMAIN e = 1..(Len(g) + Len(a)) /\ Len(g) \in Nat
        /\ \A k \in 1..Len(g) : e[k] = g[k]
        /\ \A k \in (Len(g) + 1)..(Len(g) + Len(a)) : e[k] = a[k - Len(g)]
    BY <2>1, ConcatFacts
  <2> HIDE DEF e
  <2>3. QED
    BY <1>2, <2>2
<1> HIDE DEF e
<1>5. \A k \in DOMAIN e : e[k].total = t
  <2> SUFFICES ASSUME NEW k \in 1..(Len(g) + n) PROVE e[k].total = t
    BY <1>4
  <2>1. CASE k \in 1..Len(g)
    <3>1. k \in DOMAIN g
      BY <2>1
    <3>2. QED
      BY <1>4, <2>1, <3>1
  <2>2. CASE k \in (Len(g) + 1)..(Len(g) + n)
    <3>1. k - Len(g) \in 1..n
      BY <1>1, <1>4, <2>2
    <3>2. k - Len(g) \in DOMAIN s
      BY <1>1, <3>1
    <3>3. e[k] = s[k - Len(g)]
      BY <1>2, <1>4, <2>2, <3>1
    <3>4. QED
      BY <3>2, <3>3
  <2>3. QED
    BY <1>1, <1>4, <2>1, <2>2
<1>6. \A k \in DOMAIN b : b[k].total = t
  <2> SUFFICES ASSUME NEW k \in DOMAIN b PROVE b[k].total = t
    OBVIOUS
  <2>1. k \in 1..(Len(s) - n)
    BY <1>1, <1>3
  <2>2. n + k \in DOMAIN s
    BY <1>1, <2>1
  <2>3. QED
    BY <1>3, <2>1, <2>2
<1>7. QED
  BY <1>3, <1>4, <1>5, <1>6 DEF a, b, e

LEMMA ReadChunkKeeps == IInv /\ ReadChunk => IInv'
<1> SUFFICES ASSUME IInv, ReadChunk PROVE IInv'
  OBVIOUS
<1>1. PICK n \in 1..Len(pipe) : /\ got' = got \o SubSeq(pipe, 1, n)
                                /\ pipe' = SubSeq(pipe, n + 1, Len(pipe))
  BY DEF ReadChunk
<1>2. pc = "reading" /\ UNCHANGED <<path, camera, alive, crashed, call, result, pc, request, capacity, reply,
                                    written, shown>>
  BY DEF ReadChunk, device, process, client
<1>3. ShownGrows
  BY <1>2 DEF ShownGrows
<1>4. CallInv' /\ RequestInv' /\ ReplyInv' /\ ResultInv'
  BY <1>2, <1>3, CallKeeps
<1>5. Types' /\ SetReachesCamera'
  BY <1>2 DEF IInv, Types, SetReachesCamera
<1>6. Framed
  BY <1>2 DEF IInv, FrameInv
<1>7. Framed'
  <2>1. got \in Seq(Unit) /\ pipe \in Seq(Unit) /\ (\A k \in DOMAIN got : got[k].total = Total)
        /\ \A k \in DOMAIN pipe : pipe[k].total = Total
    BY <1>6 DEF Framed
  <2> DEFINE g == got \o SubSeq(pipe, 1, n)
             p == SubSeq(pipe, n + 1, Len(pipe))
  <2>2. got \in Seq(Unit)
    BY <2>1
  <2>3. pipe \in Seq(Unit)
    BY <2>1
  <2>4. n \in 1..Len(pipe)
    BY <1>1
  <2>5. /\ g \in Seq(Unit) /\ p \in Seq(Unit) /\ Len(g) = Len(got) + n /\ Len(p) = Len(pipe) - n
        /\ \A k \in DOMAIN g : g[k].total = Total
        /\ \A k \in DOMAIN p : p[k].total = Total
    BY <2>1, <2>2, <2>3, <2>4, Chunk
  <2>6. got' = g /\ pipe' = p
    BY <1>1
  <2> HIDE DEF g, p
  <2>7. Total' = Total /\ alive' = alive
    BY <1>2 DEF Total
  <2>8. Len(g) + Len(p) = Len(got) + Len(pipe)
    <3>1. Len(got) \in Nat /\ Len(pipe) \in Nat
      BY <2>2, <2>3
    <3>2. QED
      BY <2>4, <2>5, <3>1
  <2>9. Len(got) + Len(pipe) <= Total /\ (alive => Len(got) + Len(pipe) = Total)
    BY <1>6 DEF Framed
  <2>10. QED
    BY <2>5, <2>6, <2>7, <2>8, <2>9 DEF Framed
<1>8. FrameInv'
  BY <1>2, <1>7 DEF FrameInv
<1>9. QED
  BY <1>4, <1>5, <1>8 DEF IInv

\* The frame is whole when nothing of it is left in the pipe.
LEMMA ReadyKeeps == IInv /\ Ready => IInv'
<1> SUFFICES ASSUME IInv, Ready PROVE IInv'
  OBVIOUS
<1>1. /\ pc = "reading" /\ FrameRead /\ pc' = "answered"
      /\ UNCHANGED <<path, camera, alive, crashed, call, result, request, capacity, reply, pipe, got, written, shown>>
  BY DEF Ready, device, process, client, wire
<1>2. Framed
  BY <1>1 DEF IInv, FrameInv
<1>3. pipe = <<>>
  <2>1. got \in Seq(Unit) /\ pipe \in Seq(Unit) /\ Len(got) + Len(pipe) <= Total
        /\ \A k \in DOMAIN got : got[k].total = Total
    BY <1>2 DEF Framed
  <2>2. Len(got) \in Nat /\ Len(pipe) \in Nat /\ (Len(pipe) = 0 => pipe = <<>>)
    <3>1. got \in Seq(Unit)
      BY <2>1
    <3>2. pipe \in Seq(Unit)
      BY <2>1
    <3>3. QED
      BY <3>1, <3>2
  <2>3. Len(got) >= 3 /\ Len(got) = ReadUpTo
    BY <1>1 DEF FrameRead
  <2>4. ReadUpTo = got[1].total
    BY <2>2, <2>3 DEF ReadUpTo, Part
  <2>5. 1 \in DOMAIN got
    BY <2>1, <2>2, <2>3
  <2>6. Len(got) = Total
    BY <2>1, <2>3, <2>4, <2>5
  <2>7. QED
    BY <2>1, <2>2, <2>6
<1>4. FrameInv'
  BY <1>1, <1>3 DEF FrameInv
<1>5. ShownGrows
  BY <1>1 DEF ShownGrows
<1>6. PICK c : c = call
  OBVIOUS
<1>7. PICK r : r = reply
  OBVIOUS
<1>8. CallFits(c) /\ ReplyFits(c, r)
  BY <1>1, <1>6, <1>7 DEF IInv, CallInv, ReplyInv
<1>9. CallFits(c)' /\ ReplyFits(c, r)'
  BY <1>5, <1>8, CallStays, ReplyStays
<1>10. call' = c /\ reply' = r
  BY <1>1, <1>6, <1>7
<1>11. CallInv' /\ ReplyInv'
  BY <1>9, <1>10 DEF CallInv, ReplyInv
<1>12. RequestInv'
  BY <1>1 DEF IInv, RequestInv, Request
<1>13. ResultInv'
  BY <1>1, <1>5, ResultStays DEF IInv
<1>14. Types' /\ SetReachesCamera'
  BY <1>1 DEF IInv, Types, SetReachesCamera
<1>15. QED
  BY <1>4, <1>11, <1>12, <1>13, <1>14 DEF IInv

-----------------------------------------------------------------------------
(* The invariant.                                                          *)

LEMMA InitIInv == Init => IInv
<1> SUFFICES ASSUME Init PROVE IInv
  OBVIOUS
<1>1. /\ path \in Paths /\ pc = "idle" /\ pipe = <<>> /\ got = <<>> /\ result = Nothing /\ capacity = 0
      /\ alive \in BOOLEAN /\ crashed = FALSE /\ written = [asked |-> 0, set |-> 0]
      /\ shown = [c \in Codes |-> {camera[c]}]
  BY DEF Init
<1>2. camera \in [Codes -> CameraRecord]
  <2>1. /\ camera \in [Codes -> UNION {Records[c] : c \in Codes}]
        /\ \A c \in Codes : camera[c] \in Records[c]
    BY DEF Init
  <2>2. \A c \in Codes : camera[c] \in CameraRecord
    BY <2>1, ConstantsAssumption
  <2>3. QED
    BY <2>1, <2>2
<1>3. Types
  BY <1>1, <1>2 DEF Types
<1>4. ResultInv
  <2>1. result.properties = <<>> /\ result.op = "none"
    BY <1>1 DEF Nothing
  <2>2. Good(<<>>)
    BY DEF Good
  <2>3. QED
    BY <2>1, <2>2 DEF ResultInv, ResultFits
<1>5. CallInv /\ RequestInv /\ ReplyInv /\ FrameInv
  BY <1>1 DEF CallInv, RequestInv, ReplyInv, FrameInv
<1>6. SetReachesCamera
  BY <1>1 DEF SetReachesCamera
<1>7. QED
  BY <1>3, <1>4, <1>5, <1>6 DEF IInv

LEMMA StutterKeeps == IInv /\ UNCHANGED vars => IInv'
<1> SUFFICES ASSUME IInv, UNCHANGED vars PROVE IInv'
  OBVIOUS
<1>1. UNCHANGED <<path, camera, alive, crashed, call, result, pc, request, capacity, reply, pipe, got, written, shown>>
  BY DEF vars, device, process, client, wire
<1>2. ShownGrows
  BY <1>1 DEF ShownGrows
<1>3. CallInv' /\ RequestInv' /\ ReplyInv' /\ ResultInv'
  BY <1>1, <1>2, CallKeeps
<1>4. FrameInv'
  BY <1>1 DEF IInv, FrameInv, Framed, Total
<1>5. Types' /\ SetReachesCamera'
  BY <1>1 DEF IInv, Types, SetReachesCamera
<1>6. QED
  BY <1>3, <1>4, <1>5 DEF IInv

LEMMA NextIInv == IInv /\ [Next]_vars => IInv'
<1> SUFFICES ASSUME IInv, [Next]_vars PROVE IInv'
  OBVIOUS
<1>1. ASSUME \E c \in Codes : GetProperty(c) \/ \E v \in Settings : SetProperty(c, v) PROVE IInv'
  <2>1. PICK c \in Codes : GetProperty(c) \/ \E v \in Settings : SetProperty(c, v)
    BY <1>1
  <2>2. CASE GetProperty(c)
    <3>1. Begin("get", c, 0)
      BY <2>2 DEF GetProperty
    <3>2. QED
      BY <3>1, BeginKeeps
  <2>3. CASE \E v \in Settings : SetProperty(c, v)
    <3>1. PICK v \in Settings : Begin("set", c, v)
      BY <2>3 DEF SetProperty
    <3>2. v \in Int
      BY ConstantsAssumption
    <3>3. QED
      BY <3>1, <3>2, BeginKeeps
  <2>4. QED
    BY <2>1, <2>2, <2>3
<1>2. ASSUME ListProperties PROVE IInv'
  <2>1. Begin("list", 0, 0)
    BY <1>2 DEF ListProperties
  <2>2. QED
    BY <2>1, BeginKeeps
<1>3. ASSUME Done \/ UNCHANGED vars PROVE IInv'
  BY <1>3, StutterKeeps DEF Done
<1>4. ASSUME CameraChanges \/ HelperDies \/ Send PROVE IInv'
  BY <1>4, CameraChangesKeeps, HelperDiesKeeps, SendKeeps
<1>5. ASSUME SendFails \/ StreamEnds \/ Use PROVE IInv'
  BY <1>5, FailsKeeps
<1>6. ASSUME ServeFails \/ ServeMissing \/ ServeGet \/ ServeAtOnce \/ ServeFetch PROVE IInv'
  BY <1>6, ServeKeeps
<1>7. ASSUME ServeSet \/ ServeSize \/ ReadChunk \/ Ready PROVE IInv'
  BY <1>7, ServeSetKeeps, ServeSizeKeeps, ReadChunkKeeps, ReadyKeeps
<1>8. QED
  BY <1>1, <1>2, <1>3, <1>4, <1>5, <1>6, <1>7 DEF Next

\* The invariant of every proof of this module holds in every behaviour.
THEOREM Invariance == Spec => []IInv
  BY InitIInv, NextIInv, PTL DEF Spec

-----------------------------------------------------------------------------
(* What it says.                                                           *)

(***************************************************************************)
(* A value that fits in two slots reaches the camera as the caller gave    *)
(* it, whatever the size of a slot: set_property and _as_int32 (host.py)   *)
(* cut it, OP_SET_PROPERTY (main.cpp) joins it.                            *)
(***************************************************************************)
THEOREM ValuesReachCamera == Spec => []SetReachesCamera
<1>1. IInv => SetReachesCamera
  BY DEF IInv
<1>2. QED
  BY <1>1, Invariance, PTL

(***************************************************************************)
(* What a returned property says was reported by the camera, for that      *)
(* code, while the call was under way: _describe, _with_values and         *)
(* _with_string (host.py), over any number of exchanges.                   *)
(***************************************************************************)
THEOREM ResultsWereReported == Spec => []ResultHeld
<1>1. IInv => ResultHeld
  BY DEF IInv, ResultInv, ResultFits, Good, ItemShown, ResultHeld
<1>2. QED
  BY <1>1, Invariance, PTL

LEMMA Counted ==
  ASSUME NEW s, s \in Seq(ItemRecord), Complete(s), NEW c \in Codes
  PROVE  LET times == Cardinality({i \in DOMAIN s : s[i].code = c}) IN
         times \leq 1 /\ ((\A r \in shown[c] : r.there) => times = 1)
<1> DEFINE I == {i \in DOMAIN s : s[i].code = c}
<1>1. \A i, j \in I : i = j
  BY DEF Complete, Apart
<1>2. (\A r \in shown[c] : r.there) => I # {}
  BY DEF Complete
<1> HIDE DEF I
<1>3. CASE I = {}
  <2>1. Cardinality(I) = 0
    BY <1>3, FS_EmptySet
  <2>2. QED
    BY <1>2, <1>3, <2>1 DEF I
<1>4. CASE I # {}
  <2>0. PICK i : i \in I
    BY <1>4
  <2>1. I = {i}
    BY <1>1, <2>0
  <2>2. Cardinality(I) = 1
    BY <2>1, FS_Singleton
  <2>3. QED
    BY <2>2 DEF I
<1>5. QED
  BY <1>3, <1>4

(***************************************************************************)
(* A list that is returned is whole: each property the camera had from the *)
(* first moment of the call to its last is in it, once.  _read_exact       *)
(* (_ipc.py), list_properties (host.py, native.py), for any camera and a   *)
(* helper that may die at any byte.                                        *)
(***************************************************************************)
THEOREM ListsAreWhole == Spec => []ListWhole
<1>1. IInv => ListWhole
  <2> SUFFICES ASSUME IInv, result.op = "list" /\ result.raised = "none", NEW c \in Codes
      PROVE  LET times == Cardinality({i \in DOMAIN result.properties : result.properties[i].code = c}) IN
             times \leq 1 /\ ((\A r \in shown[c] : r.there) => times = 1)
    BY DEF ListWhole
  <2>1. result.properties \in Seq(ItemRecord) /\ Complete(result.properties)
    BY DEF IInv, ResultInv, ResultFits, Good
  <2>2. PICK s : s = result.properties
    OBVIOUS
  <2>3. QED
    BY <2>1, <2>2, Counted
<1>2. QED
  BY <1>1, Invariance, PTL

(***************************************************************************)
(* Between two exchanges nothing is left in the pipe, so that the next     *)
(* response is read from its first byte.  read_frame (_ipc.py), _call_ex   *)
(* (host.py).                                                              *)
(***************************************************************************)
THEOREM FramesStayInStep == Spec => []StreamInStep
<1>1. IInv => StreamInStep
  BY DEF IInv, FrameInv, StreamInStep
<1>2. QED
  BY <1>1, Invariance, PTL
=============================================================================
