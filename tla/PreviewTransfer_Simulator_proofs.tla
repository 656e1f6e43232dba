------------------ MODULE PreviewTransfer_Simulator_proofs ------------------
(***************************************************************************)
(* Theorems about two components that share no constant and no variable,   *)
(* each from the assumptions of its own module alone.                      *)
(*                                                                         *)
(* PreviewTransfer, the preview transfers of one bridge session: who owns  *)
(* what is in flight, that no bytes are served twice, and that a reply of  *)
(* a fetch is its own while the vendor is prompt, for any number of        *)
(* threads, stills and requests.                                           *)
(*                                                                         *)
(* Simulator, the simulator backend: its types, that a postview names a    *)
(* still, that every passing state ends, that new stills are found and     *)
(* that the live view pauses for exposures, for every set of setups,       *)
(* timeouts and pauses and every bound.                                    *)
(***************************************************************************)
EXTENDS PreviewTransfer, Simulator, WellFoundedInduction, FiniteSetTheorems, TLAPS

-----------------------------------------------------------------------------
(* PreviewTransfer. *)

Parts == {"draft", "final", "empty"}
Labels == Fetching \cup {"idle", "gate", "take", "copy"}

\* Each request has a number of its own.
RequestsDistinct ==
  /\ \A i \in DOMAIN vendor : vendor[i].request <= accepted
  /\ \A i, j \in DOMAIN vendor : i # j => vendor[i].request # vendor[j].request

\* The k-th callback of request i is still to come and will be delivery d.
ToCome(i, k, d) ==
  /\ i \in DOMAIN vendor /\ k \in DOMAIN vendor[i].script
  /\ vendor[i].script[k] # "empty"
  /\ d = Delivery(vendor[i].request, vendor[i].script[k])

\* What is held was never handed out; what is still to come is neither held nor
\* handed out; nothing comes before its request.
HeldUnserved == transfer.bytes # NoBytes => served[transfer.bytes.id] = 0
ComingUnserved ==
  \A i, k, d \in Nat : ToCome(i, k, d) =>
    /\ served[d] = 0
    /\ transfer.bytes # NoBytes => transfer.bytes.id # d
NothingEarly ==
  /\ \A d \in 1..MaxDeliveries : d > 2 * accepted => served[d] = 0
  /\ transfer.bytes # NoBytes => transfer.bytes.id <= 2 * accepted
Fresh == HeldUnserved /\ ComingUnserved /\ NothingEarly

\* While the vendor is prompt, what the holder of the gate waits for and what it
\* finds belong to the still it wants.
FetchIsOwn ==
  ~late =>
    \A t \in Threads :
      /\ pc[t] = "request" => transfer.bytes = NoBytes
      /\ pc[t] \in {"await", "settle"} =>
           /\ vendor # <<>> => vendor[Len(vendor)].content = want[t]
           /\ transfer.bytes # NoBytes => transfer.bytes.content = want[t]

IInv ==
  /\ TypeOK
  /\ InFlightOwned
  /\ RequestsDistinct
  /\ ServedOnce
  /\ Fresh
  /\ FetchIsOwn
  /\ ReplyIsOwn

-----------------------------------------------------------------------------
(* Scripts and deliveries.                                                 *)

\* A script never makes the same callback twice, and what is left of one after
\* a callback is a script.
LEMMA ScriptFacts ==
  ASSUME NEW s \in Scripts
  PROVE  /\ s \in Seq(Parts)
         /\ \A j, k \in DOMAIN s : j # k => s[j] # s[k]
         /\ s # <<>> => /\ Tail(s) \in Scripts
                        /\ Head(s) = s[1] /\ 1 \in DOMAIN s
                        /\ \A k \in DOMAIN Tail(s) :
                             k + 1 \in DOMAIN s /\ Tail(s)[k] = s[k + 1]
<1>1. CASE s = <<>>
  BY <1>1 DEF Scripts, Parts
<1>2. CASE s = <<"final">>
  BY <1>2 DEF Scripts, Parts
<1>3. CASE s = <<"draft">>
  BY <1>3 DEF Scripts, Parts
<1>4. CASE s = <<"empty">>
  BY <1>4 DEF Scripts, Parts
<1>5. CASE s = <<"draft", "final">>
  BY <1>5 DEF Scripts, Parts
<1>6. CASE s = <<"draft", "empty">>
  BY <1>6 DEF Scripts, Parts
<1>7. QED
  BY <1>1, <1>2, <1>3, <1>4, <1>5, <1>6 DEF Scripts

Request == [content : Contents, script : Scripts, request : 1..MaxFetches]
Transfer == [inFlight : BOOLEAN, complete : BOOLEAN, failed : BOOLEAN,
             percent : {0, 50, 100}, bytes : Bytes \cup {NoBytes}]

LEMMA VendorTyped ==
  ASSUME TypeOK, NEW i \in DOMAIN vendor
  PROVE  /\ vendor[i] \in Request /\ vendor[i].content \in Contents
         /\ vendor[i].script \in Scripts /\ vendor[i].request \in 1..MaxFetches
<1>1. vendor \in Seq(Request)
  BY DEF TypeOK, Request
<1>2. vendor[i] \in Request
  BY <1>1
<1>3. QED
  BY <1>2 DEF Request

LEMMA AppendFacts ==
  ASSUME NEW S, NEW s \in Seq(S), NEW e \in S
  PROVE  LET a == Append(s, e) IN
         /\ a \in Seq(S) /\ Len(a) = Len(s) + 1 /\ a[Len(a)] = e
         /\ DOMAIN a = DOMAIN s \cup {Len(a)} /\ Len(a) \notin DOMAIN s
         /\ \A i \in DOMAIN s : a[i] = s[i]
  OBVIOUS

\* Deliveries of different requests, or of different kinds, have different names.
LEMMA DeliveryFacts ==
  ASSUME NEW r \in 1..MaxFetches, NEW p \in {"draft", "final"}
  PROVE  /\ Delivery(r, p) \in 1..MaxDeliveries
         /\ Delivery(r, p) > 2 * (r - 1) /\ Delivery(r, p) <= 2 * r
         /\ \A q \in 1..MaxFetches, u \in {"draft", "final"} :
              Delivery(q, u) = Delivery(r, p) => q = r /\ u = p
  BY ConstantsAssumption DEF Delivery, MaxDeliveries

-----------------------------------------------------------------------------
(* Initial states and the steps of a caller.                               *)

LEMMA InitIInv == Init => IInv
<1> SUFFICES ASSUME Init PROVE IInv
  OBVIOUS
<1>1. vendor \in Seq(Request)
      /\ DOMAIN vendor = {}
  BY DEF Init
<1>2. transfer.bytes = NoBytes /\ transfer.inFlight = FALSE
      /\ transfer \in Transfer
  BY DEF Init, NoTransfer, Transfer
<1>3. TypeOK
  <2>1. got \in [Threads -> [outcome : Outcomes, bytes : Bytes \cup {NoBytes}]]
    BY DEF Init, Outcomes
  <2>2. served \in [1..MaxDeliveries -> 0..2] /\ accepted \in 0..MaxFetches
    BY ConstantsAssumption DEF Init
  <2>3. QED
    BY <1>1, <1>2, <2>1, <2>2 DEF Init, TypeOK, Transfer, Request
<1>4. InFlightOwned /\ ReplyIsOwn
  BY <1>2, ConstantsAssumption DEF Init, InFlightOwned, ReplyIsOwn, Fetching
<1>5. RequestsDistinct /\ ServedOnce /\ FetchIsOwn
  BY <1>1, <1>2 DEF Init, RequestsDistinct, ServedOnce, FetchIsOwn
<1>6. Fresh
  BY <1>1, <1>2 DEF Init, Fresh, HeldUnserved, ComingUnserved, ToCome, NothingEarly
<1>7. QED
  BY <1>3, <1>4, <1>5, <1>6 DEF IInv

\* What is held may only go, and less may come: nothing becomes stale.
LEMMA FreshKept ==
  ASSUME IInv,
         transfer'.bytes \in {NoBytes, transfer.bytes},
         UNCHANGED <<served, accepted>>,
         vendor' \in {vendor, <<>>}
  PROVE  RequestsDistinct' /\ ServedOnce' /\ Fresh'
<1>1. CASE vendor' = vendor
  BY <1>1 DEF IInv, RequestsDistinct, ServedOnce, Fresh, HeldUnserved, ComingUnserved, ToCome,
              NothingEarly
<1>2. CASE vendor' = <<>>
  BY <1>2 DEF IInv, RequestsDistinct, ServedOnce, Fresh, HeldUnserved, ComingUnserved, ToCome,
              NothingEarly
<1>3. QED
  BY <1>1, <1>2

LEMMA StartFetchIInv ==
  ASSUME NEW t \in Threads, NEW c \in Contents, IInv, StartFetch(t, c)
  PROVE  IInv'
<1> USE DEF IInv
<1>1. TypeOK'
  BY DEF StartFetch, TypeOK, Goto, histories, Outcomes
<1>2. InFlightOwned'
  BY DEF StartFetch, TypeOK, Goto, InFlightOwned, Fetching
<1>3. RequestsDistinct' /\ ServedOnce' /\ Fresh'
  BY FreshKept DEF StartFetch, histories
<1>4. FetchIsOwn' /\ ReplyIsOwn'
  BY DEF StartFetch, TypeOK, Goto, histories, FetchIsOwn, ReplyIsOwn
<1>5. QED
  BY <1>1, <1>2, <1>3, <1>4

LEMMA EnterGateIInv ==
  ASSUME NEW t \in Threads, IInv, EnterGate(t)
  PROVE  IInv'
<1> USE DEF IInv
<1>1. transfer' = [inFlight |-> TRUE, complete |-> FALSE, failed |-> FALSE,
                   percent |-> 0, bytes |-> NoBytes]
  BY DEF EnterGate, NoTransfer
<1>2. TypeOK'
  <2>1. transfer' \in Transfer /\ transfer'.bytes = NoBytes
    BY <1>1 DEF Transfer
  <2>2. QED
    BY <2>1 DEF EnterGate, TypeOK, Goto, histories, Fetching, Transfer
<1>3. InFlightOwned'
  BY <1>1, ConstantsAssumption DEF EnterGate, TypeOK, Goto, InFlightOwned, Fetching
<1>4. RequestsDistinct' /\ ServedOnce' /\ Fresh'
  BY <1>1, FreshKept DEF EnterGate, histories
<1>5. FetchIsOwn' /\ ReplyIsOwn'
  BY <1>1 DEF EnterGate, TypeOK, Goto, histories, FetchIsOwn, ReplyIsOwn
<1>6. QED
  BY <1>2, <1>3, <1>4, <1>5

LEMMA RequestAcceptedIInv ==
  ASSUME NEW t \in Threads, IInv, RequestAccepted(t)
  PROVE  IInv'
<1> USE DEF IInv
<1> DEFINE entry(s) == [content |-> want[t], script |-> s, request |-> accepted']
<1>1. PICK s \in Scripts : vendor' = Append(vendor, entry(s))
  BY DEF RequestAccepted
<1>2. /\ accepted' = accepted + 1 /\ accepted \in Nat /\ accepted' \in 1..MaxFetches
      /\ UNCHANGED <<want, got, gate, transfer, closing, link, served, late>>
      /\ pc[t] = "request" /\ pc' = [pc EXCEPT ![t] = "await"]
  BY ConstantsAssumption DEF RequestAccepted, TypeOK, Goto
<1>3. /\ entry(s) \in Request
      /\ vendor \in Seq(Request)
  BY <1>2 DEF TypeOK, Request
<1>4. /\ vendor' \in Seq(Request)
      /\ Len(vendor') = Len(vendor) + 1 /\ DOMAIN vendor' = DOMAIN vendor \cup {Len(vendor')}
      /\ vendor'[Len(vendor')] = entry(s) /\ Len(vendor') \notin DOMAIN vendor
      /\ \A i \in DOMAIN vendor : vendor'[i] = vendor[i] /\ vendor[i].request \in 1..MaxFetches
  <2> HIDE DEF entry
  <2>1. QED
    BY <1>1, <1>3, AppendFacts, VendorTyped
<1>5. TypeOK'
  BY <1>2, <1>4 DEF TypeOK, Fetching, Request
<1>6. InFlightOwned'
  BY <1>2 DEF TypeOK, InFlightOwned, Fetching
<1>7. RequestsDistinct'
  BY <1>2, <1>4 DEF RequestsDistinct

\* Deliveries of the new request have names that were never used.
<1>8. Fresh'
  <2>1. HeldUnserved'
    BY <1>2 DEF Fresh, HeldUnserved
  <2>2. ASSUME NEW i \in Nat, NEW k \in Nat, NEW d \in Nat, ToCome(i, k, d)'
        PROVE  /\ served'[d] = 0
               /\ transfer'.bytes # NoBytes => transfer'.bytes.id # d
    <3>1. CASE i \in DOMAIN vendor
      <4>1. ToCome(i, k, d)
        BY <1>4, <2>2, <3>1 DEF ToCome
      <4>2. QED
        BY <1>2, <4>1 DEF Fresh, ComingUnserved
    <3>2. CASE i = Len(vendor')
      <4>1. vendor'[i].script \in Scripts /\ vendor'[i].request = accepted'
        BY <1>4, <3>2
      <4>2. vendor'[i].script[k] \in {"draft", "final"}
        BY <4>1, <2>2, ScriptFacts DEF ToCome, Parts
      <4>3. d \in 1..MaxDeliveries /\ d > 2 * accepted
        BY <1>2, <2>2, <4>1, <4>2, DeliveryFacts DEF ToCome
      <4>4. transfer.bytes # NoBytes => transfer.bytes.id <= 2 * accepted
        BY DEF Fresh, NothingEarly
      <4>5. transfer.bytes # NoBytes => transfer.bytes.id \in Nat
        BY DEF TypeOK, Bytes
      <4>6. QED
        BY <1>2, <4>3, <4>4, <4>5 DEF Fresh, NothingEarly
    <3>3. QED
      BY <1>4, <2>2, <3>1, <3>2 DEF ToCome
  <2>3. NothingEarly'
    <3>1. \A d \in 1..MaxDeliveries : d > 2 * (accepted + 1) => d > 2 * accepted
      BY <1>2, ConstantsAssumption DEF MaxDeliveries
    <3>2. transfer.bytes # NoBytes =>
             transfer.bytes.id \in Nat /\ transfer.bytes.id <= 2 * accepted
      BY DEF TypeOK, Bytes, Fresh, NothingEarly
    <3>3. QED
      BY <1>2, <3>1, <3>2 DEF Fresh, NothingEarly
  <2>4. QED
    BY <2>1, <2>2, <2>3 DEF Fresh, ComingUnserved
<1>9. FetchIsOwn' /\ ReplyIsOwn'
  <2>1. \A u \in Threads : u # t => pc[u] \notin {"await", "settle", "request"}
    BY <1>2 DEF InFlightOwned, Fetching
  <2>2. QED
    BY <1>2, <1>4, <2>1 DEF FetchIsOwn, ReplyIsOwn, TypeOK
<1>10. ServedOnce'
  BY <1>2 DEF ServedOnce
<1>11. QED
  BY <1>5, <1>6, <1>7, <1>8, <1>9, <1>10

\* Every way out of a fetch but success.
LEMMA FetchFailsIInv ==
  ASSUME NEW t \in Threads, NEW outcome \in Outcomes, IInv,
         pc[t] \in {"request", "await", "settle"},
         transfer' \in {NoTransfer, Refused, [transfer EXCEPT !.inFlight = FALSE]},
         Leave, Return(t, outcome, NoBytes),
         UNCHANGED <<want, closing, link, histories>>
  PROVE  IInv'
<1> USE DEF IInv
<1>1. /\ transfer'.inFlight = FALSE
      /\ transfer'.bytes \in {NoBytes, transfer.bytes}
      /\ transfer' \in Transfer
      /\ transfer'.bytes # NoBytes => transfer'.complete
  <2>1. transfer \in Transfer /\ (transfer.bytes # NoBytes => transfer.complete)
    BY DEF TypeOK, Transfer
  <2>2. CASE transfer' = NoTransfer
    BY <2>2 DEF NoTransfer, Transfer
  <2>3. CASE transfer' = Refused
    BY <2>1, <2>3 DEF Refused, Transfer
  <2>4. CASE transfer' = [transfer EXCEPT !.inFlight = FALSE]
    BY <2>1, <2>4 DEF Transfer
  <2>5. QED
    BY <2>2, <2>3, <2>4
<1>2. TypeOK'
  BY <1>1 DEF TypeOK, Leave, Return, Goto, histories, Transfer
<1>3. InFlightOwned'
  BY <1>1, ConstantsAssumption DEF TypeOK, Leave, Return, Goto, InFlightOwned, Fetching
<1>4. RequestsDistinct' /\ ServedOnce' /\ Fresh'
  BY <1>1, FreshKept DEF Leave, histories
<1>5. \A u \in Threads : u # t => pc[u] \notin Fetching
  BY DEF InFlightOwned, Fetching
<1>6. FetchIsOwn' /\ ReplyIsOwn'
  BY <1>1, <1>5 DEF TypeOK, Leave, Return, Goto, histories, FetchIsOwn, ReplyIsOwn, Fetching
<1>7. QED
  BY <1>2, <1>3, <1>4, <1>6

LEMMA FinishIInv ==
  ASSUME NEW t \in Threads, IInv, pc[t] \in {"await", "settle"}, Finish(t)
  PROVE  IInv'
<1> USE DEF IInv
<1>1. CASE transfer.bytes # NoBytes /\ ~transfer.failed
  <2>1. /\ transfer' = [transfer EXCEPT !.inFlight = FALSE]
        /\ pc' = [pc EXCEPT ![t] = "take"]
        /\ got' = [got EXCEPT ![t] = [outcome |-> "none", bytes |-> transfer.bytes]]
        /\ gate' = NoThread /\ UNCHANGED <<vendor, want, closing, link, served, accepted, late>>
    BY <1>1 DEF Finish, Goto, Leave, histories
  <2>2. TypeOK'
    BY <2>1 DEF TypeOK, Outcomes
  <2>3. InFlightOwned'
    BY <2>1, ConstantsAssumption DEF TypeOK, InFlightOwned, Fetching
  <2>4. RequestsDistinct' /\ ServedOnce' /\ Fresh'
    <3>1. transfer'.bytes = transfer.bytes
      BY <2>1 DEF TypeOK
    <3>2. QED
      BY <2>1, <3>1, FreshKept
  <2>5. \A u \in Threads : u # t => pc[u] \notin Fetching
    BY DEF InFlightOwned, Fetching
  <2>6. FetchIsOwn' /\ ReplyIsOwn'
    BY <1>1, <2>1, <2>5 DEF TypeOK, FetchIsOwn, ReplyIsOwn, Fetching
  <2>7. QED
    BY <2>2, <2>3, <2>4, <2>6
<1>2. CASE ~(transfer.bytes # NoBytes /\ ~transfer.failed)
  <2>1. /\ Leave /\ UNCHANGED <<want, closing, link, histories>>
        /\ \/ transfer' = NoTransfer /\ Return(t, "failed", NoBytes)
           \/ transfer' = [transfer EXCEPT !.inFlight = FALSE] /\ Return(t, "timeout", NoBytes)
    BY <1>2 DEF Finish
  <2>2. QED
    BY <2>1, FetchFailsIInv DEF Outcomes
<1>3. QED
  BY <1>1, <1>2

LEMMA AwaitDeliveredIInv ==
  ASSUME NEW t \in Threads, IInv, AwaitDelivered(t)
  PROVE  IInv'
<1> USE DEF IInv
<1>1. CASE Unfinished
  <2>1. /\ pc[t] = "await" /\ pc' = [pc EXCEPT ![t] = "settle"]
        /\ UNCHANGED <<want, got, gate, transfer, closing, link, vendor, served, accepted, late>>
    BY <1>1 DEF AwaitDelivered, Goto, histories
  <2>2. TypeOK' /\ InFlightOwned'
    BY <2>1 DEF TypeOK, InFlightOwned, Fetching
  <2>3. RequestsDistinct' /\ ServedOnce' /\ Fresh'
    BY <2>1, FreshKept
  <2>4. FetchIsOwn' /\ ReplyIsOwn'
    BY <2>1 DEF TypeOK, FetchIsOwn, ReplyIsOwn
  <2>5. QED
    BY <2>2, <2>3, <2>4
<1>2. CASE ~Unfinished
  BY <1>2, FinishIInv DEF AwaitDelivered
<1>3. QED
  BY <1>1, <1>2

-----------------------------------------------------------------------------
(* Taking.                                                                 *)

LEMMA TakeLookIInv ==
  ASSUME NEW t \in Threads, IInv, TakeLook(t)
  PROVE  IInv'
<1> USE DEF IInv
<1>1. /\ pc[t] = "take"
      /\ UNCHANGED <<want, gate, transfer, closing, link, vendor, served, accepted, late>>
      /\ \/ pc' = [pc EXCEPT ![t] = "copy"] /\ got' = got
         \/ /\ pc' = [pc EXCEPT ![t] = "idle"]
            /\ \E o \in {"gone", "missing"} :
                 got' = [got EXCEPT ![t] = [outcome |-> o, bytes |-> NoBytes]]
  BY DEF TakeLook, Return, Goto, histories
<1>2. TypeOK' /\ InFlightOwned'
  <2>1. pc' \in [Threads -> Fetching \cup {"idle", "gate", "take", "copy"}]
    BY <1>1 DEF TypeOK
  <2>2. got' \in [Threads -> [outcome : Outcomes, bytes : Bytes \cup {NoBytes}]]
    <3>1. \A o \in {"gone", "missing"} :
            [outcome |-> o, bytes |-> NoBytes] \in [outcome : Outcomes, bytes : Bytes \cup {NoBytes}]
      BY DEF Outcomes
    <3>2. QED
      BY <1>1, <3>1 DEF TypeOK
  <2>3. TypeOK'
    BY <1>1, <2>1, <2>2 DEF TypeOK
  <2>4. InFlightOwned'
    BY <1>1 DEF TypeOK, InFlightOwned, Fetching
  <2>5. QED
    BY <2>3, <2>4
<1>3. RequestsDistinct' /\ ServedOnce' /\ Fresh'
  BY <1>1, FreshKept
<1>4. FetchIsOwn' /\ ReplyIsOwn'
  BY <1>1 DEF TypeOK, FetchIsOwn, ReplyIsOwn
<1>5. QED
  BY <1>2, <1>3, <1>4

LEMMA TakeCopyIInv ==
  ASSUME NEW t \in Threads, IInv, TakeCopy(t)
  PROVE  IInv'
<1> USE DEF IInv
<1> DEFINE counted == [d \in DOMAIN served |->
                         IF transfer.bytes # NoBytes /\ d = transfer.bytes.id
                         THEN served[d] + 1 ELSE served[d]]
<1>1. CASE ~(transfer.complete /\ ~transfer.failed)
  <2>1. /\ pc[t] = "copy" /\ pc' = [pc EXCEPT ![t] = "idle"]
        /\ got' = [got EXCEPT ![t] = [outcome |-> "missing", bytes |-> NoBytes]]
        /\ UNCHANGED <<want, gate, transfer, closing, link, vendor, served, accepted, late>>
    BY <1>1 DEF TakeCopy, Return, Goto
  <2>2. TypeOK' /\ InFlightOwned'
    BY <2>1 DEF TypeOK, InFlightOwned, Fetching, Outcomes
  <2>3. RequestsDistinct' /\ ServedOnce' /\ Fresh'
    BY <2>1, FreshKept
  <2>4. FetchIsOwn' /\ ReplyIsOwn'
    BY <2>1 DEF TypeOK, FetchIsOwn, ReplyIsOwn
  <2>5. QED
    BY <2>2, <2>3, <2>4
<1>2. CASE transfer.complete /\ ~transfer.failed
  <2>1. /\ pc[t] = "copy" /\ pc' = [pc EXCEPT ![t] = "idle"]
        /\ got' = [got EXCEPT ![t] = [outcome |-> "served", bytes |-> transfer.bytes]]
        /\ transfer' = [transfer EXCEPT !.bytes = NoBytes, !.complete = FALSE]
        /\ served' = counted
        /\ UNCHANGED <<want, gate, closing, link, vendor, accepted, late>>
    BY <1>2 DEF TakeCopy, Return, Goto
  <2>2. /\ transfer'.bytes = NoBytes /\ transfer'.inFlight = transfer.inFlight
        /\ transfer' \in Transfer
    BY <2>1 DEF TypeOK, Transfer
  \* Only what is held is counted, and it was never counted before.
  <2>3. /\ served' \in [1..MaxDeliveries -> 0..2]
        /\ \A d \in 1..MaxDeliveries :
             served'[d] = IF transfer.bytes # NoBytes /\ d = transfer.bytes.id
                          THEN 1 ELSE served[d]
    BY <2>1 DEF TypeOK, Fresh, HeldUnserved
  <2>4. TypeOK'
    BY <2>1, <2>2, <2>3 DEF TypeOK, Outcomes, Transfer
  <2>5. InFlightOwned'
    BY <2>1, <2>2 DEF TypeOK, InFlightOwned, Fetching
  <2>6. ServedOnce'
    BY <2>3 DEF ServedOnce
  <2>7. RequestsDistinct'
    BY <2>1 DEF RequestsDistinct
  <2>8. Fresh'
    <3>1. HeldUnserved'
      BY <2>2 DEF HeldUnserved
    <3>2. ASSUME NEW i \in Nat, NEW k \in Nat, NEW d \in Nat, ToCome(i, k, d)'
          PROVE  served'[d] = 0
      <4>1. ToCome(i, k, d)
        BY <2>1, <3>2 DEF ToCome
      <4>2. served[d] = 0 /\ (transfer.bytes # NoBytes => transfer.bytes.id # d)
        BY <4>1 DEF Fresh, ComingUnserved
      <4>3. d \in 1..MaxDeliveries
        <5>1. vendor[i].script \in Scripts /\ vendor[i].request \in 1..MaxFetches
          BY <4>1, VendorTyped DEF ToCome
        <5>2. vendor[i].script[k] \in {"draft", "final"}
          BY <4>1, <5>1, ScriptFacts DEF ToCome, Parts
        <5>3. QED
          BY <4>1, <5>1, <5>2, DeliveryFacts DEF ToCome
      <4>4. QED
        BY <2>3, <4>2, <4>3
    <3>3. NothingEarly'
      <4>1. ASSUME NEW d \in 1..MaxDeliveries, d > 2 * accepted
            PROVE  served'[d] = 0
        <5>1. transfer.bytes # NoBytes =>
                 transfer.bytes.id \in Nat /\ transfer.bytes.id <= 2 * accepted
          BY DEF TypeOK, Bytes, Fresh, NothingEarly
        <5>2. accepted \in Nat
          BY DEF TypeOK
        <5>3. ~(transfer.bytes # NoBytes /\ d = transfer.bytes.id)
          BY <4>1, <5>1, <5>2
        <5>4. QED
          BY <2>3, <4>1, <5>3 DEF Fresh, NothingEarly
      <4>2. QED
        BY <2>1, <2>2, <4>1 DEF NothingEarly
    <3>4. QED
      BY <2>2, <3>1, <3>2, <3>3 DEF Fresh, ComingUnserved
  <2>9. FetchIsOwn' /\ ReplyIsOwn'
    BY <2>1, <2>2 DEF TypeOK, FetchIsOwn, ReplyIsOwn
  <2>10. QED
    BY <2>4, <2>5, <2>6, <2>7, <2>8, <2>9
<1>3. QED
  BY <1>1, <1>2

-----------------------------------------------------------------------------
(* The vendor, the link and the close.                                     *)

LEMMA DeliverIInv ==
  ASSUME NEW i \in DOMAIN vendor, IInv, Deliver(i)
  PROVE  IInv'
<1> USE DEF IInv
<1> DEFINE req == vendor[i].request
           script == vendor[i].script
           part == Head(script)
           data == part # "empty"
           bytes == [id |-> Delivery(req, part), content |-> vendor[i].content]
<1>1. /\ script # <<>>
      /\ vendor' = [vendor EXCEPT ![i].script = Tail(@)]
      /\ transfer' = IF ~transfer.inFlight THEN transfer
                     ELSE [transfer EXCEPT
                             !.complete = TRUE,
                             !.failed = @ \/ ~data,
                             !.percent = IF part = "draft" THEN 50 ELSE 100,
                             !.bytes = IF data THEN bytes ELSE @]
      /\ late' = (late \/ ~Awaited(i))
      /\ UNCHANGED <<pc, want, got, gate, closing, link, served, accepted>>
  BY DEF Deliver, callers
<1>2. /\ vendor \in Seq(Request) /\ vendor[i] \in Request
      /\ script \in Scripts /\ req \in 1..MaxFetches /\ vendor[i].content \in Contents
  BY VendorTyped DEF TypeOK, Request
<1>3. /\ Tail(script) \in Scripts /\ part = script[1] /\ 1 \in DOMAIN script /\ part \in Parts
      /\ \A k \in DOMAIN Tail(script) :
           k + 1 \in DOMAIN script /\ Tail(script)[k] = script[k + 1]
      /\ \A j, k \in DOMAIN script : j # k => script[j] # script[k]
  BY <1>1, <1>2, ScriptFacts
<1>4. data => bytes \in Bytes /\ bytes.id = Delivery(req, part)
  <2>1. data => Delivery(req, part) \in 1..MaxDeliveries
    BY <1>2, <1>3, DeliveryFacts DEF Parts
  <2>2. QED
    BY <1>2, <2>1 DEF Bytes
<1> HIDE DEF bytes
<1>5. /\ DOMAIN vendor' = DOMAIN vendor /\ Len(vendor') = Len(vendor)
      /\ vendor' \in Seq(Request)
      /\ vendor'[i].script = Tail(script)
      /\ \A j \in DOMAIN vendor : /\ vendor'[j].request = vendor[j].request
                                  /\ vendor'[j].content = vendor[j].content
                                  /\ j # i => vendor'[j] = vendor[j]
  <2>1. [vendor[i] EXCEPT !.script = Tail(@)] \in Request
    BY <1>2, <1>3 DEF Request
  <2>2. vendor' = [vendor EXCEPT ![i] = [vendor[i] EXCEPT !.script = Tail(@)]]
    BY <1>1
  <2>3. QED
    BY <1>2, <2>1, <2>2 DEF Request
<1>6. /\ transfer'.inFlight = transfer.inFlight /\ transfer' \in Transfer
      /\ transfer'.bytes # NoBytes => transfer'.complete
      /\ transfer'.bytes = IF transfer.inFlight /\ data THEN bytes ELSE transfer.bytes
  <2>1. transfer \in Transfer /\ (transfer.bytes # NoBytes => transfer.complete)
    BY DEF TypeOK, Transfer
  <2>2. CASE ~transfer.inFlight
    BY <1>1, <2>1, <2>2
  <2>3. CASE transfer.inFlight
    <3>1. /\ transfer'.inFlight = transfer.inFlight /\ transfer'.complete = TRUE
          /\ transfer'.bytes = IF data THEN bytes ELSE transfer.bytes
      BY <1>1, <2>1, <2>3 DEF Transfer
    <3>2. transfer'.bytes \in Bytes \cup {NoBytes}
      BY <1>4, <2>1, <3>1 DEF Transfer
    <3>3. transfer' = [inFlight |-> transfer.inFlight, complete |-> TRUE,
                       failed |-> transfer'.failed, percent |-> transfer'.percent,
                       bytes |-> transfer'.bytes]
      <4> DEFINE f == transfer.failed \/ ~data
                 p == IF part = "draft" THEN 50 ELSE 100
                 b == IF data THEN bytes ELSE transfer.bytes
      <4>1. transfer' = [transfer EXCEPT !.complete = TRUE, !.failed = f, !.percent = p,
                                         !.bytes = b]
        BY <1>1, <2>1, <2>3 DEF Transfer
      <4> HIDE DEF f, p, b
      <4>2. QED
        BY <2>1, <4>1 DEF Transfer
    <3>4. transfer'.failed \in BOOLEAN /\ transfer'.percent \in {0, 50, 100}
      BY <1>1, <2>1, <2>3 DEF Transfer
    <3>5. transfer' \in Transfer
      <4> DEFINE f == transfer'.failed
                 p == transfer'.percent
                 b == transfer'.bytes
      <4> HIDE DEF f, p, b
      <4>1. f \in BOOLEAN /\ p \in {0, 50, 100} /\ b \in Bytes \cup {NoBytes}
        BY <3>2, <3>4 DEF f, p, b
      <4>2. transfer' = [inFlight |-> transfer.inFlight, complete |-> TRUE, failed |-> f,
                         percent |-> p, bytes |-> b]
        BY <3>3 DEF f, p, b
      <4>3. QED
        BY <2>1, <4>1, <4>2 DEF Transfer
    <3>6. QED
      BY <2>3, <3>1, <3>5
  <2>4. QED
    BY <2>2, <2>3
<1>7. TypeOK'
  <2>1. late' \in BOOLEAN
    BY <1>1 DEF TypeOK, Awaited
  <2>2. QED
    BY <1>1, <1>5, <1>6, <2>1 DEF TypeOK, Transfer, Request
<1>8. InFlightOwned' /\ ServedOnce'
  BY <1>1, <1>6 DEF InFlightOwned, ServedOnce
<1>9. RequestsDistinct'
  BY <1>1, <1>5 DEF RequestsDistinct
<1>10. data => ToCome(i, 1, Delivery(req, part)) /\ Delivery(req, part) \in Nat
  BY <1>2, <1>3, DeliveryFacts DEF ToCome, Parts

\* What is still to come was to come before, and is not what came.
<1>11. ASSUME NEW j \in Nat, NEW k \in Nat, NEW d \in Nat, ToCome(j, k, d)'
       PROVE  /\ data => d # Delivery(req, part)
              /\ served[d] = 0
              /\ transfer.bytes # NoBytes => transfer.bytes.id # d
  <2>1. CASE j = i
    <3>1. k + 1 \in DOMAIN script /\ vendor'[j].script[k] = script[k + 1]
          /\ k \in DOMAIN Tail(script)
      BY <1>3, <1>5, <1>11, <2>1 DEF ToCome
    <3>2. ToCome(i, k + 1, d)
      BY <1>5, <1>11, <2>1, <3>1 DEF ToCome
    <3>3. script[k + 1] # part
      <4>1. k + 1 # 1
        BY <1>2, <1>3, <3>1, ScriptFacts
      <4>2. QED
        BY <1>3, <3>1, <4>1
    <3>4. script[k + 1] \in {"draft", "final"} /\ d = Delivery(req, script[k + 1])
      BY <1>2, <3>1, <3>2, ScriptFacts DEF ToCome, Parts
    <3>5. QED
      BY <1>2, <1>3, <3>2, <3>3, <3>4, DeliveryFacts DEF Fresh, ComingUnserved, Parts
  <2>2. CASE j # i
    <3>1. ToCome(j, k, d) /\ j \in DOMAIN vendor
      BY <1>5, <1>11, <2>2 DEF ToCome
    <3>2. /\ vendor[j].request \in 1..MaxFetches /\ vendor[j].request # req
          /\ vendor[j].script \in Scripts
      BY <2>2, <3>1, VendorTyped DEF RequestsDistinct
    <3>3. vendor[j].script[k] \in {"draft", "final"}
          /\ d = Delivery(vendor[j].request, vendor[j].script[k])
      BY <3>1, <3>2, ScriptFacts DEF ToCome, Parts
    <3>4. data => d # Delivery(req, part)
      <4> DEFINE r == vendor[j].request
                 q == vendor[j].script[k]
      <4> HIDE DEF r, q
      <4>1. r \in 1..MaxFetches /\ r # req /\ q \in {"draft", "final"} /\ d = Delivery(r, q)
        BY <3>2, <3>3 DEF r, q
      <4>2. data => part \in {"draft", "final"}
        BY <1>3 DEF Parts
      <4>3. QED
        BY <1>2, <4>1, <4>2, DeliveryFacts, SMTT(30)
    <3>5. QED
      BY <3>1, <3>4 DEF Fresh, ComingUnserved
  <2>3. QED
    BY <2>1, <2>2
<1>12. Fresh'
  <2>1. HeldUnserved'
    <3>1. CASE transfer.inFlight /\ data
      <4>1. transfer'.bytes.id = Delivery(req, part)
        BY <1>4, <1>6, <3>1
      <4>2. i \in Nat
        BY <1>2
      <4>3. served[Delivery(req, part)] = 0
        BY <1>10, <3>1, <4>2 DEF Fresh, ComingUnserved
      <4>4. QED
        BY <1>1, <4>1, <4>3 DEF HeldUnserved
    <3>2. CASE ~(transfer.inFlight /\ data)
      BY <1>1, <1>6, <3>2 DEF Fresh, HeldUnserved
    <3>3. QED
      BY <3>1, <3>2
  <2>2. ComingUnserved'
    BY <1>1, <1>4, <1>6, <1>11 DEF ComingUnserved
  <2>3. NothingEarly'
    <3>1. data => Delivery(req, part) <= 2 * accepted
      <4>1. req <= accepted /\ accepted \in Nat
        BY DEF RequestsDistinct, TypeOK
      <4>2. data => Delivery(req, part) <= 2 * req /\ Delivery(req, part) \in Nat
        BY <1>2, <1>3, DeliveryFacts DEF Parts
      <4>3. QED
        BY <1>2, <4>1, <4>2
    <3>2. QED
      BY <1>1, <1>4, <1>6, <3>1 DEF Fresh, NothingEarly
  <2>4. QED
    BY <2>1, <2>2, <2>3 DEF Fresh

\* A prompt delivery is for the thread that holds the gate and waits.
<1>13. FetchIsOwn'
  <2> SUFFICES ASSUME ~late', NEW t \in Threads
               PROVE  /\ pc[t] = "request" => transfer'.bytes = NoBytes
                      /\ pc[t] \in {"await", "settle"} =>
                           /\ vendor' # <<>> => vendor'[Len(vendor')].content = want[t]
                           /\ transfer'.bytes # NoBytes => transfer'.bytes.content = want[t]
    BY <1>1 DEF FetchIsOwn
  <2>1. ~late /\ Awaited(i)
    BY <1>1
  <2>2. PICK u \in Threads : pc[u] \in {"await", "settle"}
    BY <2>1 DEF Awaited
  <2>3. i = Len(vendor) /\ vendor # <<>>
    BY <1>2, <2>1 DEF Awaited
  <2>4. CASE t = u
    <3>1. vendor[i].content = want[t]
      BY <2>1, <2>2, <2>3, <2>4 DEF FetchIsOwn
    <3>2. vendor'[Len(vendor')].content = want[t]
      BY <1>5, <2>3, <3>1
    <3>3. data => bytes.content = vendor[i].content
      BY DEF bytes
    <3>4. transfer'.bytes # NoBytes => transfer'.bytes.content = want[t]
      BY <1>6, <2>1, <2>2, <2>4, <3>1, <3>3 DEF FetchIsOwn
    <3>5. QED
      BY <2>2, <2>4, <3>2, <3>4
  <2>5. CASE t # u
    BY <2>2, <2>5 DEF InFlightOwned, Fetching
  <2>6. QED
    BY <2>4, <2>5
<1>14. ReplyIsOwn'
  BY <1>1 DEF ReplyIsOwn
<1>15. QED
  BY <1>7, <1>8, <1>9, <1>12, <1>13, <1>14

LEMMA LinkGoneIInv == IInv /\ (LinkLost \/ CloseDisconnects) => IInv'
<1> SUFFICES ASSUME IInv, LinkLost \/ CloseDisconnects PROVE IInv'
  OBVIOUS
<1> USE DEF IInv
<1>1. /\ vendor' = <<>> /\ link' = FALSE /\ closing' \in {closing, "closed"}
      /\ UNCHANGED <<pc, want, got, gate, transfer, served, accepted, late>>
  BY DEF LinkLost, CloseDisconnects, callers, histories
<1>2. TypeOK'
  <2>1. vendor' \in Seq(Request)
    BY <1>1
  <2>2. QED
    BY ZenonT(60), <1>1, <2>1 DEF TypeOK, Request
<1>3. InFlightOwned'
  BY <1>1 DEF InFlightOwned
<1>4. RequestsDistinct' /\ ServedOnce' /\ Fresh'
  BY <1>1, FreshKept
<1>5. FetchIsOwn' /\ ReplyIsOwn'
  BY <1>1 DEF FetchIsOwn, ReplyIsOwn
<1>6. QED
  BY <1>2, <1>3, <1>4, <1>5

LEMMA CloseWakesIInv == IInv /\ CloseWakes => IInv'
<1> SUFFICES ASSUME IInv, CloseWakes PROVE IInv'
  OBVIOUS
<1> USE DEF IInv
<1>1. /\ closing' = "closing"
      /\ UNCHANGED <<pc, want, got, gate, link, vendor, served, accepted, late>>
  BY DEF CloseWakes, callers, histories
<1>2. transfer' \in Transfer /\ transfer'.bytes = NoBytes /\ transfer'.inFlight = FALSE
  BY DEF CloseWakes, Refused, TypeOK, Transfer
<1>3. TypeOK' /\ InFlightOwned'
  BY <1>1, <1>2 DEF TypeOK, Transfer, InFlightOwned
<1>4. RequestsDistinct' /\ ServedOnce' /\ Fresh'
  BY <1>1, <1>2, FreshKept
<1>5. FetchIsOwn' /\ ReplyIsOwn'
  BY <1>1, <1>2 DEF FetchIsOwn, ReplyIsOwn
<1>6. QED
  BY <1>3, <1>4, <1>5

LEMMA FetchStepIInv ==
  ASSUME NEW t \in Threads, IInv, FetchStep(t)
  PROVE  IInv'
<1>1. CASE EnterGate(t)
  BY <1>1, EnterGateIInv
<1>2. CASE RequestAccepted(t)
  BY <1>2, RequestAcceptedIInv
<1>3. CASE RequestRejected(t) \/ AwaitTimeout(t) \/ AwaitClosed(t)
  BY <1>3, FetchFailsIInv DEF RequestRejected, AwaitTimeout, AwaitClosed, Outcomes
<1>4. CASE AwaitDelivered(t)
  BY <1>4, AwaitDeliveredIInv
<1>5. CASE SettleEnds(t)
  BY <1>5, FinishIInv DEF SettleEnds
<1>6. CASE TakeLook(t)
  BY <1>6, TakeLookIInv
<1>7. CASE TakeCopy(t)
  BY <1>7, TakeCopyIInv
<1>8. QED
  BY <1>1, <1>2, <1>3, <1>4, <1>5, <1>6, <1>7 DEF FetchStep

LEMMA NextIInv == IInv /\ [Next]_vars => IInv'
<1> SUFFICES ASSUME IInv, [Next]_vars PROVE IInv'
  OBVIOUS
<1>1. CASE \E t \in Threads, c \in Contents : StartFetch(t, c)
  BY <1>1, StartFetchIInv
<1>2. CASE \E t \in Threads : FetchStep(t)
  BY <1>2, FetchStepIInv
<1>3. CASE \E i \in DOMAIN vendor : Deliver(i)
  BY <1>3, DeliverIInv
<1>4. CASE LinkLost \/ CloseDisconnects
  BY <1>4, LinkGoneIInv
<1>5. CASE CloseWakes
  BY <1>5, CloseWakesIInv
<1>6. CASE UNCHANGED vars
  BY <1>6 DEF vars, IInv, TypeOK, InFlightOwned, RequestsDistinct, ServedOnce, Fresh,
              HeldUnserved, ComingUnserved, ToCome, NothingEarly, FetchIsOwn, ReplyIsOwn
<1>7. QED
  BY <1>1, <1>2, <1>3, <1>4, <1>5, <1>6 DEF Next

-----------------------------------------------------------------------------
LEMMA InvariantHolds == Spec => []IInv
  BY InitIInv, NextIInv, PTL DEF Spec

\* Every variable of a session's transfers keeps its type, and bytes are only
\* held together with the mark that says so (on_transfer_result,
\* take_transfer_bytes).
THEOREM TypeCorrect == Spec => []TypeOK
<1>1. IInv => TypeOK
  BY DEF IInv
<1>2. QED
  BY InvariantHolds, <1>1, PTL

\* The gate belongs to the one thread between its request and its reply, and
\* something is in flight only while somebody holds the gate
\* (crsdkpy_fetch_content_preview, abandon_transfer, await_transfer, close).
THEOREM GateHolderOwnsFlight == Spec => []InFlightOwned
<1>1. IInv => InFlightOwned
  BY DEF IInv
<1>2. QED
  BY InvariantHolds, <1>1, PTL

\* No delivery is handed out twice, for any number of threads that fetch and
\* take (take_transfer_bytes: "Taking clears the holding buffer").
THEOREM BytesServedOnce == Spec => []ServedOnce
<1>1. IInv => ServedOnce
  BY DEF IInv
<1>2. QED
  BY InvariantHolds, <1>1, PTL

\* As long as nothing was delivered after its fetch had ended, the reply of
\* every fetch is a delivery made for the still it asked for (begin_transfer
\* discards what an earlier fetch left).
THEOREM PromptReplyIsOwn == Spec => []ReplyIsOwn
<1>1. IInv => ReplyIsOwn
  BY DEF IInv
<1>2. QED
  BY InvariantHolds, <1>1, PTL

-----------------------------------------------------------------------------
(* Simulator.                                                              *)
(* What holds of a session is stated of any session of a setup             *)
(* (SessionOK), so that each operator of the model gets a lemma of its own. *)

-----------------------------------------------------------------------------
(* What holds of a session. *)

Fields == {"link", "closed", "mode", "destination", "value", "recording", "postviewOn",
           "pending", "contents", "lastId", "exposures", "served", "frames", "frameIn",
           "blocked", "due", "ready"}

\* t differs from s in the fields F at most.
Only(s, t, F) == DOMAIN t = Fields /\ \A f \in Fields \ F : t[f] = s[f]

ItemOK(item) ==
    /\ item.what \in {"content", "postview"} => item.arg \in Nat
    /\ item.what \in {"focus_property", "focus_status"} => item.arg \in FocusValues
    /\ item.what = "straggler" => item.arg = "FocusIndication"

Args == Nat \union FocusValues \union {None, "FocusIndication"}
Item == {item \in [in : Nat, what : Actions, arg : Args] : ItemOK(item)}

Sorted(q) == \A i, j \in 1..Len(q) : i <= j => q[i].in <= q[j].in

SessionTyped(u, s) ==
    /\ DOMAIN s = Fields
    /\ s.link \in {"connecting", "connected", "reconnecting", "closed"}
    /\ s.closed \in BOOLEAN /\ s.postviewOn \in BOOLEAN
    /\ s.mode \in DOMAIN u.profile.modes
    /\ s.destination \in u.profile.destinations
    /\ s.recording \in {"idle", "starting", "recording", "stopping"}
    /\ "RecordingState" \in DOMAIN s.value
    /\ s.lastId \in Nat /\ s.exposures \in Nat /\ s.frames \in Nat
    /\ s.frameIn \in Nat /\ s.blocked \in Nat
    /\ s.contents \in Seq(Nat)
    /\ s.ready \in Seq(Events)
    /\ s.due \in Seq(Item) /\ Sorted(s.due)

Behind(q, i, what) == \E j \in i + 1..Len(q) : q[j].what = what

\* Behind every action of the one kind stands one of the other kind.
Ends(q, first, second) ==
    \A i \in 1..Len(q) : q[i].what = first => Behind(q, i, second)

Single(q, what) ==
    \A i, j \in 1..Len(q) : q[i].what = what /\ q[j].what = what => i = j
NoLater(q, what, r) == \A i \in 1..Len(q) : q[i].what = what => q[i].in <= r

Comes(q, what) == \E i \in 1..Len(q) : q[i].what = what

\* The still is in the index or on its way there.
Named(s, id) ==
    \/ \E k \in 1..Len(s.contents) : s.contents[k] = id
    \/ \E j \in 1..Len(s.due) : s.due[j].what = "content" /\ s.due[j].arg = id

PostviewsNamed(s) ==
    /\ s.pending # None => Named(s, s.pending)
    /\ \A i \in 1..Len(s.due) : s.due[i].what = "postview" => Named(s, s.due[i].arg)

\* The link and the recording state come out of every passing state.
LinkEnds(s) ==
    /\ s.link = "connecting" => Comes(s.due, "connected")
    /\ s.link = "reconnecting" => Comes(s.due, "recovered")
    /\ Ends(s.due, "lost", "recovered")
RecordingEnds(s) ==
    /\ s.recording = "starting" => Comes(s.due, "recording")
    /\ s.recording = "stopping" => Comes(s.due, "idle")
    /\ s.recording \in {"idle", "recording"} => s.value["RecordingState"] = s.recording

\* One still at a time: the one to come is newer than every one there is.
StillsNumbered(s) ==
    /\ \A k \in 1..Len(s.contents) : s.contents[k] <= s.lastId
    /\ \A k, l \in 1..Len(s.contents) : k < l => s.contents[k] < s.contents[l]
    /\ \A i \in 1..Len(s.due) : s.due[i].what = "content" => s.lastId < s.due[i].arg
    /\ Single(s.due, "content")

\* The live view is blocked until the exposure, and the still comes after it.
ExposureBlocks(s) ==
    /\ Ends(s.due, "exposed", "content")
    /\ NoLater(s.due, "exposed", s.blocked)

SessionOK(u, s) ==
    /\ SessionTyped(u, s)
    /\ PostviewsNamed(s) /\ LinkEnds(s) /\ RecordingEnds(s)
    /\ u.patient => StillsNumbered(s) /\ ExposureBlocks(s)

\* Nothing that is due is left.
NothingDue(s) == s.due = <<>> \/ Head(s.due).in > 0

SimIInv ==
    /\ setup \in Setups /\ calls \in 0..MaxCalls
    /\ session # None => SessionOK(setup, session)

-----------------------------------------------------------------------------
(* Numbers.                                                                *)

\* A set of numbers has a least element.
LEMMA LeastNumber ==
  ASSUME NEW T \in SUBSET Nat, T # {}
  PROVE  \E m \in T : \A k \in T : m <= k
<1> DEFINE R == {ss \in Nat \X Nat : ss[1] < ss[2]}
<1>1. IsWellFoundedOn(R, Nat)
  BY NatLessThanWellFounded DEF OpToRel
<1>2. PICK m \in T : \A y \in T : ~ (<<y, m>> \in R)
  <2> HIDE DEF R
  <2> QED BY <1>1, WFMin
<1>3. ASSUME NEW y \in T PROVE ~(y < m)
  <2>1. <<y, m>> \in Nat \X Nat
    OBVIOUS
  <2> QED BY <1>2, <2>1
<1> QED BY <1>2, <1>3

\* What holds of 0 and of the next number holds of all of them up to n.
LEMMA StepByStep ==
  ASSUME NEW n \in Nat, NEW S, 0 \in S,
         \A k \in 0..n : k # n /\ k \in S => k + 1 \in S
  PROVE  0..n \subseteq S
<1> DEFINE T == (0..n) \ S
<1>1. T \in SUBSET Nat
  OBVIOUS
<1> SUFFICES ASSUME T # {} PROVE FALSE
  OBVIOUS
<1>2. PICK m \in T : \A k \in T : m <= k
  <2> HIDE DEF T
  <2> QED BY <1>1, LeastNumber
<1>3. m # 0 /\ m \in 0..n /\ m \notin S
  OBVIOUS
<1>4. m - 1 \in 0..n /\ m - 1 # n /\ ~(m <= m - 1)
  BY <1>3
<1>5. m - 1 \in S
  BY <1>2, <1>4
<1> QED BY <1>3, <1>4, <1>5

\* A set of indices that reaches down is an initial segment, and its size is
\* its last element.
LEMMA InitialSegment ==
  ASSUME NEW n \in Nat, NEW K \in SUBSET (1..n),
         \A i, j \in 1..n : i <= j /\ j \in K => i \in K
  PROVE  /\ Cardinality(K) \in 0..n
         /\ \A i \in 1..n : i <= Cardinality(K) <=> i \in K
<1> DEFINE T == (1..n + 1) \ K
<1>1. T \in SUBSET Nat /\ n + 1 \in T
  OBVIOUS
<1>2. PICK m \in T : \A k \in T : m <= k
  <2> HIDE DEF T
  <2> QED BY <1>1, LeastNumber
<1>3. m \in 1..n + 1 /\ m \notin K
  OBVIOUS
<1>4. \A i \in 1..m - 1 : i \in K
  <2> SUFFICES ASSUME NEW i \in 1..m - 1, i \notin K PROVE FALSE
    OBVIOUS
  <2>1. i \in T /\ ~(m <= i)
    BY <1>3
  <2> QED BY <1>2, <2>1
<1>5. \A i \in K : i < m
  <2> SUFFICES ASSUME NEW i \in K, m <= i PROVE FALSE
    BY <1>3
  <2>1. m \in 1..n
    BY <1>3
  <2> QED BY <1>3, <2>1
<1>6. K = 1..m - 1
  <2>1. \A i \in K : i \in 1..m - 1
    BY <1>3, <1>5
  <2> QED BY <1>4, <2>1
<1>7. Cardinality(K) = m - 1
  BY <1>3, <1>6, FS_Interval
<1> QED BY <1>3, <1>4, <1>5, <1>7
-----------------------------------------------------------------------------
(* The schedule: an action gets its place, and those that are due land.    *)

LEMMA ConcatFacts ==
  ASSUME NEW S, NEW a \in Seq(S), NEW b \in Seq(S)
  PROVE  /\ a \o b \in Seq(S) /\ Len(a \o b) = Len(a) + Len(b)
         /\ \A i \in 1..Len(a) : (a \o b)[i] = a[i]
         /\ \A i \in 1..Len(b) : (a \o b)[Len(a) + i] = b[i]
OBVIOUS

LEMMA InsertFacts ==
  ASSUME NEW S, NEW q \in Seq(S), NEW e \in S, NEW p \in 0..Len(q),
         NEW r, r = InsertAt(q, p + 1, e)
  PROVE  /\ r \in Seq(S) /\ Len(r) = Len(q) + 1
         /\ r[p + 1] = e
         /\ \A i \in 1..p : r[i] = q[i]
         /\ \A i \in p + 2..Len(q) + 1 : r[i] = q[i - 1]
<1> DEFINE a == SubSeq(q, 1, p)
           b == <<e>>
           c == SubSeq(q, p + 1, Len(q))
<1>1. a \in Seq(S)
  OBVIOUS
<1>2. Len(a) = p /\ \A i \in 1..p : a[i] = q[i]
  OBVIOUS
<1>3. c \in Seq(S)
  OBVIOUS
<1>4. Len(c) = Len(q) - p /\ \A i \in 1..Len(q) - p : c[i] = q[p + i]
  OBVIOUS
<1>5. b \in Seq(S)
  OBVIOUS
<1>6. Len(b) = 1 /\ b[1] = e
  OBVIOUS
<1>7. InsertAt(q, p + 1, e) = (a \o b) \o c
  <2>1. (p + 1) - 1 = p
    OBVIOUS
  <2> QED BY <2>1, Zenon DEF InsertAt
<1> HIDE DEF a, b, c
<1>8. PICK ab : ab = a \o b
  OBVIOUS
<1>9. ab \in Seq(S)
  BY <1>1, <1>5, <1>8, ConcatFacts
<1>10. Len(ab) = p + 1 /\ ab[p + 1] = e /\ \A i \in 1..p : ab[i] = q[i]
  <2>1. /\ Len(ab) = Len(a) + Len(b)
        /\ \A i \in 1..Len(a) : ab[i] = a[i]
        /\ \A i \in 1..Len(b) : ab[Len(a) + i] = b[i]
    BY <1>1, <1>5, <1>8, ConcatFacts
  <2>2. 1 \in 1..Len(b)
    BY <1>6
  <2> QED BY <1>2, <1>6, <2>1, <2>2
<1>11. r = ab \o c
  BY <1>7, <1>8
<1>12. r \in Seq(S)
  BY <1>3, <1>9, <1>11, ConcatFacts
<1>13. /\ Len(r) = Len(ab) + Len(c)
       /\ \A i \in 1..Len(ab) : r[i] = ab[i]
       /\ \A i \in 1..Len(c) : r[Len(ab) + i] = c[i]
  BY <1>3, <1>9, <1>11, ConcatFacts
<1>14. Len(r) = Len(q) + 1 /\ \A i \in 1..p + 1 : r[i] = ab[i]
  BY <1>4, <1>10, <1>13
<1>15. \A i \in p + 2..Len(q) + 1 : r[i] = q[i - 1]
  <2> SUFFICES ASSUME NEW i \in p + 2..Len(q) + 1 PROVE r[i] = q[i - 1]
    OBVIOUS
  <2> DEFINE k == i - (p + 1)
  <2>1. k \in 1..Len(c) /\ Len(ab) + k = i /\ p + k = i - 1
    BY <1>4, <1>10
  <2> HIDE DEF k
  <2>2. r[i] = c[k]
    BY <1>13, <2>1
  <2>3. c[k] = q[i - 1]
    BY <1>4, <2>1
  <2> QED BY <2>2, <2>3
<1>16. p + 1 \in 1..p + 1 /\ \A i \in 1..p : i \in 1..p + 1
  OBVIOUS
<1>17. r[p + 1] = e /\ \A i \in 1..p : r[i] = q[i]
  BY <1>10, <1>14, <1>16
<1> QED BY <1>12, <1>14, <1>15, <1>17

LEMMA PlaceFacts ==
  ASSUME NEW s, s.due \in Seq(Item), Sorted(s.due), NEW in \in Nat
  PROVE  /\ Place(s, in) \in 0..Len(s.due)
         /\ \A i \in 1..Len(s.due) : i <= Place(s, in) <=> s.due[i].in <= in
<1> DEFINE n == Len(s.due)
           K == {i \in DOMAIN s.due : s.due[i].in <= in}
<1>1. n \in Nat /\ DOMAIN s.due = 1..n /\ \A i \in 1..n : s.due[i] \in Item
  OBVIOUS
<1>2. \A i \in 1..n : s.due[i].in \in Nat
  BY <1>1 DEF Item
<1>3. K \in SUBSET (1..n) /\ \A i \in 1..n : i \in K <=> s.due[i].in <= in
  BY <1>1
<1>4. \A i, j \in 1..n : i <= j /\ j \in K => i \in K
  BY <1>2, <1>3 DEF Sorted
<1>5. Place(s, in) = Cardinality(K)
  BY DEF Place
<1> HIDE DEF K, n
<1>6. /\ Cardinality(K) \in 0..n
      /\ \A i \in 1..n : i <= Cardinality(K) <=> i \in K
  BY <1>1, <1>3, <1>4, InitialSegment
<1> QED BY <1>3, <1>5, <1>6 DEF n

\* r is q with a new action, behind all that is due no later than it.
Inserted(q, r, e) ==
    /\ Len(q) \in Nat /\ Len(r) = Len(q) + 1
    /\ \E p \in 0..Len(q) :
          /\ r[p + 1] = e
          /\ \A i \in 1..p : r[i] = q[i] /\ q[i].in <= e.in
          /\ \A i \in p + 2..Len(q) + 1 : r[i] = q[i - 1] /\ e.in < q[i - 1].in

LEMMA ScheduleFacts ==
  ASSUME NEW s, DOMAIN s = Fields, s.due \in Seq(Item), Sorted(s.due),
         NEW in \in Nat, NEW what \in Actions, NEW arg \in Args,
         ItemOK([in |-> in, what |-> what, arg |-> arg]),
         NEW t, t = Schedule(s, in, what, arg)
  PROVE  /\ Only(s, t, {"due"}) /\ t.due \in Seq(Item) /\ Sorted(t.due)
         /\ Inserted(s.due, t.due, [in |-> in, what |-> what, arg |-> arg])
<1> DEFINE n == Len(s.due)
           p == Place(s, in)
           e == [in |-> in, what |-> what, arg |-> arg]
           r == InsertAt(s.due, p + 1, e)
<1>1. e \in Item /\ e.in = in
  BY DEF Item
<1>2. p \in 0..n /\ \A i \in 1..n : i <= p <=> s.due[i].in <= in
  BY PlaceFacts
<1>3. /\ r \in Seq(Item) /\ Len(r) = n + 1
      /\ r[p + 1] = e
      /\ \A i \in 1..p : r[i] = s.due[i]
      /\ \A i \in p + 2..n + 1 : r[i] = s.due[i - 1]
  <2>1. PICK q, pp, ee, rr : q = s.due /\ pp = p /\ ee = e /\ rr = r
    OBVIOUS
  <2>2. q \in Seq(Item)
    BY <2>1
  <2>3. ee \in Item
    BY <1>1, <2>1
  <2>4. pp \in 0..Len(q)
    BY <1>2, <2>1
  <2>5. rr = InsertAt(q, pp + 1, ee)
    BY <2>1
  <2>6. rr \in Seq(Item) /\ Len(rr) = Len(q) + 1
    BY <2>2, <2>3, <2>4, <2>5, InsertFacts
  <2>7. rr[pp + 1] = ee
    BY <2>2, <2>3, <2>4, <2>5, InsertFacts
  <2>8. \A i \in 1..pp : rr[i] = q[i]
    BY <2>2, <2>3, <2>4, <2>5, InsertFacts
  <2>9. \A i \in pp + 2..Len(q) + 1 : rr[i] = q[i - 1]
    BY <2>2, <2>3, <2>4, <2>5, InsertFacts
  <2> HIDE DEF e, p, r
  <2> QED BY <2>1, <2>6, <2>7, <2>8, <2>9
<1>4. Schedule(s, in, what, arg) = [s EXCEPT !.due = r]
  BY DEF Schedule
<1> HIDE DEF r, p
<1>5. \A i \in 1..n : s.due[i].in \in Nat
  BY DEF Item
<1>6. \A i \in 1..p : s.due[i].in <= in
  BY <1>2
<1>7. \A i \in p + 2..n + 1 : in < s.due[i - 1].in
  <2> SUFFICES ASSUME NEW i \in p + 2..n + 1 PROVE in < s.due[i - 1].in
    OBVIOUS
  <2>1. i - 1 \in 1..n /\ ~(i - 1 <= p)
    BY <1>2
  <2> QED BY <1>2, <1>5, <2>1
<1>8. Sorted(r)
  <2> SUFFICES ASSUME NEW i \in 1..n + 1, NEW j \in 1..n + 1, i <= j
               PROVE  r[i].in <= r[j].in
    BY <1>3 DEF Sorted
  <2>1. CASE j <= p
    <3>1. i \in 1..p /\ j \in 1..p /\ i \in 1..n /\ j \in 1..n
      BY <1>2, <2>1
    <3>2. r[i] = s.due[i] /\ r[j] = s.due[j]
      BY <1>3, <3>1
    <3> QED BY <3>1, <3>2 DEF Sorted
  <2>2. CASE i <= p /\ j = p + 1
    BY <1>1, <1>2, <1>3, <1>6, <2>2, SMTT(30)
  <2>3. CASE i <= p /\ j > p + 1
    <3>1. i \in 1..p /\ j \in p + 2..n + 1 /\ i \in 1..n /\ j - 1 \in 1..n /\ i <= j - 1
      BY <1>2, <2>3
    <3>2. r[i] = s.due[i] /\ r[j] = s.due[j - 1]
      BY <1>3, <3>1
    <3> QED BY <3>1, <3>2 DEF Sorted
  <2>4. CASE i = p + 1 /\ j = p + 1
    BY <1>1, <1>3, <2>4
  <2>5. CASE i = p + 1 /\ j > p + 1
    <3>1. j \in p + 2..n + 1 /\ j - 1 \in 1..n
      BY <1>2, <2>5
    <3>2. r[i] = e /\ r[j] = s.due[j - 1] /\ in < s.due[j - 1].in
      BY <1>3, <1>7, <2>5, <3>1
    <3> QED BY <1>1, <1>5, <3>1, <3>2, SMTT(30)
  <2>6. CASE i > p + 1
    <3>1. /\ i \in p + 2..n + 1 /\ j \in p + 2..n + 1
          /\ i - 1 \in 1..n /\ j - 1 \in 1..n /\ i - 1 <= j - 1
      BY <1>2, <2>6
    <3>2. r[i] = s.due[i - 1] /\ r[j] = s.due[j - 1]
      BY <1>3, <3>1
    <3> QED BY <3>1, <3>2 DEF Sorted
  <2> QED BY <1>2, <2>1, <2>2, <2>3, <2>4, <2>5, <2>6
<1>9. Only(s, [s EXCEPT !.due = r], {"due"}) /\ [s EXCEPT !.due = r].due = r
  BY DEF Only, Fields
<1>10. Inserted(s.due, r, e)
  <2> HIDE DEF e
  <2>1. n \in Nat /\ p \in 0..n
    BY <1>2
  <2> QED BY <1>1, <1>3, <1>6, <1>7, <2>1 DEF Inserted, n
<1> QED BY <1>3, <1>4, <1>8, <1>9, <1>10

\* A fold by a function has the values its equation says.
LEMMA LandedIsRun ==
  ASSUME NEW s, Len(s.due) \in Nat
  PROVE  \E g : /\ g = [k \in 0..Len(s.due) |-> IF k = 0 THEN s ELSE LandFirst(g[k - 1])]
                /\ Landed(s) = g[Len(s.due)]
<1> DEFINE Run(n, g) == g = [k \in 0..n |-> IF k = 0 THEN s ELSE LandFirst(g[k - 1])]
           S == {n \in 0..Len(s.due) : \E g : Run(n, g)}
<1>1. 0 \in S
  <2> DEFINE g == [k \in 0..0 |-> s]
  <2>1. Run(0, g)
    OBVIOUS
  <2> HIDE DEF Run, g
  <2> QED BY <2>1
<1>2. ASSUME NEW n \in 0..Len(s.due), n # Len(s.due), n \in S PROVE n + 1 \in S
  <2>1. PICK g : Run(n, g)
    BY <1>2
  <2> DEFINE h == [k \in 0..n + 1 |-> IF k <= n THEN g[k] ELSE LandFirst(g[n])]
  <2>2. \A k \in 0..n + 1 : h[k] = IF k = 0 THEN s ELSE LandFirst(h[k - 1])
    BY <2>1
  <2>3. Run(n + 1, h)
    BY <2>2
  <2>4. n + 1 \in 0..Len(s.due)
    BY <1>2
  <2> HIDE DEF Run, h
  <2> QED BY <2>3, <2>4
<1>3. 0..Len(s.due) \subseteq S
  <2> HIDE DEF S
  <2> QED BY <1>1, <1>2, StepByStep
<1>4. \E g : Run(Len(s.due), g)
  BY <1>3, SMTT(30)
<1>5. PICK g : g = CHOOSE h : Run(Len(s.due), h)
  OBVIOUS
<1>6. Run(Len(s.due), g)
  BY <1>4, <1>5
<1>7. Landed(s) = g[Len(s.due)]
  BY <1>5 DEF Landed
<1> QED BY <1>6, <1>7

LEMMA EmitFacts ==
  ASSUME NEW s, DOMAIN s = Fields, NEW events \in Seq(Events), NEW t, t = Emit(s, events)
  PROVE  /\ Only(s, t, {"ready"})
         /\ s.ready \in Seq(Events) => t.ready \in Seq(Events)
<1>1. Only(s, t, {"ready"}) /\ t.ready = s.ready \o events
  BY DEF Emit, Only, Fields
<1> QED BY <1>1

\* What the landing of an action changes.
LandingFields == {"link", "value", "exposures", "contents", "lastId", "pending",
                  "recording", "frameIn", "ready"}
Links(item, old) == CASE item.what \in {"connected", "recovered"} -> "connected"
                      [] item.what = "lost" -> "reconnecting"
                      [] OTHER -> old
Changed(item, whats, new, old) == IF item.what \in whats THEN new ELSE old

LEMMA LandFacts ==
  ASSUME NEW s, DOMAIN s = Fields, s.ready \in Seq(Events), s.exposures \in Nat,
         "RecordingState" \in DOMAIN s.value, NEW item \in Item,
         NEW t, t = Land(s, item)
  PROVE  /\ Only(s, t, LandingFields)
         /\ t.ready \in Seq(Events) /\ t.exposures \in Nat
         /\ t.link = Links(item, s.link)
         /\ t.contents = Changed(item, {"content"}, Append(s.contents, item.arg), s.contents)
         /\ t.lastId = Changed(item, {"content"}, item.arg, s.lastId)
         /\ t.pending = Changed(item, {"postview"}, item.arg, s.pending)
         /\ t.frameIn = Changed(item, {"recovered"}, 0, s.frameIn)
         /\ t.recording = Changed(item, {"recording", "idle"}, item.what, s.recording)
         /\ "RecordingState" \in DOMAIN t.value
         /\ t.value["RecordingState"]
               = Changed(item, {"recording", "idle"}, item.what, s.value["RecordingState"])
<1>1. CASE item.what = "connected"
  <2> DEFINE r == [s EXCEPT !.link = "connected"]
             e == <<<<"connection", "connected">>>>
  <2>1. t = Emit(r, e)
    BY <1>1 DEF Land
  <2>2. e \in Seq(Events)
    BY <1>1 DEF Events
  <2>3. Only(s, r, {"link"}) /\ r.link = "connected"
    BY DEF Only, Fields
  <2> HIDE DEF r, e
  <2>4. Only(r, t, {"ready"}) /\ (r.ready \in Seq(Events) => t.ready \in Seq(Events))
    BY <2>1, <2>2, <2>3, EmitFacts DEF Only
  <2> QED BY <1>1, <2>3, <2>4 DEF Only, Fields, LandingFields, Links, Changed
<1>2. CASE item.what = "lost"
  <2> DEFINE r == [s EXCEPT !.link = "reconnecting"]
             e == <<<<"connection", "reconnecting">>>>
                  \o IF scenario.quietLoss THEN <<>> ELSE <<<<"connection", "closed">>>>
  <2>1. t = Emit(r, e)
    BY <1>2 DEF Land
  <2>2. e \in Seq(Events)
    BY <1>2 DEF Events
  <2>3. Only(s, r, {"link"}) /\ r.link = "reconnecting"
    BY DEF Only, Fields
  <2> HIDE DEF r, e
  <2>4. Only(r, t, {"ready"}) /\ (r.ready \in Seq(Events) => t.ready \in Seq(Events))
    BY <2>1, <2>2, <2>3, EmitFacts DEF Only
  <2> QED BY <1>2, <2>3, <2>4 DEF Only, Fields, LandingFields, Links, Changed
<1>3. CASE item.what = "recovered"
  <2> DEFINE r == [s EXCEPT !.link = "connected", !.frameIn = 0]
             e == (IF scenario.connectedTwice THEN <<<<"connection", "connected">>>> ELSE <<>>)
                  \o <<<<"connection", "recovered">>>>
  <2>1. t = Emit(r, e)
    BY <1>3 DEF Land
  <2>2. e \in Seq(Events)
    BY <1>3 DEF Events
  <2>3. Only(s, r, {"link", "frameIn"}) /\ r.link = "connected" /\ r.frameIn = 0
    BY DEF Only, Fields
  <2> HIDE DEF r, e
  <2>4. Only(r, t, {"ready"}) /\ (r.ready \in Seq(Events) => t.ready \in Seq(Events))
    BY <2>1, <2>2, <2>3, EmitFacts DEF Only
  <2> QED BY <1>3, <2>3, <2>4 DEF Only, Fields, LandingFields, Links, Changed
<1>4. CASE item.what = "focus_property"
  <2> DEFINE r == [s EXCEPT !.value["FocusIndication"] = item.arg]
             e == <<<<"property", "FocusIndication">>, <<"focus", item.arg>>>>
  <2>1. t = Emit(r, e)
    BY <1>4 DEF Land
  <2>2. e \in Seq(Events)
    BY <1>4 DEF Events, Item, ItemOK
  <2>3. Only(s, r, {"value"}) /\ DOMAIN r.value = DOMAIN s.value
        /\ r.value["RecordingState"] = s.value["RecordingState"]
    BY DEF Only, Fields
  <2> HIDE DEF r, e
  <2>4. Only(r, t, {"ready"}) /\ (r.ready \in Seq(Events) => t.ready \in Seq(Events))
    BY <2>1, <2>2, <2>3, EmitFacts DEF Only
  <2> QED BY <1>4, <2>3, <2>4 DEF Only, Fields, LandingFields, Links, Changed
<1>5. CASE item.what = "focus_status"
  <2> DEFINE r == s
             e == <<<<"focus", item.arg>>>>
  <2>1. t = Emit(r, e)
    BY <1>5 DEF Land
  <2>2. e \in Seq(Events)
    BY <1>5 DEF Events, Item, ItemOK
  <2>3. Only(s, r, {})
    BY DEF Only, Fields
  <2> HIDE DEF r, e
  <2>4. Only(r, t, {"ready"}) /\ (r.ready \in Seq(Events) => t.ready \in Seq(Events))
    BY <2>1, <2>2, <2>3, EmitFacts DEF Only
  <2> QED BY <1>5, <2>3, <2>4 DEF Only, Fields, LandingFields, Links, Changed
<1>6. CASE item.what = "exposed"
  <2> DEFINE r == [s EXCEPT !.exposures = @ + 1]
             e == <<<<"capture", "complete">>>>
  <2>1. t = Emit(r, e)
    BY <1>6 DEF Land
  <2>2. e \in Seq(Events)
    BY <1>6 DEF Events
  <2>3. Only(s, r, {"exposures"}) /\ r.exposures = s.exposures + 1
    BY DEF Only, Fields
  <2> HIDE DEF r, e
  <2>4. Only(r, t, {"ready"}) /\ (r.ready \in Seq(Events) => t.ready \in Seq(Events))
    BY <2>1, <2>2, <2>3, EmitFacts DEF Only
  <2> QED BY <1>6, <2>3, <2>4 DEF Only, Fields, LandingFields, Links, Changed
<1>7. CASE item.what = "content"
  <2> DEFINE r == Stored(s, item.arg)
             e == <<<<"content", "added">>>>
  <2>1. t = Emit(r, e)
    BY <1>7 DEF Land
  <2>2. e \in Seq(Events)
    BY <1>7 DEF Events
  <2>3. Only(s, r, {"contents", "lastId"}) /\ r.lastId = item.arg
        /\ r.contents = Append(s.contents, item.arg)
    BY DEF Only, Fields, Stored
  <2> HIDE DEF r, e
  <2>4. Only(r, t, {"ready"}) /\ (r.ready \in Seq(Events) => t.ready \in Seq(Events))
    BY <2>1, <2>2, <2>3, EmitFacts DEF Only
  <2> QED BY <1>7, <2>3, <2>4 DEF Only, Fields, LandingFields, Links, Changed
<1>8. CASE item.what = "postview"
  <2>1. t = [s EXCEPT !.pending = item.arg]
    BY <1>8 DEF Land
  <2>2. Only(s, t, {"pending"}) /\ t.pending = item.arg
    BY <2>1 DEF Only, Fields
  <2> QED BY <1>8, <2>2 DEF Only, Fields, LandingFields, Links, Changed
<1>9. CASE item.what = "unknown"
  <2> DEFINE r == s
             e == <<<<"unknown", "0xDEAD">>>>
  <2>1. t = Emit(r, e)
    BY <1>9 DEF Land
  <2>2. e \in Seq(Events)
    BY <1>9 DEF Events
  <2>3. Only(s, r, {})
    BY DEF Only, Fields
  <2> HIDE DEF r, e
  <2>4. Only(r, t, {"ready"}) /\ (r.ready \in Seq(Events) => t.ready \in Seq(Events))
    BY <2>1, <2>2, <2>3, EmitFacts DEF Only
  <2> QED BY <1>9, <2>3, <2>4 DEF Only, Fields, LandingFields, Links, Changed
<1>10. CASE item.what = "straggler"
  <2> DEFINE r == s
             e == <<<<"property", item.arg>>>>
  <2>1. t = Emit(r, e)
    BY <1>10 DEF Land
  <2>2. e \in Seq(Events)
    BY <1>10 DEF Events, Item, ItemOK
  <2>3. Only(s, r, {})
    BY DEF Only, Fields
  <2> HIDE DEF r, e
  <2>4. Only(r, t, {"ready"}) /\ (r.ready \in Seq(Events) => t.ready \in Seq(Events))
    BY <2>1, <2>2, <2>3, EmitFacts DEF Only
  <2> QED BY <1>10, <2>3, <2>4 DEF Only, Fields, LandingFields, Links, Changed
<1>11. CASE item.what = "recording"
  <2> DEFINE r == [s EXCEPT !.recording = "recording", !.value["RecordingState"] = "recording"]
             e == <<<<"recording", "recording">>>>
  <2>1. t = Emit(r, e)
    BY <1>11 DEF Land
  <2>2. e \in Seq(Events)
    BY <1>11 DEF Events
  <2>3. Only(s, r, {"recording", "value"}) /\ r.recording = "recording"
        /\ DOMAIN r.value = DOMAIN s.value /\ r.value["RecordingState"] = "recording"
    BY DEF Only, Fields
  <2> HIDE DEF r, e
  <2>4. Only(r, t, {"ready"}) /\ (r.ready \in Seq(Events) => t.ready \in Seq(Events))
    BY <2>1, <2>2, <2>3, EmitFacts DEF Only
  <2> QED BY <1>11, <2>3, <2>4 DEF Only, Fields, LandingFields, Links, Changed
<1>12. CASE item.what = "idle"
  <2> DEFINE r == Stopped(s)
             e == <<<<"recording", "idle">>>>
  <2>1. t = Emit(r, e)
    BY <1>12 DEF Land
  <2>2. e \in Seq(Events)
    BY <1>12 DEF Events
  <2>3. Only(s, r, {"recording", "value"}) /\ r.recording = "idle"
        /\ DOMAIN r.value = DOMAIN s.value /\ r.value["RecordingState"] = "idle"
    BY DEF Only, Fields, Stopped
  <2> HIDE DEF r, e
  <2>4. Only(r, t, {"ready"}) /\ (r.ready \in Seq(Events) => t.ready \in Seq(Events))
    BY <2>1, <2>2, <2>3, EmitFacts DEF Only
  <2> QED BY <1>12, <2>3, <2>4 DEF Only, Fields, LandingFields, Links, Changed
<1> QED
  BY <1>1, <1>2, <1>3, <1>4, <1>5, <1>6, <1>7, <1>8, <1>9, <1>10, <1>11, <1>12
  DEF Item, Actions
-----------------------------------------------------------------------------
(* What is due lands, one action after the other.                          *)

LEMMA TailFacts ==
  ASSUME NEW S, NEW q \in Seq(S), q # <<>>
  PROVE  /\ Tail(q) \in Seq(S) /\ Len(Tail(q)) = Len(q) - 1 /\ Len(q) \in Nat \ {0}
         /\ Head(q) = q[1] /\ q[1] \in S
         /\ \A i \in 1..Len(q) - 1 : Tail(q)[i] = q[i + 1]
         /\ \A i \in 2..Len(q) : q[i] = Tail(q)[i - 1]
OBVIOUS

LEMMA TailSorted ==
  ASSUME NEW q \in Seq(Item), q # <<>>, Sorted(q)
  PROVE  Sorted(Tail(q))
BY TailFacts DEF Sorted

\* What the first action leaves behind it.
LEMMA TailKinds ==
  ASSUME NEW q \in Seq(Item), q # <<>>, NEW a, NEW b
  PROVE  /\ Ends(q, a, b) => Ends(Tail(q), a, b)
         /\ Ends(q, a, b) /\ q[1].what = a => Comes(Tail(q), b)
         /\ Comes(q, a) /\ q[1].what # a => Comes(Tail(q), a)
<1> DEFINE r == Tail(q)
<1>1. /\ r \in Seq(Item) /\ Len(r) = Len(q) - 1 /\ Len(q) \in Nat \ {0}
      /\ \A i \in 1..Len(q) - 1 : r[i] = q[i + 1]
      /\ \A i \in 2..Len(q) : q[i] = r[i - 1]
  BY TailFacts
<1> HIDE DEF r
<1>3. ASSUME Ends(q, a, b), NEW i \in 1..Len(q), q[i].what = a
      PROVE  \E j \in i..Len(r) : r[j].what = b
  <2>1. PICK j \in i + 1..Len(q) : q[j].what = b
    BY <1>3 DEF Ends, Behind
  <2>2. j \in 2..Len(q) /\ j - 1 \in i..Len(r)
    BY <1>1
  <2> QED BY <1>1, <2>1, <2>2
<1>4. Ends(q, a, b) => Ends(r, a, b)
  <2> SUFFICES ASSUME Ends(q, a, b), NEW i \in 1..Len(r), r[i].what = a
               PROVE  \E j \in i + 1..Len(r) : r[j].what = b
    BY DEF Ends, Behind
  <2>1. i + 1 \in 1..Len(q) /\ q[i + 1].what = a
    BY <1>1
  <2> QED BY <1>3, <2>1
<1>5. Ends(q, a, b) /\ q[1].what = a => Comes(r, b)
  <2> SUFFICES ASSUME Ends(q, a, b), q[1].what = a PROVE Comes(r, b)
    OBVIOUS
  <2>1. 1 \in 1..Len(q)
    BY <1>1
  <2> QED BY <1>3, <2>1 DEF Comes
<1>6. Comes(q, a) /\ q[1].what # a => Comes(r, a)
  <2> SUFFICES ASSUME NEW i \in 1..Len(q), q[i].what = a, q[1].what # a
               PROVE  Comes(r, a)
    BY DEF Comes
  <2>1. i \in 2..Len(q) /\ i - 1 \in 1..Len(r)
    BY <1>1
  <2> QED BY <1>1, <2>1 DEF Comes
<1> QED BY <1>4, <1>5, <1>6 DEF r

\* The action that stands first lands: the fields, before and after.
LEMMA LandFirstFacts ==
  ASSUME NEW u, NEW s, SessionTyped(u, s), ~NothingDue(s), NEW t, t = LandFirst(s)
  PROVE  /\ s.due # <<>> /\ s.due[1] \in Item /\ t.due = Tail(s.due)
         /\ Only(s, t, LandingFields \union {"due"})
         /\ t.ready \in Seq(Events) /\ t.exposures \in Nat
         /\ t.link = Links(s.due[1], s.link)
         /\ t.contents = Changed(s.due[1], {"content"}, Append(s.contents, s.due[1].arg), s.contents)
         /\ t.lastId = Changed(s.due[1], {"content"}, s.due[1].arg, s.lastId)
         /\ t.pending = Changed(s.due[1], {"postview"}, s.due[1].arg, s.pending)
         /\ t.frameIn = Changed(s.due[1], {"recovered"}, 0, s.frameIn)
         /\ t.recording = Changed(s.due[1], {"recording", "idle"}, s.due[1].what, s.recording)
         /\ "RecordingState" \in DOMAIN t.value
         /\ t.value["RecordingState"]
               = Changed(s.due[1], {"recording", "idle"}, s.due[1].what, s.value["RecordingState"])
<1> DEFINE r == [s EXCEPT !.due = Tail(s.due)]
           item == s.due[1]
<1>1. s.due # <<>> /\ item \in Item /\ Head(s.due) = item
  BY TailFacts DEF SessionTyped, NothingDue
<1>2. t = Land(r, item)
  BY <1>1 DEF LandFirst, NothingDue
<1>3. Only(s, r, {"due"}) /\ r.due = Tail(s.due)
  BY DEF Only, Fields, SessionTyped
<1>4. /\ DOMAIN r = Fields /\ r.ready \in Seq(Events) /\ r.exposures \in Nat
      /\ "RecordingState" \in DOMAIN r.value
  BY <1>3 DEF Only, Fields, SessionTyped
<1> HIDE DEF r, item
<1>5. /\ Only(r, t, LandingFields)
      /\ t.ready \in Seq(Events) /\ t.exposures \in Nat
      /\ t.link = Links(item, r.link)
      /\ t.contents = Changed(item, {"content"}, Append(r.contents, item.arg), r.contents)
      /\ t.lastId = Changed(item, {"content"}, item.arg, r.lastId)
      /\ t.pending = Changed(item, {"postview"}, item.arg, r.pending)
      /\ t.frameIn = Changed(item, {"recovered"}, 0, r.frameIn)
      /\ t.recording = Changed(item, {"recording", "idle"}, item.what, r.recording)
      /\ "RecordingState" \in DOMAIN t.value
      /\ t.value["RecordingState"]
            = Changed(item, {"recording", "idle"}, item.what, r.value["RecordingState"])
  BY <1>1, <1>2, <1>4, LandFacts
<1>6. /\ r.link = s.link /\ r.contents = s.contents /\ r.lastId = s.lastId
      /\ r.pending = s.pending /\ r.frameIn = s.frameIn /\ r.recording = s.recording
      /\ r.value = s.value
  BY <1>3 DEF Only, Fields
<1>7. Only(s, t, LandingFields \union {"due"}) /\ t.due = Tail(s.due)
  BY <1>3, <1>5 DEF Only, Fields, LandingFields
<1> QED BY <1>1, <1>5, <1>6, <1>7 DEF item
LEMMA LandFirstTyped ==
  ASSUME NEW u, NEW s, SessionTyped(u, s), ~NothingDue(s), NEW t, t = LandFirst(s)
  PROVE  SessionTyped(u, t)
<1> DEFINE item == s.due[1]
<1>1. /\ s.due # <<>> /\ item \in Item /\ t.due = Tail(s.due)
      /\ Only(s, t, LandingFields \union {"due"})
      /\ t.ready \in Seq(Events) /\ t.exposures \in Nat
      /\ t.link = Links(item, s.link)
      /\ t.contents = Changed(item, {"content"}, Append(s.contents, item.arg), s.contents)
      /\ t.lastId = Changed(item, {"content"}, item.arg, s.lastId)
      /\ t.frameIn = Changed(item, {"recovered"}, 0, s.frameIn)
      /\ t.recording = Changed(item, {"recording", "idle"}, item.what, s.recording)
      /\ "RecordingState" \in DOMAIN t.value
  BY LandFirstFacts
<1>2. s.due \in Seq(Item) /\ Sorted(s.due)
  BY DEF SessionTyped
<1>3. t.due \in Seq(Item) /\ Sorted(t.due)
  BY <1>1, <1>2, TailFacts, TailSorted
<1>4. item.what = "content" => item.arg \in Nat
  BY <1>1 DEF Item, ItemOK
<1> HIDE DEF item
<1>5. t.contents \in Seq(Nat) /\ t.lastId \in Nat
  <2>1. CASE item.what = "content"
    BY <1>1, <1>4, <2>1 DEF SessionTyped, Changed
  <2>2. CASE item.what # "content"
    BY <1>1, <2>2 DEF SessionTyped, Changed
  <2> QED BY <2>1, <2>2
<1>6. t.link \in {"connecting", "connected", "reconnecting", "closed"}
  BY <1>1 DEF SessionTyped, Links
<1>7. t.recording \in {"idle", "starting", "recording", "stopping"} /\ t.frameIn \in Nat
  BY <1>1 DEF SessionTyped, Changed
<1>8. /\ DOMAIN t = Fields
      /\ t.closed = s.closed /\ t.mode = s.mode /\ t.destination = s.destination
      /\ t.postviewOn = s.postviewOn /\ t.frames = s.frames /\ t.blocked = s.blocked
  BY <1>1 DEF Only, Fields, LandingFields
<1> QED BY <1>1, <1>3, <1>5, <1>6, <1>7, <1>8 DEF SessionTyped

\* A still that is on its way is still on its way, or has arrived.
LEMMA LandFirstNames ==
  ASSUME NEW u, NEW s, SessionTyped(u, s), ~NothingDue(s), NEW t, t = LandFirst(s)
  PROVE  /\ \A id : Named(s, id) => Named(t, id)
         /\ PostviewsNamed(s) => PostviewsNamed(t)
<1> DEFINE item == s.due[1]
           n == Len(s.due)
<1>1. /\ s.due # <<>> /\ item \in Item /\ t.due = Tail(s.due)
      /\ t.contents = Changed(item, {"content"}, Append(s.contents, item.arg), s.contents)
      /\ t.pending = Changed(item, {"postview"}, item.arg, s.pending)
  BY LandFirstFacts
<1>2. s.due \in Seq(Item) /\ s.contents \in Seq(Nat)
  BY DEF SessionTyped
<1>3. /\ Len(t.due) = n - 1 /\ n \in Nat \ {0}
      /\ \A i \in 1..n - 1 : t.due[i] = s.due[i + 1]
      /\ \A i \in 2..n : s.due[i] = t.due[i - 1]
  BY <1>1, <1>2, TailFacts
<1>4. item.what = "content" => item.arg \in Nat
  BY <1>1 DEF Item, ItemOK
<1>5. item.what = "content" =>
         /\ Len(t.contents) = Len(s.contents) + 1
         /\ t.contents[Len(s.contents) + 1] = item.arg
         /\ \A k \in 1..Len(s.contents) : t.contents[k] = s.contents[k]
  BY <1>1, <1>2, <1>4 DEF Changed
<1>6. item.what # "content" => t.contents = s.contents
  BY <1>1 DEF Changed
<1>7. Len(s.contents) \in Nat
  BY <1>2
<1>8. ASSUME NEW id, Named(s, id) PROVE Named(t, id)
  <2>1. CASE \E k \in 1..Len(s.contents) : s.contents[k] = id
    <3>1. PICK k \in 1..Len(s.contents) : s.contents[k] = id
      BY <2>1
    <3>2. k \in 1..Len(t.contents) /\ t.contents[k] = id
      BY <1>5, <1>6, <1>7, <3>1
    <3> QED BY <3>2 DEF Named
  <2>2. CASE \E j \in 1..n : s.due[j].what = "content" /\ s.due[j].arg = id
    <3>1. PICK j \in 1..n : s.due[j].what = "content" /\ s.due[j].arg = id
      BY <2>2
    <3>2. CASE j = 1
      <4>1. Len(s.contents) + 1 \in 1..Len(t.contents) /\ t.contents[Len(s.contents) + 1] = id
        BY <1>5, <1>7, <3>1, <3>2
      <4> QED BY <4>1 DEF Named
    <3>3. CASE j # 1
      <4>1. j \in 2..n /\ j - 1 \in 1..Len(t.due)
        BY <1>3, <3>1, <3>3
      <4>2. t.due[j - 1].what = "content" /\ t.due[j - 1].arg = id
        BY <1>3, <3>1, <4>1
      <4> QED BY <4>1, <4>2 DEF Named
    <3> QED BY <3>2, <3>3
  <2> QED BY <1>8, <2>1, <2>2 DEF Named
<1>9. ASSUME PostviewsNamed(s) PROVE PostviewsNamed(t)
  <2>1. t.pending # None => Named(t, t.pending)
    <3>1. CASE item.what = "postview"
      <4>1. 1 \in 1..n /\ t.pending = item.arg
        BY <1>1, <1>3, <3>1 DEF Changed
      <4>2. Named(s, item.arg)
        BY <1>9, <3>1, <4>1 DEF PostviewsNamed
      <4> QED BY <1>8, <4>1, <4>2
    <3>2. CASE item.what # "postview"
      BY <1>1, <1>8, <1>9, <3>2 DEF Changed, PostviewsNamed
    <3> QED BY <3>1, <3>2
  <2>2. ASSUME NEW i \in 1..Len(t.due), t.due[i].what = "postview"
        PROVE  Named(t, t.due[i].arg)
    <3>1. i + 1 \in 1..n /\ t.due[i] = s.due[i + 1]
      BY <1>3
    <3>2. Named(s, s.due[i + 1].arg)
      BY <1>9, <2>2, <3>1 DEF PostviewsNamed
    <3> QED BY <1>8, <3>1, <3>2
  <2> QED BY <2>1, <2>2 DEF PostviewsNamed
<1> QED BY <1>8, <1>9

LEMMA LandFirstEnds ==
  ASSUME NEW u, NEW s, SessionTyped(u, s), ~NothingDue(s), NEW t, t = LandFirst(s)
  PROVE  /\ LinkEnds(s) => LinkEnds(t)
         /\ RecordingEnds(s) => RecordingEnds(t)
<1> DEFINE item == s.due[1]
<1>1. /\ s.due # <<>> /\ t.due = Tail(s.due)
      /\ t.link = Links(item, s.link)
      /\ t.recording = Changed(item, {"recording", "idle"}, item.what, s.recording)
      /\ t.value["RecordingState"]
            = Changed(item, {"recording", "idle"}, item.what, s.value["RecordingState"])
  BY LandFirstFacts
<1>2. s.due \in Seq(Item)
  BY DEF SessionTyped
<1>3. \A a : Comes(s.due, a) /\ item.what # a => Comes(t.due, a)
  BY <1>1, <1>2, TailKinds
<1>4. /\ Ends(s.due, "lost", "recovered") => Ends(t.due, "lost", "recovered")
      /\ Ends(s.due, "lost", "recovered") /\ item.what = "lost" => Comes(t.due, "recovered")
  BY <1>1, <1>2, TailKinds
<1> HIDE DEF item
<1>5. LinkEnds(s) => LinkEnds(t)
  BY <1>1, <1>3, <1>4 DEF LinkEnds, Links
<1>6. RecordingEnds(s) => RecordingEnds(t)
  BY <1>1, <1>3 DEF RecordingEnds, Changed
<1> QED BY <1>5, <1>6

LEMMA LandFirstInTurn ==
  ASSUME NEW u, NEW s, SessionTyped(u, s), ~NothingDue(s), NEW t, t = LandFirst(s),
         StillsNumbered(s), ExposureBlocks(s)
  PROVE  StillsNumbered(t) /\ ExposureBlocks(t)
<1> DEFINE item == s.due[1]
           n == Len(s.due)
<1>1. /\ s.due # <<>> /\ item \in Item /\ t.due = Tail(s.due)
      /\ Only(s, t, LandingFields \union {"due"})
      /\ t.contents = Changed(item, {"content"}, Append(s.contents, item.arg), s.contents)
      /\ t.lastId = Changed(item, {"content"}, item.arg, s.lastId)
  BY LandFirstFacts
<1>2. s.due \in Seq(Item) /\ s.contents \in Seq(Nat) /\ s.lastId \in Nat
  BY DEF SessionTyped
<1>3. /\ Len(t.due) = n - 1 /\ n \in Nat \ {0}
      /\ \A i \in 1..n - 1 : t.due[i] = s.due[i + 1]
  BY <1>1, <1>2, TailFacts
<1>4. t.blocked = s.blocked
  BY <1>1 DEF Only, Fields, LandingFields
<1>5. ExposureBlocks(t)
  <2>1. Ends(t.due, "exposed", "content")
    BY <1>1, <1>2, TailKinds DEF ExposureBlocks, NoLater
  <2>2. ASSUME NEW i \in 1..Len(t.due), t.due[i].what = "exposed"
        PROVE  t.due[i].in <= t.blocked
    <3>1. i + 1 \in 1..n /\ t.due[i] = s.due[i + 1]
      BY <1>3
    <3> QED BY <1>4, <2>2, <3>1 DEF ExposureBlocks, NoLater
  <2> QED BY <2>1, <2>2 DEF ExposureBlocks, NoLater
<1>6. CASE item.what = "content"
  <2>1. item.arg \in Nat /\ s.lastId < item.arg
    <3>1. 1 \in 1..n
      BY <1>3
    <3> QED BY <1>1, <1>6, <3>1 DEF Item, ItemOK, StillsNumbered, Single
  <2>2. /\ t.lastId = item.arg /\ Len(t.contents) = Len(s.contents) + 1
        /\ t.contents[Len(s.contents) + 1] = item.arg
        /\ \A k \in 1..Len(s.contents) : t.contents[k] = s.contents[k] /\ s.contents[k] \in Nat
    BY <1>1, <1>2, <1>6, <2>1 DEF Changed
  <2>3. Len(s.contents) \in Nat
    BY <1>2
  <2>4. \A i \in 1..Len(t.due) : t.due[i].what # "content"
    <3> SUFFICES ASSUME NEW i \in 1..Len(t.due), t.due[i].what = "content" PROVE FALSE
      OBVIOUS
    <3>1. 1 \in 1..n /\ i + 1 \in 1..n /\ t.due[i] = s.due[i + 1] /\ i + 1 # 1
      BY <1>3
    <3> QED BY <1>6, <3>1 DEF StillsNumbered, Single
  <2>5. \A k \in 1..Len(s.contents) : s.contents[k] < item.arg
    <3> SUFFICES ASSUME NEW k \in 1..Len(s.contents) PROVE s.contents[k] < item.arg
      OBVIOUS
    <3>1. s.contents[k] \in Nat /\ s.contents[k] <= s.lastId
      BY <2>2 DEF StillsNumbered
    <3> HIDE DEF item
    <3> QED BY <1>2, <2>1, <3>1
  <2> HIDE DEF item
  <2>6. \A k \in 1..Len(t.contents) : t.contents[k] <= t.lastId
    BY <2>1, <2>2, <2>3, <2>5, SMTT(30)
  <2>7. ASSUME NEW k \in 1..Len(t.contents), NEW l \in 1..Len(t.contents), k < l
        PROVE  t.contents[k] < t.contents[l]
    <3>1. k \in 1..Len(s.contents)
      BY <2>2, <2>3, <2>7
    <3>2. CASE l = Len(s.contents) + 1
      BY <2>2, <2>5, <3>1, <3>2
    <3>3. CASE l # Len(s.contents) + 1
      <4>1. l \in 1..Len(s.contents)
        BY <2>2, <2>3, <3>3
      <4> QED BY <2>2, <2>7, <3>1, <4>1 DEF StillsNumbered, Single
    <3> QED BY <3>2, <3>3
  <2> QED BY <1>5, <2>4, <2>6, <2>7 DEF StillsNumbered, Single
<1>7. CASE item.what # "content"
  <2>1. t.contents = s.contents /\ t.lastId = s.lastId
    BY <1>1, <1>7 DEF Changed
  <2>2. \A i \in 1..Len(t.due) : i + 1 \in 1..n /\ t.due[i] = s.due[i + 1]
    BY <1>3
  <2>3. \A i \in 1..Len(t.due) : t.due[i].what = "content" => t.lastId < t.due[i].arg
    BY <2>1, <2>2 DEF StillsNumbered, Single
  <2>4. ASSUME NEW i \in 1..Len(t.due), NEW j \in 1..Len(t.due),
               t.due[i].what = "content", t.due[j].what = "content"
        PROVE  i = j
    <3>1. i + 1 = j + 1
      BY <2>2, <2>4 DEF StillsNumbered, Single
    <3> QED BY <1>3, <3>1
  <2> QED BY <1>5, <2>1, <2>3, <2>4 DEF StillsNumbered, Single
<1> QED BY <1>6, <1>7
LEMMA LandFirstOK ==
  ASSUME NEW u, NEW s, SessionOK(u, s), ~NothingDue(s), NEW t, t = LandFirst(s)
  PROVE  /\ SessionOK(u, t) /\ t.frames = s.frames
         /\ Len(s.due) \in Nat /\ Len(t.due) = Len(s.due) - 1
<1>1. SessionTyped(u, s)
  BY DEF SessionOK
<1>2. SessionTyped(u, t)
  BY <1>1, LandFirstTyped
<1>3. PostviewsNamed(t)
  BY <1>1, LandFirstNames DEF SessionOK
<1>4. LinkEnds(t) /\ RecordingEnds(t)
  BY <1>1, LandFirstEnds DEF SessionOK
<1>5. u.patient => StillsNumbered(t) /\ ExposureBlocks(t)
  BY <1>1, LandFirstInTurn DEF SessionOK
<1>6. s.due # <<>> /\ t.due = Tail(s.due) /\ Only(s, t, LandingFields \union {"due"})
  BY <1>1, LandFirstFacts
<1>7. s.due \in Seq(Item)
  BY <1>1 DEF SessionTyped
<1>8. Len(s.due) \in Nat /\ Len(t.due) = Len(s.due) - 1
  BY <1>6, <1>7, TailFacts
<1>9. t.frames = s.frames
  BY <1>6 DEF Only, Fields, LandingFields
<1> QED BY <1>2, <1>3, <1>4, <1>5, <1>8, <1>9 DEF SessionOK

\* After the loop of drain_due nothing is due, and no frame was taken.
LEMMA LandedOK ==
  ASSUME NEW u, NEW s, SessionOK(u, s), NEW t, t = Landed(s)
  PROVE  SessionOK(u, t) /\ NothingDue(t) /\ t.frames = s.frames
<1> DEFINE n == Len(s.due)
<1>1. n \in Nat
  BY DEF SessionOK, SessionTyped
<1>2. PICK g : /\ g = [k \in 0..n |-> IF k = 0 THEN s ELSE LandFirst(g[k - 1])]
               /\ t = g[n]
  BY <1>1, LandedIsRun
<1> HIDE DEF n
<1>3. g[0] = s /\ \A k \in 1..n : g[k] = LandFirst(g[k - 1])
  <2>1. \A k \in 0..n : g[k] = IF k = 0 THEN s ELSE LandFirst(g[k - 1])
    BY <1>2
  <2>2. 0 \in 0..n /\ \A k \in 1..n : k \in 0..n /\ k # 0
    BY <1>1
  <2> QED BY <2>1, <2>2
<1> DEFINE Good(k) == /\ SessionOK(u, g[k]) /\ g[k].frames = s.frames
                      /\ NothingDue(g[k]) \/ Len(g[k].due) + k <= n
           S == {k \in 0..n : Good(k)}
<1>4. Good(0)
  BY <1>1, <1>3 DEF n
<1>5. ASSUME NEW k \in 0..n, k # n, Good(k) PROVE Good(k + 1)
  <2>1. PICK a, b : a = g[k] /\ b = g[k + 1]
    OBVIOUS
  <2>2. b = LandFirst(a)
    <3>1. k + 1 \in 1..n /\ (k + 1) - 1 = k
      BY <1>1, <1>5
    <3> QED BY <1>3, <2>1, <3>1
  <2>3. SessionOK(u, a) /\ a.frames = s.frames /\ (NothingDue(a) \/ Len(a.due) + k <= n)
    BY <1>5, <2>1
  <2>4. CASE NothingDue(a)
    <3>1. b = a
      BY <2>2, <2>4 DEF LandFirst, NothingDue
    <3> QED BY <2>1, <2>3, <2>4, <3>1
  <2>5. CASE ~NothingDue(a)
    <3>1. /\ SessionOK(u, b) /\ b.frames = a.frames
          /\ Len(a.due) \in Nat /\ Len(b.due) = Len(a.due) - 1
      BY <2>2, <2>3, <2>5, LandFirstOK
    <3>2. Len(b.due) + (k + 1) <= n
      <4>1. k \in Nat /\ Len(a.due) + k <= n
        BY <1>1, <2>3, <2>5
      <4>2. PICK x, y : x = Len(a.due) /\ y = Len(b.due)
        OBVIOUS
      <4>3. x \in Nat /\ y = x - 1 /\ x + k <= n
        BY <3>1, <4>1, <4>2
      <4>4. y + (k + 1) <= n
        BY <1>1, <4>1, <4>3
      <4> QED BY <4>2, <4>4
    <3> QED BY <2>1, <2>3, <3>1, <3>2
  <2> QED BY <2>4, <2>5
<1>6. Good(n)
  <2>1. 0 \in S
    BY <1>1, <1>4
  <2>2. \A k \in 0..n : k # n /\ k \in S => k + 1 \in S
    <3> SUFFICES ASSUME NEW k \in 0..n, k # n, Good(k) PROVE k + 1 \in S
      OBVIOUS
    <3>1. k + 1 \in 0..n
      BY <1>1
    <3>2. Good(k + 1)
      BY <1>5
    <3> QED BY <3>1, <3>2
  <2>3. 0..n \subseteq S
    <3> HIDE DEF S
    <3> QED BY <1>1, <2>1, <2>2, StepByStep
  <2>4. n \in 0..n
    BY <1>1
  <2> QED BY <2>3, <2>4
<1>7. NothingDue(t)
  <2>1. CASE Len(t.due) + n <= n
    <3>1. t.due \in Seq(Item)
      BY <1>2, <1>6 DEF SessionOK, SessionTyped
    <3>2. t.due = <<>>
      BY <1>1, <2>1, <3>1
    <3> QED BY <3>2 DEF NothingDue
  <2> QED BY <1>2, <1>6, <2>1
<1> QED BY <1>2, <1>6, <1>7

-----------------------------------------------------------------------------
(* The operators the calls are made of.                                    *)

\* Time passes: what is due keeps its order.
LEMMA ElapsedOK ==
  ASSUME NEW u, NEW s, SessionOK(u, s), NEW d \in Nat, NEW t, t = Elapsed(s, d)
  PROVE  SessionOK(u, t) /\ t.frames = s.frames
<1>1. SessionTyped(u, s)
  BY DEF SessionOK
<1> DEFINE n == Len(s.due)
           q == [i \in DOMAIN s.due |-> Nearer(s.due[i], d)]
<1>2. n \in Nat /\ DOMAIN s.due = 1..n /\ \A i \in 1..n : s.due[i] \in Item
  BY <1>1 DEF SessionTyped
<1>3. \A i \in 1..n : /\ q[i].what = s.due[i].what /\ q[i].arg = s.due[i].arg
                      /\ q[i].in = Left(s.due[i].in, d) /\ q[i] \in Item
  <2> SUFFICES ASSUME NEW i \in 1..n
               PROVE  /\ q[i].what = s.due[i].what /\ q[i].arg = s.due[i].arg
                      /\ q[i].in = Left(s.due[i].in, d) /\ q[i] \in Item
    OBVIOUS
  <2>1. PICK c : c = s.due[i]
    OBVIOUS
  <2>2. c \in [in : Nat, what : Actions, arg : Args] /\ ItemOK(c)
    BY <1>2, <2>1 DEF Item
  <2>3. q[i] = [c EXCEPT !.in = Left(@, d)]
    BY <1>2, <2>1 DEF Nearer
  <2>4. Left(c.in, d) \in Nat
    BY <2>2 DEF Left
  <2>5. q[i].what = c.what /\ q[i].arg = c.arg /\ q[i].in = Left(c.in, d)
    BY <2>2, <2>3
  <2>6. q[i] \in [in : Nat, what : Actions, arg : Args]
    BY <2>2, <2>3, <2>4
  <2>7. ItemOK(q[i])
    BY <2>2, <2>5 DEF ItemOK
  <2> HIDE DEF q
  <2> QED BY <2>1, <2>5, <2>6, <2>7 DEF Item
<1>4. q \in Seq(Item) /\ Len(q) = n
  <2>1. DOMAIN q = 1..n
    BY <1>2
  <2>2. q = [i \in 1..n |-> q[i]]
    BY <1>2
  <2> HIDE DEF q, n
  <2> QED BY <1>2, <1>3, <2>1, <2>2
<1>5. /\ Only(s, t, {"due", "frameIn", "blocked"})
      /\ t.due = q /\ t.frameIn = Left(s.frameIn, d) /\ t.blocked = Left(s.blocked, d)
  <2>1. t = [s EXCEPT !.due = q, !.frameIn = Left(@, d), !.blocked = Left(@, d)]
    BY DEF Elapsed
  <2>2. DOMAIN s = Fields
    BY <1>1 DEF SessionTyped
  <2> HIDE DEF q
  <2> QED BY <2>1, <2>2 DEF Only, Fields
<1> HIDE DEF q
<1>6. /\ t.link = s.link /\ t.closed = s.closed /\ t.mode = s.mode
      /\ t.destination = s.destination /\ t.value = s.value /\ t.recording = s.recording
      /\ t.postviewOn = s.postviewOn /\ t.pending = s.pending /\ t.contents = s.contents
      /\ t.lastId = s.lastId /\ t.exposures = s.exposures /\ t.frames = s.frames
      /\ t.ready = s.ready /\ DOMAIN t = Fields
  BY <1>5 DEF Only, Fields
<1>7. \A x, y \in Nat : Left(x, d) \in Nat /\ (x <= y => Left(x, d) <= Left(y, d))
  BY DEF Left
<1>8. \A i \in 1..n : s.due[i].in \in Nat
  BY <1>2 DEF Item
<1>9. Sorted(q)
  <2> SUFFICES ASSUME NEW i \in 1..n, NEW j \in 1..n, i <= j PROVE q[i].in <= q[j].in
    BY <1>4 DEF Sorted
  <2>1. s.due[i].in <= s.due[j].in
    BY <1>1 DEF SessionTyped, Sorted
  <2> QED BY <1>3, <1>7, <1>8, <2>1
<1>10. SessionTyped(u, t)
  BY <1>1, <1>4, <1>5, <1>6, <1>7, <1>9 DEF SessionTyped
<1>11. \A a : Comes(s.due, a) => Comes(q, a)
  BY <1>3, <1>4 DEF Comes
<1>12. \A a, b : Ends(s.due, a, b) => Ends(q, a, b)
  <2> SUFFICES ASSUME NEW a, NEW b, Ends(s.due, a, b), NEW i \in 1..n, q[i].what = a
               PROVE  \E j \in i + 1..n : q[j].what = b
    BY <1>4, ZenonT(60) DEF Ends, Behind
  <2>1. PICK j \in i + 1..n : s.due[j].what = b
    BY <1>3 DEF Ends, Behind
  <2>2. j \in 1..n
    BY <1>2, <2>1
  <2> QED BY <1>3, <2>1, <2>2
<1>13. \A id : Named(s, id) => Named(t, id)
  BY <1>3, <1>4, <1>5, <1>6 DEF Named
<1>14. PostviewsNamed(t)
  <2>1. PostviewsNamed(s)
    BY DEF SessionOK
  <2> QED BY <1>3, <1>4, <1>5, <1>6, <1>13, <2>1 DEF PostviewsNamed
<1>15. LinkEnds(t) /\ RecordingEnds(t)
  BY <1>5, <1>6, <1>11, <1>12 DEF SessionOK, LinkEnds, RecordingEnds
<1>16. ASSUME u.patient PROVE StillsNumbered(t) /\ ExposureBlocks(t)
  <2>1. StillsNumbered(s) /\ ExposureBlocks(s)
    BY <1>16 DEF SessionOK
  <2>2. StillsNumbered(t)
    BY <1>3, <1>4, <1>5, <1>6, <2>1 DEF StillsNumbered, Single
  <2>3. Ends(q, "exposed", "content")
    BY <1>12, <2>1 DEF ExposureBlocks, NoLater
  <2>4. \A i \in 1..n : q[i].what = "exposed" => q[i].in <= t.blocked
    BY <1>1, <1>3, <1>5, <1>7, <1>8, <2>1 DEF ExposureBlocks, NoLater, SessionTyped
  <2> QED BY <1>4, <1>5, <2>2, <2>3, <2>4 DEF ExposureBlocks, NoLater
<1> QED BY <1>6, <1>10, <1>14, <1>15, <1>16 DEF SessionOK

\* What may change without touching the schedule, the stills and the recording.
QuietFields == {"link", "closed", "destination", "value", "postviewOn", "pending", "served",
                "frames", "frameIn", "ready"}

LEMMA QuietOK ==
  ASSUME NEW u, NEW s, SessionOK(u, s), NEW t, Only(s, t, QuietFields),
         t.link \in {s.link, "closed"}, t.closed \in BOOLEAN, t.postviewOn \in BOOLEAN,
         t.destination \in u.profile.destinations,
         "RecordingState" \in DOMAIN t.value,
         t.value["RecordingState"] = s.value["RecordingState"],
         t.pending \in {s.pending, None}, t.frames \in Nat, t.frameIn \in Nat,
         t.ready \in Seq(Events)
  PROVE  SessionOK(u, t)
<1>1. SessionTyped(u, s)
  BY DEF SessionOK
<1>2. /\ DOMAIN t = Fields
      /\ t.mode = s.mode /\ t.recording = s.recording /\ t.contents = s.contents
      /\ t.lastId = s.lastId /\ t.exposures = s.exposures /\ t.blocked = s.blocked
      /\ t.due = s.due
  BY DEF Only, Fields, QuietFields
<1>3. SessionTyped(u, t)
  <2>1. t.link \in {"connecting", "connected", "reconnecting", "closed"}
    BY <1>1 DEF SessionTyped
  <2> QED BY <1>1, <1>2, <2>1 DEF SessionTyped
<1>4. PostviewsNamed(t)
  BY <1>2 DEF SessionOK, PostviewsNamed, Named
<1>5. LinkEnds(t) /\ RecordingEnds(t)
  BY <1>2 DEF SessionOK, LinkEnds, RecordingEnds
<1>6. u.patient => StillsNumbered(t) /\ ExposureBlocks(t)
  BY <1>2 DEF SessionOK, StillsNumbered, Single, ExposureBlocks, NoLater
<1> QED BY <1>3, <1>4, <1>5, <1>6 DEF SessionOK

LEMMA EmitOK ==
  ASSUME NEW u, NEW s, SessionOK(u, s), NEW events \in Seq(Events), NEW t, t = Emit(s, events)
  PROVE  SessionOK(u, t) /\ t.frames = s.frames
<1>1. SessionTyped(u, s)
  BY DEF SessionOK
<1>2. Only(s, t, {"ready"}) /\ t.ready \in Seq(Events)
  BY <1>1, EmitFacts DEF SessionTyped
<1>3. Only(s, t, QuietFields)
  BY <1>2 DEF Only, QuietFields
<1>4. /\ t.link = s.link /\ t.closed = s.closed /\ t.destination = s.destination
      /\ t.value = s.value /\ t.postviewOn = s.postviewOn /\ t.pending = s.pending
      /\ t.frames = s.frames /\ t.frameIn = s.frameIn
  BY <1>2 DEF Only, Fields
<1>5. SessionOK(u, t)
  BY <1>1, <1>2, <1>3, <1>4, QuietOK DEF SessionTyped
<1> QED BY <1>4, <1>5

\* A new action and the parts it can disturb.
LEMMA SchedulePlaces ==
  ASSUME NEW u, NEW s, SessionTyped(u, s),
         NEW in \in Nat, NEW what \in Actions, NEW arg \in Args,
         ItemOK([in |-> in, what |-> what, arg |-> arg]),
         NEW t, t = Schedule(s, in, what, arg)
  PROVE  /\ SessionTyped(u, t) /\ Only(s, t, {"due"})
         /\ Inserted(s.due, t.due, [in |-> in, what |-> what, arg |-> arg])
<1>1. DOMAIN s = Fields /\ s.due \in Seq(Item) /\ Sorted(s.due)
  BY DEF SessionTyped
<1>2. /\ Only(s, t, {"due"}) /\ t.due \in Seq(Item) /\ Sorted(t.due)
      /\ Inserted(s.due, t.due, [in |-> in, what |-> what, arg |-> arg])
  BY <1>1, ScheduleFacts
<1>3. /\ DOMAIN t = Fields
      /\ t.link = s.link /\ t.closed = s.closed /\ t.mode = s.mode
      /\ t.destination = s.destination /\ t.value = s.value /\ t.recording = s.recording
      /\ t.postviewOn = s.postviewOn /\ t.pending = s.pending /\ t.contents = s.contents
      /\ t.lastId = s.lastId /\ t.exposures = s.exposures /\ t.frames = s.frames
      /\ t.frameIn = s.frameIn /\ t.blocked = s.blocked /\ t.ready = s.ready
  BY <1>2 DEF Only, Fields
<1>4. SessionTyped(u, t)
  BY <1>2, <1>3 DEF SessionTyped
<1> QED BY <1>1, <1>2, <1>4

\* Where an action of the new schedule comes from, and what stands behind it.
LEMMA InsertedFacts ==
  ASSUME NEW q, NEW r, NEW e, Inserted(q, r, e)
  PROVE  /\ \E i \in 1..Len(r) : r[i] = e
         /\ \A i \in 1..Len(q) : \E j \in 1..Len(r) : r[j] = q[i]
         /\ \A j \in 1..Len(r) : r[j] = e \/ \E i \in 1..Len(q) : r[j] = q[i]
<1>1. PICK p \in 0..Len(q) :
          /\ r[p + 1] = e
          /\ \A i \in 1..p : r[i] = q[i]
          /\ \A i \in p + 2..Len(q) + 1 : r[i] = q[i - 1]
  BY DEF Inserted
<1>2. Len(q) \in Nat /\ Len(r) = Len(q) + 1 /\ p \in 0..Len(q)
  BY <1>1 DEF Inserted
<1>3. p + 1 \in 1..Len(r)
  BY <1>2
<1>4. ASSUME NEW i \in 1..Len(q) PROVE \E j \in 1..Len(r) : r[j] = q[i]
  <2>1. CASE i <= p
    <3>1. i \in 1..p /\ i \in 1..Len(r)
      BY <1>2, <2>1
    <3> QED BY <1>1, <3>1
  <2>2. CASE i > p
    <3>1. i + 1 \in p + 2..Len(q) + 1 /\ i + 1 \in 1..Len(r) /\ (i + 1) - 1 = i
      BY <1>2, <2>2
    <3>2. r[i + 1] = q[i]
      BY <1>1, <3>1
    <3> QED BY <3>1, <3>2
  <2> QED BY <1>2, <2>1, <2>2
<1>5. ASSUME NEW j \in 1..Len(r), r[j] # e PROVE \E i \in 1..Len(q) : r[j] = q[i]
  <2>1. CASE j <= p
    <3>1. j \in 1..p /\ j \in 1..Len(q)
      BY <1>2, <2>1
    <3> QED BY <1>1, <3>1
  <2>2. CASE j > p
    <3>1. j \in p + 2..Len(q) + 1 /\ j - 1 \in 1..Len(q)
      BY <1>1, <1>2, <1>5, <2>2
    <3> QED BY <1>1, <3>1
  <2> QED BY <1>2, <2>1, <2>2
<1> QED BY <1>1, <1>3, <1>4, <1>5

LEMMA InsertedBehind ==
  ASSUME NEW q \in Seq(Item), NEW r, NEW e \in Item, Inserted(q, r, e), NEW what,
         NEW j \in 1..Len(r), r[j] # e
  PROVE  \E i \in 1..Len(q) :
            /\ r[j] = q[i]
            /\ Behind(q, i, what) \/ (e.what = what /\ q[i].in <= e.in) => Behind(r, j, what)
<1>1. PICK p \in 0..Len(q) :
          /\ r[p + 1] = e
          /\ \A i \in 1..p : r[i] = q[i]
          /\ \A i \in p + 2..Len(q) + 1 : r[i] = q[i - 1] /\ e.in < q[i - 1].in
  BY DEF Inserted
<1>2. Len(q) \in Nat /\ Len(r) = Len(q) + 1 /\ p \in 0..Len(q)
  BY <1>1 DEF Inserted
<1>3. e.in \in Nat /\ \A i \in 1..Len(q) : q[i].in \in Nat
  BY DEF Item

\* Where an action of the old schedule stands in the new one.
<1>4. ASSUME NEW k \in 1..Len(q)
      PROVE  \E l \in 1..Len(r) : r[l] = q[k] /\ k <= l /\ (k > p => l = k + 1)
  <2>1. CASE k <= p
    <3>1. k \in 1..p /\ k \in 1..Len(r)
      BY <1>2, <2>1
    <3> QED BY <1>1, <1>2, <2>1, <3>1
  <2>2. CASE k > p
    <3>1. k + 1 \in p + 2..Len(q) + 1 /\ k + 1 \in 1..Len(r) /\ (k + 1) - 1 = k /\ k <= k + 1
      BY <1>2, <2>2
    <3>2. r[k + 1] = q[k]
      BY <1>1, <3>1
    <3> QED BY <3>1, <3>2
  <2> QED BY <1>2, <2>1, <2>2
<1>5. CASE j <= p
  <2>1. j \in 1..p /\ j \in 1..Len(q) /\ r[j] = q[j]
    BY <1>1, <1>2, <1>5
  <2>2. ASSUME Behind(q, j, what) PROVE Behind(r, j, what)
    <3>1. PICK k \in j + 1..Len(q) : q[k].what = what
      BY <2>2 DEF Behind
    <3>2. k \in 1..Len(q)
      BY <1>2, <2>1, <3>1
    <3>3. PICK l \in 1..Len(r) : r[l] = q[k] /\ k <= l
      BY <1>4, <3>2
    <3>4. l \in j + 1..Len(r)
      BY <1>2, <2>1, <3>1, <3>3
    <3> QED BY <3>1, <3>3, <3>4 DEF Behind
  <2>3. ASSUME e.what = what PROVE Behind(r, j, what)
    <3>1. p + 1 \in j + 1..Len(r)
      BY <1>2, <2>1
    <3> QED BY <1>1, <2>3, <3>1 DEF Behind
  <2> QED BY <2>1, <2>2, <2>3
<1>6. CASE j > p
  <2>1. j \in p + 2..Len(q) + 1 /\ j - 1 \in 1..Len(q) /\ j - 1 > p
    BY <1>1, <1>2, <1>6
  <2>2. r[j] = q[j - 1] /\ ~(q[j - 1].in <= e.in)
    BY <1>1, <1>3, <2>1
  <2>3. ASSUME Behind(q, j - 1, what) PROVE Behind(r, j, what)
    <3>1. PICK k \in (j - 1) + 1..Len(q) : q[k].what = what
      BY <2>3 DEF Behind
    <3>2. k \in 1..Len(q) /\ k > p
      BY <1>2, <2>1, <3>1
    <3>3. PICK l \in 1..Len(r) : r[l] = q[k] /\ l = k + 1
      BY <1>4, <3>2
    <3>4. l \in j + 1..Len(r)
      BY <1>2, <2>1, <3>1, <3>3
    <3> QED BY <3>1, <3>3, <3>4 DEF Behind
  <2> QED BY <2>1, <2>2, <2>3
<1> QED BY <1>2, <1>5, <1>6
LEMMA InsertedEnds ==
  ASSUME NEW q \in Seq(Item), NEW r, NEW e \in Item, Inserted(q, r, e),
         NEW a, NEW b, e.what # a, Ends(q, a, b)
  PROVE  Ends(r, a, b)
<1> SUFFICES ASSUME NEW j \in 1..Len(r), r[j].what = a PROVE Behind(r, j, b)
  BY DEF Ends
<1>1. PICK i \in 1..Len(q) : r[j] = q[i] /\ (Behind(q, i, b) => Behind(r, j, b))
  BY InsertedBehind
<1> QED BY <1>1 DEF Ends

\* Two actions are scheduled together, the second of them no earlier.
LEMMA PairEnds ==
  ASSUME NEW q \in Seq(Item), NEW r \in Seq(Item), NEW w, NEW c \in Item, NEW d \in Item,
         Inserted(q, r, c), Inserted(r, w, d), c.what # d.what, c.in <= d.in,
         Ends(q, c.what, d.what)
  PROVE  Ends(w, c.what, d.what)
<1> SUFFICES ASSUME NEW j \in 1..Len(w), w[j].what = c.what PROVE Behind(w, j, d.what)
  BY DEF Ends
<1>1. PICK i \in 1..Len(r) :
          /\ w[j] = r[i]
          /\ Behind(r, i, d.what) \/ (d.what = d.what /\ r[i].in <= d.in) => Behind(w, j, d.what)
  <2>1. w[j] # d
    OBVIOUS
  <2> QED BY <2>1, InsertedBehind
<1>2. CASE r[i] = c
  BY <1>1, <1>2
<1>3. CASE r[i] # c
  <2>1. PICK k \in 1..Len(q) : r[i] = q[k] /\ (Behind(q, k, d.what) => Behind(r, i, d.what))
    BY <1>3, InsertedBehind
  <2> QED BY <1>1, <2>1 DEF Ends
<1> QED BY <1>2, <1>3

LEMMA InsertedSingle ==
  ASSUME NEW q, NEW r, NEW e, Inserted(q, r, e), NEW a, Single(q, a), e.what = a => ~Comes(q, a)
  PROVE  Single(r, a)
<1>1. PICK p \in 0..Len(q) :
          /\ r[p + 1] = e
          /\ \A i \in 1..p : r[i] = q[i]
          /\ \A i \in p + 2..Len(q) + 1 : r[i] = q[i - 1]
  BY DEF Inserted
<1>2. Len(q) \in Nat /\ Len(r) = Len(q) + 1 /\ p \in 0..Len(q)
  BY <1>1 DEF Inserted
<1> DEFINE from(j) == IF j <= p THEN j ELSE j - 1
<1>3. ASSUME NEW j \in 1..Len(r), j # p + 1 PROVE from(j) \in 1..Len(q) /\ r[j] = q[from(j)]
  <2>1. CASE j <= p
    <3>1. j \in 1..p /\ j \in 1..Len(q)
      BY <1>2, <2>1
    <3> QED BY <1>1, <2>1, <3>1
  <2>2. CASE ~(j <= p)
    <3>1. j \in p + 2..Len(q) + 1 /\ j - 1 \in 1..Len(q)
      BY <1>2, <1>3, <2>2
    <3> QED BY <1>1, <2>2, <3>1
  <2> QED BY <2>1, <2>2
<1>4. ASSUME NEW i \in 1..Len(r), NEW j \in 1..Len(r), i # p + 1, j # p + 1, from(i) = from(j)
      PROVE  i = j
  BY <1>2, <1>4
<1> HIDE DEF from
<1>5. SUFFICES ASSUME NEW i \in 1..Len(r), NEW j \in 1..Len(r), r[i].what = a, r[j].what = a
      PROVE  i = j
  BY DEF Single
<1>6. CASE e.what = a
  BY <1>1, <1>3, <1>5, <1>6 DEF Comes
<1>7. CASE e.what # a
  BY <1>1, <1>3, <1>4, <1>5, <1>7 DEF Single
<1> QED BY <1>6, <1>7

\* What a new action leaves as it was, part by part.
LEMMA ScheduleKeeps ==
  ASSUME NEW u, NEW s, SessionTyped(u, s),
         NEW in \in Nat, NEW what \in Actions, NEW arg \in Args,
         ItemOK([in |-> in, what |-> what, arg |-> arg]),
         NEW t, t = Schedule(s, in, what, arg)
  PROVE  /\ Comes(t.due, what)
         /\ \A a : Comes(s.due, a) => Comes(t.due, a)
         /\ \A a : a # what /\ Comes(t.due, a) => Comes(s.due, a)
         /\ \A a, b : what # a /\ Ends(s.due, a, b) => Ends(t.due, a, b)
         /\ \A id : Named(s, id) => Named(t, id)
         /\ what = "content" => Named(t, arg)
         /\ PostviewsNamed(s) /\ (what = "postview" => Named(s, arg)) => PostviewsNamed(t)
         /\ RecordingEnds(s) => RecordingEnds(t)
         /\ \A a, r : NoLater(s.due, a, r) /\ (what = a => in <= r) => NoLater(t.due, a, r)
         /\ StillsNumbered(s) /\ (what = "content" => ~Comes(s.due, "content") /\ s.lastId < arg)
               => StillsNumbered(t)
<1> DEFINE e == [in |-> in, what |-> what, arg |-> arg]
<1>1. SessionTyped(u, t) /\ Only(s, t, {"due"}) /\ Inserted(s.due, t.due, e)
  BY SchedulePlaces
<1>2. e \in Item /\ e.what = what /\ e.arg = arg /\ e.in = in
  BY DEF Item
<1>3. s.due \in Seq(Item)
  BY DEF SessionTyped
<1> HIDE DEF e
<1>4. /\ \E i \in 1..Len(t.due) : t.due[i] = e
      /\ \A i \in 1..Len(s.due) : \E j \in 1..Len(t.due) : t.due[j] = s.due[i]
      /\ \A j \in 1..Len(t.due) : t.due[j] = e \/ \E i \in 1..Len(s.due) : t.due[j] = s.due[i]
  <2>1. PICK q, r : q = s.due /\ r = t.due
    OBVIOUS
  <2>2. Inserted(q, r, e)
    BY <1>1, <2>1
  <2>3. \E i \in 1..Len(r) : r[i] = e
    BY <2>2, InsertedFacts
  <2>4. \A i \in 1..Len(q) : \E j \in 1..Len(r) : r[j] = q[i]
    BY <2>2, InsertedFacts
  <2>5. \A j \in 1..Len(r) : r[j] = e \/ \E i \in 1..Len(q) : r[j] = q[i]
    BY <2>2, InsertedFacts
  <2> QED BY <2>1, <2>3, <2>4, <2>5
<1>5. /\ t.contents = s.contents /\ t.lastId = s.lastId /\ t.pending = s.pending
      /\ t.recording = s.recording /\ t.value = s.value
  BY <1>1 DEF Only, Fields
<1>6. Comes(t.due, what)
  BY <1>2, <1>4 DEF Comes
<1>7. \A a : Comes(s.due, a) => Comes(t.due, a)
  BY <1>4 DEF Comes
<1>8. \A a, b : what # a /\ Ends(s.due, a, b) => Ends(t.due, a, b)
  BY <1>1, <1>2, <1>3, InsertedEnds
<1>9. ASSUME NEW id, Named(s, id) PROVE Named(t, id)
  <2>1. CASE \E k \in 1..Len(s.contents) : s.contents[k] = id
    BY <1>5, <2>1 DEF Named
  <2>2. CASE \E i \in 1..Len(s.due) : s.due[i].what = "content" /\ s.due[i].arg = id
    <3>1. PICK i \in 1..Len(s.due) : s.due[i].what = "content" /\ s.due[i].arg = id
      BY <2>2
    <3>2. PICK j \in 1..Len(t.due) : t.due[j] = s.due[i]
      BY <1>4
    <3> QED BY <3>1, <3>2 DEF Named
  <2> QED BY <1>9, <2>1, <2>2 DEF Named
<1>10. what = "content" => Named(t, arg)
  BY <1>2, <1>4 DEF Named
<1>11. ASSUME PostviewsNamed(s), what = "postview" => Named(s, arg) PROVE PostviewsNamed(t)
  <2>1. t.pending # None => Named(t, t.pending)
    BY <1>5, <1>9, <1>11 DEF PostviewsNamed
  <2>2. ASSUME NEW j \in 1..Len(t.due), t.due[j].what = "postview" PROVE Named(t, t.due[j].arg)
    <3>1. CASE t.due[j] = e
      BY <1>2, <1>9, <1>11, <2>2, <3>1
    <3>2. CASE t.due[j] # e
      <4>1. PICK i \in 1..Len(s.due) : t.due[j] = s.due[i]
        BY <1>4, <3>2
      <4> QED BY <1>9, <1>11, <2>2, <4>1 DEF PostviewsNamed
    <3> QED BY <3>1, <3>2
  <2> QED BY <2>1, <2>2 DEF PostviewsNamed
<1>12. RecordingEnds(s) => RecordingEnds(t)
  BY <1>5, <1>7 DEF RecordingEnds
<1>13. \A a, r : NoLater(s.due, a, r) /\ (what = a => in <= r) => NoLater(t.due, a, r)
  <2> SUFFICES ASSUME NEW a, NEW r, NoLater(s.due, a, r), what = a => in <= r,
                      NEW j \in 1..Len(t.due), t.due[j].what = a
               PROVE  t.due[j].in <= r
    BY DEF NoLater
  <2>1. CASE t.due[j] = e
    BY <1>2, <2>1
  <2>2. CASE t.due[j] # e
    <3>1. PICK i \in 1..Len(s.due) : t.due[j] = s.due[i]
      BY <1>4, <2>2
    <3> QED BY <3>1 DEF NoLater
  <2> QED BY <2>1, <2>2
<1>14. ASSUME StillsNumbered(s), what = "content" => ~Comes(s.due, "content") /\ s.lastId < arg
       PROVE  StillsNumbered(t)
  <2>1. ASSUME NEW j \in 1..Len(t.due), t.due[j].what = "content" PROVE t.lastId < t.due[j].arg
    <3>1. CASE t.due[j] = e
      BY <1>2, <1>5, <1>14, <2>1, <3>1
    <3>2. CASE t.due[j] # e
      <4>1. PICK i \in 1..Len(s.due) : t.due[j] = s.due[i]
        BY <1>4, <3>2
      <4> QED BY <1>5, <1>14, <2>1, <4>1 DEF StillsNumbered
    <3> QED BY <3>1, <3>2
  <2>2. Single(t.due, "content")
    BY <1>1, <1>2, <1>14, InsertedSingle DEF StillsNumbered
  <2> QED BY <1>5, <1>14, <2>1, <2>2 DEF StillsNumbered
<1>15. \A a : a # what /\ Comes(t.due, a) => Comes(s.due, a)
  <2> SUFFICES ASSUME NEW a, a # what, NEW j \in 1..Len(t.due), t.due[j].what = a
               PROVE  Comes(s.due, a)
    BY DEF Comes
  <2>1. PICK i \in 1..Len(s.due) : t.due[j] = s.due[i]
    BY <1>2, <1>4
  <2> QED BY <2>1 DEF Comes
<1> QED
  BY <1>6, <1>7, <1>8, <1>9, <1>10, <1>11, <1>12, <1>13, <1>14, <1>15

\* An action that begins nothing is scheduled.
LEMMA ScheduleOK ==
  ASSUME NEW u, NEW s, SessionOK(u, s),
         NEW in \in Nat, NEW what \in Actions \ {"lost", "exposed", "content", "postview"},
         NEW arg \in Args, ItemOK([in |-> in, what |-> what, arg |-> arg]),
         NEW t, t = Schedule(s, in, what, arg)
  PROVE  /\ SessionOK(u, t) /\ Only(s, t, {"due"}) /\ Comes(t.due, what)
         /\ Comes(t.due, "content") => Comes(s.due, "content")
<1>1. SessionTyped(u, s)
  BY DEF SessionOK
<1>2. SessionTyped(u, t) /\ Only(s, t, {"due"})
  BY <1>1, SchedulePlaces
<1>3. Comes(t.due, what) /\ \A a : Comes(s.due, a) => Comes(t.due, a)
  BY <1>1, ScheduleKeeps
<1>4. \A a, b : what # a /\ Ends(s.due, a, b) => Ends(t.due, a, b)
  BY <1>1, ScheduleKeeps
<1>5. PostviewsNamed(t)
  BY <1>1, ScheduleKeeps DEF SessionOK
<1>6. RecordingEnds(t)
  BY <1>1, ScheduleKeeps DEF SessionOK
<1>7. \A r : NoLater(s.due, "exposed", r) => NoLater(t.due, "exposed", r)
  BY <1>1, ScheduleKeeps
<1>8. StillsNumbered(s) => StillsNumbered(t)
  BY <1>1, ScheduleKeeps
<1>9. t.link = s.link /\ t.blocked = s.blocked
  BY <1>2 DEF Only, Fields
<1>10. LinkEnds(t)
  BY <1>3, <1>4, <1>9 DEF SessionOK, LinkEnds
<1>11. u.patient => StillsNumbered(t) /\ ExposureBlocks(t)
  BY <1>4, <1>7, <1>8, <1>9 DEF SessionOK, ExposureBlocks
<1>12. Comes(t.due, "content") => Comes(s.due, "content")
  BY <1>1, ScheduleKeeps
<1> QED BY <1>2, <1>3, <1>5, <1>6, <1>10, <1>11, <1>12 DEF SessionOK

-----------------------------------------------------------------------------
(* The setups.                                                             *)

\* Every delay of a shipped profile is a number, and every profile has the
\* recording state among its properties.
LEMMA ProfileFacts ==
  ASSUME NEW u \in Setups
  PROVE  /\ u.profile.timings.connect \in Nat /\ u.profile.timings.confirm \in Nat
         /\ u.profile.timings.skew \in Nat /\ u.profile.timings.fail \in Nat
         /\ u.profile.timings.tracking \in Nat /\ u.profile.timings.exposure \in Nat
         /\ u.profile.timings.content \in Nat /\ u.profile.timings.postview \in Nat
         /\ u.profile.timings.recStart \in Nat /\ u.profile.timings.recStop \in Nat
         /\ u.profile.timings.gap \in Nat /\ u.profile.timings.reconnect \in Nat
         /\ u.profile.timings.straggler \in Nat
         /\ u.profile.frameEvery \in Nat
         /\ "RecordingState" \in u.profile.base
<1>1. CASE u.profile = FX3A
  BY <1>1 DEF FX3A, With, CameraProfile, Timings, BaseProperties
<1>2. CASE u.profile = MinimalStill
  BY <1>2 DEF MinimalStill, With, CameraProfile, Timings, BaseProperties
<1>3. CASE u.profile = InvertedModes
  BY <1>3, SMTT(30) DEF InvertedModes, With, CameraProfile, Timings, BaseProperties
<1>4. CASE u.profile = FutureUnknown
  BY <1>4 DEF FutureUnknown, With, CameraProfile, Timings, BaseProperties
<1> QED BY <1>1, <1>2, <1>3, <1>4, SimulatorAssumption
LEMMA SetupFacts ==
  ASSUME NEW u \in Setups
  PROVE  /\ u.destination \in Destinations \union {None}
         /\ u.scenario.skew \in Nat \union {None}
         /\ u.scenario.reconnectAfter \in Nat \union {None}
         /\ u.scenario.contentLate \in Nat
         /\ u.scenario.idStep \in Nat \ {0}
BY SimulatorAssumption

-----------------------------------------------------------------------------
(* What the calls schedule.                                                *)

LEMMA WithReconnectOK ==
  ASSUME setup \in Setups, NEW s, SessionOK(setup, s), NEW delay \in Nat,
         NEW t, t = WithReconnect(s, delay)
  PROVE  SessionOK(setup, t) /\ t.frames = s.frames
<1>1. PICK u, rc : u = setup /\ rc = u.profile.timings.reconnect
  OBVIOUS
<1>2. rc \in Nat /\ delay + rc \in Nat
  BY <1>1, ProfileFacts
<1>3. PICK m : m = Schedule(s, delay, "lost", None)
  OBVIOUS
<1>4. t = Schedule(m, delay + rc, "recovered", None)
  BY <1>1, <1>3 DEF WithReconnect, timings, profile
<1> DEFINE c == [in |-> delay, what |-> "lost", arg |-> None]
           d == [in |-> delay + rc, what |-> "recovered", arg |-> None]
<1>5. c \in Item /\ d \in Item /\ ItemOK(c) /\ ItemOK(d)
  BY <1>2 DEF Item, ItemOK, Actions, Args
<1>6. "lost" \in Actions /\ "recovered" \in Actions /\ None \in Args
  BY DEF Actions, Args
<1>7. SessionOK(u, s) /\ SessionTyped(u, s)
  BY <1>1 DEF SessionOK
<1>8. SessionTyped(u, m) /\ Only(s, m, {"due"}) /\ Inserted(s.due, m.due, c)
  BY <1>3, <1>5, <1>6, <1>7, SchedulePlaces
<1>9. SessionTyped(u, t) /\ Only(m, t, {"due"}) /\ Inserted(m.due, t.due, d)
  BY <1>2, <1>4, <1>5, <1>6, <1>8, SchedulePlaces
<1>10. /\ PostviewsNamed(m) /\ RecordingEnds(m) /\ \A a : Comes(s.due, a) => Comes(m.due, a)
  BY <1>3, <1>5, <1>6, <1>7, ScheduleKeeps DEF SessionOK
<1>11. \A a, b : "lost" # a /\ Ends(s.due, a, b) => Ends(m.due, a, b)
  BY <1>3, <1>5, <1>6, <1>7, ScheduleKeeps
<1>12. /\ \A r : NoLater(s.due, "exposed", r) => NoLater(m.due, "exposed", r)
       /\ StillsNumbered(s) => StillsNumbered(m)
  BY <1>3, <1>5, <1>6, <1>7, ScheduleKeeps
<1>13. /\ PostviewsNamed(t) /\ RecordingEnds(t) /\ \A a : Comes(m.due, a) => Comes(t.due, a)
  BY <1>2, <1>4, <1>5, <1>6, <1>8, <1>10, ScheduleKeeps
<1>14. \A a, b : "recovered" # a /\ Ends(m.due, a, b) => Ends(t.due, a, b)
  BY <1>2, <1>4, <1>5, <1>6, <1>8, ScheduleKeeps
<1>15. /\ \A r : NoLater(m.due, "exposed", r) => NoLater(t.due, "exposed", r)
       /\ StillsNumbered(m) => StillsNumbered(t)
  BY <1>2, <1>4, <1>5, <1>6, <1>8, ScheduleKeeps
<1>16. Ends(t.due, "lost", "recovered")
  <2>1. PICK q, r, w : q = s.due /\ r = m.due /\ w = t.due
    OBVIOUS
  <2>2. q \in Seq(Item) /\ r \in Seq(Item)
    BY <1>7, <1>8, <2>1 DEF SessionTyped
  <2>3. Ends(q, "lost", "recovered")
    BY <1>7, <2>1 DEF SessionOK, LinkEnds
  <2>4. /\ Inserted(q, r, c) /\ Inserted(r, w, d)
        /\ c.what = "lost" /\ d.what = "recovered" /\ c.in <= d.in
    BY <1>2, <1>8, <1>9, <2>1
  <2> HIDE DEF c, d
  <2>5. Ends(w, "lost", "recovered")
    BY <1>5, <2>2, <2>3, <2>4, PairEnds
  <2> QED BY <2>1, <2>5
<1>17. t.link = s.link /\ t.blocked = s.blocked /\ t.frames = s.frames
  BY <1>8, <1>9 DEF Only, Fields
<1>18. LinkEnds(t)
  BY <1>7, <1>10, <1>13, <1>16, <1>17 DEF SessionOK, LinkEnds
<1>19. u.patient => StillsNumbered(t) /\ ExposureBlocks(t)
  BY <1>7, <1>11, <1>12, <1>14, <1>15, <1>17 DEF SessionOK, ExposureBlocks
<1>20. SessionOK(u, t)
  BY <1>9, <1>13, <1>18, <1>19 DEF SessionOK
<1> QED BY <1>1, <1>17, <1>20

\* What a call of the autofocus keeps.
Keeps(s, t) == /\ t.frames = s.frames
               /\ Comes(t.due, "content") => Comes(s.due, "content")

LEMMA ScheduleFocusOK ==
  ASSUME setup \in Setups, NEW s, SessionOK(setup, s), NEW in \in Nat, NEW value \in FocusValues,
         NEW t, t = ScheduleFocus(s, in, value)
  PROVE  SessionOK(setup, t) /\ Keeps(s, t)
<1>1. PICK u : u = setup
  OBVIOUS
<1> DEFINE skew == IF u.scenario.skew = None THEN u.profile.timings.skew ELSE u.scenario.skew
           first == IF u.scenario.leads = "property" THEN in ELSE in + skew
           second == IF u.scenario.leads = "property" THEN in + skew ELSE in
           m == Schedule(s, first, "focus_property", value)
<1>2. skew \in Nat
  BY <1>1, ProfileFacts, SetupFacts
<1>3. t = Schedule(m, second, "focus_status", value)
  BY <1>1 DEF ScheduleFocus, timings, profile, scenario
<1>4. first \in Nat /\ second \in Nat
  BY <1>2
<1>5. /\ "focus_property" \in Actions \ {"lost", "exposed", "content", "postview"}
      /\ "focus_status" \in Actions \ {"lost", "exposed", "content", "postview"}
      /\ value \in Args
  BY DEF Actions, Args
<1> HIDE DEF skew, first, second
<1>6. /\ ItemOK([in |-> first, what |-> "focus_property", arg |-> value])
      /\ ItemOK([in |-> second, what |-> "focus_status", arg |-> value])
  BY DEF ItemOK
<1>7. PICK mm : mm = m
  OBVIOUS
<1> HIDE DEF m
<1>8. mm = Schedule(s, first, "focus_property", value)
  BY <1>7 DEF m
<1>9. SessionOK(u, s)
  BY <1>1
<1>10. /\ SessionOK(u, mm) /\ Only(s, mm, {"due"})
       /\ Comes(mm.due, "content") => Comes(s.due, "content")
  BY <1>4, <1>5, <1>6, <1>8, <1>9, ScheduleOK
<1>11. t = Schedule(mm, second, "focus_status", value)
  BY <1>3, <1>7
<1>12. /\ SessionOK(u, t) /\ Only(mm, t, {"due"})
       /\ Comes(t.due, "content") => Comes(mm.due, "content")
  BY <1>4, <1>5, <1>6, <1>10, <1>11, ScheduleOK
<1>13. t.frames = s.frames
  BY <1>10, <1>12 DEF Only, Fields
<1> QED BY <1>1, <1>10, <1>12, <1>13 DEF Keeps

\* Properties are set, the recording state is not among them.
LEMMA ValuesOK ==
  ASSUME NEW u, NEW s, SessionOK(u, s), NEW t, Only(s, t, {"value"}),
         "RecordingState" \in DOMAIN t.value,
         t.value["RecordingState"] = s.value["RecordingState"]
  PROVE  SessionOK(u, t) /\ Keeps(s, t)
<1>1. SessionTyped(u, s)
  BY DEF SessionOK
<1>2. Only(s, t, QuietFields)
  BY DEF Only, QuietFields
<1>3. /\ t.link = s.link /\ t.closed = s.closed /\ t.destination = s.destination
      /\ t.postviewOn = s.postviewOn /\ t.pending = s.pending /\ t.frames = s.frames
      /\ t.frameIn = s.frameIn /\ t.ready = s.ready /\ t.due = s.due
  BY DEF Only, Fields
<1>4. SessionOK(u, t)
  BY <1>1, <1>2, <1>3, QuietOK DEF SessionTyped
<1> QED BY <1>3, <1>4 DEF Keeps

LEMMA ValueOK ==
  ASSUME NEW u, NEW s, SessionOK(u, s), NEW code, code # "RecordingState", NEW v,
         NEW t, t = [s EXCEPT !.value[code] = v]
  PROVE  SessionOK(u, t) /\ Keeps(s, t)
<1>1. DOMAIN s = Fields /\ "RecordingState" \in DOMAIN s.value
  BY DEF SessionOK, SessionTyped
<1>2. PICK w, x : w = s.value /\ x = [w EXCEPT ![code] = v]
  OBVIOUS
<1>3. Only(s, t, {"value"}) /\ t.value = x
  BY <1>1, <1>2 DEF Only, Fields
<1>4. "RecordingState" \in DOMAIN x /\ x["RecordingState"] = w["RecordingState"]
  BY <1>1, <1>2
<1> QED BY <1>2, <1>3, <1>4, ValuesOK

LEMMA BeginAutofocusOK ==
  ASSUME setup \in Setups, NEW s, SessionOK(setup, s), NEW t, t = BeginAutofocus(s)
  PROVE  SessionOK(setup, t) /\ Keeps(s, t)
<1>1. PICK u : u = setup
  OBVIOUS
<1>2. /\ u.profile.timings.fail \in Nat /\ u.profile.timings.tracking \in Nat
      /\ u.profile.timings.confirm \in Nat
  BY <1>1, ProfileFacts
<1> DEFINE continuous == s.value["FocusMode"] = "af_c"
           verdict(single, cont) == IF continuous THEN cont ELSE single
<1>3. CASE t = s
  BY <1>3 DEF Keeps
<1>4. CASE t = [s EXCEPT !.value["FocusIndication"] = verdict("focused_s", "focused_c")]
  <2>1. PICK v : v = verdict("focused_s", "focused_c")
    OBVIOUS
  <2>2. t = [s EXCEPT !.value["FocusIndication"] = v]
    BY <1>4, <2>1
  <2>3. "FocusIndication" # "RecordingState"
    OBVIOUS
  <2> QED BY <2>2, <2>3, ValueOK
<1>5. CASE t = ScheduleFocus(s, timings.fail, verdict("not_focused_s", "not_focused_c"))
  <2>1. PICK v, in : v = verdict("not_focused_s", "not_focused_c") /\ in = u.profile.timings.fail
    OBVIOUS
  <2>2. v \in FocusValues /\ in \in Nat
    BY <1>2, <2>1 DEF FocusValues
  <2>3. t = ScheduleFocus(s, in, v)
    BY <1>1, <1>5, <2>1 DEF timings, profile
  <2> QED BY <2>2, <2>3, ScheduleFocusOK
<1>6. CASE t = ScheduleFocus(ScheduleFocus(s, timings.tracking, "tracking_c"),
                             timings.confirm, "focused_c")
  <2>1. PICK in, d, m : /\ in = u.profile.timings.tracking /\ d = u.profile.timings.confirm
                        /\ m = ScheduleFocus(s, in, "tracking_c")
    OBVIOUS
  <2>2. in \in Nat /\ d \in Nat /\ "tracking_c" \in FocusValues /\ "focused_c" \in FocusValues
    BY <1>2, <2>1 DEF FocusValues
  <2>3. SessionOK(setup, m) /\ Keeps(s, m)
    BY <2>1, <2>2, ScheduleFocusOK
  <2>4. t = ScheduleFocus(m, d, "focused_c")
    BY <1>1, <1>6, <2>1 DEF timings, profile
  <2>5. SessionOK(setup, t) /\ Keeps(m, t)
    BY <2>2, <2>3, <2>4, ScheduleFocusOK
  <2> QED BY <2>3, <2>5 DEF Keeps
<1>7. CASE t = ScheduleFocus(s, timings.confirm, "focused_s")
  <2>1. PICK d : d = u.profile.timings.confirm
    OBVIOUS
  <2>2. d \in Nat /\ "focused_s" \in FocusValues
    BY <1>2, <2>1 DEF FocusValues
  <2>3. t = ScheduleFocus(s, d, "focused_s")
    BY <1>1, <1>7, <2>1 DEF timings, profile
  <2> QED BY <2>2, <2>3, ScheduleFocusOK
<1> QED BY <1>3, <1>4, <1>5, <1>6, <1>7, Zenon DEF BeginAutofocus

LEMMA CancelAutofocusOK ==
  ASSUME NEW u, NEW s, SessionOK(u, s), NEW t, t = CancelAutofocus(s)
  PROVE  SessionOK(u, t) /\ Keeps(s, t)
<1>1. t = [s EXCEPT !.value["FocusIndication"] = "unlocked"]
  BY DEF CancelAutofocus
<1>2. "FocusIndication" # "RecordingState"
  OBVIOUS
<1> QED BY <1>1, <1>2, ValueOK

LEMMA ReleaseUpOK ==
  ASSUME NEW u, NEW s, SessionOK(u, s), NEW t, t = ReleaseUp(s)
  PROVE  SessionOK(u, t) /\ Keeps(s, t)
<1>1. CASE ~scenario.releaseClears
  BY <1>1 DEF ReleaseUp, Keeps
<1>2. CASE scenario.releaseClears
  <2>1. DOMAIN s = Fields /\ "RecordingState" \in DOMAIN s.value
    BY DEF SessionOK, SessionTyped
  <2> DEFINE w == s.value
             x == With(w, [c \in {"S1", "FocusIndication"} |-> "unlocked"])
  <2>2. t = [s EXCEPT !.value = x]
    BY <1>2 DEF ReleaseUp
  <2>3. "RecordingState" \in DOMAIN x /\ x["RecordingState"] = w["RecordingState"]
    BY <2>1 DEF With
  <2> HIDE DEF x
  <2>4. Only(s, t, {"value"}) /\ t.value = x
    BY <2>1, <2>2 DEF Only, Fields
  <2> QED BY <2>3, <2>4, ValuesOK
<1> QED BY <1>1, <1>2

\* The recording state passes into one that ends.
LEMMA RecordingOK ==
  ASSUME NEW u, NEW s, SessionOK(u, s), NEW state, NEW what,
         \/ state = "starting" /\ what = "recording"
         \/ state = "stopping" /\ what = "idle",
         NEW in \in Nat,
         NEW t, t = Schedule(Emit([s EXCEPT !.recording = state], <<<<"recording", state>>>>),
                             in, what, None)
  PROVE  SessionOK(u, t) /\ t.frames = s.frames
<1> DEFINE e == <<<<"recording", state>>>>
<1>1. PICK m, w : m = [s EXCEPT !.recording = state] /\ w = Emit(m, e)
  OBVIOUS
<1>2. t = Schedule(w, in, what, None)
  BY <1>1
<1>3. e \in Seq(Events)
  <2>1. <<"recording", state>> \in Events
    BY DEF Events
  <2> QED BY <2>1
<1> HIDE DEF e
<1>4. SessionTyped(u, s)
  BY DEF SessionOK
<1>5. Only(s, m, {"recording"}) /\ m.recording = state
  BY <1>1, <1>4 DEF Only, Fields, SessionTyped
<1>6. Only(m, w, {"ready"}) /\ (m.ready \in Seq(Events) => w.ready \in Seq(Events))
  <2>1. DOMAIN m = Fields /\ w = Emit(m, e)
    BY <1>1, <1>5 DEF Only
  <2>2. Only(m, w, {"ready"})
    BY <1>3, <2>1, EmitFacts
  <2>3. m.ready \in Seq(Events) => w.ready \in Seq(Events)
    BY <1>3, <2>1, EmitFacts
  <2> QED BY <2>2, <2>3
<1>7. /\ DOMAIN w = Fields /\ w.recording = state
      /\ w.link = s.link /\ w.closed = s.closed /\ w.mode = s.mode
      /\ w.destination = s.destination /\ w.value = s.value
      /\ w.postviewOn = s.postviewOn /\ w.pending = s.pending /\ w.contents = s.contents
      /\ w.lastId = s.lastId /\ w.exposures = s.exposures /\ w.frames = s.frames
      /\ w.frameIn = s.frameIn /\ w.blocked = s.blocked /\ w.due = s.due
      /\ m.ready = s.ready
  BY <1>5, <1>6 DEF Only, Fields
<1>8. SessionTyped(u, w)
  BY <1>4, <1>6, <1>7 DEF SessionTyped
<1>9. what \in Actions /\ None \in Args /\ ItemOK([in |-> in, what |-> what, arg |-> None])
  BY DEF Actions, Args, ItemOK
<1>10. SessionTyped(u, t) /\ Only(w, t, {"due"})
  BY <1>2, <1>8, <1>9, SchedulePlaces
<1>11. Comes(t.due, what) /\ \A a : Comes(w.due, a) => Comes(t.due, a)
  <2>1. Comes(t.due, what)
    BY <1>2, <1>8, <1>9, ScheduleKeeps
  <2>2. \A a : Comes(w.due, a) => Comes(t.due, a)
    BY <1>2, <1>8, <1>9, ScheduleKeeps
  <2> QED BY <2>1, <2>2
<1>12. \A a, b : what # a /\ Ends(w.due, a, b) => Ends(t.due, a, b)
  BY <1>2, <1>8, <1>9, ScheduleKeeps
<1>13. PostviewsNamed(t)
  <2>1. PostviewsNamed(w)
    BY <1>7 DEF SessionOK, PostviewsNamed, Named
  <2> QED BY <1>2, <1>8, <1>9, <2>1, ScheduleKeeps
<1>14. \A r : NoLater(w.due, "exposed", r) => NoLater(t.due, "exposed", r)
  BY <1>2, <1>8, <1>9, ScheduleKeeps
<1>15. StillsNumbered(w) => StillsNumbered(t)
  BY <1>2, <1>8, <1>9, ScheduleKeeps
<1>16. t.recording = state /\ t.link = s.link /\ t.blocked = s.blocked /\ t.frames = s.frames
  BY <1>7, <1>10 DEF Only, Fields
<1>17. RecordingEnds(t)
  BY <1>11, <1>16 DEF RecordingEnds
<1>18. LinkEnds(t)
  BY <1>7, <1>11, <1>12, <1>16 DEF SessionOK, LinkEnds
<1>19. u.patient => StillsNumbered(t) /\ ExposureBlocks(t)
  BY <1>7, <1>12, <1>14, <1>15, <1>16 DEF SessionOK, StillsNumbered, ExposureBlocks
<1> QED BY <1>10, <1>13, <1>16, <1>17, <1>18, <1>19 DEF SessionOK

LEMMA BeginRecordingOK ==
  ASSUME setup \in Setups, NEW s, SessionOK(setup, s), NEW t, t = BeginRecording(s)
  PROVE  SessionOK(setup, t) /\ t.frames = s.frames
<1>1. PICK u, d : u = setup /\ d = u.profile.timings.recStart
  OBVIOUS
<1>2. d \in Nat
  BY <1>1, ProfileFacts
<1>3. CASE t = s
  BY <1>3
<1>4. CASE t # s
  <2>1. t = Schedule(Emit([s EXCEPT !.recording = "starting"], <<<<"recording", "starting">>>>),
                     d, "recording", None)
    BY <1>1, <1>4 DEF BeginRecording, timings, profile
  <2> QED BY <1>2, <2>1, RecordingOK
<1> QED BY <1>3, <1>4

LEMMA EndRecordingOK ==
  ASSUME setup \in Setups, NEW s, SessionOK(setup, s), NEW t, t = EndRecording(s)
  PROVE  SessionOK(setup, t) /\ t.frames = s.frames
<1>1. PICK u, d : u = setup /\ d = u.profile.timings.recStop
  OBVIOUS
<1>2. d \in Nat
  BY <1>1, ProfileFacts
<1>3. CASE t = s
  BY <1>3
<1>4. CASE t # s
  <2>1. t = Schedule(Emit([s EXCEPT !.recording = "stopping"], <<<<"recording", "stopping">>>>),
                     d, "idle", None)
    BY <1>1, <1>4 DEF EndRecording, timings, profile
  <2> QED BY <1>2, <2>1, RecordingOK
<1> QED BY <1>3, <1>4

\* What holds while an exposure is being scheduled: all but the pause of the
\* live view, whose length is still to be set.
Shooting(u, s, pause) ==
    /\ SessionTyped(u, s)
    /\ PostviewsNamed(s) /\ LinkEnds(s) /\ RecordingEnds(s)
    /\ u.patient => /\ StillsNumbered(s)
                    /\ Ends(s.due, "exposed", "content")
                    /\ NoLater(s.due, "exposed", pause)

LEMMA PauseSet ==
  ASSUME NEW u, NEW pause \in Nat, NEW s, Shooting(u, s, pause),
         NEW t, t = [s EXCEPT !.blocked = pause]
  PROVE  SessionOK(u, t) /\ t.frames = s.frames
<1>1. SessionTyped(u, s)
  BY DEF Shooting
<1>2. Only(s, t, {"blocked"}) /\ t.blocked = pause
  BY <1>1 DEF Only, Fields, SessionTyped
<1>3. /\ DOMAIN t = Fields
      /\ t.link = s.link /\ t.closed = s.closed /\ t.mode = s.mode
      /\ t.destination = s.destination /\ t.value = s.value /\ t.recording = s.recording
      /\ t.postviewOn = s.postviewOn /\ t.pending = s.pending /\ t.contents = s.contents
      /\ t.lastId = s.lastId /\ t.exposures = s.exposures /\ t.frames = s.frames
      /\ t.frameIn = s.frameIn /\ t.due = s.due /\ t.ready = s.ready
  BY <1>2 DEF Only, Fields
<1>4. SessionTyped(u, t)
  BY <1>1, <1>2, <1>3 DEF SessionTyped
<1>5. PostviewsNamed(t)
  BY <1>3 DEF Shooting, PostviewsNamed, Named
<1>6. LinkEnds(t) /\ RecordingEnds(t)
  BY <1>3 DEF Shooting, LinkEnds, RecordingEnds
<1>7. u.patient => StillsNumbered(t) /\ ExposureBlocks(t)
  BY <1>2, <1>3 DEF Shooting, StillsNumbered, ExposureBlocks
<1> QED BY <1>3, <1>4, <1>5, <1>6, <1>7 DEF SessionOK

\* What follows the exposure and its still is neither.
LEMMA ShootingGoesOn ==
  ASSUME NEW u, NEW pause \in Nat, NEW s, Shooting(u, s, pause),
         NEW in \in Nat, NEW what \in {"postview", "unknown"}, NEW arg \in Args,
         ItemOK([in |-> in, what |-> what, arg |-> arg]), what = "postview" => Named(s, arg),
         NEW t, t = Schedule(s, in, what, arg)
  PROVE  Shooting(u, t, pause) /\ t.frames = s.frames
<1>1. SessionTyped(u, s) /\ what \in Actions
  BY DEF Shooting, Actions
<1>2. SessionTyped(u, t) /\ Only(s, t, {"due"})
  BY <1>1, SchedulePlaces
<1>3. \A a : Comes(s.due, a) => Comes(t.due, a)
  BY <1>1, ScheduleKeeps
<1>4. \A a, b : what # a /\ Ends(s.due, a, b) => Ends(t.due, a, b)
  BY <1>1, ScheduleKeeps
<1>5. PostviewsNamed(t)
  BY <1>1, ScheduleKeeps DEF Shooting
<1>6. RecordingEnds(t)
  BY <1>1, ScheduleKeeps DEF Shooting
<1>7. \A r : NoLater(s.due, "exposed", r) => NoLater(t.due, "exposed", r)
  BY <1>1, ScheduleKeeps
<1>8. StillsNumbered(s) => StillsNumbered(t)
  BY <1>1, ScheduleKeeps
<1>9. t.link = s.link /\ t.frames = s.frames
  BY <1>2 DEF Only, Fields
<1>10. LinkEnds(t)
  BY <1>3, <1>4, <1>9 DEF Shooting, LinkEnds
<1>11. u.patient => /\ StillsNumbered(t) /\ Ends(t.due, "exposed", "content")
                    /\ NoLater(t.due, "exposed", pause)
  BY <1>4, <1>7, <1>8 DEF Shooting
<1> QED BY <1>2, <1>5, <1>6, <1>9, <1>10, <1>11 DEF Shooting

\* The exposure and the still it leaves.
LEMMA ShootingBegins ==
  ASSUME NEW u, NEW s, SessionOK(u, s), u.patient => ~Comes(s.due, "content"),
         NEW in \in Nat, NEW later \in Nat, NEW gap \in Nat, NEW id \in Nat, s.lastId < id,
         NEW m, m = Schedule(s, in, "exposed", None),
         NEW t, t = Schedule(m, in + later, "content", id)
  PROVE  Shooting(u, t, in + gap)
<1> DEFINE c == [in |-> in, what |-> "exposed", arg |-> None]
           d == [in |-> in + later, what |-> "content", arg |-> id]
<1>1. c \in Item /\ d \in Item /\ ItemOK(c) /\ ItemOK(d) /\ in + later \in Nat
  BY DEF Item, ItemOK, Actions, Args
<1>2. "exposed" \in Actions /\ "content" \in Actions /\ None \in Args /\ id \in Args
  BY DEF Actions, Args
<1>3. SessionTyped(u, s)
  BY DEF SessionOK
<1>4. SessionTyped(u, m) /\ Only(s, m, {"due"}) /\ Inserted(s.due, m.due, c)
  BY <1>1, <1>2, <1>3, SchedulePlaces
<1>5. SessionTyped(u, t) /\ Only(m, t, {"due"}) /\ Inserted(m.due, t.due, d)
  BY <1>1, <1>2, <1>4, SchedulePlaces
<1>6. PostviewsNamed(m) /\ RecordingEnds(m) /\ \A a : Comes(s.due, a) => Comes(m.due, a)
  BY <1>1, <1>2, <1>3, ScheduleKeeps DEF SessionOK
<1>7. \A a, b : "exposed" # a /\ Ends(s.due, a, b) => Ends(m.due, a, b)
  BY <1>1, <1>2, <1>3, ScheduleKeeps
<1>8. /\ NoLater(s.due, "exposed", in + gap) => NoLater(m.due, "exposed", in + gap)
      /\ StillsNumbered(s) => StillsNumbered(m)
      /\ Comes(m.due, "content") => Comes(s.due, "content")
  <2>1. \A r : NoLater(s.due, "exposed", r) /\ in <= r => NoLater(m.due, "exposed", r)
    BY <1>1, <1>2, <1>3, ScheduleKeeps
  <2>2. StillsNumbered(s) => StillsNumbered(m)
    BY <1>1, <1>2, <1>3, ScheduleKeeps
  <2>3. Comes(m.due, "content") => Comes(s.due, "content")
    BY <1>1, <1>2, <1>3, ScheduleKeeps
  <2> QED BY <2>1, <2>2, <2>3
<1>9. /\ m.link = s.link /\ m.frames = s.frames /\ m.lastId = s.lastId
      /\ t.link = m.link /\ t.frames = m.frames /\ t.lastId = m.lastId
  BY <1>4, <1>5 DEF Only, Fields
<1>10. PostviewsNamed(t) /\ RecordingEnds(t) /\ \A a : Comes(m.due, a) => Comes(t.due, a)
  BY <1>1, <1>2, <1>4, <1>6, ScheduleKeeps
<1>11. \A a, b : "content" # a /\ Ends(m.due, a, b) => Ends(t.due, a, b)
  BY <1>1, <1>2, <1>4, ScheduleKeeps
<1>12. NoLater(m.due, "exposed", in + gap) => NoLater(t.due, "exposed", in + gap)
  <2>1. \A r : NoLater(m.due, "exposed", r) => NoLater(t.due, "exposed", r)
    BY <1>1, <1>2, <1>4, ScheduleKeeps
  <2> QED BY <2>1
<1>13. StillsNumbered(m) /\ ~Comes(m.due, "content") => StillsNumbered(t)
  BY <1>1, <1>2, <1>4, <1>9, ScheduleKeeps
<1>15. LinkEnds(t)
  BY <1>6, <1>7, <1>9, <1>10, <1>11 DEF SessionOK, LinkEnds
<1>16. ASSUME u.patient PROVE /\ StillsNumbered(t) /\ Ends(t.due, "exposed", "content")
                              /\ NoLater(t.due, "exposed", in + gap)
  <2>1. PICK q, r, w : q = s.due /\ r = m.due /\ w = t.due
    OBVIOUS
  <2>2. q \in Seq(Item) /\ r \in Seq(Item) /\ ~Comes(q, "content") /\ Ends(q, "exposed", "content")
    BY <1>3, <1>4, <1>16, <2>1 DEF SessionTyped, SessionOK, ExposureBlocks
  <2>3. /\ Inserted(q, r, c) /\ Inserted(r, w, d)
        /\ c.what = "exposed" /\ d.what = "content" /\ c.in <= d.in
    BY <1>4, <1>5, <2>1
  <2> HIDE DEF c, d
  <2>4. Ends(w, "exposed", "content")
    BY <1>1, <2>2, <2>3, PairEnds
  <2>5. \A i \in 1..Len(q) : q[i].what # "exposed"
    <3> SUFFICES ASSUME NEW i \in 1..Len(q), q[i].what = "exposed" PROVE FALSE
      OBVIOUS
    <3>1. PICK j \in i + 1..Len(q) : q[j].what = "content"
      BY <2>2 DEF Ends, Behind
    <3>2. j \in 1..Len(q)
      BY <2>2, <3>1
    <3> QED BY <2>2, <3>1, <3>2 DEF Comes
  <2>6. NoLater(q, "exposed", in + gap)
    BY <2>5 DEF NoLater
  <2>7. StillsNumbered(t)
    BY <1>8, <1>13, <1>16 DEF SessionOK
  <2> QED BY <1>8, <1>12, <2>1, <2>4, <2>6, <2>7
<1> QED BY <1>5, <1>9, <1>10, <1>15, <1>16 DEF Shooting

LEMMA ScheduleExposureOK ==
  ASSUME setup \in Setups, NEW s, SessionOK(setup, s), setup.patient => ~Comes(s.due, "content"),
         NEW delay \in Nat, NEW t, t = ScheduleExposure(s, delay)
  PROVE  SessionOK(setup, t) /\ t.frames = s.frames
<1>1. PICK u : u = setup
  OBVIOUS
<1>2. PICK exposed, later, gap, id, soon :
         /\ exposed = delay + u.profile.timings.exposure
         /\ later = u.profile.timings.content + u.scenario.contentLate
         /\ gap = u.profile.timings.gap
         /\ id = s.lastId + u.scenario.idStep
         /\ soon = delay + u.profile.timings.postview
  OBVIOUS
<1>3. /\ exposed \in Nat /\ later \in Nat /\ gap \in Nat /\ soon \in Nat /\ exposed + 5 \in Nat
      /\ exposed + gap \in Nat /\ id \in Nat /\ s.lastId < id
  <2>1. s.lastId \in Nat
    BY DEF SessionOK, SessionTyped
  <2>2. /\ u.profile.timings.exposure \in Nat /\ u.profile.timings.content \in Nat
        /\ u.profile.timings.gap \in Nat /\ u.profile.timings.postview \in Nat
        /\ u.scenario.contentLate \in Nat /\ u.scenario.idStep \in Nat \ {0}
    BY <1>1, ProfileFacts, SetupFacts
  <2> QED BY <1>2, <2>1, <2>2
<1>4. CASE scenario.noExposure
  BY <1>4 DEF ScheduleExposure
<1>5. CASE ~scenario.noExposure
  <2>1. PICK taken, stored, viewed, all :
           /\ taken = Schedule(s, exposed, "exposed", None)
           /\ stored = Schedule(taken, exposed + later, "content", id)
           /\ viewed = IF Able.postview_delivery THEN Schedule(stored, soon, "postview", id)
                                                 ELSE stored
           /\ all = IF scenario.unknownEvents
                    THEN Schedule(viewed, exposed + 5, "unknown", None) ELSE viewed
    OBVIOUS
  <2>2. t = [all EXCEPT !.blocked = exposed + gap]
    <3>1. exposed + later
             = delay + u.profile.timings.exposure + u.profile.timings.content
                  + u.scenario.contentLate
      BY <1>1, <1>2, ProfileFacts, SetupFacts
    <3>2. id = NextId(s) /\ id = PostviewId(s) /\ exposed + gap = LiveViewPause(delay)
      BY <1>1, <1>2 DEF NextId, PostviewId, LiveViewPause, timings, profile, scenario
    <3>3. /\ exposed = delay + timings.exposure
          /\ exposed + later = exposed + timings.content + scenario.contentLate
          /\ soon = delay + timings.postview
      BY <1>1, <1>2, <3>1 DEF timings, profile, scenario
    <3> QED BY <1>5, <2>1, <3>2, <3>3, Zenon DEF ScheduleExposure
  <2>3. /\ Shooting(u, stored, exposed + gap) /\ stored.frames = s.frames /\ Named(stored, id)
    <3>1. SessionOK(u, s) /\ (u.patient => ~Comes(s.due, "content"))
      BY <1>1
    <3>2. taken = Schedule(s, exposed, "exposed", None)
      BY <2>1
    <3>3. stored = Schedule(taken, exposed + later, "content", id)
      BY <2>1
    <3>4. Shooting(u, stored, exposed + gap)
      BY <1>3, <3>1, <3>2, <3>3, ShootingBegins
    <3>5. SessionTyped(u, s) /\ exposed + later \in Nat
      BY <1>3, <3>1 DEF SessionOK
    <3>6. /\ "exposed" \in Actions /\ "content" \in Actions /\ None \in Args /\ id \in Args
          /\ ItemOK([in |-> exposed, what |-> "exposed", arg |-> None])
          /\ ItemOK([in |-> exposed + later, what |-> "content", arg |-> id])
      BY <1>3 DEF Actions, Args, ItemOK
    <3>7. SessionTyped(u, taken) /\ Only(s, taken, {"due"})
      BY <1>3, <3>2, <3>5, <3>6, SchedulePlaces
    <3>8. Named(stored, id)
      BY <3>3, <3>5, <3>6, <3>7, ScheduleKeeps
    <3>9. Only(taken, stored, {"due"})
      BY <3>3, <3>5, <3>6, <3>7, SchedulePlaces
    <3>10. stored.frames = s.frames
      BY <3>7, <3>9 DEF Only, Fields
    <3> QED BY <3>4, <3>8, <3>10
  <2>4. Shooting(u, viewed, exposed + gap) /\ viewed.frames = s.frames
    <3>1. id \in Args /\ ItemOK([in |-> soon, what |-> "postview", arg |-> id])
      BY <1>3 DEF Args, ItemOK
    <3>2. CASE Able.postview_delivery
      BY <1>3, <2>1, <2>3, <3>1, <3>2, ShootingGoesOn
    <3> QED BY <2>1, <2>3, <3>2
  <2>5. Shooting(u, all, exposed + gap) /\ all.frames = s.frames
    <3>1. None \in Args /\ ItemOK([in |-> exposed + 5, what |-> "unknown", arg |-> None])
      BY DEF Args, ItemOK
    <3>2. CASE scenario.unknownEvents
      BY <1>3, <2>1, <2>4, <3>1, <3>2, ShootingGoesOn
    <3> QED BY <2>1, <2>4, <3>2
  <2> QED BY <1>1, <1>3, <2>2, <2>5, PauseSet
<1> QED BY <1>4, <1>5

\* A session just opened, with its connection on the way.
LEMMA FreshOK ==
  ASSUME setup \in Setups, NEW mode \in DOMAIN setup.profile.modes,
         NEW destination \in setup.profile.destinations, NEW in \in Nat,
         NEW t, t = Schedule(Emit(NewSession(mode, destination),
                                  <<<<"connection", "connecting">>>>), in, "connected", None)
  PROVE  SessionOK(setup, t)
<1>1. PICK u : u = setup
  OBVIOUS
<1>2. PICK n, s : n = NewSession(mode, destination)
                  /\ s = Emit(n, <<<<"connection", "connecting">>>>)
  OBVIOUS
<1>3. t = Schedule(s, in, "connected", None)
  BY <1>2
<1>4. "RecordingState" \in u.profile.base
  BY <1>1, ProfileFacts
<1>5. /\ DOMAIN n = Fields
      /\ n.link = "connecting" /\ n.closed = FALSE /\ n.mode = mode
      /\ n.destination = destination /\ n.recording = "idle" /\ n.postviewOn = FALSE
      /\ n.pending = None /\ n.contents = <<>> /\ n.lastId \in Nat /\ n.exposures = 0
      /\ n.frames = 0 /\ n.frameIn = 0 /\ n.blocked = 0 /\ n.due = <<>> /\ n.ready = <<>>
      /\ n.value = [code \in PropertyCodes(u.profile, mode) |-> InitialValue(code, destination)]
  BY <1>1, <1>2, SMT DEF NewSession, Fields, profile
<1>6. "RecordingState" \in DOMAIN n.value /\ n.value["RecordingState"] = "idle"
  <2>1. "RecordingState" \in PropertyCodes(u.profile, mode)
    BY <1>4 DEF PropertyCodes
  <2>2. InitialValue("RecordingState", destination) = "idle"
    BY DEF InitialValue
  <2> QED BY <1>5, <2>1, <2>2
<1>7. /\ DOMAIN s = Fields /\ s.ready \in Seq(Events)
      /\ s.link = "connecting" /\ s.closed = FALSE /\ s.mode = mode
      /\ s.destination = destination /\ s.recording = "idle" /\ s.postviewOn = FALSE
      /\ s.pending = None /\ s.contents = <<>> /\ s.lastId \in Nat /\ s.exposures = 0
      /\ s.frames = 0 /\ s.frameIn = 0 /\ s.blocked = 0 /\ s.due = <<>>
      /\ s.value = n.value
  <2> DEFINE e == <<<<"connection", "connecting">>>>
  <2>1. e \in Seq(Events)
    <3>1. <<"connection", "connecting">> \in Events
      BY DEF Events
    <3> QED BY <3>1
  <2>2. s = Emit(n, e)
    BY <1>2
  <2> HIDE DEF e
  <2>6. DOMAIN n = Fields
    BY <1>5
  <2>3. Only(n, s, {"ready"})
    BY <2>1, <2>2, <2>6, EmitFacts
  <2>4. n.ready \in Seq(Events) => s.ready \in Seq(Events)
    BY <2>1, <2>2, <2>6, EmitFacts
  <2>5. n.ready \in Seq(Events)
    BY <1>5
  <2> QED BY <1>5, <2>3, <2>4, <2>5 DEF Only, Fields
<1>8. s.due \in Seq(Item) /\ s.contents \in Seq(Nat) /\ Len(s.due) = 0 /\ Len(s.contents) = 0
  BY <1>7
<1>9. SessionTyped(u, s)
  <2>1. /\ s.mode \in DOMAIN u.profile.modes /\ s.destination \in u.profile.destinations
        /\ "RecordingState" \in DOMAIN s.value
    BY <1>1, <1>6, <1>7
  <2>2. Sorted(s.due)
    BY <1>8 DEF Sorted
  <2>3. /\ s.link \in {"connecting", "connected", "reconnecting", "closed"}
        /\ s.recording \in {"idle", "starting", "recording", "stopping"}
    BY <1>7
  <2>5. s.closed \in BOOLEAN /\ s.postviewOn \in BOOLEAN
    BY <1>7
  <2>6. /\ s.lastId \in Nat /\ s.exposures \in Nat /\ s.frames \in Nat
        /\ s.frameIn \in Nat /\ s.blocked \in Nat
    BY <1>7
  <2>4. DOMAIN s = Fields /\ s.ready \in Seq(Events)
    BY <1>7
  <2> QED BY <1>8, <2>1, <2>2, <2>3, <2>4, <2>5, <2>6 DEF SessionTyped
<1>10. PostviewsNamed(s)
  BY <1>7, <1>8 DEF PostviewsNamed
<1>11. RecordingEnds(s)
  BY <1>6, <1>7 DEF RecordingEnds
<1>12. StillsNumbered(s) /\ ExposureBlocks(s) /\ Ends(s.due, "lost", "recovered")
  BY <1>8 DEF StillsNumbered, ExposureBlocks, Single, Ends, NoLater
<1>13. "connected" \in Actions /\ None \in Args
       /\ ItemOK([in |-> in, what |-> "connected", arg |-> None])
  BY DEF Actions, Args, ItemOK
<1>14. SessionTyped(u, t) /\ Only(s, t, {"due"})
  BY <1>3, <1>9, <1>13, SchedulePlaces
<1>15. Comes(t.due, "connected") /\ RecordingEnds(t)
  BY <1>3, <1>9, <1>11, <1>13, ScheduleKeeps
<1>16. PostviewsNamed(t)
  BY <1>3, <1>9, <1>10, <1>13, ScheduleKeeps
<1>17. \A a, b : "connected" # a /\ Ends(s.due, a, b) => Ends(t.due, a, b)
  BY <1>3, <1>9, <1>13, ScheduleKeeps
<1>18. \A r : NoLater(s.due, "exposed", r) => NoLater(t.due, "exposed", r)
  BY <1>3, <1>9, <1>13, ScheduleKeeps
<1>19. StillsNumbered(t)
  BY <1>3, <1>9, <1>12, <1>13, ScheduleKeeps
<1>20. t.link = s.link /\ t.blocked = s.blocked
  BY <1>14 DEF Only, Fields
<1>21. LinkEnds(t)
  BY <1>7, <1>12, <1>15, <1>17, <1>20 DEF LinkEnds
<1>22. ExposureBlocks(t)
  BY <1>12, <1>17, <1>18, <1>20 DEF ExposureBlocks
<1> QED BY <1>1, <1>14, <1>15, <1>16, <1>19, <1>21, <1>22 DEF SessionOK

-----------------------------------------------------------------------------
(* The actions.                                                            *)

LEMMA Kept ==
  ASSUME SimIInv, setup' = setup, calls' \in 0..MaxCalls, NEW t, session' = t, SessionOK(setup, t)
  PROVE  SimIInv'
BY DEF SimIInv

\* A command is counted up to the bound.
LEMMA CountedOK ==
  ASSUME SimIInv, NEW command, Counted(command)
  PROVE  setup' = setup /\ calls' \in 0..MaxCalls
BY SimulatorAssumption DEF SimIInv, Counted

LEMMA UncountedOK ==
  ASSUME SimIInv, Uncounted
  PROVE  setup' = setup /\ calls' \in 0..MaxCalls
BY DEF SimIInv, Uncounted

\* Every call first lands what is due.
LEMMA LandedNow ==
  ASSUME SimIInv, session # None, NEW s, s = Landed(session)
  PROVE  /\ setup \in Setups /\ SessionOK(setup, s) /\ NothingDue(s) /\ s.frames = session.frames
<1>1. PICK o : o = session
  OBVIOUS
<1>2. SessionOK(setup, o) /\ s = Landed(o) /\ setup \in Setups
  BY <1>1 DEF SimIInv
<1> QED BY <1>1, <1>2, LandedOK

LEMMA OpenStep ==
  ASSUME SimIInv, Open
  PROVE  SimIInv'
<1> DEFINE destination == IF setup.destination = None THEN profile.destination
                                                      ELSE setup.destination
           connect == timings.connect
           planned == Schedule(Emit(NewSession(setup.mode, destination),
                                    <<<<"connection", "connecting">>>>), connect, "connected", None)
           all == IF scenario.reconnectAfter = None THEN planned
                  ELSE WithReconnect(planned, connect + scenario.reconnectAfter)
<1>1. /\ setup.mode \in DOMAIN setup.profile.modes
      /\ destination \in setup.profile.destinations
      /\ session' = Landed(Elapsed(all, connect)) /\ Uncounted
  BY DEF Open, profile
<1>2. setup \in Setups
  BY DEF SimIInv
<1>3. PICK u, c, after : u = setup /\ c = u.profile.timings.connect
                         /\ after = u.scenario.reconnectAfter
  OBVIOUS
<1>4. c \in Nat /\ after \in Nat \union {None} /\ connect = c /\ scenario.reconnectAfter = after
  BY <1>2, <1>3, ProfileFacts, SetupFacts DEF timings, profile, scenario
<1>5. PICK mode, dest : mode = setup.mode /\ dest = destination
  OBVIOUS
<1> HIDE DEF destination, connect
<1>6. PICK p : p = planned
  OBVIOUS
<1>7. p = Schedule(Emit(NewSession(mode, dest), <<<<"connection", "connecting">>>>),
                   c, "connected", None)
  BY <1>4, <1>5, <1>6
<1>8. SessionOK(setup, p)
  BY <1>1, <1>2, <1>4, <1>5, <1>7, FreshOK
<1>9. PICK a : a = all
  OBVIOUS
<1>10. a = IF after = None THEN p ELSE WithReconnect(p, c + after)
  BY <1>4, <1>6, <1>9
<1> HIDE DEF planned, all
<1>11. SessionOK(setup, a)
  <2>1. CASE after = None
    BY <1>8, <1>10, <2>1
  <2>2. CASE after # None
    <3>1. c + after \in Nat
      BY <1>4, <2>2
    <3> QED BY <1>2, <1>8, <1>10, <2>2, <3>1, WithReconnectOK
  <2> QED BY <2>1, <2>2
<1>12. PICK e, t : e = Elapsed(a, c) /\ t = Landed(e)
  OBVIOUS
<1>13. SessionOK(setup, e)
  BY <1>4, <1>11, <1>12, ElapsedOK
<1>14. SessionOK(setup, t)
  BY <1>12, <1>13, LandedOK
<1>15. session' = t
  BY <1>1, <1>4, <1>9, <1>12
<1> QED BY <1>1, <1>14, <1>15, UncountedOK, Kept
LEMMA CloseStep ==
  ASSUME SimIInv, Close
  PROVE  SimIInv' /\ session'.frames = session.frames
<1> DEFINE events == <<<<"connection", "closed">>>>
<1>1. PICK o, m, t : /\ o = session /\ m = [o EXCEPT !.closed = TRUE, !.link = "closed"]
                     /\ t = Emit(m, events)
  OBVIOUS
<1>2. session' = t /\ Uncounted
  BY <1>1 DEF Close
<1>3. SessionOK(setup, o)
  BY <1>1 DEF SimIInv, Close, Open_
<1>4. events \in Seq(Events)
  <2>1. <<"connection", "closed">> \in Events
    BY DEF Events
  <2> QED BY <2>1
<1> HIDE DEF events
<1>5. SessionTyped(setup, o)
  BY <1>3 DEF SessionOK
<1>6. Only(o, m, {"closed", "link"}) /\ m.closed = TRUE /\ m.link = "closed"
  BY <1>1, <1>5 DEF SessionTyped, Only, Fields
<1>7. Only(o, m, QuietFields)
  BY <1>6 DEF Only, QuietFields
<1>8. /\ m.destination = o.destination /\ m.value = o.value /\ m.postviewOn = o.postviewOn
      /\ m.pending = o.pending /\ m.frames = o.frames /\ m.frameIn = o.frameIn
      /\ m.ready = o.ready
  BY <1>6 DEF Only, Fields
<1>9. SessionOK(setup, m)
  BY <1>3, <1>5, <1>6, <1>7, <1>8, QuietOK DEF SessionTyped
<1>10. SessionOK(setup, t) /\ t.frames = m.frames
  <2>1. t = Emit(m, events)
    BY <1>1
  <2> QED BY <1>4, <1>9, <2>1, EmitOK
<1> QED BY <1>1, <1>2, <1>8, <1>10, UncountedOK, Kept

LEMMA ConnectionStateStep ==
  ASSUME SimIInv, ConnectionState
  PROVE  SimIInv' /\ session'.frames = session.frames
<1>1. PICK s : s = Landed(session)
  OBVIOUS
<1>2. session' = s /\ session # None /\ Uncounted
  BY <1>1 DEF ConnectionState
<1>3. SessionOK(setup, s) /\ s.frames = session.frames
  BY <1>1, <1>2, LandedNow
<1> QED BY <1>2, <1>3, UncountedOK, Kept

LEMMA CallRefusedStep ==
  ASSUME SimIInv, CallRefused
  PROVE  SimIInv' /\ session'.frames = session.frames
<1>1. PICK s : s = Landed(session)
  OBVIOUS
<1>2. session' = s /\ session # None /\ Uncounted
  BY <1>1 DEF CallRefused, Open_, Uncounted
<1>3. SessionOK(setup, s) /\ s.frames = session.frames
  BY <1>1, <1>2, LandedNow
<1> QED BY <1>2, <1>3, UncountedOK, Kept

LEMMA SleepStep ==
  ASSUME SimIInv, NEW d \in Nat, Sleep(d)
  PROVE  SimIInv' /\ session'.frames = session.frames
<1>1. PICK o, t : o = session /\ t = Elapsed(o, d)
  OBVIOUS
<1>2. session' = t /\ session # None /\ Counted("sleep")
  BY <1>1 DEF Sleep
<1>3. SessionOK(setup, o)
  BY <1>1, <1>2 DEF SimIInv
<1>4. SessionOK(setup, t) /\ t.frames = o.frames
  BY <1>1, <1>3, ElapsedOK
<1> QED BY <1>1, <1>2, <1>4, CountedOK, Kept

LEMMA PollEventsStep ==
  ASSUME SimIInv, NEW timeout \in Nat, PollEvents(timeout)
  PROVE  SimIInv' /\ session'.frames = session.frames
<1>1. PICK s : s = Landed(session)
  OBVIOUS
<1>2. session # None /\ Uncounted
  BY DEF PollEvents, Open_
<1>3. SessionOK(setup, s) /\ s.frames = session.frames
  BY <1>1, <1>2, LandedNow
<1> DEFINE wait == IF s.due = <<>> \/ s.due[1].in > timeout THEN timeout ELSE s.due[1].in
<1>4. wait \in Nat
  <2>1. PICK q : q = s.due
    OBVIOUS
  <2>2. q \in Seq(Item)
    BY <1>3, <2>1 DEF SessionOK, SessionTyped
  <2>3. CASE q = <<>>
    BY <2>1, <2>3
  <2>4. CASE q # <<>>
    <3>1. q[1] \in Item
      BY <2>2, <2>4, TailFacts
    <3>2. q[1].in \in Nat
      BY <3>1 DEF Item
    <3> QED BY <2>1, <3>2
  <2> QED BY <2>3, <2>4
<1>5. PICK e, w : e = Elapsed(s, wait) /\ w = Landed(e)
  OBVIOUS
<1>6. PICK n : n = IF s.ready # <<>> \/ timeout = 0 THEN s ELSE w
  OBVIOUS
<1>7. session' = [n EXCEPT !.ready = <<>>]
  BY <1>1, <1>5, <1>6 DEF PollEvents
<1> HIDE DEF wait
<1>8. SessionOK(setup, e) /\ e.frames = s.frames
  BY <1>3, <1>4, <1>5, ElapsedOK
<1>9. SessionOK(setup, w) /\ w.frames = e.frames
  BY <1>5, <1>8, LandedOK
<1>10. SessionOK(setup, n) /\ n.frames = s.frames
  BY <1>3, <1>6, <1>8, <1>9
<1>11. PICK t : t = [n EXCEPT !.ready = <<>>]
  OBVIOUS
<1>12. SessionTyped(setup, n)
  BY <1>10 DEF SessionOK
<1>13. Only(n, t, {"ready"}) /\ t.ready = <<>>
  BY <1>11, <1>12 DEF SessionTyped, Only, Fields
<1>14. Only(n, t, QuietFields)
  BY <1>13 DEF Only, QuietFields
<1>15. /\ t.link = n.link /\ t.closed = n.closed /\ t.destination = n.destination
       /\ t.value = n.value /\ t.postviewOn = n.postviewOn /\ t.pending = n.pending
       /\ t.frames = n.frames /\ t.frameIn = n.frameIn
  BY <1>13 DEF Only, Fields
<1>16. t.ready \in Seq(Events)
  BY <1>13
<1>17. SessionOK(setup, t)
  BY <1>10, <1>12, <1>14, <1>15, <1>16, QuietOK DEF SessionTyped
<1>18. session' = t /\ t.frames = session.frames
  BY <1>3, <1>7, <1>10, <1>11, <1>15
<1> QED BY <1>2, <1>17, <1>18, UncountedOK, Kept

LEMMA SimulateReconnectStep ==
  ASSUME SimIInv, NEW delay \in Nat, SimulateReconnect(delay)
  PROVE  SimIInv' /\ session'.frames = session.frames
<1>1. PICK o, t : o = session /\ t = WithReconnect(o, delay)
  OBVIOUS
<1>2. session' = t /\ session # None /\ Counted("reconnect")
  BY <1>1 DEF SimulateReconnect, Open_
<1>3. SessionOK(setup, o) /\ setup \in Setups
  BY <1>1, <1>2 DEF SimIInv
<1>4. SessionOK(setup, t) /\ t.frames = o.frames
  BY <1>1, <1>3, WithReconnectOK
<1> QED BY <1>1, <1>2, <1>4, CountedOK, Kept

LEMMA SetPropertyStep ==
  ASSUME SimIInv, NEW code \in {"S1", "ISO"}, NEW value, SetProperty(code, value)
  PROVE  SimIInv' /\ session'.frames = session.frames
<1> DEFINE events == <<<<"property", code>>>>
<1>1. PICK s, m, w : /\ s = Landed(session) /\ m = [s EXCEPT !.value[code] = value]
                     /\ w = Emit(m, events)
  OBVIOUS
<1>2. session # None /\ setup' = setup /\ calls' \in 0..MaxCalls
  <2>1. Open_ /\ Counted(IF code = "S1" THEN "half_press" ELSE "property")
    BY DEF SetProperty, Usable
  <2> QED BY <2>1, CountedOK DEF Open_
<1>3. setup \in Setups /\ SessionOK(setup, s) /\ s.frames = session.frames
  BY <1>1, <1>2, LandedNow
<1>4. SessionOK(setup, m) /\ Keeps(s, m)
  <2>1. code # "RecordingState"
    OBVIOUS
  <2> QED BY <1>1, <1>3, <2>1, ValueOK
<1>5. events \in Seq(Events)
  <2>1. <<"property", code>> \in Events
    BY DEF Events
  <2> QED BY <2>1
<1> HIDE DEF events
<1>6. SessionOK(setup, w) /\ w.frames = m.frames
  <2>1. w = Emit(m, events) /\ SessionOK(setup, m)
    BY <1>1, <1>4
  <2> QED BY <1>5, <2>1, EmitOK
<1>7. PICK b, c : b = BeginAutofocus(w) /\ c = CancelAutofocus(w)
  OBVIOUS
<1>8. SessionOK(setup, b) /\ Keeps(w, b)
  BY <1>3, <1>6, <1>7, BeginAutofocusOK
<1>9. SessionOK(setup, c) /\ Keeps(w, c)
  BY <1>6, <1>7, CancelAutofocusOK
<1>10. session' \in {w, b, c}
  BY <1>1, <1>7, Zenon DEF SetProperty, events
<1>11. PICK t \in {w, b, c} : session' = t
  BY <1>10
<1>12. SessionOK(setup, t) /\ t.frames = session.frames
  BY <1>3, <1>4, <1>6, <1>8, <1>9, <1>11 DEF Keeps
<1> QED BY <1>2, <1>11, <1>12, Kept
LEMMA PhysicalChangeStep ==
  ASSUME SimIInv, NEW value, PhysicalChange(value)
  PROVE  SimIInv' /\ session'.frames = session.frames
<1> DEFINE events == <<<<"property", "batch">>>>
<1>1. PICK s, codes, d : /\ s = Landed(session) /\ d = timings.straggler
                         /\ codes = {"FocusMode", "FocusIndication"} \intersect DOMAIN s.value
  OBVIOUS
<1>2. PICK turned, told, t :
         /\ turned = IF "FocusMode" \in codes THEN [s EXCEPT !.value["FocusMode"] = value] ELSE s
         /\ told = IF codes = {} THEN turned ELSE Emit(turned, events)
         /\ t = IF scenario.stragglers /\ Cardinality(codes) > 1
                THEN Schedule(told, d, "straggler", "FocusIndication") ELSE told
  OBVIOUS
<1>3. session' = t
  BY <1>1, <1>2, Zenon DEF PhysicalChange
<1>4. session # None /\ setup' = setup /\ calls' \in 0..MaxCalls
  <2>1. Open_ /\ Counted("switch")
    BY DEF PhysicalChange, Usable
  <2> QED BY <2>1, CountedOK DEF Open_
<1>5. setup \in Setups /\ SessionOK(setup, s) /\ s.frames = session.frames
  BY <1>1, <1>4, LandedNow
<1>6. d \in Nat
  <2>1. PICK u : u = setup
    OBVIOUS
  <2> QED BY <1>1, <1>5, <2>1, ProfileFacts DEF timings, profile
<1>7. SessionOK(setup, turned) /\ turned.frames = s.frames
  <2>1. CASE "FocusMode" \in codes
    <3>1. turned = [s EXCEPT !.value["FocusMode"] = value] /\ "FocusMode" # "RecordingState"
      BY <1>2, <2>1
    <3>2. SessionOK(setup, turned) /\ Keeps(s, turned)
      BY <1>5, <3>1, ValueOK
    <3> QED BY <3>2 DEF Keeps
  <2>2. CASE "FocusMode" \notin codes
    BY <1>2, <1>5, <2>2
  <2> QED BY <2>1, <2>2
<1>8. SessionOK(setup, told) /\ told.frames = s.frames
  <2>1. CASE codes = {}
    BY <1>2, <1>7, <2>1
  <2>2. CASE codes # {}
    <3>1. told = Emit(turned, events)
      BY <1>2, <2>2
    <3>2. events \in Seq(Events)
      <4>1. <<"property", "batch">> \in Events
        BY DEF Events
      <4> QED BY <4>1
    <3> HIDE DEF events
    <3>3. SessionOK(setup, told) /\ told.frames = turned.frames
      BY <1>7, <3>1, <3>2, EmitOK
    <3> QED BY <1>7, <3>3
  <2> QED BY <2>1, <2>2
<1>9. SessionOK(setup, t) /\ t.frames = s.frames
  <2>1. CASE t = told
    BY <1>8, <2>1
  <2>2. CASE t = Schedule(told, d, "straggler", "FocusIndication")
    <3>1. /\ "straggler" \in Actions \ {"lost", "exposed", "content", "postview"}
          /\ "FocusIndication" \in Args
          /\ ItemOK([in |-> d, what |-> "straggler", arg |-> "FocusIndication"])
      BY DEF Actions, Args, ItemOK
    <3>2. SessionOK(setup, t) /\ Only(told, t, {"due"})
      BY <1>6, <1>8, <2>2, <3>1, ScheduleOK
    <3> QED BY <1>8, <3>2 DEF Only, Fields
  <2> QED BY <1>2, <2>1, <2>2
<1> QED BY <1>3, <1>4, <1>5, <1>9, Kept

\* A patient client asks for a still when none is on its way.
LEMMA CapturePatience ==
  ASSUME NEW s, s = Landed(session), s.due \in Seq(Item), CaptureAllowed
  PROVE  setup.patient => ~Comes(s.due, "content")
BY DEF CaptureAllowed, Waiting, Comes

LEMMA SendReleaseStep ==
  ASSUME SimIInv, NEW down \in BOOLEAN, SendRelease(down)
  PROVE  SimIInv' /\ session'.frames = session.frames
<1>1. PICK s : s = Landed(session)
  OBVIOUS
<1>2. session # None /\ setup' = setup /\ calls' \in 0..MaxCalls
  <2>1. Open_ /\ Counted("release")
    BY DEF SendRelease, Usable
  <2> QED BY <2>1, CountedOK DEF Open_
<1>3. setup \in Setups /\ SessionOK(setup, s) /\ s.frames = session.frames
  BY <1>1, <1>2, LandedNow
<1>4. CASE down
  <2>1. PICK t : t = ScheduleExposure(s, 0)
    OBVIOUS
  <2>2. session' = t /\ CaptureAllowed
    BY <1>1, <1>4, <2>1 DEF SendRelease
  <2>3. setup.patient => ~Comes(s.due, "content")
    BY <1>1, <1>3, <2>2, CapturePatience DEF SessionOK, SessionTyped
  <2>4. SessionOK(setup, t) /\ t.frames = s.frames
    BY <1>3, <2>1, <2>3, ScheduleExposureOK
  <2> QED BY <1>2, <1>3, <2>2, <2>4, Kept
<1>5. CASE ~down
  <2>1. PICK t : t = ReleaseUp(s)
    OBVIOUS
  <2>2. session' = t
    BY <1>1, <1>5, <2>1 DEF SendRelease
  <2>3. SessionOK(setup, t) /\ Keeps(s, t)
    BY <1>3, <2>1, ReleaseUpOK
  <2> QED BY <1>2, <1>3, <2>2, <2>3, Kept DEF Keeps
<1> QED BY <1>4, <1>5

LEMMA SendS1AndReleaseStep ==
  ASSUME SimIInv, NEW down \in BOOLEAN, SendS1AndRelease(down)
  PROVE  SimIInv' /\ session'.frames = session.frames
<1>1. PICK s : s = Landed(session)
  OBVIOUS
<1>2. session # None /\ setup' = setup /\ calls' \in 0..MaxCalls
  <2>1. Open_ /\ Counted("s1_release")
    BY DEF SendS1AndRelease, Usable
  <2> QED BY <2>1, CountedOK DEF Open_
<1>3. setup \in Setups /\ SessionOK(setup, s) /\ s.frames = session.frames
  BY <1>1, <1>2, LandedNow
<1>4. CASE down
  <2>1. PICK u, d, f, t : /\ u = setup /\ d = u.profile.timings.confirm
                          /\ f = BeginAutofocus(s) /\ t = ScheduleExposure(f, d)
    OBVIOUS
  <2>2. session' = t /\ CaptureAllowed
    BY <1>1, <1>4, <2>1 DEF SendS1AndRelease, timings, profile
  <2>3. setup.patient => ~Comes(s.due, "content")
    BY <1>1, <1>3, <2>2, CapturePatience DEF SessionOK, SessionTyped
  <2>4. SessionOK(setup, f) /\ Keeps(s, f)
    BY <1>3, <2>1, BeginAutofocusOK
  <2>5. (setup.patient => ~Comes(f.due, "content")) /\ d \in Nat
    BY <1>3, <2>1, <2>3, <2>4, ProfileFacts DEF Keeps
  <2>6. SessionOK(setup, t) /\ t.frames = f.frames
    BY <1>3, <2>1, <2>4, <2>5, ScheduleExposureOK
  <2> QED BY <1>2, <1>3, <2>2, <2>4, <2>6, Kept DEF Keeps
<1>5. CASE ~down
  <2>1. PICK t : t = ReleaseUp(s)
    OBVIOUS
  <2>2. session' = t
    BY <1>1, <1>5, <2>1 DEF SendS1AndRelease
  <2>3. SessionOK(setup, t) /\ Keeps(s, t)
    BY <1>3, <2>1, ReleaseUpOK
  <2> QED BY <1>2, <1>3, <2>2, <2>3, Kept DEF Keeps
<1> QED BY <1>4, <1>5

LEMMA StartRecordingStep ==
  ASSUME SimIInv, NEW raw \in BOOLEAN, StartRecording(raw)
  PROVE  SimIInv' /\ session'.frames = session.frames
<1>1. PICK s, t : s = Landed(session) /\ t = BeginRecording(s)
  OBVIOUS
<1>2. session # None /\ setup' = setup /\ calls' \in 0..MaxCalls
  <2>1. Open_ /\ Counted("record")
    BY DEF StartRecording, Usable
  <2> QED BY <2>1, CountedOK DEF Open_
<1>3. setup \in Setups /\ SessionOK(setup, s) /\ s.frames = session.frames
  BY <1>1, <1>2, LandedNow
<1>4. session' = t
  BY <1>1 DEF StartRecording
<1>5. SessionOK(setup, t) /\ t.frames = s.frames
  BY <1>1, <1>3, BeginRecordingOK
<1> QED BY <1>2, <1>3, <1>4, <1>5, Kept

LEMMA StopRecordingStep ==
  ASSUME SimIInv, StopRecording
  PROVE  SimIInv' /\ session'.frames = session.frames
<1>1. PICK s, t : s = Landed(session) /\ t = EndRecording(s)
  OBVIOUS
<1>2. session # None /\ setup' = setup /\ calls' \in 0..MaxCalls
  <2>1. Open_ /\ Counted("record")
    BY DEF StopRecording, Usable
  <2> QED BY <2>1, CountedOK DEF Open_
<1>3. setup \in Setups /\ SessionOK(setup, s) /\ s.frames = session.frames
  BY <1>1, <1>2, LandedNow
<1>4. session' = t
  BY <1>1 DEF StopRecording
<1>5. SessionOK(setup, t) /\ t.frames = s.frames
  BY <1>1, <1>3, EndRecordingOK
<1> QED BY <1>2, <1>3, <1>4, <1>5, Kept

LEMMA SetDestinationStep ==
  ASSUME SimIInv, NEW destination, SetDestination(destination)
  PROVE  SimIInv' /\ session'.frames = session.frames
<1> DEFINE events == <<<<"property", "Destination">>>>
<1>1. PICK s : s = Landed(session)
  OBVIOUS
<1>2. session # None /\ setup' = setup /\ calls' \in 0..MaxCalls
  <2>1. Open_ /\ Counted("destination")
    BY DEF SetDestination, Usable
  <2> QED BY <2>1, CountedOK DEF Open_
<1>3. setup \in Setups /\ SessionOK(setup, s) /\ s.frames = session.frames
  BY <1>1, <1>2, LandedNow
<1>4. SessionTyped(setup, s)
  BY <1>3 DEF SessionOK
<1>5. PICK w, x : w = s.value /\ x = With(w, [c \in {"Destination"} |-> destination])
  OBVIOUS
<1>6. PICK m, t : /\ m = [s EXCEPT !.destination = destination, !.value = x]
                  /\ t = Emit(m, events)
  OBVIOUS
<1>7. session' = t /\ destination \in setup.profile.destinations
  BY <1>1, <1>5, <1>6 DEF SetDestination, profile
<1>8. events \in Seq(Events)
  <2>1. <<"property", "Destination">> \in Events
    BY DEF Events
  <2> QED BY <2>1
<1> HIDE DEF events
<1>9. "RecordingState" \in DOMAIN x /\ x["RecordingState"] = w["RecordingState"]
  BY <1>4, <1>5 DEF SessionTyped, With
<1>10. Only(s, m, {"destination", "value"}) /\ m.destination = destination /\ m.value = x
  BY <1>4, <1>6 DEF SessionTyped, Only, Fields
<1>11. Only(s, m, QuietFields)
  BY <1>10 DEF Only, QuietFields
<1>12. /\ m.link = s.link /\ m.closed = s.closed /\ m.postviewOn = s.postviewOn
       /\ m.pending = s.pending /\ m.frames = s.frames /\ m.frameIn = s.frameIn
       /\ m.ready = s.ready
  BY <1>10 DEF Only, Fields
<1>13. SessionOK(setup, m)
  BY <1>3, <1>4, <1>5, <1>7, <1>9, <1>10, <1>11, <1>12, QuietOK DEF SessionTyped
<1>14. SessionOK(setup, t) /\ t.frames = m.frames
  <2>1. t = Emit(m, events)
    BY <1>6
  <2> QED BY <1>8, <1>13, <2>1, EmitOK
<1> QED BY <1>2, <1>3, <1>7, <1>12, <1>14, Kept
LEMMA ConfigurePostviewStep ==
  ASSUME SimIInv, NEW enabled \in BOOLEAN, ConfigurePostview(enabled)
  PROVE  SimIInv' /\ session'.frames = session.frames
<1>1. PICK s, t : s = Landed(session) /\ t = [s EXCEPT !.postviewOn = enabled]
  OBVIOUS
<1>2. session # None /\ setup' = setup /\ calls' \in 0..MaxCalls
  <2>1. Open_ /\ Counted("postview")
    BY DEF ConfigurePostview, Usable
  <2> QED BY <2>1, CountedOK DEF Open_
<1>3. SessionOK(setup, s) /\ s.frames = session.frames
  BY <1>1, <1>2, LandedNow
<1>4. SessionTyped(setup, s)
  BY <1>3 DEF SessionOK
<1>5. session' = t
  BY <1>1 DEF ConfigurePostview
<1>6. Only(s, t, {"postviewOn"}) /\ t.postviewOn = enabled
  BY <1>1, <1>4 DEF SessionTyped, Only, Fields
<1>7. Only(s, t, QuietFields)
  BY <1>6 DEF Only, QuietFields
<1>8. /\ t.link = s.link /\ t.closed = s.closed /\ t.destination = s.destination
      /\ t.value = s.value /\ t.pending = s.pending /\ t.frames = s.frames
      /\ t.frameIn = s.frameIn /\ t.ready = s.ready
  BY <1>6 DEF Only, Fields
<1>9. SessionOK(setup, t)
  BY <1>3, <1>4, <1>6, <1>7, <1>8, QuietOK DEF SessionTyped
<1> QED BY <1>2, <1>3, <1>5, <1>8, <1>9, Kept

LEMMA PullPostviewStep ==
  ASSUME SimIInv, PullPostview
  PROVE  SimIInv' /\ session'.frames = session.frames
<1>1. PICK s, t : s = Landed(session) /\ t = [s EXCEPT !.pending = None]
  OBVIOUS
<1>2. session # None /\ setup' = setup /\ calls' \in 0..MaxCalls
  <2>1. Open_ /\ Uncounted
    BY DEF PullPostview, Usable
  <2> QED BY <2>1, UncountedOK DEF Open_
<1>3. SessionOK(setup, s) /\ s.frames = session.frames
  BY <1>1, <1>2, LandedNow
<1>4. SessionTyped(setup, s)
  BY <1>3 DEF SessionOK
<1>5. session' = t
  BY <1>1 DEF PullPostview
<1>6. Only(s, t, {"pending"}) /\ t.pending = None
  BY <1>1, <1>4 DEF SessionTyped, Only, Fields
<1>7. Only(s, t, QuietFields)
  BY <1>6 DEF Only, QuietFields
<1>8. /\ t.link = s.link /\ t.closed = s.closed /\ t.destination = s.destination
      /\ t.value = s.value /\ t.postviewOn = s.postviewOn /\ t.frames = s.frames
      /\ t.frameIn = s.frameIn /\ t.ready = s.ready
  BY <1>6 DEF Only, Fields
<1>9. SessionOK(setup, t)
  BY <1>3, <1>4, <1>6, <1>7, <1>8, QuietOK DEF SessionTyped
<1> QED BY <1>2, <1>3, <1>5, <1>8, <1>9, Kept

LEMMA GetPreviewStep ==
  ASSUME SimIInv, GetPreview
  PROVE  SimIInv' /\ session'.frames = session.frames
<1>1. PICK s : s = Landed(session)
  OBVIOUS
<1>2. session # None /\ setup' = setup /\ calls' \in 0..MaxCalls
  <2>1. Open_ /\ Uncounted
    BY DEF GetPreview, Usable
  <2> QED BY <2>1, UncountedOK DEF Open_
<1>3. SessionOK(setup, s) /\ s.frames = session.frames
  BY <1>1, <1>2, LandedNow
<1>4. SessionTyped(setup, s)
  BY <1>3 DEF SessionOK
<1>5. PICK id : session' = [s EXCEPT !.served = id]
  BY <1>1 DEF GetPreview
<1>6. PICK t : t = [s EXCEPT !.served = id]
  OBVIOUS
<1>7. Only(s, t, {"served"})
  BY <1>4, <1>6 DEF SessionTyped, Only, Fields
<1>8. Only(s, t, QuietFields)
  BY <1>7 DEF Only, QuietFields
<1>9. /\ t.link = s.link /\ t.closed = s.closed /\ t.destination = s.destination
      /\ t.value = s.value /\ t.postviewOn = s.postviewOn /\ t.pending = s.pending
      /\ t.frames = s.frames /\ t.frameIn = s.frameIn /\ t.ready = s.ready
  BY <1>7 DEF Only, Fields
<1>10. SessionOK(setup, t)
  BY <1>3, <1>4, <1>8, <1>9, QuietOK DEF SessionTyped
<1> QED BY <1>2, <1>3, <1>5, <1>6, <1>9, <1>10, Kept

\* A live view that is not blocked has no exposure to come: the exposure would
\* be due no later than the pause ends, and what was due has landed.
LEMMA NoExposureToCome ==
  ASSUME NEW u, NEW s, SessionTyped(u, s), ExposureBlocks(s), NothingDue(s), s.blocked = 0
  PROVE  ~Comes(s.due, "exposed")
<1> SUFFICES ASSUME NEW i \in 1..Len(s.due), s.due[i].what = "exposed" PROVE FALSE
  BY DEF Comes
<1>1. PICK q : q = s.due
  OBVIOUS
<1>2. q \in Seq(Item) /\ Sorted(q) /\ i \in 1..Len(q)
  BY <1>1 DEF SessionTyped
<1>3. q[i].in <= 0
  BY <1>1 DEF ExposureBlocks, NoLater
<1>4. 1 \in 1..Len(q) /\ 1 <= i /\ q # <<>>
  BY <1>2
<1>5. q[1].in <= q[i].in
  BY <1>2, <1>4 DEF Sorted
<1>6. q[1] \in Item /\ Head(q) = q[1] /\ q[i] \in Item
  BY <1>2, <1>4, TailFacts
<1>7. q[1].in > 0
  BY <1>1, <1>4, <1>6 DEF NothingDue
<1>8. q[1].in \in Nat /\ q[i].in \in Nat
  BY <1>6 DEF Item
<1> QED BY <1>3, <1>5, <1>7, <1>8

LEMMA FrameStep ==
  ASSUME SimIInv, Frame
  PROVE  SimIInv' /\ (setup.patient => ~Waiting(session', "exposed"))
<1>1. PICK s, n, e, t : /\ s = Landed(session) /\ n = s.frames + 1 /\ e = profile.frameEvery
                        /\ t = [s EXCEPT !.frames = n, !.frameIn = e]
  OBVIOUS
<1>2. session # None /\ setup' = setup /\ calls' \in 0..MaxCalls
  <2>1. Open_ /\ Uncounted
    BY DEF Frame, Usable
  <2> QED BY <2>1, UncountedOK DEF Open_
<1>3. setup \in Setups /\ SessionOK(setup, s) /\ NothingDue(s)
  BY <1>1, <1>2, LandedNow
<1>4. SessionTyped(setup, s)
  BY <1>3 DEF SessionOK
<1>5. session' = t /\ s.blocked = 0
  BY <1>1 DEF Frame
<1>6. Only(s, t, {"frames", "frameIn"}) /\ t.frames = n /\ t.frameIn = e
  BY <1>1, <1>4 DEF SessionTyped, Only, Fields
<1>7. Only(s, t, QuietFields)
  BY <1>6 DEF Only, QuietFields
<1>8. /\ t.link = s.link /\ t.closed = s.closed /\ t.destination = s.destination
      /\ t.value = s.value /\ t.postviewOn = s.postviewOn /\ t.pending = s.pending
      /\ t.ready = s.ready /\ t.due = s.due
  BY <1>6 DEF Only, Fields
<1>9. n \in Nat /\ e \in Nat
  <2>1. PICK u : u = setup
    OBVIOUS
  <2>2. e \in Nat
    BY <1>1, <1>3, <2>1, ProfileFacts DEF profile
  <2> QED BY <1>1, <1>4, <2>2 DEF SessionTyped
<1>10. SessionOK(setup, t)
  BY <1>3, <1>4, <1>6, <1>7, <1>8, <1>9, QuietOK DEF SessionTyped
<1>11. ASSUME setup.patient PROVE ~Waiting(t, "exposed")
  <2>1. ~Comes(s.due, "exposed")
    BY <1>3, <1>4, <1>5, <1>11, NoExposureToCome DEF SessionOK
  <2>2. s.due \in Seq(Item)
    BY <1>4 DEF SessionTyped
  <2> QED BY <1>8, <2>1, <2>2 DEF Waiting, Comes
<1>12. Waiting(session', "exposed") <=> Waiting(t, "exposed")
  BY <1>5 DEF Waiting
<1> QED BY <1>2, <1>5, <1>10, <1>11, <1>12, Kept

LEMMA SetHalfPressStep ==
  ASSUME SimIInv, NEW engaged \in BOOLEAN, SetHalfPress(engaged)
  PROVE  SimIInv' /\ session'.frames = session.frames
BY SetPropertyStep DEF SetHalfPress

-----------------------------------------------------------------------------
(* What is newer than a still.                                             *)

LEMMA SubSeqGrows ==
  ASSUME NEW S, NEW c \in Seq(S), NEW k \in Nat, NEW j \in 1..Len(c)
  PROVE  /\ j <= k => SubSeq(c, k + 1, j) = <<>>
         /\ j > k => SubSeq(c, k + 1, j) = Append(SubSeq(c, k + 1, j - 1), c[j])
<1>1. ASSUME j > k PROVE SubSeq(c, k + 1, j) = Append(SubSeq(c, k + 1, j - 1), c[j])
  <2> DEFINE a == SubSeq(c, k + 1, j)
             b == SubSeq(c, k + 1, j - 1)
             d == Append(b, c[j])
  <2>1. c[j] \in S /\ j \in Nat /\ j <= Len(c) /\ Len(c) \in Nat
    OBVIOUS
  <2>2. b \in Seq(S) 
    BY <1>1, <2>1
  <2>3. Len(b) = j - 1 - k /\ \A i \in 1..j - 1 - k : b[i] = c[k + i]
    BY <1>1, <2>1
  <2>4. a \in Seq(S)
    BY <1>1, <2>1
  <2>5. Len(a) = j - k /\ \A i \in 1..j - k : a[i] = c[k + i]
    BY <1>1, <2>1, SMTT(30)
  <2> HIDE DEF a, b
  <2>6. d \in Seq(S) /\ Len(d) = j - k
    BY <1>1, <2>1, <2>2, <2>3
  <2>7. \A i \in 1..j - k : d[i] = c[k + i]
    <3> SUFFICES ASSUME NEW i \in 1..j - k PROVE d[i] = c[k + i]
      OBVIOUS
    <3>1. CASE i = j - k
      BY <1>1, <2>1, <2>2, <2>3, <3>1
    <3>2. CASE i # j - k
      <4>1. i \in 1..j - 1 - k
        BY <1>1, <2>1, <3>2
      <4> QED BY <1>1, <2>1, <2>2, <2>3, <4>1
    <3> QED BY <3>1, <3>2
  <2> HIDE DEF d
  <2>8. a = [i \in 1..Len(a) |-> a[i]] /\ d = [i \in 1..Len(d) |-> d[i]]
    BY <2>4, <2>6
  <2>9. a = d
    BY <1>1, <2>1, <2>4, <2>5, <2>6, <2>7, <2>8
  <2> QED BY <2>9 DEF a, b, d
<1>2. ASSUME j <= k PROVE SubSeq(c, k + 1, j) = <<>>
  BY <1>2
<1> QED BY <1>1, <1>2

\* In an index in order, what is newer than a still is what follows it.
LEMMA NewerFollow ==
  ASSUME NEW c \in Seq(Nat), \A i, j \in 1..Len(c) : i < j => c[i] < c[j],
         NEW k \in 1..Len(c)
  PROVE  NewerThan(c, c[k]) = SubSeq(c, k + 1, Len(c))
<1> DEFINE n == Len(c)
           id == c[k]
           Run(g) == g = [j \in 0..n |-> IF j = 0 THEN <<>>
                                         ELSE IF id = None \/ c[j] > id THEN Append(g[j - 1], c[j])
                                         ELSE g[j - 1]]
           next(x, j) == IF j > k THEN Append(x, c[j]) ELSE x
<1>1. n \in Nat /\ k \in 1..n /\ \A j \in 1..n : c[j] \in Nat
  OBVIOUS
<1>2. \A j \in 1..n : (id = None \/ c[j] > id) <=> j > k
  <2> SUFFICES ASSUME NEW j \in 1..n PROVE (id = None \/ c[j] > id) <=> j > k
    OBVIOUS
  <2>1. id # None
    BY <1>1, NoneAssumption
  <2>2. j < k => c[j] < c[k]
    OBVIOUS
  <2>3. k < j => c[k] < c[j]
    OBVIOUS
  <2>4. c[j] \in Nat /\ c[k] \in Nat
    BY <1>1
  <2>5. j < k \/ j = k \/ k < j
    BY <1>1
  <2> QED BY <1>1, <2>1, <2>2, <2>3, <2>4, <2>5
<1>3. ASSUME NEW j \in 1..n PROVE SubSeq(c, k + 1, j) = next(SubSeq(c, k + 1, j - 1), j)
  <2>1. CASE j > k
    BY <1>1, <2>1, SubSeqGrows
  <2>2. CASE ~(j > k)
    <3>1. SubSeq(c, k + 1, j) = <<>>
      BY <1>1, <2>2, SubSeqGrows
    <3>2. SubSeq(c, k + 1, j - 1) = <<>>
      BY <1>1, <2>2
    <3> QED BY <2>2, <3>1, <3>2
  <2> QED BY <2>1, <2>2
<1>4. SubSeq(c, k + 1, 0) = <<>>
  BY <1>1
<1> DEFINE f == [j \in 0..n |-> SubSeq(c, k + 1, j)]
<1>5. Run(f)
  <2>1. ASSUME NEW j \in 0..n
        PROVE  f[j] = IF j = 0 THEN <<>>
                      ELSE IF id = None \/ c[j] > id THEN Append(f[j - 1], c[j])
                      ELSE f[j - 1]
    <3>1. CASE j = 0
      BY <1>1, <1>4, <3>1
    <3>2. CASE j # 0
      <4>1. j \in 1..n /\ j - 1 \in 0..n
        BY <1>1, <3>2
      <4>2. f[j] = SubSeq(c, k + 1, j) /\ f[j - 1] = SubSeq(c, k + 1, j - 1)
        BY <4>1
      <4> HIDE DEF f
      <4>3. f[j] = next(f[j - 1], j)
        BY <1>3, <4>1, <4>2
      <4> QED BY <1>2, <3>2, <4>1, <4>3
    <3> QED BY <3>1, <3>2
  <2> QED BY <2>1
<1>6. PICK g : g = CHOOSE h : Run(h)
  OBVIOUS
<1>7. Run(g)
  <2> HIDE DEF Run, f
  <2> QED BY <1>5, <1>6
<1>8. NewerThan(c, id) = g[n]
  BY <1>6 DEF NewerThan
<1>9. g[0] = <<>> /\ \A j \in 1..n : g[j] = next(g[j - 1], j)
  <2>1. \A j \in 0..n : g[j] = IF j = 0 THEN <<>>
                               ELSE IF id = None \/ c[j] > id THEN Append(g[j - 1], c[j])
                               ELSE g[j - 1]
    BY <1>7
  <2>2. 0 \in 0..n /\ \A j \in 1..n : j \in 0..n /\ j # 0
    BY <1>1
  <2> QED BY <1>2, <2>1, <2>2
<1> DEFINE Agrees(j) == g[j] = SubSeq(c, k + 1, j)
           S == {j \in 0..n : Agrees(j)}
<1> HIDE DEF Run, f, n
<1>10. 0 \in S
  <2>1. Agrees(0)
    BY <1>4, <1>9
  <2>2. 0 \in 0..n
    BY <1>1
  <2> HIDE DEF Agrees
  <2> QED BY <2>1, <2>2
<1>11. ASSUME NEW j \in 0..n, j # n, j \in S PROVE j + 1 \in S
  <2>1. j + 1 \in 1..n /\ j + 1 \in 0..n /\ (j + 1) - 1 = j
    BY <1>1, <1>11
  <2>2. g[j + 1] = next(g[j], j + 1) /\ SubSeq(c, k + 1, j + 1) = next(SubSeq(c, k + 1, j), j + 1)
    <3> HIDE DEF next
    <3> QED BY <1>3, <1>9, <2>1
  <2>3. Agrees(j)
    BY <1>11
  <2>4. Agrees(j + 1)
    BY <2>2, <2>3
  <2> HIDE DEF Agrees
  <2> QED BY <2>1, <2>4
<1>12. 0..n \subseteq S
  <2> HIDE DEF S
  <2> QED BY <1>1, <1>10, <1>11, StepByStep
<1>13. n \in S
  BY <1>1, <1>12
<1> QED BY <1>8, <1>13 DEF n

-----------------------------------------------------------------------------
(* The invariant and the theorems.                                         *)

LEMMA SimStarts ==
  ASSUME SimInit
  PROVE  SimIInv
BY SimulatorAssumption DEF SimInit, SimIInv

\* Every step keeps the invariant, and a step that delivers a frame to a
\* patient client leaves no exposure to come.
LEMMA SimSteps ==
  ASSUME SimIInv, [SimNext]_simVars
  PROVE  /\ SimIInv'
         /\ setup.patient /\ session # None /\ session'.frames # session.frames
               => ~Waiting(session', "exposed")
<1>1. CASE UNCHANGED simVars
  BY <1>1 DEF SimIInv, simVars
<1>2. CASE Open
  BY <1>2, OpenStep DEF Open
<1>3. CASE Close
  BY <1>3, CloseStep
<1>4. CASE ConnectionState
  BY <1>4, ConnectionStateStep
<1>5. CASE CallRefused
  BY <1>5, CallRefusedStep
<1>6. ASSUME NEW d \in Pauses, Sleep(d)
      PROVE  SimIInv' /\ session'.frames = session.frames
  BY <1>6, SleepStep, SimulatorAssumption
<1>7. ASSUME NEW t \in Timeouts, PollEvents(t)
      PROVE  SimIInv' /\ session'.frames = session.frames
  BY <1>7, PollEventsStep, SimulatorAssumption
<1>8. ASSUME NEW d \in {0} \union Pauses, SimulateReconnect(d)
      PROVE  SimIInv' /\ session'.frames = session.frames
  <2>1. d \in Nat
    BY SimulatorAssumption
  <2> QED BY <1>8, <2>1, SimulateReconnectStep
<1>9. ASSUME NEW b \in BOOLEAN,
             \/ SetHalfPress(b) \/ ConfigurePostview(b)
             \/ SendRelease(b) \/ SendS1AndRelease(b) \/ StartRecording(b)
      PROVE  SimIInv' /\ session'.frames = session.frames
  BY <1>9, SetHalfPressStep, ConfigurePostviewStep, SendReleaseStep, SendS1AndReleaseStep,
     StartRecordingStep
<1>10. CASE SetProperty("ISO", "200")
  BY <1>10, SetPropertyStep
<1>11. ASSUME NEW v \in {"af_s", "af_c"}, PhysicalChange(v)
       PROVE  SimIInv' /\ session'.frames = session.frames
  BY <1>11, PhysicalChangeStep
<1>12. CASE StopRecording
  BY <1>12, StopRecordingStep
<1>13. ASSUME NEW d \in Destinations, SetDestination(d)
       PROVE  SimIInv' /\ session'.frames = session.frames
  BY <1>13, SetDestinationStep
<1>14. CASE Frame
  BY <1>14, FrameStep
<1>15. CASE PullPostview
  BY <1>15, PullPostviewStep
<1>16. CASE GetPreview
  BY <1>16, GetPreviewStep
<1> QED
  BY <1>1, <1>2, <1>3, <1>4, <1>5, <1>6, <1>7, <1>8, <1>9, <1>10, <1>11, <1>12, <1>13, <1>14,
     <1>15, <1>16 DEF SimNext

\* The invariant that every theorem below rests on.
THEOREM SimulatorInvariant == SimSpec => []SimIInv
<1>1. SimInit => SimIInv
  BY SimStarts
<1>2. SimIInv /\ [SimNext]_simVars => SimIInv'
  BY SimSteps
<1> QED BY <1>1, <1>2, PTL DEF SimSpec

\* The schedule is in order and every field of the session is of its type.
THEOREM Typed == SimSpec => []SimTypeOK
<1>1. SimIInv => SimTypeOK
  <2> SUFFICES ASSUME SimIInv, session # None PROVE SimTypeOK
    BY DEF SimIInv, SimTypeOK
  <2>1. PICK s, u : s = session /\ u = setup
    OBVIOUS
  <2>2. SessionTyped(u, s)
    BY <2>1 DEF SimIInv, SessionOK
  <2>3. \A i \in DOMAIN s.due : /\ s.due[i].in \in Nat
                                /\ s.due[i].what \in Actions
                                /\ \A j \in 1..i : s.due[j].in <= s.due[i].in
    <3>1. PICK q : q = s.due
      OBVIOUS
    <3>2. q \in Seq(Item) /\ Sorted(q)
      BY <2>2, <3>1 DEF SessionTyped
    <3>3. \A i \in 1..Len(q) : q[i].in \in Nat /\ q[i].what \in Actions
      BY <3>2 DEF Item
    <3>4. ASSUME NEW i \in 1..Len(q), NEW j \in 1..i PROVE q[j].in <= q[i].in
      <4>1. j \in 1..Len(q) /\ j <= i
        BY <3>2
      <4> QED BY <3>2, <4>1 DEF Sorted
    <3>5. DOMAIN q = 1..Len(q)
      BY <3>2
    <3> QED BY <3>1, <3>3, <3>4, <3>5
  <2>4. ToSet(s.ready) \subseteq Events
    <3>1. s.ready \in Seq(Events)
      BY <2>2 DEF SessionTyped
    <3> QED BY <3>1 DEF ToSet
  <2>5. /\ s.link \in {"connecting", "connected", "reconnecting", "closed"}
        /\ s.mode \in DOMAIN u.profile.modes /\ s.destination \in u.profile.destinations
        /\ s.recording \in {"idle", "starting", "recording", "stopping"}
        /\ {s.closed, s.postviewOn} \subseteq BOOLEAN
        /\ {s.lastId, s.exposures, s.frames, s.frameIn, s.blocked} \subseteq Nat
    BY <2>2 DEF SessionTyped
  <2> QED BY <2>1, <2>3, <2>4, <2>5 DEF SimIInv, SimTypeOK, profile
<1> QED BY <1>1, SimulatorInvariant, PTL

\* A postview names a still of the index, or one on its way there, though it
\* arrives first: whatever calls, losses and waits come between.
THEOREM PostviewsOfStills == SimSpec => []PostviewNamesStill
<1>1. SimIInv => PostviewNamesStill
  <2> SUFFICES ASSUME SimIInv, session # None, session.pending # None PROVE PostviewNamesStill
    BY DEF PostviewNamesStill
  <2>1. PICK s : s = session
    OBVIOUS
  <2>2. SessionTyped(setup, s) /\ Named(s, s.pending)
    BY <2>1 DEF SimIInv, SessionOK, PostviewsNamed
  <2>3. s.contents \in Seq(Nat) /\ s.due \in Seq(Item)
    BY <2>2 DEF SessionTyped
  <2>4. CASE \E k \in 1..Len(s.contents) : s.contents[k] = s.pending
    <3>1. s.pending \in ToSet(s.contents)
      BY <2>3, <2>4 DEF ToSet
    <3> QED BY <2>1, <3>1 DEF PostviewNamesStill
  <2>5. CASE \E j \in 1..Len(s.due) : s.due[j].what = "content" /\ s.due[j].arg = s.pending
    <3>1. DOMAIN s.due = 1..Len(s.due)
      BY <2>3
    <3> QED BY <2>1, <2>5, <3>1 DEF PostviewNamesStill
  <2> QED BY <2>2, <2>4, <2>5 DEF Named
<1> QED BY <1>1, SimulatorInvariant, PTL

\* No passing state of the link or of the recording is left without the action
\* that ends it.
THEOREM EveryTransientEnds == SimSpec => []TransientEnds
<1>1. SimIInv => TransientEnds
  <2> SUFFICES ASSUME SimIInv, session # None PROVE TransientEnds
    BY DEF TransientEnds
  <2>1. PICK s : s = session
    OBVIOUS
  <2>2. SessionTyped(setup, s) /\ LinkEnds(s) /\ RecordingEnds(s)
    BY <2>1 DEF SimIInv, SessionOK
  <2>3. \A a : Comes(s.due, a) => Waiting(s, a)
    <3>1. s.due \in Seq(Item)
      BY <2>2 DEF SessionTyped
    <3> QED BY <3>1 DEF Comes, Waiting
  <2>4. /\ s.link = "connecting" => Waiting(s, "connected")
        /\ s.link = "reconnecting" => Waiting(s, "recovered")
        /\ s.recording = "starting" => Waiting(s, "recording")
        /\ s.recording = "stopping" => Waiting(s, "idle")
        /\ s.recording \in {"idle", "recording"} => s.value["RecordingState"] = s.recording
    BY <2>2, <2>3 DEF LinkEnds, RecordingEnds
  <2> QED BY <2>1, <2>4 DEF TransientEnds
<1> QED BY <1>1, SimulatorInvariant, PTL

\* To a client that lets each capture finish, asking for what is newer than a
\* still finds exactly the stills stored after it.
THEOREM NewStills == SimSpec => []NewStillsFoundInTurn
<1>1. SimIInv => NewStillsFoundInTurn
  <2> SUFFICES ASSUME SimIInv, setup.patient, session # None PROVE NewStillsFound
    BY DEF NewStillsFoundInTurn, NewStillsFound
  <2>1. PICK c : c = session.contents
    OBVIOUS
  <2>2. SessionTyped(setup, session) /\ StillsNumbered(session)
    BY DEF SimIInv, SessionOK
  <2>3. c \in Seq(Nat) /\ \A i, j \in 1..Len(c) : i < j => c[i] < c[j]
    BY <2>1, <2>2 DEF SessionTyped, StillsNumbered
  <2>4. \A k \in 1..Len(c) : NewerThan(c, c[k]) = SubSeq(c, k + 1, Len(c))
    BY <2>3, NewerFollow
  <2> QED BY <2>1, <2>4 DEF NewStillsFound
<1> QED BY <1>1, SimulatorInvariant, PTL

\* To the same client, no live-view frame is delivered while an exposure is
\* still to come.
THEOREM StreamPausesForExposures == SimSpec => StreamPauses
<1> DEFINE Paused == setup.patient /\ session # None /\ session'.frames # session.frames
                         => ~Waiting(session', "exposed")
<1>1. SimIInv /\ [SimNext]_simVars => [Paused]_simVars
  BY SimSteps
<1>2. StreamPauses <=> [][Paused]_simVars
  BY DEF StreamPauses
<1> HIDE DEF Paused
<1> QED BY <1>1, <1>2, SimulatorInvariant, PTL DEF SimSpec
=============================================================================
