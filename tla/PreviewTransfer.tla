-------------------------- MODULE PreviewTransfer --------------------------
(***************************************************************************)
(* Compressed-preview transfers of one bridge session (bridge.cpp):        *)
(* crsdkpy_fetch_content_preview blocks on a vendor callback that carries  *)
(* no request identity, crsdkpy_take_content_preview serves the bytes it   *)
(* left behind, and crsdkpy_close_session may run at any time.  A caller   *)
(* thread is NativeBackend.get_preview (native.py): a fetch, then a take,  *)
(* two separate calls into the bridge.                                     *)
(*                                                                         *)
(* Locks: the transfer gate is a variable.  transfer_mutex_ is held inside *)
(* each step that touches the transfer.  g_mutex is held by a resolve      *)
(* (atomic here) and by the whole of a close (Closing).                    *)
(***************************************************************************)
EXTENDS Naturals, Sequences

CONSTANTS
  Threads,       \* caller threads
  Contents,      \* stills whose preview may be asked for
  NoThread,      \* the transfer gate is free
  NoBytes,       \* an empty byte vector
  MaxFetches     \* bound: preview requests the vendor accepts

ASSUME ConstantsAssumption ==
  /\ NoThread \notin Threads
  /\ MaxFetches \in Nat

VARIABLES
  pc,         \* where each caller thread is
  want,       \* the still each thread asked for
  got,        \* what the last get_preview of each thread ended with
  gate,       \* transfer_gate_: the thread holding it
  transfer,   \* transfer_, a PendingTransfer
  closing,    \* progress of Session::close
  link,       \* state_ is CONNECTED
  vendor,     \* callbacks still to come, per request the vendor accepted
  served,     \* history: how often each delivery was handed to a caller
  accepted,   \* history: requests accepted
  late        \* history: a delivery came after the fetch that asked had ended

callers == <<pc, want, got>>
histories == <<served, accepted, late>>
vars == <<pc, want, got, gate, transfer, closing, link, vendor, served, accepted,
          late>>

\* What the vendor may do with one request: the callbacks it will make, as
\* OnNotifyRemoteTransferResult sees them.  "draft" carries data at less than
\* 100 percent, "final" carries data at 100, "empty" reports 100 without data.
Scripts == {<<>>, <<"final">>, <<"draft">>, <<"draft", "final">>, <<"empty">>,
            <<"draft", "empty">>}
MaxDeliveries == 2 * MaxFetches

\* A request delivers data at most once as a draft and once as final; that names
\* each delivery.
Delivery(request, part) == IF part = "draft" THEN 2 * request - 1 ELSE 2 * request

Bytes == [id : 1..MaxDeliveries, content : Contents]
Outcomes == {"none", "served", "rejected", "timeout", "failed", "gone", "missing"}

NoTransfer == [inFlight |-> FALSE, complete |-> FALSE, failed |-> FALSE,
               percent |-> 0, bytes |-> NoBytes]

\* Where a fetch holds the gate.
Fetching == {"request", "await", "settle"}

Init ==
  /\ pc = [t \in Threads |-> "idle"]
  /\ want \in [Threads -> Contents]
  /\ got = [t \in Threads |-> [outcome |-> "none", bytes |-> NoBytes]]
  /\ gate = NoThread
  /\ transfer = NoTransfer
  /\ closing = "open"
  /\ link = TRUE
  /\ vendor = <<>>
  /\ served = [d \in 1..MaxDeliveries |-> 0]
  /\ accepted = 0
  /\ late = FALSE

-----------------------------------------------------------------------------
(* Caller threads                                                          *)

Goto(t, label) == pc' = [pc EXCEPT ![t] = label]
Return(t, outcome, bytes) ==
  /\ Goto(t, "idle")
  /\ got' = [got EXCEPT ![t] = [outcome |-> outcome, bytes |-> bytes]]

\* The session resolves and is connected: the fetch may go for the gate.
\* (A call refused here returns an error and changes nothing.)
StartFetch(t, c) ==
  /\ pc[t] = "idle"
  /\ closing = "open"
  /\ link
  /\ accepted < MaxFetches
  /\ Goto(t, "gate")
  /\ want' = [want EXCEPT ![t] = c]
  /\ got' = [got EXCEPT ![t] = [outcome |-> "none", bytes |-> NoBytes]]
  /\ UNCHANGED <<gate, transfer, closing, link, vendor, histories>>

\* Mutant: begin_transfer keeps what an earlier fetch left.
EnterGateKeepingBytes(t) ==
  /\ pc[t] = "gate"
  /\ gate = NoThread
  /\ gate' = t
  /\ transfer' = [transfer EXCEPT !.inFlight = TRUE]
  /\ Goto(t, "request")
  /\ UNCHANGED <<want, got, closing, link, vendor, histories>>

\* transfer_gate() and begin_transfer: whatever was held is discarded.
EnterGate(t) ==
  /\ pc[t] = "gate"
  /\ gate = NoThread
  /\ gate' = t
  /\ transfer' = [NoTransfer EXCEPT !.inFlight = TRUE]
  /\ Goto(t, "request")
  /\ UNCHANGED <<want, got, closing, link, vendor, histories>>

\* The vendor accepts the request.  It cannot once the device was released.
RequestAccepted(t) ==
  /\ pc[t] = "request"
  /\ closing # "closed"
  /\ link
  /\ accepted < MaxFetches
  /\ accepted' = accepted + 1
  /\ \E s \in Scripts :
       vendor' = Append(vendor, [content |-> want[t], script |-> s, request |-> accepted'])
  /\ Goto(t, "await")
  /\ UNCHANGED <<want, got, gate, transfer, closing, link, served, late>>

\* Leaving the fetch releases the gate.  What the vendor has left to say about
\* the request may still come at any time, or never.
Leave == gate' = NoThread /\ UNCHANGED vendor

\* The vendor refuses the request, for any reason of its own: abandon_transfer.
RequestRejected(t) ==
  /\ pc[t] = "request"
  /\ transfer' = NoTransfer
  /\ Leave
  /\ Return(t, "rejected", NoBytes)
  /\ UNCHANGED <<want, closing, link, histories>>

\* Mutant: the transfer stays in flight.
StillInFlight == [transfer EXCEPT !.bytes = NoBytes]

Refused == [transfer EXCEPT !.inFlight = FALSE, !.bytes = NoBytes]

\* Mutant: the wait gives up only while the camera is connected.
AwaitTimeoutConnected(t) ==
  /\ pc[t] = "await" /\ link
  /\ ~transfer.complete /\ transfer.inFlight
  /\ transfer' = Refused
  /\ Leave
  /\ Return(t, "timeout", NoBytes)
  /\ UNCHANGED <<want, closing, link, histories>>

\* await_transfer runs into the overall deadline with nothing delivered.
AwaitTimeout(t) ==
  /\ pc[t] = "await"
  /\ ~transfer.complete
  /\ transfer.inFlight
  /\ transfer' = Refused
  /\ Leave
  /\ Return(t, "timeout", NoBytes)
  /\ UNCHANGED <<want, closing, link, histories>>

\* ... is woken because the session was closed under it.
AwaitClosed(t) ==
  /\ pc[t] = "await"
  /\ ~transfer.complete
  /\ ~transfer.inFlight
  /\ transfer' = Refused
  /\ Leave
  /\ Return(t, "gone", NoBytes)
  /\ UNCHANGED <<want, closing, link, histories>>

\* The end of await_transfer and of the fetch: the reply is the transfer as it
\* is now; the bytes stay behind for a take.  A transfer that failed, or whose
\* bytes are gone, is an error and, if it failed, is abandoned.
Finish(t) ==
  /\ Leave
  /\ \/ /\ transfer.bytes # NoBytes /\ ~transfer.failed
        /\ transfer' = [transfer EXCEPT !.inFlight = FALSE]
        /\ Goto(t, "take")
        /\ got' = [got EXCEPT ![t] =
                     [outcome |-> "none", bytes |-> transfer.bytes]]
     \/ /\ transfer.failed
        /\ transfer' = NoTransfer
        /\ Return(t, "failed", NoBytes)
     \/ /\ transfer.bytes = NoBytes /\ ~transfer.failed
        /\ transfer' = [transfer EXCEPT !.inFlight = FALSE]
        /\ Return(t, "timeout", NoBytes)
  /\ UNCHANGED <<want, closing, link, histories>>

Unfinished == transfer.percent < 100 /\ transfer.inFlight

\* await_transfer sees a delivery: done at 100 percent, else it settles.
AwaitDelivered(t) ==
  /\ pc[t] = "await"
  /\ transfer.complete
  /\ IF Unfinished
     THEN /\ Goto(t, "settle")
          /\ UNCHANGED <<want, got, gate, transfer, closing, link, vendor,
                         histories>>
     ELSE Finish(t)

\* The settle loop ends: the transfer is done or closed, or it stayed quiet
\* for settle_ms, or the overall deadline has come.  (A further delivery below
\* 100 percent only starts the settle period again.)
SettleEnds(t) ==
  /\ pc[t] = "settle"
  /\ Finish(t)

\* crsdkpy_take_content_preview resolves the handle and looks at the size held.
\* Bytes of some other fetch may not fit the caller's buffer.
TakeLook(t) ==
  /\ pc[t] = "take"
  /\ closing # "closing"
  /\ IF closing = "closed"
     THEN Return(t, "gone", NoBytes)
     ELSE IF transfer.complete /\ ~transfer.failed /\ transfer.bytes # NoBytes
          THEN \/ Goto(t, "copy") /\ UNCHANGED got
               \/ transfer.bytes # got[t].bytes /\ Return(t, "missing", NoBytes)
          ELSE Return(t, "missing", NoBytes)
  /\ UNCHANGED <<want, gate, transfer, closing, link, vendor, histories>>

\* Mutants: a copy that leaves the bytes, with and without their mark.
TakeCopyLeaving(t, mark) ==
  /\ pc[t] = "copy"
  /\ IF transfer.complete /\ ~transfer.failed
     THEN /\ Return(t, "served", transfer.bytes)
          /\ transfer' = [transfer EXCEPT !.complete = mark]
          /\ served' = [d \in DOMAIN served |->
                          IF transfer.bytes # NoBytes /\ d = transfer.bytes.id
                          THEN served[d] + 1 ELSE served[d]]
     ELSE /\ Return(t, "missing", NoBytes)
          /\ UNCHANGED <<transfer, served>>
  /\ UNCHANGED <<want, gate, closing, link, vendor, accepted, late>>
TakeCopyKeepsBytes(t) == TakeCopyLeaving(t, FALSE)
TakeCopyKeepsAll(t) == TakeCopyLeaving(t, TRUE)

\* take_transfer_bytes: under the lock once more; what is held now is served.
TakeCopy(t) ==
  /\ pc[t] = "copy"
  /\ IF transfer.complete /\ ~transfer.failed
     THEN /\ Return(t, "served", transfer.bytes)
          /\ transfer' = [transfer EXCEPT !.bytes = NoBytes, !.complete = FALSE]
          /\ served' = [d \in DOMAIN served |->
                          IF transfer.bytes # NoBytes /\ d = transfer.bytes.id
                          THEN served[d] + 1 ELSE served[d]]
     ELSE /\ Return(t, "missing", NoBytes)
          /\ UNCHANGED <<transfer, served>>
  /\ UNCHANGED <<want, gate, closing, link, vendor, accepted, late>>

-----------------------------------------------------------------------------
(* Vendor threads                                                          *)

\* Only the last request can belong to the fetch that holds the gate.
Awaited(i) ==
  i = Len(vendor) /\ \E t \in Threads : pc[t] \in {"await", "settle"}

\* The next callback of the i-th accepted request: OnNotifyRemoteTransferResult
\* and on_transfer_result, which drops it when nothing is in flight.
Deliver(i) ==
  /\ vendor[i].script # <<>>
  /\ vendor' = [vendor EXCEPT ![i].script = Tail(@)]
  /\ LET part == Head(vendor[i].script)
         data == part # "empty"
     IN  transfer' =
           IF ~transfer.inFlight THEN transfer
           ELSE [transfer EXCEPT
                   !.complete = TRUE,
                   !.failed = @ \/ ~data,
                   !.percent = IF part = "draft" THEN 50 ELSE 100,
                   !.bytes = IF data
                             THEN [id |-> Delivery(vendor[i].request, part),
                                   content |-> vendor[i].content]
                             ELSE @]
  /\ late' = (late \/ ~Awaited(i))
  /\ UNCHANGED <<callers, gate, closing, link, served, accepted>>

\* The camera goes away on its own (OnDisconnected): no callback follows, and
\* nothing wakes a blocked fetch.
LinkLost ==
  /\ link
  /\ closing = "open"
  /\ link' = FALSE
  /\ vendor' = <<>>
  /\ UNCHANGED <<callers, gate, transfer, closing, histories>>

\* Session::close, first part: refuse and wake whatever transfer is in flight.
CloseWakes ==
  /\ closing = "open"
  /\ closing' = "closing"
  /\ transfer' = Refused
  /\ UNCHANGED <<callers, gate, link, vendor, histories>>

\* Session::close, second part: disconnect and release the device.  The session
\* leaves its slot before g_mutex is released.
CloseDisconnects ==
  /\ closing = "closing"
  /\ closing' = "closed"
  /\ link' = FALSE
  /\ vendor' = <<>>
  /\ UNCHANGED <<callers, gate, transfer, histories>>

-----------------------------------------------------------------------------
FetchStep(t) ==
  \/ EnterGate(t)
  \/ RequestAccepted(t)
  \/ RequestRejected(t)
  \/ AwaitTimeout(t)
  \/ AwaitClosed(t)
  \/ AwaitDelivered(t)
  \/ SettleEnds(t)
  \/ TakeLook(t)
  \/ TakeCopy(t)

Next ==
  \/ \E t \in Threads, c \in Contents : StartFetch(t, c)
  \/ \E t \in Threads : FetchStep(t)
  \/ \E i \in DOMAIN vendor : Deliver(i)
  \/ LinkLost
  \/ CloseWakes
  \/ CloseDisconnects

\* A thread inside the bridge keeps running and its waits have deadlines; a
\* close that began runs to its end.  Nobody has to start, and the vendor owes
\* no delivery.
Fairness ==
  /\ \A t \in Threads : WF_vars(FetchStep(t))
  /\ WF_vars(CloseDisconnects)

Spec == Init /\ [][Next]_vars
FairSpec == Spec /\ Fairness

-----------------------------------------------------------------------------
\* Types.  Bytes are only ever held together with the mark that says so.
TypeOK ==
  /\ pc \in [Threads -> Fetching \cup {"idle", "gate", "take", "copy"}]
  /\ want \in [Threads -> Contents]
  /\ got \in [Threads -> [outcome : Outcomes, bytes : Bytes \cup {NoBytes}]]
  /\ gate \in Threads \cup {NoThread}
  /\ transfer \in [inFlight : BOOLEAN, complete : BOOLEAN, failed : BOOLEAN,
                   percent : {0, 50, 100}, bytes : Bytes \cup {NoBytes}]
  /\ transfer.bytes # NoBytes => transfer.complete
  /\ closing \in {"open", "closing", "closed"}
  /\ link \in BOOLEAN
  /\ vendor \in Seq([content : Contents, script : Scripts, request : 1..MaxFetches])
  /\ served \in [1..MaxDeliveries -> 0..2]
  /\ accepted \in 0..MaxFetches
  /\ late \in BOOLEAN

\* The gate is held exactly by the one thread that is between its request and
\* its reply, and a transfer is in flight only then: every way out of a fetch
\* (refusal, timeout, close, failure, success) leaves nothing in flight that
\* would accept a delivery nobody waits for.
InFlightOwned ==
  /\ \A t \in Threads : pc[t] \in Fetching <=> gate = t
  /\ transfer.inFlight => gate # NoThread

\* "Taking clears the holding buffer, so the same bytes can never be served
\* twice" (crsdkpy_abi.h), whatever the threads do in between.
ServedOnce == \A d \in 1..MaxDeliveries : served[d] <= 1

\* While the vendor delivers nothing after a fetch has ended, the reply of a
\* fetch describes a delivery made for the still it asked for, whatever earlier
\* fetches and other threads left behind (begin_transfer discards it).
ReplyIsOwn ==
  ~late =>
    \A t \in Threads :
      pc[t] \in {"take", "copy"} => got[t].bytes.content = want[t]

\* What get_preview hands to its caller was delivered for the still the caller
\* asked for: "provably those of the requested (content_id, file_id) rather
\* than a leftover from an earlier fetch" (crsdkpy_abi.h).
ServedIsOwn ==
  \A t \in Threads :
    got[t].outcome = "served" /\ got[t].bytes # NoBytes =>
      got[t].bytes.content = want[t]

\* The same from a vendor that is never late: what is left is the order in which
\* threads fetch and take.
ServedIsOwnWhenPrompt == ~late => ServedIsOwn

\* Once a session is closed no fetch is left that only its timeout can end:
\* close() wakes waiters "so a blocked fetch fails fast instead of waiting out
\* its timeout" (bridge.cpp).
CloseFailsFast ==
  closing = "closed" =>
    \A t \in Threads :
      pc[t] = "await" => transfer.complete \/ ~transfer.inFlight

\* No fetch keeps the gate for ever, whatever the camera and a close do: the
\* next preview request of the session always gets its turn.
GateReleased == \A t \in Threads : gate = t ~> gate # t

=============================================================================
