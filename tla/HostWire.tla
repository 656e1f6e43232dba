------------------------------ MODULE HostWire ------------------------------
(***************************************************************************)
(* Property calls on their way to the bridge and back: in process          *)
(* (native.py, _cabi.py), or as frames on the pipes of the helper process  *)
(* (host.py, _ipc.py; native/host/main.cpp).                               *)
(*                                                                         *)
(* A property read through the helper takes several exchanges: the         *)
(* property, then its text, then what it accepts.  The backend's lock      *)
(* covers one exchange (_call_ex), so those of another thread may fall     *)
(* between two of a call.  One call is followed here: what others do to    *)
(* the camera and to the helper meanwhile is among the changes of the      *)
(* camera, the refusals and the deaths of the helper, which may come       *)
(* between any two calls into the vendor SDK, the last at any byte.        *)
(*                                                                         *)
(* A slot of a request, 32 bits in the code, holds 2 * SlotHalf numbers.   *)
(* A frame is a sequence of units: two of header, one of metadata, one for *)
(* each item of its blob.                                                  *)
(***************************************************************************)
EXTENDS Integers, Sequences, SequencesExt, FiniteSets

CONSTANTS
  Codes,       \* property codes of the camera, none of them 0
  Texts,       \* the codes of string-valued properties
  Records,     \* what the camera may report for each code
  Paths,       \* how the bridge is reached: see Path
  Settings,    \* values that callers set
  Refusals,    \* what the vendor SDK and the bridge may answer instead
  SlotHalf,    \* half of what an i32 slot of a request holds: 2^31
  MaxCalls,    \* bound: calls
  MaxChanges   \* bound: changes of the camera

\* In process, through main.cpp, or through the helper of the tests.
Path == {"native", "helper", "fake"}

\* Vendor codes are positive: what kind of busy, and whether of the family of
\* the transport adapter.
Positive == {"busy", "adapter_busy", "adapter", "vendor"}
Busy == {"busy", "adapter_busy"}
Refusal == {"invalid_handle", "not_connected"} \cup Positive

Kinds == {"none", "raw", "range", "enum"}
CameraRecord == [there : BOOLEAN, value : Int, text : Nat, kind : Kinds, values : Seq(Int)]

ASSUME ConstantsAssumption ==
  /\ Codes \subseteq Nat \ {0} /\ IsFiniteSet(Codes) /\ Texts \subseteq Codes
  /\ \A c \in Codes : Records[c] \subseteq CameraRecord
  /\ Paths \subseteq Path /\ Refusals \subseteq Refusal /\ Settings \subseteq Int
  /\ SlotHalf \in Nat \ {0} /\ MaxCalls \in Nat /\ MaxChanges \in Nat
  /\ DOMAIN Records = Codes

VARIABLES
  path,     \* how this session reaches the bridge
  camera,   \* per code: is it there, its value, its text, what it accepts
  changes,  \* changes of the camera so far
  alive,    \* the helper lives
  crashed,  \* HostBackend._state is CRASHED
  calls,    \* calls so far
  pc,       \* where the exchange is
  call,     \* the call under way
  request,  \* crsdkpy_ipc_request
  capacity, \* what the sizing call of the bridge answered
  reply,    \* the response
  pipe,     \* units the helper wrote and nobody has read
  got,      \* units read of the present frame
  result,   \* how the last call ended
  written,  \* history: the last set_property: the value asked for and the one set
  shown     \* history: records of the camera since the call began

device == <<camera, changes>>
process == <<alive, crashed>>
client == <<calls, call, result>>
wire == <<pipe, got>>
vars == <<path, device, process, client, pc, request, capacity, reply, wire, written, shown>>

NoRequest == [op |-> "none", u32 |-> 0, i32 |-> 0, i32_2 |-> 0]
NoCall == [op |-> "none", step |-> "first", code |-> 0, value |-> 0, todo |-> <<>>,
           done |-> <<>>]
NoReply == [status |-> "ok", kind |-> "none", text |-> 0, blob |-> <<>>]
Nothing == [op |-> "none", raised |-> "none", properties |-> <<>>]

Init ==
  /\ path \in Paths
  /\ camera \in [Codes -> UNION {Records[c] : c \in Codes}]
  /\ \A c \in Codes : camera[c] \in Records[c]
  /\ changes = 0 /\ alive = (path # "native") /\ crashed = FALSE
  /\ calls = 0 /\ pc = "idle" /\ call = NoCall /\ request = NoRequest
  /\ capacity = 0 /\ reply = NoReply
  /\ pipe = <<>> /\ got = <<>>
  /\ result = Nothing /\ written = [asked |-> 0, set |-> 0]
  /\ shown = [c \in Codes |-> {camera[c]}]

Hosted == path # "native"
There(c) == c \in Codes /\ camera[c].there

CameraChanges ==
  /\ changes < MaxChanges
  /\ \E c \in Codes : \E r \in Records[c] \ {camera[c]} :
       /\ camera' = [camera EXCEPT ![c] = r]
       /\ shown' = [shown EXCEPT ![c] = @ \cup {r}]
  /\ changes' = changes + 1
  /\ UNCHANGED <<path, process, client, pc, request, capacity, reply, wire, written>>

\* What the helper wrote last may not have reached the pipe.
HelperDies ==
  /\ alive
  /\ alive' = FALSE
  /\ \E n \in 0..Len(pipe) : pipe' = SubSeq(pipe, 1, n)
  /\ UNCHANGED <<path, device, crashed, client, pc, request, capacity, reply, got, written,
                 shown>>

-----------------------------------------------------------------------------
(* Numbers: a value rides in two signed slots                              *)

SlotSize == 2 * SlotHalf
\* _as_int32.
Signed(n) == LET low == n % SlotSize IN IF low >= SlotHalf THEN low - SlotSize ELSE low
\* host.py: raw & mask, (raw >> bits) & mask.
Low(v) == Signed(v)
High(v) == Signed(v \div SlotSize)
\* Mutant: the low slot is added with its sign.
JoinedSigned(low, high) == high * SlotSize + low
\* main.cpp: the high slot shifted, the low one as unsigned.
Joined(low, high) == (high * SlotSize) + (low % SlotSize)
\* What a 64-bit slot holds.
Whole == LET half == SlotHalf * SlotSize IN -half..(half - 1)
\* ctypes, in process: the value modulo 2^64, as signed.
Wrapped(v) == Joined(Low(v), High(v))

-----------------------------------------------------------------------------
(* Failures                                                                *)

\* categorise, main.cpp.
Category(s) ==
  CASE s \in Busy -> "BUSY"
    [] s = "adapter" -> "ADAPTER_PATH"
    [] s \in {"vendor", "buffer_too_small"} -> "VENDOR"
    [] s = "invalid_handle" -> "STALE_HANDLE"
    [] s = "not_connected" -> "NOT_CONNECTED"
    [] s = "not_found" -> "NOT_FOUND"
\* _to_exception, host.py.
ToException ==
  [BUSY |-> "CameraBusyError", ADAPTER_PATH |-> "CameraConnectionError",
   VENDOR |-> "CameraConnectionError", STALE_HANDLE |-> "SessionClosedError",
   NOT_CONNECTED |-> "CameraConnectionError", NOT_FOUND |-> "PropertyNotSupportedError"]
\* check, _cabi.py.
Checked(s) ==
  CASE s \in Positive \cup {"not_connected"} -> "CameraConnectionError"
    [] s = "invalid_handle" -> "SessionClosedError"
    [] s = "not_found" -> "PropertyNotSupportedError"
    [] s = "buffer_too_small" -> "NativeBackendError"
Raised(s) == IF Hosted THEN ToException[Category(s)] ELSE Checked(s)

-----------------------------------------------------------------------------
(* The client: get_property, list_properties, set_property                 *)

Begin(op, code, value) ==
  /\ pc = "idle" /\ calls < MaxCalls
  /\ calls' = calls + 1
  /\ pc' = "ready"
  /\ call' = [NoCall EXCEPT !.op = op, !.code = code, !.value = value]
  /\ result' = Nothing
  /\ shown' = [c \in Codes |-> {camera[c]}]
  /\ UNCHANGED <<path, device, process, request, capacity, reply, wire, written>>

GetProperty(c) == Begin("get", c, 0)
ListProperties == Begin("list", 0, 0)
SetProperty(c, v) == Begin("set", c, v)

End(r) ==
  /\ pc' = "idle" /\ call' = NoCall /\ result' = r
  /\ request' = NoRequest /\ capacity' = 0 /\ reply' = NoReply /\ got' = <<>>
Fail(raised) == End([Nothing EXCEPT !.op = call.op, !.raised = raised])
Return(ps) == End([Nothing EXCEPT !.op = call.op, !.properties = ps])
Continue(c) ==
  /\ pc' = "ready" /\ call' = c /\ UNCHANGED result
  /\ request' = NoRequest /\ capacity' = 0 /\ reply' = NoReply /\ got' = <<>>

\* What to ask about the next property: its text if it is a string.
Describing(c) ==
  [c EXCEPT !.step = IF Head(c.todo).code \in Texts THEN "string" ELSE "values"]
\* A property is described: the next one, or the result.
Described(p) ==
  LET c == [call EXCEPT !.todo = Tail(@), !.done = Append(@, p)] IN
  IF c.todo = <<>> THEN Return(c.done)
                   ELSE Continue(Describing(c))

\* An exchange that fails ends the call, except that a property stays as it
\* arrived when it cannot be described: _with_string, _with_values.
ExchangeFails(raised) ==
  CASE call.step = "first" -> Fail(raised)
    [] call.step = "string" -> Continue([call EXCEPT !.step = "values"])
    [] call.step = "values" -> Described(Head(call.todo))

\* _call_ex: the arguments of the exchange.
Request ==
  CASE call.step = "first" /\ call.op = "set" ->
         [op |-> "set", u32 |-> call.code, i32 |-> Low(call.value), i32_2 |-> High(call.value)]
    [] call.step = "first" /\ call.op # "set" ->
         [NoRequest EXCEPT !.op = call.op, !.u32 = call.code]
    [] call.step # "first" -> [NoRequest EXCEPT !.op = call.step, !.u32 = Head(call.todo).code]

Send ==
  /\ pc = "ready" /\ (Hosted => alive /\ ~crashed)
  /\ pc' = "sent" /\ request' = Request
  /\ UNCHANGED <<path, device, process, client, capacity, reply, wire, written, shown>>

\* The pipe is broken, or the process was already given up.
SendFails ==
  /\ pc = "ready" /\ Hosted /\ (~alive \/ crashed)
  /\ crashed' = TRUE
  /\ ExchangeFails("BackendError")
  /\ UNCHANGED <<path, device, alive, calls, pipe, written, shown>>

-----------------------------------------------------------------------------
(* The bridge, in process or called by dispatch() in main.cpp              *)

Units(r) == LET total == 3 + Len(r.blob) IN
            [k \in 1..total |-> [at |-> k, total |-> total]]

Answer(r) ==
  /\ reply' = r
  /\ pc' = IF Hosted THEN "reading" ELSE "answered"
  /\ pipe' = IF Hosted THEN pipe \o Units(r) ELSE pipe
  /\ UNCHANGED <<path, changes, process, client, request, capacity, got>>

Serving == pc = "sent" /\ (Hosted => alive)

\* Where the helper looks for the code of a text or a value set.
CodeAsked == IF path = "helper" THEN request.i32 ELSE request.u32

Item(c) == [code |-> c, value |-> camera[c].value, kind |-> "none", values |-> <<>>, text |-> 0]
\* In the order of the vendor's array, whatever that is.
PropertyArray == LET there == {c \in Codes : There(c)} IN
                 [i \in 1..Cardinality(there) |-> Item(SetToSeq(there)[i])]

\* The vendor SDK refuses, or the session or its connection is gone.
ServeFails ==
  /\ Serving
  /\ \E s \in Refusals : Answer([NoReply EXCEPT !.status = s])
  /\ UNCHANGED <<camera, written, shown>>

ServeMissing ==
  /\ Serving
  /\ \/ request.op \in {"get", "set"} /\ ~There(request.u32)
     \/ request.op \in {"string", "values"} /\ ~There(CodeAsked)
  /\ Answer([NoReply EXCEPT !.status = "not_found"])
  /\ UNCHANGED <<camera, written, shown>>

ServeGet ==
  /\ Serving /\ request.op = "get" /\ There(request.u32)
  /\ Answer([NoReply EXCEPT !.blob = <<Item(request.u32)>>])
  /\ UNCHANGED <<camera, written, shown>>

ServeSet ==
  /\ Serving /\ request.op = "set" /\ There(request.u32)
  /\ LET v == IF Hosted THEN Joined(request.i32, request.i32_2) ELSE Wrapped(call.value) IN
       /\ written' = [asked |-> call.value, set |-> v]
       /\ camera' = [camera EXCEPT ![request.u32].value = v]
       /\ shown' = [shown EXCEPT ![request.u32] = @ \cup {[camera[request.u32] EXCEPT !.value = v]}]
  /\ Answer(NoReply)

\* Sized first, fetched second: the camera may change in between.
Extent ==
  CASE request.op = "list" -> Cardinality({c \in Codes : There(c)})
    [] request.op = "string" -> camera[CodeAsked].text
    [] request.op = "values" -> Len(camera[CodeAsked].values)

Sizable == \/ request.op = "list"
           \/ request.op \in {"string", "values"} /\ There(CodeAsked)

ServeSize ==
  /\ Serving /\ Sizable /\ Extent # 0 /\ path # "fake"
  /\ pc' = "sized" /\ capacity' = Extent
  /\ UNCHANGED <<path, device, process, client, request, reply, wire, written, shown>>

Fetched ==
  CASE request.op = "list" -> [NoReply EXCEPT !.blob = PropertyArray]
    [] request.op = "string" -> [NoReply EXCEPT !.text = camera[CodeAsked].text]
    [] request.op = "values" ->
         [NoReply EXCEPT !.kind = camera[CodeAsked].kind, !.blob = camera[CodeAsked].values]

\* Nothing to fetch: an empty list, no text, a set that is none or raw.  The
\* helper of the tests never sizes.
ServeAtOnce ==
  /\ Serving /\ Sizable /\ (Extent = 0 \/ path = "fake")
  /\ Answer(Fetched)
  /\ UNCHANGED <<camera, written, shown>>

ServeFetch ==
  /\ pc = "sized" /\ (Hosted => alive)
  /\ Answer(CASE ~Sizable -> [NoReply EXCEPT !.status = "not_found"]
              [] Sizable /\ Extent > capacity -> [NoReply EXCEPT !.status = "buffer_too_small"]
              [] Sizable /\ Extent <= capacity -> Fetched)
  /\ UNCHANGED <<camera, written, shown>>

-----------------------------------------------------------------------------
(* Reading a frame: read_frame, _read_exact                                *)

\* Mutant: the blob is left for later.
PartWithoutBlob == IF Len(got) < 2 THEN 2 ELSE 3
\* The header is read whole, then the metadata, then the blob.
Part ==
  CASE Len(got) < 2 -> 2
    [] Len(got) = 2 -> 3
    [] Len(got) > 2 -> got[1].total

\* The frame is whole: the header is in, and so is all it declares.
ReadUpTo == Part
FrameRead == Len(got) >= 3 /\ Len(got) = ReadUpTo

\* A read returns some of what it asked for.
ReadChunk ==
  /\ pc = "reading" /\ ~FrameRead /\ pipe # <<>>
  /\ \E n \in 1..Len(pipe) :
       /\ Len(got) + n <= ReadUpTo
       /\ got' = got \o SubSeq(pipe, 1, n)
       /\ pipe' = SubSeq(pipe, n + 1, Len(pipe))
  /\ UNCHANGED <<path, device, process, client, pc, request, capacity, reply, written, shown>>

Ready ==
  /\ pc = "reading" /\ FrameRead
  /\ pc' = "answered"
  /\ UNCHANGED <<path, device, process, client, request, capacity, reply, wire, written, shown>>

\* Mutant: the end of the stream ends the frame.
TornAccepted ==
  IF Len(got) < 3
  THEN crashed' = TRUE /\ ExchangeFails("BackendError")
  ELSE /\ pc' = "answered" /\ reply' = [reply EXCEPT !.blob = SubSeq(@, 1, Len(got) - 3)]
       /\ UNCHANGED <<crashed, call, result, request, capacity, got>>
Torn == crashed' = TRUE /\ ExchangeFails("BackendError")

\* The process is found dead before the frame is read, or the stream ends
\* between two frames or within one: the process is given up, its pipes closed.
StreamEnds ==
  /\ Hosted /\ ~alive /\ pc \in {"sent", "sized", "reading"}
  /\ got = <<>> \/ (pipe = <<>> /\ ~FrameRead)
  /\ pipe' = <<>>
  /\ Torn
  /\ UNCHANGED <<path, device, alive, calls, written, shown>>

-----------------------------------------------------------------------------
(* Using the response                                                      *)

\* Mutant: whatever came is what the property accepts.
AcceptsGuessed(p, r) == [p EXCEPT !.kind = "enum", !.values = r.blob]
\* _with_values.
Accepts(p, r) ==
  CASE r.kind = "raw" -> [p EXCEPT !.kind = "undecoded"]
    [] r.kind = "none" \/ (r.kind # "raw" /\ r.blob = <<>>) -> p
    [] r.kind = "range" /\ Len(r.blob) = 3 -> [p EXCEPT !.kind = "range", !.values = r.blob]
    [] r.kind = "enum" /\ r.blob # <<>> -> [p EXCEPT !.kind = "enum", !.values = r.blob]
    [] r.kind = "range" /\ r.blob # <<>> /\ Len(r.blob) # 3 -> p

Use ==
  /\ pc = "answered"
  /\ CASE reply.status # "ok" -> ExchangeFails(Raised(reply.status))
       [] reply.status = "ok" /\ call.step = "string" ->
            Continue([call EXCEPT !.step = "values",
                                  !.todo = <<[Head(@) EXCEPT !.text = reply.text]>> \o Tail(@)])
       [] reply.status = "ok" /\ call.step = "values" -> Described(Accepts(Head(call.todo), reply))
       [] reply.status = "ok" /\ call.step = "first" ->
            IF Hosted /\ reply.blob # <<>>
            THEN Continue(Describing([call EXCEPT !.todo = reply.blob]))
            ELSE Return(reply.blob)
  /\ UNCHANGED <<path, device, process, calls, pipe, written, shown>>

\* The bound on calls is reached; a call under way never stops here.
Done == pc = "idle" /\ calls = MaxCalls /\ UNCHANGED vars

Next ==
  \/ Done
  \/ CameraChanges \/ HelperDies
  \/ \E c \in Codes : GetProperty(c) \/ \E v \in Settings : SetProperty(c, v)
  \/ ListProperties
  \/ Send \/ SendFails
  \/ ServeFails \/ ServeMissing \/ ServeGet \/ ServeSet \/ ServeSize \/ ServeAtOnce \/ ServeFetch
  \/ ReadChunk \/ Ready \/ StreamEnds \/ Use

Spec == Init /\ [][Next]_vars

-----------------------------------------------------------------------------
(* Properties                                                              *)

TypeOK ==
  /\ path \in Paths /\ changes \in 0..MaxChanges /\ calls \in 0..MaxCalls
  /\ camera \in [Codes -> CameraRecord]
  /\ alive \in BOOLEAN /\ crashed \in BOOLEAN
  /\ pc \in {"idle", "ready", "sent", "sized", "reading", "answered"}
  /\ call.op \in {"none", "get", "list", "set"} /\ call.step \in {"first", "string", "values"}
  /\ capacity \in Nat
  /\ (call.step = "first") = (call.todo = <<>>)
  \* what has been read is the beginning of one frame
  /\ \A k \in DOMAIN got : got[k].at = k /\ got[k].total = got[1].total
  /\ result.op \in {"none", "get", "list", "set"}

(***************************************************************************)
(* A value that fits in the vendor's 64 bits reaches the camera as the     *)
(* caller gave it, whatever its sign and however it was cut into slots.    *)
(* set_property and _as_int32 (host.py), OP_SET_PROPERTY (main.cpp).       *)
(***************************************************************************)
SetReachesCamera == written.asked \in Whole => written.set = written.asked

(***************************************************************************)
(* What a returned property says, its value, its text and what it accepts, *)
(* the camera reported for that code while the call was under way: no      *)
(* guess, no slice of another set, nothing of another property.            *)
(* _describe, _with_values, _with_string (host.py).                        *)
(***************************************************************************)
Reported(p, r) ==
  CASE p.kind = "undecoded" -> r.kind = "raw"
    [] p.kind = "none" -> TRUE
    [] p.kind \in {"range", "enum"} -> r.kind = p.kind /\ r.values = p.values
ResultHeld ==
  \A i \in DOMAIN result.properties :
    LET p == result.properties[i] IN
    /\ \E r \in shown[p.code] : r.there /\ r.value = p.value
    /\ \E r \in shown[p.code] : Reported(p, r)
    /\ p.text # 0 => \E r \in shown[p.code] : r.text = p.text

(***************************************************************************)
(* A list that is returned is whole: each property the camera had from the *)
(* first moment of the call to its last is in it, once, also when the      *)
(* helper died while it was writing the list or while it was asked about   *)
(* its members.  _read_exact (_ipc.py), list_properties (host.py,          *)
(* native.py).                                                             *)
(***************************************************************************)
ListWhole ==
  result.op = "list" /\ result.raised = "none" =>
    \A c \in Codes :
      LET times == Cardinality({i \in DOMAIN result.properties : result.properties[i].code = c}) IN
      times \leq 1 /\ ((\A r \in shown[c] : r.there) => times = 1)

(***************************************************************************)
(* Between two exchanges with a process that is in use nothing is left in  *)
(* the pipe, so that the next response is read from its first byte.        *)
(* read_frame (_ipc.py), _call_ex (host.py).                               *)
(***************************************************************************)
StreamInStep == pc \in {"idle", "ready"} /\ ~crashed => pipe = <<>>

(***************************************************************************)
(* Where nothing refuses to answer, a property of the helper's whose value *)
(* set or range the camera described all through the call is returned with *)
(* it: "Fill in what the camera says the property will accept", says       *)
(* _with_values (host.py).  The code does not keep this: host.py sends the *)
(* code in u32_arg, where the protocol puts it, and main.cpp looks for it  *)
(* in i32_arg.                                                             *)
(***************************************************************************)
DescribedAsAdvertised ==
  Hosted /\ Refusals = {} /\ ~crashed =>
    \A i \in DOMAIN result.properties :
      LET p == result.properties[i] IN
      \A r \in shown[p.code] :
        shown[p.code] = {r} /\ r.kind \in {"range", "enum"} => p.kind = r.kind

=============================================================================
