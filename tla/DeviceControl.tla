---------------------------- MODULE DeviceControl ----------------------------
(***************************************************************************)
(* Movie recording, live view and the capabilities a session measures:     *)
(* video.py, liveview.py and the mixins of backend/native.py, which the    *)
(* in-process and the hosted backend share.                                *)
(*                                                                         *)
(* One client makes one call after another on one session.  A call is a    *)
(* sequence of exchanges with the camera; between two of them the camera   *)
(* records, reports, produces frames, or loses its link.  The record       *)
(* command is a button: it toggles, and what the camera reports about      *)
(* recording trails what it does.                                          *)
(***************************************************************************)
EXTENDS Naturals, Sequences

CONSTANTS
  Clients,   \* how a client behaves: a set of records, see ClientAssumption
  Nobody,    \* no call, no frame, not measured
  MaxCalls,  \* bound: calls made
  MaxFrames, \* bound: number of the last live-view frame
  MaxFaults  \* bound: losses of the link

Ops == {"start", "stop", "exit", "frame", "measure"}

\* ops: the calls it makes.  patient: it starts a call only when the camera has
\* reported all it did.  waits: start and stop are called with wait=True.
ClientAssumption ==
  \A c \in Clients : /\ DOMAIN c = {"ops", "patient", "waits"}
                     /\ c.patient \in BOOLEAN /\ c.waits \in BOOLEAN
                     /\ c.ops \subseteq Ops
ASSUME ClientAssumption
ASSUME BoundsAssumption == MaxCalls \in Nat /\ MaxFrames \in Nat /\ MaxFaults \in Nat

VARIABLES
  client,   \* the client of this run
  cam,      \* the camera
  known,    \* what the backend remembers: MeasuredCapabilities, FrameSequencer
  call,     \* the call under way, or Nobody
  returned, \* history: how the last call ended
  calls,    \* history: calls made
  since,    \* history: what recording did since the last call began
  got       \* history: the frames delivered, by number

vars == <<client, cam, known, call, returned, calls, since, got>>

RecordingStates == {"idle", "recording", "failed"}

(* cam.presses: presses of the record button it has yet to act on.         *)
(* cam.rolling: it records.  cam.broken: it stopped by itself and will     *)
(* report that it failed.  cam.shown: the recording state it reports.      *)
(* since.was: whether it recorded, with every change; since.broke: it      *)
(* stopped by itself.  cam.held: the newest live-view frame, 0 before the  *)
(* first.  cam.usable: live view has a buffer; it may come up some time    *)
(* after the connection.                                                   *)
Unknown == [video |-> Nobody, live |-> FALSE, last |-> Nobody, skipped |-> 0]

NewStats == [frames |-> 0, first |-> Nobody, last |-> Nobody, base |-> 0]

Init ==
  /\ client \in Clients
  /\ \E video, usable \in BOOLEAN :
       cam = [linked |-> TRUE, faults |-> 0, video |-> video, presses |-> 0,
              rolling |-> FALSE, broken |-> FALSE, shown |-> "idle", usable |-> usable, held |-> 0]
  /\ known = Unknown
  /\ call = Nobody /\ calls = 0
  /\ since = [was |-> {FALSE}, broke |-> FALSE]
  /\ returned = [op |-> "none", how |-> "none", stats |-> NewStats]
  /\ got = <<>>

-----------------------------------------------------------------------------
(* The camera.                                                             *)

Rest_ == UNCHANGED <<client, known, call, returned, calls, got>>
Camera_ == Rest_ /\ since' = since

\* The record button toggles: the camera acts on a press after a while, ...
Acts ==
  /\ cam.presses > 0
  /\ cam' = [cam EXCEPT !.presses = @ - 1, !.rolling = ~@, !.broken = FALSE]
  /\ since' = [since EXCEPT !.was = @ \cup {~cam.rolling}]
  /\ Rest_

Shows == IF cam.rolling THEN "recording" ELSE IF cam.broken THEN "failed" ELSE "idle"
Settled == cam.presses = 0 /\ cam.shown = Shows

\* ... and reports what it does after another while.
Report ==
  /\ cam.shown # Shows
  /\ cam' = [cam EXCEPT !.shown = Shows]
  /\ Camera_

\* Recording breaks off by itself, the medium is full or too slow; this is
\* reported later, as a failure or as the end of the recording.
BreaksOff ==
  /\ cam.rolling
  /\ \E failed \in BOOLEAN : cam' = [cam EXCEPT !.rolling = FALSE, !.broken = failed]
  /\ since' = [was |-> since.was \cup {FALSE}, broke |-> TRUE]
  /\ Rest_

LiveViewComesUp ==
  /\ ~cam.usable
  /\ cam' = [cam EXCEPT !.usable = TRUE]
  /\ Camera_

Produces ==
  /\ cam.usable /\ cam.held < MaxFrames
  /\ cam' = [cam EXCEPT !.held = @ + 1]
  /\ Camera_

LinkLost ==
  /\ cam.linked /\ cam.faults < MaxFaults
  /\ cam' = [cam EXCEPT !.linked = FALSE, !.faults = @ + 1]
  /\ Camera_

LinkRecovers ==
  /\ ~cam.linked
  /\ cam' = [cam EXCEPT !.linked = TRUE]
  /\ Camera_

-----------------------------------------------------------------------------
(* The stages of a call.                                                   *)

Begin(op) ==
  /\ call = Nobody /\ calls < MaxCalls
  /\ op \in client.ops
  /\ op = "exit" => returned.op = "start" /\ returned.how = "ok"
  /\ client.patient => Settled
  /\ calls' = calls + 1
  /\ call' = [op |-> op, at |-> IF op = "exit" THEN "active" ELSE "usable",
              sawUsable |-> FALSE, faults |-> cam.faults, stats |-> NewStats]
  /\ since' = [was |-> {cam.rolling}, broke |-> FALSE]
  /\ UNCHANGED <<client, cam, known, returned, got>>

At(stage) == call # Nobody /\ call.at = stage
Goto(stage) == /\ call' = [call EXCEPT !.at = stage]
               /\ UNCHANGED <<client, cam, known, returned, calls, since, got>>

End(how) ==
  /\ call' = Nobody
  /\ returned' = [op |-> call.op, how |-> how, stats |-> call.stats]
  /\ UNCHANGED <<client, calls, since>>
Returns(how) == End(how) /\ UNCHANGED <<cam, known, got>>

\* Any exchange with the camera raises while the link is down; the two probes
\* below are the exception.
Raise ==
  /\ call # Nobody /\ call.at \notin {"video", "live"} /\ ~cam.linked
  /\ Returns("raised")

\* Recording.__exit__: the recording is stopped if it is reported active.
Exit ==
  /\ At("active") /\ cam.linked
  /\ IF cam.shown = "recording" THEN Goto("usable") ELSE Returns("ok")

\* _check_usable, and the destination _build_capabilities reads first.
Check ==
  /\ At("usable") /\ cam.linked
  /\ call' = [call EXCEPT !.at = "video", !.sawUsable = cam.usable]
  /\ UNCHANGED <<client, cam, known, returned, calls, since, got>>

\* MeasuredCapabilities.video: the first answer stays, and an error is an
\* answer.
MeasureVideo ==
  /\ At("video")
  /\ known' = [known EXCEPT !.video = IF @ = Nobody THEN cam.linked /\ cam.video ELSE @]
  /\ call' = [call EXCEPT !.at = "live"]
  /\ UNCHANGED <<client, cam, returned, calls, since, got>>

\* Mutant: the first answer stays, as for video.
FirstAnswer(live) == IF calls > 1 THEN live ELSE cam.linked /\ cam.usable

\* MeasuredCapabilities.live_view: only a positive answer stays.
LiveAnswer(live) == live \/ (cam.linked /\ cam.usable)

\* The capability is there, or UnsupportedOperationError.
MeasureLive ==
  LET live == LiveAnswer(known.live)
      wanted == IF call.op \in {"frame", "measure"} THEN live ELSE known.video
  IN  /\ At("live")
      /\ known' = [known EXCEPT !.live = live]
      /\ IF wanted
         THEN /\ call' = [call EXCEPT !.at =
                   IF call.op \in {"frame", "measure"} THEN "fetch" ELSE "state"]
              /\ UNCHANGED <<client, cam, returned, calls, since, got>>
         ELSE End("unsupported") /\ UNCHANGED <<cam, got>>

-----------------------------------------------------------------------------
(* Recording.                                                              *)

\* Mutant: the button is pressed whatever the camera reports.
AlwaysPress == TRUE

\* start_recording and stop_recording look before they press.
MustPress == (cam.shown = "recording") = (call.op # "start")

AfterPress == IF client.waits \/ call.op = "exit" THEN "wait" ELSE "done"

ReadState ==
  /\ At("state") /\ cam.linked
  /\ Goto(IF MustPress THEN "down" ELSE AfterPress)

\* _press_record: DOWN, and after the dwell UP.
Press ==
  /\ At("down") /\ cam.linked
  /\ cam' = [cam EXCEPT !.presses = @ + 1]
  /\ call' = [call EXCEPT !.at = "up"]
  /\ UNCHANGED <<client, known, returned, calls, since, got>>

Release ==
  /\ At("up") /\ cam.linked
  /\ Goto(AfterPress)

\* Mutant: any change of the reported state ends the wait.
Changed == cam.shown # "failed"

\* The state _wait_for looks for.
Reached == cam.shown = IF call.op = "start" THEN "recording" ELSE "idle"

WaitEnds ==
  /\ At("wait") /\ cam.linked
  /\ Reached /\ Returns("ok")

\* The deadline passes: OperationTimeoutError.
WaitExpires ==
  /\ At("wait") /\ cam.linked
  /\ ~Reached /\ Returns("timeout")

Done == At("done") /\ Returns("ok")

-----------------------------------------------------------------------------
(* Live view.                                                              *)

\* Mutant: the frame after the last one counts as skipped, too.
SkippedToo(n) == IF known.last = Nobody THEN 0 ELSE n - known.last

\* Frames the camera produced between the last one accepted and this one.
SkippedBefore(n) ==
  IF known.last # Nobody /\ n > known.last + 1 THEN n - known.last - 1 ELSE 0

\* Mutant: the window starts with the last frame before it.
CountedFrom(stats, n) ==
  [frames |-> stats.frames + 1,
   first |-> IF stats.first = Nobody /\ known.last # Nobody THEN known.last
             ELSE IF stats.first = Nobody THEN n ELSE stats.first,
   last |-> n,
   base |-> IF stats.first = Nobody THEN known.skipped + SkippedBefore(n) ELSE stats.base]

\* LiveView.measure keeps count of one window; base is only history.
Counted(stats, n) ==
  [frames |-> stats.frames + 1,
   first |-> IF stats.first = Nobody THEN n ELSE stats.first,
   last |-> n,
   base |-> IF stats.first = Nobody THEN known.skipped + SkippedBefore(n) ELSE stats.base]

\* FrameSequencer.accept refuses the frame the caller already has.
IsNew(n) == n > 0 /\ n # known.last

\* get_live_view_frame delivers the newest frame; measure asks again.
Fetch ==
  /\ At("fetch") /\ cam.linked
  /\ IsNew(cam.held)
  /\ known' = [known EXCEPT !.last = cam.held, !.skipped = @ + SkippedBefore(cam.held)]
  /\ got' = Append(got, cam.held)
  /\ IF call.op = "measure"
     THEN /\ call' = [call EXCEPT !.at = "usable", !.stats = Counted(@, cam.held)]
          /\ UNCHANGED <<client, returned, calls, since>>
     ELSE End("ok")
  /\ UNCHANGED cam

\* Nothing new before the timeout: None for a frame, an empty poll for measure.
NoFrame ==
  /\ At("fetch") /\ cam.linked
  /\ ~IsNew(cam.held)
  /\ IF call.op = "measure" THEN Goto("usable") ELSE Returns("ok")

\* The time of a measurement is over.
MeasureEnds ==
  /\ At("usable") /\ call.op = "measure"
  /\ Returns("ok")

Next ==
  \/ \E op \in Ops : Begin(op)
  \/ Exit \/ Check \/ MeasureVideo \/ MeasureLive \/ Raise
  \/ ReadState \/ Press \/ Release \/ WaitEnds \/ WaitExpires \/ Done
  \/ Fetch \/ NoFrame \/ MeasureEnds
  \/ Acts \/ Report \/ BreaksOff \/ LiveViewComesUp \/ Produces \/ LinkLost \/ LinkRecovers

Spec == Init /\ [][Next]_vars

-----------------------------------------------------------------------------
(* Correctness.                                                            *)

Outcomes == {"ok", "raised", "unsupported", "timeout"}
Stages == {"active", "usable", "video", "live", "state", "down", "up", "wait", "done", "fetch"}
Frame == 1..MaxFrames

Cam == [linked : BOOLEAN, faults : 0..MaxFaults, video : BOOLEAN, presses : 0..MaxCalls,
        rolling : BOOLEAN, broken : BOOLEAN, shown : RecordingStates, usable : BOOLEAN, held : 0..MaxFrames]
Known == [video : BOOLEAN \cup {Nobody}, live : BOOLEAN, last : Frame \cup {Nobody},
          skipped : 0..MaxFrames]
Stats == [frames : 0..MaxFrames, first : Frame \cup {Nobody}, last : Frame \cup {Nobody},
          base : 0..MaxFrames]
Call == [op : Ops, at : Stages, sawUsable : BOOLEAN, faults : 0..MaxFaults, stats : Stats]

\* Nobody is none of the values it stands in for.
ASSUME NobodyAssumption == Nobody \notin Nat /\ Nobody \notin BOOLEAN /\ Nobody \notin Call

\* Types; a negative measurement of live view is never kept, one of video is.
TypeOK ==
  /\ client \in Clients
  /\ cam \in Cam
  /\ known \in Known
  /\ call \in Call \cup {Nobody}
  /\ returned \in [op : Ops \cup {"none"}, how : Outcomes \cup {"none"}, stats : Stats]
  /\ calls \in 0..MaxCalls
  /\ since \in [was : SUBSET BOOLEAN, broke : BOOLEAN]
  /\ got \in Seq(Frame)
  /\ known.live => cam.usable
  /\ known.video = TRUE => cam.video

LastOp == IF call = Nobody THEN returned.op ELSE call.op
Ends == call # Nobody /\ call' = Nobody

\* "That makes a blind second start a stop" (native.py:356): the press a start
\* makes never ends a recording, for a client that lets the camera report what
\* it did before it calls again.
StartNeverStops ==
  [][client.patient /\ LastOp = "start" /\ cam'.presses < cam.presses => cam'.rolling]_vars

\* The press a stop makes never begins a recording, for such a client; not
\* kept: the recording may have broken off and not be reported as over.
StopNeverStarts ==
  [][client.patient /\ LastOp \in {"stop", "exit"} /\ cam'.presses < cam.presses =>
       ~cam'.rolling]_vars

\* When start returns, the camera recorded at some time since it was called,
\* and when stop or the end of the with block returns, it did not record at
\* some time since: for such a client that also waits.  It still does, and
\* will not start by a press it has yet to act on, unless it stopped by
\* itself in the meantime.
ReturnedIsTrue ==
  [][client.patient /\ client.waits /\ Ends /\ returned'.how = "ok" =>
       /\ call.op = "start" =>
            TRUE \in since.was /\ (since.broke \/ cam.rolling)
       /\ call.op \in {"stop", "exit"} =>
            FALSE \in since.was /\ (since.broke \/ (~cam.rolling /\ cam.presses = 0))]_vars

\* Live view that was usable when a call asked is not refused as unsupported,
\* however often it had been found unusable before (native.py:764).
LiveViewNoticed ==
  [][Ends /\ returned'.how = "unsupported" /\ call.op \in {"frame", "measure"} =>
       ~call.sawUsable \/ cam.faults > call.faults]_vars

\* Every frame the camera produced from the first delivered to the last was
\* delivered once or counted as skipped.
FramesAccounted ==
  got # <<>> => Len(got) + known.skipped = known.last - got[1] + 1

Missing(stats) ==
  IF stats.frames > 1 THEN stats.last - stats.first + 1 - stats.frames ELSE 0

\* LiveView.measure and FrameSequencer count skipped frames by different means
\* and agree about every window.
MeasureAgrees ==
  [][Ends /\ call.op = "measure" /\ call.stats.frames > 0 =>
       Missing(call.stats) = known.skipped - call.stats.base]_vars

\* "Measured rather than assumed, and cached because they cannot change within
\* a session" (native.py:748): a camera with movie recording is not refused as
\* unsupported in a call during which its link held.
VideoNotLost ==
  [][Ends /\ returned'.how = "unsupported" /\ call.op \in {"start", "stop"} =>
       ~cam.video \/ cam.faults > call.faults]_vars
=============================================================================
