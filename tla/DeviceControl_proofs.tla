------------------------ MODULE DeviceControl_proofs ------------------------
(***************************************************************************)
(* Proofs about recording, live view and measured capabilities, for any    *)
(* set of clients and any number of calls, frames and losses of the link.  *)
(***************************************************************************)
EXTENDS DeviceControl, TLAPS

After == {"up", "wait", "done"}

(* What a call may be doing.                                               *)
StageFitsOp ==
  call # Nobody =>
    /\ call.at = "active" => call.op = "exit"
    /\ call.at \in {"state", "down"} \cup After => call.op \in {"start", "stop", "exit"}
    /\ call.at = "fetch" => call.op \in {"frame", "measure"}
    /\ call.at = "done" => ~client.waits /\ call.op # "exit"

\* A call presses the button once, at most.
PressesCounted ==
  /\ cam.presses <= calls
  /\ call # Nobody /\ call.at \notin After => cam.presses < calls

(* A patient client finds the camera settled, and its call keeps track of  *)
(* the toggle, until the recording breaks off by itself.                   *)
StartFollowed ==
  LastOp = "start" =>
    /\ cam.presses <= 1
    /\ cam.presses = 1 => ~cam.rolling
    /\ ~since.broke /\ cam.shown = "recording" => cam.rolling
LooksSettled ==
  call # Nobody =>
    /\ call.at \notin After =>
         /\ cam.presses = 0
         /\ cam.shown # "recording" => ~cam.rolling
         /\ ~since.broke => cam.shown = Shows
    /\ call.at = "down" =>
         IF call.op = "start" THEN ~cam.rolling ELSE since.broke \/ cam.shown = "recording"
StopFollowed ==
  call # Nobody /\ call.at \in After /\ call.op # "start" /\ ~since.broke =>
    /\ cam.presses <= 1
    /\ cam.presses = 1 => cam.shown = "recording" /\ cam.rolling
    /\ cam.shown = "idle" => ~cam.rolling
ButtonFollowed == client.patient => StartFollowed /\ LooksSettled /\ StopFollowed

\* What the camera did and what it reports were so since the call began.
SeenSince ==
  /\ cam.rolling => TRUE \in since.was
  /\ ~cam.rolling => FALSE \in since.was
  /\ client.patient /\ cam.shown = "recording" => TRUE \in since.was
  /\ client.patient /\ cam.shown # "recording" => FALSE \in since.was

\* A call that has checked knows of every loss of the link since.
LinkNoted ==
  call # Nobody =>
    /\ call.faults <= cam.faults
    /\ call.sawUsable => cam.usable
    /\ call.at \notin {"active", "usable"} /\ cam.faults = call.faults => cam.linked

\* Frames come in order, and both counts of skipped frames are right.
FramesCounted ==
  /\ known.last = Nobody <=> got = <<>>
  /\ known.last # Nobody => known.last <= cam.held
  /\ got # <<>> => got[1] \in Frame /\ got[1] <= known.last
  /\ got = <<>> => known.skipped = 0
  /\ FramesAccounted
WindowCounted(stats, last, skipped) ==
  IF stats.frames = 0
  THEN stats.first = Nobody
  ELSE /\ stats.first \in Frame /\ stats.last \in Frame /\ stats.last = last
       /\ stats.last - stats.first + 1 = stats.frames + skipped - stats.base
       /\ stats.base <= skipped
       /\ stats.frames = 1 => stats.first = stats.last
WindowsCounted == call # Nobody => WindowCounted(call.stats, known.last, known.skipped)

IInv ==
  /\ TypeOK
  /\ StageFitsOp
  /\ PressesCounted
  /\ ButtonFollowed
  /\ SeenSince
  /\ LinkNoted
  /\ FramesCounted
  /\ WindowsCounted

-----------------------------------------------------------------------------
(* Records and initial states.                                             *)

LEMMA Shapes ==
  ASSUME TypeOK
  PROVE  /\ cam = [linked |-> cam.linked, faults |-> cam.faults, video |-> cam.video,
                   presses |-> cam.presses, rolling |-> cam.rolling, broken |-> cam.broken, shown |-> cam.shown,
                   usable |-> cam.usable, held |-> cam.held]
         /\ cam.linked \in BOOLEAN /\ cam.rolling \in BOOLEAN /\ cam.broken \in BOOLEAN /\ cam.usable \in BOOLEAN
         /\ cam.faults \in 0..MaxFaults /\ cam.presses \in 0..MaxCalls
         /\ cam.held \in 0..MaxFrames /\ cam.shown \in RecordingStates
         /\ call # Nobody =>
              /\ call \in Call /\ call.op \in Ops /\ call.at \in Stages
              /\ call.stats \in Stats /\ call.faults \in 0..MaxFaults
         /\ known \in Known /\ known.last \in Frame \cup {Nobody}
         /\ known.skipped \in 0..MaxFrames /\ known.live \in BOOLEAN
         /\ client.patient \in BOOLEAN /\ client.waits \in BOOLEAN
         /\ calls \in 0..MaxCalls
         /\ since = [was |-> since.was, broke |-> since.broke]
         /\ since.was \subseteq BOOLEAN /\ since.broke \in BOOLEAN
<1>1. cam \in Cam /\ known \in Known /\ (call # Nobody => call \in Call) /\ client \in Clients
  BY DEF TypeOK
<1>2. cam = [linked |-> cam.linked, faults |-> cam.faults, video |-> cam.video,
             presses |-> cam.presses, rolling |-> cam.rolling, broken |-> cam.broken, shown |-> cam.shown,
             usable |-> cam.usable, held |-> cam.held]
  BY <1>1 DEF Cam
<1>3. /\ cam.linked \in BOOLEAN /\ cam.rolling \in BOOLEAN /\ cam.broken \in BOOLEAN /\ cam.usable \in BOOLEAN
      /\ cam.faults \in 0..MaxFaults /\ cam.presses \in 0..MaxCalls
      /\ cam.held \in 0..MaxFrames /\ cam.shown \in RecordingStates
  BY <1>1 DEF Cam
<1>4. call # Nobody => /\ call \in Call /\ call.op \in Ops /\ call.at \in Stages
                       /\ call.stats \in Stats /\ call.faults \in 0..MaxFaults
  BY <1>1 DEF Call
<1>5. /\ known \in Known /\ known.last \in Frame \cup {Nobody}
      /\ known.skipped \in 0..MaxFrames /\ known.live \in BOOLEAN
  BY <1>1 DEF Known
<1>6. client.patient \in BOOLEAN /\ client.waits \in BOOLEAN
  BY <1>1, ClientAssumption DEF ClientAssumption
<1>7. calls \in 0..MaxCalls
  BY DEF TypeOK
<1>8. /\ since = [was |-> since.was, broke |-> since.broke]
      /\ since.was \subseteq BOOLEAN /\ since.broke \in BOOLEAN
  BY DEF TypeOK
<1>9. QED
  BY <1>2, <1>3, <1>4, <1>5, <1>6, <1>7, <1>8

\* The ways the camera changes keep it a camera.
LEMMA CamChanges ==
  ASSUME cam \in Cam
  PROVE  /\ \A p \in 0..MaxCalls : [cam EXCEPT !.presses = p] \in Cam
         /\ \A p \in 0..MaxCalls, r \in BOOLEAN :
              [cam EXCEPT !.presses = p, !.rolling = r, !.broken = FALSE] \in Cam
         /\ \A s \in RecordingStates : [cam EXCEPT !.shown = s] \in Cam
         /\ \A r, f \in BOOLEAN : [cam EXCEPT !.rolling = r, !.broken = f] \in Cam
         /\ \A u \in BOOLEAN : [cam EXCEPT !.usable = u] \in Cam
         /\ \A h \in 0..MaxFrames : [cam EXCEPT !.held = h] \in Cam
         /\ \A l \in BOOLEAN, n \in 0..MaxFaults :
              [cam EXCEPT !.linked = l, !.faults = n] \in Cam
         /\ \A l \in BOOLEAN : [cam EXCEPT !.linked = l] \in Cam
  BY DEF Cam

LEMMA InitIInv == Init => IInv
<1> SUFFICES ASSUME Init PROVE IInv
  OBVIOUS
<1>1. NewStats \in Stats
  BY BoundsAssumption DEF NewStats, Stats
<1>2. TypeOK
  <2>1. cam \in Cam
    BY BoundsAssumption DEF Init, Cam, RecordingStates
  <2>2. known \in Known /\ ~known.live /\ known.video = Nobody
    BY BoundsAssumption DEF Init, Known, Unknown
  <2>3. returned \in [op : Ops \cup {"none"}, how : Outcomes \cup {"none"}, stats : Stats]
    BY <1>1 DEF Init
  <2>4. known.video # TRUE
    BY <2>2, NobodyAssumption
  <2>5. got \in Seq(Frame) /\ calls \in 0..MaxCalls
    BY BoundsAssumption DEF Init
  <2>6. client \in Clients /\ call \in Call \cup {Nobody}
    BY DEF Init
  <2>7. since \in [was : SUBSET BOOLEAN, broke : BOOLEAN]
    BY DEF Init
  <2>8. QED
    BY <2>1, <2>2, <2>3, <2>4, <2>5, <2>6, <2>7 DEF TypeOK
<1>3. StageFitsOp /\ PressesCounted /\ LinkNoted /\ WindowsCounted
  BY DEF Init, StageFitsOp, PressesCounted, LinkNoted, WindowsCounted
<1>4. ButtonFollowed /\ SeenSince
  BY DEF Init, ButtonFollowed, StartFollowed, LooksSettled, StopFollowed, LastOp, SeenSince
<1>5. FramesCounted
  BY DEF Init, FramesCounted, FramesAccounted, Unknown
<1>6. QED
  BY <1>2, <1>3, <1>4, <1>5 DEF IInv

\* A step of the camera that keeps it a camera and takes nothing from it.
LEMMA CameraTypeOK ==
  ASSUME TypeOK, Rest_, cam' \in Cam, cam.usable => cam'.usable, cam'.video = cam.video,
         since' \in [was : SUBSET BOOLEAN, broke : BOOLEAN]
  PROVE  TypeOK'
  BY DEF TypeOK, Rest_

\* What a step of the camera that loses no press, frame or link leaves true.
LEMMA RestKept ==
  ASSUME IInv, Rest_, cam'.presses <= cam.presses, cam'.presses \in Nat,
         cam'.usable = cam.usable, cam'.held = cam.held,
         cam'.linked = cam.linked, cam'.faults = cam.faults
  PROVE  StageFitsOp' /\ PressesCounted' /\ LinkNoted' /\ WindowsCounted' /\ FramesCounted'
<1>1. PressesCounted'
  BY Shapes, BoundsAssumption DEF IInv, Rest_, PressesCounted
<1>2. StageFitsOp' /\ LinkNoted' /\ WindowsCounted' /\ FramesCounted'
  BY Shapes DEF IInv, Rest_, StageFitsOp, LinkNoted, WindowsCounted, FramesCounted,
                FramesAccounted, WindowCounted
<1>3. QED
  BY <1>1, <1>2

LEMMA ActsIInv ==
  ASSUME IInv, Acts
  PROVE  IInv'
<1> DEFINE p == cam.presses - 1
           r == ~cam.rolling
           w == since.was \cup {r}
<1>1. p \in 0..MaxCalls /\ r \in BOOLEAN /\ w \in SUBSET BOOLEAN
  <2>1. r \in BOOLEAN /\ since.was \subseteq BOOLEAN
    BY Shapes DEF IInv
  <2>2. p \in 0..MaxCalls
    BY Shapes, BoundsAssumption DEF IInv, Acts
  <2>3. QED
    BY <2>1, <2>2
<1>2. /\ cam' = [cam EXCEPT !.presses = p, !.rolling = r, !.broken = FALSE] /\ Rest_ /\ cam \in Cam
      /\ since' = [since EXCEPT !.was = w] /\ since \in [was : SUBSET BOOLEAN, broke : BOOLEAN]
  BY DEF IInv, Acts, TypeOK
<1>3. r \in w /\ since.was \subseteq w /\ (r <=> ~cam.rolling) /\ cam.presses \in Nat
      /\ cam.presses > 0 /\ p + 1 = cam.presses /\ p \in Nat
  BY Shapes, BoundsAssumption DEF IInv, Acts
<1> HIDE DEF p, r, w
<1>4. cam' \in Cam
  BY <1>1, <1>2, CamChanges
<1>5. /\ cam'.presses = p /\ cam'.rolling = r /\ cam'.shown = cam.shown
      /\ cam'.usable = cam.usable /\ cam'.held = cam.held /\ cam'.video = cam.video
      /\ cam'.linked = cam.linked /\ cam'.faults = cam.faults
  BY <1>2, <1>4 DEF Cam
<1>6. /\ since' \in [was : SUBSET BOOLEAN, broke : BOOLEAN]
      /\ since'.was = w /\ since'.broke = since.broke
  BY <1>1, <1>2
<1>7. TypeOK'
  BY <1>2, <1>4, <1>5, <1>6, CameraTypeOK DEF IInv
<1>8. StageFitsOp' /\ PressesCounted' /\ LinkNoted' /\ WindowsCounted' /\ FramesCounted'
  BY <1>2, <1>3, <1>5, RestKept
<1>9. ButtonFollowed'
  <2>1. client' = client /\ call' = call /\ LastOp' = LastOp
    BY <1>2 DEF Rest_, LastOp
  <2>2. client.patient => StartFollowed' /\ LooksSettled' /\ StopFollowed'
    <3>2. cam.presses <= 1 => p <= 1 /\ p # 1 /\ cam.presses = 1
      BY <1>3
    <3>3. client.patient => StartFollowed'
      BY <1>3, <1>5, <1>6, <2>1, <3>2 DEF IInv, ButtonFollowed, StartFollowed
    <3>4. client.patient => LooksSettled'
      BY <1>3, <1>5, <1>6, <2>1 DEF IInv, ButtonFollowed, LooksSettled, After
    <3>5. client.patient => StopFollowed'
      BY <1>3, <1>5, <1>6, <2>1, <3>2 DEF IInv, ButtonFollowed, StopFollowed
    <3>6. QED
      BY <3>3, <3>4, <3>5
  <2>3. QED
    BY <2>1, <2>2 DEF ButtonFollowed
<1>10. SeenSince'
  <2>1. client' = client
    BY <1>2 DEF Rest_
  <2>2. (r => TRUE \in w) /\ (~r => FALSE \in w)
    BY <1>1, <1>3
  <2>3. QED
    BY <1>3, <1>5, <1>6, <2>1, <2>2 DEF IInv, SeenSince
<1>11. QED
  BY <1>7, <1>8, <1>9, <1>10 DEF IInv

LEMMA ReportIInv ==
  ASSUME IInv, Report
  PROVE  IInv'
<1> DEFINE s == Shows
<1>1. s \in RecordingStates /\ (s = "recording" <=> cam.rolling)
  BY DEF RecordingStates, Shows
<1>2. cam' = [cam EXCEPT !.shown = s] /\ Rest_ /\ since' = since /\ cam \in Cam
  BY DEF IInv, Report, Camera_, TypeOK
<1>3. s = Shows /\ cam.shown # s
  BY DEF Report
<1> HIDE DEF s
<1>4. cam' \in Cam
  BY <1>1, <1>2, CamChanges
<1>5. /\ cam'.presses = cam.presses /\ cam'.rolling = cam.rolling /\ cam'.shown = s
      /\ cam'.broken = cam.broken
      /\ cam'.usable = cam.usable /\ cam'.held = cam.held /\ cam'.video = cam.video
      /\ cam'.linked = cam.linked /\ cam'.faults = cam.faults
  BY <1>2, <1>4 DEF Cam
<1>6. TypeOK'
  BY <1>2, <1>4, <1>5, CameraTypeOK DEF IInv, TypeOK
<1>7. StageFitsOp' /\ PressesCounted' /\ LinkNoted' /\ WindowsCounted' /\ FramesCounted'
  <2>1. cam.presses \in Nat
    BY Shapes, BoundsAssumption DEF IInv
  <2>2. QED
    BY <1>2, <1>5, <2>1, RestKept
<1>8. ButtonFollowed'
  <2>1. client' = client /\ call' = call /\ LastOp' = LastOp
    BY <1>2 DEF Rest_, LastOp
  <2>2. Shows' = s /\ cam.presses \in Nat
    BY <1>3, <1>5, Shapes, BoundsAssumption DEF IInv, Shows
  <2>3. client.patient => StartFollowed'
    BY <1>1, <1>2, <1>5, <2>1 DEF IInv, ButtonFollowed, StartFollowed
  <2>4. client.patient => LooksSettled'
    BY <1>1, <1>2, <1>3, <1>5, <2>1, <2>2 DEF IInv, ButtonFollowed, LooksSettled, After
  <2>5. client.patient => StopFollowed'
    BY <1>1, <1>2, <1>5, <2>1, <2>2 DEF IInv, ButtonFollowed, StopFollowed
  <2>6. QED
    BY <2>1, <2>3, <2>4, <2>5 DEF ButtonFollowed
<1>9. SeenSince'
  BY <1>1, <1>2, <1>5 DEF IInv, SeenSince, Rest_
<1>10. QED
  BY <1>6, <1>7, <1>8, <1>9 DEF IInv

LEMMA BreaksOffIInv ==
  ASSUME IInv, BreaksOff
  PROVE  IInv'
<1>1. PICK f \in BOOLEAN : cam' = [cam EXCEPT !.rolling = FALSE, !.broken = f]
  BY DEF BreaksOff
<1>2. /\ Rest_ /\ cam \in Cam /\ cam.rolling
      /\ since' = [was |-> since.was \cup {FALSE}, broke |-> TRUE]
  BY DEF IInv, BreaksOff, TypeOK
<1>3. cam' \in Cam
  BY <1>1, <1>2, CamChanges
<1>4. /\ cam'.presses = cam.presses /\ cam'.rolling = FALSE /\ cam'.shown = cam.shown
      /\ cam'.usable = cam.usable /\ cam'.held = cam.held /\ cam'.video = cam.video
      /\ cam'.linked = cam.linked /\ cam'.faults = cam.faults
  BY <1>1, <1>2, <1>3 DEF Cam
<1>5. /\ since' \in [was : SUBSET BOOLEAN, broke : BOOLEAN]
      /\ FALSE \in since'.was /\ since.was \subseteq since'.was /\ since'.broke
  BY <1>2, Shapes DEF IInv
<1>6. TypeOK'
  BY <1>2, <1>3, <1>4, <1>5, CameraTypeOK DEF IInv
<1>7. StageFitsOp' /\ PressesCounted' /\ LinkNoted' /\ WindowsCounted' /\ FramesCounted'
  <2>1. cam.presses \in Nat
    BY Shapes, BoundsAssumption DEF IInv
  <2>2. QED
    BY <1>2, <1>4, <2>1, RestKept
<1>8. ButtonFollowed'
  <2>1. client' = client /\ call' = call /\ LastOp' = LastOp
    BY <1>2 DEF Rest_, LastOp
  <2>2. client.patient => StartFollowed' /\ LooksSettled' /\ StopFollowed'
    BY <1>4, <1>5, <2>1 DEF IInv, ButtonFollowed, StartFollowed, LooksSettled, StopFollowed
  <2>3. QED
    BY <2>1, <2>2 DEF ButtonFollowed
<1>9. SeenSince'
  BY <1>2, <1>4, <1>5 DEF IInv, SeenSince, Rest_
<1>10. QED
  BY <1>6, <1>7, <1>8, <1>9 DEF IInv

\* Frames and the link are nothing to the record button.
LEMMA OtherCameraIInv ==
  ASSUME IInv, LiveViewComesUp \/ Produces \/ LinkLost \/ LinkRecovers
  PROVE  IInv'
<1>0. cam.faults \in Nat /\ cam.held \in Nat
  BY Shapes, BoundsAssumption DEF IInv
<1>1. Camera_ /\ cam \in Cam
  BY DEF IInv, LiveViewComesUp, Produces, LinkLost, LinkRecovers, TypeOK
<1>2. /\ cam' \in Cam /\ cam'.video = cam.video
      /\ cam'.presses = cam.presses /\ cam'.rolling = cam.rolling /\ cam'.shown = cam.shown
      /\ cam'.broken = cam.broken
      /\ cam.usable => cam'.usable
      /\ cam'.held >= cam.held
      /\ cam'.faults >= cam.faults
      /\ cam'.faults = cam.faults => (cam.linked => cam'.linked)
  <2>1. CASE LiveViewComesUp
    <3>1. cam' = [cam EXCEPT !.usable = TRUE]
      BY <2>1 DEF LiveViewComesUp
    <3>2. cam' \in Cam
      BY <1>1, <3>1, CamChanges
    <3>3. QED
      BY <1>1, <3>1, <3>2, <1>0 DEF Cam
  <2>2. CASE Produces
    <3>1. cam' = [cam EXCEPT !.held = cam.held + 1] /\ cam.held + 1 \in 0..MaxFrames
      BY <2>2, Shapes, BoundsAssumption DEF Produces, IInv
    <3>2. cam' \in Cam
      BY <1>1, <3>1, CamChanges
    <3>3. QED
      BY <1>1, <3>1, <3>2, <1>0 DEF Cam
  <2>3. CASE LinkLost
    <3>1. /\ cam' = [cam EXCEPT !.linked = FALSE, !.faults = cam.faults + 1]
          /\ cam.faults + 1 \in 0..MaxFaults
      BY <2>3, Shapes, BoundsAssumption DEF LinkLost, IInv
    <3>2. cam' \in Cam
      BY <1>1, <3>1, CamChanges
    <3>3. QED
      BY <1>1, <3>1, <3>2, <1>0 DEF Cam
  <2>4. CASE LinkRecovers
    <3>1. cam' = [cam EXCEPT !.linked = TRUE]
      BY <2>4 DEF LinkRecovers
    <3>2. cam' \in Cam
      BY <1>1, <3>1, CamChanges
    <3>3. QED
      BY <1>1, <3>1, <3>2, <1>0 DEF Cam
  <2>5. QED
    BY <2>1, <2>2, <2>3, <2>4
<1>3. TypeOK'
  BY <1>1, <1>2, CameraTypeOK DEF IInv, Camera_, TypeOK
<1>4. StageFitsOp' /\ PressesCounted' /\ WindowsCounted'
  BY <1>1, <1>2 DEF IInv, Camera_, Rest_, StageFitsOp, PressesCounted, WindowsCounted, WindowCounted
<1>5. LinkNoted'
  BY <1>1, <1>2, <1>3, Shapes DEF IInv, Camera_, Rest_, LinkNoted, Cam
<1>6. FramesCounted'
  <2>1. known.last # Nobody => known.last <= cam'.held
    BY <1>2, Shapes, BoundsAssumption DEF IInv, FramesCounted, Frame, Cam
  <2>2. QED
    BY <1>1, <2>1 DEF IInv, Camera_, Rest_, FramesCounted, FramesAccounted
<1>7. ButtonFollowed' /\ SeenSince'
  BY <1>1, <1>2 DEF IInv, Camera_, Rest_, ButtonFollowed, StartFollowed, LooksSettled, StopFollowed, Shows,
                    LastOp, SeenSince
<1>8. QED
  BY <1>3, <1>4, <1>5, <1>6, <1>7 DEF IInv

-----------------------------------------------------------------------------
(* Stages of a call.                                                       *)

\* A call that ends leaves what it found.
LEMMA ReturnsIInv ==
  ASSUME IInv, call # Nobody, NEW how \in Outcomes, Returns(how)
  PROVE  IInv'
<1>1. /\ call' = Nobody /\ UNCHANGED <<client, cam, known, calls, since, got>>
      /\ returned' = [op |-> call.op, how |-> how, stats |-> call.stats]
  BY DEF Returns, End
<1>2. TypeOK'
  BY <1>1, Shapes DEF IInv, TypeOK
<1>3. StageFitsOp' /\ PressesCounted' /\ LinkNoted' /\ WindowsCounted' /\ FramesCounted'
  BY <1>1 DEF IInv, StageFitsOp, PressesCounted, LinkNoted, WindowsCounted, FramesCounted,
              FramesAccounted
<1>4. ButtonFollowed' /\ SeenSince'
  <2>1. LastOp' = LastOp
    BY <1>1 DEF LastOp
  <2>2. QED
    BY <1>1, <2>1 DEF IInv, ButtonFollowed, StartFollowed, LooksSettled, StopFollowed, Shows, SeenSince
<1>5. QED
  BY <1>2, <1>3, <1>4 DEF IInv

\* What another stage of the same call leaves alone.
LEMMA StageFacts ==
  ASSUME IInv, call # Nobody, NEW stage \in Stages, call' = [call EXCEPT !.at = stage],
         UNCHANGED <<client, returned, calls, since, got>>
  PROVE  /\ call' \in Call /\ call' # Nobody /\ call'.at = stage
         /\ call'.op = call.op /\ call'.stats = call.stats
         /\ call'.faults = call.faults /\ call'.sawUsable = call.sawUsable
         /\ LastOp' = LastOp /\ call \in Call
<1>1. call \in Call
  BY Shapes DEF IInv
<1>2. /\ call' \in Call /\ call'.at = stage
      /\ call'.op = call.op /\ call'.stats = call.stats
      /\ call'.faults = call.faults /\ call'.sawUsable = call.sawUsable
  BY <1>1 DEF Call
<1>3. call' # Nobody
  BY <1>2, NobodyAssumption
<1>4. QED
  BY <1>1, <1>2, <1>3 DEF LastOp

LEMMA GotoFacts ==
  ASSUME IInv, call # Nobody, NEW stage \in Stages, Goto(stage)
  PROVE  /\ TypeOK' /\ FramesCounted' /\ WindowsCounted'
         /\ call.at \notin {"active", "usable"} \/ stage \in {"active", "usable"} => LinkNoted'
         /\ call.at \notin After \/ stage \in After => PressesCounted'
<1>1. call' = [call EXCEPT !.at = stage] /\ UNCHANGED <<client, cam, known, returned, calls, since, got>>
  BY DEF Goto
<1>2. /\ call' \in Call /\ call' # Nobody /\ call'.at = stage
      /\ call'.op = call.op /\ call'.stats = call.stats
      /\ call'.faults = call.faults /\ call'.sawUsable = call.sawUsable
  BY <1>1, StageFacts
<1>3. TypeOK'
  BY <1>1, <1>2 DEF IInv, TypeOK
<1>4. QED
  BY <1>1, <1>2, <1>3 DEF IInv, FramesCounted, FramesAccounted, WindowsCounted, WindowCounted,
                          LinkNoted, PressesCounted

LEMMA BeginIInv ==
  ASSUME IInv, NEW op \in Ops, Begin(op)
  PROVE  IInv'
<1> DEFINE at == IF op = "exit" THEN "active" ELSE "usable"
<1>1. /\ call' = [op |-> op, at |-> at, sawUsable |-> FALSE, faults |-> cam.faults,
                  stats |-> NewStats]
      /\ calls' = calls + 1 /\ calls < MaxCalls /\ call = Nobody
      /\ since' = [was |-> {cam.rolling}, broke |-> FALSE]
      /\ client.patient => Settled
      /\ UNCHANGED <<client, cam, known, returned, got>>
  BY DEF Begin
<1>2. /\ call' \in Call /\ call' # Nobody /\ call'.op = op /\ call'.at = at
      /\ call'.at \in {"active", "usable"} /\ ~call'.sawUsable
      /\ call'.faults = cam.faults /\ call'.stats = NewStats
  <2>1. NewStats \in Stats
    BY BoundsAssumption DEF NewStats, Stats
  <2>2. call' \in Call
    BY <1>1, <2>1, Shapes DEF IInv, Call, Stages
  <2>3. QED
    BY <1>1, <2>2, NobodyAssumption
<1>3. calls' \in 0..MaxCalls /\ calls' = calls + 1 /\ calls \in Nat
  BY <1>1, Shapes, BoundsAssumption DEF IInv
<1>4. TypeOK'
  <2>1. since' \in [was : SUBSET BOOLEAN, broke : BOOLEAN]
    BY <1>1, Shapes DEF IInv
  <2>2. QED
    BY <1>1, <1>2, <1>3, <2>1 DEF IInv, TypeOK
<1>5. StageFitsOp'
  BY <1>2 DEF StageFitsOp, After
<1>6. PressesCounted'
  BY <1>1, <1>3, Shapes, BoundsAssumption DEF IInv, PressesCounted
<1>7. LinkNoted'
  BY <1>1, <1>2, Shapes, BoundsAssumption DEF IInv, LinkNoted
<1>8. WindowsCounted' /\ FramesCounted'
  BY <1>1, <1>2 DEF IInv, WindowsCounted, WindowCounted, NewStats, FramesCounted, FramesAccounted
<1>9. ButtonFollowed' /\ SeenSince'
  <2>1. /\ client.patient => cam.presses = 0 /\ cam.shown = Shows
        /\ Shows = "recording" <=> cam.rolling
        /\ cam' = cam /\ client' = client /\ Shows' = Shows
    BY <1>1 DEF Settled, Shows
  <2>2. ButtonFollowed'
    BY <1>2, <2>1 DEF ButtonFollowed, StartFollowed, LooksSettled, StopFollowed, After
  <2>3. /\ cam.rolling => TRUE \in since'.was
        /\ ~cam.rolling => FALSE \in since'.was
    BY <1>1, Shapes DEF IInv
  <2>4. SeenSince'
    BY <2>1, <2>3 DEF SeenSince
  <2>5. QED
    BY <2>2, <2>4
<1>10. QED
  BY <1>4, <1>5, <1>6, <1>7, <1>8, <1>9 DEF IInv

LEMMA ExitIInv ==
  ASSUME IInv, Exit
  PROVE  IInv'
<1>1. call # Nobody /\ call.at = "active"
  BY DEF Exit, At
<1>2. CASE Returns("ok")
  BY <1>1, <1>2, ReturnsIInv DEF Outcomes
<1>3. CASE Goto("usable")
  <2>1. call'.at = "usable" /\ call' # Nobody /\ call'.op = call.op /\ LastOp' = LastOp
        /\ UNCHANGED <<client, cam, calls, since>>
    BY <1>1, <1>3, StageFacts DEF Goto, Stages
  <2>2. TypeOK' /\ FramesCounted' /\ WindowsCounted' /\ LinkNoted' /\ PressesCounted'
    BY <1>1, <1>3, GotoFacts DEF Stages, After
  <2>3. StageFitsOp'
    BY <2>1 DEF StageFitsOp, After
  <2>4. ButtonFollowed' /\ SeenSince'
    BY <1>1, <2>1 DEF IInv, ButtonFollowed, StartFollowed, LooksSettled, StopFollowed, Shows, After, SeenSince
  <2>5. QED
    BY <2>2, <2>3, <2>4 DEF IInv
<1>4. QED
  BY <1>2, <1>3 DEF Exit

LEMMA CheckIInv ==
  ASSUME IInv, Check
  PROVE  IInv'
<1> DEFINE u == cam.usable
<1>1. /\ call # Nobody /\ call \in Call /\ call.at = "usable" /\ cam.linked /\ u \in BOOLEAN
      /\ call' = [call EXCEPT !.at = "video", !.sawUsable = u]
      /\ UNCHANGED <<client, cam, known, returned, calls, since, got>>
  BY Shapes DEF IInv, Check, At
<1> HIDE DEF u
<1>2. /\ call' \in Call /\ call'.at = "video" /\ call'.op = call.op /\ call'.stats = call.stats
      /\ call'.faults = call.faults /\ call'.sawUsable = u
  BY <1>1 DEF Call, Stages
<1>3. call' # Nobody /\ LastOp' = LastOp
  BY <1>1, <1>2, NobodyAssumption DEF LastOp
<1>4. TypeOK'
  BY <1>1, <1>2 DEF IInv, TypeOK
<1>5. StageFitsOp' /\ PressesCounted' /\ FramesCounted' /\ WindowsCounted'
  BY <1>1, <1>2, <1>3 DEF IInv, StageFitsOp, PressesCounted, FramesCounted, FramesAccounted,
                          WindowsCounted, WindowCounted, After
<1>6. LinkNoted'
  BY <1>1, <1>2 DEF IInv, LinkNoted, u
<1>7. ButtonFollowed' /\ SeenSince'
  BY <1>1, <1>2, <1>3 DEF IInv, ButtonFollowed, StartFollowed, LooksSettled, StopFollowed, Shows, After, SeenSince
<1>8. QED
  BY <1>4, <1>5, <1>6, <1>7 DEF IInv

LEMMA MeasureVideoIInv ==
  ASSUME IInv, MeasureVideo
  PROVE  IInv'
<1> DEFINE v == IF known.video = Nobody THEN cam.linked /\ cam.video ELSE known.video
<1>1. /\ call # Nobody /\ call.at = "video" /\ call' = [call EXCEPT !.at = "live"]
      /\ known' = [known EXCEPT !.video = v] /\ known \in Known
      /\ UNCHANGED <<client, cam, returned, calls, since, got>>
  BY Shapes DEF IInv, MeasureVideo, At
<1>2. v \in BOOLEAN \cup {Nobody} /\ (v = TRUE => cam.video)
  <2>1. CASE known.video = Nobody
    BY <2>1
  <2>2. CASE known.video # Nobody
    BY <1>1, <2>2 DEF IInv, TypeOK, Known
  <2>3. QED
    BY <2>1, <2>2
<1> HIDE DEF v
<1>3. /\ known' \in Known /\ known'.video = v /\ known'.live = known.live
      /\ known'.last = known.last /\ known'.skipped = known.skipped
  BY <1>1, <1>2 DEF Known
<1>4. /\ call' \in Call /\ call' # Nobody /\ call'.at = "live"
      /\ call'.op = call.op /\ call'.stats = call.stats
      /\ call'.faults = call.faults /\ call'.sawUsable = call.sawUsable /\ LastOp' = LastOp
  BY <1>1, StageFacts DEF Stages
<1>5. TypeOK'
  BY <1>1, <1>2, <1>3, <1>4 DEF IInv, TypeOK
<1>6. StageFitsOp' /\ PressesCounted' /\ FramesCounted' /\ WindowsCounted' /\ LinkNoted'
  BY <1>1, <1>3, <1>4 DEF IInv, StageFitsOp, PressesCounted, FramesCounted, FramesAccounted,
                          WindowsCounted, WindowCounted, After, LinkNoted
<1>7. ButtonFollowed' /\ SeenSince'
  BY <1>1, <1>4 DEF IInv, ButtonFollowed, StartFollowed, LooksSettled, StopFollowed, Shows, After, SeenSince
<1>8. QED
  BY <1>5, <1>6, <1>7 DEF IInv

LEMMA MeasureLiveIInv ==
  ASSUME IInv, MeasureLive
  PROVE  IInv'
<1> DEFINE live == LiveAnswer(known.live)
           views == call.op \in {"frame", "measure"}
           next == IF views THEN "fetch" ELSE "state"
<1>1. /\ call # Nobody /\ call.at = "live" /\ known \in Known /\ call \in Call
      /\ known' = [known EXCEPT !.live = live]
      /\ UNCHANGED <<client, cam, calls, since, got>>
  BY Shapes DEF IInv, MeasureLive, At, End
<1>2. live \in BOOLEAN /\ (live => cam.usable)
  BY Shapes DEF IInv, LiveAnswer, TypeOK
<1> HIDE DEF live
<1>3. /\ known' \in Known /\ known'.live = live /\ known'.video = known.video
      /\ known'.last = known.last /\ known'.skipped = known.skipped
  BY <1>1, <1>2 DEF Known
<1>4. \/ call' = [call EXCEPT !.at = next] /\ returned' = returned
      \/ call' = Nobody /\ returned' = [op |-> call.op, how |-> "unsupported", stats |-> call.stats]
  BY DEF MeasureLive, End
<1>5. CASE call' = [call EXCEPT !.at = next] /\ returned' = returned
  <2>1. /\ call' \in Call /\ call' # Nobody /\ call'.at = next
        /\ call'.op = call.op /\ call'.stats = call.stats
        /\ call'.faults = call.faults /\ call'.sawUsable = call.sawUsable /\ LastOp' = LastOp
    BY <1>1, <1>5, StageFacts DEF Stages
  <2>2. TypeOK'
    BY <1>1, <1>2, <1>3, <1>5, <2>1 DEF IInv, TypeOK
  <2>3. StageFitsOp' /\ PressesCounted' /\ FramesCounted' /\ WindowsCounted' /\ LinkNoted'
    BY <1>1, <1>3, <2>1, Shapes DEF IInv, StageFitsOp, PressesCounted, FramesCounted, FramesAccounted,
                            WindowsCounted, WindowCounted, After, LinkNoted, Ops
  <2>4. ButtonFollowed' /\ SeenSince'
    BY <1>1, <2>1 DEF IInv, ButtonFollowed, StartFollowed, LooksSettled, StopFollowed, Shows, After, SeenSince
  <2>5. QED
    BY <2>2, <2>3, <2>4 DEF IInv
<1>6. CASE call' = Nobody /\ returned' = [op |-> call.op, how |-> "unsupported", stats |-> call.stats]
  <2>1. returned' \in [op : Ops \cup {"none"}, how : Outcomes \cup {"none"}, stats : Stats]
    BY <1>1, <1>6, Shapes DEF IInv, Outcomes
  <2>2. TypeOK'
    BY <1>1, <1>2, <1>3, <1>6, <2>1 DEF IInv, TypeOK
  <2>3. LastOp' = LastOp
    BY <1>1, <1>6 DEF LastOp
  <2>4. StageFitsOp' /\ PressesCounted' /\ FramesCounted' /\ WindowsCounted' /\ LinkNoted'
    BY <1>1, <1>3, <1>6 DEF IInv, StageFitsOp, PressesCounted, FramesCounted, FramesAccounted,
                            WindowsCounted, LinkNoted
  <2>5. ButtonFollowed' /\ SeenSince'
    BY <1>1, <1>6, <2>3 DEF IInv, ButtonFollowed, StartFollowed, LooksSettled, StopFollowed, Shows, SeenSince
  <2>6. QED
    BY <2>2, <2>4, <2>5 DEF IInv
<1>7. QED
  BY <1>4, <1>5, <1>6

-----------------------------------------------------------------------------
(* Recording.                                                              *)

\* A patient call looks before it presses, so it presses only what it found.
LEMMA ReadStateIInv ==
  ASSUME IInv, ReadState
  PROVE  IInv'
<1> DEFINE next == IF MustPress THEN "down" ELSE AfterPress
<1>1. call # Nobody /\ call.at = "state" /\ next \in Stages /\ Goto(next)
      /\ next \in {"down"} \cup After
  BY DEF ReadState, At, AfterPress, Stages, After
<1>2. /\ call' # Nobody /\ call'.at = next /\ call'.op = call.op /\ LastOp' = LastOp
      /\ UNCHANGED <<client, cam, calls, since>>
  BY <1>1, StageFacts DEF Goto
<1>3. TypeOK' /\ FramesCounted' /\ WindowsCounted' /\ LinkNoted' /\ PressesCounted'
  BY <1>1, GotoFacts DEF After
<1>4. StageFitsOp'
  BY <1>1, <1>2 DEF IInv, StageFitsOp, AfterPress, After
<1>5. ButtonFollowed' /\ SeenSince'
  <2>1. CASE MustPress
    BY <1>1, <1>2, <2>1, Shapes DEF IInv, ButtonFollowed, StartFollowed, LooksSettled, StopFollowed,
      Shows, After, SeenSince, MustPress, RecordingStates
  <2>2. CASE ~MustPress
    <3>1. next \in After /\ next # "down" /\ (call.op # "start" => cam.shown # "recording")
      BY <2>2 DEF AfterPress, After, MustPress
    <3>2. client.patient => cam.presses = 0 /\ (cam.shown # "recording" => ~cam.rolling)
      BY <1>1 DEF IInv, ButtonFollowed, LooksSettled, After
    <3>3. ButtonFollowed'
      BY <1>2, <3>1, <3>2 DEF IInv, ButtonFollowed, StartFollowed, LooksSettled, StopFollowed
    <3>4. QED
      BY <1>2, <3>3 DEF IInv, SeenSince
  <2>3. QED
    BY <2>1, <2>2
<1>6. QED
  BY <1>3, <1>4, <1>5 DEF IInv

LEMMA PressIInv ==
  ASSUME IInv, Press
  PROVE  IInv'
<1> DEFINE p == cam.presses + 1
<1>1. /\ call # Nobody /\ call.at = "down" /\ call' = [call EXCEPT !.at = "up"]
      /\ cam' = [cam EXCEPT !.presses = p] /\ cam \in Cam
      /\ UNCHANGED <<client, known, returned, calls, since, got>>
  BY DEF IInv, Press, At, TypeOK
<1>2. p \in 0..MaxCalls /\ p <= calls /\ cam.presses \in Nat
  BY <1>1, Shapes, BoundsAssumption DEF IInv, PressesCounted, After
<1> HIDE DEF p
<1>3. /\ cam' \in Cam /\ cam'.presses = p
      /\ cam'.usable = cam.usable /\ cam'.video = cam.video /\ cam'.held = cam.held
      /\ cam'.linked = cam.linked /\ cam'.faults = cam.faults
      /\ cam'.rolling = cam.rolling /\ cam'.shown = cam.shown
  <2>1. cam' \in Cam
    BY <1>1, <1>2, CamChanges
  <2>2. QED
    BY <1>1, <2>1 DEF Cam
<1>4. /\ call' \in Call /\ call' # Nobody /\ call'.at = "up"
      /\ call'.op = call.op /\ call'.stats = call.stats
      /\ call'.faults = call.faults /\ call'.sawUsable = call.sawUsable /\ LastOp' = LastOp
  BY <1>1, StageFacts DEF Stages
<1>5. TypeOK'
  BY <1>1, <1>3, <1>4 DEF IInv, TypeOK
<1>6. StageFitsOp' /\ PressesCounted' /\ LinkNoted'
  BY <1>1, <1>2, <1>3, <1>4 DEF IInv, StageFitsOp, PressesCounted, LinkNoted, After
<1>7. FramesCounted' /\ WindowsCounted'
  BY <1>1, <1>3, <1>4 DEF IInv, FramesCounted, FramesAccounted, WindowsCounted, WindowCounted
<1>8. ButtonFollowed' /\ SeenSince'
  <2>1. client.patient =>
          /\ cam.presses = 0
          /\ cam.shown # "recording" => ~cam.rolling
          /\ ~since.broke => cam.shown = Shows
          /\ IF call.op = "start" THEN ~cam.rolling ELSE since.broke \/ cam.shown = "recording"
    BY <1>1 DEF IInv, ButtonFollowed, LooksSettled, After
  <2>2. client.patient => p = 1
    BY <2>1 DEF p
  <2>3. LastOp = call.op /\ (Shows = "recording" <=> cam.rolling)
    BY <1>1 DEF LastOp, Shows
  <2>4. client.patient => StartFollowed'
    BY <1>1, <1>3, <1>4, <2>1, <2>2, <2>3 DEF IInv, ButtonFollowed, StartFollowed
  <2>5. client.patient => LooksSettled' /\ StopFollowed'
    BY <1>1, <1>3, <1>4, <2>1, <2>2, <2>3 DEF LooksSettled, StopFollowed, After
  <2>6. SeenSince'
    BY <1>1, <1>3 DEF IInv, SeenSince
  <2>7. QED
    BY <1>1, <2>4, <2>5, <2>6 DEF ButtonFollowed
<1>9. QED
  BY <1>5, <1>6, <1>7, <1>8 DEF IInv

LEMMA ReleaseIInv ==
  ASSUME IInv, Release
  PROVE  IInv'
<1>1. call # Nobody /\ call.at = "up" /\ AfterPress \in Stages /\ Goto(AfterPress)
      /\ AfterPress \in {"wait", "done"}
  BY DEF Release, At, AfterPress, Stages
<1>2. /\ call' # Nobody /\ call'.at = AfterPress /\ call'.op = call.op /\ LastOp' = LastOp
      /\ UNCHANGED <<client, cam, calls, since>>
  BY <1>1, StageFacts DEF Goto
<1>3. TypeOK' /\ FramesCounted' /\ WindowsCounted' /\ LinkNoted' /\ PressesCounted'
  BY <1>1, GotoFacts DEF After
<1>4. StageFitsOp'
  BY <1>1, <1>2 DEF IInv, StageFitsOp, AfterPress, After
<1>5. ButtonFollowed' /\ SeenSince'
  BY <1>1, <1>2 DEF IInv, ButtonFollowed, StartFollowed, LooksSettled, StopFollowed, Shows, After, SeenSince
<1>6. QED
  BY <1>3, <1>4, <1>5 DEF IInv

\* The ways a call ends that do nothing but end it.
LEMMA OtherEndsIInv ==
  ASSUME IInv, Raise \/ WaitEnds \/ WaitExpires \/ Done \/ MeasureEnds
  PROVE  IInv'
<1>1. call # Nobody /\ \E how \in Outcomes : Returns(how)
  BY DEF Raise, WaitEnds, WaitExpires, Done, MeasureEnds, At, Outcomes
<1>2. QED
  BY <1>1, ReturnsIInv

LEMMA NoFrameIInv ==
  ASSUME IInv, NoFrame
  PROVE  IInv' /\ (call.op = "measure" => call' # Nobody)
<1>1. call # Nobody /\ call.at = "fetch"
  BY DEF NoFrame, At
<1>2. CASE call.op # "measure"
  BY <1>1, <1>2, ReturnsIInv DEF NoFrame, Outcomes
<1>3. CASE call.op = "measure"
  <2>1. Goto("usable") /\ "usable" \in Stages
    BY <1>3 DEF NoFrame, Stages
  <2>2. /\ call' # Nobody /\ call'.at = "usable" /\ call'.op = call.op /\ LastOp' = LastOp
        /\ UNCHANGED <<client, cam, calls, since>>
    BY <1>1, <2>1, StageFacts DEF Goto
  <2>3. TypeOK' /\ FramesCounted' /\ WindowsCounted' /\ PressesCounted'
    BY <1>1, <2>1, GotoFacts DEF After
  <2>4. LinkNoted'
    <3>1. call'.faults = call.faults /\ call'.sawUsable = call.sawUsable
      BY <1>1, <2>1, StageFacts DEF Goto
    <3>2. QED
      BY <1>1, <2>2, <3>1 DEF IInv, LinkNoted
  <2>5. StageFitsOp'
    BY <2>2 DEF StageFitsOp, After
  <2>6. ButtonFollowed' /\ SeenSince'
    BY <1>1, <2>2 DEF IInv, ButtonFollowed, StartFollowed, LooksSettled, StopFollowed, Shows, After, SeenSince
  <2>7. QED
    BY <2>2, <2>3, <2>4, <2>5, <2>6 DEF IInv
<1>4. QED
  BY <1>2, <1>3

-----------------------------------------------------------------------------
(* Live view.                                                              *)

LEMMA FetchIInv ==
  ASSUME IInv, Fetch
  PROVE  IInv' /\ (call.op = "measure" => call' # Nobody)
<1> DEFINE n == cam.held
           s == known.skipped + SkippedBefore(n)
           measures == call.op = "measure"
<1>1. /\ call # Nobody /\ call \in Call /\ call.at = "fetch" /\ cam.linked
      /\ call.op \in {"frame", "measure"}
      /\ n > 0 /\ n # known.last /\ known \in Known
      /\ known' = [known EXCEPT !.last = n, !.skipped = s]
      /\ got' = Append(got, n) /\ got \in Seq(Frame)
      /\ UNCHANGED <<client, cam, calls, since>>
  BY Shapes DEF IInv, Fetch, At, IsNew, End, StageFitsOp, TypeOK
<1>2. n \in Frame /\ n \in Nat
  BY <1>1, Shapes, BoundsAssumption DEF IInv, Frame
<1>3. /\ s \in 0..MaxFrames
      /\ Len(got') = Len(got) + 1 /\ got' # <<>> /\ got' \in Seq(Frame)
      /\ got'[1] \in Frame /\ got'[1] <= n
      /\ Len(got') + s = n - got'[1] + 1
  <2>1. CASE got = <<>>
    <3>1. known.last = Nobody /\ known.skipped = 0
      BY <2>1 DEF IInv, FramesCounted
    <3>2. s = 0
      BY <3>1 DEF SkippedBefore
    <3>3. got' = <<n>>
      BY <1>1, <2>1
    <3>4. QED
      BY <1>2, <2>1, <3>2, <3>3, BoundsAssumption
  <2>2. CASE got # <<>>
    <3>1. /\ known.last \in Frame /\ known.last < n
          /\ got[1] \in Frame /\ got[1] <= known.last
          /\ Len(got) + known.skipped = known.last - got[1] + 1
          /\ known.last # Nobody
      BY <1>1, <1>2, <2>2, Shapes, BoundsAssumption, NobodyAssumption
         DEF IInv, FramesCounted, FramesAccounted, Frame
    <3>2. SkippedBefore(n) = n - known.last - 1
      BY <1>2, <3>1, BoundsAssumption DEF SkippedBefore, Frame
    <3>3. got'[1] = got[1] /\ Len(got') = Len(got) + 1 /\ got' # <<>> /\ got' \in Seq(Frame)
      BY <1>1, <1>2, <2>2
    <3>4. Len(got) \in Nat /\ Len(got) > 0 /\ known.skipped \in Nat
      BY <1>1, <2>2, Shapes, BoundsAssumption DEF IInv
    <3>5. got[1] \in Nat /\ got[1] > 0 /\ known.last \in Nat
      BY <3>1, BoundsAssumption DEF Frame
    <3>6. s = known.skipped + (n - known.last - 1)
      BY <3>2
    <3> HIDE DEF s
    <3>7. s \in Nat /\ n - got[1] + 1 = Len(got) + 1 + s - 0
      <4>1. known.last - got[1] + 1 = Len(got) + known.skipped - 0 /\ 0 <= known.skipped
        BY <3>1, <3>4, <3>5
      <4> DEFINE c == Len(got)
                 k == known.skipped
                 l == known.last
                 g == got[1]
      <4>2. c \in Nat /\ k \in Nat /\ l \in Nat /\ g \in Nat /\ g > 0 /\ l < n /\ 0 <= k
            /\ l - g + 1 = c + k - 0 /\ s = k + (n - l - 1)
        BY <3>1, <3>4, <3>5, <3>6, <4>1
      <4> HIDE DEF c, k, l, g
      <4>3. s \in Nat /\ n - g + 1 = c + 1 + s - 0
        BY <1>2, <4>2
      <4>4. QED
        BY <4>3 DEF c, g
    <3>8. s <= MaxFrames /\ Len(got) + 1 + s = n - got[1] + 1 /\ got[1] <= n
      <4>1. n <= MaxFrames
        BY <1>2, BoundsAssumption DEF Frame
      <4>2. QED
        BY <1>2, <3>1, <3>4, <3>5, <3>7, <4>1, BoundsAssumption
    <3>9. QED
      BY <1>2, <3>1, <3>3, <3>7, <3>8, BoundsAssumption
  <2>3. QED
    BY <2>1, <2>2
<1> HIDE DEF s
<1>4. /\ known' \in Known /\ known'.last = n /\ known'.skipped = s
      /\ known'.live = known.live /\ known'.video = known.video
  BY <1>1, <1>2, <1>3 DEF Known
<1>5. FramesCounted'
  BY <1>1, <1>2, <1>3, <1>4, NobodyAssumption DEF FramesCounted, FramesAccounted, Frame
<1>6. CASE measures
  <2> DEFINE w == Counted(call.stats, n)
  <2>1. call' = [call EXCEPT !.at = "usable", !.stats = w] /\ UNCHANGED returned
    BY <1>6 DEF Fetch
  <2>2. w \in Stats /\ WindowCounted(w, n, s)
    <3>1. call.stats \in Stats /\ WindowCounted(call.stats, known.last, known.skipped)
      BY <1>1, Shapes DEF IInv, WindowsCounted
    <3>2. CASE call.stats.frames = 0
      <4>1. w = [frames |-> 1, first |-> n, last |-> n, base |-> s]
        BY <3>1, <3>2 DEF Counted, WindowCounted, s
      <4>2. QED
        BY <1>2, <1>3, <4>1, BoundsAssumption DEF Stats, WindowCounted, Frame
    <3>3. CASE call.stats.frames # 0
      <4> DEFINE st == call.stats
      <4>1. /\ st.frames \in Nat /\ st.frames > 0 /\ st.base \in Nat /\ st.first \in Frame
            /\ st.last = known.last /\ st.last \in Frame /\ st.base <= known.skipped
            /\ st.last - st.first + 1 = st.frames + known.skipped - st.base
            /\ st.base \in 0..MaxFrames
        BY <3>1, <3>3, BoundsAssumption DEF Stats, WindowCounted
      <4>2. w = [frames |-> st.frames + 1, first |-> st.first, last |-> n, base |-> st.base]
        BY <4>1, NobodyAssumption DEF Counted, Frame
      <4>3. known.last \in Nat /\ known.last < n /\ known.last # Nobody /\ known.skipped \in Nat
        <5>1. known.last # Nobody /\ known.skipped \in Nat
          BY <4>1, <3>1, Shapes, BoundsAssumption, NobodyAssumption DEF IInv, Stats, Frame
        <5>2. known.last \in Nat /\ known.last <= cam.held
          BY <5>1, Shapes, BoundsAssumption DEF IInv, FramesCounted, Frame
        <5>3. QED
          BY <1>1, <1>2, <5>1, <5>2
      <4>4. s = known.skipped + (n - known.last - 1)
        BY <1>2, <4>3, NobodyAssumption DEF s, SkippedBefore
      <4>5. st.first \in Nat /\ st.first > 0
        BY <4>1, BoundsAssumption DEF Frame
      <4> HIDE DEF st
      <4>6. n - st.first + 1 = st.frames + 1 + s - st.base /\ st.base <= s
            /\ st.frames + 1 \in 0..MaxFrames
        <5>1. /\ n - st.first + 1 = st.frames + 1 + s - st.base /\ st.base <= s
              /\ st.frames + 1 <= n
          <6> DEFINE c == st.frames
                     k == known.skipped
                     l == known.last
                     g == st.first
                     b == st.base
          <6>1. /\ c \in Nat /\ k \in Nat /\ l \in Nat /\ g \in Nat /\ g > 0 /\ l < n
                /\ b \in Nat /\ b <= k /\ l - g + 1 = c + k - b /\ s = k + (n - l - 1)
            BY <4>1, <4>3, <4>4, <4>5
          <6> HIDE DEF c, k, l, g, b
          <6>2. n - g + 1 = c + 1 + s - b /\ b <= s /\ c + 1 <= n
            BY <1>2, <6>1
          <6>3. QED
            BY <6>2 DEF c, g, b
        <5>2. QED
          BY <1>2, <4>1, <5>1, BoundsAssumption DEF Frame
      <4>7. w \in Stats
        BY <1>2, <4>1, <4>2, <4>6 DEF Stats
      <4>8. QED
        BY <1>2, <4>1, <4>2, <4>6, <4>7 DEF WindowCounted
    <3>4. QED
      BY <3>2, <3>3
  <2> HIDE DEF w
  <2>3. /\ call' \in Call /\ call'.at = "usable" /\ call'.op = call.op /\ call'.stats = w
        /\ call'.faults = call.faults /\ call'.sawUsable = call.sawUsable
    BY <1>1, <2>1, <2>2 DEF Call, Stages
  <2>4. call' # Nobody /\ LastOp' = LastOp
    BY <1>1, <2>3, NobodyAssumption DEF LastOp
  <2>5. TypeOK'
    BY <1>1, <1>3, <1>4, <2>1, <2>3 DEF IInv, TypeOK
  <2>6. StageFitsOp' /\ PressesCounted' /\ LinkNoted' /\ WindowsCounted'
    <3>1. WindowsCounted'
      BY <1>4, <2>2, <2>3 DEF WindowsCounted
    <3>2. StageFitsOp' /\ PressesCounted'
      BY <1>1, <1>6, <2>3, <2>4 DEF IInv, StageFitsOp, PressesCounted, After
    <3>3. LinkNoted'
      BY <1>1, <2>3, <2>4 DEF IInv, LinkNoted
    <3>4. QED
      BY <3>1, <3>2, <3>3
  <2>7. ButtonFollowed' /\ SeenSince'
    BY <1>1, <2>3, <2>4 DEF IInv, ButtonFollowed, StartFollowed, LooksSettled, StopFollowed, Shows, After, SeenSince
  <2>8. QED
    BY <1>5, <2>4, <2>5, <2>6, <2>7 DEF IInv
<1>7. CASE ~measures
  <2>1. call' = Nobody /\ returned' = [op |-> call.op, how |-> "ok", stats |-> call.stats]
    BY <1>7 DEF Fetch, End
  <2>2. returned' \in [op : Ops \cup {"none"}, how : Outcomes \cup {"none"}, stats : Stats]
    BY <1>1, <2>1, Shapes DEF IInv, Outcomes
  <2>3. TypeOK'
    BY <1>1, <1>3, <1>4, <2>1, <2>2 DEF IInv, TypeOK
  <2>4. StageFitsOp' /\ PressesCounted' /\ LinkNoted' /\ WindowsCounted'
    BY <1>1, <2>1 DEF IInv, StageFitsOp, PressesCounted, LinkNoted, WindowsCounted
  <2>5. LastOp' = LastOp
    BY <1>1, <2>1 DEF LastOp
  <2>6. ButtonFollowed' /\ SeenSince'
    BY <1>1, <2>1, <2>5 DEF IInv, ButtonFollowed, StartFollowed, LooksSettled, StopFollowed, Shows, SeenSince
  <2>7. QED
    BY <1>5, <1>7, <2>3, <2>4, <2>6 DEF IInv
<1>8. QED
  BY <1>6, <1>7

-----------------------------------------------------------------------------
(* The invariant, and what it says.                                        *)

LEMMA NextIInv == IInv /\ [Next]_vars => IInv'
<1> SUFFICES ASSUME IInv, [Next]_vars PROVE IInv'
  OBVIOUS
<1>1. ASSUME NEW op \in Ops, Begin(op) PROVE IInv'
  BY <1>1, BeginIInv
<1>2. CASE Exit
  BY <1>2, ExitIInv
<1>3. CASE Check
  BY <1>3, CheckIInv
<1>4. CASE MeasureVideo
  BY <1>4, MeasureVideoIInv
<1>5. CASE MeasureLive
  BY <1>5, MeasureLiveIInv
<1>6. CASE Raise \/ WaitEnds \/ WaitExpires \/ Done \/ MeasureEnds
  BY <1>6, OtherEndsIInv
<1>7. CASE ReadState
  BY <1>7, ReadStateIInv
<1>8. CASE Press
  BY <1>8, PressIInv
<1>9. CASE Release
  BY <1>9, ReleaseIInv
<1>10. CASE Fetch
  BY <1>10, FetchIInv
<1>11. CASE Acts
  BY <1>11, ActsIInv
<1>12. CASE Report
  BY <1>12, ReportIInv
<1>13. CASE BreaksOff
  BY <1>13, BreaksOffIInv
<1>14. CASE LiveViewComesUp \/ Produces \/ LinkLost \/ LinkRecovers
  BY <1>14, OtherCameraIInv
<1>15. CASE NoFrame
  BY <1>15, NoFrameIInv
<1>16. CASE UNCHANGED vars
  <2>1. UNCHANGED <<client, cam, known, call, returned, calls, since, got>>
    BY <1>16 DEF vars
  <2>2. TypeOK' /\ StageFitsOp' /\ PressesCounted' /\ SeenSince'
    <3>1. TypeOK'
      BY <2>1 DEF IInv, TypeOK
    <3>2. StageFitsOp' /\ PressesCounted'
      BY <2>1 DEF IInv, StageFitsOp, PressesCounted
    <3>3. SeenSince'
      BY <2>1 DEF IInv, SeenSince
    <3>4. QED
      BY <3>1, <3>2, <3>3
  <2>3. ButtonFollowed'
    BY <2>1 DEF IInv, ButtonFollowed, StartFollowed, LooksSettled, StopFollowed, Shows, LastOp
  <2>4. LinkNoted' /\ FramesCounted' /\ WindowsCounted'
    BY <2>1 DEF IInv, LinkNoted, FramesCounted, FramesAccounted, WindowsCounted
  <2>5. QED
    BY <2>2, <2>3, <2>4 DEF IInv
<1>17. QED
  BY <1>1, <1>2, <1>3, <1>4, <1>5, <1>6, <1>7, <1>8, <1>9, <1>10, <1>11, <1>12, <1>13, <1>14,
     <1>15, <1>16 DEF Next

LEMMA Invariance == Spec => []IInv
  BY InitIInv, NextIInv, PTL DEF Spec

\* The client, the camera, the call and what the backend remembers keep their
\* types, and the backend never remembers a capability the camera has not.
THEOREM TypeCorrect == Spec => []TypeOK
<1>1. IInv => TypeOK
  BY DEF IInv
<1>2. QED
  BY <1>1, Invariance, PTL

\* FrameSequencer loses no frame from its count, for any number of frames.
THEOREM SkippedFramesCounted == Spec => []FramesAccounted
<1>1. IInv => FramesAccounted
  BY DEF IInv, FramesCounted
<1>2. QED
  BY <1>1, Invariance, PTL

\* The button was pressed at most once since a patient client began a start,
\* and only while the camera did not record.
THEOREM StartIsNoStop == Spec => StartNeverStops
<1>1. IInv /\ [Next]_vars =>
        [client.patient /\ LastOp = "start" /\ cam'.presses < cam.presses => cam'.rolling]_vars
  <2> SUFFICES ASSUME IInv, Next, client.patient, LastOp = "start", cam'.presses < cam.presses
               PROVE  cam'.rolling
    OBVIOUS
  <2>1. cam \in Cam /\ cam.presses \in Nat
    <3>1. cam \in Cam
      BY DEF IInv, TypeOK
    <3>2. QED
      BY <3>1, Shapes, BoundsAssumption DEF IInv
  <2>2. CASE Acts
    <3>1. cam.presses = 1 /\ ~cam.rolling
      BY <2>1, <2>2 DEF IInv, Acts, ButtonFollowed, StartFollowed
    <3>2. QED
      BY <2>1, <2>2, <3>1 DEF Acts, Cam
  <2>3. CASE Report \/ BreaksOff \/ LiveViewComesUp \/ Produces \/ LinkLost \/ LinkRecovers
    <3>1. cam'.presses = cam.presses
      BY <2>1, <2>3 DEF Report, BreaksOff, LiveViewComesUp, Produces, LinkLost, LinkRecovers, Cam
    <3>2. QED
      BY <2>1, <3>1
  <2>4. CASE Press
    <3>1. cam'.presses = cam.presses + 1
      BY <2>1, <2>4 DEF Press, Cam
    <3>2. QED
      BY <2>1, <3>1
  <2>5. CASE UNCHANGED cam
    BY <2>1, <2>5
  <2>6. QED
    BY <2>2, <2>3, <2>4, <2>5 DEF Next, Begin, Exit, Check, MeasureVideo, MeasureLive, Raise, ReadState,
      Release, WaitEnds, WaitExpires, Done, Fetch, NoFrame, MeasureEnds, Goto, Returns, End
<1>2. QED
  BY <1>1, Invariance, PTL DEF Spec, StartNeverStops

\* The ways a call comes to its end.
LEMMA EndsHow ==
  ASSUME IInv, Next, Ends
  PROVE  \/ Exit /\ call.at = "active" /\ cam.shown # "recording" /\ Returns("ok")
         \/ Raise \/ MeasureLive \/ WaitEnds \/ WaitExpires \/ Done
         \/ (NoFrame /\ Returns("ok")) \/ (Fetch /\ call.op = "frame") \/ MeasureEnds
<1>1. call # Nobody /\ call' = Nobody /\ call \in Call
  BY Shapes DEF Ends, IInv
<1>2. ~\E op \in Ops : Begin(op)
  BY <1>1 DEF Begin
<1>3. ASSUME NEW stage \in Stages, call' = [call EXCEPT !.at = stage] PROVE FALSE
  <2>1. [call EXCEPT !.at = stage] \in Call
    BY <1>1, <1>3 DEF Call
  <2>2. QED
    BY <1>1, <1>3, <2>1, NobodyAssumption
<1>4. ~(Release \/ ReadState \/ MeasureVideo \/ Press)
  BY <1>3 DEF Release, ReadState, MeasureVideo, Press, Goto, AfterPress, Stages
<1>5. Exit => call.at = "active" /\ cam.shown # "recording" /\ Returns("ok")
  BY <1>3 DEF Exit, At, Goto, Stages
<1>6. ~Check
  <2> SUFFICES ASSUME Check PROVE FALSE
    OBVIOUS
  <2>1. cam.usable \in BOOLEAN /\ call' = [call EXCEPT !.at = "video", !.sawUsable = cam.usable]
    BY Shapes DEF IInv, Check
  <2>2. \A u \in BOOLEAN : [call EXCEPT !.at = "video", !.sawUsable = u] \in Call
    BY <1>1 DEF Call, Stages
  <2>3. QED
    BY <1>1, <2>1, <2>2, NobodyAssumption
<1>7. ~(Acts \/ Report \/ BreaksOff \/ LiveViewComesUp \/ Produces \/ LinkLost \/ LinkRecovers)
  BY <1>1 DEF Acts, Report, BreaksOff, LiveViewComesUp, Produces, LinkLost, LinkRecovers, Camera_, Rest_
<1>8. Fetch => call.op = "frame"
  BY <1>1, FetchIInv DEF IInv, Fetch, At, StageFitsOp
<1>9. NoFrame => Returns("ok")
  BY <1>1, NoFrameIInv DEF NoFrame
<1>10. QED
  BY <1>2, <1>4, <1>5, <1>6, <1>7, <1>8, <1>9 DEF Next

LEMMA MeasureLiveEnds ==
  ASSUME IInv, MeasureLive, Ends
  PROVE  /\ returned'.how = "unsupported" /\ call.at = "live"
         /\ call.op \in {"frame", "measure"} => ~(cam.linked /\ cam.usable)
<1> DEFINE live == LiveAnswer(known.live)
           next == IF call.op \in {"frame", "measure"} THEN "fetch" ELSE "state"
<1>1. call # Nobody /\ call' = Nobody /\ call.at = "live" /\ call \in Call
  BY Shapes DEF IInv, Ends, MeasureLive, At
<1>2. \/ call' = [call EXCEPT !.at = next]
      \/ End("unsupported") /\ (call.op \in {"frame", "measure"} => ~live)
  BY DEF MeasureLive
<1>3. call' # [call EXCEPT !.at = next]
  BY <1>1, NobodyAssumption DEF Call, Stages
<1>4. QED
  BY <1>1, <1>2, <1>3 DEF End, LiveAnswer

\* What a patient client that waits is told about the recording was so since
\* it called, and still is unless the recording broke off.
THEOREM ReturnsTellTheTruth == Spec => ReturnedIsTrue
<1> DEFINE Started == TRUE \in since.was /\ (since.broke \/ cam.rolling)
           Stopped == FALSE \in since.was /\ (since.broke \/ (~cam.rolling /\ cam.presses = 0))
<1>1. IInv /\ [Next]_vars =>
        [client.patient /\ client.waits /\ Ends /\ returned'.how = "ok" =>
           /\ call.op = "start" => Started
           /\ call.op \in {"stop", "exit"} => Stopped]_vars
  <2> SUFFICES ASSUME IInv, Next, client.patient, client.waits, Ends, returned'.how = "ok"
               PROVE  /\ call.op = "start" => Started
                      /\ call.op \in {"stop", "exit"} => Stopped
    OBVIOUS
  <2>1. call # Nobody /\ cam.presses \in Nat /\ cam.rolling \in BOOLEAN
    BY Shapes, BoundsAssumption DEF IInv, Ends
  <2>2. CASE Exit /\ call.at = "active" /\ cam.shown # "recording" /\ Returns("ok")
    <3>1. cam.presses = 0 /\ ~cam.rolling /\ call.op = "exit"
      BY <2>1, <2>2 DEF IInv, ButtonFollowed, LooksSettled, After, StageFitsOp
    <3>2. QED
      BY <2>2, <3>1 DEF IInv, SeenSince
  <2>3. CASE Raise \/ MeasureLive \/ WaitExpires
    BY <2>1, <2>3, MeasureLiveEnds DEF Raise, WaitExpires, Returns, End, Ends
  <2>4. CASE WaitEnds
    <3>1. call.at = "wait" /\ cam.shown = IF call.op = "start" THEN "recording" ELSE "idle"
      BY <2>4 DEF WaitEnds, At, Reached
    <3>2. CASE call.op = "start"
      BY <2>1, <3>1, <3>2 DEF IInv, ButtonFollowed, StartFollowed, LastOp, SeenSince
    <3>3. CASE call.op # "start"
      <4>1. ~since.broke => cam.presses <= 1 /\ cam.presses # 1 /\ ~cam.rolling
        BY <2>1, <3>1, <3>3 DEF IInv, ButtonFollowed, StopFollowed, After
      <4>2. ~since.broke => cam.presses = 0
        BY <2>1, <4>1
      <4>3. QED
        BY <3>1, <3>3, <4>1, <4>2 DEF IInv, SeenSince
    <3>4. QED
      BY <3>2, <3>3
  <2>5. CASE Done
    BY <2>1, <2>5 DEF Done, At, IInv, StageFitsOp
  <2>6. CASE Fetch \/ NoFrame \/ MeasureEnds
    BY <2>1, <2>6 DEF Fetch, NoFrame, MeasureEnds, At, IInv, StageFitsOp
  <2>7. QED
    BY EndsHow, <2>2, <2>3, <2>4, <2>5, <2>6
<1>2. QED
  BY <1>1, Invariance, PTL DEF Spec, ReturnedIsTrue

\* Live view that was usable when the call looked is measured as usable, unless
\* the link was lost in between.
THEOREM UsableIsNoticed == Spec => LiveViewNoticed
<1>1. IInv /\ [Next]_vars =>
        [Ends /\ returned'.how = "unsupported" /\ call.op \in {"frame", "measure"} =>
           ~call.sawUsable \/ cam.faults > call.faults]_vars
  <2> SUFFICES ASSUME IInv, Next, Ends, returned'.how = "unsupported",
                      call.op \in {"frame", "measure"}, call.sawUsable
               PROVE  cam.faults > call.faults
    OBVIOUS
  <2>1. call # Nobody /\ cam.faults \in Nat /\ call.faults \in Nat
    BY Shapes, BoundsAssumption DEF IInv, Ends
  <2>2. MeasureLive
    BY EndsHow, <2>1 DEF Raise, WaitEnds, WaitExpires, Done, Fetch, NoFrame, MeasureEnds, Returns, End, Ends
  <2>3. ~(cam.linked /\ cam.usable) /\ call.at = "live"
    BY <2>2, MeasureLiveEnds
  <2>4. QED
    BY <2>1, <2>3 DEF IInv, LinkNoted
<1>2. QED
  BY <1>1, Invariance, PTL DEF Spec, LiveViewNoticed

\* A window misses, by its first, its last and its number of frames, what the
\* sequencer counted as skipped since it began.
THEOREM BothCountsAgree == Spec => MeasureAgrees
<1>1. IInv /\ [Next]_vars =>
        [Ends /\ call.op = "measure" /\ call.stats.frames > 0 =>
           Missing(call.stats) = known.skipped - call.stats.base]_vars
  <2> SUFFICES ASSUME IInv, Ends, call.stats.frames > 0
               PROVE  Missing(call.stats) = known.skipped - call.stats.base
    OBVIOUS
  <2> DEFINE st == call.stats
  <2>1. st \in Stats /\ WindowCounted(st, known.last, known.skipped)
    BY Shapes DEF IInv, Ends, WindowsCounted
  <2> HIDE DEF st
  <2>2. st.frames > 0 /\ known.skipped \in Nat
    BY Shapes, BoundsAssumption DEF IInv, st
  <2>3. Missing(st) = known.skipped - st.base
    BY <2>1, <2>2, BoundsAssumption DEF Stats, Frame, WindowCounted, Missing
  <2>4. QED
    BY <2>3 DEF st
<1>2. QED
  BY <1>1, Invariance, PTL DEF Spec, MeasureAgrees
=============================================================================
