--------------------------- MODULE SessionCapture ---------------------------
(***************************************************************************)
(* Autofocus, capture and durable content of one Session (session.py,      *)
(* capture.py), against the camera behind it.                              *)
(*                                                                         *)
(* One thread drives the session.  Each action of an operation ends where  *)
(* the code calls the backend again, so the camera may do anything in      *)
(* between: finish or abandon autofocus, let go of the half-press later    *)
(* than it was asked to, expose or not, store a still, report any of it    *)
(* late, in any order or never, and lose the link.                         *)
(*                                                                         *)
(* Tags say which attempt, shot or still an event is about.  The code      *)
(* never sees them (only a content event may name its still): they are     *)
(* what the properties are stated with.                                    *)
(***************************************************************************)
EXTENDS Naturals, Sequences, SequencesExt, FiniteSets

CONSTANTS
  Channels,     \* the channels that notify of focus: FocusSource
  Settled,      \* do operations start only when nothing is left over?
  MaxCaptures,  \* bound: Capture objects
  MaxAttempts,  \* bound: autofocus attempts
  MaxDrops,     \* bound: losses of the link
  MaxWork       \* bound: captures counted three times, attempts and losses twice

ASSUME ConstantsAssumption ==
  /\ Settled \in BOOLEAN
  /\ Channels \cap {"capture", "content", "indication"} = {}
  /\ {MaxCaptures, MaxAttempts, MaxDrops, MaxWork} \subseteq Nat

VARIABLES
  pc,        \* where the running operation is; "idle" between operations
  op,        \* the running or last operation: its kind, its Capture, verdict
  captures,  \* the Capture objects, in the order of the calls
  opq,       \* _op_events
  beq,       \* events the backend holds for the next poll_events
  half,      \* the half-press stage reads as engaged
  letting,   \* ... and is to be let go: by request, or by the body itself
  full,      \* the full-press stage is down
  lens,      \* the attempt whose focus a direct read reports, or NONE
  af,        \* how far the camera is with the current attempt
  attempt,   \* autofocus attempts so far; the number of the current one
  shots,     \* what became of each release, in order
  card,      \* the content index: card[id] is the shot that made still id
  wire,      \* reports on their way from the camera
  link,      \* the connection is usable (not reconnecting)
  drops      \* losses of the link so far

session == <<pc, op, captures>>
queues == <<opq, beq>>
button == <<half, letting>>
focus == <<lens, af>>
camera == <<button, full, focus, attempt, shots, card>>
transport == <<wire, link, drops>>
vars == <<session, queues, camera, transport>>

Kinds == {"autofocus",  \* Session.autofocus
          "gated",      \* Session.autofocus_and_capture
          "plain",      \* Session.capture
          "fire",       \* Session.capture(wait_for_exposure=False)
          "content"}    \* Capture.wait_for_content
HasGate == {"autofocus", "gated"}
States == {"requested", "focusing", "focused", "exposed", "content_available",
           "preview_available", "failed"}
NONE == 0

Focus(channel, tag, ok) == [kind |-> channel, tag |-> tag, focused |-> ok]
CaptureEvent(shot) == [kind |-> "capture", tag |-> shot, focused |-> FALSE]
\* What a direct read will find, once it has got there: FocusIndication.
Indication(tag, ok) == Focus("indication", tag, ok)
\* A still the notification does not name has tag NONE.
ContentEvent(id) == [kind |-> "content", tag |-> id, focused |-> FALSE]

Init ==
  /\ pc = "idle"
  /\ op = [kind |-> "content", capture |-> NONE, confirmed |-> FALSE]
  /\ captures = <<>>
  /\ opq = <<>> /\ beq = <<>>
  /\ half = FALSE /\ letting = FALSE /\ full = FALSE
  /\ lens = NONE /\ af = "off" /\ attempt = 0
  /\ shots = <<>> /\ card = <<>>
  /\ wire = {} /\ link = TRUE /\ drops = 0

-----------------------------------------------------------------------------
(* Events: _pump appends what the backend holds, _take_op_events empties.  *)

Pumped == opq \o beq
\* Mutant: events are read and not consumed.
PumpAndKeep == opq' = Pumped /\ beq' = <<>>
PumpAndTake == opq' = <<>> /\ beq' = <<>>

IsFocusEvent(e) == e.kind \in Channels
IsFocused(e) == IsFocusEvent(e) /\ e.focused
IsCapture(e) == e.kind = "capture"

\* _record_content: the still a capture takes from a run of events, if any.
\* A still newer than the capture's baseline is what the event names.
Names(c, e) == e.kind = "content" /\ e.tag # NONE /\ e.tag > c.baseline
Naming(c, events) == {i \in DOMAIN events : Names(c, events[i])}
Record(c, events) ==
  IF c.content = NONE /\ Naming(c, events) # {}
  THEN [c EXCEPT !.content = events[Min(Naming(c, events))].tag,
                 !.state = "content_available"]
  ELSE c

-----------------------------------------------------------------------------
(* Starting an operation                                                   *)

Underway == {"searching", "tracking"}
Work(cs, attempts, losses) == 3 * Len(cs) + 2 * (attempts + losses)

Quiet(k) ==
  /\ wire = {} /\ beq = <<>> /\ opq = <<>>
  /\ ~letting /\ af \notin Underway
  /\ k \in HasGate => ~half /\ lens = NONE
  /\ \A s \in DOMAIN shots : shots[s].stage \in {"refused", "stored"}

\* Mutant: the content index is not read before the release.
NewCaptureNoBaseline(k) ==
  [state |-> IF k = "gated" THEN "focusing" ELSE "requested",
   baseline |-> 0, content |-> NONE,
   attempt |-> IF k = "gated" THEN attempt + 1 ELSE NONE,
   focusBy |-> NONE, exposedBy |-> NONE]

NewCapture(k) ==
  [state |-> IF k = "gated" THEN "focusing" ELSE "requested",
   baseline |-> Len(card), content |-> NONE,
   attempt |-> IF k = "gated" THEN attempt + 1 ELSE NONE,
   focusBy |-> NONE, exposedBy |-> NONE]

\* autofocus, capture and autofocus_and_capture up to their first write: the
\* session is usable and supports it, and the content baseline is read.  (A
\* call refused here raises and changes nothing.)
Begin(k) ==
  /\ pc = "idle"
  /\ link
  /\ Settled => Quiet(k)
  /\ IF k = "autofocus"
     THEN /\ op' = [kind |-> k, capture |-> NONE, confirmed |-> FALSE]
          /\ UNCHANGED captures
     ELSE /\ Len(captures) < MaxCaptures
          /\ captures' = Append(captures, NewCapture(k))
          /\ op' = [kind |-> k, capture |-> Len(captures'), confirmed |-> FALSE]
  /\ IF k \in HasGate
     THEN attempt < MaxAttempts /\ pc' = "clear"
     ELSE pc' = "down"
  /\ Work(captures', IF k \in HasGate THEN attempt + 1 ELSE attempt, drops) <= MaxWork
  /\ UNCHANGED <<queues, camera, transport>>

Change(c) == captures' = [captures EXCEPT ![op.capture] = c]
Current == captures[op.capture]

-----------------------------------------------------------------------------
(* The focus gate                                                          *)

\* set_half_press(False) if the stage reads as engaged.
AskRelease == letting' = half /\ UNCHANGED half

\* _clear_stale_half_press: the request is not waited for.
ClearStale ==
  /\ pc = "clear" /\ link
  /\ AskRelease
  /\ pc' = "press"
  /\ UNCHANGED <<op, captures, queues, full, focus, attempt, shots, card, transport>>

\* set_half_press(True).  A camera that is in focus already may say so at once
\* and notify nobody.
Press ==
  /\ pc = "press" /\ link
  /\ half' = TRUE /\ letting' = FALSE
  /\ attempt' = attempt + 1
  /\ \/ af' = "searching" /\ UNCHANGED lens
     \/ af' = "found" /\ lens' = attempt'
  /\ pc' = "immediate"
  /\ UNCHANGED <<op, captures, queues, full, shots, card, transport>>

\* The gate accepts a focused state that attempt a produced.
Confirm(a) ==
  /\ op' = [op EXCEPT !.confirmed = TRUE]
  /\ IF op.kind = "autofocus"
     THEN pc' = "idle" /\ UNCHANGED captures
     ELSE /\ pc' = "down"
          /\ Change([Current EXCEPT !.state = "focused", !.focusBy = a])

\* The sticky-value guard.
ReadAtOnce ==
  /\ pc = "immediate" /\ link
  /\ IF lens # NONE
     THEN Confirm(lens)
     ELSE pc' = "wait" /\ UNCHANGED <<op, captures>>
  /\ UNCHANGED <<queues, camera, transport>>

\* One slice of the wait: both channels, first focused event wins.
GateEvents ==
  /\ pc = "wait"
  /\ PumpAndTake
  /\ LET focused == {i \in DOMAIN Pumped : IsFocused(Pumped[i])}
     IN  IF focused # {} THEN Confirm(Pumped[Min(focused)].tag) ELSE UNCHANGED session
  /\ UNCHANGED <<camera, transport>>

\* A spaced direct read that finds focus.
GateRead ==
  /\ pc = "wait" /\ link
  /\ lens # NONE
  /\ Confirm(lens)
  /\ UNCHANGED <<queues, camera, transport>>

\* Mutant: the gate opens at its deadline without a last look.
OpensAtDeadline ==
  /\ pc = "wait" /\ link
  /\ Confirm(attempt)
  /\ UNCHANGED <<queues, camera, transport>>

\* The deadline, and the last direct read.
GateExpires ==
  /\ pc = "wait" /\ link
  /\ IF lens # NONE
     THEN Confirm(lens)
     ELSE pc' = "refuse" /\ UNCHANGED <<op, captures>>
  /\ UNCHANGED <<queues, camera, transport>>

\* _release_half_press where focus was not confirmed, or after an exposure or
\* its timeout: asks only if the stage is engaged ...
LetGo ==
  /\ pc \in {"refuse", "tidy"} /\ link
  /\ AskRelease
  /\ pc' = IF pc = "refuse" THEN "refusing" ELSE "tidying"
  /\ UNCHANGED <<op, captures, queues, full, focus, attempt, shots, card, transport>>

\* ... and reads until it is clear or the time is up.  Which of them it was is
\* returned, and no caller looks at it.
LetGoEnds ==
  /\ pc \in {"refusing", "tidying"} /\ link
  /\ IF pc = "refusing" /\ op.kind = "gated"
     THEN Change([Current EXCEPT !.state = "failed"])
     ELSE UNCHANGED captures
  /\ pc' = "idle"
  /\ UNCHANGED <<op, queues, camera, transport>>

-----------------------------------------------------------------------------
(* The release and its exposure                                            *)

\* RELEASE DOWN is accepted: the camera will expose, or never will.
Down ==
  /\ pc = "down" /\ link
  /\ full' = TRUE
  /\ \E stage \in {"requested", "refused"} :
       shots' = Append(shots, [of |-> op.capture, stage |-> stage])
  /\ pc' = "dwell"
  /\ UNCHANGED <<op, captures, queues, button, focus, attempt, card, transport>>

\* RELEASE UP: some bodies let go of the half-press by themselves.
Up ==
  /\ pc = "dwell" /\ link
  /\ full' = FALSE
  /\ letting' \in {letting, half}
  /\ pc' = IF op.kind = "fire" THEN "idle" ELSE "await"
  /\ UNCHANGED <<op, captures, queues, half, focus, attempt, shots, card, transport>>

\* Mutant: the half-press is taken to be cleared by the release.
AssumeCleared == "idle"
AfterExposure == IF op.kind = "gated" THEN "tidy" ELSE "idle"

\* One turn of _await_exposure: content events count up to the first capture
\* event, which ends the wait; what the batch held after it is dropped.
AwaitEvents ==
  /\ pc = "await"
  /\ PumpAndTake
  /\ LET exposures == {i \in DOMAIN Pumped : IsCapture(Pumped[i])}
         first == Min(exposures)
         before == IF exposures = {} THEN Pumped ELSE SubSeq(Pumped, 1, first - 1)
         recorded == Record(Current, before)
     IN  IF exposures = {}
         THEN Change(recorded) /\ UNCHANGED pc
         ELSE /\ Change([recorded EXCEPT !.state = "exposed",
                                         !.exposedBy = Pumped[first].tag])
              /\ pc' = AfterExposure
  /\ UNCHANGED <<op, camera, transport>>

\* Mutant: the wait for an exposure gives up only while the link is up.
AwaitExpiresConnected ==
  /\ pc = "await" /\ link
  /\ Change([Current EXCEPT !.state = "failed"])
  /\ pc' = AfterExposure
  /\ UNCHANGED <<op, queues, camera, transport>>

\* The timeout.  A settled session waits for a camera that will still expose.
AwaitExpires ==
  /\ pc = "await"
  /\ Settled => \A s \in DOMAIN shots : shots[s].stage = "refused"
                  \/ shots[s].of # op.capture
  /\ Change([Current EXCEPT !.state = "failed"])
  /\ pc' = AfterExposure
  /\ UNCHANGED <<op, queues, camera, transport>>

-----------------------------------------------------------------------------
(* Durable content                                                         *)

\* Capture.wait_for_content on a capture that has none yet.
WaitForContent(n) ==
  /\ pc = "idle" /\ link
  /\ captures[n].content = NONE
  /\ op' = [kind |-> "content", capture |-> n, confirmed |-> FALSE]
  /\ pc' = "content"
  /\ UNCHANGED <<captures, queues, camera, transport>>

\* One turn of _await_content: buffered events first, then the index, where the
\* newest item past the baseline wins, then a pump.
ContentRound ==
  /\ pc = "content" /\ link
  /\ LET recorded == Record(Current, opq)
         newest == Len(card)
     IN  \/ /\ recorded.content # NONE
            /\ Change(recorded)
            /\ pc' = "idle" /\ opq' = <<>> /\ UNCHANGED beq
         \/ /\ recorded.content = NONE /\ newest > Current.baseline
            /\ Change([Current EXCEPT !.content = newest,
                                      !.state = "content_available"])
            /\ pc' = "idle" /\ opq' = <<>> /\ UNCHANGED beq
         \/ /\ recorded.content = NONE
            /\ opq' = beq /\ beq' = <<>>
            /\ UNCHANGED <<captures, pc>>
  /\ UNCHANGED <<op, camera, transport>>

ContentExpires ==
  /\ pc = "content"
  /\ pc' = "idle"
  /\ UNCHANGED <<op, captures, queues, camera, transport>>

\* Capture.preview of a still that is known.
Preview(n) ==
  /\ pc = "idle" /\ link
  /\ captures[n].content # NONE
  /\ captures[n].state = "content_available"
  /\ captures' = [captures EXCEPT ![n].state = "preview_available"]
  /\ UNCHANGED <<pc, op, queues, camera, transport>>

\* Session.state, drain_events, events, wait_for_event: they pump for the user,
\* and what they pump also stays in _op_events.
UserPump ==
  /\ pc = "idle"
  /\ opq' = Pumped /\ beq' = <<>>
  /\ UNCHANGED <<session, camera, transport>>

\* A backend call finds the link down and raises: the operation ends where it
\* is.  (Pumping for events does not raise.)
Raise ==
  /\ pc \notin {"idle", "await"}
  /\ ~link
  /\ pc' = "idle"
  /\ op' = [op EXCEPT !.kind = "content"]
  /\ UNCHANGED <<captures, queues, camera, transport>>

-----------------------------------------------------------------------------
(* The camera and the link                                                 *)

\* The camera publishes how far its attempt is.  Each channel may carry it or
\* not; each report, and the indication, gets there in its own time, before or
\* after the others, and also when the half-press has been let go meanwhile.
Publishes(ok) ==
  \E channels \in SUBSET Channels :
    wire' = wire \cup {Focus(c, attempt, ok) : c \in channels}
                 \cup {Indication(attempt, ok)}

AfTracks ==
  /\ af = "searching"
  /\ af' = "tracking"
  /\ Publishes(FALSE)
  /\ UNCHANGED <<session, queues, button, full, lens, attempt, shots, card, link, drops>>

AfEnds ==
  /\ af \in Underway
  /\ af' \in {"found", "failed"}
  /\ Publishes(af' = "found")
  /\ UNCHANGED <<session, queues, button, full, lens, attempt, shots, card, link, drops>>

\* The indication changes.
Indicates(e) ==
  /\ e.kind = "indication"
  /\ lens' = IF e.focused THEN e.tag ELSE NONE
  /\ wire' = wire \ {e}
  /\ UNCHANGED <<session, queues, button, full, af, attempt, shots, card, link, drops>>

\* The stage is let go: nothing is in focus, and the attempt is dropped, though
\* a camera may still go on to publish how it ends.
Clears ==
  /\ letting
  /\ half' = FALSE /\ letting' = FALSE /\ lens' = NONE
  /\ af' \in {af, "off"}
  /\ UNCHANGED <<session, queues, full, attempt, shots, card, transport>>

Expose(s) ==
  /\ shots[s].stage = "requested"
  /\ shots' = [shots EXCEPT ![s].stage = "exposed"]
  /\ wire' = wire \cup {CaptureEvent(s)}
  /\ UNCHANGED <<session, queues, button, full, focus, attempt, card, link, drops>>

\* Stills are written in the order they were taken; the notification may or
\* may not name the new one.
Store(s) ==
  /\ shots[s].stage = "exposed"
  /\ \A r \in 1..(s - 1) : shots[r].stage # "exposed"
  /\ shots' = [shots EXCEPT ![s].stage = "stored"]
  /\ card' = Append(card, s)
  /\ \E id \in {NONE, Len(card')} : wire' = wire \cup {ContentEvent(id)}
  /\ UNCHANGED <<session, queues, button, full, focus, attempt, link, drops>>

Deliver(e) ==
  /\ link /\ e.kind # "indication"
  /\ wire' = wire \ {e}
  /\ beq' = Append(beq, e)
  /\ UNCHANGED <<session, opq, camera, link, drops>>

\* The link goes into recovery; the notifications under way may be lost.
LinkDrops ==
  /\ link /\ drops < MaxDrops /\ Work(captures, attempt, drops + 1) <= MaxWork
  /\ link' = FALSE
  /\ drops' = drops + 1
  /\ wire' \in {wire, {e \in wire : e.kind = "indication"}}
  /\ UNCHANGED <<session, queues, camera>>

LinkRecovers ==
  /\ ~link
  /\ link' = TRUE
  /\ UNCHANGED <<session, queues, camera, wire, drops>>

-----------------------------------------------------------------------------
Proceed ==
  \/ ClearStale \/ Press \/ ReadAtOnce \/ GateRead \/ GateExpires
  \/ LetGo \/ LetGoEnds
  \/ Down \/ Up \/ AwaitExpires \/ ContentExpires \/ Raise

Next ==
  \/ \E k \in Kinds \ {"content"} : Begin(k)
  \/ \E n \in DOMAIN captures : WaitForContent(n) \/ Preview(n)
  \/ Proceed
  \/ GateEvents \/ AwaitEvents \/ ContentRound \/ UserPump
  \/ AfTracks \/ AfEnds \/ Clears
  \/ \E s \in DOMAIN shots : Expose(s) \/ Store(s)
  \/ \E e \in wire : Indicates(e) \/ Deliver(e)
  \/ LinkDrops \/ LinkRecovers

Spec == Init /\ [][Next]_vars

\* The calling thread runs and its deadlines pass.  The camera owes nothing.
FairSpec == Spec /\ WF_vars(Proceed)

-----------------------------------------------------------------------------
(* Properties                                                              *)

CaptureRecord ==
  [state : States, baseline : 0..MaxCaptures, content : 0..MaxCaptures,
   attempt : 0..MaxAttempts, focusBy : 0..MaxAttempts, exposedBy : 0..MaxCaptures]
ShotRecord ==
  [of : 1..MaxCaptures, stage : {"requested", "refused", "exposed", "stored"}]
OpRecord == [kind : Kinds, capture : 0..MaxCaptures, confirmed : BOOLEAN]

\* Every variable keeps its type and every counter its bound.
TypeOK ==
  /\ pc \in {"idle", "clear", "press", "immediate", "wait", "refuse",
             "refusing", "down", "dwell", "await", "tidy", "tidying", "content"}
  /\ op \in OpRecord
  /\ Len(captures) <= MaxCaptures /\ captures \in Seq(CaptureRecord)
  /\ {half, letting, full, link} \subseteq BOOLEAN
  /\ lens \in 0..MaxAttempts
  /\ af \in Underway \cup {"off", "found", "failed"}
  /\ attempt \in 0..MaxAttempts
  /\ shots \in Seq(ShotRecord)
  /\ card \in Seq(DOMAIN shots)
  /\ drops \in 0..MaxDrops

\* One exposure confirms at most one capture, and it really took place: the
\* event that ends a wait in _await_exposure is consumed by it, whatever the
\* user's own pumping, timeouts, late events and lost links do around it.
EventConfirmsOnce ==
  \A m, n \in DOMAIN captures :
    captures[m].exposedBy # NONE =>
      /\ shots[captures[m].exposedBy].stage \in {"exposed", "stored"}
      /\ m # n => captures[m].exposedBy # captures[n].exposedBy

\* Who leaves the half-press engaged has asked for its release: an autofocus that
\* was not confirmed, and a gated capture whatever came of it, return with the
\* stage clear, or to be cleared by a camera that did not do it in time; and
\* what a call that the link cut short left engaged is asked back before the
\* next gate presses (_release_half_press, _clear_stale_half_press).
HalfPressReleased ==
  /\ pc = "idle" /\ (op.kind = "gated" \/ (op.kind = "autofocus" /\ ~op.confirmed))
       => (half => letting)
  /\ pc = "press" => (half => letting)

\* A gated capture requests its exposure only when the camera has found focus in
\* this very attempt and holds it, whichever source leads, whichever stay silent
\* or still say otherwise (autofocus_and_capture).  What a report of an earlier
\* attempt can spoil, it spoils only in a session that is not settled.
ReleaseInFocus ==
  pc = "down" /\ op.kind = "gated" =>
    \/ af = "found" /\ half
    \/ ~Settled /\ Current.focusBy # attempt

\* The still a capture resolves to was taken for it or for a later call, never
\* for an earlier one (_record_content, _await_content, _content_baseline).
ContentNotEarlier ==
  \A n \in DOMAIN captures :
    captures[n].content # NONE => shots[card[captures[n].content]].of >= n

\* Every call returns, though the camera may never expose, focus, store or
\* report anything, and the link may go (the deadlines of _focus_gate,
\* _await_exposure and _await_content).
CallsReturn == pc # "idle" ~> pc = "idle"

-----------------------------------------------------------------------------
(* What the repository says and the code does not keep                     *)

\* "A capture() that returns True while no photo was taken is the specific
\* failure this design exists to prevent" (docs/architecture.md): the camera did
\* not ignore the release of a capture that reports an exposure.
ExposedWasTaken ==
  \A n \in DOMAIN captures, s \in DOMAIN shots :
    captures[n].exposedBy # NONE /\ shots[s].of = n => shots[s].stage # "refused"

\* "The release is gated: if autofocus does not reach an accepted state, no
\* exposure is requested at all" (session.py): the focus a gated capture was
\* released on is that of its own attempt, not of one before it.
FocusOwn ==
  \A n \in DOMAIN captures :
    captures[n].focusBy # NONE => captures[n].focusBy = captures[n].attempt

\* "Block until durable content for this capture appears" (capture.py): the
\* still that wait_for_content returns was taken for that capture.
ContentOwn ==
  \A n \in DOMAIN captures :
    captures[n].content # NONE => shots[card[captures[n].content]].of = n

Rank == [requested |-> 0, focusing |-> 1, focused |-> 2, exposed |-> 3,
         content_available |-> 4, preview_available |-> 5, failed |-> 6]

\* "requested -> focusing -> focused -> exposed -> content_available ->
\* preview_available" (docs/architecture.md): progress is never taken back.
StateAdvances ==
  [][\A n \in DOMAIN captures :
       captures[n].state # "failed" =>
         Rank[captures'[n].state] >= Rank[captures[n].state]]_vars

\* "... and the half-press stage is released" (autofocus_and_capture): when the
\* call returns, it is.
HalfPressCleared == pc = "idle" /\ op.kind = "gated" => ~half

\* CaptureState.is_terminal (enums.py): a capture that failed stays failed.
FailedIsFinal ==
  [][\A n \in DOMAIN captures :
       captures[n].state = "failed" => captures'[n].state = "failed"]_vars

\* "A DOWN must always be followed by an UP" (raw.py): between calls the
\* full-press stage is up.
DownThenUp == pc = "idle" => ~full

=============================================================================
