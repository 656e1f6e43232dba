------------------------------ MODULE Simulator ------------------------------
(***************************************************************************)
(* The simulator backend: simulator/backend.py over a virtual clock.       *)
(* What will happen to the camera stands in a queue of dated actions; each *)
(* call first lets the actions that are due land, then does its own work.  *)
(*                                                                         *)
(* Time is kept as the time left from now, so the clock itself is not part *)
(* of the state: `in' of a scheduled action, `frameIn' and `blocked' of    *)
(* the live view.  An action that is overdue has 0 left and keeps its      *)
(* place, which is what the heap's (time, counter) order gives it.  One    *)
(* session is modelled: sessions share nothing but the clock.              *)
(***************************************************************************)
EXTENDS CameraProfiles, Sequences, SequencesExt

CONSTANTS Setups,      \* the sessions a client may open: a Setup
          Timeouts,    \* what a client passes to poll_events
          Pauses,      \* how far the clock moves by itself between two calls
          MaxCalls,    \* commands issued to one session
          MaxFrames    \* live-view frames taken from one session

(* A setup fixes the camera, the mode and destination asked for, the       *)
(* scenario, the commands the client uses, and whether it is patient:      *)
(* whether it lets a capture and a recording change finish before it asks  *)
(* for the next.                                                           *)
Commands == {"half_press", "release", "s1_release", "record", "property", "switch",
             "destination", "postview", "reconnect", "sleep"}

ASSUME SimulatorAssumption ==
    /\ \A u \in Setups : /\ u.profile \in {FX3A, MinimalStill, InvertedModes, FutureUnknown}
                         /\ u.mode \in Modes
                         /\ u.destination \in Destinations \union {None}
                         /\ DOMAIN u.scenario = DOMAIN Nominal
                         /\ {u.scenario.skew, u.scenario.reconnectAfter} \subseteq Nat \union {None}
                         /\ u.scenario.contentLate \in Nat /\ u.scenario.idStep \in Nat \ {0}
                         /\ u.patient \in BOOLEAN /\ u.commands \subseteq Commands
    /\ Timeouts \subseteq Nat /\ Pauses \subseteq Nat \ {0}
    /\ MaxCalls \in Nat /\ MaxFrames \in Nat

VARIABLES setup,     \* the setup of this run
          session,   \* the backend's _Session, or None before open_session
          calls      \* commands issued so far

simVars == <<setup, session, calls>>

profile  == setup.profile
scenario == setup.scenario
timings  == profile.timings

-----------------------------------------------------------------------------
(* The session and its schedule. *)

InitialValue(code, destination) ==
    CASE code = "S1"              -> "unlocked"
      [] code = "FocusIndication" -> "unlocked"
      [] code = "FocusMode"       -> "af_s"
      [] code = "RecordingState"  -> "idle"
      [] code = "Destination"     -> destination
      [] OTHER                    -> "0"

NewSession(mode, destination) ==
    [link |-> "connecting", closed |-> FALSE, mode |-> mode, destination |-> destination,
     value |-> [code \in PropertyCodes(profile, mode) |-> InitialValue(code, destination)],
     recording |-> "idle", postviewOn |-> FALSE, pending |-> None, contents |-> <<>>,
     lastId |-> 131000, exposures |-> 0, served |-> None, frames |-> 0, frameIn |-> 0,
     blocked |-> 0, due |-> <<>>, ready |-> <<>>]

\* How many actions stay in front of one that is due in `in'.
Place(s, in) == Cardinality({i \in DOMAIN s.due : s.due[i].in <= in})

\* schedule: behind everything that is due no later.
Schedule(s, in, what, arg) ==
    [s EXCEPT !.due = InsertAt(@, Place(s, in) + 1, [in |-> in, what |-> what, arg |-> arg])]

Emit(s, events) == [s EXCEPT !.ready = @ \o events]

\* Mutant: the identifier is not used up.
StoredOnly(s, id) == [s EXCEPT !.contents = Append(@, id)]

Stored(s, id) == [s EXCEPT !.lastId = id, !.contents = Append(@, id)]

Stopped(s) == [s EXCEPT !.recording = "idle", !.value["RecordingState"] = "idle"]

\* What an action does when it lands, and the events it returns.
Land(s, item) ==
    CASE item.what = "connected" ->
            Emit([s EXCEPT !.link = "connected"], <<<<"connection", "connected">>>>)
      [] item.what = "lost" ->
            Emit([s EXCEPT !.link = "reconnecting"],
                 <<<<"connection", "reconnecting">>>>
                 \o IF scenario.quietLoss THEN <<>> ELSE <<<<"connection", "closed">>>>)
      [] item.what = "recovered" ->
            Emit([s EXCEPT !.link = "connected", !.frameIn = 0],
                 (IF scenario.connectedTwice THEN <<<<"connection", "connected">>>> ELSE <<>>)
                 \o <<<<"connection", "recovered">>>>)
      [] item.what = "focus_property" ->
            Emit([s EXCEPT !.value["FocusIndication"] = item.arg],
                 <<<<"property", "FocusIndication">>, <<"focus", item.arg>>>>)
      [] item.what = "focus_status" -> Emit(s, <<<<"focus", item.arg>>>>)
      [] item.what = "exposed" ->
            Emit([s EXCEPT !.exposures = @ + 1], <<<<"capture", "complete">>>>)
      [] item.what = "content" ->
            Emit(Stored(s, item.arg), <<<<"content", "added">>>>)
      [] item.what = "postview" -> [s EXCEPT !.pending = item.arg]
      [] item.what = "unknown" -> Emit(s, <<<<"unknown", "0xDEAD">>>>)
      [] item.what = "straggler" -> Emit(s, <<<<"property", item.arg>>>>)
      [] item.what = "recording" ->
            Emit([s EXCEPT !.recording = "recording", !.value["RecordingState"] = "recording"],
                 <<<<"recording", "recording">>>>)
      [] item.what = "idle" ->
            Emit(Stopped(s), <<<<"recording", "idle">>>>)

\* drain_due, a turn of its loop: what stands first lands if it is due.
LandFirst(s) ==
    IF s.due = <<>> \/ Head(s.due).in > 0 THEN s
    ELSE Land([s EXCEPT !.due = Tail(@)], Head(s.due))

\* drain_due: everything due has landed and its events are ready.
Landed(s) ==
    LET after[k \in 0..Len(s.due)] == IF k = 0 THEN s ELSE LandFirst(after[k - 1])
    IN  after[Len(s.due)]

Left(t, d) == IF t > d THEN t - d ELSE 0

Nearer(item, d) == [item EXCEPT !.in = Left(@, d)]

\* The clock moves by d.
Elapsed(s, d) ==
    [s EXCEPT !.due = [i \in DOMAIN s.due |-> Nearer(s.due[i], d)],
              !.frameIn = Left(@, d), !.blocked = Left(@, d)]

Waiting(s, what) == \E i \in DOMAIN s.due : s.due[i].what = what

-----------------------------------------------------------------------------
(* Guards shared by the calls. *)

Able == Capabilities(profile, session.mode, session.destination)

Open_ == session # None /\ ~session.closed

\* _live_session: the caller is let through.
Live(s) == s.link # "reconnecting" /\ ~scenario.busy
Usable == Open_ /\ Live(Landed(session))

\* The call is refused, after what was due has landed.
CallRefused ==
    /\ Open_ /\ ~Live(Landed(session))
    /\ session' = Landed(session)
    /\ UNCHANGED <<setup, calls>>

Counted(command) == /\ command \in setup.commands
                    /\ calls < MaxCalls /\ calls' = calls + 1
                    /\ UNCHANGED setup
Uncounted == UNCHANGED <<setup, calls>>

-----------------------------------------------------------------------------
(* Opening, closing, and the connection. *)

WithReconnect(s, delay) ==
    Schedule(Schedule(s, delay, "lost", None), delay + timings.reconnect, "recovered", None)

Open ==
    LET destination == IF setup.destination = None THEN profile.destination
                                                   ELSE setup.destination
        fresh == Emit(NewSession(setup.mode, destination), <<<<"connection", "connecting">>>>)
        planned == Schedule(fresh, timings.connect, "connected", None)
        all == IF scenario.reconnectAfter = None THEN planned
               ELSE WithReconnect(planned, timings.connect + scenario.reconnectAfter)
    IN  /\ session = None
        /\ setup.mode \in DOMAIN profile.modes
        /\ destination \in profile.destinations
        /\ session' = Landed(Elapsed(all, timings.connect))
        /\ Uncounted

Close ==
    /\ Open_
    /\ session' = Emit([session EXCEPT !.closed = TRUE, !.link = "closed"],
                       <<<<"connection", "closed">>>>)
    /\ Uncounted

\* connection_state, of a closed session too.
ConnectionState ==
    /\ session # None
    /\ session' = Landed(session)
    /\ Uncounted

SimulateReconnect(delay) ==
    /\ Open_ /\ Counted("reconnect")
    /\ session' = WithReconnect(session, delay)

\* poll_events: what is ready or due, or else the next thing due in time.
PollEvents(timeout) ==
    LET s == Landed(session)
        wait == IF s.due = <<>> \/ s.due[1].in > timeout THEN timeout ELSE s.due[1].in
    IN  /\ Open_
        /\ session' = [(IF s.ready # <<>> \/ timeout = 0 THEN s ELSE Landed(Elapsed(s, wait)))
                          EXCEPT !.ready = <<>>]
        /\ Uncounted

\* The clock is moved by the client or by another session's call.
Sleep(d) ==
    /\ session # None /\ Counted("sleep")
    /\ session' = Elapsed(session, d)

-----------------------------------------------------------------------------
(* Autofocus. *)

\* Both channels publish the value, the trailing one later.
ScheduleFocus(s, in, value) ==
    LET skew == IF scenario.skew = None THEN timings.skew ELSE scenario.skew
        first == IF scenario.leads = "property" THEN in ELSE in + skew
        second == IF scenario.leads = "property" THEN in + skew ELSE in
    IN  Schedule(Schedule(s, first, "focus_property", value), second, "focus_status", value)

BeginAutofocus(s) ==
    LET continuous == s.value["FocusMode"] = "af_c"
        verdict(single, cont) == IF continuous THEN cont ELSE single
    IN  IF ~profile.autofocus THEN s
        ELSE IF scenario.sticky
        THEN [s EXCEPT !.value["FocusIndication"] = verdict("focused_s", "focused_c")]
        ELSE CASE scenario.af = "silent"  -> s
               [] scenario.af = "no_lock" ->
                    ScheduleFocus(s, timings.fail, verdict("not_focused_s", "not_focused_c"))
               [] scenario.af = "tracking" \/ (scenario.af = "focus" /\ continuous) ->
                    ScheduleFocus(ScheduleFocus(s, timings.tracking, "tracking_c"),
                                  timings.confirm, "focused_c")
               [] OTHER -> ScheduleFocus(s, timings.confirm, "focused_s")

CancelAutofocus(s) == [s EXCEPT !.value["FocusIndication"] = "unlocked"]

\* set_property of something writable.
SetProperty(code, value) ==
    LET s == Landed(session)
        set == Emit([s EXCEPT !.value[code] = value], <<<<"property", code>>>>)
    IN  /\ Usable /\ Counted(IF code = "S1" THEN "half_press" ELSE "property")
        /\ code \in DOMAIN s.value /\ Writable(code)
        /\ session' = IF code # "S1" THEN set
                      ELSE IF value = "locked" THEN BeginAutofocus(set)
                      ELSE CancelAutofocus(set)

SetHalfPress(engaged) ==
    /\ profile.autofocus
    /\ SetProperty("S1", IF engaged THEN "locked" ELSE "unlocked")

\* simulate_physical_property_change: the operator turns the focus-mode
\* switch; the lens answers with a batch and a straggler.
PhysicalChange(value) ==
    LET s == Landed(session)
        codes == {"FocusMode", "FocusIndication"} \intersect DOMAIN s.value
        turned == IF "FocusMode" \in codes THEN [s EXCEPT !.value["FocusMode"] = value] ELSE s
        told == IF codes = {} THEN turned ELSE Emit(turned, <<<<"property", "batch">>>>)
    IN  /\ Usable /\ Counted("switch")
        /\ session' = IF scenario.stragglers /\ Cardinality(codes) > 1
                      THEN Schedule(told, timings.straggler, "straggler", "FocusIndication")
                      ELSE told

-----------------------------------------------------------------------------
(* Exposure. *)

\* The identifier is fixed when the exposure is scheduled.
NextId(s) == s.lastId + scenario.idStep

\* Mutant: the postview names the newest still there is.
LatestId(s) == s.lastId

\* The postview and the content record agree.
PostviewId(s) == NextId(s)

\* Mutant: the pause is counted from the release.
ShortPause(delay) == delay + timings.gap

\* How long the live view pauses after a release.
LiveViewPause(delay) == delay + timings.exposure + timings.gap

ScheduleExposure(s, delay) ==
    LET exposed == delay + timings.exposure
        taken == Schedule(s, exposed, "exposed", None)
        stored == Schedule(taken, exposed + timings.content + scenario.contentLate,
                           "content", NextId(s))
        viewed == IF Able.postview_delivery
                  THEN Schedule(stored, delay + timings.postview, "postview", PostviewId(s))
                  ELSE stored
        all == IF scenario.unknownEvents THEN Schedule(viewed, exposed + 5, "unknown", None)
                                         ELSE viewed
    IN  IF scenario.noExposure THEN s ELSE [all EXCEPT !.blocked = LiveViewPause(delay)]

\* UP of either release: the half-press stage may clear by itself.  Both
\* properties are written whether the body exposes them or not.
ReleaseUp(s) ==
    IF scenario.releaseClears
    THEN [s EXCEPT !.value = With(@, [c \in {"S1", "FocusIndication"} |-> "unlocked"])]
    ELSE s

\* A patient client asks for a still only when the one before is stored.
CaptureAllowed == setup.patient => ~Waiting(Landed(session), "content")

SendRelease(down) ==
    /\ Usable /\ Counted("release")
    /\ down => CaptureAllowed
    /\ session' = IF down THEN ScheduleExposure(Landed(session), 0) ELSE ReleaseUp(Landed(session))

SendS1AndRelease(down) ==
    /\ Usable /\ Counted("s1_release")
    /\ down => CaptureAllowed
    /\ session' = IF down THEN ScheduleExposure(BeginAutofocus(Landed(session)), timings.confirm)
                  ELSE ReleaseUp(Landed(session))

-----------------------------------------------------------------------------
(* Recording. *)

BeginRecording(s) ==
    IF s.recording \in {"recording", "starting"} THEN s
    ELSE Schedule(Emit([s EXCEPT !.recording = "starting"], <<<<"recording", "starting">>>>),
                  timings.recStart, "recording", None)

\* Mutant: the end of a start is trusted to end the stop as well.
EndRecordingOnce(s) ==
    IF s.recording = "starting" THEN [s EXCEPT !.recording = "stopping"]
    ELSE IF s.recording = "recording"
    THEN Schedule([s EXCEPT !.recording = "stopping"], timings.recStop, "idle", None)
    ELSE s

EndRecording(s) ==
    IF s.recording = "idle" THEN s
    ELSE Schedule(Emit([s EXCEPT !.recording = "stopping"], <<<<"recording", "stopping">>>>),
                  timings.recStop, "idle", None)

\* A patient client changes recording only when the last change is done.
ChangeAllowed ==
    setup.patient => Landed(session).recording \notin {"starting", "stopping"}

\* start_recording, or the raw command, which asks for no capability.
StartRecording(raw) ==
    /\ Usable /\ Counted("record") /\ ChangeAllowed
    /\ raw \/ Able.video
    /\ session' = BeginRecording(Landed(session))

StopRecording ==
    /\ Usable /\ Counted("record") /\ ChangeAllowed /\ Able.video
    /\ session' = EndRecording(Landed(session))

-----------------------------------------------------------------------------
(* Destination, live view, content and previews. *)

SetDestination(destination) ==
    LET s == Landed(session)
        moved == [s EXCEPT !.destination = destination,
                           !.value = With(@, [c \in {"Destination"} |-> destination])]
    IN  /\ Usable /\ Counted("destination")
        /\ destination \in profile.destinations
        /\ session' = Emit(moved, <<<<"property", "Destination">>>>)

ConfigurePostview(enabled) ==
    /\ Usable /\ Counted("postview") /\ Able.postview_configuration
    /\ session' = [Landed(session) EXCEPT !.postviewOn = enabled]

\* get_live_view_frame: the stream pauses around an exposure.
Frame ==
    LET s == Landed(session)
    IN  /\ Usable /\ Able.live_view /\ ~scenario.fetchFails
        /\ s.blocked = 0 /\ s.frameIn = 0 /\ s.frames < MaxFrames
        /\ session' = [s EXCEPT !.frames = @ + 1, !.frameIn = profile.frameEvery]
        /\ Uncounted

PullPostview ==
    /\ Usable /\ Able.postview_delivery
    /\ session' = [Landed(session) EXCEPT !.pending = None]
    /\ Uncounted

\* get_preview of a still in the index: whose bytes are served.
ServedFor(s, id) == IF scenario.stalePreview /\ s.served # None THEN s.served ELSE id

GetPreview ==
    /\ Usable /\ (Able.thumbnail \/ Able.screennail \/ Able.postview_delivery)
    /\ \E id \in ToSet(Landed(session).contents) : session' = [Landed(session) EXCEPT !.served = id]
    /\ Uncounted

\* list_content and latest_content.
NewerThan(contents, id) ==
    LET newer[k \in 0..Len(contents)] ==
            IF k = 0 THEN <<>>
            ELSE IF id = None \/ contents[k] > id THEN Append(newer[k - 1], contents[k])
            ELSE newer[k - 1]
    IN  newer[Len(contents)]
Latest(contents) == IF contents = <<>> THEN None ELSE contents[Len(contents)]

-----------------------------------------------------------------------------
SimInit ==
    /\ setup \in Setups
    /\ session = None
    /\ calls = 0

SimNext ==
    \/ Open \/ Close \/ ConnectionState \/ CallRefused
    \/ \E d \in Pauses : Sleep(d)
    \/ \E t \in Timeouts : PollEvents(t)
    \/ \E d \in {0} \union Pauses : SimulateReconnect(d)
    \/ \E b \in BOOLEAN : SetHalfPress(b) \/ ConfigurePostview(b)
                          \/ SendRelease(b) \/ SendS1AndRelease(b) \/ StartRecording(b)
    \/ SetProperty("ISO", "200")
    \/ \E v \in {"af_s", "af_c"} : PhysicalChange(v)
    \/ StopRecording
    \/ \E d \in Destinations : SetDestination(d)
    \/ Frame \/ PullPostview \/ GetPreview

SimSpec == SimInit /\ [][SimNext]_simVars

-----------------------------------------------------------------------------
(* Correctness. *)

Events == ({"connection"} \X {"connecting", "connected", "reconnecting", "recovered", "closed"})
          \union ({"property"} \X {"S1", "ISO", "Destination", "FocusIndication", "batch"})
          \union ({"focus"} \X FocusValues)
          \union ({"recording"} \X {"starting", "recording", "stopping", "idle"})
          \union {<<"capture", "complete">>, <<"content", "added">>, <<"unknown", "0xDEAD">>}

Actions == {"connected", "lost", "recovered", "focus_property", "focus_status", "exposed",
            "content", "postview", "unknown", "straggler", "recording", "idle"}

\* The schedule is in order, and every field of the session is of its type.
SimTypeOK ==
    /\ calls \in 0..MaxCalls
    /\ session # None =>
        /\ session.link \in {"connecting", "connected", "reconnecting", "closed"}
        /\ session.mode \in DOMAIN profile.modes
        /\ session.destination \in profile.destinations
        /\ session.recording \in {"idle", "starting", "recording", "stopping"}
        /\ {session.closed, session.postviewOn} \subseteq BOOLEAN
        /\ ToSet(session.ready) \subseteq Events
        /\ \A i \in DOMAIN session.due : /\ session.due[i].in \in Nat
                                        /\ session.due[i].what \in Actions
                                        /\ \A j \in 1..i : session.due[j].in <= session.due[i].in
        /\ {session.lastId, session.exposures, session.frames, session.frameIn, session.blocked}
              \subseteq Nat

\* A postview names a still that is in the index or on its way there, though
\* it arrives before the still does (backend.py:660).
PostviewNamesStill ==
    session # None /\ session.pending # None =>
        \/ session.pending \in ToSet(session.contents)
        \/ \E i \in DOMAIN session.due : /\ session.due[i].what = "content"
                                        /\ session.due[i].arg = session.pending

\* No passing state is left without the action that ends it, whatever calls
\* and losses overlap: a client that waits is never left in it.  The recording
\* state the backend answers and the property the camera shows then agree.
TransientEnds ==
    session # None =>
        /\ session.link = "connecting" => Waiting(session, "connected")
        /\ session.link = "reconnecting" => Waiting(session, "recovered")
        /\ session.recording = "starting" => Waiting(session, "recording")
        /\ session.recording = "stopping" => Waiting(session, "idle")
        /\ session.recording \in {"idle", "recording"} =>
              session.value["RecordingState"] = session.recording

\* Asking for what is newer than a still finds exactly the stills stored
\* after it (contract.py:77).
NewStillsFound ==
    session # None =>
        \A k \in 1..Len(session.contents) :
            NewerThan(session.contents, session.contents[k])
                = SubSeq(session.contents, k + 1, Len(session.contents))

\* To a client that lets each capture finish.
NewStillsFoundInTurn == setup.patient => NewStillsFound

\* To the same client, no live-view frame is delivered while an exposure is
\* still to come.
StreamPauses ==
    [][setup.patient /\ session # None /\ session'.frames # session.frames
          => ~Waiting(session', "exposed")]_simVars
=============================================================================
