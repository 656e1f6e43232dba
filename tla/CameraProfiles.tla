---------------------------- MODULE CameraProfiles ----------------------------
(***************************************************************************)
(* The synthetic cameras of the simulator and the scenarios they run:      *)
(* simulator/profiles.py and simulator/scenarios.py.  A profile says what  *)
(* a camera is, a scenario what happens to it.  Only what decides the      *)
(* simulator's behaviour is kept; all durations are in milliseconds, as in *)
(* the source.  Properties are named by their symbol instead of their      *)
(* vendor code.                                                            *)
(***************************************************************************)
EXTENDS Integers, FiniteSets

CONSTANT None           (* Python's None *)

\* None is not a number: no delay and no identifier is taken for it.
ASSUME NoneAssumption == None \notin Nat

-----------------------------------------------------------------------------
(* Vocabulary. *)

Modes == {"remote", "contents_transfer", "remote_transfer"}
Destinations == {"card", "host", "host_and_card"}
IncludesHost(destination) == destination \in {"host", "host_and_card"}

FocusValues == {"unlocked", "focused_s", "not_focused_s", "focused_c", "not_focused_c", "tracking_c"}

BaseProperties == {"S1", "ISO", "DriveMode", "FocusMode", "RecordingState",
                   "FocusIndication", "CameraCaution", "SystemCaution", "Destination"}

\* build_property: what can only be observed.  The focus mode is a switch on
\* the body.
ReadOnly == {"FocusIndication", "RecordingState", "CameraCaution", "SystemCaution", "FocusMode"}
Writable(code) == code \notin ReadOnly

-----------------------------------------------------------------------------
(* Shapes and their defaults. *)

Timings == [connect |-> 150, confirm |-> 175, skew |-> 15, fail |-> 731, tracking |-> 122,
            exposure |-> 430, content |-> 470, postview |-> 250, recStart |-> 200,
            recStop |-> 175, gap |-> 108, reconnect |-> 28000, straggler |-> 102]

ModeProfile == [liveView |-> FALSE, contentIndex |-> FALSE, thumbnail |-> FALSE,
                screennail |-> FALSE, postviewConfig |-> FALSE, postview |-> FALSE,
                postviewNeedsHost |-> TRUE, still |-> TRUE, video |-> TRUE, extra |-> {}]

CameraProfile == [still |-> TRUE, autofocus |-> TRUE, video |-> TRUE, base |-> BaseProperties,
                  destinations |-> {"card"}, destination |-> "card", timings |-> Timings,
                  frameEvery |-> 34]

\* property_codes_for
PropertyCodes(profile, mode) == profile.base \union profile.modes[mode].extra

\* _capabilities_for: what a session of this mode and destination can do.
Capabilities(profile, mode, destination) ==
    LET m == profile.modes[mode]
    IN  [still |-> profile.still /\ m.still,
         autofocus |-> profile.autofocus,
         video |-> profile.video /\ m.video,
         live_view |-> m.liveView,
         content_index |-> m.contentIndex,
         thumbnail |-> m.thumbnail,
         screennail |-> m.screennail,
         postview_configuration |-> m.postviewConfig,
         postview_delivery |-> m.postview /\ (m.postviewNeedsHost => IncludesHost(destination))]

-----------------------------------------------------------------------------
(* The shipped profiles. *)

With(default, changes) ==
    [f \in DOMAIN default \union DOMAIN changes |->
        IF f \in DOMAIN changes THEN changes[f] ELSE default[f]]

FX3A == With(CameraProfile,
    [modes |->
        [m \in {"remote", "remote_transfer"} |->
            IF m = "remote"
            THEN With(ModeProfile, [liveView |-> TRUE, postview |-> TRUE,
                                    extra |-> {"x0581", "x0582"}])
            ELSE With(ModeProfile, [contentIndex |-> TRUE, thumbnail |-> TRUE,
                                    screennail |-> TRUE, postviewConfig |-> TRUE,
                                    postview |-> TRUE])],
     destinations |-> {"card", "host_and_card"}])

MinimalStill == With(CameraProfile,
    [autofocus |-> FALSE, video |-> FALSE,
     modes |-> [m \in {"remote"} |-> With(ModeProfile, [liveView |-> TRUE, video |-> FALSE])],
     base |-> {"ISO", "DriveMode", "RecordingState"},
     timings |-> With(Timings, [confirm |-> 0, exposure |-> 300, content |-> 400]),
     frameEvery |-> 66])

InvertedModes == With(CameraProfile,
    [modes |->
        [m \in {"remote", "remote_transfer"} |->
            IF m = "remote"
            THEN With(ModeProfile, [contentIndex |-> TRUE, thumbnail |-> TRUE, screennail |-> TRUE,
                                    postviewConfig |-> TRUE, postview |-> TRUE,
                                    postviewNeedsHost |-> FALSE])
            ELSE With(ModeProfile, [liveView |-> TRUE, contentIndex |-> TRUE,
                                    screennail |-> TRUE])],
     destinations |-> Destinations,
     timings |-> With(Timings, [confirm |-> 90, exposure |-> 250, content |-> 300,
                                reconnect |-> 5000]),
     frameEvery |-> 20])

FutureUnknown == With(CameraProfile,
    [modes |-> [m \in {"remote"} |->
        With(ModeProfile, [liveView |-> TRUE, contentIndex |-> TRUE, thumbnail |-> TRUE,
                           screennail |-> TRUE, postviewConfig |-> TRUE, postview |-> TRUE,
                           postviewNeedsHost |-> FALSE,
                           extra |-> {"x7F01", "x7F02", "x7FFE"}])],
     destinations |-> {"card", "host_and_card"},
     timings |-> With(Timings, [confirm |-> 120, exposure |-> 200, content |-> 250])])

-----------------------------------------------------------------------------
(* Scenarios. *)

\* infoEmpty decides only what live_view_info answers, which changes nothing.
Nominal == [af |-> "focus", leads |-> "status", skew |-> None, sticky |-> FALSE,
            releaseClears |-> TRUE, noExposure |-> FALSE, contentLate |-> 0, idStep |-> 1,
            stalePreview |-> FALSE, infoEmpty |-> FALSE, fetchFails |-> FALSE,
            reconnectAfter |-> None,
            quietLoss |-> TRUE, connectedTwice |-> TRUE, busy |-> FALSE, stragglers |-> TRUE,
            unknownEvents |-> FALSE]

Scenario(changes) == With(Nominal, changes)

Scenarios ==
    {Nominal,
     Scenario([leads |-> "property"]),
     Scenario([skew |-> 100]),
     Scenario([af |-> "tracking"]),
     Scenario([sticky |-> TRUE]),
     Scenario([af |-> "no_lock"]),
     Scenario([af |-> "silent"]),
     Scenario([releaseClears |-> FALSE]),
     Scenario([noExposure |-> TRUE]),
     Scenario([contentLate |-> 3000]),
     Scenario([idStep |-> 2]),
     Scenario([stalePreview |-> TRUE]),
     Scenario([infoEmpty |-> TRUE]),
     Scenario([fetchFails |-> TRUE]),
     Scenario([reconnectAfter |-> 1000]),
     Scenario([busy |-> TRUE]),
     Scenario([unknownEvents |-> TRUE])}
=============================================================================
