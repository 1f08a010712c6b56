---------------------------- MODULE VoiceRecorder ----------------------------
(***************************************************************************)
(* The voice tab of the input form (components/inputs/audio-recorder.tsx,  *)
(* hooks/use-audio-recorder.ts): it mounts and unmounts with its tab, and  *)
(* the microphone answers, records and stops on its own time, for the      *)
(* recorder that asked, mounted or not.                                    *)
(***************************************************************************)
EXTENDS Naturals, FiniteSets, Sequences

CONSTANTS Mounts, Takes \* bounds: times the tab is opened, recordings

ASSUME VoiceRecorderAssumption == Mounts \in Nat /\ Takes \in Nat

VARIABLES
    panel, \* the recorder that is mounted (0: none), and how many there were
    ui,    \* the status the mounted one shows, and whether it has a file
    takes, \* the recordings: whose, and "requesting", "recording", "stopping", "converting", "over" or
           \* "thrown"
    mics,  \* the recordings whose microphone is on
    added  \* the recordings that were added to the form

voiceVars == <<panel, ui, takes, mics, added>>

Show(status, file) == [status |-> status, file |-> file]
VoiceInit ==
    /\ panel = [now |-> 0, seen |-> 0] /\ ui = Show("idle", 0) /\ takes = <<>> /\ mics = {} /\ added = {}

\* setState of a recorder that is gone does nothing.
Shows(t, status, file) == ui' = IF takes[t].owner = panel.now THEN Show(status, file) ELSE ui
Moves(t, step) == takes' = [takes EXCEPT ![t].step = step]
Starts(t) == takes[t].step = "requesting"

\* The tab is opened: a recorder of its own.
Mounted ==
    /\ panel.now = 0 /\ panel.seen < Mounts
    /\ panel' = [now |-> panel.seen + 1, seen |-> panel.seen + 1] /\ ui' = Show("idle", 0)
    /\ UNCHANGED <<takes, mics, added>>

\* stop(): a recording is stopped; a request for the microphone is not.
Stopped == [t \in DOMAIN takes |->
    IF takes[t].owner = panel.now /\ takes[t].step = "recording" THEN [takes[t] EXCEPT !.step = "stopping"]
    ELSE takes[t]]

\* The tab, or the form, goes: the recorder's cleanup stops it.
Unmounted ==
    /\ panel.now # 0 /\ takes' = Stopped /\ panel' = [panel EXCEPT !.now = 0]
    /\ UNCHANGED <<ui, mics, added>>

\* "Tap to record".
Start ==
    /\ panel.now # 0 /\ ui.status \in {"idle", "error"} /\ Len(takes) < Takes
    /\ takes' = Append(takes, [owner |-> panel.now, step |-> "requesting"])
    /\ ui' = Show("requesting", 0) /\ UNCHANGED <<panel, mics, added>>

\* The user allows the microphone: it is on and records, whoever is still there.
Granted(t) ==
    /\ Starts(t) /\ Moves(t, "recording") /\ mics' = mics \cup {t} /\ Shows(t, "recording", 0)
    /\ UNCHANGED <<panel, added>>

\* It is on, and the MediaRecorder cannot be made or started: nobody catches that, so the button stays
\* disabled, and only a stream that has ended is off.
Throws(t) ==
    /\ Starts(t) /\ Moves(t, "thrown") /\ mics' \in {mics, mics \cup {t}} /\ UNCHANGED <<panel, ui, added>>

Denied(t) ==
    /\ Starts(t) /\ Moves(t, "over") /\ Shows(t, "error", 0) /\ UNCHANGED <<panel, mics, added>>

\* "Tap again to stop".
Stop ==
    /\ panel.now # 0 /\ ui.status = "recording" /\ takes' = Stopped /\ UNCHANGED <<panel, ui, mics, added>>

\* Mutant of LimitStops: the interval is cleared by the unmount.
LimitStopsMounted(t) == takes[t].owner = panel.now

\* The interval of a recording stops it at maxMs; nobody clears the one that starts after the unmount.
LimitStops(t) == TRUE

TimeIsUp(t) ==
    /\ takes[t].step = "recording" /\ LimitStops(t) /\ Moves(t, "stopping")
    /\ UNCHANGED <<panel, ui, mics, added>>

\* onstop: the tracks stop, then the recording is converted.
OnStop(t) ==
    /\ takes[t].step = "stopping" /\ Moves(t, "converting") /\ mics' = mics \ {t}
    /\ Shows(t, "processing", 0) /\ UNCHANGED <<panel, added>>

Converted(t) ==
    /\ takes[t].step = "converting" /\ Moves(t, "over")
    /\ Shows(t, "done", t) \/ Shows(t, "error", 0)
    /\ UNCHANGED <<panel, mics, added>>

\* "Use recording" adds the file to the form; "Record again" does not.
Use ==
    /\ panel.now # 0 /\ ui.status = "done" /\ added' \in {added, added \cup {ui.file}}
    /\ ui' = Show("idle", 0) /\ UNCHANGED <<panel, takes, mics>>

VoiceEvent(t) == Granted(t) \/ Throws(t) \/ Denied(t) \/ TimeIsUp(t) \/ OnStop(t) \/ Converted(t)
VoiceNext == Mounted \/ Unmounted \/ Start \/ Stop \/ Use \/ \E t \in DOMAIN takes : VoiceEvent(t)

\* Timers fire and the recorder's events arrive; the user may never answer the permission prompt.
VoiceFairness ==
    WF_voiceVars(\E t \in DOMAIN takes : TimeIsUp(t) \/ OnStop(t) \/ Converted(t))

-----------------------------------------------------------------------------
(* What is claimed. *)

\* The microphone goes off again, also when the form went away before the permission was given and
\* nothing on the page could stop it; unless there was no recorder for it at all.
MicGoesOff == \A t \in 1..Takes : t \in mics ~> (t \notin mics \/ takes[t].step = "thrown")

\* The microphone is on only while its recorder is there: violated, the cleanup of use-audio-recorder
\* finds no recorder to stop while the permission is asked for.
MicOnlyWhileShown == \A t \in mics : takes[t].step = "recording" => takes[t].owner = panel.now
==============================================================================
