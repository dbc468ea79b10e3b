------------------------------ MODULE Settings ------------------------------
(***************************************************************************)
(* Volume and microphone gain (main/audio_io.c, main/controls.c): set by   *)
(* the panel and by voice at once, saved by voice on the spot and for the  *)
(* panel by the session's worker, each with a dirty flag and no lock.      *)
(***************************************************************************)
EXTENDS Naturals

CONSTANTS
    Top,          \* AUDIO_VOLUME_MAX, and the highest gain
    Grid,         \* VOLUME_STEP
    MaxChanges,   \* bound: changes asked for
    MaxBadWrites  \* bound: flash writes that fail

ASSUME SettingsAssumption == Top \in Nat /\ Grid \in Nat \ {0}

Names == {"volume", "gain"}
Levels == 0 .. Top

VARIABLES
    level,     \* s_volume, s_mic_gain_want
    unsaved,   \* s_volume_dirty, s_mic_gain_dirty
    flashed,   \* NVS
    panel,     \* the LVGL task inside controls_*_step()
    pressed,   \* s_unsaved
    asked,     \* session_ctl's s_settings_save_wanted
    voice,     \* the WebSocket task inside audio_io_set_*()
    saver,     \* the worker inside audio_io_settings_persist()
    crossed,   \* history: settings two tasks were in at once
    changes, badWrites   \* bound the run

setvars == <<level, unsaved, flashed, panel, pressed, asked, voice, saver,
             crossed, changes, badWrites>>

NoSetting == [at |-> "idle", name |-> "none", v |-> 0]
In(at, name, v) == [at |-> at, name |-> name, v |-> v]

(* controls_volume_step() snaps to the grid; volume_clamp().               *)
Stepped(now, dir) ==
    IF dir = "up"
    THEN LET up == ((now \div Grid) + 1) * Grid IN IF up > Top THEN Top ELSE up
    ELSE LET marks == (now + Grid - 1) \div Grid
         IN IF marks = 0 THEN 0 ELSE (marks - 1) * Grid

-----------------------------------------------------------------------------
(***************************************************************************)
(* audio_io_set_volume_live() and _mic_gain_live(): the level, then the    *)
(* flag; controls.c's changed() follows on the panel.                      *)
(***************************************************************************)
PanelStep(name, dir) ==
    /\ panel.at = "idle" /\ changes < MaxChanges /\ changes' = changes + 1
    /\ LET v == Stepped(level[name], dir) IN
       /\ v # level[name]
       /\ level' = [level EXCEPT ![name] = v]
       /\ panel' = In("flag", name, v)
    /\ UNCHANGED <<unsaved, flashed, pressed, asked, voice, saver, badWrites>>

PanelFlags ==
    /\ panel.at = "flag" /\ panel' = In("changed", panel.name, panel.v)
    /\ unsaved' = [unsaved EXCEPT ![panel.name] = TRUE]
    /\ UNCHANGED <<level, flashed, pressed, asked, voice, saver, changes,
                   badWrites>>

PanelChanged ==
    /\ panel.at = "changed" /\ panel' = NoSetting
    /\ pressed' = TRUE
    /\ UNCHANGED <<level, unsaved, flashed, asked, voice, saver, changes,
                   badWrites>>

(* controls_commit(): after a quiet while, or when the panel closes.       *)
controls_commit ==
    /\ panel.at = "idle" /\ pressed
    /\ pressed' = FALSE /\ asked' = TRUE
    /\ UNCHANGED <<level, unsaved, flashed, panel, voice, saver, changes,
                   badWrites>>

-----------------------------------------------------------------------------
(* audio_io_set_volume() and _mic_gain(); the gain is saved even unchanged.*)
VoiceSets(name, v) ==
    /\ voice.at = "idle" /\ changes < MaxChanges /\ changes' = changes + 1
    /\ v # level[name] \/ name = "gain"
    /\ level' = [level EXCEPT ![name] = v]
    /\ voice' = In(IF v = level[name] THEN "clear" ELSE "flag", name, v)
    /\ UNCHANGED <<unsaved, flashed, panel, pressed, asked, saver, badWrites>>

VoiceFlags ==
    /\ voice.at \in {"flag", "clear"}
    /\ voice' = In(IF voice.at = "flag" THEN "clear" ELSE "write",
                   voice.name, voice.v)
    /\ unsaved' = [unsaved EXCEPT ![voice.name] = (voice.at = "flag")]
    /\ UNCHANGED <<level, flashed, panel, pressed, asked, saver, changes,
                   badWrites>>

(* volume_save() and mic_gain_save(); a write that fails is only logged.   *)
Writes(task) ==
    \/ /\ flashed' = [flashed EXCEPT ![task.name] = task.v]
       /\ UNCHANGED badWrites
    \/ /\ badWrites < MaxBadWrites /\ badWrites' = badWrites + 1
       /\ flashed' = [flashed EXCEPT ![task.name] = Top + 1]

VoiceSaves ==
    /\ voice.at = "write" /\ voice' = NoSetting
    /\ Writes(voice)
    /\ UNCHANGED <<level, unsaved, panel, pressed, asked, saver, changes>>

-----------------------------------------------------------------------------
(***************************************************************************)
(* audio_io_settings_persist(): both flags are looked at first; then the   *)
(* volume's flag is cleared before the volume is read, the gain's after.   *)
(***************************************************************************)
SaverLooks ==
    /\ saver.at = "idle" /\ asked /\ asked' = FALSE
    /\ saver' = [at |-> IF unsaved.volume THEN "clear" ELSE "gain",
                 name |-> "volume", v |-> 0, gain |-> unsaved.gain]
    /\ UNCHANGED <<level, unsaved, flashed, panel, pressed, voice, changes,
                   badWrites>>

SaverGoes(at) == saver' = [saver EXCEPT !.at = at]

(* Mutant: the volume is read before its flag is cleared, like the gain.   *)
PersistVolumeReadingFirst ==
    /\ \/ /\ saver.at = "clear"
          /\ saver' = [saver EXCEPT !.at = "read", !.v = level.volume]
          /\ UNCHANGED unsaved
       \/ /\ saver.at = "read" /\ SaverGoes("write")
          /\ unsaved' = [unsaved EXCEPT !.volume = FALSE]
    /\ UNCHANGED <<level, flashed, panel, pressed, asked, voice, changes,
                   badWrites>>

PersistVolume ==
    /\ \/ /\ saver.at = "clear" /\ SaverGoes("read")
          /\ unsaved' = [unsaved EXCEPT !.volume = FALSE]
       \/ /\ saver.at = "read"
          /\ saver' = [saver EXCEPT !.at = "write", !.v = level.volume]
          /\ UNCHANGED unsaved
    /\ UNCHANGED <<level, flashed, panel, pressed, asked, voice, changes,
                   badWrites>>

SavesVolume ==
    /\ saver.at = "write" /\ SaverGoes("gain")
    /\ Writes(saver)
    /\ UNCHANGED <<level, unsaved, panel, pressed, asked, voice, changes>>

ReadsGain ==
    /\ saver.at = "gain"
    /\ saver' = IF saver.gain
                THEN [saver EXCEPT !.at = "clearGain", !.name = "gain",
                                   !.v = level.gain]
                ELSE [NoSetting EXCEPT !.at = "idle"]
    /\ UNCHANGED <<level, unsaved, flashed, panel, pressed, asked, voice,
                   changes, badWrites>>

ClearsGain ==
    /\ saver.at = "clearGain" /\ SaverGoes("writeGain")
    /\ unsaved' = [unsaved EXCEPT !.gain = FALSE]
    /\ UNCHANGED <<level, flashed, panel, pressed, asked, voice, changes,
                   badWrites>>

SavesGain ==
    /\ saver.at = "writeGain" /\ saver' = NoSetting
    /\ Writes(saver)
    /\ UNCHANGED <<level, unsaved, panel, pressed, asked, voice, changes>>

-----------------------------------------------------------------------------
SetInit ==
    /\ level = [n \in Names |-> Top] /\ flashed = level
    /\ unsaved = [n \in Names |-> FALSE]
    /\ panel = NoSetting /\ pressed = FALSE /\ asked = FALSE
    /\ voice = NoSetting /\ saver = NoSetting
    /\ crossed = {} /\ changes = 0 /\ badWrites = 0

(* Where two tasks' calls on one setting overlap, the code keeps no order: *)
(* voice against anyone, and the panel against the gain's late clear.      *)
Crossing(n) ==
    \/ voice.name = n /\ (panel.name = n \/ saver.at # "idle")
    \/ n = "gain" /\ panel.name = n /\ saver.at = "clearGain"

SetStep ==
    \/ \E n \in Names, d \in {"up", "down"} : PanelStep(n, d)
    \/ PanelFlags \/ PanelChanged \/ controls_commit
    \/ \E n \in Names, v \in Levels : VoiceSets(n, v)
    \/ VoiceFlags \/ VoiceSaves
    \/ SaverLooks \/ PersistVolume \/ SavesVolume
    \/ ReadsGain \/ ClearsGain \/ SavesGain

SetNext == SetStep /\ crossed' = crossed \union {n \in Names : Crossing(n)'}

SetSpec == SetInit /\ [][SetNext]_setvars
-----------------------------------------------------------------------------
(* A level that has come to rest is in flash or on its way there: the last *)
(* of any presses, whatever the worker was saving meanwhile, unless two    *)
(* tasks' calls crossed or a write failed (audio_io.c:1853-1857).          *)
LevelIsSaved ==
    \A n \in Names :
        \/ n \in crossed \/ flashed[n] > Top
        \/ flashed[n] = level[n]
        \/ panel.name = n \/ voice.name = n
        \/ unsaved[n] /\ (pressed \/ asked \/ panel.at = "changed")
        \/ saver.at # "idle"
=============================================================================
