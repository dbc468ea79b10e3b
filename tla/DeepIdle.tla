------------------------------ MODULE DeepIdle ------------------------------
(***************************************************************************)
(* main/ui.c's sleep and deep idle, with the branch of main.c's loop that  *)
(* asks for them.  The panel's task (LVGL) applies a sleep that was asked  *)
(* for, darkens the panel, and at last pauses itself; from then on only a  *)
(* small task, the waker, can bring it back, poked by a touch's interrupt  *)
(* or by the loop.  The tasks share volatile words on two cores; s_touch-  *)
(* _mux alone makes a few of their steps one.                              *)
(***************************************************************************)
EXTENDS Naturals, Sequences

CONSTANTS
    MaxTouches,   \* bounds the fingers of a behaviour
    MaxBatteries  \* bounds how often the charge turns critical, or recovers

ASSUME DeepIdleAssumption == MaxTouches \in Nat /\ MaxBatteries \in Nat

VARIABLES
    s_sleep_want, s_sleep_dim, s_asleep, s_dimmed, s_display_off,
    s_wake_pending, s_deep_idle, s_touch_armed,
    touchPin,   \* the touch line's interrupt: "edge", "level" or "off"
    slpin,      \* the panel's controller is in its sleep mode
    linkIdle,   \* the last audio_io_deep_idle()
    paused,     \* esp_lv_adapter_pause() without a resume since
    poked,      \* the waker's notification
    lvgl,       \* where the panel's task is
    waker,      \* where deep_idle_waker() is
    loopAsks,   \* the loop's calls of ui_set_sleep() still to come, in order
    asking,     \* where it is in the first of them
    lately,     \* prev_asleep and prev_critical
    stoppedFor, \* stopped_since_ms: "unset", "fresh" or "due"
    rested,     \* DEEP_IDLE_REENTER_MS since the last exit
    press,      \* a press waits in the touch driver's queue
    use,        \* "none", "session" or "ringing" (Echo and the stopwatch too)
    critical,   \* bat_critical
    held,       \* the display test runs or the touch panel is open
    touches, batteries \* bound the behaviour

panelvars == <<s_sleep_want, s_sleep_dim, s_asleep, s_dimmed, s_display_off>>
linevars  == <<s_touch_armed, touchPin>>
idlevars  == <<s_wake_pending, s_deep_idle, slpin, linkIdle, paused>>
loopvars  == <<loopAsks, asking, lately, stoppedFor>>
roomvars  == <<press, use, critical, held, touches, batteries>>
deepvars  == <<panelvars, linevars, idlevars, poked, lvgl, waker, loopvars,
               rested, roomvars>>

Ask(sleep, dim) == [sleep |-> sleep, dim |-> dim]

DeepInit ==
    /\ s_sleep_want = FALSE /\ s_sleep_dim = FALSE
    /\ s_asleep = FALSE /\ s_dimmed = FALSE /\ s_display_off = FALSE
    /\ s_wake_pending = FALSE /\ s_deep_idle = FALSE
    /\ s_touch_armed = FALSE /\ touchPin = "edge"
    /\ slpin = FALSE /\ linkIdle = FALSE /\ paused = FALSE /\ poked = FALSE
    /\ lvgl = "idle" /\ waker = "wait" /\ loopAsks = << >> /\ asking = "next"
    /\ lately = [asleep |-> FALSE, critical |-> FALSE]
    /\ stoppedFor = "unset" /\ rested = TRUE
    /\ press = FALSE /\ use = "none" /\ critical = FALSE /\ held = FALSE
    /\ touches = 0 /\ batteries = 0

-----------------------------------------------------------------------------
(***************************************************************************)
(* The panel's task.                                                       *)
(***************************************************************************)
LvglRuns == lvgl = "idle" /\ ~paused

(* apply_sleep(): refused while somebody uses the panel, and otherwise the *)
(* panel follows; waking turns it back on.                                 *)
Applied(want) ==
    IF want /\ ~s_asleep /\ held
    THEN [asleep |-> FALSE, dimmed |-> s_dimmed, off |-> s_display_off]
    ELSE [asleep |-> want, dimmed |-> want /\ s_sleep_dim,
          off    |-> want /\ s_display_off]

apply_sleep(p) == s_asleep' = p.asleep /\ s_dimmed' = p.dimmed

(* sleep_deepens(): minutes asleep, and not dimmed, the panel goes dark.   *)
sleep_deepens(p) == {p.off, p.off \/ (s_asleep /\ p.asleep /\ ~p.dimmed)}

(* frame_timer_cb(), up to the dark panel's early return.                  *)
frame_timer_cb ==
    LET p == Applied(s_sleep_want)
    IN  /\ LvglRuns
        /\ apply_sleep(p)
        /\ s_wake_pending' = (s_wake_pending /\ p.asleep)
        /\ s_display_off' \in sleep_deepens(p)
        /\ lvgl' = IF s_display_off' THEN "enter" ELSE "idle"
        /\ UNCHANGED <<s_sleep_want, s_sleep_dim, linevars, s_deep_idle,
                       slpin, linkIdle, paused, poked, waker, loopvars,
                       rested, roomvars>>

(* gesture_event_cb(): any press withdraws a sleep and wakes the panel.    *)
gesture_event_cb ==
    /\ LvglRuns /\ press
    /\ press' = FALSE /\ s_sleep_want' = FALSE
    /\ apply_sleep(Applied(FALSE))
    /\ s_display_off' = Applied(FALSE).off
    /\ UNCHANGED <<s_sleep_dim, linevars, idlevars, poked, lvgl, waker,
                   loopvars, rested, use, critical, held, touches,
                   batteries>>

(* deep_idle_enter()'s conditions, and its first two calls.                *)
MayEnter ==
    /\ ~s_deep_idle /\ s_display_off /\ s_sleep_want /\ ~s_wake_pending
    /\ rested

deep_idle_enter ==
    /\ lvgl = "enter"
    /\ IF MayEnter
       THEN slpin' = TRUE /\ linkIdle' = TRUE /\ lvgl' = "arm"
       ELSE UNCHANGED <<slpin, linkIdle>> /\ lvgl' = "idle"
    /\ UNCHANGED <<panelvars, linevars, s_wake_pending, s_deep_idle, paused,
                   poked, waker, loopvars, rested, roomvars>>

(* The touch line becomes a wake source, under s_touch_mux.                *)
ArmTouch ==
    /\ lvgl = "arm"
    /\ touchPin' = IF touchPin = "off" THEN "off" ELSE "level"
    /\ s_touch_armed' = TRUE /\ lvgl' = "pause"
    /\ UNCHANGED <<panelvars, idlevars, poked, waker, loopvars, rested,
                   roomvars>>

(* Mutant: deep idle is announced before the pause is asked for.           *)
PauseAfterFlag ==
    /\ \/ /\ lvgl = "pause" /\ lvgl' = "flag"
          /\ s_deep_idle' = TRUE /\ UNCHANGED paused
       \/ /\ lvgl = "flag" /\ lvgl' = "look"
          /\ paused' = TRUE /\ UNCHANGED s_deep_idle
    /\ UNCHANGED <<panelvars, linevars, s_wake_pending, slpin, linkIdle,
                   poked, waker, loopvars, rested, roomvars>>

(* esp_lv_adapter_pause(), and only then s_deep_idle.                      *)
PauseThenFlag ==
    /\ \/ /\ lvgl = "pause" /\ lvgl' = "flag"
          /\ paused' = TRUE /\ UNCHANGED s_deep_idle
       \/ /\ lvgl = "flag" /\ lvgl' = "look"
          /\ s_deep_idle' = TRUE /\ UNCHANGED paused
    /\ UNCHANGED <<panelvars, linevars, s_wake_pending, slpin, linkIdle,
                   poked, waker, loopvars, rested, roomvars>>

(* A wake asked for on the way in poked no one: it is caught here.         *)
LastLook ==
    /\ lvgl = "look" /\ lvgl' = "idle"
    /\ poked' = (poked \/ ~s_sleep_want)
    /\ UNCHANGED <<panelvars, linevars, idlevars, waker, loopvars, rested,
                   roomvars>>

-----------------------------------------------------------------------------
(***************************************************************************)
(* The touch line's interrupt, and the waker.                              *)
(***************************************************************************)
(* A finger on the glass, with a point to read or without.  touch_irq_-    *)
(* hook() switches an armed line off and pokes the waker.                  *)
touch_irq_hook ==
    /\ touchPin /= "off" /\ touches < MaxTouches
    /\ touches' = touches + 1
    /\ press' \in {press, TRUE}
    /\ IF s_touch_armed
       THEN s_touch_armed' = FALSE /\ touchPin' = "off" /\ poked' = TRUE
       ELSE UNCHANGED <<s_touch_armed, touchPin, poked>>
    /\ UNCHANGED <<panelvars, idlevars, lvgl, waker, loopvars, rested, use,
                   critical, held, batteries>>

(* deep_idle_waker() ignores a poke that finds no deep idle.               *)
WakerTakes ==
    /\ waker = "wait" /\ poked
    /\ poked' = FALSE
    /\ waker' = IF s_deep_idle THEN "disarm" ELSE "wait"
    /\ UNCHANGED <<panelvars, linevars, idlevars, lvgl, loopvars, rested,
                   roomvars>>

(* Mutant: the line is restored and left armed.                            *)
DisarmLineByHalf ==
    /\ waker = "disarm" /\ waker' = "pend"
    /\ touchPin' = "edge" /\ UNCHANGED s_touch_armed
    /\ UNCHANGED <<panelvars, idlevars, poked, lvgl, loopvars, rested,
                   roomvars>>

(* Disarmed and back on the falling edge, in one step against the hook.    *)
DisarmLine ==
    /\ waker = "disarm" /\ waker' = "pend"
    /\ touchPin' = "edge" /\ s_touch_armed' = FALSE
    /\ UNCHANGED <<panelvars, idlevars, poked, lvgl, loopvars, rested,
                   roomvars>>

(* The wake, held against the loop's requests until it is applied.         *)
HoldWake ==
    /\ waker = "pend" /\ waker' = "want"
    /\ s_wake_pending' = TRUE
    /\ UNCHANGED <<panelvars, linevars, s_deep_idle, slpin, linkIdle,
                   paused, poked, lvgl, loopvars, rested, roomvars>>

WantWake ==
    /\ waker = "want" /\ waker' = "leave"
    /\ s_sleep_want' = FALSE /\ linkIdle' = FALSE /\ slpin' = FALSE
    /\ UNCHANGED <<s_sleep_dim, s_asleep, s_dimmed, s_display_off, linevars,
                   s_wake_pending, s_deep_idle, paused, poked, lvgl,
                   loopvars, rested, roomvars>>

(* After the controller's wake-up wait.                                    *)
LeaveDeepIdle ==
    /\ waker = "leave" /\ waker' = "resume"
    /\ s_deep_idle' = FALSE /\ rested' = FALSE
    /\ UNCHANGED <<panelvars, linevars, s_wake_pending, slpin, linkIdle,
                   paused, poked, lvgl, loopvars, roomvars>>

Resume ==
    /\ waker = "resume" /\ waker' = "wait"
    /\ paused' = FALSE
    /\ UNCHANGED <<panelvars, linevars, s_wake_pending, s_deep_idle, slpin,
                   linkIdle, poked, lvgl, loopvars, rested, roomvars>>

deep_idle_waker ==
    WakerTakes \/ DisarmLine \/ HoldWake \/ WantWake \/ LeaveDeepIdle \/ Resume

-----------------------------------------------------------------------------
(***************************************************************************)
(* The main loop: once a second it asks for what the device's use wants of *)
(* the panel.  ui_set_sleep() is three words of shared state, one by one.  *)
(***************************************************************************)
WakeEdge == lately.asleep /\ ~s_asleep

(* The battery stopped being critical while the panel slept: un-dim it.    *)
Undims == IF lately.critical /\ ~critical /\ s_asleep
          THEN <<Ask(TRUE, FALSE)>> ELSE << >>

StoppedLong == ~WakeEdge /\ stoppedFor = "due" /\ ~s_asleep

Wants ==
    IF critical THEN <<Ask(TRUE, TRUE)>>
    ELSE IF use /= "none" THEN <<Ask(FALSE, FALSE)>>
    ELSE IF StoppedLong THEN <<Ask(TRUE, FALSE)>> ELSE << >>

StoppedSince ==
    IF ~critical /\ use = "ringing" THEN "fresh"
    ELSE IF ~critical /\ use = "session" THEN "unset"
    ELSE IF WakeEdge \/ (~critical /\ stoppedFor = "unset") THEN "fresh"
    ELSE stoppedFor

LoopPass ==
    /\ loopAsks = << >>
    /\ loopAsks' = Undims \o Wants
    /\ lately' = [asleep |-> s_asleep, critical |-> critical]
    /\ stoppedFor' = StoppedSince
    /\ UNCHANGED <<panelvars, linevars, idlevars, poked, lvgl, waker,
                   asking, rested, roomvars>>

Asked == loopAsks' = Tail(loopAsks) /\ asking' = "next"

(* ui_set_sleep(): deep idle's exit outranks a sleep.                      *)
ui_set_sleep ==
    /\ loopAsks /= << >> /\ asking = "next"
    /\ s_sleep_dim' = Head(loopAsks).dim
    /\ IF Head(loopAsks).sleep /\ s_wake_pending
       THEN Asked
       ELSE asking' = "store" /\ UNCHANGED loopAsks
    /\ UNCHANGED <<s_sleep_want, s_asleep, s_dimmed, s_display_off, linevars,
                   idlevars, poked, lvgl, waker, lately, stoppedFor, rested,
                   roomvars>>

StoreSleep ==
    /\ asking = "store"
    /\ s_sleep_want' = Head(loopAsks).sleep
    /\ IF Head(loopAsks).sleep
       THEN Asked
       ELSE asking' = "poke" /\ UNCHANGED loopAsks
    /\ UNCHANGED <<s_sleep_dim, s_asleep, s_dimmed, s_display_off, linevars,
                   idlevars, poked, lvgl, waker, lately, stoppedFor, rested,
                   roomvars>>

(* The panel's task is parked in deep idle and would never apply it.       *)
PokeWaker ==
    /\ asking = "poke"
    /\ poked' = (poked \/ s_deep_idle)
    /\ Asked
    /\ UNCHANGED <<panelvars, linevars, idlevars, lvgl, waker, lately,
                   stoppedFor, rested, roomvars>>

MainLoop == LoopPass \/ ui_set_sleep \/ StoreSleep \/ PokeWaker

-----------------------------------------------------------------------------
(***************************************************************************)
(* Time, and what people, the session and the battery do.                  *)
(***************************************************************************)
TimePasses ==
    /\ \/ /\ stoppedFor = "fresh" /\ stoppedFor' = "due"
          /\ UNCHANGED rested
       \/ /\ ~rested /\ rested' = TRUE
          /\ UNCHANGED stoppedFor
    /\ loopAsks = << >> /\ lvgl = "idle" /\ waker = "wait"
    /\ UNCHANGED <<panelvars, linevars, idlevars, poked, lvgl, waker, loopAsks,
                   asking, lately, roomvars>>

UseTurns ==
    /\ use' \in {"none", "session", "ringing"} \ {use}
    /\ UNCHANGED <<panelvars, linevars, idlevars, poked, lvgl, waker,
                   loopvars, rested, press, critical, held, touches,
                   batteries>>

BatteryTurns ==
    /\ batteries < MaxBatteries /\ batteries' = batteries + 1
    /\ critical' = ~critical
    /\ UNCHANGED <<panelvars, linevars, idlevars, poked, lvgl, waker,
                   loopvars, rested, press, use, held, touches>>

(* The display test and the touch panel are only opened on a lit panel.    *)
PanelIsUsed ==
    /\ held' = ~held /\ (held \/ ~s_asleep)
    /\ UNCHANGED <<panelvars, linevars, idlevars, poked, lvgl, waker,
                   loopvars, rested, press, use, critical, touches,
                   batteries>>

DeepNext ==
    \/ frame_timer_cb \/ gesture_event_cb
    \/ deep_idle_enter \/ ArmTouch \/ PauseThenFlag \/ LastLook
    \/ touch_irq_hook \/ deep_idle_waker \/ MainLoop
    \/ TimePasses \/ UseTurns \/ BatteryTurns \/ PanelIsUsed

(* Each task runs when it has something to do; the panel's frames and the  *)
(* loop's passes come round for ever.  Nobody has to touch anything.       *)
DeepFairness ==
    /\ WF_deepvars(frame_timer_cb)
    /\ WF_deepvars(deep_idle_enter \/ ArmTouch \/ PauseThenFlag \/ LastLook)
    /\ WF_deepvars(deep_idle_waker)
    /\ WF_deepvars(MainLoop)

DeepSpec == DeepInit /\ [][DeepNext]_deepvars /\ DeepFairness

-----------------------------------------------------------------------------
(***************************************************************************)
(* Properties.                                                             *)
(***************************************************************************)
(* A session, an alarm or a running stopwatch that lasts ends with the     *)
(* panel awake and the panel's task running, however it met the way into   *)
(* deep idle or out of it; only a critical battery keeps it dark.          *)
(* (ui_set_sleep(), deep_idle_enter(), deep_idle_waker())                  *)
UseLightsPanel ==
    <>[](use /= "none" /\ ~critical) =>
        <>[](~s_asleep /\ ~s_deep_idle /\ ~paused)

(* Out of deep idle, with nobody on the way in or out of it, the touch     *)
(* line listens for a falling edge, nothing is armed, the panel's          *)
(* controller is awake and the audio link is let open: whoever came first, *)
(* the hook or the waker, left it whole.  (s_touch_mux, deep_idle_waker()) *)
AwakeIsWhole ==
    ~s_deep_idle /\ lvgl \in {"idle", "enter"} /\ waker = "wait" =>
        /\ touchPin = "edge" /\ ~s_touch_armed
        /\ ~slpin /\ ~linkIdle /\ ~paused

(* A touch ends deep idle: the line it found armed wakes the device.       *)
(* (docs/power.md, "A touch ... ends it")                                  *)
TouchWakes == s_deep_idle /\ ~s_touch_armed ~> ~s_deep_idle

(* A wake the waker has decided is not overwritten by the loop before the  *)
(* panel's task has applied it.  (ui.c's comment at s_wake_pending)        *)
WakeIsHeld ==
    [][s_wake_pending /\ s_wake_pending' /\ ~s_sleep_want
           => ~s_sleep_want']_deepvars

DeepTypeOK ==
    /\ {s_sleep_want, s_sleep_dim, s_asleep, s_dimmed, s_display_off,
        s_wake_pending, s_deep_idle, s_touch_armed, slpin, linkIdle, paused,
        poked, rested, press, critical, held} \subseteq BOOLEAN
    /\ touchPin \in {"edge", "level", "off"}
    /\ lvgl \in {"idle", "enter", "arm", "pause", "flag", "look"}
    /\ waker \in {"wait", "disarm", "pend", "want", "leave", "resume"}
    /\ loopAsks \in Seq([sleep : BOOLEAN, dim : BOOLEAN]) /\ Len(loopAsks) <= 2
    /\ asking \in {"next", "store", "poke"}
    /\ stoppedFor \in {"unset", "fresh", "due"}
    /\ touches \in 0 .. MaxTouches /\ batteries \in 0 .. MaxBatteries
=============================================================================
