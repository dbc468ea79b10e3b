----------------------------- MODULE BootButton -----------------------------
(***************************************************************************)
(* main/boot_button.c: what a press of BOOT turns into - a click, a double *)
(* click or a hold, told apart by iot_button after the press - while       *)
(* alarms start and stop ringing.  now_ms() wraps.                         *)
(***************************************************************************)
EXTENDS Naturals

CONSTANTS
    BtnWrap,   \* 2^32 milliseconds
    SWALLOW,   \* SWALLOW_MS
    WINDOW,    \* NS_DOUBLE_WINDOW_MS: the gap to a second press, and that
               \* press
    HOLD       \* FORGET_HOLD_MS

ASSUME BootButtonAssumption ==
    /\ BtnWrap \in Nat /\ SWALLOW \in Nat /\ WINDOW \in Nat /\ HOLD \in Nat
    /\ WINDOW < HOLD /\ SWALLOW < BtnWrap

VARIABLES
    clockMs,      \* now_ms()
    bell,         \* alarms_ringing()
    s_swallow,    \* s_swallow
    s_dismissed,  \* s_dismiss_ms
    s_forgetting, \* s_forgetting
    denoise,      \* audio_io_ns_enabled()
    button,       \* iot_button: "up", "down", "gap" or "stuck"
    since,        \* time since its last edge, up to HOLD
    count,        \* presses of the gesture so far
    spent,        \* history: a press of this gesture stopped an alarm
    sinceTaken,   \* history: time since the last that did, up to SWALLOW
    late,         \* history: another press of it came SWALLOW after that
    effect        \* history: what the last gesture did, and whether it was
                  \* spent, and late; cleared by the next press

shared  == <<s_swallow, s_dismissed, s_forgetting, denoise>>
gesture == <<button, since, count, spent, sinceTaken, late>>
btnvars == <<clockMs, bell, shared, gesture, effect>>

NoEffect == [did |-> "nothing", spent |-> FALSE, late |-> FALSE]
Did(what) == effect' = [did |-> what, spent |-> spent, late |-> late]

SinceDismiss == (clockMs + BtnWrap - s_dismissed) % BtnWrap

-----------------------------------------------------------------------------
(* Mutant: a press that meets no ringing alarm belongs to nobody.          *)
on_press_down_forgetful ==
    /\ s_swallow' = bell
    /\ s_dismissed' = IF bell THEN clockMs ELSE s_dismissed

(* on_press_down(): a press during a ring is the alarm's, and so is one    *)
(* within SWALLOW_MS of it.                                                *)
on_press_down ==
    /\ s_swallow' = (bell \/ (s_swallow /\ SinceDismiss < SWALLOW))
    /\ s_dismissed' = IF bell THEN clockMs ELSE s_dismissed

PressDown ==
    /\ button \in {"up", "gap"}
    /\ button' = "down" /\ since' = 0
    /\ count' = count + 1
    /\ spent' = (spent \/ bell)
    /\ sinceTaken' = IF bell THEN 0 ELSE sinceTaken
    /\ late' = (~bell /\ (late \/ (spent /\ sinceTaken = SWALLOW)))
    /\ on_press_down /\ effect' = NoEffect
    /\ UNCHANGED <<clockMs, bell, s_forgetting, denoise>>

GestureEnds ==
    /\ button' = "up" /\ since' = 0 /\ count' = 0
    /\ spent' = FALSE /\ sinceTaken' = 0 /\ late' = FALSE

(* iot_button's task: the first press, of any length below the hold, is    *)
(* waited on for a second; one after it counts only if it is short.        *)
Release ==
    /\ button = "down" /\ (count > 1 \/ since < HOLD)
    /\ \/ /\ count = 1 \/ since < WINDOW
          /\ button' = "gap" /\ since' = 0
          /\ UNCHANGED <<count, spent, sinceTaken, late>>
       \/ count > 1 /\ since >= WINDOW /\ GestureEnds
    /\ UNCHANGED <<clockMs, bell, shared, effect>>

(* on_click().                                                             *)
on_click ==
    /\ button = "gap" /\ since > WINDOW /\ count = 1 /\ GestureEnds
    /\ IF s_swallow THEN Did("nothing") ELSE Did("toggle")
    /\ UNCHANGED <<clockMs, bell, shared>>

(* on_toggle_ns(), where the denoiser is available or is not.              *)
on_toggle_ns(available) ==
    /\ button = "gap" /\ since > WINDOW /\ count = 2 /\ GestureEnds
    /\ IF s_swallow \/ ~available
       THEN Did("nothing") /\ UNCHANGED denoise
       ELSE Did("denoise") /\ denoise' = ~denoise
    /\ UNCHANGED <<clockMs, bell, s_swallow, s_dismissed, s_forgetting>>

(* More presses than two are no gesture.                                   *)
Ignored ==
    /\ button = "gap" /\ since > WINDOW /\ count > 2 /\ GestureEnds
    /\ Did("nothing")
    /\ UNCHANGED <<clockMs, bell, shared>>

(* on_forget_wifi(), while the first press is still down.                  *)
on_forget_wifi ==
    /\ button = "down" /\ count = 1 /\ since = HOLD
    /\ button' = "stuck"
    /\ IF s_forgetting \/ s_swallow
       THEN Did("nothing") /\ UNCHANGED s_forgetting
       ELSE Did("forget") /\ s_forgetting' = TRUE
    /\ UNCHANGED <<clockMs, bell, s_swallow, s_dismissed, denoise, since,
                   count, spent, sinceTaken, late>>

LetGo ==
    /\ button = "stuck" /\ GestureEnds
    /\ UNCHANGED <<clockMs, bell, shared, effect>>

(* restart_cb().                                                           *)
restart_cb ==
    /\ s_forgetting /\ s_forgetting' = FALSE
    /\ s_swallow' = FALSE /\ s_dismissed' = 0 /\ bell' = FALSE
    /\ clockMs' = 0
    /\ GestureEnds /\ effect' = NoEffect
    /\ UNCHANGED denoise

-----------------------------------------------------------------------------
(* An alarm rings; the loop ends it within a pass of a dismissal, or later. *)
AlarmTurns == bell' = ~bell
              /\ UNCHANGED <<clockMs, shared, gesture, effect>>

Due == \/ button = "down" /\ count = 1 /\ since = HOLD
       \/ button = "gap" /\ since > WINDOW

BtnTick ==
    /\ ~Due
    /\ clockMs' = (clockMs + 1) % BtnWrap
    /\ since' = IF since < HOLD THEN since + 1 ELSE since
    /\ sinceTaken' = IF spent /\ sinceTaken < SWALLOW THEN sinceTaken + 1
                     ELSE sinceTaken
    /\ UNCHANGED <<bell, shared, button, count, spent, late, effect>>

-----------------------------------------------------------------------------
BtnInit ==
    /\ clockMs = 0 /\ bell = FALSE
    /\ s_swallow = FALSE /\ s_dismissed = 0 /\ s_forgetting = FALSE
    /\ denoise \in BOOLEAN
    /\ button = "up" /\ since = 0 /\ count = 0
    /\ spent = FALSE /\ sinceTaken = 0 /\ late = FALSE
    /\ effect = NoEffect

BtnNext ==
    \/ PressDown /\ count < 4   \* bound: presses of one gesture
    \/ Release \/ on_click \/ Ignored \/ on_forget_wifi \/ LetGo \/ restart_cb
    \/ (\E available \in BOOLEAN : on_toggle_ns(available))
    \/ AlarmTurns \/ BtnTick

BtnSpec == BtnInit /\ [][BtnNext]_btnvars
-----------------------------------------------------------------------------
(* A press that stopped an alarm belongs to the alarm whatever it turns    *)
(* into: neither the click nor the hold does anything else, and nor does   *)
(* the double click it is half of, unless its second press came SWALLOW_MS *)
(* or more after the dismissal, with no alarm ringing: on_press_down()     *)
(* then takes the swallow back (boot_button.c:32-45, 56-66).               *)
TakenPressIsSpent ==
    effect.spent /\ effect.did # "nothing" =>
        effect.late /\ effect.did = "denoise"

(* Without that exception, as boot_button.c:33 has it ("whatever it turns  *)
(* into").  The code does not keep it.                                     *)
TakenPressDoesNothing == effect.spent => effect.did = "nothing"
=============================================================================
