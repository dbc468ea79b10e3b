------------------------------ MODULE Screens -------------------------------
(***************************************************************************)
(* main/ui.c: which screen owns the frame, and whose a press is: the face, *)
(* the touch panel of ui_panel.c, the clock, the stopwatch, Echo, the ring *)
(* screen, the display test.  With it what the screens hold: controls.c's  *)
(* controls_echo_open() holds the microphone, and main.c's loop keeps the  *)
(* panel awake and the session up for a game somebody plays.  Frames and   *)
(* touches are one task's (LVGL); the loop, the session's worker and the   *)
(* agent's calls come between them, and between a frame's two halves.      *)
(* The setup QR code, up only before there is a session, is left out, and  *)
(* so is deep idle, which parks the frames of a panel asleep (DeepIdle);   *)
(* the clock has been set.                                                 *)
(***************************************************************************)
EXTENDS Naturals, Sequences, FiniteSets

CONSTANTS
    TEST_STEPS,  \* TEST_STEP_COUNT
    Calls,       \* what other tasks do: "stopwatch", "echo", "test", "ring",
                 \* "boot", "drop", "battery"
    MaxEvents    \* bounds the presses and the calls of a behaviour

ASSUME ScreensAssumption == TEST_STEPS \in Nat \ {0} /\ MaxEvents \in Nat

VARIABLES
    power,    \* s_sleep_want, s_sleep_dim, s_asleep
    wanted,   \* s_clock_forced, s_sw_shown, s_echo_shown
    voiced,   \* s_sw_want, s_echo_want, s_test_want
    painted,  \* who owns the frame: s_panel_shown, s_clock_shown, ...
    lvgl,     \* where its task is: "idle", or half way through a frame
    test,     \* s_test_active and s_test_step: 0 while it is not
    sheet,    \* ui_panel.c's s_open, s_opening, s_open_gesture, s_owned, and
              \* idle: IDLE_CLOSE_MS have passed since the last touch
    finger,   \* the press: down, at; s_press_in_button, s_screen_press,
              \* s_clock_swipe; long; history: began, on what was painted,
              \* took, who acted on it, hasty, no frame since the last one
              \* was lifted, and early, hasty when it began
    game,     \* s_echo_open, and ui_echo.c's s_active_ms
    ticking,  \* the stopwatch runs
    sounds,   \* "none", "on", or "done": ended from the screen
    seen,     \* s_ringing: what the last frame saw of it
    talk,     \* running, ready, quiet; s_stopped, s_clock_cancel
    request,  \* what session_ctl has been asked for
    pass,     \* the main loop: where it is, and what it has still to ask
    stopped,  \* stopped_since_ms: "unset", "short" or "long"
    before,   \* prev_asleep and prev_critical
    critical, \* bat_critical
    happened  \* bounds the behaviour

lvglvars == <<wanted, painted, lvgl, test, sheet, finger, game, ticking>>
restvars == <<talk, request, pass, stopped, before, critical>>
screenvars == <<power, voiced, lvglvars, sounds, seen, restvars,
                happened>>

Lifted == [down |-> FALSE, at |-> "rest", button |-> FALSE, screen |-> FALSE,
           swipe |-> FALSE, long |-> FALSE, began |-> "face",
           early |-> FALSE, hasty |-> FALSE, took |-> {}]

Shut == [open |-> FALSE, opening |-> FALSE, gesture |-> FALSE,
         owned |-> FALSE, idle |-> FALSE]

ScreensInit ==
    /\ power = [want |-> FALSE, dim |-> FALSE, asleep |-> FALSE]
    /\ wanted = [clock |-> FALSE, stopwatch |-> FALSE, echo |-> FALSE]
    /\ voiced = {} /\ painted = "face" /\ lvgl = "idle" /\ test = 0
    /\ sheet = Shut /\ finger = Lifted
    /\ game = [open |-> FALSE, active |-> "never"] /\ ticking = FALSE
    /\ sounds = "none" /\ seen = FALSE
    /\ talk = [running |-> FALSE, ready |-> FALSE, quiet |-> FALSE,
                  stopped |-> TRUE, cancel |-> FALSE]
    /\ request = "none" /\ pass = [at |-> "top", asks |-> << >>]
    /\ stopped = "unset"
    /\ before = [asleep |-> FALSE, critical |-> FALSE]
    /\ critical = FALSE /\ happened = 0

Event == happened < MaxEvents /\ happened' = happened + 1

-----------------------------------------------------------------------------
(***************************************************************************)
(* frame_timer_cb().                                                       *)
(***************************************************************************)

(* apply_sleep(): not while the test runs or the touch panel is open.      *)
apply_sleep(p) ==
    [p EXCEPT !.asleep = p.want /\ (@ \/ (test = 0 /\ ~sheet.open))]

Woken(p) == [p EXCEPT !.want = FALSE, !.asleep = FALSE]

(* Its first half: the sleep, and the test's entry.                        *)
FrameBegins ==
    /\ lvgl = "idle" /\ lvgl' = "choose"
    /\ LET enter == "test" \in voiced /\ test = 0   \* test_enter()
       IN  /\ power' = IF enter THEN Woken(power) ELSE apply_sleep(power)
           /\ test' = IF enter THEN 1 ELSE test
    /\ voiced' = voiced \ {"test"}
    /\ finger' = IF finger.down THEN finger
                 ELSE [Lifted EXCEPT !.hasty = finger.hasty]
    /\ UNCHANGED <<wanted, painted, sheet, game, ticking, sounds, seen,
                   restvars, happened>>

(* ui_panel_close(): for what takes the screen whole, and when left alone. *)
PanelAfter(taken) ==
    IF sheet.open /\ (taken \/ (sheet.idle /\ ~sheet.owned))
    THEN [sheet EXCEPT !.open = FALSE, !.owned = FALSE, !.idle = FALSE]
    ELSE sheet

(* echo_can_show(), also read by another task.                             *)
echo_can_show == ~seen' /\ test = 0 /\ ~power.dim

(* What voices have asked for changes what is wanted.                      *)
Granted(w, echo) ==
    CASE echo -> [clock |-> FALSE, stopwatch |-> FALSE, echo |-> TRUE]
      [] ~echo /\ "stopwatch" \in voiced ->
             [clock |-> FALSE, stopwatch |-> TRUE, echo |-> FALSE]
      [] OTHER -> w

(* Mutant: Echo stays up under a panel that sleeps.                        *)
EchoOutlivesSleep(w, asleep) ==
    LET taken == seen' \/ test # 0
    IN  [clock     |-> w.clock /\ ~(taken \/ talk.cancel),
         stopwatch |-> w.stopwatch /\ ~(taken \/ talk.cancel)
                                   /\ (asleep => ticking),
         echo      |-> w.echo /\ ~taken]

(* clock_wanted(): what owns the whole screen, a session that starts and   *)
(* sleep end what was on demand; Echo starts sessions itself.              *)
StillWanted(w, asleep) ==
    LET taken == seen' \/ test # 0
    IN  [clock     |-> w.clock /\ ~(taken \/ talk.cancel),
         stopwatch |-> w.stopwatch /\ ~(taken \/ talk.cancel)
                                   /\ (asleep => ticking),
         echo      |-> w.echo /\ ~taken /\ ~asleep]

clock_wanted(w, asleep) ==
    /\ (asleep /\ talk.stopped) \/ w.clock
    /\ ~seen' /\ test = 0

Owner(w, asleep) ==
    CASE sounds = "on" /\ test = 0      -> "ring"
      [] ~(sounds = "on" /\ test = 0) /\ sheet'.open -> "panel"
      [] OTHER -> IF w.stopwatch THEN "stopwatch"
                  ELSE IF w.echo THEN "echo"
                  ELSE IF clock_wanted(w, asleep) THEN "clock" ELSE "face"

(* ui_echo_enter() and ui_echo_close(), with controls_echo_open().         *)
EchoFollows(open) ==
    IF open = game.open
    THEN UNCHANGED <<game, request>>
    ELSE /\ game' = [open   |-> open,
                     active |-> IF open THEN "recent" ELSE "never"]
         /\ request' = IF open /\ ~talk.running THEN "start" ELSE request

(* Its second half: who has been asked for, who still may, and the owner.  *)
FrameChooses ==
    /\ lvgl = "choose" /\ lvgl' = "idle"
    /\ seen' = (sounds # "none")
    /\ sheet' = PanelAfter(seen' \/ test # 0)
    /\ voiced' = voiced \ {"stopwatch", "echo"}
    /\ LET echo   == "echo" \in voiced /\ echo_can_show
           asleep == power.asleep /\ ~echo
       IN  /\ power' = IF echo THEN Woken(power) ELSE power
           /\ wanted' = StillWanted(Granted(wanted, echo), asleep)
           /\ painted' = Owner(wanted', asleep)
           /\ EchoFollows(wanted'.echo)
    /\ talk' = [talk EXCEPT !.cancel = FALSE]
    /\ finger' = [finger EXCEPT !.hasty = FALSE]
    /\ UNCHANGED <<test, ticking, sounds, pass, stopped,
                   before, critical, happened>>

-----------------------------------------------------------------------------
(***************************************************************************)
(* gesture_event_cb().  A press is where it began.                         *)
(***************************************************************************)
Places == {"centre", "top", "bottom", "rest"}

(* ui_panel_pressed(): open, the panel takes the press; shut, a press in   *)
(* the top band may become the drag that opens it.                         *)
ui_panel_pressed(at) ==
    sheet' = [sheet EXCEPT !.gesture = FALSE, !.owned = sheet.open,
                           !.opening = ~sheet.open /\ test = 0 /\ at = "top",
                           !.idle = FALSE]

Began(at, screen, swipe, button, took) ==
    finger' = [down |-> TRUE, at |-> at, button |-> button,
               screen |-> screen, swipe |-> swipe, long |-> FALSE,
               began |-> painted, early |-> finger.hasty,
               hasty |-> finger.hasty, took |-> took]

PanelTakes == IF sheet.open THEN {"panel"} ELSE {}

(* On the clock, or with the stopwatch or Echo wanted, it is theirs; their *)
(* buttons act on the press.                                               *)
PressOnScreen(at) ==
    LET clock == painted = "clock"
        onto  == IF clock THEN "none"
                 ELSE IF wanted.stopwatch THEN "stopwatch" ELSE "echo"
    IN  /\ clock \/ wanted.stopwatch \/ wanted.echo
        /\ wanted' = [wanted EXCEPT !.clock = @ \/ clock]
        /\ ui_panel_pressed(at)
        /\ \/ /\ Began(at, TRUE, FALSE, FALSE, PanelTakes)   \* on no button
              /\ UNCHANGED <<ticking, game>>
           \/ /\ onto = "stopwatch"
              /\ ticking' \in BOOLEAN
              /\ Began(at, FALSE, FALSE, FALSE, PanelTakes \union {onto})
              /\ UNCHANGED game
           \/ /\ onto = "echo" /\ ~sheet'.opening
              /\ game' = [game EXCEPT !.active = "recent"]
              /\ Began(at, TRUE, FALSE, FALSE, PanelTakes \union {onto})
              /\ UNCHANGED ticking
        /\ UNCHANGED sounds

(* Mutant: the ring screen's press leaves the button's gate as it was.     *)
PressOnRingKeepsGate(at) ==
    /\ painted = "ring"
    /\ ~(wanted.stopwatch \/ wanted.echo)
    /\ \/ sounds' = sounds /\ Began(at, FALSE, FALSE, at = "centre", {})
       \/ /\ sounds' = IF sounds = "none" THEN sounds ELSE "done"
          /\ Began(at, FALSE, FALSE, at = "centre", {"ring"})
    /\ UNCHANGED <<wanted, sheet, game, ticking>>

(* The ring screen takes every press: Stop, a snooze, or nothing.          *)
PressOnRing(at) ==
    /\ painted = "ring"
    /\ ~(wanted.stopwatch \/ wanted.echo)
    /\ \/ sounds' = sounds /\ Began(at, FALSE, FALSE, FALSE, {})
       \/ /\ sounds' = IF sounds = "none" THEN sounds ELSE "done"
          /\ Began(at, FALSE, FALSE, FALSE, {"ring"})
    /\ UNCHANGED <<wanted, sheet, game, ticking>>

(* The panel when it is open; else the face, its button and the edges.     *)
PressOnFace(at) ==
    /\ painted \notin {"clock", "ring"}
    /\ ~(wanted.stopwatch \/ wanted.echo)
    /\ ui_panel_pressed(at)
    /\ Began(at, FALSE, ~sheet.open /\ test = 0 /\ at = "bottom",
             ~sheet.open /\ at = "centre", PanelTakes)
    /\ UNCHANGED <<wanted, game, ticking, sounds>>

Pressed ==
    /\ lvgl = "idle" /\ ~finger.down /\ Event
    /\ power' = Woken(power)
    /\ \E at \in Places :
           PressOnScreen(at) \/ PressOnRing(at) \/ PressOnFace(at)
    /\ UNCHANGED <<voiced, painted, lvgl, test, seen, restvars>>

(* LV_EVENT_PRESSING: the drags that open the panel and the clock.         *)
Dragged ==
    /\ lvgl = "idle" /\ finger.down
    /\ \/ /\ sheet.opening
          /\ sheet' = [Shut EXCEPT !.open = TRUE, !.gesture = TRUE]
          /\ UNCHANGED <<finger, wanted>>
       \/ /\ finger.swipe
          /\ finger' = [finger EXCEPT !.swipe = FALSE, !.button = FALSE]
          /\ wanted' = [wanted EXCEPT !.clock = TRUE]
          /\ UNCHANGED sheet
    /\ UNCHANGED <<power, voiced, painted, lvgl, test, game, ticking, sounds,
                   seen, restvars, happened>>

(* ui_panel_released(): an open panel's swipe up closes it.                *)
PanelReleased(way) ==
    LET own == sheet.open /\ sheet.owned /\ ~sheet.gesture
    IN  [sheet EXCEPT !.open = @ /\ ~(own /\ way = "up"), !.opening = FALSE,
                      !.gesture = FALSE, !.owned = FALSE]

PanelTook == sheet.gesture \/ (sheet.open /\ sheet.owned) \/ sheet'.open

(* What a press on a screen was: a swipe to the next one, or a tap.        *)
AfterRelease(way) ==
    CASE PanelTook -> [wanted EXCEPT !.clock = FALSE]
      [] ~PanelTook /\ wanted.stopwatch /\ way = "across" ->
             [wanted EXCEPT !.stopwatch = FALSE, !.echo = TRUE]
      [] ~PanelTook /\ ~wanted.stopwatch /\ wanted.echo /\ way = "across" ->
             [wanted EXCEPT !.echo = FALSE, !.clock = TRUE]
      [] ~PanelTook /\ ~wanted.stopwatch /\ ~wanted.echo /\ wanted.clock ->
             [wanted EXCEPT !.clock = way \notin {"across", "tap"},
                            !.stopwatch = way = "across"]
      [] OTHER -> wanted

(* The gesture handler's toggle, an interrupt apart.                       *)
Toggled == IF talk.running THEN "stop" ELSE "start"

(* test_advance(): the next step, or done, and a session may start again.  *)
test_advance ==
    /\ test' = (test + 1) % (TEST_STEPS + 1)
    /\ IF test' = 0
       THEN /\ request' \in {request, "start"}            \* debounced
            /\ talk' = [talk EXCEPT !.quiet = FALSE]
       ELSE UNCHANGED <<request, talk>>

(* LV_EVENT_SHORT_CLICKED, after the release of a press that was not long: *)
(* none for an edge, the test's next step, or UI_TAP, an interrupt or the  *)
(* toggle; a ringing alarm owns every gesture.                             *)
ShortClicked(took) ==
    LET click == finger.button /\ ~finger.long
    IN  \/ took = {} /\ UNCHANGED <<test, request, talk>>   \* PRESS_LOST too
        \/ click /\ test # 0 /\ took = {"test"} /\ test_advance
        \/ /\ click /\ test = 0 /\ sounds = "none" /\ took = {"session"}
           /\ request' \in {request, Toggled}
           /\ UNCHANGED <<test, talk>>

(* LV_EVENT_RELEASED, or PRESS_LOST, which no click follows.               *)
Released ==
    /\ lvgl = "idle" /\ finger.down
    /\ \E way \in {"tap", "across", "up", "drift"} :
           /\ sheet' = PanelReleased(way)
           /\ wanted' = IF finger.screen THEN AfterRelease(way) ELSE wanted
    /\ \E took \in {{}, {"test"}, {"session"}} :
           /\ ShortClicked(took)
           /\ finger' = [Lifted EXCEPT !.hasty = TRUE,
                                       !.took = finger.took \union took]
    /\ UNCHANGED <<power, voiced, painted, lvgl, game, ticking, sounds, seen,
                   pass, stopped, before, critical, happened>>

(* LV_EVENT_LONG_PRESSED.                                                  *)
LongPressed ==
    /\ lvgl = "idle" /\ finger.down /\ ~finger.long
    /\ finger' = [finger EXCEPT !.long = TRUE,
                                !.took = IF finger.button
                                         THEN @ \union {"session"} ELSE @]
    /\ UNCHANGED <<power, voiced, wanted, painted, lvgl, test, sheet, game,
                   ticking, sounds, seen, restvars, happened>>

-----------------------------------------------------------------------------
(***************************************************************************)
(* The other tasks: the agent's functions, the alarms', BOOT's, the        *)
(* socket's, the battery's.                                                *)
(***************************************************************************)
CallAsks(what) == voiced' = voiced \union {what}

(* ui_show_stopwatch(), ui_show_echo(), and enter_display_test(), whose    *)
(* stop of the session is debounced.                                       *)
Asked ==
    /\ \/ "stopwatch" \in Calls /\ CallAsks("stopwatch") /\ UNCHANGED request
       \/ /\ "echo" \in Calls /\ ~seen /\ test = 0 /\ ~power.dim
          /\ CallAsks("echo") /\ UNCHANGED request
       \/ /\ "test" \in Calls /\ CallAsks("test")
          /\ request' \in {request, "stop"}
    /\ Event
    /\ UNCHANGED <<power, lvglvars, sounds, seen, talk, pass, stopped, before,
                   critical>>

(* An alarm rings; it has rung out, or the alarms' task has seen it ended. *)
Rings ==
    /\ "ring" \in Calls /\ sounds = "none" /\ sounds' = "on" /\ Event
    /\ UNCHANGED <<power, voiced, lvglvars, seen, restvars>>

RingEnds ==
    /\ sounds # "none" /\ sounds' = "none"
    /\ UNCHANGED <<power, voiced, lvglvars, seen, restvars, happened>>

(* BOOT toggles the session; the socket drops; the battery runs low.       *)
Happens ==
    /\ \/ /\ "boot" \in Calls /\ request' = Toggled
          /\ UNCHANGED <<talk, critical>>
       \/ /\ "drop" \in Calls /\ talk' = [talk EXCEPT !.ready = FALSE,
                                                          !.quiet = FALSE]
          /\ UNCHANGED <<request, critical>>
       \/ /\ "battery" \in Calls /\ critical' = ~critical
          /\ UNCHANGED <<talk, request>>
    /\ Event
    /\ UNCHANGED <<power, voiced, lvglvars, sounds, seen, pass, stopped,
                   before>>

(* session_ctl's worker; ui_set_stopped() as the session goes up or down.  *)
SessionWorks ==
    /\ request # "none" /\ request' = "none"
    /\ talk' =
           IF request = "start" /\ ~talk.running
           THEN [talk EXCEPT !.running = TRUE, !.quiet = FALSE,
                                !.stopped = FALSE,
                                !.cancel = @ \/ talk.stopped]
           ELSE IF request = "stop"
                THEN [talk EXCEPT !.running = FALSE, !.ready = FALSE,
                                     !.quiet = FALSE, !.stopped = TRUE]
                ELSE talk
    /\ UNCHANGED <<power, voiced, lvglvars, sounds, seen, pass, stopped,
                   before, critical, happened>>

BecomesReady ==
    /\ talk.running /\ ~talk.ready
    /\ talk' = [talk EXCEPT !.ready = TRUE, !.quiet = FALSE]
    /\ UNCHANGED <<power, voiced, lvglvars, sounds, seen, request, pass,
                   stopped, before, critical, happened>>

(* The clocks: SLEEP_AFTER_STOPPED_MS since the session stopped, RECENT_MS *)
(* since a move, SESSION_IDLE_TIMEOUT_S since speech, IDLE_CLOSE_MS.       *)
StoppedForLong == stopped = "short" /\ stopped' = "long"
GameForgotten ==
    game.active = "recent" /\ game' = [game EXCEPT !.active = "old"]
SessionQuiet ==
    /\ talk.running /\ talk.ready /\ ~talk.quiet
    /\ talk' = [talk EXCEPT !.quiet = TRUE]
SheetIdle ==
    sheet.open /\ ~sheet.idle /\ sheet' = [sheet EXCEPT !.idle = TRUE]

TimePasses ==
    /\ \/ StoppedForLong /\ UNCHANGED <<game, talk, sheet>>
       \/ GameForgotten /\ UNCHANGED <<stopped, talk, sheet>>
       \/ SessionQuiet /\ UNCHANGED <<stopped, game, sheet>>
       \/ SheetIdle /\ UNCHANGED <<stopped, game, talk>>
    /\ UNCHANGED <<power, voiced, wanted, painted, lvgl, test, finger, ticking,
                   sounds, seen, request, pass, before, critical,
                   happened>>

-----------------------------------------------------------------------------
(***************************************************************************)
(* app_main()'s loop: sleep, then the idle timeout.                        *)
(***************************************************************************)

(* ui_stopwatch_holds_awake(), ui_echo_holds_awake().                      *)
StopwatchHolds == wanted.stopwatch /\ ticking

EchoHolds == wanted.echo /\ game.active = "recent"

Ask(sleep, dim) == <<[sleep |-> sleep, dim |-> dim]>>

(* What the pass asks of ui_set_sleep(), and what it makes of the time.    *)
Policy(since, asleep) ==
    CASE critical -> [asks |-> Ask(TRUE, TRUE), since |-> since]
      [] ~critical /\ (sounds # "none" \/ StopwatchHolds \/ EchoHolds) ->
             [asks |-> Ask(FALSE, FALSE), since |-> "short"]
      [] ~critical /\ sounds = "none" /\ ~StopwatchHolds /\ ~EchoHolds
             /\ talk.running ->
             [asks |-> Ask(FALSE, FALSE), since |-> "unset"]
      [] OTHER -> IF since = "unset"
                  THEN [asks |-> << >>, since |-> "short"]
                  ELSE [asks |-> IF ~asleep /\ since = "long"
                                 THEN Ask(TRUE, FALSE) ELSE << >>,
                        since |-> since]

LoopReads ==
    /\ pass.at = "top"
    /\ LET asleep == power.asleep
           woke   == before.asleep /\ ~asleep
           policy == Policy(IF woke THEN "short" ELSE stopped, asleep)
           again  == IF before.critical /\ ~critical /\ asleep
                     THEN Ask(TRUE, FALSE) ELSE << >>
       IN  /\ stopped' = policy.since
           /\ pass' = [at |-> "asks", asks |-> again \o policy.asks]
           /\ before' = [asleep |-> asleep, critical |-> critical]
    /\ UNCHANGED <<power, voiced, lvglvars, sounds, seen, talk,
                   request, critical, happened>>

(* ui_set_sleep(), a request the next frame applies.                       *)
LoopAsks ==
    /\ pass.asks # << >> /\ pass' = [pass EXCEPT !.asks = Tail(@)]
    /\ power' = [power EXCEPT !.want = Head(pass.asks).sleep,
                              !.dim = Head(pass.asks).dim]
    /\ UNCHANGED <<voiced, lvglvars, sounds, seen, talk, request,
                   stopped, before, critical, happened>>

(* The idle timeout, not while a game holds the microphone.                *)
LoopIdles ==
    /\ pass.at = "asks" /\ pass.asks = << >>
    /\ pass' = [pass EXCEPT !.at = "top"]
    /\ LET ends == /\ talk.running /\ talk.ready /\ talk.quiet
                   /\ sounds = "none" /\ ~EchoHolds
       IN  /\ request' = IF ends THEN "stop" ELSE request
           /\ talk' = [talk EXCEPT !.quiet = @ /\ ~ends]
    /\ UNCHANGED <<power, voiced, lvglvars, sounds, seen, stopped,
                   before, critical, happened>>

LoopStep == LoopReads \/ LoopAsks \/ LoopIdles

ScreensNext ==
    \/ FrameBegins \/ FrameChooses
    \/ Pressed \/ Dragged \/ Released \/ LongPressed
    \/ Asked \/ Rings \/ RingEnds \/ Happens
    \/ SessionWorks \/ BecomesReady \/ TimePasses \/ LoopStep

(* The worker runs and sessions get ready; frames and the loop's passes    *)
(* follow each other, an alarm rings out, clocks advance (said of what     *)
(* they bring about).  Nobody has to press, to lift the finger or to ask.  *)
ScreensFairness ==
    /\ WF_screenvars(SessionWorks) /\ WF_screenvars(BecomesReady)
    /\ []<>(lvgl = "choose") /\ []<>(lvgl = "idle")
    /\ []<>(pass.at = "top") /\ []<>(pass.at = "asks")
    /\ []<>(sounds = "none")
    /\ []<>(stopped # "short") /\ []<>(game.active # "recent")
    /\ []<>~(talk.ready /\ ~talk.quiet)
    /\ []<>~(sheet.open /\ ~sheet.idle)

ScreensSpec == ScreensInit /\ [][ScreensNext]_screenvars /\ ScreensFairness

-----------------------------------------------------------------------------
(***************************************************************************)
(* Properties.                                                             *)
(***************************************************************************)

(* The variables keep their types.                                         *)
ScreensTypeOK ==
    /\ voiced \subseteq {"stopwatch", "echo", "test"} /\ test \in 0..TEST_STEPS
    /\ painted \in {"face", "panel", "clock", "stopwatch", "echo", "ring"}
    /\ finger.took \subseteq {"panel", "stopwatch", "echo", "ring", "test",
                              "session"}
    /\ sounds \in {"none", "on", "done"}
    /\ stopped \in {"unset", "short", "long"}
    /\ request \in {"none", "start", "stop"} /\ happened \in 0..MaxEvents

(* A game left alone gives the microphone and the stored history back:     *)
(* through the screen, the session it started, the panel pulled down over  *)
(* it, and the panel's own sleep, once nobody presses or asks.  The        *)
(* finger must be lifted: held on the open panel it keeps the panel open   *)
(* (ui_panel.c:957, 1191), and that the device awake (ui.c:2705).          *)
MicrophoneComesBack == []<>~finger.down => (game.open ~> ~game.open)

(* A press that began on a screen, the panel or the ring reaches neither    *)
(* the session nor the test, whatever takes the frame before it is lifted. *)
(* A press before the first frame after a swipe still meets the old screen.*)
TouchStaysOnItsScreen ==
    [][finger'.took \cap {"session", "test"} \subseteq finger.took
       \/ finger.began = "face" \/ finger.early]_screenvars

(* ui_panel.h: while open the panel owns the whole screen, and a press on  *)
(* it is its own.                                                          *)
PanelPressIsItsOwn == "panel" \in finger.took => finger.took = {"panel"}

=============================================================================
