------------------------------ MODULE Gestures ------------------------------
(***************************************************************************)
(* main/main.c: what the touch panel's button means.  A tap interrupts the *)
(* reply or toggles the session, a hold restarts it or offers to forget    *)
(* the conversation.  The panel's task (lvgl), the WebSocket task (ws) and *)
(* the main loop (loop) share stamps and deadlines in 32-bit milliseconds, *)
(* without a lock; the session's worker is the one of SessionCtl, in fewer *)
(* steps.                                                                  *)
(***************************************************************************)
EXTENDS Integers, Sequences, FiniteSetsExt

CONSTANTS
    Wrap,     \* the clock is modulo this, 2^32 in the code
    Step,     \* what the clock advances by at a time
    MUTE_MAX, INTERRUPT_GRACE, FORGET_CONFIRM, STATUS_NOTICE, COOLDOWN,
    Presses,  \* the controls used in this instance
    AgentDoes \* what the client's task reports in this instance

ASSUME ClockAssumption ==
    /\ Wrap \in Nat /\ Step \in 1 .. Wrap /\ Wrap % Step = 0
    /\ INTERRUPT_GRACE <= MUTE_MAX
    /\ \A d \in {MUTE_MAX, INTERRUPT_GRACE, FORGET_CONFIRM + STATUS_NOTICE,
                 FORGET_CONFIRM, STATUS_NOTICE, COOLDOWN} :
            /\ d \in 1 .. (Wrap - 1) \div 2
            /\ d % Step = 0

ASSUME InstanceAssumption ==
    /\ Presses \subseteq {"tap", "hold", "boot", "alarm"}
    /\ AgentDoes \subseteq {"audio", "done", "speaking", "gone", "text"}

None  == "none"
Tasks == {"lvgl", "ws", "loop"}

VARIABLES
    now,         \* now_ms()
    deadline,    \* s_mute_deadline_ms
    inbound,     \* s_turn_inbound
    grace,       \* s_interrupt_grace_ms
    armed,       \* s_forget_armed_ms
    notice,      \* s_notice_until_ms
    muted,       \* s_play_muted
    audible,     \* audio_io_playback_active()
    label,       \* the status line
    saved,       \* dg_agent_has_history()
    running, readyAt, slot,  \* s_running, s_ready_at_ms, the notification
    pc,          \* the worker; s_busy unless it waits
    again,       \* the stop under way is a restart's
    client,      \* the socket
    todo,        \* what each task has still to do of its call
    seen,        \* the loop's local variable armed
    sinceInterrupt, sinceAction, sinceOffer, \* history: time since, capped
    interrupted  \* history: a tap interrupted this session

mute    == <<deadline, muted>>
reply   == <<inbound, audible>>
offer   == <<armed, notice>>
worker  == <<running, readyAt, pc, again>>
ages    == <<sinceInterrupt, sinceAction, sinceOffer>>
vars    == <<now, mute, reply, grace, offer, label, saved, worker, slot,
             client, todo, seen, ages, interrupted>>

Idle(t) == todo[t] = << >>
Does(t, step) == ~Idle(t) /\ Head(todo[t]) = step
Then(t, steps) == todo' = [todo EXCEPT ![t] = steps]
Done(t) == Then(t, Tail(todo[t]))

-----------------------------------------------------------------------------
(***************************************************************************)
(* Deadlines: unsigned differences against half the range.                 *)
(***************************************************************************)
Half == (Wrap - 1) \div 2               \* UINT32_MAX / 2
Since(stamp) == (now - stamp) % Wrap

(* Mutant: a deadline that does not wrap.                                  *)
AfterUnwrapped(d) == now + d

After(d)     == (now + d) % Wrap
Past(d)      == d /= 0 /\ Since(d) < Half

(* Mutant: the deadline compared against the clock as it is.               *)
in_interrupt_grace_unwrapped == grace /= 0 /\ now < grace

in_interrupt_grace == grace /= 0 /\ Since(grace) >= Half
in_forget_window   == armed /= 0 /\ Since(armed) < FORGET_CONFIRM
cooling            == Since(readyAt) >= Half
busy               == pc /= "wait"

(* session_ctl's request(): refused while busy or cooling.                 *)
request(r) == IF busy \/ cooling THEN UNCHANGED slot ELSE slot' = r

Capped(age, cap) == Min({age, cap})
Forgotten == FORGET_CONFIRM  \* an offer this old no longer stands

Init ==
    /\ now = 1
    /\ deadline = 0 /\ muted = FALSE /\ inbound = FALSE /\ audible = FALSE
    /\ grace = 0 /\ armed = 0 /\ notice = 0 /\ label = "idle"
    /\ saved \in BOOLEAN
    /\ running = FALSE /\ readyAt = 0 /\ slot = "start"
    /\ pc = "wait" /\ again = FALSE /\ client = "down"
    /\ todo = [t \in Tasks |-> << >>] /\ seen = 0
    /\ sinceInterrupt = MUTE_MAX /\ sinceAction = COOLDOWN
    /\ sinceOffer = Forgotten
    /\ interrupted = FALSE

OfferIsOld == armed /= 0 /\ Since(armed) >= FORGET_CONFIRM
LoopIsDue  == Past(deadline) \/ OfferIsOld \/ (Past(notice) /\ ~busy)

(* None of these calls takes as long as a tick, and the loop and the       *)
(* worker come round in every one.                                         *)
Tick ==
    /\ ~LoopIsDue /\ pc /= "cool" /\ (slot = None \/ busy)
    /\ \A t \in Tasks : Idle(t)
    /\ now' = After(Step)
    /\ sinceInterrupt' = Capped(sinceInterrupt + Step, MUTE_MAX)
    /\ sinceAction' = Capped(sinceAction + Step, COOLDOWN)
    /\ sinceOffer' = Capped(sinceOffer + Step, Forgotten)
    /\ UNCHANGED <<mute, reply, grace, offer, label, saved, worker, slot,
                   client, todo, seen, interrupted>>

-----------------------------------------------------------------------------
(***************************************************************************)
(* on_gesture(), on the panel's task.  Every gesture takes the offer down. *)
(***************************************************************************)
(* Mutant: an offer outlives the gestures that were no answer to it.       *)
GestureKeepsOffer(press) ==
    press \in Presses /\ Idle("lvgl") /\ UNCHANGED armed

Gesture(press) ==
    /\ press \in Presses /\ Idle("lvgl")
    /\ armed' = 0

Withdraws == sinceOffer' = Forgotten

(* A ringing alarm owns the gesture.                                       *)
AlarmTakesGesture ==
    /\ Gesture("alarm") /\ Withdraws
    /\ UNCHANGED <<now, mute, reply, grace, notice, label, saved, worker,
                   slot, client, todo, seen, sinceInterrupt, sinceAction,
                   interrupted>>

(* do_interrupt(): the flush, the grace, and the test of s_turn_inbound.   *)
Interrupt ==
    /\ audible
    /\ grace' = After(INTERRUPT_GRACE) /\ sinceInterrupt' = 0
    /\ IF inbound THEN Then("lvgl", <<"mute", "deadline">>)
                  ELSE UNCHANGED todo
    /\ interrupted' = (interrupted \/ inbound) /\ UNCHANGED slot

Toggle ==
    /\ ~audible
    /\ IF in_interrupt_grace THEN UNCHANGED slot ELSE request("toggle")
    /\ UNCHANGED <<grace, sinceInterrupt, todo, interrupted>>

Tap ==
    /\ Gesture("tap") /\ Withdraws
    /\ Interrupt \/ Toggle
    /\ UNCHANGED <<now, mute, reply, notice, label, saved, worker, client,
                   seen, sinceAction>>

(* Mutant: the notice before the word it is for.                           *)
ConfirmStepsSwapped == <<"note forgotten", "clear">>

ConfirmSteps == <<"clear", "note forgotten">>

Hold ==
    /\ Gesture("hold")
    /\ IF running \/ busy \/ ~saved
       THEN request("restart") /\ Withdraws /\ UNCHANGED todo
       ELSE /\ Then("lvgl", IF in_forget_window
                            THEN ConfirmSteps
                            ELSE <<"arm", "note offer", "say offer">>)
            /\ UNCHANGED <<slot, sinceOffer>>
    /\ UNCHANGED <<now, mute, reply, grace, notice, label, saved, worker,
                   client, seen, sinceInterrupt, sinceAction, interrupted>>

Mute ==
    /\ Does("lvgl", "mute") /\ Done("lvgl")
    /\ muted' = TRUE
    /\ UNCHANGED <<now, deadline, reply, grace, offer, label, saved, worker,
                   slot, client, seen, ages, interrupted>>

ArmDeadline ==
    /\ Does("lvgl", "deadline") /\ Done("lvgl")
    /\ deadline' = After(MUTE_MAX)
    /\ UNCHANGED <<now, muted, reply, grace, offer, label, saved, worker,
                   slot, client, seen, ages, interrupted>>

ClearHistory ==
    /\ Does("lvgl", "clear") /\ Done("lvgl")
    /\ saved' = FALSE /\ label' = "forgotten" /\ Withdraws
    /\ UNCHANGED <<now, mute, reply, grace, offer, worker, slot, client,
                   seen, sinceInterrupt, sinceAction, interrupted>>

NoteForgotten ==
    /\ Does("lvgl", "note forgotten") /\ Done("lvgl")
    /\ notice' = After(STATUS_NOTICE)
    /\ UNCHANGED <<now, mute, reply, grace, armed, label, saved, worker,
                   slot, client, seen, ages, interrupted>>

Arm ==
    /\ Does("lvgl", "arm") /\ Done("lvgl")
    /\ armed' = now
    /\ sinceOffer' = 0
    /\ UNCHANGED <<now, mute, reply, grace, notice, label, saved, worker,
                   slot, client, seen, sinceInterrupt, sinceAction,
                   interrupted>>

NoteOffer ==
    /\ Does("lvgl", "note offer") /\ Done("lvgl")
    /\ notice' = After(FORGET_CONFIRM + STATUS_NOTICE)
    /\ UNCHANGED <<now, mute, reply, grace, armed, label, saved, worker,
                   slot, client, seen, ages, interrupted>>

SayOffer ==
    /\ Does("lvgl", "say offer") /\ Done("lvgl")
    /\ label' = "offer"
    /\ UNCHANGED <<now, mute, reply, grace, offer, saved, worker, slot,
                   client, seen, ages, interrupted>>

(* boot_button.c's on_click(): a toggle, whatever the audio is doing.      *)
BootClick ==
    /\ "boot" \in Presses
    /\ request("toggle")
    /\ UNCHANGED <<now, mute, reply, grace, offer, label, saved, worker,
                   client, todo, seen, ages, interrupted>>

-----------------------------------------------------------------------------
(***************************************************************************)
(* end_interrupt(): the test, the deadline, the mute.                      *)
(***************************************************************************)
EndTest(t) ==
    /\ Does(t, "end")
    /\ IF deadline = 0 THEN Done(t) ELSE Then(t, <<"zero", "unmute">>)
    /\ UNCHANGED <<now, mute, reply, grace, offer, label, saved, worker,
                   slot, client, seen, ages, interrupted>>

EndDeadline(t) ==
    /\ Does(t, "zero") /\ Done(t)
    /\ deadline' = 0
    /\ UNCHANGED <<now, muted, reply, grace, offer, label, saved, worker,
                   slot, client, seen, ages, interrupted>>

(* Mutant: the mute is left to AgentAudioDone.                             *)
UnmuteLater(t) ==
    /\ Does(t, "unmute") /\ Done(t)
    /\ muted' = (muted /\ inbound)
    /\ UNCHANGED <<now, deadline, reply, grace, offer, label, saved, worker,
                   slot, client, seen, ages, interrupted>>

Unmute(t) ==
    /\ Does(t, "unmute") /\ Done(t)
    /\ muted' = FALSE
    /\ UNCHANGED <<now, deadline, reply, grace, offer, label, saved, worker,
                   slot, client, seen, ages, interrupted>>

(***************************************************************************)
(* The callbacks, on the WebSocket task.  on_state() is not called during  *)
(* a stop.                                                                 *)
(***************************************************************************)
Reports(event) == event \in AgentDoes /\ client = "up" /\ Idle("ws")

(* Mutant: a deadline outlives its session.                                *)
ConnectedUnended ==
    /\ client = "opening" /\ Idle("ws") /\ Idle("lvgl") /\ pc /= "stop"
    /\ client' = "up" /\ inbound' = FALSE /\ label' = "other"
    /\ interrupted' = FALSE
    /\ UNCHANGED <<now, mute, audible, grace, offer, saved, worker, slot,
                   todo, seen, ages>>

(* DG_AGENT_CONNECTED.  Opening a socket takes longer than do_interrupt(). *)
Connected ==
    /\ client = "opening" /\ Idle("ws") /\ Idle("lvgl") /\ pc /= "stop"
    /\ client' = "up" /\ inbound' = FALSE /\ label' = "other"
    /\ interrupted' = FALSE
    /\ Then("ws", <<"end">>)
    /\ UNCHANGED <<now, mute, audible, grace, offer, saved, worker, slot,
                   seen, ages>>

(* DG_AGENT_DISCONNECTED, ERROR, BAD_KEY: the client opens another socket. *)
Gone ==
    /\ Reports("gone") /\ pc /= "stop"
    /\ client' = "opening" /\ inbound' = FALSE /\ label' = "other"
   
    /\ Then("ws", <<"end">>)
    /\ UNCHANGED <<now, mute, audible, grace, offer, saved, worker, slot,
                   seen, ages, interrupted>>

(* on_audio(): what arrives while muted is dropped.                        *)
Audio ==
    /\ Reports("audio")
    /\ inbound' = TRUE /\ audible' = (audible \/ ~muted)
    /\ UNCHANGED <<now, mute, grace, offer, label, saved, worker, slot,
                   client, todo, seen, ages, interrupted>>

(* on_agent_audio_done()                                                   *)
AudioDone ==
    /\ Reports("done")
    /\ inbound' = FALSE
    /\ Then("ws", <<"end">>)
    /\ UNCHANGED <<now, mute, audible, grace, offer, label, saved, worker,
                   slot, client, seen, ages, interrupted>>

(* on_user_started_speaking()                                              *)
UserSpeaks ==
    /\ Reports("speaking")
   
    /\ Then("ws", <<"end">>)
    /\ UNCHANGED <<now, mute, reply, grace, offer, label, saved, worker,
                   slot, client, seen, ages, interrupted>>

ConversationText ==
    /\ Reports("text")
    /\ saved' = TRUE
    /\ UNCHANGED <<now, mute, reply, grace, offer, label, worker, slot,
                   client, todo, seen, ages, interrupted>>

(* The ring runs dry, or is flushed, and the tail passes.                  *)
Drained ==
    /\ audible' = FALSE /\ audible
    /\ UNCHANGED <<now, mute, inbound, grace, offer, label, saved, worker,
                   slot, client, todo, seen, ages, interrupted>>

-----------------------------------------------------------------------------
(***************************************************************************)
(* The main loop: the backstop, the offer's end, the notice's end.         *)
(***************************************************************************)
Backstop ==
    /\ Idle("loop") /\ Past(deadline)
    /\ Then("loop", <<"end">>)
    /\ UNCHANGED <<now, mute, reply, grace, offer, label, saved, worker, slot,
                   client, seen, ages, interrupted>>

RetireOffer ==
    /\ Idle("loop") /\ OfferIsOld
    /\ seen' = armed /\ Then("loop", <<"compare">>)
    /\ UNCHANGED <<now, mute, reply, grace, offer, label, saved, worker, slot,
                   client, ages, interrupted>>

CompareOffer ==
    /\ Does("loop", "compare")
    /\ IF armed = seen THEN Then("loop", <<"disarm", "lapse">>)
                       ELSE Done("loop")
    /\ seen' = 0
    /\ UNCHANGED <<now, mute, reply, grace, offer, label, saved, worker, slot,
                   client, ages, interrupted>>

Disarm ==
    /\ Does("loop", "disarm") /\ Done("loop")
    /\ armed' = 0
    /\ UNCHANGED <<now, mute, reply, grace, notice, label, saved, worker,
                   slot, client, seen, ages, interrupted>>

LapseOffer ==
    /\ Does("loop", "lapse") /\ Done("loop")
    /\ notice' = now
    /\ UNCHANGED <<now, mute, reply, grace, armed, label, saved, worker,
                   slot, client, seen, ages, interrupted>>

RetireNotice ==
    /\ Idle("loop") /\ Past(notice) /\ ~busy
    /\ Then("loop", <<"settle", "repaint">>)
    /\ UNCHANGED <<now, mute, reply, grace, offer, label, saved, worker, slot,
                   client, seen, ages, interrupted>>

SettleNotice ==
    /\ Does("loop", "settle") /\ Done("loop")
    /\ notice' = 0
    /\ UNCHANGED <<now, mute, reply, grace, armed, label, saved, worker,
                   slot, client, seen, ages, interrupted>>

(* session_ctl_repaint_idle_status()                                       *)
Repaint ==
    /\ Does("loop", "repaint") /\ Done("loop")
    /\ label' = IF running THEN label ELSE "idle"
    /\ UNCHANGED <<now, mute, reply, grace, offer, saved, worker, slot,
                   client, seen, ages, interrupted>>

-----------------------------------------------------------------------------
(***************************************************************************)
(* The worker, see SessionCtl.  A stop or a start takes longer than a      *)
(* gesture's call.                                                         *)
(***************************************************************************)
TakeRequest ==
    /\ pc = "wait" /\ slot /= None /\ slot' = None
    /\ pc' = IF running THEN "stop" ELSE "start"
    /\ again' = (slot = "restart") /\ label' = "other"
    /\ UNCHANGED <<now, mute, reply, grace, offer, saved, running, readyAt,
                   client, todo, seen, ages, interrupted>>

(* do_stop() is through: the client is gone, audio_io_reset() has lifted   *)
(* the mute and left the deadline.                                         *)
StopEnds ==
    /\ pc = "stop" /\ Idle("ws") /\ Idle("lvgl")
    /\ client' = "down" /\ running' = FALSE
    /\ muted' = FALSE /\ audible' = FALSE
    /\ pc' = IF again THEN "start" ELSE "cool"
    /\ label' = IF again THEN "other" ELSE "idle"
    /\ UNCHANGED <<now, deadline, inbound, grace, offer, saved, readyAt,
                   again, slot, todo, seen, ages, interrupted>>

StartEnds ==
    /\ pc = "start" /\ Idle("lvgl") /\ pc' = "cool"
    /\ \/ running' = TRUE /\ client' = "opening" /\ UNCHANGED label
       \/ label' = "idle" /\ UNCHANGED <<running, client>>
    /\ UNCHANGED <<now, mute, reply, grace, offer, saved, readyAt, again,
                   slot, todo, seen, ages, interrupted>>

ActionEnds ==
    /\ pc = "cool" /\ pc' = "wait"
    /\ readyAt' = After(COOLDOWN) /\ sinceAction' = 0
    /\ UNCHANGED <<now, mute, reply, grace, offer, label, saved, running,
                   again, slot, client, todo, seen, sinceInterrupt,
                   sinceOffer, interrupted>>

Gestured == AlarmTakesGesture \/ Tap \/ Hold \/ BootClick
GestureStep == Mute \/ ArmDeadline \/ ClearHistory \/ NoteForgotten \/ Arm
                    \/ NoteOffer \/ SayOffer
Callback == Connected \/ Gone \/ Audio \/ AudioDone \/ UserSpeaks
                      \/ ConversationText
EndStep(t) == EndTest(t) \/ EndDeadline(t) \/ Unmute(t)
LoopStep == Backstop \/ RetireOffer \/ CompareOffer \/ Disarm \/ LapseOffer
                     \/ RetireNotice \/ SettleNotice \/ Repaint
WorkerStep == TakeRequest \/ StopEnds \/ StartEnds \/ ActionEnds

Next ==
    \/ Tick
    \/ Gestured
    \/ GestureStep
    \/ Callback
    \/ \E t \in {"ws", "loop"} : EndStep(t)
    \/ Drained
    \/ LoopStep
    \/ WorkerStep

Spec == Init /\ [][Next]_vars

(* Time passes, calls go on, the loop comes round, sound dies away.        *)
Fairness ==
    /\ WF_vars(Tick) /\ WF_vars(Drained)
    /\ WF_vars(GestureStep) /\ WF_vars(LoopStep) /\ WF_vars(WorkerStep)
    /\ \A t \in {"ws", "loop"} : WF_vars(EndStep(t))

FairSpec == Spec /\ Fairness

-----------------------------------------------------------------------------
Stamps == 0 .. Wrap - 1

TypeOK ==
    /\ {now, deadline, grace, armed, notice, readyAt, seen} \subseteq Stamps
    /\ {inbound, muted, audible, saved, running, again,
        interrupted} \subseteq BOOLEAN
    /\ label \in {"idle", "offer", "forgotten", "other"}
    /\ slot \in {None, "start", "toggle", "restart"}
    /\ pc \in {"wait", "stop", "start", "cool"}
    /\ client \in {"down", "opening", "up"}
    /\ \A t \in Tasks : Len(todo[t]) <= 3
    /\ sinceInterrupt \in 0 .. MUTE_MAX /\ sinceAction \in 0 .. COOLDOWN
    /\ sinceOffer \in 0 .. Forgotten

(* However taps, replies, disconnects, stops and the backstop were         *)
(* interleaved, no mute is left without something that will lift it: "An   *)
(* interrupted turn's mute, and the deadline that guarantees it ends"      *)
(* (main.c, the comment under INTERRUPT STATE).                            *)
MuteHasDeadline ==
    muted => \/ deadline /= 0
             \/ Does("lvgl", "deadline")
             \/ \E t \in {"ws", "loop"} : Does(t, "unmute")

(* A session in which nobody interrupted is neither muted nor chased by a  *)
(* deadline of the session before it.                                      *)
NewSessionIsHeard ==
    client = "up" /\ Idle("ws") /\ Idle("loop") /\ ~interrupted =>
        ~muted /\ deadline = 0

(* Every mute belongs to somebody who will end it, and to this session.    *)
MuteHasAnEnd == MuteHasDeadline /\ NewSessionIsHeard

(* And the guarantee itself.                                               *)
MuteEnds == muted ~> ~muted

(* The second tap of a double tap never hangs up, though the first has     *)
(* silenced the speaker whose sound told the two meanings apart.           *)
InterruptNeverHangsUp ==
    [][Tap /\ sinceInterrupt < INTERRUPT_GRACE => slot' = slot]_vars

(* The conversation is cleared by the second of two holds with no other    *)
(* touch between them and the offer still young.                           *)
ForgetIsConfirmed ==
    [][Does("lvgl", "clear") /\ todo' /= todo /\ saved' /= saved
           => sinceOffer < FORGET_CONFIRM]_vars

(* "forgotten" does not stay on the panel of a stopped device, though the  *)
(* loop may be retiring an older notice while the new one is being set.    *)
AtRest == ~running /\ ~busy /\ \A t \in Tasks : Idle(t)
ForgottenIsRetired == label = "forgotten" /\ AtRest => notice /= 0

(* "it still works a beat later" (docs/session-control.md, of the tap that *)
(* ends or starts a session): once the grace and the cooldown are over,    *)
(* neither refuses it.                                                     *)
TapsAreTaken ==
    ~busy /\ sinceInterrupt >= INTERRUPT_GRACE /\ sinceAction >= COOLDOWN
        => ~cooling /\ ~in_interrupt_grace
=============================================================================
