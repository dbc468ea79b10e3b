----------------------------- MODULE SessionCtl -----------------------------
(***************************************************************************)
(* main/session_ctl.c: the one task that starts and stops the agent        *)
(* session, and everybody who asks it to.                                  *)
(*                                                                         *)
(* A gesture travels as the VALUE of the worker's task notification, one   *)
(* slot that a later value overwrites.  Background work (saving, a         *)
(* deferred reload, an alarm's start) travels as a FLAG plus a wake-up     *)
(* that carries no value.  The actors are the worker itself (pc), the      *)
(* tasks that post to it (posting), the WebSocket task of the running      *)
(* client (ws), and the main loop, which watches the worker (main).        *)
(***************************************************************************)
EXTENDS Naturals, FiniteSets

CONSTANTS
    Gestures,    \* the gesture requests this instance posts
    Deferred,    \* the deferred requests this instance posts
    Chores,      \* the saves compiled in (the denoiser's is optional)
    ClientEvents,\* what the client's task does in this instance
    Duties,      \* what the main loop does in this instance
    MaxPosters,  \* bound: tasks that are inside a request at the same time
    LongCooldown \* the cooldown outlasts the worker's way back to its wait

AllGestures == {"START", "TOGGLE", "RESTART", "STOP"}
AllDeferred == {"RELOAD_SOON", "START_SOON"}
AllChores   == {"history", "denoiser", "settings"}

ASSUME ConstantsAssumption ==
    /\ Gestures \subseteq AllGestures
    /\ Deferred \subseteq AllDeferred
    /\ Chores \subseteq AllChores
    /\ ClientEvents \subseteq {"audio", "state", "reload"}
    /\ Duties \subseteq {"radio", "watchdog", "notice"}
    /\ MaxPosters \in Nat
    /\ LongCooldown \in BOOLEAN

None     == "none"                                     \* a request of 0
Requests == AllGestures \cup AllDeferred \cup {"RELOAD"}
Flags    == Deferred \cup Chores

VARIABLES
    pc,          \* where the worker is
    req,         \* the request it has in hand
    saving,      \* it is inside a save, blocked on flash
    slot,        \* the notification value
    notified,    \* the notification is pending
    wanted,      \* the flags that are up
    unsaved,     \* data changed since it was last written
    posting,     \* requests and flags whose poster is about to notify
    running,     \* s_running
    startFailed, \* s_start_failed
    busy,        \* s_busy
    busySince,   \* s_busy_since_ms: 0, under 30 s ago, or longer ago
    cooling,     \* s_ready_at_ms is still ahead
    client,      \* the WebSocket client
    ws,          \* what the client's task is in the middle of
    suppress,    \* s_suppress_state
    carry,       \* s_in_carry_valid: half a sample waits for its other byte
    unflushed,   \* audio was queued after the last audio_io_flush()
    capture,     \* the microphone feeds the session
    fullSpeed,   \* the CPU frequency lock is held
    radio,       \* Wi-Fi power save: off ("awake") or on ("asleep")
    label,       \* the status line
    stopped,     \* ui_set_stopped()
    main,        \* where the main loop is
    endedOnPurpose \* history: a tap or the idle timeout ended the last session

worker  == <<pc, req, saving>>
mailbox == <<slot, notified>>
asks    == <<wanted, unsaved, posting>>
gate    == <<busy, busySince, cooling>>
session == <<running, startFailed, endedOnPurpose>>
agent   == <<client, ws, suppress>>
audio   == <<carry, unflushed, capture>>
power   == <<fullSpeed, radio>>
panel   == <<label, stopped>>
vars == <<worker, mailbox, asks, gate, session, agent, audio, power, panel,
          main>>

-----------------------------------------------------------------------------
(* The worker's program. *)

ChorePcs == AllChores
StopPcs  == {"stop", "stopCapture", "stopAgent", "stopClient", "stopFlush",
             "stopDown", "stopSave"}
StartPcs == {"start", "startClient", "startUp"}
AllPcs   == {"none", "wait", "promoteReload", "promoteStart", "stamp", "raise",
             "dispatch", "cool", "lower", "clear"}
            \cup ChorePcs \cup StopPcs \cup StartPcs

Resting  == {"none", "wait"}

AfterChore == [c \in AllChores |->
    CASE c = "history" -> "denoiser"
      [] c = "denoiser" -> "settings"
      [] c = "settings" -> "dispatch"]

Init ==
    /\ pc = "none" /\ req = None /\ saving = FALSE
    /\ slot = None /\ notified = FALSE
    /\ wanted = {} /\ unsaved = {} /\ posting = {}
    /\ running = FALSE /\ startFailed = FALSE /\ endedOnPurpose = FALSE
    /\ busy = FALSE /\ busySince = "zero" /\ cooling = FALSE
    /\ client = "down" /\ ws = "idle" /\ suppress = FALSE
    /\ carry = FALSE /\ unflushed = FALSE /\ capture = FALSE
    /\ fullSpeed = FALSE /\ radio = "asleep"
    /\ label = "idle" /\ stopped = FALSE
    /\ main = "create"

-----------------------------------------------------------------------------
(* Posting to the worker. *)

(* xTaskNotify(s_task, r, eSetValueWithOverwrite); dropped without a task. *)
NotifyValue(r) ==
    IF pc = "none"
      THEN UNCHANGED mailbox
      ELSE slot' = r /\ notified' = TRUE

(* Mutant: a wake-up sent with eSetValueWithOverwrite. *)
NotifyPokeOverwrites ==
    IF pc = "none"
      THEN UNCHANGED mailbox
      ELSE slot' = None /\ notified' = TRUE

(* xTaskNotify(s_task, 0, eNoAction): a wake-up that leaves the value alone. *)
NotifyPoke ==
    /\ notified' = (notified \/ pc # "none")
    /\ UNCHANGED slot

(* request(): the debounce, then the notification. The worker may get        *)
(* anywhere between the two.                                                 *)
RequestCheck(g) ==
    /\ g \notin posting
    /\ Cardinality(posting) < MaxPosters
    /\ pc # "none"
    /\ ~busy /\ ~cooling
    /\ posting' = posting \cup {g}
    /\ UNCHANGED <<worker, mailbox, wanted, unsaved, gate, session, agent,
                   audio, power, panel, main>>

RequestNotify(g) ==
    /\ g \in posting
    /\ posting' = posting \ {g}
    /\ NotifyValue(g)
    /\ UNCHANGED <<worker, wanted, unsaved, gate, session, agent, audio,
                   power, panel, main>>

(* session_ctl_request_history_flush(), _ns_save(), _settings_save(),        *)
(* _reload_soon() and _start_soon(): the flag, then the wake-up.  A save is  *)
(* asked for after the data it is about has changed.                         *)
RaiseFlag(f) ==
    /\ f \notin posting
    /\ Cardinality(posting) < MaxPosters
    /\ wanted' = wanted \cup {f}
    /\ unsaved' = unsaved \cup ({f} \cap Chores)
    /\ posting' = posting \cup {f}
    /\ UNCHANGED <<worker, mailbox, gate, session, agent, audio, power, panel,
                   main>>

PokeFlag(f) ==
    /\ f \in posting
    /\ posting' = posting \ {f}
    /\ NotifyPoke
    /\ UNCHANGED <<worker, wanted, unsaved, gate, session, agent, audio,
                   power, panel, main>>

-----------------------------------------------------------------------------
(* The worker: waking up. *)

(* xTaskNotifyWait(0, UINT32_MAX, &req, portMAX_DELAY) *)
Take ==
    /\ pc = "wait" /\ notified
    /\ req' = slot
    /\ slot' = None
    /\ notified' = FALSE
    /\ pc' = "promoteReload"
    /\ UNCHANGED <<saving, asks, gate, session, agent, audio, power, panel,
                   main>>

(* Mutant: a promotion that posts the request as a value. *)
PromoteByPosting(flag) ==
    IF flag \notin wanted \/ req # None
      THEN UNCHANGED <<req, wanted, mailbox>>
      ELSE /\ slot' = flag /\ notified' = TRUE
           /\ wanted' = wanted \ {flag}
           /\ UNCHANGED req

(* Mutant: no second look after the request in hand. *)
PromoteWithoutPoke(flag) ==
    IF flag \notin wanted \/ req # None
      THEN UNCHANGED <<req, wanted, mailbox>>
      ELSE /\ req' = flag
           /\ wanted' = wanted \ {flag}
           /\ UNCHANGED mailbox

(* Mutant: the flag is cleared although another request is in hand. *)
PromoteClearsFirst(flag) ==
    /\ wanted' = wanted \ {flag}
    /\ req' = IF flag \in wanted /\ req = None THEN flag ELSE req
    /\ UNCHANGED mailbox

(* Turn the flag into a request of its own, or look again after the one in   *)
(* hand.                                                                     *)
Promote(flag) ==
    IF flag \notin wanted
      THEN UNCHANGED <<req, wanted, mailbox>>
    ELSE IF req = None
      THEN /\ req' = flag
           /\ wanted' = wanted \ {flag}
           /\ UNCHANGED mailbox
    ELSE /\ NotifyPoke
         /\ UNCHANGED <<req, wanted>>

PromoteReload ==
    /\ pc = "promoteReload"
    /\ Promote("RELOAD_SOON")
    /\ pc' = "promoteStart"
    /\ UNCHANGED <<saving, unsaved, posting, gate, session, agent, audio,
                   power, panel, main>>

PromoteStart ==
    /\ pc = "promoteStart"
    /\ Promote("START_SOON")
    /\ pc' = "stamp"
    /\ UNCHANGED <<saving, unsaved, posting, gate, session, agent, audio,
                   power, panel, main>>

(* Mutant: the action is never stamped. *)
StampNothing ==
    /\ pc = "stamp"
    /\ pc' = "raise"
    /\ UNCHANGED <<req, saving, mailbox, asks, gate, session, agent, audio,
                   power, panel, main>>

Stamp ==
    /\ pc = "stamp"
    /\ IF req = None
         THEN UNCHANGED busySince
         ELSE busySince' = "recent"
    /\ pc' = "raise"
    /\ UNCHANGED <<req, saving, mailbox, asks, busy, cooling, session, agent,
                   audio, power, panel, main>>

(* Mutant: deferred work runs inline, without the busy flag. *)
RaiseBusyForGestures ==
    /\ pc = "raise"
    /\ busy' = (busy \/ req \notin AllDeferred \cup {None})
    /\ pc' = "history"
    /\ UNCHANGED <<req, saving, mailbox, asks, busySince, cooling, session,
                   agent, audio, power, panel, main>>

RaiseBusy ==
    /\ pc = "raise"
    /\ busy' = (busy \/ req # None)
    /\ pc' = "history"
    /\ UNCHANGED <<req, saving, mailbox, asks, busySince, cooling, session,
                   agent, audio, power, panel, main>>

(* One save: test and clear the flag, then write what there is. The write    *)
(* blocks for a flash erase, and the data may change again meanwhile.        *)
DoChore(c) ==
    /\ pc = c
    /\ \/ /\ ~saving /\ c \in wanted
          /\ wanted' = wanted \ {c}
          /\ saving' = TRUE
          /\ UNCHANGED <<pc, unsaved>>
       \/ /\ saving
          /\ unsaved' = unsaved \ {c}
          /\ saving' = FALSE
          /\ pc' = AfterChore[c]
          /\ UNCHANGED wanted
       \/ /\ ~saving /\ c \notin wanted
          /\ pc' = AfterChore[c]
          /\ UNCHANGED <<saving, wanted, unsaved>>
    /\ UNCHANGED <<req, posting, mailbox, gate, session, agent, audio, power,
                   panel, main>>

-----------------------------------------------------------------------------
(* The worker: acting on the request. *)

Reloads == {"RESTART", "RELOAD", "RELOAD_SOON"}   \* do_stop() then do_start()

(* Mutant: a deferred reload without the test of s_running. *)
NothingToDoForStartOnly == req = "START_SOON" /\ running

(* The deferred forms that find nothing to do, and are charged no cooldown. *)
NothingToDo == \/ req = "RELOAD_SOON" /\ ~running
               \/ req = "START_SOON" /\ running

StopsSession  == running /\ req \in {"TOGGLE", "STOP"} \cup Reloads
StartsSession ==
    ~running /\ req \in {"START", "TOGGLE", "START_SOON"} \cup Reloads

AfterDispatch ==
    IF req = None THEN "wait"
    ELSE IF NothingToDo THEN "lower"
    ELSE IF StopsSession THEN "stop"
    ELSE IF StartsSession THEN "start"
    ELSE "cool"

Dispatch ==
    /\ pc = "dispatch"
    /\ pc' = AfterDispatch
    /\ UNCHANGED <<req, saving, mailbox, asks, gate, session, agent, audio,
                   power, panel, main>>

(* do_stop() *)

StopSuppress ==
    /\ pc = "stop"
    /\ suppress' = TRUE
    /\ label' = "stopping"
    /\ pc' = "stopCapture"
    /\ UNCHANGED <<req, saving, mailbox, asks, gate, session, client, ws,
                   audio, power, stopped, main>>

(* Mutant: audio_io_reset() with the first flush, ahead of dg_agent_stop(). *)
StopCaptureAndReset ==
    /\ pc = "stopCapture"
    /\ capture' = FALSE
    /\ unflushed' = FALSE
    /\ carry' = FALSE
    /\ pc' = "stopAgent"
    /\ UNCHANGED <<req, saving, mailbox, asks, gate, session, agent, power,
                   panel, main>>

StopCapture ==
    /\ pc = "stopCapture"
    /\ capture' = FALSE
    /\ unflushed' = FALSE
    /\ pc' = "stopAgent"
    /\ UNCHANGED <<req, saving, mailbox, asks, gate, session, agent, carry,
                   power, panel, main>>

(* dg_agent_stop() blocks: it quiesces the senders and then waits, without a *)
(* deadline, for the client's task to finish what it is dispatching.         *)
StopAgent ==
    /\ pc = "stopAgent"
    /\ client' = "closing"
    /\ pc' = "stopClient"
    /\ UNCHANGED <<req, saving, mailbox, asks, gate, session, ws, suppress,
                   audio, power, panel, main>>

StopClient ==
    /\ pc = "stopClient"
    /\ ws = "idle"
    /\ client' = "down"
    /\ pc' = "stopFlush"
    /\ UNCHANGED <<req, saving, mailbox, asks, gate, session, ws, suppress,
                   audio, power, panel, main>>

(* Mutant: the first flush was enough. *)
StopFlushOnce ==
    /\ pc = "stopFlush"
    /\ carry' = FALSE
    /\ pc' = "stopDown"
    /\ UNCHANGED <<req, saving, mailbox, asks, gate, session, agent, unflushed,
                   capture, power, panel, main>>

(* The second audio_io_flush(), and audio_io_reset(). *)
StopFlush ==
    /\ pc = "stopFlush"
    /\ unflushed' = FALSE
    /\ carry' = FALSE
    /\ pc' = "stopDown"
    /\ UNCHANGED <<req, saving, mailbox, asks, gate, session, agent, capture,
                   power, panel, main>>

(* What session_ctl_repaint_idle_status() says of a stopped device. *)
IdleLabel == IF startFailed THEN "error" ELSE "idle"

(* Mutant: a busy guard inside session_ctl_repaint_idle_status(). *)
StopDownGuarded ==
    /\ pc = "stopDown"
    /\ running' = FALSE
    /\ endedOnPurpose' = (req \in {"TOGGLE", "STOP"})
    /\ fullSpeed' = FALSE
    /\ stopped' = TRUE
    /\ label' = IF busy THEN label ELSE IdleLabel
    /\ pc' = "stopSave"
    /\ UNCHANGED <<req, saving, mailbox, asks, gate, startFailed, agent, audio,
                   radio, main>>

StopDown ==
    /\ pc = "stopDown"
    /\ running' = FALSE
    /\ endedOnPurpose' = (req \in {"TOGGLE", "STOP"})
    /\ fullSpeed' = FALSE
    /\ stopped' = TRUE
    /\ label' = IdleLabel
    /\ pc' = "stopSave"
    /\ UNCHANGED <<req, saving, mailbox, asks, gate, startFailed, agent, audio,
                   radio, main>>

(* dg_agent_flush_history(), on the way out of every stop. *)
StopSave ==
    /\ pc = "stopSave"
    /\ unsaved' = unsaved \ {"history"}
    /\ pc' = IF req \in Reloads THEN "start" ELSE "cool"
    /\ UNCHANGED <<req, saving, mailbox, wanted, posting, gate, session, agent,
                   audio, power, panel, main>>

(* do_start() *)

StartPrepare ==
    /\ pc = "start"
    /\ startFailed' = FALSE
    /\ suppress' = FALSE
    /\ stopped' = FALSE
    /\ label' = "opening"
    /\ fullSpeed' = TRUE
    /\ radio' = "awake"
    /\ pc' = "startClient"
    /\ UNCHANGED <<req, saving, mailbox, asks, gate, running, endedOnPurpose,
                   client, ws, audio, main>>

StartClient ==
    /\ pc = "startClient"
    /\ \/ /\ client' = "up"
          /\ pc' = "startUp"
          /\ UNCHANGED <<startFailed, panel, fullSpeed>>
       \/ /\ startFailed' = TRUE
          /\ stopped' = TRUE
          /\ label' = "error"
          /\ fullSpeed' = FALSE
          /\ pc' = "cool"
          /\ UNCHANGED client
    /\ UNCHANGED <<req, saving, mailbox, asks, gate, running, endedOnPurpose,
                   ws, suppress, audio, radio, main>>

(* Mutant: the microphone stays off. *)
StartUpDeaf ==
    /\ pc = "startUp"
    /\ running' = TRUE
    /\ pc' = "cool"
    /\ UNCHANGED <<req, saving, mailbox, asks, gate, startFailed,
                   endedOnPurpose, agent, audio, power, panel, main>>

StartUp ==
    /\ pc = "startUp"
    /\ running' = TRUE
    /\ capture' = TRUE
    /\ pc' = "cool"
    /\ UNCHANGED <<req, saving, mailbox, asks, gate, startFailed,
                   endedOnPurpose, agent, carry, unflushed, power, panel,
                   main>>

(* Done: the quiet period, then the flag, then the stamp. *)

Cool ==
    /\ pc = "cool"
    /\ cooling' = TRUE
    /\ pc' = "lower"
    /\ UNCHANGED <<req, saving, mailbox, asks, busy, busySince, session, agent,
                   audio, power, panel, main>>

LowerBusy ==
    /\ pc = "lower"
    /\ busy' = FALSE
    /\ pc' = "clear"
    /\ UNCHANGED <<req, saving, mailbox, asks, busySince, cooling, session,
                   agent, audio, power, panel, main>>

ClearStamp ==
    /\ pc = "clear"
    /\ busySince' = "zero"
    /\ req' = None
    /\ pc' = "wait"
    /\ UNCHANGED <<saving, mailbox, asks, busy, cooling, session, agent, audio,
                   power, panel, main>>

-----------------------------------------------------------------------------
(* The WebSocket task, alive from dg_agent_start() to the end of             *)
(* dg_agent_stop().                                                          *)

WsDispatching == client \in {"up", "closing"} /\ ws = "idle"

(* on_audio() -> audio_io_play(): the ring, and the byte left over. *)
WsAudio ==
    /\ "audio" \in ClientEvents
    /\ WsDispatching
    /\ ws' = "audio"
    /\ UNCHANGED <<worker, mailbox, asks, gate, session, client, suppress,
                   audio, power, panel, main>>

WsAudioDone ==
    /\ ws = "audio"
    /\ unflushed' = TRUE
    /\ carry' \in BOOLEAN
    /\ ws' = "idle"
    /\ UNCHANGED <<worker, mailbox, asks, gate, session, client, suppress,
                   capture, power, panel, main>>

(* set_state(): the test of s_suppress_state, then on_state() -> the label. *)
WsState ==
    /\ "state" \in ClientEvents
    /\ WsDispatching
    /\ ~suppress
    /\ ws' = "state"
    /\ UNCHANGED <<worker, mailbox, asks, gate, session, client, suppress,
                   audio, power, panel, main>>

WsPaint ==
    /\ ws = "state"
    /\ label' = "agent"
    /\ ws' = "idle"
    /\ UNCHANGED <<worker, mailbox, asks, gate, session, client, suppress,
                   audio, power, stopped, main>>

(* on_reload_required() -> request_now(REQ_RELOAD): no debounce. *)
WsReload ==
    /\ "reload" \in ClientEvents
    /\ WsDispatching
    /\ NotifyValue("RELOAD")
    /\ UNCHANGED <<worker, asks, gate, session, agent, audio, power, panel,
                   main>>

-----------------------------------------------------------------------------
(* The main loop, once a second: the radio policy, the stuck-session         *)
(* watchdog, the lapsed notice.                                              *)

(* The duty after duty c, in the loop's order c, a, b. *)
NextDuty(a, b, c) == IF a \in Duties THEN a ELSE IF b \in Duties THEN b ELSE c
AfterRadio    == NextDuty("watchdog", "notice", "radio")
AfterWatchdog == NextDuty("notice", "radio", "watchdog")
AfterNotice   == NextDuty("radio", "watchdog", "notice")

CreateWorker ==
    /\ main = "create"
    /\ pc = "none"
    /\ pc' = "wait"
    /\ main' = "firstCheck"
    /\ UNCHANGED <<req, saving, mailbox, asks, gate, session, agent, audio,
                   power, panel>>

(* session_ctl_request_start() at the end of the boot: a gesture request. *)
FirstCheck ==
    /\ main = "firstCheck"
    /\ main' = IF busy \/ cooling THEN AfterNotice ELSE "firstNotify"
    /\ UNCHANGED <<worker, mailbox, asks, gate, session, agent, audio, power,
                   panel>>

FirstNotify ==
    /\ main = "firstNotify"
    /\ NotifyValue("START")
    /\ main' = AfterNotice
    /\ UNCHANGED <<worker, asks, gate, session, agent, audio, power, panel>>

(* Mutant: the plan looks at the action only. *)
RadioPlanBusyOnly == IF busy THEN "awake" ELSE "asleep"

RadioPlan == IF running \/ busy THEN "awake" ELSE "asleep"

PlanRadio ==
    /\ main = "radio" /\ "radio" \in Duties
    /\ main' = IF RadioPlan = radio THEN AfterRadio
               ELSE IF RadioPlan = "awake" THEN "setAwake" ELSE "setAsleep"
    /\ UNCHANGED <<worker, mailbox, asks, gate, session, agent, audio, power,
                   panel>>

SetRadio ==
    /\ main \in {"setAwake", "setAsleep"}
    /\ radio' = IF main = "setAwake" THEN "awake" ELSE "asleep"
    /\ main' = AfterRadio
    /\ UNCHANGED <<worker, mailbox, asks, gate, session, agent, audio,
                   fullSpeed, panel>>

(* session_ctl_busy_for_ms(): the flag, then the stamp; a cleared stamp      *)
(* means the action ended in between. More than 30 s reboots the device.     *)
ReadBusy ==
    /\ main = "watchdog" /\ "watchdog" \in Duties
    /\ main' = IF busy THEN "stamp" ELSE AfterWatchdog
    /\ UNCHANGED <<worker, mailbox, asks, gate, session, agent, audio, power,
                   panel>>

(* Mutant: a cleared stamp counts from the boot. *)
BusyTooLongSinceBoot == busySince # "recent"

BusyTooLong == busySince = "longAgo"

ReadStamp ==
    /\ main = "stamp"
    /\ ~BusyTooLong
    /\ main' = AfterWatchdog
    /\ UNCHANGED <<worker, mailbox, asks, gate, session, agent, audio, power,
                   panel>>

(* esp_restart(): nothing of this module's state outlives it. *)
Reboot ==
    /\ main = "stamp"
    /\ BusyTooLong
    /\ pc' = "none" /\ req' = None /\ saving' = FALSE
    /\ slot' = None /\ notified' = FALSE
    /\ wanted' = {} /\ unsaved' = {} /\ posting' = {}
    /\ running' = FALSE /\ startFailed' = FALSE /\ endedOnPurpose' = FALSE
    /\ busy' = FALSE /\ busySince' = "zero" /\ cooling' = FALSE
    /\ client' = "down" /\ ws' = "idle" /\ suppress' = FALSE
    /\ carry' = FALSE /\ unflushed' = FALSE /\ capture' = FALSE
    /\ fullSpeed' = FALSE /\ radio' = "asleep"
    /\ label' = "idle" /\ stopped' = FALSE
    /\ main' = "create"

(* A notice may have lapsed; its repaint waits for an idle worker, and       *)
(* session_ctl_repaint_idle_status() leaves a running session alone.         *)
NoticeLapsed ==
    /\ main = "notice" /\ "notice" \in Duties
    /\ main' \in {AfterNotice} \cup (IF busy THEN {} ELSE {"repaint"})
    /\ UNCHANGED <<worker, mailbox, asks, gate, session, agent, audio, power,
                   panel>>

RepaintTest ==
    /\ main = "repaint"
    /\ main' = IF running THEN AfterNotice ELSE "paint"
    /\ UNCHANGED <<worker, mailbox, asks, gate, session, agent, audio, power,
                   panel>>

RepaintPaint ==
    /\ main = "paint"
    /\ label' = IdleLabel
    /\ main' = AfterNotice
    /\ UNCHANGED <<worker, mailbox, asks, gate, session, agent, audio, power,
                   stopped>>

MainStep == \/ CreateWorker \/ FirstCheck \/ FirstNotify
            \/ PlanRadio \/ SetRadio \/ ReadBusy \/ ReadStamp \/ Reboot
            \/ NoticeLapsed \/ RepaintTest \/ RepaintPaint

-----------------------------------------------------------------------------
(* Time. *)

(* The action in progress has now taken more than 30 s. *)
ActionDrags ==
    /\ busySince = "recent"
    /\ busySince' = "longAgo"
    /\ UNCHANGED <<worker, mailbox, asks, busy, cooling, session, agent, audio,
                   power, panel, main>>

(* COOLDOWN_MS is over. Where LongCooldown, not before the worker has        *)
(* answered the wake-ups it already has.                                     *)
CooldownElapses ==
    /\ cooling
    /\ LongCooldown => pc = "wait" /\ ~notified
    /\ cooling' = FALSE
    /\ UNCHANGED <<worker, mailbox, asks, busy, busySince, session, agent,
                   audio, power, panel, main>>

-----------------------------------------------------------------------------

WakeStep  == Take \/ PromoteReload \/ PromoteStart \/ Stamp \/ RaiseBusy
ChoreStep == \E c \in AllChores : DoChore(c)
StopStep  == StopSuppress \/ StopCapture \/ StopAgent \/ StopFlush \/ StopDown
             \/ StopSave
StartStep == StartPrepare \/ StartClient \/ StartUp
DoneStep  == Cool \/ LowerBusy \/ ClearStamp

(* Every step of the worker but the one that waits for the client's task. *)
WorkerStep == WakeStep \/ ChoreStep \/ Dispatch \/ StopStep \/ StartStep
              \/ DoneStep

PostStep == \/ \E g \in Gestures : RequestCheck(g) \/ RequestNotify(g)
            \/ \E f \in Flags : RaiseFlag(f) \/ PokeFlag(f)

WsStep == WsAudio \/ WsAudioDone \/ WsState \/ WsPaint \/ WsReload

Next == \/ PostStep \/ WorkerStep \/ StopClient \/ WsStep \/ MainStep
        \/ ActionDrags \/ CooldownElapses

Spec == Init /\ [][Next]_vars

(* The scheduler runs every ready task, and time passes. Nothing is assumed  *)
(* of the client: a stop may hang for ever in esp_websocket_client_stop().   *)
Fairness ==
    /\ WF_vars(WorkerStep)
    /\ WF_vars(MainStep)
    /\ WF_vars(ActionDrags)
    /\ \A g \in Gestures : WF_vars(RequestNotify(g))
    /\ \A f \in Flags : WF_vars(PokeFlag(f))

FairSpec == Spec /\ Fairness

-----------------------------------------------------------------------------
(* What the worker owes its callers. *)

Slots    == AllGestures \cup {"RELOAD", None}
Labels   == {"idle", "error", "stopping", "opening", "agent"}
Stamps   == {"zero", "recent", "longAgo"}
Clients  == {"down", "up", "closing"}
WsPcs    == {"idle", "audio", "state"}
MainPcs  == {"create", "firstCheck", "firstNotify", "radio", "setAwake",
             "setAsleep", "watchdog", "stamp", "notice", "repaint", "paint"}

SwitchesOK ==
    /\ saving \in BOOLEAN /\ notified \in BOOLEAN /\ running \in BOOLEAN
    /\ startFailed \in BOOLEAN /\ endedOnPurpose \in BOOLEAN
    /\ busy \in BOOLEAN /\ cooling \in BOOLEAN /\ suppress \in BOOLEAN
    /\ carry \in BOOLEAN /\ unflushed \in BOOLEAN /\ capture \in BOOLEAN
    /\ fullSpeed \in BOOLEAN /\ stopped \in BOOLEAN

PlacesOK ==
    /\ pc \in AllPcs /\ req \in Requests \cup {None} /\ slot \in Slots
    /\ wanted \subseteq Flags /\ unsaved \subseteq Chores
    /\ posting \subseteq Gestures \cup Flags
    /\ busySince \in Stamps /\ client \in Clients /\ ws \in WsPcs
    /\ radio \in {"awake", "asleep"} /\ label \in Labels /\ main \in MainPcs

(* Types of the state. *)
TypeOK == SwitchesOK /\ PlacesOK

(* No start or stop runs behind the back of the gates and the watchdog:      *)
(* while one is under way s_busy is up over a stamp that is its own, however *)
(* the request reached the worker (the hole the comment at the promotion of  *)
(* s_reload_wanted describes).                                               *)
TransitionIsVisible ==
    pc \in StopPcs \cup StartPcs => busy /\ busySince # "zero"

(* The worker never sleeps on work: when it waits with no notification       *)
(* pending, every raised flag and every unsaved change belongs to a poster   *)
(* that is still about to wake it -- also the flags raised before the task   *)
(* existed, which the boot's own start request picks up.                     *)
NothingForgotten ==
    pc = "wait" /\ ~notified /\ main \notin {"firstCheck", "firstNotify"}
      => wanted \cup unsaved \subseteq posting

(* A stopped device is silent and idle: when the worker rests with no        *)
(* session, the client's task is gone, nothing it queued has escaped a       *)
(* flush, no half sample waits to misalign the next session, the microphone  *)
(* is off and the CPU is released.                                           *)
StoppedIsQuiet ==
    pc \in Resting /\ ~running
      => client = "down" /\ ws = "idle" /\ ~unflushed /\ ~carry
         /\ ~capture /\ ~fullSpeed

(* A session that is up has its microphone, its CPU speed and its client. *)
RunningIsWhole ==
    pc \in Resting /\ running
      => client = "up" /\ capture /\ fullSpeed /\ ~stopped

(* The stopped screen says so: no "stopping", "connecting" or late agent     *)
(* state is left on the panel once the worker rests.                         *)
StoppedLabelIsTruthful ==
    pc \in Resting /\ ~running => label \in {"idle", "error"}

(* A worker at rest leaves a session whole or a device silent and labelled   *)
(* so: do_stop() and do_start() undo each other completely, against a        *)
(* client's task that goes on delivering until the stop has halted it.       *)
RestIsWhole == StoppedIsQuiet /\ RunningIsWhole /\ StoppedLabelIsTruthful

(* The other way round, that a session is not labelled idle, is what         *)
(* session_ctl_repaint_idle_status() tests for.  The code does not keep it:  *)
(* the test and the painting are two steps, and a start fits between them.   *)
RunningLabelIsTruthful ==
    pc \in Resting /\ running => label # "idle"

(* The idle timeout's stop never opens a session, and a deferred reload      *)
(* never reopens one that the user or the idle timeout ended.                *)
NeverOpensUnasked ==
    pc \in StartPcs => /\ req # "STOP"
                       /\ ~(req = "RELOAD_SOON" /\ endedOnPurpose)

(* The claim of the comments that no reload at all does that: "a reload      *)
(* arriving after a deliberate stop would open a fresh session seconds after *)
(* the user ended theirs" (dg_agent.c, reload_backstop_cb()).                *)
ReloadNeverReopens ==
    pc \in StartPcs => ~(req = "RELOAD" /\ endedOnPurpose)

(* A gesture in the mailbox leaves it only into the worker's hand, or for    *)
(* another gesture or the agent's own reload; one in hand is never           *)
(* exchanged.  No flag, wake-up or promotion can lose it; only a reboot can. *)
Rebooting == main = "create"

GestureIsKept ==
    [][\/ /\ slot # None /\ slot' # slot
             => \/ req' = slot /\ slot' = None
                \/ slot' \in AllGestures \cup {"RELOAD"}
          /\ req # None /\ req' # req => pc = "clear"
       \/ Rebooting']_vars

(* audio_io_reset() clears the WebSocket task's carry byte, so the carry     *)
(* changes only under that task or when it is gone.                          *)
CarryHasOneOwner ==
    [][carry' # carry => \/ ws = "audio"
                         \/ ws = "idle" /\ client = "down"
                         \/ Rebooting']_vars

(* The device reboots itself only while an action really has been in the     *)
(* worker's hands for more than 30 s, whatever happened between the          *)
(* watchdog's two reads.                                                     *)
NoFalseReboot ==
    [][~Rebooting /\ Rebooting' => req # None /\ busySince = "longAgo"]_vars

(* An alarm's start is late rather than lost. *)
StartIsNotLost ==
    "START_SOON" \in wanted /\ ~Rebooting ~> running \/ startFailed \/ Rebooting

(* A stop that hangs does not strand the device: it ends, or the watchdog    *)
(* reboots.                                                                  *)
BusyEnds == busy ~> ~busy

(* A session gets the radio's full attention although the main loop may      *)
(* apply a plan it made before the session started.                          *)
RadioFollows == running ~> radio = "awake" \/ ~running
-----------------------------------------------------------------------------
(* Why it holds: the inductive invariants behind the properties.             *)

(* What the gate shows follows the request in hand. *)
Working == StopPcs \cup StartPcs \cup {"cool", "lower"}
Armed   == Working \cup ChorePcs \cup {"dispatch"}

GateInv ==
    /\ req = None => ~busy /\ busySince = "zero"
    /\ req # None /\ pc \in Armed \cup {"raise"} => busySince # "zero"
    /\ req # None /\ pc \in Armed => busy
    /\ pc \in Resting => req = None
    /\ pc \in Working \cup {"clear"} => req # None
    /\ pc = "clear" => ~busy

(* A raised flag has a poster about to poke, a pending notification, or the  *)
(* worker still ahead of the place where it looks at that flag: a save that  *)
(* is under way has cleared its flag already.                                *)
Ahead == [f \in AllDeferred \cup AllChores |->
    CASE f = "RELOAD_SOON" -> {"promoteReload"}
      [] f = "START_SOON"  -> {"promoteReload", "promoteStart"}
      [] f = "history"     -> {"promoteReload", "promoteStart", "stamp",
                               "raise", "history"}
      [] f = "denoiser"    -> {"promoteReload", "promoteStart", "stamp",
                               "raise", "history", "denoiser"}
      [] f = "settings"    -> {"promoteReload", "promoteStart", "stamp",
                               "raise", "history", "denoiser", "settings"}]

BootWillPoke == \/ pc = "none"
                \/ main = "firstNotify"
                \/ main = "firstCheck" /\ pc = "wait" /\ ~cooling

FlagsCovered ==
    \A f \in wanted \ posting :
        \/ notified
        \/ pc \in Ahead[f] /\ ~(saving /\ pc = f)
        \/ BootWillPoke

ChangesFlagged == \A c \in unsaved : c \in wanted \/ (saving /\ pc = c)

WakeInv ==
    /\ FlagsCovered
    /\ ChangesFlagged
    /\ saving => pc \in ChorePcs
    /\ pc = "none" <=> main = "create"
    /\ pc = "none" => ~cooling

(* Where the client and its task are follows the worker and s_running. *)
ClientInv ==
    /\ client = "down" => ws = "idle"
    /\ ~running /\ pc # "startUp" => client = "down"
    /\ running /\ pc \notin {"stopClient", "stopFlush", "stopDown"}
         => client = "up"
    /\ pc = "stopClient" => client = "closing"
    /\ pc \in {"stopFlush", "stopDown"} => client = "down"
    /\ pc = "startUp" => client = "up"
    /\ pc \in StopPcs \ {"stopSave"} => running
    /\ pc \in StartPcs \cup {"stopSave"} => ~running

(* Who may be heard, and who keeps the device awake. *)
SoundInv ==
    /\ client = "down" /\ pc # "stopFlush" => ~unflushed /\ ~carry
    /\ capture <=> running /\ pc \notin {"stopAgent", "stopClient", "stopFlush",
                                         "stopDown"}
    /\ fullSpeed <=> running \/ pc \in {"startClient", "startUp"}
    /\ running \/ pc \in {"startClient", "startUp"} => ~stopped
    /\ ~running /\ pc \notin {"startClient", "startUp"}
         => label \in {"idle", "error"}
=============================================================================
