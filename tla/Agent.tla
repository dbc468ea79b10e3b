------------------------------- MODULE Agent -------------------------------
(***************************************************************************)
(* main/dg_agent.c: one conversation with the Voice Agent server.  The     *)
(* WebSocket client's task (ws) handles the messages, two tasks send, the  *)
(* esp_timer task fires the backstops, and session_ctl's worker stops and  *)
(* starts the client.  They share s_ready and the deferred requests: a     *)
(* reload, the display test, and a voice change applied in place, whose    *)
(* messages the server may acknowledge, refuse or never answer.            *)
(***************************************************************************)
EXTENDS Integers, Sequences

CONSTANTS
    Languages,   \* of the voices; a session listens with one
    NovaOnly,    \* those Flux cannot hear
    Senders,     \* audio_send_task() and keepalive_task()
    INPLACE_CHANGES_MAX,
    MaxOwed      \* updates the server may have unanswered

ASSUME AgentAssumption ==
    /\ NovaOnly \subseteq Languages /\ Languages # {}
    /\ {"prompt", "multi"} \cap Languages = {}   \* which are codes
    /\ INPLACE_CHANGES_MAX \in Nat /\ MaxOwed \in Nat \ {0}

Multi     == "multi"               \* flux-general-multi, the fallback
Listening == Languages \union {Multi}
Prompt    == "prompt"
Dues      == {"none", "armed", "spoken"}

VARIABLES
    link,     \* the client: "down", "opening", "open" (Settings sent), "live"
    ready,    \* s_ready
    worker,   \* in dg_agent_stop(): "idle", "quiesce", "halt" or "clear"
    expired,  \* this stop's quiesce deadline has passed
    revived,  \* history: SettingsApplied has come during this stop
    sender,   \* where each sender's loop is; its flag is up unless "idle"
    ws,       \* what the WebSocket task has still to do of its message
    timers,   \* what the esp_timer task has still to do of a callback
    asked,    \* session_ctl has been asked to reload
    reload,   \* s_reload_pending, s_reload_backstop, and who set the flag when
    test,     \* s_test_pending, s_test_backstop, and whether it is wanted
    saved,    \* the language of voices_current()
    heard,    \* history: what the server listens with
    wire,     \* updates sent and not answered, oldest first
    owed,     \* s_updates_pending
    fresh,    \* s_update_deadline_us has not passed
    due,      \* s_listen_due
    backstop, \* s_update_backstop is armed
    changes,  \* s_inplace_changes
    fallback  \* s_nova_fallback

stopping == <<worker, expired, revived>>
updates  == <<owed, due, backstop>>
voice    == <<saved, heard, wire, updates, fresh, changes, fallback>>
deferred == <<asked, reload, test>>
vars     == <<link, ready, stopping, sender, ws, timers, deferred, voice>>

WsIdle     == ws = << >>
WsDoes(s)  == ws # << >> /\ Head(ws) = s
Handled    == ws' = Tail(ws)

-----------------------------------------------------------------------------
(***************************************************************************)
(* The deferred requests.                                                  *)
(***************************************************************************)
NoReload == [flag |-> FALSE, timer |-> FALSE, by |-> "none", old |-> FALSE]

schedule_reload(by) ==
    reload' = [flag |-> TRUE, timer |-> TRUE, by |-> by, old |-> FALSE]

schedule_test == test' = [flag |-> TRUE, timer |-> TRUE, wanted |-> TRUE]

(* Mutant: the fallback is forgotten when the provider is chosen.          *)
ProviderAlways(l) == l

(* Nova-3 for the languages only it can hear, unless it would not start.   *)
Provider(l) == IF l \in NovaOnly /\ fallback THEN Multi ELSE l

updates_clear == owed' = 0 /\ due' = "none" /\ backstop' = FALSE

(***************************************************************************)
(* take_flag(&s_reload_pending), then the request to session_ctl.          *)
(***************************************************************************)
TakeReload(timer) ==
    /\ asked' = (asked \/ reload.flag)
    /\ reload' = IF reload.flag THEN [NoReload EXCEPT !.timer = timer]
                                ELSE reload

RunTest == test' = IF test.flag
                   THEN [flag |-> FALSE, timer |-> FALSE, wanted |-> FALSE]
                   ELSE test

-----------------------------------------------------------------------------
(***************************************************************************)
(* The worker: dg_agent_start() and dg_agent_stop().                       *)
(***************************************************************************)
Start ==
    /\ worker = "idle" /\ link = "down"
    /\ link' = "opening" /\ asked' = FALSE
    /\ UNCHANGED <<ready, stopping, sender, ws, timers, reload, test, voice>>

StopBegins ==
    /\ worker = "idle" /\ link # "down"
    /\ worker' = "quiesce" /\ ready' = FALSE
    /\ expired' = FALSE /\ revived' = FALSE /\ asked' = FALSE
    /\ UNCHANGED <<link, sender, ws, timers, reload, test, voice>>

(* Mutant: the flag goes up once the send has been decided on.             *)
FlagUpLate(s) == sender[s] = "sending"

FlagUp(s) == sender[s] # "idle"

Quiesced ==
    /\ worker = "quiesce"
    /\ expired' = (\E s \in Senders : FlagUp(s))
    /\ worker' = "halt"
    /\ UNCHANGED <<link, ready, revived, sender, ws, timers, deferred, voice>>

(***************************************************************************)
(* esp_websocket_client_stop(): the message being handled is finished, and *)
(* a last DISCONNECTED may be (see Gone).                                  *)
(***************************************************************************)
Halted ==
    /\ worker = "halt" /\ WsIdle /\ timers = "idle"
    /\ link' = "down" /\ wire' = << >>
    /\ worker' = "clear"
    /\ UNCHANGED <<ready, expired, revived, sender, ws, timers, deferred,
                   saved, heard, updates, fresh, changes, fallback>>

(* Mutant: the display test is cleared like the reload.                    *)
ClearDeferredAll ==
    /\ worker = "clear"
    /\ worker' = "idle" /\ reload' = NoReload
    /\ test' = [test EXCEPT !.flag = FALSE, !.timer = FALSE]
    /\ UNCHANGED <<link, ready, expired, revived, sender, ws, timers, asked,
                   voice>>

ClearDeferred ==
    /\ worker = "clear"
    /\ worker' = "idle" /\ reload' = NoReload
    /\ UNCHANGED <<link, ready, expired, revived, sender, ws, timers, asked,
                   test, voice>>

(***************************************************************************)
(* The tasks that send: the flag is claimed, s_ready tested, and the send  *)
(* made, which may take its time.                                          *)
(***************************************************************************)
Move(s, from, to) ==
    /\ sender[s] = from
    /\ sender' = [sender EXCEPT ![s] = to]
    /\ UNCHANGED <<link, ready, stopping, ws, timers, deferred, voice>>

Claim(s)  == Move(s, "idle", "claimed")
Decide(s) == Move(s, "claimed", IF ready THEN "decided" ELSE "idle")
Send(s)   == Move(s, "decided", "sending")
Sent(s)   == Move(s, "sending", "idle")

-----------------------------------------------------------------------------
(***************************************************************************)
(* on_ws_event().  The client opens the socket, and opens it again when it *)
(* is lost, until it is stopped.                                           *)
(***************************************************************************)
Listens == worker \in {"idle", "quiesce", "halt"}
Hears(l) == Listens /\ WsIdle /\ link = l

set_state(state) == ready' = (state = "ready")

(* Mutant: send_settings() keeps what the last connection owed.            *)
ConnectedOwing ==
    /\ Hears("opening") /\ timers = "idle"
    /\ link' = "open" /\ set_state("connected")
    /\ heard' = Provider(saved) /\ wire' = << >>
    /\ reload' = [reload EXCEPT !.old = reload.flag]
    /\ UNCHANGED <<stopping, sender, ws, timers, asked, test, saved, fresh,
                   changes, fallback, updates>>

(* CONNECTED: no timer's callback is under way, it takes microseconds and  *)
(* a handshake does not.                                                   *)
Connected ==
    /\ Hears("opening") /\ timers = "idle"
    /\ link' = "open" /\ set_state("connected") /\ updates_clear
    /\ heard' = Provider(saved) /\ wire' = << >>
    /\ reload' = [reload EXCEPT !.old = reload.flag]
    /\ UNCHANGED <<stopping, sender, ws, timers, asked, test, saved, fresh,
                   changes, fallback>>

SettingsApplied ==
    /\ Hears("open")
    /\ link' = "live" /\ set_state("ready")
    /\ changes' = 0 /\ fallback' = FALSE
    /\ revived' = (revived \/ worker # "idle")
    /\ UNCHANGED <<worker, expired, sender, ws, timers, deferred, saved,
                   heard, wire, updates, fresh>>

(* Mutant: a reload outlives the socket, as the display test does.         *)
GoneStepsKeeping == <<"disconnected">>

(* ERROR may come ahead of DISCONNECTED.                                   *)
GoneSteps == <<"drop_reload", "disconnected">>

Gone ==
    /\ Listens /\ WsIdle /\ link \in {"opening", "open", "live"}
    /\ link' = "opening" /\ wire' = << >> /\ ws' = GoneSteps
    /\ ready' \in {ready, FALSE}
    /\ UNCHANGED <<stopping, sender, timers, deferred, saved, heard, updates,
                   fresh, changes, fallback>>

DropReload ==
    /\ WsDoes("drop_reload") /\ Handled
    /\ reload' = NoReload
    /\ UNCHANGED <<link, ready, stopping, sender, timers, asked, test, voice>>

Disconnected ==
    /\ WsDoes("disconnected") /\ Handled
    /\ set_state("disconnected")
    /\ UNCHANGED <<link, stopping, sender, timers, deferred, voice>>

-----------------------------------------------------------------------------
(***************************************************************************)
(* handle_function_call(): set_voice, the confirmed new_conversation, and  *)
(* start_display_test.                                                     *)
(***************************************************************************)
SetVoice(l) ==
    /\ Hears("live") /\ Len(wire) < MaxOwed
    /\ saved' = l
    /\ \/ /\ changes < INPLACE_CHANGES_MAX
          /\ ws' = IF l = saved THEN <<"speak", "adopt">>
                                ELSE <<"speak", "adopt", "arm">>
          /\ UNCHANGED <<updates, reload>>
       \/ /\ changes >= INPLACE_CHANGES_MAX
          /\ updates_clear /\ schedule_reload("message")
          /\ UNCHANGED ws
    /\ UNCHANGED <<link, ready, stopping, sender, timers, asked, test, heard,
                   wire, fresh, changes, fallback>>

(* send_update() of what the server must acknowledge.                      *)
send_update(message) ==
    /\ wire' = Append(wire, message)
    /\ owed' = owed + 1 /\ fresh' = TRUE /\ backstop' = TRUE

(* send_speak_and_prompt(); a failure is answered with a reload.           *)
SendSpeakAndPrompt ==
    /\ WsDoes("speak")
    /\ \/ Handled /\ send_update(Prompt) /\ UNCHANGED <<due, reload>>
       \/ /\ ws' = << >>
          /\ updates_clear /\ schedule_reload("message")
          /\ UNCHANGED <<wire, fresh>>
    /\ UNCHANGED <<link, ready, stopping, sender, timers, asked, test, saved,
                   heard, changes, fallback>>

(* send_function_response().                                               *)
Adopt ==
    /\ WsDoes("adopt") /\ Handled
    /\ changes' = changes + 1
    /\ UNCHANGED <<link, ready, stopping, sender, timers, deferred, saved,
                   heard, wire, updates, fresh, fallback>>

ArmListen ==
    /\ WsDoes("arm") /\ Handled
    /\ due' = "armed" /\ backstop' = TRUE
    /\ UNCHANGED <<link, ready, stopping, sender, timers, deferred, saved,
                   heard, wire, owed, fresh, changes, fallback>>

Forget ==
    /\ Hears("live")
    /\ schedule_reload("message")
    /\ UNCHANGED <<link, ready, stopping, sender, ws, timers, asked, test,
                   voice>>

StartDisplayTest ==
    /\ Hears("live")
    /\ schedule_test
    /\ UNCHANGED <<link, ready, stopping, sender, ws, timers, asked, reload,
                   voice>>

(* The assistant's ConversationText: listen_due_spoken().                  *)
AgentSpeaks ==
    /\ Hears("live") /\ due = "armed"
    /\ due' = "spoken"
    /\ UNCHANGED <<link, ready, stopping, sender, ws, timers, deferred, saved,
                   heard, wire, owed, backstop, fresh, changes, fallback>>

(***************************************************************************)
(* AgentAudioDone: the listen side, then the reload, then the test.        *)
(***************************************************************************)
AudioDone ==
    /\ Hears("live")
    /\ ws' = <<"listen", "take_reload", "take_test">>
    /\ UNCHANGED <<link, ready, stopping, sender, timers, deferred, voice>>

listen_due_send ==
    /\ WsDoes("listen") /\ Handled
    /\ \/ due # "spoken" /\ UNCHANGED <<wire, updates, fresh, reload>>
       \/ /\ due = "spoken" /\ due' = "none"
          /\ send_update(Provider(saved)) /\ UNCHANGED reload
       \/ /\ due = "spoken"
          /\ updates_clear /\ schedule_reload("message")
          /\ UNCHANGED <<wire, fresh>>
    /\ UNCHANGED <<link, ready, stopping, sender, timers, asked, test, saved,
                   heard, changes, fallback>>

TakeReloadNow ==
    /\ WsDoes("take_reload") /\ Handled
    /\ TakeReload(FALSE)
    /\ UNCHANGED <<link, ready, stopping, sender, timers, test, voice>>

TakeTestNow ==
    /\ WsDoes("take_test") /\ Handled
    /\ RunTest
    /\ UNCHANGED <<link, ready, stopping, sender, timers, asked, reload,
                   voice>>

-----------------------------------------------------------------------------
(***************************************************************************)
(* The server's answers to updates, in the order they were sent; it may    *)
(* drop one without a word.                                                *)
(***************************************************************************)
Takes(message) ==
    heard' = IF message = Prompt THEN heard ELSE message

(* Mutant: the last acknowledgement disarms, a listen change due or not.   *)
update_acked_early ==
    /\ owed' = IF owed > 0 THEN owed - 1 ELSE 0
    /\ backstop' = (backstop /\ owed' # 0)

(* Mutant: an acknowledgement nobody waits for is counted.                 *)
update_acked_uncounted ==
    /\ owed' = owed - 1
    /\ backstop' = (backstop /\ ~(owed' = 0 /\ due = "none"))

update_acked ==
    /\ owed' = IF owed > 0 THEN owed - 1 ELSE 0
    /\ backstop' = (backstop /\ ~(owed' = 0 /\ due = "none"))

Updated ==
    /\ Hears("live") /\ wire # << >>
    /\ wire' = Tail(wire) /\ Takes(Head(wire)) /\ update_acked
    /\ UNCHANGED <<link, ready, stopping, sender, ws, timers, deferred, saved,
                   due, fresh, changes, fallback>>

Ignored ==
    /\ Hears("live") /\ wire # << >>
    /\ wire' = Tail(wire)
    /\ UNCHANGED <<link, ready, stopping, sender, ws, timers, deferred, saved,
                   heard, updates, fresh, changes, fallback>>

(***************************************************************************)
(* take_update_refusal(): inside the window a complaint is about an update *)
(* and the session is opened again.  Otherwise an Error is an Error.       *)
(***************************************************************************)
Refusal == owed > 0 /\ fresh

Complain(error) ==
    \/ /\ Refusal
       /\ updates_clear /\ schedule_reload("message")
       /\ UNCHANGED ready
    \/ /\ ~Refusal
       /\ IF error THEN set_state("error") ELSE UNCHANGED ready
       /\ UNCHANGED <<updates, reload>>

Complaint(error) ==
    /\ Hears("open") \/ Hears("live")
    /\ Complain(error)
    /\ wire' \in {wire, IF wire = << >> THEN wire ELSE Tail(wire)}
    /\ UNCHANGED <<link, stopping, sender, ws, timers, asked, test, saved,
                   heard, fresh, changes, fallback>>

(* FAILED_TO_START_LISTENING, of the Settings or of an UpdateListen.       *)
ListenFails ==
    /\ \/ Hears("open") /\ heard \in NovaOnly
       \/ Hears("live") /\ wire # << >> /\ Head(wire) \in NovaOnly
    /\ \/ /\ saved \in NovaOnly /\ ~fallback
          /\ fallback' = TRUE /\ updates_clear /\ asked' = TRUE
          /\ UNCHANGED <<ready, reload>>
       \/ /\ ~(saved \in NovaOnly /\ ~fallback)
          /\ Complain(TRUE)
          /\ UNCHANGED <<fallback, asked>>
    /\ wire' = IF wire = << >> THEN wire ELSE Tail(wire)
    /\ UNCHANGED <<link, stopping, sender, ws, timers, test, saved, heard,
                   fresh, changes>>

-----------------------------------------------------------------------------
(***************************************************************************)
(* The esp_timer task.  Its callbacks test s_ready and take a flag, or     *)
(* take what is owed and test s_ready, in two steps.                       *)
(***************************************************************************)
WindowCloses ==
    /\ fresh
    /\ fresh' = FALSE
    /\ UNCHANGED <<link, ready, stopping, sender, ws, timers, deferred, saved,
                   heard, wire, updates, changes, fallback>>

ReloadFires ==
    /\ timers = "idle" /\ reload.timer
    /\ reload' = [reload EXCEPT !.timer = FALSE]
    /\ timers' = IF ready THEN "reload" ELSE "idle"
    /\ UNCHANGED <<link, ready, stopping, sender, ws, asked, test, voice>>

reload_backstop_cb ==
    /\ timers = "reload" /\ timers' = "idle"
    /\ TakeReload(reload.timer)
    /\ UNCHANGED <<link, ready, stopping, sender, ws, test, voice>>

test_backstop_cb ==
    /\ timers = "idle" /\ test.timer
    /\ test' = [flag |-> FALSE, timer |-> FALSE,
                wanted |-> test.wanted /\ ~test.flag]
    /\ UNCHANGED <<link, ready, stopping, sender, ws, timers, asked, reload,
                   voice>>

UpdateFires ==
    /\ timers = "idle" /\ backstop
    /\ updates_clear
    /\ timers' = IF owed > 0 \/ due # "none" THEN "owed" ELSE "idle"
    /\ UNCHANGED <<link, ready, stopping, sender, ws, deferred, saved, heard,
                   wire, fresh, changes, fallback>>

update_backstop_cb ==
    /\ timers = "owed" /\ timers' = "idle"
    /\ IF ready THEN schedule_reload("timer") ELSE UNCHANGED reload
    /\ UNCHANGED <<link, ready, stopping, sender, ws, asked, test, voice>>

-----------------------------------------------------------------------------
Init ==
    /\ link = "down" /\ ready = FALSE
    /\ worker = "idle" /\ expired = FALSE /\ revived = FALSE
    /\ sender = [s \in Senders |-> "idle"]
    /\ ws = << >> /\ timers = "idle"
    /\ asked = FALSE /\ reload = NoReload
    /\ test = [flag |-> FALSE, timer |-> FALSE, wanted |-> FALSE]
    /\ saved \in Languages /\ heard = saved /\ wire = << >>
    /\ owed = 0 /\ due = "none" /\ backstop = FALSE /\ fresh = FALSE
    /\ changes = 0 /\ fallback = FALSE

WorkerStep == Start \/ StopBegins \/ Quiesced \/ Halted \/ ClearDeferred

SenderStep == \E s \in Senders : Claim(s) \/ Decide(s) \/ Send(s) \/ Sent(s)

SocketStep ==
    Connected \/ SettingsApplied \/ Gone \/ DropReload \/ Disconnected

CallStep ==
    \/ \E l \in Languages : SetVoice(l)
    \/ SendSpeakAndPrompt \/ Adopt \/ ArmListen \/ Forget \/ StartDisplayTest

SpeechStep ==
    AgentSpeaks \/ AudioDone \/ listen_due_send \/ TakeReloadNow \/ TakeTestNow

AnswerStep ==
    \/ Updated \/ Ignored \/ ListenFails
    \/ \E error \in BOOLEAN : Complaint(error)

TimerStep ==
    \/ WindowCloses \/ ReloadFires \/ reload_backstop_cb \/ test_backstop_cb
    \/ UpdateFires \/ update_backstop_cb

Next ==
    \/ WorkerStep \/ SenderStep \/ SocketStep \/ CallStep \/ SpeechStep
    \/ AnswerStep \/ TimerStep

Spec == Init /\ [][Next]_vars

-----------------------------------------------------------------------------
(***************************************************************************)
(* Properties.                                                             *)
(***************************************************************************)

(* Every variable keeps its range, and the server is never thought to owe  *)
(* more than it has been sent.                                             *)
TypeOK ==
    /\ link \in {"down", "opening", "open", "live"} /\ ready \in BOOLEAN
    /\ worker \in {"idle", "quiesce", "halt", "clear"}
    /\ expired \in BOOLEAN /\ revived \in BOOLEAN
    /\ sender \in [Senders -> {"idle", "claimed", "decided", "sending"}]
    /\ timers \in {"idle", "reload", "owed"} /\ asked \in BOOLEAN
    /\ reload \in [flag : BOOLEAN, timer : BOOLEAN, old : BOOLEAN,
                   by : {"none", "message", "timer"}]
    /\ test \in [flag : BOOLEAN, timer : BOOLEAN, wanted : BOOLEAN]
    /\ saved \in Languages /\ heard \in Listening
    /\ \A i \in DOMAIN wire : wire[i] \in Listening \union {Prompt}
    /\ owed \in Nat /\ fresh \in BOOLEAN /\ due \in Dues
    /\ backstop \in BOOLEAN /\ changes \in 0 .. INPLACE_CHANGES_MAX
    /\ fallback \in BOOLEAN

(* The client is not stopped under a send: once the senders are quiet, no  *)
(* send starts, unless the wait ran out or the server accepted Settings in *)
(* the middle of the stop (dg_agent_stop(), audio_send_task()).            *)
StopFindsSendersIdle ==
    worker = "halt" /\ ~expired /\ ~revived =>
        \A s \in Senders : sender[s] \notin {"decided", "sending"}

(* The same without the last exception, which is what dg_agent_stop() says *)
(* of itself: "audio_send_task() will not START another send".             *)
NoSendStartsInStop ==
    worker = "halt" /\ ~expired => \A s \in Senders : sender[s] # "sending"

(* A reload that one session's messages called for never closes a later    *)
(* session: stop, drop and reconnect leave none behind.                    *)
Connection == link \in {"open", "live"}

NoOldReload ==
    Connection /\ reload.flag /\ reload.by = "message" => ~reload.old

(* A display test asked for out loud is run, whatever becomes of the       *)
(* session: until then its flag is up and its timer armed.                 *)
TestIsNotStranded == test.wanted => test.flag /\ test.timer

(* A live session that does not listen for the voice in force has          *)
(* something armed that will put it right: the update backstop or the      *)
(* reload's.                                                               *)
Reopening == asked \/ (reload.flag /\ reload.timer) \/ timers # "idle"
Updating  == (owed > 0 \/ due # "none") /\ backstop

VoiceWillSettle ==
    link = "live" /\ ready /\ WsIdle /\ heard \notin {saved, Multi} =>
        Reopening \/ Updating

(* A session being set up owes no acknowledgement, so that its refusal is  *)
(* not read as an update's of the last one (send_settings()).              *)
HandshakeOwesNothing == link = "open" => owed = 0 /\ due = "none"

(* A session whose Nova-3 listener would not start is on its way out, and  *)
(* the next does not try Nova-3 again (nova_fallback()).                   *)
RefusedNovaIsLeft ==
    link = "open" /\ fallback /\ heard \in NovaOnly =>
        asked \/ worker # "idle"

=============================================================================
