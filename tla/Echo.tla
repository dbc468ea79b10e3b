-------------------------------- MODULE Echo --------------------------------
(***************************************************************************)
(* The Echo game: echo.c's rounds, ui_echo.c's frames and presses, and     *)
(* the callouts of its levels, which dg_agent.c has the agent say and must *)
(* keep out of the stored conversation.  The game is the LVGL task's; the  *)
(* nudge is sent by keepalive_task() and its texts come in on the          *)
(* WebSocket task.  Which screen is up is Screens', the nudge's slot       *)
(* against a dropping socket Announce's.  A step is lit for one tick of    *)
(* the clock and dark for one; colours, notes and wording are left out.    *)
(***************************************************************************)
EXTENDS Naturals, Sequences

CONSTANTS
    ECHO_MAX,            \* steps; the last repeated wins
    ECHO_SPEAK_WAIT_MS,  \* ticks a round waits for a callout
    MaxNudges,           \* bounds the callouts of a behaviour
    MaxOthers,           \* bounds the agent's other texts
    MaxSpeech,           \* bounds how often it is heard
    MaxDrops             \* bounds the sockets lost

ASSUME EchoAssumption ==
    /\ {ECHO_MAX, ECHO_SPEAK_WAIT_MS} \subseteq Nat \ {0}
    /\ {MaxNudges, MaxOthers, MaxSpeech, MaxDrops} \subseteq Nat

ECHO_LEAD_MS == 1

NoNudge == 0

VARIABLES
    round,    \* s_game: state, len, pos, spoke; since: ticks since since_ms;
              \* history: heard, the steps sounded since it last began, late,
              \* a frame of it came late
    screen,   \* open: s_echo_open; covered: the panel is over it; up:
              \* s_echo_up; left: s_left; unseen: ticks since the last frame
    closing,  \* ui_echo_close() has cancelled, and not let the history go
    speaking, \* audio_io_playback_active()
    holding,  \* s_history_hold
    slot,     \* s_nudge
    ka,       \* keepalive_task(): its nudge, taken or marked
    flight,   \* s_nudge_inflight, and fresh: within NUDGE_TAIL_MS
    ready,    \* s_ready
    unanswered, \* nudges sent
    texts,    \* the server's messages on their way
    kept,     \* history: nudges whose texts are in the stored conversation
    spoiled,  \* history: nudges whose tail ended before their reply
    happened  \* bounds: nudges, others, drops

gamevars == <<round, screen, closing, speaking>>
callvars == <<holding, slot, ka, flight, ready, unanswered, texts, kept,
              spoiled>>
echovars == <<gamevars, callvars, happened>>

Game(state, len) ==
    [state |-> state, len |-> len, pos |-> 0, spoke |-> FALSE, since |-> 0,
     heard |-> {}, late |-> FALSE]

NewGame == Game("ready", 0)

EchoInit ==
    /\ round = NewGame /\ closing = FALSE /\ speaking = FALSE
    /\ screen = [open |-> FALSE, covered |-> FALSE, up |-> FALSE,
                 left |-> FALSE, unseen |-> 0]
    /\ holding = FALSE /\ slot = NoNudge
    /\ ka = [nudge |-> NoNudge, marked |-> FALSE]
    /\ flight = [on |-> FALSE, fresh |-> FALSE] /\ ready = TRUE
    /\ unanswered = {} /\ texts = << >> /\ kept = {} /\ spoiled = {}
    /\ happened = [nudges |-> 0, others |-> 0, speech |-> 0, drops |-> 0]

Counts(what) == happened' = [happened EXCEPT ![what] = @ + 1]

-----------------------------------------------------------------------------
(***************************************************************************)
(* echo.c.                                                                 *)
(***************************************************************************)
game_enter(r, state) == [Game(state, r.len) EXCEPT !.late = r.late]

(* A sequence that begins again, from its lead.                            *)
Again(r) ==
    [r EXCEPT !.since = 0, !.pos = 0, !.heard = {}, !.late = FALSE]

(* Mutant: a sequence half shown goes on from where its clock has got to.  *)
ResumeHalfWay(r) == IF r.state = "speak" THEN [r EXCEPT !.since = 0] ELSE r

echo_resume(r) ==
    CASE r.state = "show"  -> Again(game_enter(r, "show"))
      [] r.state = "speak" -> [r EXCEPT !.since = 0]
      [] OTHER -> r

ShowTick(r) ==
    LET t  == r.since - ECHO_LEAD_MS
        i  == t \div 2
        on == t % 2 = 0
    IN  CASE r.since < ECHO_LEAD_MS -> r
          [] r.since >= ECHO_LEAD_MS /\ i >= r.len ->
                 [game_enter(r, "input") EXCEPT !.heard = r.heard]
          [] r.since >= ECHO_LEAD_MS /\ i < r.len /\ r.pos <= i ->
                 [r EXCEPT !.pos = i + 1,
                           !.heard = IF on THEN @ \union {i} ELSE @]
          [] OTHER -> r

(* A wait for the callout ends with it, or without it; speech starts the   *)
(* sequence again.                                                         *)
echo_tick(r) ==
    CASE r.state = "speak" /\ speaking -> [r EXCEPT !.spoke = TRUE]
      [] r.state = "speak" /\ ~speaking ->
             IF r.spoke \/ r.since >= ECHO_SPEAK_WAIT_MS
             THEN Again(game_enter(r, "show")) ELSE r
      [] r.state = "show" /\ speaking -> Again(r)
      [] r.state = "show" /\ ~speaking -> ShowTick(r)
      [] OTHER -> r

(* dg_agent_nudge(): only into a session that is up.                       *)
dg_agent_nudge ==
    IF ready /\ happened.nudges < MaxNudges
    THEN slot' = happened.nudges + 1 /\ Counts("nudges")
    ELSE UNCHANGED <<slot, happened>>

echo_start == round' = Game("show", 1) /\ UNCHANGED <<slot, happened>>

(* echo_press() in the player's turn: a level up is called out.            *)
echo_press ==
    \/ /\ round' = game_enter(round, "over")                   \* wrong
       /\ UNCHANGED <<slot, happened>>
    \/ /\ round.pos + 1 < round.len
       /\ round' = [round EXCEPT !.pos = @ + 1]
       /\ UNCHANGED <<slot, happened>>
    \/ /\ round.pos + 1 = round.len /\ dg_agent_nudge
       /\ round' = IF round.len >= ECHO_MAX THEN game_enter(round, "over")
                   ELSE [game_enter(round, "speak")
                            EXCEPT !.len = round.len + 1]

-----------------------------------------------------------------------------
(***************************************************************************)
(* ui_echo.c, on the LVGL task.                                            *)
(***************************************************************************)
Opens ==
    /\ ~screen.open /\ ~closing /\ screen' = [screen EXCEPT !.open = TRUE]
    /\ round' = NewGame /\ holding' = TRUE
    /\ UNCHANGED <<closing, speaking, slot, ka, flight, ready, unanswered,
                   texts, kept, spoiled, happened>>

(* ui_echo_close(): dg_agent_nudge_cancel() before the holding goes.       *)
Closes ==
    /\ screen.open
    /\ screen' = [screen EXCEPT !.open = FALSE, !.up = FALSE,
                                !.left = @ \/ screen.up, !.unseen = 0]
    /\ closing' = TRUE /\ slot' = NoNudge
    /\ UNCHANGED <<round, speaking, holding, ka, flight, ready, unanswered,
                   texts, kept, spoiled, happened>>

LetsGo ==
    /\ closing /\ closing' = FALSE /\ holding' = FALSE
    /\ UNCHANGED <<round, screen, speaking, slot, ka, flight, ready,
                   unanswered, texts, kept, spoiled, happened>>

Covered ==
    /\ screen.open /\ screen' = [screen EXCEPT !.covered = ~@]
    /\ UNCHANGED <<round, closing, speaking, callvars, happened>>

(* ui_echo_leave() for a frame that is another screen's, ui_echo_frame().  *)
Frame ==
    /\ screen.open
    /\ IF screen.covered
       THEN /\ screen' = [screen EXCEPT !.up = FALSE, !.left = @ \/ screen.up]
            /\ UNCHANGED round
       ELSE /\ screen' = [screen EXCEPT !.up = TRUE, !.left = FALSE,
                                        !.unseen = 0]
            /\ LET r == IF screen.left THEN echo_resume(round) ELSE round
                   late == screen.unseen > 1 /\ ~screen.left
               IN  round' = echo_tick([r EXCEPT !.late = @ \/ late])
    /\ UNCHANGED <<closing, speaking, callvars, happened>>

(* ui_echo_pressed(): GO, play again, or a quarter.                        *)
Pressed ==
    /\ screen.open
    /\ \/ round.state \in {"ready", "over"} /\ echo_start
       \/ round.state = "input" /\ echo_press
    /\ UNCHANGED <<screen, closing, speaking, holding, ka, flight, ready,
                   unanswered, texts, kept, spoiled>>

MaxSince == ECHO_LEAD_MS + 2 * ECHO_MAX + ECHO_SPEAK_WAIT_MS

(* The clock.  The agent's replies and announcements start and end.        *)
ClockTick ==
    /\ round.state \in {"speak", "show"}
    /\ round' = [round EXCEPT !.since = IF @ < MaxSince THEN @ + 1 ELSE @]
    /\ screen' = [screen EXCEPT !.unseen = IF @ < 2 THEN @ + 1 ELSE @]
    /\ UNCHANGED <<closing, speaking, callvars, happened>>

Speaks ==
    /\ ready /\ ~speaking /\ happened.speech < MaxSpeech
    /\ speaking' = TRUE /\ Counts("speech")
    /\ UNCHANGED <<round, screen, closing, callvars>>

SpeechEnds ==
    /\ speaking /\ speaking' = FALSE
    /\ UNCHANGED <<round, screen, closing, callvars, happened>>

-----------------------------------------------------------------------------
(***************************************************************************)
(* dg_agent.c: the nudge on its way, and its texts on the way back.        *)
(***************************************************************************)
KaTakes ==
    /\ ready /\ slot # NoNudge /\ ka.nudge = NoNudge
    /\ ka' = [nudge |-> slot, marked |-> FALSE] /\ slot' = NoNudge
    /\ UNCHANGED <<gamevars, holding, flight, ready, unanswered, texts,
                   kept, spoiled, happened>>

(* Mutant: in flight only once it has been sent.                           *)
KaMarksLater ==
    /\ ka.nudge # NoNudge /\ ~ka.marked /\ ka' = [ka EXCEPT !.marked = TRUE]
    /\ UNCHANGED <<gamevars, holding, slot, flight, ready, unanswered,
                   texts, kept, spoiled, happened>>

(* In flight before it is sent: the reply may be back before the task is.  *)
KaMarks ==
    /\ ka.nudge # NoNudge /\ ~ka.marked /\ ka' = [ka EXCEPT !.marked = TRUE]
    /\ flight' = [on |-> TRUE, fresh |-> TRUE]
    /\ UNCHANGED <<gamevars, holding, slot, ready, unanswered, texts, kept,
                   spoiled, happened>>

KaSends ==
    /\ ka.marked /\ ka' = [nudge |-> NoNudge, marked |-> FALSE]
    /\ unanswered' = IF ready THEN unanswered \union {ka.nudge} ELSE unanswered
    /\ UNCHANGED <<gamevars, holding, slot, flight, ready, texts, kept,
                   spoiled, happened>>

Message(role, nudge) == [role |-> role, nudge |-> nudge]

(* The server: the words and the reply to them, or a refusal, or something *)
(* else the agent says.                                                    *)
Answers ==
    /\ \/ \E n \in unanswered :
              /\ unanswered' = unanswered \ {n}
              /\ \/ texts' = texts \o <<Message("user", n),
                                        Message("assistant", n)>>
                 \/ texts' = Append(texts, Message("refused", n))
              /\ UNCHANGED happened
       \/ /\ ready /\ happened.others < MaxOthers /\ Counts("others")
          /\ texts' = Append(texts, Message("assistant", NoNudge))
          /\ UNCHANGED unanswered
    /\ UNCHANGED <<gamevars, holding, slot, ka, flight, ready, kept,
                   spoiled>>

nudge_tail == flight.on /\ flight.fresh

Outstanding ==
    unanswered \union {texts[i].nudge : i \in DOMAIN texts}
          \union (IF ka.marked THEN {ka.nudge} ELSE {})

(* handle_message(): a text is kept unless the game holds the history or   *)
(* a nudge's tail does; any reply, and a refusal, ends the tail.           *)
Delivered ==
    /\ texts # << >> /\ texts' = Tail(texts)
    /\ LET m    == Head(texts)
           ends == flight.on /\ m.role # "user"
           adds == m.role # "refused" /\ ~holding /\ ~nudge_tail
       IN  /\ kept' = IF adds THEN kept \union {m.nudge} ELSE kept
           /\ flight' = [flight EXCEPT !.on = @ /\ ~ends]
           /\ spoiled' = IF ends THEN spoiled \union (Outstanding \ {m.nudge})
                         ELSE spoiled
    /\ UNCHANGED <<gamevars, holding, slot, ka, ready, unanswered,
                   happened>>

(* NUDGE_TAIL_MS since it was sent.                                        *)
TailLapses ==
    /\ nudge_tail /\ flight' = [flight EXCEPT !.fresh = FALSE]
    /\ spoiled' = spoiled \union Outstanding
    /\ UNCHANGED <<gamevars, holding, slot, ka, ready, unanswered, texts,
                   kept, happened>>

Drops ==
    /\ ready /\ happened.drops < MaxDrops /\ Counts("drops")
    /\ ready' = FALSE /\ slot' = NoNudge /\ unanswered' = {} /\ texts' = << >>
    /\ flight' = [flight EXCEPT !.on = FALSE]
    /\ UNCHANGED <<gamevars, holding, ka, kept, spoiled>>

(* A handshake later: a nudge being sent as the socket went has failed.    *)
Reconnects ==
    /\ ~ready /\ ka.nudge = NoNudge /\ ready' = TRUE
    /\ UNCHANGED <<gamevars, holding, slot, ka, flight, unanswered, texts,
                   kept, spoiled, happened>>

EchoNext ==
    \/ Opens \/ Closes \/ LetsGo \/ Covered \/ Frame \/ Pressed
    \/ ClockTick \/ Speaks \/ SpeechEnds
    \/ KaTakes \/ KaMarks \/ KaSends
    \/ Answers \/ Delivered \/ TailLapses \/ Drops \/ Reconnects

EchoSpec == EchoInit /\ [][EchoNext]_echovars

-----------------------------------------------------------------------------
(***************************************************************************)
(* Properties.                                                             *)
(***************************************************************************)

(* The player's turn comes only after every step was sounded with the      *)
(* agent silent, whatever spoke or covered the screen meanwhile.  Only a   *)
(* frame later than a step is long may cost one, or a game opened by voice *)
(* under the panel and started there, which was never left.                *)
TurnIsEarned ==
    round.state = "input" /\ ~round.late => round.heard = 0..(round.len - 1)

(* What the game had said to it is not conversation: it is kept only once  *)
(* its tail has lapsed, or been ended by some other reply.                 *)
CalloutsAreNotConversation == kept \ {NoNudge} \subseteq spoiled

=============================================================================
