------------------------------ MODULE History ------------------------------
(***************************************************************************)
(* main/dg_agent.c: the conversation the device remembers.  The WebSocket  *)
(* task adds turns; two tasks may clear them (the function handler on the  *)
(* WebSocket task, the hold gesture on the LVGL task); session_ctl's       *)
(* worker writes them to flash, asked by a debounce timer.  The arena has  *)
(* a mutex; the dirty flag, the latch and the timer have none.             *)
(*                                                                         *)
(* A turn is its number, in the order they were said.  The flash is a      *)
(* DurableRecord, which HistoryStore implements.                           *)
(***************************************************************************)
EXTENDS Integers, Sequences, FiniteSetsExt

CONSTANTS
    HISTORY_MAX_TURNS,   \* index slots
    HISTORY_BYTES,       \* arena bytes, in units of a short turn
    LongTurns,           \* the turns of two units
    HISTORY_REPLAY_MAX_TURNS,
    HISTORY_REPLAY_BYTES,
    HISTORY_SAVE_ATTEMPTS,
    Debounce,            \* HISTORY_FLUSH_DEBOUNCE_MS, in ticks
    MaxDefer,            \* HISTORY_FLUSH_MAX_DEFER_MS, in ticks
    MaxTurns,            \* bound: turns said
    MaxSessions,         \* bound: sessions opened
    MaxBadSaves,         \* bound: saves that fail
    MaxLosses,           \* bound: power losses
    Nothing

ASSUME HistoryAssumption ==
    /\ {HISTORY_MAX_TURNS, HISTORY_BYTES, HISTORY_REPLAY_MAX_TURNS,
        HISTORY_SAVE_ATTEMPTS, Debounce, MaxDefer} \subseteq Nat \ {0}
    /\ HISTORY_BYTES > 1 /\ Debounce <= MaxDefer
    /\ {HISTORY_REPLAY_BYTES, MaxTurns, MaxSessions, MaxBadSaves, MaxLosses}
           \subseteq Nat
    /\ LongTurns \subseteq Nat /\ Nothing \notin Seq(Nat)

VARIABLES
    on,       \* the device has power
    arena,    \* the turns held, oldest first
    frozen,   \* s_history_frozen
    dirty,    \* s_history_dirty
    age,      \* ticks since s_dirty_since_ms, up to MaxDefer
    due,      \* ticks until the flush timer fires, or Never
    failures, \* s_save_failures
    disabled, \* s_save_disabled
    asked,    \* session_ctl's flag for a history flush
    todo,     \* what each task still has to do of the call it is in
    session,  \* "down", "opening", "told" its context, "live", "stopping"
    armed,    \* s_clear_armed_ms is set and recent: a forget awaits its answer
    answers,  \* s_user_turns - s_clear_armed_turns, up to 2
    stored, kept, saving, acked, loaded  \* the store's

(* What the properties compare with; no code reads it.                     *)
VARIABLES
    said,      \* turns said
    opened,    \* sessions opened
    context,   \* the turns this session was told of
    forgotten, \* turns up to this one were, or are to be, forgotten
    clearedIn, \* the session in which it was, or 0
    copied,    \* forgotten, as it was when the save under way was copied
    gone,      \* forgotten, as of the last save that returned OK
    askedIn,   \* the session in which the user was last asked to confirm
    tries,     \* saves that failed since a clear lifted the latch
    badSaves, losses

store  == <<stored, kept, saving, acked, loaded>>
latch  == <<failures, disabled>>
timer  == <<age, due>>
call   == <<session, armed, answers, opened, context, askedIn>>
ghosts == <<forgotten, clearedIn, copied, gone, tries>>
bounds == <<said, badSaves, losses>>
vars   == <<on, arena, frozen, dirty, asked, todo, store, latch, timer, call,
            ghosts, bounds>>

Never  == MaxDefer + 1
Tasks  == {"ws", "lvgl", "worker"}
Idle(t) == todo[t] = << >>
Quiet  == \A t \in Tasks : Idle(t)

Store == INSTANCE DurableRecord WITH Payloads <- Seq(Nat), Empty <- << >>

-----------------------------------------------------------------------------
(***************************************************************************)
(* The arena.                                                              *)
(***************************************************************************)
Size(turn) == IF turn \in LongTurns THEN 2 ELSE 1
Bytes(turns) == MapThenSumSet(LAMBDA i : Size(turns[i]), DOMAIN turns)
Turns(seq) == {seq[i] : i \in DOMAIN seq}
Drop(turns, n) == SubSeq(turns, n + 1, Len(turns))

(* Mutant: one turn is evicted, whatever the new one needs.                *)
EvictedOnce(turns, turn) ==
    IF \/ Len(turns) >= HISTORY_MAX_TURNS
       \/ Bytes(turns) + Size(turn) > HISTORY_BYTES
    THEN Drop(turns, 1) ELSE turns

(* history_evict_oldest() until there is a slot and there are the bytes.   *)
Evicted(turns, turn) ==
    Drop(turns, Min({n \in 0 .. Len(turns) :
            /\ Len(turns) - n < HISTORY_MAX_TURNS
            /\ Bytes(Drop(turns, n)) + Size(turn) <= HISTORY_BYTES}))

(* history_to_json(): the newest turns that fit, and one at least.         *)
Replayed(turns) ==
    LET fits == {n \in 0 .. Len(turns) :
                    /\ Len(turns) - n <= HISTORY_REPLAY_MAX_TURNS
                    /\ Bytes(Drop(turns, n)) <= HISTORY_REPLAY_BYTES}
        first == Min(fits)
    IN  IF first = Len(turns) /\ first > 0 THEN Drop(turns, first - 1)
                                           ELSE Drop(turns, first)

Init ==
    /\ on = FALSE /\ arena = << >> /\ frozen = FALSE
    /\ dirty = FALSE /\ age = 0 /\ due = Never
    /\ failures = 0 /\ disabled = FALSE
    /\ asked = FALSE /\ todo = [t \in Tasks |-> << >>]
    /\ session = "down" /\ armed = FALSE /\ answers = 0
    /\ Store!Init
    /\ said = 0 /\ opened = 0 /\ context = << >> /\ askedIn = 0
    /\ forgotten = 0 /\ clearedIn = 0 /\ copied = 0 /\ gone = 0 /\ tries = 0
    /\ badSaves = 0 /\ losses = 0
-----------------------------------------------------------------------------
(***************************************************************************)
(* The steps of the calls: what a task has still to do is in todo[t].      *)
(***************************************************************************)
Does(t, step) == on /\ ~Idle(t) /\ Head(todo[t]) = step
Then(t, steps) == todo' = [todo EXCEPT ![t] = steps]
Done(t) == Then(t, Tail(todo[t]))

(* history_mark_dirty(), its first half: the latch, the flag.              *)
MarkDirty(t) ==
    /\ Does(t, "mark")
    /\ IF disabled
       THEN Then(t, Tail(Tail(todo[t]))) /\ UNCHANGED <<dirty, age>>
       ELSE /\ Done(t)
            /\ dirty' = TRUE
            /\ age' = IF dirty THEN age ELSE 0
    /\ UNCHANGED <<on, arena, frozen, due, asked, store, latch, call, ghosts,
                   bounds>>

(* Mutant: the cap taken from the time that has passed.                    *)
ArmTimerSwapped(t) ==
    /\ Does(t, "arm") /\ Done(t)
    /\ due' = IF age >= MaxDefer THEN due
              ELSE Min({Debounce, age - MaxDefer})
    /\ UNCHANGED <<on, arena, frozen, dirty, age, asked, store, latch, call,
                   ghosts, bounds>>

(* Mutant: every turn restarts the debounce.                               *)
ArmTimerUncapped(t) ==
    /\ Does(t, "arm") /\ Done(t)
    /\ due' = Debounce
    /\ UNCHANGED <<on, arena, frozen, dirty, age, asked, store, latch, call,
                   ghosts, bounds>>

(* Its second half: the debounce starts again, but never past the cap.     *)
ArmTimer(t) ==
    /\ Does(t, "arm") /\ Done(t)
    /\ due' = IF age >= MaxDefer THEN due
              ELSE Min({Debounce, MaxDefer - age})
    /\ UNCHANGED <<on, arena, frozen, dirty, age, asked, store, latch, call,
                   ghosts, bounds>>

(* A clear gets a fresh set of attempts.                                   *)
LiftLatch(t) ==
    /\ Does(t, "lift") /\ Done(t)
    /\ disabled' = FALSE /\ failures' = 0 /\ tries' = 0
    /\ UNCHANGED <<on, arena, frozen, dirty, asked, store, timer, call,
                   forgotten, clearedIn, copied, gone, bounds>>

AskForFlush(t) ==
    /\ Does(t, "ask") /\ Done(t)
    /\ asked' = TRUE
    /\ UNCHANGED <<on, arena, frozen, dirty, store, latch, timer, call, ghosts,
                   bounds>>

(* Mutant: the history is emptied but not frozen.                          *)
ClearUnfrozen(t) ==
    /\ arena' = << >> /\ frozen' = FALSE /\ armed' = FALSE
    /\ forgotten' = said /\ clearedIn' = opened
    /\ Then(t, <<"lift", "mark", "arm", "ask">>)

(* dg_agent_clear_history() up to where it gives the lock back.            *)
Clear(t) ==
    /\ arena' = << >> /\ frozen' = TRUE /\ armed' = FALSE
    /\ forgotten' = said /\ clearedIn' = opened
    /\ Then(t, <<"lift", "mark", "arm", "ask">>)

-----------------------------------------------------------------------------
(***************************************************************************)
(* The WebSocket task.                                                     *)
(***************************************************************************)
Receives(states) == on /\ session \in states /\ Idle("ws")

(* Mutant: history_add() without its test of the freeze.                   *)
ConversationTextThawed ==
    /\ Receives({"live"}) /\ said < MaxTurns
    /\ said' = said + 1
    /\ forgotten' = IF clearedIn = opened THEN said' ELSE forgotten
    /\ \E user \in BOOLEAN :
            answers' = IF user /\ answers < 2 THEN answers + 1 ELSE answers
    /\ arena' = Append(Evicted(arena, said'), said')
    /\ Then("ws", <<"mark", "arm">>)
    /\ UNCHANGED <<on, frozen, dirty, asked, store, latch, timer, session,
                   armed, opened, context, askedIn, clearedIn, copied, gone,
                   tries, badSaves, losses>>

(* ConversationText: history_add() up to where it gives the lock back.     *)
ConversationText ==
    /\ Receives({"live"}) /\ said < MaxTurns
    /\ said' = said + 1
    /\ forgotten' = IF clearedIn = opened THEN said' ELSE forgotten
    /\ \E user \in BOOLEAN :
            answers' = IF user /\ answers < 2 THEN answers + 1 ELSE answers
    /\ IF frozen
       THEN UNCHANGED <<arena, todo>>
       ELSE /\ arena' = Append(Evicted(arena, said'), said')
            /\ Then("ws", <<"mark", "arm">>)
    /\ UNCHANGED <<on, frozen, dirty, asked, store, latch, timer, session,
                   armed, opened, context, askedIn, clearedIn, copied, gone,
                   tries, badSaves, losses>>

(* The function call new_conversation.  The first arms, the second clears. *)
new_conversation ==
    /\ Receives({"live"})
    /\ IF armed /\ answers = 1
       THEN Clear("ws") /\ UNCHANGED <<answers, askedIn>>
       ELSE /\ armed' = TRUE /\ answers' = 0 /\ askedIn' = opened
            /\ UNCHANGED <<arena, frozen, todo, forgotten, clearedIn>>
    /\ UNCHANGED <<on, dirty, asked, store, latch, timer, session, opened,
                   context, copied, gone, tries, bounds>>

(* CLEAR_CONFIRM_WINDOW_MS has passed.                                     *)
ConfirmLapses ==
    /\ on /\ armed
    /\ armed' = FALSE
    /\ UNCHANGED <<on, arena, frozen, dirty, asked, todo, store, latch, timer,
                   session, answers, opened, context, askedIn, ghosts, bounds>>

SendSettings ==
    /\ Receives({"opening"})
    /\ session' = "told" /\ context' = Replayed(arena)
    /\ UNCHANGED <<on, arena, frozen, dirty, asked, todo, store, latch, timer,
                   armed, answers, opened, askedIn, ghosts, bounds>>

SettingsApplied ==
    /\ Receives({"told"})
    /\ session' = "live" /\ frozen' = FALSE
    /\ UNCHANGED <<on, arena, dirty, asked, todo, store, latch, timer, armed,
                   answers, opened, context, askedIn, ghosts, bounds>>

(* Mutant: a question survives the socket.                                 *)
DisconnectedArmed ==
    /\ Receives({"opening", "told", "live"}) /\ opened < MaxSessions
    /\ session' = "opening" /\ opened' = opened + 1
    /\ asked' = TRUE
    /\ UNCHANGED <<on, arena, frozen, dirty, todo, store, latch, timer, armed,
                   answers, context, askedIn, ghosts, bounds>>

(* WEBSOCKET_EVENT_DISCONNECTED: the client will open another one.         *)
Disconnected ==
    /\ Receives({"opening", "told", "live"}) /\ opened < MaxSessions
    /\ session' = "opening" /\ opened' = opened + 1
    /\ armed' = FALSE /\ answers' = 0
    /\ asked' = TRUE
    /\ UNCHANGED <<on, arena, frozen, dirty, todo, store, latch, timer,
                   context, askedIn, ghosts, bounds>>

-----------------------------------------------------------------------------
(***************************************************************************)
(* The LVGL task, the timer, session_ctl's worker.                         *)
(***************************************************************************)
(* The second hold; on_gesture() gets here only with the session down.     *)
ForgetConfirmed ==
    /\ on /\ session = "down" /\ arena /= << >>
    /\ Idle("lvgl") /\ Idle("ws")
    /\ Clear("lvgl")
    /\ UNCHANGED <<on, dirty, asked, store, latch, timer, session, answers,
                   opened, context, askedIn, copied, gone, tries, bounds>>

(* history_mark_dirty() reads the clock once: its halves are one instant.  *)
Tick ==
    /\ on /\ due /= 0 /\ \A t \in Tasks : ~Does(t, "arm")
    /\ age' = Min({age + 1, MaxDefer})
    /\ due' = IF due = Never THEN Never ELSE due - 1
    /\ UNCHANGED <<on, arena, frozen, dirty, asked, todo, store, latch, call,
                   ghosts, bounds>>

FlushTimer ==
    /\ on /\ due = 0
    /\ due' = Never /\ asked' = TRUE
    /\ UNCHANGED <<on, arena, frozen, dirty, age, todo, store, latch, call,
                   ghosts, bounds>>

(* dg_agent_flush_history() up to where it takes the lock.                 *)
FlushHistory ==
    IF dirty /\ ~disabled THEN dirty' = FALSE /\ Then("worker", <<"copy">>)
                          ELSE UNCHANGED <<dirty, todo>>

FlushAsked ==
    /\ on /\ asked /\ Idle("worker") /\ session /= "stopping"
    /\ asked' = FALSE
    /\ FlushHistory
    /\ UNCHANGED <<on, arena, frozen, store, latch, timer, call, ghosts,
                   bounds>>

StartSession ==
    /\ on /\ session = "down" /\ Idle("worker") /\ opened < MaxSessions
    /\ session' = "opening" /\ opened' = opened + 1
    /\ UNCHANGED <<on, arena, frozen, dirty, asked, todo, store, latch, timer,
                   armed, answers, context, askedIn, ghosts, bounds>>

(* dg_agent_stop() waits for the WebSocket task; then do_stop() saves.     *)
StopSession ==
    /\ Receives({"opening", "told", "live"}) /\ Idle("worker")
    /\ session' = "stopping" /\ armed' = FALSE /\ answers' = 0
    /\ FlushHistory
    /\ UNCHANGED <<on, arena, frozen, asked, store, latch, timer, opened,
                   context, askedIn, ghosts, bounds>>

(* do_stop() returns and s_busy comes down: gestures count again.          *)
Stopped ==
    /\ on /\ session = "stopping" /\ Idle("worker")
    /\ session' = "down"
    /\ UNCHANGED <<on, arena, frozen, dirty, asked, todo, store, latch, timer,
                   armed, answers, opened, context, askedIn, ghosts, bounds>>

(* The record is a copy, taken under the lock.                             *)
CopyArena ==
    /\ Does("worker", "copy") /\ Then("worker", <<"save">>)
    /\ Store!Save(arena)
    /\ copied' = forgotten
    /\ UNCHANGED <<on, arena, frozen, dirty, asked, latch, timer, call,
                   forgotten, clearedIn, gone, tries, bounds>>

SaveSucceeds ==
    /\ Does("worker", "save") /\ Done("worker")
    /\ Store!Saved
    /\ failures' = 0 /\ gone' = copied
    /\ UNCHANGED <<on, arena, frozen, dirty, asked, timer, call, disabled,
                   forgotten, clearedIn, copied, tries, bounds>>

SaveTakesBack ==
    /\ Does("worker", "save")
    /\ Store!TakeBack
    /\ UNCHANGED <<on, arena, frozen, dirty, asked, todo, latch, timer, call,
                   ghosts, bounds>>

(* Mutant: a retry raises the flag and arms nothing.                       *)
SaveFailsUnarmed ==
    /\ badSaves < MaxBadSaves /\ badSaves' = badSaves + 1
    /\ \/ Does("worker", "copy") /\ UNCHANGED store
       \/ Does("worker", "save") /\ Store!Failed
    /\ failures' = failures + 1 /\ tries' = tries + 1
    /\ Then("worker", IF failures' < HISTORY_SAVE_ATTEMPTS
                      THEN <<"mark">> ELSE <<"give up">>)
    /\ UNCHANGED <<on, arena, frozen, dirty, asked, disabled, timer, call,
                   forgotten, clearedIn, copied, gone, said, losses>>

(* No memory for the copy, or an error from the store; then                *)
(* history_note_save_failure() up to its verdict.                          *)
SaveFails ==
    /\ badSaves < MaxBadSaves /\ badSaves' = badSaves + 1
    /\ \/ Does("worker", "copy") /\ UNCHANGED store
       \/ Does("worker", "save") /\ Store!Failed
    /\ failures' = failures + 1 /\ tries' = tries + 1
    /\ Then("worker", IF failures' < HISTORY_SAVE_ATTEMPTS
                      THEN <<"mark", "arm">> ELSE <<"give up">>)
    /\ UNCHANGED <<on, arena, frozen, dirty, asked, disabled, timer, call,
                   forgotten, clearedIn, copied, gone, said, losses>>

GiveUp ==
    /\ Does("worker", "give up") /\ Done("worker")
    /\ disabled' = TRUE
    /\ UNCHANGED <<on, arena, frozen, dirty, asked, failures, store, timer,
                   call, ghosts, bounds>>

-----------------------------------------------------------------------------
(* dg_agent_init(): history_load(), which keeps an empty arena if it has   *)
(* no memory or the store returns an error.                                *)
Boot ==
    /\ ~on /\ on' = TRUE
    /\ \/ Store!Load /\ arena' = stored
       \/ UNCHANGED <<store, arena>>
    /\ UNCHANGED <<frozen, dirty, asked, todo, latch, timer, call, ghosts,
                   bounds>>

PowerLoss ==
    /\ on /\ on' = FALSE
    /\ losses < MaxLosses /\ losses' = losses + 1
    /\ Store!PowerLoss
    /\ arena' = << >> /\ frozen' = FALSE
    /\ dirty' = FALSE /\ age' = 0 /\ due' = Never
    /\ failures' = 0 /\ disabled' = FALSE
    /\ asked' = FALSE /\ todo' = [t \in Tasks |-> << >>]
    /\ session' = "down" /\ armed' = FALSE /\ answers' = 0
    /\ context' = << >> /\ askedIn' = 0
    /\ forgotten' = gone /\ clearedIn' = 0 /\ copied' = 0 /\ tries' = 0
    /\ UNCHANGED <<said, opened, gone, badSaves>>

CallStep(t) == MarkDirty(t) \/ ArmTimer(t) \/ LiftLatch(t) \/ AskForFlush(t)
SaveStep == CopyArena \/ SaveSucceeds \/ SaveTakesBack \/ SaveFails \/ GiveUp

Next ==
    \/ \E t \in Tasks : CallStep(t)
    \/ ConversationText
    \/ new_conversation
    \/ ConfirmLapses
    \/ SendSettings
    \/ SettingsApplied
    \/ Disconnected
    \/ ForgetConfirmed
    \/ Tick
    \/ FlushTimer
    \/ FlushAsked
    \/ StartSession
    \/ StopSession
    \/ Stopped
    \/ SaveStep
    \/ Boot
    \/ PowerLoss

Spec == Init /\ [][Next]_vars

(* Tasks that have started a call go on with it, a call to the flash comes *)
(* back, time passes and the worker looks at its flags.                    *)
FairSpec ==
    /\ Spec
    /\ \A t \in Tasks : WF_vars(CallStep(t))
    /\ WF_vars(CopyArena) /\ WF_vars(GiveUp)
    /\ WF_vars(SaveSucceeds \/ SaveFails)
    /\ WF_vars(Tick) /\ WF_vars(FlushTimer) /\ WF_vars(FlushAsked)
    /\ WF_vars(Stopped)

-----------------------------------------------------------------------------
TypeOK ==
    /\ {on, frozen, dirty, disabled, asked, armed} \subseteq BOOLEAN
    /\ {arena, context} \subseteq Seq(1 .. MaxTurns)
    /\ age \in 0 .. MaxDefer /\ due \in 0 .. Never
    /\ failures \in 0 .. HISTORY_SAVE_ATTEMPTS
    /\ todo \in [Tasks -> Seq({"lift", "mark", "arm", "ask", "copy", "save",
                                "give up"})]
    /\ session \in {"down", "opening", "told", "live", "stopping"}
    /\ answers \in 0 .. 2

(* However long the turns, the arena never outgrows its slots or its       *)
(* bytes; what the model is told fits the budget, or is a single turn.     *)
ArenaFits ==
    /\ Len(arena) <= HISTORY_MAX_TURNS /\ Bytes(arena) <= HISTORY_BYTES
    /\ Len(context) > 1 => Bytes(context) <= HISTORY_REPLAY_BYTES

(* While turns are being recorded, neither the arena nor the model holds a *)
(* forgotten one: "the session this records turns for is now the one that  *)
(* was told nothing" (the comment at SettingsApplied).                     *)
ForgettingTakes ==
    /\ \A turn \in Turns(arena) : turn > forgotten
    /\ session = "live" /\ ~frozen =>
            \A turn \in Turns(context) : turn > forgotten

(* Once the empty record has been written, no failed save, torn write or   *)
(* reboot brings a forgotten turn back.                                    *)
NothingComesBack == \A turn \in Turns(stored) \cup Turns(arena) : turn > gone

(* What the user asked to be forgotten is forgotten everywhere and for       *)
(* good: in the arena, by the model, on the flash, after a failed save, a    *)
(* torn one or a reboot.                                                     *)
ForgottenStaysForgotten == ForgettingTakes /\ NothingComesBack

(* What the device knows to be on flash.                                   *)
Known == IF acked /= Nothing THEN acked
         ELSE IF loaded /= Nothing THEN loaded ELSE << >>

(* With no call under way, an arena that differs from what was last saved  *)
(* is marked dirty, and the flush is asked for or will be within the cap   *)
(* on the deferral, however the turns, the failures and the flushes of     *)
(* three tasks were interleaved.                                           *)
UnsavedIsScheduled ==
    on /\ Quiet /\ ~disabled =>
        /\ arena = Known \/ dirty
        /\ dirty => asked \/ (due /= Never /\ age + due <= MaxDefer)

(* Nobody's conversation is cleared by voice unless they were asked in     *)
(* this very session; no question outlives its session.                    *)
ForgetIsAskedFor ==
    [][session = "live" /\ clearedIn /= opened /\ clearedIn' = opened
           => askedIn = opened]_vars

(* If not more saves fail than the code retries, whatever was said or      *)
(* forgotten reaches the flash.                                            *)
EventuallySaved == on /\ arena /= Known ~> ~on \/ arena = Known
=============================================================================
