------------------------------ MODULE Announce ------------------------------
(***************************************************************************)
(* main/dg_agent.c: what the agent says unasked.  An announcement waits in *)
(* one slot for a session, for ANNOUNCE_TTL_MS at most, and goes out as a  *)
(* new session's greeting or as an inject of keepalive_task(); a nudge is  *)
(* for the session that is up.  The server may refuse an inject, and does  *)
(* not say which.  The sockets, stops and backstops are Agent's.           *)
(***************************************************************************)
EXTENDS Naturals, FiniteSets, Sequences, SequencesExt

CONSTANTS
    Announcements,  \* texts alarms.c composes; each is announced once
    Nudges,         \* Echo's callouts
    INJECT_RETRIES,
    MaxSessions,    \* bound: connections
    MaxWire         \* bound: injects unanswered

NoText == << >>   \* no text; a joined announcement is a sequence of texts

ASSUME AnnounceAssumption ==
    /\ Announcements \intersect Nudges = {}
    /\ INJECT_RETRIES \in Nat /\ MaxSessions \in Nat /\ MaxWire \in Nat

VARIABLES
    slot,      \* s_announce
    stamp,     \* s_announce_ms: "empty", "fresh", or past ANNOUNCE_TTL_MS
    nudge,     \* s_nudge
    injected,  \* s_injected
    last,      \* s_nudge_last
    tries,     \* s_inject_tries
    retry,     \* s_inject_retry is armed
    socket,    \* "down", "open" (Settings sent) or "live"
    up,        \* s_ready
    event,     \* what the WebSocket task has still to do of its event
    caller,    \* dg_agent_announce(): "idle", "put" or "poke", and its text
    nudger,    \* dg_agent_nudge(): the text it is about to store
    ka,        \* keepalive_task(): where it is, and what it has taken
    buffer,    \* its PSRAM buffer has been allocated
    notified,  \* its notification is pending
    injects,   \* injects sent and not answered, oldest first
    greeting,  \* the announcement in a Settings not yet applied
    announced, \* history: what has been announced
    said,      \* history: how often the agent has been given each to say
    spoiled,   \* history: announcements a known loss has befallen
    sessions   \* bounds the run

slots   == <<slot, stamp, nudge, injected, last, tries, retry>>
session == <<socket, up, event, sessions>>
tasks   == <<caller, nudger, ka, buffer, notified>>
server  == <<injects, greeting, announced, said, spoiled>>
annvars == <<slots, session, tasks, server>>

Pending == stamp = "fresh"

Occurs(a, text) == Cardinality({i \in DOMAIN text : text[i] = a})
Spoils(text) == spoiled' = spoiled \union ToSet(text)
Says(text) == [a \in Announcements |-> said[a] + Occurs(a, text)]

(* announce_put(): whatever is in the slot makes way.                      *)
announce_put(text) == slot' = text /\ stamp' = "fresh"

Emptied == slot' = NoText /\ stamp' = "empty"

-----------------------------------------------------------------------------
(***************************************************************************)
(* dg_agent_announce(), on the main loop.  The slot is tested and filled   *)
(* in two critical sections when it was empty, and the poke comes last.    *)
(***************************************************************************)
dg_agent_announce(a) ==
    /\ caller.at = "idle" /\ a \notin announced
    /\ announced' = announced \union {a}
    /\ \/ /\ Pending /\ slot' = Append(slot, a)
          /\ caller' = [at |-> "poke", text |-> NoText]
          /\ UNCHANGED spoiled
       \/ /\ Pending /\ Spoils(<<a>>)           \* the pair will not fit
          /\ UNCHANGED <<slot, caller>>
       \/ /\ ~Pending
          /\ caller' = [at |-> "put", text |-> <<a>>]
          /\ UNCHANGED <<slot, spoiled>>
    /\ UNCHANGED <<stamp, nudge, injected, last, tries, retry,
                   session, nudger, ka, buffer, notified, injects, greeting,
                   said>>

AnnouncePut ==
    /\ caller.at = "put"
    /\ announce_put(caller.text) /\ Spoils(slot)
    /\ caller' = [at |-> "poke", text |-> NoText]
    /\ UNCHANGED <<nudge, injected, last, tries, retry, session,
                   nudger, ka, buffer, notified, injects, greeting, announced,
                   said>>

(* Mutant: nobody wakes the sender.                                        *)
PokesNever == FALSE

(* The sender is woken if there is a session to send to.                   *)
Pokes == up

AnnouncePoke ==
    /\ caller.at = "poke"
    /\ tries' = 0
    /\ notified' = (notified \/ Pokes)
    /\ caller' = [at |-> "idle", text |-> NoText]
    /\ UNCHANGED <<slot, stamp, nudge, injected, last, retry,
                   session, nudger, ka, buffer, server>>

(***************************************************************************)
(* dg_agent_nudge() and dg_agent_nudge_cancel(), on the LVGL task: Echo.   *)
(***************************************************************************)
dg_agent_nudge(n) ==
    /\ nudger = NoText /\ up
    /\ nudger' = <<n>>
    /\ UNCHANGED <<slots, session, caller, ka, buffer, notified, server>>

NudgePut ==
    /\ nudger # NoText
    /\ nudge' = nudger /\ nudger' = NoText /\ notified' = TRUE
    /\ UNCHANGED <<slot, stamp, injected, last, tries, retry,
                   session, caller, ka, buffer, server>>

dg_agent_nudge_cancel ==
    /\ nudger = NoText
    /\ nudge' = NoText
    /\ UNCHANGED <<slot, stamp, injected, last, tries, retry,
                   session, tasks, server>>

-----------------------------------------------------------------------------
(***************************************************************************)
(* keepalive_task(): woken by a poke or by its period, it claims its flag, *)
(* takes one inject from a slot and sends it.  A socket that fails in the  *)
(* send takes the inject with it.                                          *)
(***************************************************************************)
Keeper(pc) == ka.at = pc
KeeperGoes(pc, text) == ka' = [at |-> pc, text |-> text]
Waiting == Keeper("wait")

(* announce_pending() empties a slot that has gone stale.                  *)
KaWakes ==
    /\ Waiting /\ KeeperGoes("take", NoText)
    /\ notified' = FALSE
    /\ IF buffer \/ (~Pending /\ nudge = NoText)
       THEN UNCHANGED buffer
       ELSE buffer' \in BOOLEAN
    /\ IF ~buffer /\ stamp = "stale"
       THEN Emptied
       ELSE UNCHANGED <<slot, stamp>>
    /\ UNCHANGED <<nudge, injected, last, tries, retry, session,
                   caller, nudger, server>>

CanInject == buffer /\ up /\ socket # "down"

(* Mutant: the announcement is taken whether or not it can be sent.        *)
announce_take_unready ==
    /\ Keeper("take") /\ buffer /\ Pending
    /\ Emptied /\ KeeperGoes(IF CanInject THEN "announce" ELSE "again", slot)
    /\ UNCHANGED <<nudge, injected, last, tries, retry, session,
                   caller, nudger, buffer, notified, server>>

announce_take ==
    /\ Keeper("take") /\ CanInject /\ Pending
    /\ Emptied /\ KeeperGoes("announce", slot)
    /\ UNCHANGED <<nudge, injected, last, tries, retry, session,
                   caller, nudger, buffer, notified, server>>

nudge_take ==
    /\ Keeper("take") /\ CanInject /\ ~Pending /\ nudge # NoText
    /\ Emptied /\ nudge' = NoText /\ KeeperGoes("nudge", nudge)
    /\ UNCHANGED <<injected, last, tries, retry, session, caller,
                   nudger, buffer, notified, server>>

(* Nothing to take, or no session to send it to; perhaps a KeepAlive.      *)
TakesNothing ==
    /\ Keeper("take") /\ ~(CanInject /\ (Pending \/ nudge # NoText))
    /\ IF CanInject THEN Emptied ELSE UNCHANGED <<slot, stamp>>
    /\ KeeperGoes("wait", NoText)
    /\ UNCHANGED <<nudge, injected, last, tries, retry, session,
                   caller, nudger, buffer, notified, server>>

(* s_injected and s_nudge_last, or the nudge's marks, ahead of the send.   *)
Marks ==
    /\ \/ /\ Keeper("announce") /\ KeeperGoes("sendAnnounce", ka.text)
          /\ injected' = ka.text /\ last' = FALSE
       \/ /\ Keeper("nudge") /\ KeeperGoes("sendNudge", ka.text)
          /\ last' = TRUE
          /\ UNCHANGED injected
    /\ UNCHANGED <<slot, stamp, nudge, tries, retry, session, caller, nudger,
                   buffer, notified, server>>

Inject(kind) == [kind |-> kind, text |-> ka.text]

Sends ==
    /\ Keeper("sendAnnounce") \/ Keeper("sendNudge")
    /\ KeeperGoes("again", NoText)
    /\ \/ /\ socket # "down" /\ Len(injects) < MaxWire
          /\ injects' = Append(injects, Inject(ka.at))
          /\ UNCHANGED spoiled
       \/ Spoils(ka.text) /\ UNCHANGED injects
    /\ UNCHANGED <<slots, session, caller, nudger, buffer, notified, greeting,
                   announced, said>>

(* Round again for the other slot.                                         *)
Again ==
    /\ Keeper("again") /\ KeeperGoes("wait", NoText)
    /\ notified' = (notified \/ Pending \/ nudge # NoText)
    /\ IF stamp = "stale" THEN Emptied ELSE UNCHANGED <<slot, stamp>>
    /\ UNCHANGED <<nudge, injected, last, tries, retry, session,
                   caller, nudger, buffer, server>>

-----------------------------------------------------------------------------
(***************************************************************************)
(* The WebSocket task: Settings, with the announcement for a greeting when *)
(* there is no history; SettingsApplied; refusals; and the socket's end.   *)
(***************************************************************************)
send_settings(history) ==
    /\ socket = "down" /\ event = "idle" /\ sessions < MaxSessions
    /\ socket' = "open" /\ sessions' = sessions + 1
    /\ IF history
       THEN /\ UNCHANGED greeting
            /\ IF stamp = "stale" THEN Emptied ELSE UNCHANGED <<slot, stamp>>
       ELSE Emptied /\ greeting' = IF Pending THEN slot ELSE NoText
    /\ UNCHANGED <<nudge, injected, last, tries, retry, up, event,
                   tasks, injects, announced, said, spoiled>>

(* s_ready first, then the slot.                                           *)
AnnApplied ==
    /\ socket = "open" /\ event = "idle"
    /\ socket' = "live" /\ up' = TRUE /\ event' = "poke"
    /\ said' = Says(greeting) /\ greeting' = NoText
    /\ UNCHANGED <<slots, sessions, tasks, injects, announced, spoiled>>

SettingsPoke ==
    /\ event = "poke" /\ event' = "idle"
    /\ notified' = (notified \/ Pending)
    /\ IF stamp = "stale" THEN Emptied ELSE UNCHANGED <<slot, stamp>>
    /\ UNCHANGED <<nudge, injected, last, tries, retry, socket, up,
                   sessions, caller, nudger, ka, buffer, server>>

(* The server gives the agent an inject to say.                            *)
Accepts ==
    /\ socket = "live" /\ injects # << >>
    /\ injects' = Tail(injects)
    /\ said' = Says(Head(injects).text)
    /\ UNCHANGED <<slots, session, tasks, greeting, announced, spoiled>>

(* What the code puts back is the last inject, whichever was refused.      *)
Misread(refused) ==
    \/ refused.kind = "sendNudge" /\ ~last
    \/ refused.kind = "sendAnnounce" /\ (last \/ refused.text # injected)

(* A refused announcement goes back into the slot, so many times.          *)
MayRetry == injected # NoText /\ tries < INJECT_RETRIES

InjectionRefused ==
    /\ socket = "live" /\ event = "idle" /\ injects # << >>
    /\ injects' = Tail(injects)
    /\ LET refused == Head(injects)
           wrong   == IF Misread(refused)
                      THEN ToSet(refused.text) \union ToSet(injected)
                      ELSE {}
       IN \/ /\ last
             /\ spoiled' = spoiled \union wrong
             /\ UNCHANGED <<slot, stamp, tries, retry>>
          \/ /\ ~last /\ MayRetry
             /\ tries' = tries + 1 /\ retry' = TRUE
             /\ announce_put(injected)
             /\ spoiled' = spoiled \union wrong \union ToSet(slot)
          \/ /\ ~last /\ ~MayRetry
             /\ spoiled' = spoiled \union wrong \union ToSet(refused.text)
             /\ UNCHANGED <<slot, stamp, tries, retry>>
    /\ UNCHANGED <<nudge, injected, last, session, tasks, greeting, announced,
                   said>>

(* The socket is gone and what was on it with it.                          *)
SocketGoes ==
    /\ socket # "down" /\ event \in {"idle", "poke"}
    /\ socket' = "down" /\ event' = "cancel"
    /\ injects' = << >> /\ greeting' = NoText
    /\ spoiled' = spoiled \union ToSet(greeting)
                  \union UNION {ToSet(injects[i].text) : i \in DOMAIN injects}
    /\ UNCHANGED <<slots, up, sessions, tasks, announced, said>>

(* DISCONNECTED: the nudge, then s_ready.                                  *)
Cancels ==
    /\ event = "cancel" /\ event' = "down"
    /\ nudge' = NoText
    /\ UNCHANGED <<slot, stamp, injected, last, tries, retry, socket, up,
                   sessions, tasks, server>>

LowersReady ==
    /\ event = "down" /\ event' = "idle"
    /\ up' = FALSE
    /\ UNCHANGED <<slots, socket, sessions, tasks, server>>

(* dg_agent_stop() lowers s_ready; what follows is as in SocketGoes.       *)
dg_agent_stop ==
    /\ up /\ up' = FALSE
    /\ UNCHANGED <<slots, socket, event, sessions, tasks, server>>

-----------------------------------------------------------------------------
inject_retry_cb ==
    /\ retry /\ retry' = FALSE
    /\ notified' = TRUE
    /\ UNCHANGED <<slot, stamp, nudge, injected, last, tries,
                   session, caller, nudger, ka, buffer, server>>

(* ANNOUNCE_TTL_MS passes.                                                 *)
Expires ==
    /\ stamp = "fresh" /\ stamp' = "stale"
    /\ Spoils(slot)
    /\ UNCHANGED <<slot, nudge, injected, last, tries, retry,
                   session, tasks, injects, greeting, announced, said>>

-----------------------------------------------------------------------------
AnnInit ==
    /\ slot = NoText /\ stamp = "empty" /\ nudge = NoText /\ injected = NoText
    /\ last = FALSE /\ tries = 0 /\ retry = FALSE
    /\ socket = "down" /\ up = FALSE /\ event = "idle" /\ sessions = 0
    /\ caller = [at |-> "idle", text |-> NoText] /\ nudger = NoText
    /\ ka = [at |-> "wait", text |-> NoText] /\ buffer = FALSE
    /\ notified = FALSE
    /\ injects = << >> /\ greeting = NoText
    /\ announced = {} /\ said = [a \in Announcements |-> 0] /\ spoiled = {}

CallerStep ==
    \/ \E a \in Announcements : dg_agent_announce(a)
    \/ AnnouncePut \/ AnnouncePoke
    \/ \E n \in Nudges : dg_agent_nudge(n)
    \/ NudgePut \/ dg_agent_nudge_cancel

KeepaliveStep ==
    \/ KaWakes \/ announce_take \/ nudge_take \/ TakesNothing \/ Marks
    \/ Sends \/ Again

AnnSocketStep ==
    \/ \E history \in BOOLEAN : send_settings(history)
    \/ AnnApplied \/ SettingsPoke \/ Accepts \/ InjectionRefused
    \/ dg_agent_stop \/ SocketGoes \/ Cancels \/ LowersReady

AnnNext == CallerStep \/ KeepaliveStep \/ AnnSocketStep \/ inject_retry_cb
           \/ Expires

AnnSpec == AnnInit /\ [][AnnNext]_annvars
-----------------------------------------------------------------------------
(***************************************************************************)
(* Properties.                                                             *)
(***************************************************************************)

OnTheWire(a) ==
    Cardinality({i \in DOMAIN injects : a \in ToSet(injects[i].text)})

Places(a) ==
    said[a] + Occurs(a, slot) + Occurs(a, caller.text) + Occurs(a, ka.text)
    + OnTheWire(a) + Occurs(a, greeting)

(* Every announcement is said once: between two alarms, refusals, stops,   *)
(* drops and reconnects it is in one place exactly until it is said, unless *)
(* it waited too long, did not fit beside another, was on a socket that    *)
(* failed, was refused once too often, or fell to a retry that put back    *)
(* the wrong text or wrote over it (dg_agent_announce(), keepalive_task()). *)
SaidOnce == \A a \in announced \ spoiled : Places(a) = 1

(* No poke is lost: while the session is up and the sender asleep, an      *)
(* announcement that waits has a poke pending or on its way, so it does    *)
(* not wait for the keepalive period (dg_agent_announce(), SettingsApplied)*)
PokeIsNotLost ==
    socket = "live" /\ up /\ Waiting /\ buffer /\ Pending =>
        notified \/ retry \/ caller.at = "poke" \/ event = "poke"

(* A nudge "never waits out a reconnect" (s_nudge).                        *)
NudgeNeverWaits == socket = "open" => nudge = NoText
=============================================================================
