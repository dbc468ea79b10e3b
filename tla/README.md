# A TLA+ model of the ESP32 voice agent firmware

The firmware turns an ESP32-S3 board with a round touch panel, two microphones
and a speaker into a voice agent: it holds a WebSocket session with Deepgram's
Agent API, plays what arrives, sends what the microphone hears, keeps the
conversation in flash, rings alarms, and sleeps. It is C on FreeRTOS, two
cores, about a dozen tasks that share `volatile` variables and a few locks.
Most of what can go wrong is in the order in which those tasks run, in what
survives a power cut, and in 32-bit millisecond clocks. That is what these
modules are about.

## 1. Inventory

Tasks that matter: the session worker (`session_ctl_task`), the main loop
(`app_main`, once a second), the LVGL task (touch gestures, screens), the BOOT
button's timer task, the WebSocket client's task (created by
`esp_websocket_client_start`, gone after `_stop`), the audio sender and the
keepalive task of `dg_agent.c`, the playback (drain) and capture tasks of
`audio_io.c`, the `esp_timer` task (debounce and backstop timers), lwIP's SNTP
callback and the Wi-Fi event task.

| Component | State | Operations | Interacts with | Hard part |
|---|---|---|---|---|
| session control `session_ctl.c` | notification slot, five `s_*_wanted` flags, `s_running`, `s_start_failed`, `s_busy`, `s_busy_since_ms`, `s_ready_at_ms` | gesture requests (start, toggle, restart, stop), reload, deferred reload/start, three saves, `do_stop`, `do_start`, `busy_for_ms`, `repaint_idle_status` | posted to by every task; drives the agent, audio, radio, panel | one overwritten slot next to flags; gate and watchdog read without a lock; a stop that may hang |
| gestures, interrupt, forget `main.c` | mute deadline, inbound flag, interrupt grace, forget offer, notice deadline, bad-key flags | `on_gesture`, `do_interrupt`, `end_interrupt`, agent callbacks | audio mute and flush, session control, history | three tasks set and clear the mute; deadlines in 32-bit ms |
| supervision loop `main.c` | sleep and stop stamps, display-test hand-over | sleep, radio policy, idle timeout, watchdog, bad key, notices, test entry | everything, by polling | decisions applied later than they were made |
| agent protocol `dg_agent.c` | `s_ready`, `s_suppress_state`, deferred reload and test, clear confirmation, JSON buffer, sending flags | start, stop, event handler, function calls, senders | WebSocket client, callbacks to `main.c` | messages dispatched during a stop; backstop timers racing messages; state that must die with its session |
| conversation history `dg_agent.c` | arena, index, `s_history_frozen`, dirty flag and stamps, failure count and latch | add, evict, clear, flush, load, mark dirty | session worker, history store | change during a write; retries against clear |
| announcements, nudges `dg_agent.c` | one announcement with a stamp, one nudge, retry count | announce, take, put back, refuse | alarms, Echo, keepalive task | refused while a newer one is set |
| history store `history_store.c` | eight flash sectors, `s_slot`, `s_seq` | load, save, erase | history | power loss inside a save; sequence wrap |
| playback `audio_io.c` | ring buffer, flush flag, carries, chime, tone, speaker closed | play, flush, reset, chime, tone, deep idle, drain task | WebSocket task, alarms, capture | flags set while the drain task is between reading and clearing them |
| capture `audio_io.c` | enabled flag, microphone open, uplink hold | capture task, hold, enable | agent's sender, codec lock | parking the microphone against deep idle |
| audio settings `audio_io.c`, `controls.c` | volume, gain, their dirty flags | live set, save, persist | LVGL, WebSocket task, session worker | dirty flag cleared after the value was read |
| alarms `alarms.c`, `alarm_sched.c` | table of eight, monotonic deadlines, ring cycle | set, cancel, tick, ring, stop, snooze | playback, uplink hold, announcements, session control | requests from other tasks; missed, late and overlapping alarms; persistence |
| clock `clock.c` | zone and format with pending values, source, RTC | tick, SNTP sync, set zone/format | alarms, screens | hand-over of pending values |
| BOOT button `boot_button.c` | swallow flag and stamp | press, click, double click, hold | alarms, session control, credentials | one press with several events |
| controls, stopwatch | stopwatch, settings quiet timer | toggle, lap, reset, commit | LVGL, voice functions | - |
| Echo `echo.c`, `ui_echo.c` | sequence, position, state | tick, press, resume | tones, nudges, holds | agent speaking over the game |
| Wi-Fi `wifi_sta.c` | retries, `s_connecting`, event bits | start, stop, event handler | main, portal | giving up after boot |
| portal, credentials, key | form, NVS | save, scan, redirect | reboot | - |
| battery `battery.c` | median window, low/full flags | sample | screens, sleep | hysteresis |
| voices, name, prompt | tables, one NVS key each | lookup, build text | agent | - |
| screens and faces | LVGL objects, canvases | draw | gestures | drawing |
| WebSocket transport (vendored) | frame state | read, write with local patches | agent | writes on a congested link |

What makes each correct, in one line: session control runs one action at a
time, hides none from the gates, loses no press and no save, and at rest the
session is whole or the device silent; an interrupt silences the reply, never
hangs up, and always ends; nothing armed in one session acts in the next; a
conversation written is the one read back, before or after a power cut, and a
forgotten one stays forgotten; an alarm rings once, can be stopped, and never
leaves the uplink held; audio stays aligned to whole samples.

## 2. Plan

Done: every module the first plan named, and the proofs it asked for. The order
was the session's control, the store and the history, the gestures, the agent
protocol, announcements, alarms, the audio path, the small controls, the
network, and last the panel: sleep, deep idle and the screens.

Left, most useful first:

1. Compose `Agent` with `SessionCtl`: the stop is one step of `SessionCtl` and
   five of `Agent`; nothing yet shows that the two views agree.
2. The store after one reading fault: TLC confirms `AckedWins` for it, and the
   theorems end at the fault.
3. The idle timeout and the bad-key stop of the main loop, the volume gestures.
4. The agent's message reassembly and its audio queue; the battery's hysteresis.

## 3. The modules

A module is named after the part it models, an action after the function of
the code, or after the step of it, where a function gives way to other tasks in
its middle. Everything that bounds a run is a constant with `Max` in its name
and a comment `bound:`. A definition under a comment that begins with `Mutant:`
is that of its neighbour with a plausible error; the specifications do not use
it. History variables are marked `history:` where they are declared.

### SessionCtl

`main/session_ctl.c` whole, and the parts of `main.c`, `dg_agent.c` and
`audio_io.c` it lives with. Actors:

* **posters** - any task inside `request()` or one of the `_soon`/`_save`
  calls. `posting` holds what has passed its test or raised its flag but not
  yet notified: between `RequestCheck` and `RequestNotify`, and between
  `RaiseFlag` and `PokeFlag`, the worker may run. A second post of the same
  kind by another task while the first is in flight is not distinguished.
* **the worker** - `pc` walks through `session_ctl_task()`: `Take`
  (xTaskNotifyWait, which clears the value), the two promotions, `Stamp`,
  `RaiseBusy`, the saves, `Dispatch`, `do_stop()` (`StopSuppress` ..
  `StopSave`), `do_start()` (`StartPrepare` .. `StartUp`), then `Cool`,
  `LowerBusy`, `ClearStamp`. `req` is the local variable.
* **the client's task** (`ws`) - from `dg_agent_start()` to the end of
  `dg_agent_stop()` it may be in `audio_io_play()`, in `set_state()` between
  the test of `s_suppress_state` and the paint, or post a reload.
* **the main loop** (`main`) - creates the worker, asks for the first session,
  then in turn the radio policy, the watchdog (two reads), the notice's
  repaint (test, test, paint). Each read and each effect is a step.
* **time** - `ActionDrags` lets the action in progress get older than 30 s;
  `CooldownElapses` ends the quiet period.

Data abstracted: the status line is one of five kinds of label; the busy stamp
is zero, recent, or older than 30 s; what is queued for the speaker is one bit
(`unflushed`: since the last flush); unsaved data is one bit per kind. The
three saves are steps that clear the flag and later write, because the write
blocks on a flash erase. `endedOnPurpose` remembers whether the session was
ended by a tap or the idle timeout.

Modelled loosely: how the client's stop waits. `StopAgent` starts it,
`StopClient` ends it when the client's task is between two dispatches, and no
fairness makes it happen: the code itself documents stops that never returned.
Not in it: the clock's wrap (see `Gestures`), what `dg_agent_stop()` does to
the agent's own state (see `Agent`), the display's other labels.

`LongCooldown` is a timing assumption of `session_watchdog` alone: the 1.5 s
cooldown outlasts the worker's way back to its wait and the wake-ups already
pending. Without it a tap could land every time the worker comes round and
keep a deferred start waiting for ever, which no finger can do.

### DurableRecord and HistoryStore

`DurableRecord` is what `history_store.h` promises: one record, which a save
replaces whole or not at all. `HistoryStore` is `history_store.c`: a ring of
sectors of NOR flash. A sector is what the code reads out of it - whether the
magic is there, the sequence number, the payload its length and CRC were taken
over, the payload that is there. A save is three flash calls, erase, payload,
header, and each is a step that may succeed, return an error, or lose power,
the last two with any of the outcomes that leaves behind (`TornErase`, `Torn`,
`TornHeader`). A header of which only the first bytes were programmed has a
sequence number that is too high or too low, since unprogrammed bits read as
ones: `SeqPieces` stands for the low bytes that may have made it. Numbers are
compared by the sign of their difference, as the code does, and they wrap.

The refinement (`Implements`): the abstract record is the payload of the sector
the scan would choose. `kept` is needed for one behaviour a reader might not
expect: a header can land although the call that wrote it returned an error;
the save that tries again erases the same sector, and until it is through the
older record is the newest. Hence `TakeBack`.

Two limits of the code set the bounds, and one is a hypothesis of the proof. A
boot whose load failed or was skipped is blind: it takes its place from the
headers alone and makes the next save step past a torn one. As many such boots
in a row as there are sectors but one walk the ring onto the last whole record
(seven of them, with the ring of eight). Two sectors missed in one boot, or one
in a boot that could not load, can make a later acknowledged save lose to an
older record. And an unreadable newest sector makes a load return an older
record, which no single record would do. So TLC allows one such fault, after
which `Implements` asks nothing more, and `StoreProofs` proves the refinement
of all behaviours until the first one. Left out: a missing partition (every
call fails), and a CRC that matches by chance.

### History

The conversation in `dg_agent.c`: the WebSocket task appends turns and evicts
old ones, two tasks may clear them, the session's worker writes them to the
record of `DurableRecord`. A turn is its number. `todo[t]` is what a task still
has to do of the call it is in: `history_mark_dirty()` is two steps (the latch
and the flag; the timer), a clear is four, a save is the copy, the write and
what follows a failure. Between any two of them the other tasks run, as they
do: only the arena has a mutex. Stopping and starting the `esp_timer` is one
step, as are the two stores that lift the latch, and the clock is read once in
`history_mark_dirty()`. The echo hold and a nudge's tail are in `Echo`.
`forgotten`, `gone` and `askedIn` are history variables: the last turn that a
clear covers, the same as of the last save that returned OK, and the session
that last asked the user to confirm.

### Gestures

The panel's button in `main.c`: a tap interrupts the reply or toggles the
session, a hold restarts it or offers to forget the conversation. Three tasks
share stamps with no lock: the panel's (`on_gesture`, `do_interrupt`), the
WebSocket client's (`on_state`, `on_audio` and the other callbacks) and the
main loop (the mute's backstop, the offer's and the notice's end). As in
`History`, `todo[t]` holds the stores a task has still to make, one per step.
The session's worker is that of `SessionCtl` in four steps, the client has
three states, and `audible` is what `audio_io_playback_active()` says.

The clock is `now_ms()` modulo `Wrap`, and every comparison is the code's: an
unsigned difference against half the range, or against the window. `Step` is
what one tick adds. `Tick` waits until no call is under way and the loop and
the worker have nothing due: calls take microseconds and the loop comes round
every second, against intervals of 1.5 to 30 s. Opening or closing a socket
takes longer than a gesture's call (`Idle("lvgl")` in `Connected`, `StopEnds`,
`StartEnds`). `sinceInterrupt`, `sinceAction`, `sinceOffer` and `interrupted`
are history variables: real elapsed time, which does not wrap, and whether a
tap has interrupted this session.

### Agent

`dg_agent.c` during a conversation. Actors:

* **the WebSocket client's task** handles one message at a time; `ws` is what
  is left of a handler that other tasks may run into: `set_voice` sends, then
  counts, then arms the listen side; `AgentAudioDone` sends UpdateListen, then
  takes the reload, then the test; DISCONNECTED drops the reload, then lowers
  `s_ready`.
* **the esp_timer task** runs one callback at a time, in two steps where it
  reads `s_ready` and takes a flag. A timer that is armed may fire at any
  moment, so no deadline is assumed to be late or early.
* **the senders** claim their flag, test `s_ready`, and send.
* **session_ctl's worker** in `dg_agent_start()` and `dg_agent_stop()`; between
  `StopBegins` and `Halted` the client goes on dispatching. It may or may not
  raise a last DISCONNECTED. The rest of the worker is `SessionCtl`'s.
* **the server** applies updates in order, and may acknowledge one, refuse it
  (an Error or a Warning, which name no message), or never answer.

`reload.old` says whether the flag was raised on an earlier connection,
`reload.by` whether a message or the update backstop raised it; `test.wanted`
and `heard` are history variables: a test asked for and not yet run, and the
language the server listens with. A timer's callback takes microseconds, so
none is under way across a handshake (`Connected`) or across the client's stop
(`Halted`); it may be across everything else. `VoiceWillSettle` is a statement
about timers rather than a liveness property: if the listen side is wrong,
something armed will reopen the session or send the update. Whether the reload
is then carried out is `SessionCtl`'s matter. Message reassembly, the audio
queue and the conditions under which a KeepAlive is due are left out.

### Announce

What the agent says unasked: `dg_agent_announce()` (alarms), `dg_agent_nudge()`
(Echo), `keepalive_task()` which takes what waits, sends it as an inject and
puts it back when the send fails, the greeting of the next session's Settings,
and the server, which may refuse an inject without saying which one. `caller`,
`nudger` and `ka` are the three tasks' places with the text in their hands;
`event` is what the WebSocket task has still to do of a SettingsApplied or a
socket's end. A text is a sequence of announcements, because two that wait
together are joined. `spoiled` collects the announcements the code is known to
lose: one that waited too long, did not fit beside another, went down with its
socket after it was sent, was refused once too often, or fell to a retry
(`s_inject_retry`) that put back the wrong text or wrote over a newer one.
Which retry that is follows from the code's "the last inject is the refused
one", and is not softened in the model.

### AlarmRing and Alarms

`AlarmRing` is `alarm_sched.c`'s ring cycle as a function: from a ring, three
booleans of time (the phase's time is up, the cap has passed, the voice has
been silent long enough), whether the speaker plays and what was pressed, to a
ring and a set of actions. `Alarms` drives it: the table with timers on
`esp_timer` while the clock is unknown and on the wall clock after
(`Converted`), moments recomputed after a change of zone (`reconcile_locked`),
missed alarms (`alarm_is_stale`), one due alarm per pass, Stop and Snooze from
other tasks in two steps, `perform()` one action at a time in its order, the
snapshot under the lock and the write outside it, and a loss of power. The
calendar is `Day` seconds between an alarm's times, shifted by the zone. The
loop's pass reads the time once and takes less than a second, as the code
expects; `due` is the pass it owes each second. `chimed` is the history of a
ring that began with a chime, no session being up, and has not come to its
announcement. Labels and what the screens are shown are left out.

### Echo

The game of `echo.c` and `ui_echo.c`: rounds, frames that may be late, presses,
the panel over the screen; and its callouts, from `s_nudge` through
`keepalive_task()` (taken, sent, marked in flight) to the server's texts, which
`dg_agent.c` must keep out of the stored conversation while the nudge or its
tail is up. A step is lit for one tick and dark for one. `round.heard` are the
steps sounded since the sequence last began, `kept` the callouts that reached
the history, `spoiled` those whose tail was ended by another text before their
reply came. Colours, notes, wording and the best level in NVS are left out.

### BootButton, Clock and Settings

`BootButton`: `on_press_down()` decides at once whether the press is an alarm's
(`s_swallow`, `s_dismiss_ms` over a wrapping clock); `iot_button` tells click,
double click and hold apart later, while alarms start and end. It waits for a
second press after a first of any length below the hold (`Release`); only the
second press and the gap before it are timed. `late` is the history of a second
press that comes after the swallow of the first has run out. `restart_cb` is the
restart after the network was forgotten.

`Clock`: the zone is taken and its flag lowered under one lock, then applied,
named and saved in steps; the format is read, cleared and saved in three.
`slipped` marks a format asked for between the read and the clear
(`clock.c:440-443`), which is lost, and a write that failed. The RTC, SNTP and
a power cut are here too.

`Settings`: volume and gain, set by the panel (level, flag, `s_unsaved`) and by
voice (level, flag, clear, write), saved by the worker, with a dirty flag each
and no lock. `crossed` names the levels two tasks had calls on at once, between
which the code keeps no order; the gain's flag is cleared after its value was
read (`audio_io.c:1898`, `1814`), and a press in between is in `crossed` too.

### Playback and AudioLink

`Playback` follows bytes: a reply is `TurnBytes` bytes, cut into records of any
length; `on_audio`, `audio_io_play()` with the WebSocket task's carry, the ring
(full: whole samples are dropped), `playback_task()` with its own carry, the
gap after a lost socket, the mute, the flush. `written` is what was last given
to the codec. `torn` marks bytes of a reply that is heard again in its middle,
after the mute's deadline, which promises no alignment until the next gap.

`AudioLink`: when the two devices are open. Both tasks claim `codecLock`, act,
and store their flag; the speaker's flag is stored after the unlock, as in the
code. Opens may fail and are tried again. The amplifier, the mixing of chime
and tone and the uplink's monitor are left out.

### Network

`app_main()`'s boot, the station's event handler, the portal's form handler
(three writes), its idle restart, and BOOT's forgetting. The event loop is a
queue, so a STA_START queued before the portal took the radio is handled after
it. `air` are the networks in reach.

### DeepIdle and Screens

`DeepIdle`: the LVGL task that darkens the panel, arms the touch line, pauses
itself and flags deep idle; the touch interrupt's hook; the waker; and the
branch of the main loop that asks for sleep. Only `s_touch_mux` makes steps one
(`ArmTouch`, the hook, the waker's disarm).

`Screens`: `lvgl` is `"choose"` between a frame's two halves: who should own it
is decided, then painted. `finger` is the press, with what it began on and who
acted on it (`took`). The main loop's `pass`, the session's worker (`request`),
and the calls of other tasks come in between. One window of the code is in the
model and excepted in the properties: a press before the first frame after a
release meets the screen that was up before it (`early`).

### The MC modules

`MCSounds`, `MCKept`, `MCUnattended` and `MCGestures` put components side by
side that share no variable: a behaviour picks its `part` in its first state
and is a behaviour of that part, the others standing still. The runs check what
separate runs would, each part with its own fairness. `MCSounds`, `MCGestures`
and `MCScreens` hold one module twice, under two sets of bounds. `MCKept` adds
the symmetry of the announcements, which are interchangeable: they occur in the
specification and the properties only under quantifiers.

## 4. The runs

| Run | Asks | Bounds |
|---|---|---|
| `session` | can a press, a flag, a save or the gates be fooled by any order of posters, worker, client and loop, and what is left at rest? | toggle; a deferred reload; one save; audio and states of the client; a notice; one task inside `request()` at a time |
| `session_watchdog` | does the watchdog reboot exactly when it should, does what is busy end, does an alarm's start happen? | stop; a deferred start; the agent's reload; radio and watchdog; a stop may hang |
| `session_reopened` | can a reload reopen an ended session? (yes) | toggle and the agent's reload |
| `history_forget` | does a forgotten turn stay forgotten? | 3 turns, 2 sessions, 1 failing save, 1 power loss |
| `gestures` | does a mute always end, can a double tap hang up, is forgetting confirmed and its notice retired; is a panel in use lit? | two sets of presses and events; a clock of 12 units, windows of 2, steps of 2; one finger and one change of the battery |
| `agent_session` | does anything deferred outlive its session or get lost, does a half applied voice settle, is the client stopped under a send? | 2 languages, one of them Nova-3's; 1 change in place; 2 updates unanswered; 1 sender |
| `sounds` | does every alarm ring in time, held, said and saved, and fall silent; is a game's turn earned, and its callout no conversation; do zone, format and levels land, and samples reach the codec whole? | 2 alarms, clock 0..3, 1 reboot, 2 zones; or 1 slot, 1 press; 3 levels; or 2 callouts, 1 lost socket; 3 choices, 3 changes; ring 5, chunk 2, 2 replies, 2 taps |
| `kept` | is the ring of sectors one record; is everything unasked said once, and its sender woken? | 3 sectors, numbers mod 16, 5 saves, 1 error, 2 losses, 1 unseen fault; 2 alarms, 1 callout, 1 retry, 2 sessions, 2 injects unanswered |
| `unattended` | does a device left alone come back and save; is a press that stopped an alarm spent; does the speaker close alone? | 2 networks, 1 outage, 1 loss, 2 forms; 2 turns, 1 failing save of 2 attempts; a clock of 12; 1 open that fails |
| `screens` | does a game left open let go of the microphone; does a press stay on its screen? | 2 presses or calls of any kind; or the agent's call for the game and 2 presses after it |
| `deep_idle_touch` | does a touch end deep idle? (not always) | one finger |
| `panel_over_screen` | is a press on the panel its own? (not over the stopwatch) | 3 presses or calls |

Why the bounds are enough. The notification of `SessionCtl` is one slot, so a
second concurrent poster adds only another value that overwrites; each flag is
independent of the others; all seven safety properties of its two
passing runs are proved for any number of either anyway. In `Gestures` half the range is five
units, so an interval, the time after it and the wrong half of the range are
all met within one turn of the clock; the clock starts odd and advances by 2,
so a stamp never equals 0, which the code uses for "none" (section 7). One
voice change in place is enough to meet both routes of `apply_voice()`, two
unanswered updates to have an acknowledgement counted for the wrong one. Three
sectors are the fewest with a newest, an older and a next one, and five saves
go round them. Two announcements and one retry are the fewest in which a
refusal can be laid to the wrong one. `MISS_WINDOW` is 0, the strictest. With
BOOT's gap of 2, swallow window of 4 and hold of 5 a first press may be longer
than the gap, and the swallow may run out between the two presses of a gesture.

Three events are the fewest with which a game is opened, covered by the panel
and left with a finger on it. With three of any kind the graph of `Screens` has
3.8 million states and takes TLC eleven minutes; both properties hold there too.

Deadlock is not checked where the bounds stop the system or the device just
stays off (`sounds`, `kept`, `unattended`, `screens`).

**Fairness.** `session_watchdog`: the worker, the main loop and every poster in
the middle of a call are tasks that FreeRTOS runs again and again, and none of
their steps waits for anything but a notification; time passes, so an action
that does not end gets old. Nothing is assumed of the client: `StopClient` is
not fair, and neither are new requests or audio. `gestures`: time passes, the
speaker's ring drains, tasks in the middle of a call and the loop run again;
the panel's task, the waker and the loop for `DeepIdle`. Nothing is assumed of
gestures or of what the agent sends. `unattended`: the boot, the driver, the
event task and the handlers go on, the portal's idle timer fires; a task goes
on with the save it is in, a flash call returns, the worker looks at its flags
(conditional on it not hanging in a stop, see `SessionCtl`). `screens`: the
assumption is of states rather than actions: frames and the loop's passes come
round again and again, a ring ends, somebody stops playing and talking in the
end. It is needed because the property is about a device left alone, and it
speaks of states so that no step is hurried past another. That the finger is
lifted is not fairness of the code's and is the hypothesis of
`MicrophoneComesBack` (section 7). `EventuallySaved`
needs fewer saves to fail than the code tries; after that it gives up on
purpose. `RungInTime` and `FallsSilent` are action properties and need none.

## 5. What is proved

All theorems are about the specifications the runs check, with the constants
left open: any number of tasks, messages, alarms, sectors, replies, presses,
losses; any windows and any width of a counter that the assumptions admit. The
assumptions are the `ASSUME`s of the modules: types of the constants and the
few relations the code's own values satisfy (`BootButtonAssumption`: the gap of
a double click is shorter than the hold, the swallow window than the clock's
range; `ClockAssumption` of `Gestures`: every window is
shorter than half the clock's range and a multiple of its step;
`RingAssumption`: half the range of the sequence numbers exceeds the ring). TLC
evaluates each of them in a run. A theorem with a hypothesis of its own says so
below. Each proof has the same form: an invariant stronger than the property,
true at first, kept by every step (one step of the proof for each action), and
implying the property. TLC found every such invariant true on a run's instance
before it was proved. What makes each of them inductive is the point:

**SessionCtlProofs** (`SessionCtl`)

* `TypeCorrect`. Switches and places are kept apart (`SwitchesOK`, `PlacesOK`)
  so that each leaf is small.
* `TransitionsAreVisible`, `RebootsAreJustified` by `GateInv`: what `s_busy` and
  its stamp say is a function of the worker's place and of whether it has a
  request. The watchdog reads the flag first and the stamp second, so a stamp
  it finds old belongs to an action still in hand.
* `NothingIsForgotten` by `WakeInv`: every raised flag has a poster about to
  poke, a pending notification, or the worker still ahead of the place where it
  tests that flag (`Ahead`); every unsaved change has its flag up or is being
  written. The property speaks only of a sleeping worker and is not inductive.
* `RestIsConsistent`, `CarryIsOwned` by `ClientInv` and `SoundInv`: client,
  microphone, CPU lock, panel and what is unflushed as functions of the
  worker's place and `s_running`.
* `GesturesAreKept` follows from the types and the gate, step by step.
* `NoStartUnasked` by `AimInv`: a stop is dispatched to no step of a start, and
  a deferred reload reaches one only past a stop of its own, which is not on
  purpose.

**AgentProofs** (`Agent`, then `Announce`)

* `NothingOutlivesItsSession` by `IInv`: outside a live session the only handler
  ever half done is DISCONNECTED's (`HandlerOfSession`), and a message's reload
  whose socket is gone waits only for that handler or for the stop to drop it
  (`ReloadDies`). Without the first part a `set_voice` still in its handler
  could schedule a reload on a closed socket.
* `SendersAreQuiet` by `SInv`: from `StopBegins` to `Halted` the session is not
  ready unless Settings were accepted in between.
* `TestSurvives`, `HandshakeIsItsOwn`: inductive with the types, and relative to
  `HandlerOfSession`.
* `VoiceAlwaysSettles` by `VoiceInv`: either what reopens the session is on its
  way (`ToReopen`: asked, or the timer's task has taken what was owed, or the
  flag with its timer armed or fired), or the updates are `Accounted` for: no
  more on the wire than counted, the backstop armed while anything is owed or
  due, and the outcome right - the last listen message on the wire is allowed
  (`EndsRight`), or one was dropped unanswered (more counted than on the wire),
  or one is due or about to be armed. `EndsRight` is kept by a prompt appended,
  a listen message appended, and the first message taken (three lemmas about
  sequences of any length). A connection starts accounted for because a
  handshake owes nothing. It needs `"prompt" \notin Languages`: the languages
  are codes, and the model tells the other kind of update by that name.
* `RefusedNovaIsAlwaysLeft` by `NovaInv`: the worker clears with the client
  down, so a refused session is never found still being set up by an idle
  worker. The fallback, `"multi"`, is not a code either.
* `AlwaysSaidOnce` by `AnnInv`: where an announcement is, summed over the slot,
  the three tasks' hands, the wire, the greeting and what was said (`Places`),
  is one; with it, what is copied to `s_injected` is what was sent last, a
  nudge carries no announcement, and nothing on the wire is also elsewhere. What
  the sums over texts and wires of any length need is in the lemmas
  `CountShift`, `OccursAdds` and `ToldCounts`.
* `PokeIsNeverLost`: inductive by itself, step by step.

**AudioProofs** (`AudioLink`, `Playback`)

* `LinkTyped`, `FlagsAlwaysTrue`, `SpeakerAlwaysClosesAlone` by `LinkInv`: the
  codec lock is held exactly between a task's taking it and its one step under
  it, so a flag is wrong only while its own task is between device and flag.
* `FlushedAlwaysSilent` by `RoomInv` and `SilentInv`: the ring's size, and that
  bytes from before a flush are only where the task still will discard them.
* `AlwaysAligned` by `AlignedInv`: what the drain task holds, followed by the
  ring, is a run of whole samples (`Paired`), up to the carry, which is the
  first half of the sample whose second half the producer has next
  (`SourceInv`, kept over gaps, mutes and full rings). The lemmas on pairs
  (`PairsJoined`, `PairsPart`, `PairedCut`) are about sequences of any length.

**ControlsProofs** (`BootButton`, `Clock`, `Settings`)

* `TakenPressIsAlwaysSpent` by `BtnInv`: on the wrapping clock the time since
  the dismissal equals the time really elapsed for as long as that is below
  `SWALLOW`, so a press of the gesture takes the swallow back exactly when it is
  late, however long the presses before it were held. Nothing but a double
  click can be late, because the hold is the first press.
* `ChoiceAlwaysLands` by `ClkInv`: the zone and format asked for last are
  pending, in the tick's hand, or in force.
* `LevelIsAlwaysSaved` by `SetInv`: each level is owed by somebody (a flag with
  a save asked for, a task in the middle of a call), kept, or coming from the
  saver, unless two calls on it crossed.

**AlarmsProofs** (`Alarms` with `AlarmRing`, `Echo`)

* `ToneIsAlwaysHeld`, `EndedAlwaysMeansSaid`, `AlwaysFallsSilent` by `VoiceInv`:
  what `perform()` still has to do is part of what the phase entered asked for,
  so tone and hold are those of the phase once the set is empty (`SoundInv`);
  the announcement is made or still owed, or the ring is one that began with a
  chime and has not come to it (`SaidInv`); a ring past its cap that has been
  stepped is not in the chime.
* `SoundAlwaysFollowsRing` by `HeldInv`: past a phase that lets the uplink go it
  is held only while `perform()` has `hold_off` still to do.
* `AlwaysSavedOrMarked` by `StoreInv`: the blob in flash, or the one being
  written, is the table's blob, or the table is marked. `Blob` is idempotent
  and `alarms_init` and `reconcile_locked` do not change it unmarked. Weekly
  moments and monotonic deadlines are not expected of the flash.
* `TurnIsAlwaysEarned` by `TurnInv`: while a sequence is shown, the steps before
  the present one have been sounded since it last began, or a frame was late.
* `CalloutsAreNeverConversation` by `CalloutInv`: a nudge is in one place only,
  and while its texts may come its tail is up, or was ended early.

**PanelProofs** (`DeepIdle`, `Gestures`)

* `AwakeIsAlwaysWhole` by `DeepInv`: `WakeInv` relates the waker's place to what
  it has still to undo, `LineInv` the touch line to who armed it.
* `ForgetIsAlwaysConfirmed` by `ForgetInv`: the offer's stamp is the moment of
  the hold, so on the wrapping clock the difference is the time really elapsed
  while that is below half the range, and the janitor's pass comes before.
* `InterruptAlwaysKeepsSession` (`GraceInv`) and `ForgottenIsAlwaysRetired`
  (`LabelInv`), with the hypothesis `Step > 1`: the clock passes over the stamp
  0. With `Step = 1` a deadline that comes out as exactly 0 means none, one
  millisecond in 2^32; both properties are then false of the code (section 7).
* `MuteAlwaysHasAnEnd`, with the same hypothesis, by `MuteInv`: a mute has a
  deadline, or the interrupt about to set one, or a task about to lift it; and
  in a session nobody has interrupted none is being set, and a deadline left
  from before is about to be cleared. It is relative to `LabelInv` (`LabelAlways`).

**StoreProofs** (`HistoryStore`)

* `RingIsOneRecord`: for any number of sectors and any width of the sequence
  number, whichever calls fail or are cut off, every step before the first
  reading fault is a step of `DurableRecord` or a stutter. `StoreImplementsRecord`
  is the run's own `Implements`, for `MaxUnseen = 0`. The invariant `RingInv`:
  the records' ages equal their distances behind the newest slot known of, and
  the slot after it is one ahead (a header that landed) or the oldest, for each
  of the states the device is in (`SaveInv`, `UnknownInv`, `KnownInv`,
  `OffInv`). The scan for the newest is a recursive function over the slots;
  `Rounds` proves what it returns by counting (`Counting`, a pigeonhole
  argument on the number of slots still to look at), since an induction rule
  cannot be instantiated here. One lemma for each abstract step (`RecordStays`,
  `RecordLoads`, `RecordIsSaved`, `RecordIsReplaced`, `RecordIsTakenBack`,
  `RecordMayLand`) states what the ring must look like to map to it.
* `ScanAlwaysFindsNewest`: in every state of `RingInv` one record is as far ahead
  of each other as its slot is (`OneIsNewest`), and `AckedAlwaysWins`, which
  follows from the refinement: `DurableRecord` keeps what it has acknowledged.
  Both are stated up to the first reading fault (`Clear`). With two sectors
  missed by one boot `AckedWins` is false: the save goes on from an older number
  and a record nobody saw is newer.

**UnattendedProofs** (`Network`, `Screens`, `History`)

* `SavedStaysWhole` by `PortalInv`: while a form is under way nothing is called
  saved, and what it has written is still there unless the button has armed the
  restart; the key is never erased.
* `PortalIsAlwaysLeftAlone` by `RadioInv`: from `wifi_sta_stop()` on the station
  no longer means to connect, so whatever Wi-Fi events are still queued when the
  portal takes the radio are handled without connecting it.
* `TouchNeverReachesBeyond` by `TouchInv`: from the first frame after a release
  on, a painted panel is open and a painted screen is wanted, so only a press
  on the face gets the button.
* `ForgottenForGood` by `RememberInv`: each place a turn may be is held against
  the mark that was current when the place was last written: arena and context
  against `forgotten`, the record under way against the same when it was
  copied, the flash against `gone`; and a session told before a clear records
  nothing. How much is evicted is a least number with a sum below it; that it
  exists is `LeastNatural`, from the well-foundedness of the naturals.
* `ForgetWasAskedFor` by `AskInv`: a clear by voice happens only in the session
  that asked for the confirmation.
* `UnsavedIsAlwaysScheduled` by `ScheduleInv`: the arena is the record the device
  knows to be in flash unless it is marked, or a task's remaining steps still
  mark it, copy it or give up (`HeldInv`); a marked arena is asked for, in time,
  or was marked in this instant by a task about to arm the timer or to ask
  (`DueInv`). The lists of remaining steps are the ten the code can leave
  (`CallLists`). `Nothing \notin Seq(Nat)`: no record is mistaken for none.

## 6. What is only model-checked

* Liveness: `BusyEnds`, `StartIsNotLost`, `MuteEnds`, `UseLightsPanel`,
  `BootRecovers`, `EventuallySaved`, `MicrophoneComesBack`. The provers have no
  rules for fairness or ENABLED.
* `RungInTime`. For all constants it is not true: one alarm fires per pass and
  the model lets the loop take any that is due, so an alarm may be overtaken by
  ever new ones where there are more alarms to set than slots. The run has as
  many of either, which is what a user can reach in the window.
* `HistoryStore` past a reading fault: TLC allows one such fault.
* Type invariants of the modules other than `SessionCtl` and `AudioLink` are
  parts of the inductive invariants where a proof needs them, and not theorems
  of their own.
* Definitions no run lists, kept because they say something and TLC confirms
  them on their module's instance: `RadioFollows` (`SessionCtl`), which is
  liveness; `ArenaFits` (`History`), which is a sum over data; and the modules'
  `...TypeOK`.
  Others are kept because TLC refutes them: `RunningLabelIsTruthful`
  (`SessionCtl`), `NoSendStartsInStop` (`Agent`), `StopIsTaken` and
  `BothAreSaid` (`Alarms`), `TakenPressDoesNothing` (`BootButton`), `WakeIsHeld`
  (`DeepIdle`), `RecoversByItself` (`Network`), `TapsAreTaken` (`Gestures`) and
  `NudgeNeverWaits` (`Announce`) state the behaviours of section 7. `ForgetIsAskedFor`, `FlagsAreTrue`,
  `TestIsNotStranded`, `HandshakeOwesNothing`, `RefusedNovaIsLeft`,
  `MuteHasAnEnd`, `UnsavedIsScheduled`, `SoundFollowsRing` and
  `PortalIsLeftAlone` are proved instead; `AckedWins` and `ScanFindsNewest`
  (`HistoryStore`) up to the first reading fault, past which TLC confirms them.

## 7. What the models showed of the code

With a run, as findings of `PROJECT.json`:

* `session_reopened`: `REQ_RELOAD` takes the worker through `do_start()` even
  when the session was ended on purpose (`session_ctl.c:440`), which
  `dg_agent.c:613-615` and `session_ctl.c:78-80` say cannot happen.
* `deep_idle_touch`: a touch between arming the touch line and announcing deep
  idle wakes nobody (`ui.c:2826-2848`).
* `panel_over_screen`: a press on the settings panel reaches the stopwatch
  beneath it (`ui.c:3393-3422`).

Without a run of their own. Those with a property excepted or a history
variable in the model are named there, so that each exception can be found:

* *Session control.* A press is refused, never queued, by
  `docs/session-control.md:129`; the test and the post are two steps, so a press
  can pass the test before an action begins and be served after it
  (`session_ctl.c:321`, `533`). After 24.8 days without an action the debounce
  takes an old cooldown for one that is still ahead (`session_ctl.c:532`). The
  repaint of the idle status tests `s_running` and paints later, so a session
  that starts in between is labelled idle until the agent's next state
  (`session_ctl.c:565`; `RunningLabelIsTruthful`).
* *Agent.* The update backstop may schedule a reload between DISCONNECTED's
  drop and its lowering of `s_ready` (hence `reload.by`). Settings accepted while
  the client is being stopped raise `s_ready` again, and a sender may then start
  a send, which the wait before the stop is there to exclude (`dg_agent.c:1312`,
  `3922`; `NoSendStartsInStop` says so, `revived` is the exception in
  `StopFindsSendersIdle`).
* *History.* A save that fails while the user clears can raise the failure
  latch after the clear has lifted it (`dg_agent.c:654`, `995`).
* *Gestures.* `end_interrupt()` makes two stores, and a new interrupt may come
  between them (`main.c:264`). A deadline that comes out as exactly 0 means
  none (`main.c:381`): the mute then has no end of its own, which is why two
  theorems carry `Step > 1`. "Hold again to forget" may stay on a stopped
  panel, and a BOOT click does not withdraw the offer. The idle timeout
  subtracts a stamp that may be newer than the clock read before it
  (`main.c:1656`).
* *Announcements.* A refusal is attributed to the inject sent last
  (`dg_agent.c:276-277`), the retry's put may write over a newer announcement
  (`1230-1233`), and a nudge may be left waiting across a session's end (`1186-1198`,
  `3426-3435`, against the comment at `265-266`): `spoiled` in `Announce`.
* *Echo.* A game opened by voice under an open panel and started by a press on
  it is never left, so its sequence is passed over and the player's turn
  begins. An earlier reply or another text ends the nudge's tail
  (`dg_agent.c:280-285`; `spoiled`). A socket lost between a nudge's take and
  its mark leaves `s_nudge_inflight` up into the next session, and a turn said
  in its first ten seconds is not recorded.
* *Alarms.* A press between `alarms.c:395` and `396` is lost after it has
  silenced the tone. A one-shot alarm due in the second in which the zone
  changes is moved a day. `set_alarm` computes its moment under the clock's
  lock and adds the alarm later. An alarm that takes over a ring discards the
  Stop or Snooze meant for the first. A ring that began with a chime, because no
  session was up, and is taken over before its announcement is never announced:
  `ring()` overwrites `s_rang` and begins the cycle anew (`alarms.c:361-378`),
  although both are to be said by `alarms.c:551-553` and `dg_agent.c:1230-1233`
  (`chimed` in `EndedMeansSaid`; `BothAreSaid` is violated).
* *BOOT button.* A press that stops an alarm belongs to it "whatever it turns
  into" (`boot_button.c:33`, `42-45`). Held for more than a second, released and
  followed by another press at least `SWALLOW_MS` after the dismissal, it is half
  of a double click whose second press has taken the swallow back
  (`boot_button.c:63-64`), and noise reduction is switched (`late` in
  `TakenPressIsSpent`; `TakenPressDoesNothing` is violated).
* *Playback.* A reply that is heard again in its middle, after the mute's
  deadline, may be misaligned until the next gap (`audio_io.c:130-141`;
  `torn`). A flush between `audio_io.c:965` and `968` goes unseen.
* *The speaker's flag* is stored after the codec's unlock, so it may be wrong
  for a moment (`AudioLink`).
* *Network.* With no API key stored `session_ctl_start` fails,
  `ESP_ERROR_CHECK` aborts, and the device boots in a loop. A station that gave
  up after its boot does not come back by itself (`wifi_sta.c:188`, against
  `docs/wifi-setup.md:222`).
* *Clock.* A format set between `clock.c:440` and `443` is lost (`slipped`).
  `get_time` may name the zone that was in force before.
* *Settings.* The gain is read (`audio_io.c:1898`) before its dirty flag is
  cleared (`1814`); a press in between is not saved (`crossed`).
* *Deep idle.* `ui_set_sleep` tests `s_wake_pending` at `ui.c:1250` and stores
  at `1254`; a wake in between is overwritten, against `ui.c:545-547`.
* *Screens.* The panel can be open on a sleeping device, against `ui.c:3066`. A
  finger held on the open panel keeps it open, its idle close being for a panel
  nobody touches (`ui_panel.c:957`, `1191`), and the open panel keeps the device
  awake (`ui.c:2705`), so a game left under it keeps the microphone until the
  finger is lifted (the hypothesis of `MicrophoneComesBack`). A
  press on the ring acts on a snapshot newer than what was painted. A swipe
  out of Echo with a voice request for it before the next frame does not
  abandon the game. A press up to 200 ms after a swipe meets the screen just
  left (`ui.c:549-551`; `early`).
* *The display test.* `enter_display_test()` asks for a stop that may be
  debounced and is asynchronous, so the session may stay up under the test, and
  the start at its end is debounced as well. The comment at `main.c:570-580`
  about `set_enabled(false)` clearing the monitor's flag no longer matches
  `audio_io.c:2401-2410`.

## 8. What is not modelled

The last column of `components` in `PROJECT.json` says for each part what is in
a module and what is not. In short:

* **Data and generated code**: three fonts and the orb's geometry (8,920 lines
  of generated tables), the zone table, the voices, the prompt, names.
* **Signal processing and drawing**: echo cancellation, denoiser, voice gate,
  levels; canvases, faces, the layout of every screen. The models take from
  them only what other tasks read.
* **Vendored code**: the WebSocket transport and its patches, LVGL,
  `iot_button`, ESP-IDF. What the code relies on is an action marked external.
* **Input and output**: JSON parsing and building, HTTP, DNS redirect, the
  scan, the log, the bench aids over the serial line.
* **Battery**: one task over a median with a hysteresis, covered by its host
  test.
* **Host tests and tools** are read as statements of intent.

Inside the modelled parts: the reassembly of messages and the audio queue, the
conditions of a KeepAlive, the bad-key warning, the idle timeout's stop, the
volume gestures, labels of alarms, how long an announcement stays worth saying
and how two are joined into one sentence, Echo's colours and best level, QR
codes. `Screens` takes the clock as set and leaves deep idle to `DeepIdle`.
Allocation failures at start-up, which end in a restart, are left out, and so
is the processors' memory order: every load and store of a `volatile` is one
step, which both cores are assumed to see at once and in one order.
