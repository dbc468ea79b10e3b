------------------------------- MODULE Clock -------------------------------
(***************************************************************************)
(* main/clock.c: the time zone and the 12- or 24-hour format, asked for by *)
(* other tasks and applied and saved by clock_tick() on the main loop; and *)
(* where the time comes from - the RTC at boot, SNTP once there is an      *)
(* address - across a loss of power.                                       *)
(***************************************************************************)
EXTENDS Naturals

CONSTANTS
    NoChoice,       \* nothing pending, nothing saved
    TimeZones,      \* names tz_resolve() knows
    DefaultZone,    \* CONFIG_CLOCK_DEFAULT_TZ
    Formats,        \* FMT_12, FMT_24
    MaxChoices,     \* bound: zones and formats asked for
    MaxPowerCuts    \* bound: losses of power

ASSUME ClockAssumption ==
    DefaultZone \in TimeZones /\ NoChoice \notin TimeZones \union Formats

VARIABLES
    tz,         \* s_tz_pending and s_tz_dirty, the environment's TZ, s_tz_name
    fmt,        \* s_fmt_pending and s_fmt_mode; NoChoice is FMT_AUTO
    tick,       \* clock_tick(): where it is, and its local name or fmt
    stored,     \* NVS: zone and format
    wanted,     \* history: the zone and format last asked for
    slipped,    \* history: a format was asked for while one was being taken,
                \* or a write to NVS failed
    time,       \* s_source, the RTC's and SNTP's state
    choices, cuts   \* bound the run

clkvars == <<tz, fmt, tick, stored, wanted, slipped, time, choices, cuts>>

TickAt(pc) == tick.at = pc
TickGoes(pc, v) == tick' = [at |-> pc, v |-> v]
AtRestTick == [at |-> "idle", v |-> NoChoice]

-----------------------------------------------------------------------------
(***************************************************************************)
(* clock_fn_set_clock() and clock_set_12h(), on the WebSocket and LVGL     *)
(* tasks: both arguments are good, or neither is applied.                  *)
(***************************************************************************)
SetZone(zone) ==
    /\ choices < MaxChoices /\ choices' = choices + 1
    /\ tz' = [tz EXCEPT !.pending = zone, !.dirty = TRUE]
    /\ wanted' = [wanted EXCEPT !.zone = zone]
    /\ UNCHANGED <<fmt, tick, stored, slipped, time, cuts>>

clock_set_12h(format) ==
    /\ choices < MaxChoices /\ choices' = choices + 1
    /\ fmt' = [fmt EXCEPT !.pending = format]
    /\ wanted' = [wanted EXCEPT !.format = format]
    /\ slipped' = (slipped \/ TickAt("fmtTaken"))
    /\ UNCHANGED <<tz, tick, stored, time, cuts>>

-----------------------------------------------------------------------------
(***************************************************************************)
(* clock_tick().  The zone is taken and its flag cleared under one lock;   *)
(* the format is read and cleared in two steps.                            *)
(***************************************************************************)
StartSntp ==
    /\ TickAt("idle") /\ time.net /\ ~time.started
    /\ time' = [time EXCEPT !.started = TRUE]
    /\ UNCHANGED <<tz, fmt, tick, stored, wanted, slipped, choices, cuts>>

(* rtc_write() puts the time in the RTC, if I2C lets it.                   *)
TakeSync ==
    /\ TickAt("idle") /\ time.synced
    /\ \E ok \in BOOLEAN :
        time' = [time EXCEPT !.synced = FALSE, !.source = "sntp",
                             !.rtc = @ \/ ok]
    /\ UNCHANGED <<tz, fmt, tick, stored, wanted, slipped, choices, cuts>>

TakeZone ==
    /\ TickAt("idle") /\ tz.dirty /\ TickGoes("apply", tz.pending)
    /\ tz' = [tz EXCEPT !.dirty = FALSE]
    /\ UNCHANGED <<fmt, stored, wanted, slipped, time, choices, cuts>>

tz_apply ==
    /\ \/ /\ TickAt("apply") /\ TickGoes("name", tick.v)
          /\ tz' = [tz EXCEPT !.env = tick.v]
       \/ /\ TickAt("name") /\ TickGoes("save", tick.v)
          /\ tz' = [tz EXCEPT !.name = tick.v]
    /\ UNCHANGED <<fmt, stored, wanted, slipped, time, choices, cuts>>

(* Mutant: the flag comes down when the zone has been saved.               *)
tz_save_clearing ==
    /\ TickAt("save") /\ TickGoes("fmt", NoChoice)
    /\ tz' = [tz EXCEPT !.dirty = FALSE]
    /\ \/ stored' = [stored EXCEPT !.zone = tick.v] /\ UNCHANGED slipped
       \/ slipped' = TRUE /\ UNCHANGED stored
    /\ UNCHANGED <<fmt, wanted, time, choices, cuts>>

tz_save ==
    /\ TickAt("save") /\ TickGoes("fmt", NoChoice)
    /\ \/ stored' = [stored EXCEPT !.zone = tick.v] /\ UNCHANGED slipped
       \/ slipped' = TRUE /\ UNCHANGED stored
    /\ UNCHANGED <<tz, fmt, wanted, time, choices, cuts>>

ReadFormat ==
    /\ TickAt("fmt") \/ (TickAt("idle") /\ ~tz.dirty)
    /\ IF fmt.pending # NoChoice THEN TickGoes("fmtTaken", fmt.pending)
                                 ELSE TickAt("fmt") /\ tick' = AtRestTick
    /\ UNCHANGED <<tz, fmt, stored, wanted, slipped, time, choices, cuts>>

ClearFormat ==
    /\ TickAt("fmtTaken") /\ TickGoes("fmtSave", tick.v)
    /\ fmt' = [pending |-> NoChoice, mode |-> tick.v]
    /\ UNCHANGED <<tz, stored, wanted, slipped, time, choices, cuts>>

fmt_save ==
    /\ TickAt("fmtSave") /\ tick' = AtRestTick
    /\ \/ stored' = [stored EXCEPT !.format = tick.v] /\ UNCHANGED slipped
       \/ slipped' = TRUE /\ UNCHANGED stored
    /\ UNCHANGED <<tz, fmt, wanted, time, choices, cuts>>

-----------------------------------------------------------------------------
on_got_ip ==
    /\ time' = [time EXCEPT !.net = TRUE] /\ ~time.net
    /\ UNCHANGED <<tz, fmt, tick, stored, wanted, slipped, choices, cuts>>

on_sntp_sync ==
    /\ time.started /\ ~time.synced
    /\ time' = [time EXCEPT !.synced = TRUE]
    /\ UNCHANGED <<tz, fmt, tick, stored, wanted, slipped, choices, cuts>>

(* clock_start(): what NVS has, or the default; the RTC unless its         *)
(* oscillator has stopped.                                                 *)
SavedZone == IF stored.zone = NoChoice THEN DefaultZone ELSE stored.zone

ZoneIn(zone) ==
    [pending |-> NoChoice, dirty |-> FALSE, env |-> zone, name |-> zone]

rtc_start(rtc) ==
    [net |-> FALSE, started |-> FALSE, synced |-> FALSE, rtc |-> rtc,
     source |-> IF rtc THEN "rtc" ELSE "none"]

PowerCut ==
    /\ cuts < MaxPowerCuts /\ cuts' = cuts + 1
    /\ tz' = ZoneIn(SavedZone)
    /\ fmt' = [pending |-> NoChoice, mode |-> stored.format]
    /\ wanted' = [zone |-> SavedZone, format |-> stored.format]
    /\ \E rtc \in {time.rtc, FALSE} : time' = rtc_start(rtc)
    /\ tick' = AtRestTick /\ slipped' = FALSE
    /\ UNCHANGED <<stored, choices>>

ClkInit ==
    /\ tz = ZoneIn(DefaultZone)
    /\ fmt = [pending |-> NoChoice, mode |-> NoChoice]
    /\ wanted = [zone |-> DefaultZone, format |-> NoChoice]
    /\ time = rtc_start(FALSE) /\ tick = AtRestTick /\ slipped = FALSE
    /\ stored = [zone |-> NoChoice, format |-> NoChoice]
    /\ choices = 0 /\ cuts = 0

ClkNext ==
    \/ \E z \in TimeZones : SetZone(z)
    \/ \E f \in Formats : clock_set_12h(f)
    \/ StartSntp \/ TakeSync \/ TakeZone \/ tz_apply \/ tz_save
    \/ ReadFormat \/ ClearFormat \/ fmt_save
    \/ on_got_ip \/ on_sntp_sync \/ PowerCut

ClkSpec == ClkInit /\ [][ClkNext]_clkvars
-----------------------------------------------------------------------------
(* Whatever was asked for last is in force and in flash once the loop has  *)
(* nothing more to take, however the asking fell into the loop's steps;    *)
(* only a format asked for between clock.c:440 and 443, or a write that    *)
(* failed, may be missing (clock_tick()).                                  *)
ChoiceLands ==
    TickAt("idle") /\ ~tz.dirty /\ fmt.pending = NoChoice =>
        /\ tz.env = wanted.zone /\ tz.name = wanted.zone
        /\ \/ slipped
           \/ /\ fmt.mode = wanted.format /\ stored.format = wanted.format
              /\ SavedZone = wanted.zone

=============================================================================
