------------------------------ MODULE Playback ------------------------------
(***************************************************************************)
(* main/audio_io.c's way from the socket to the speaker: audio_io_play()   *)
(* on the WebSocket task, the ring, and playback_task(), with the flush,   *)
(* the gap and the mute that main.c raises from other tasks.  Samples have *)
(* two bytes and nothing upstream keeps them together.                     *)
(***************************************************************************)
EXTENDS Naturals, Sequences

CONSTANTS
    RING,       \* PLAYBACK_BUF, in bytes
    CHUNK,      \* CHUNK_MONO
    TurnBytes,  \* of a reply; a whole number of samples
    MaxTurns,   \* bound: replies
    MaxTaps     \* bound: interrupts

ASSUME PlaybackAssumption ==
    /\ RING \in Nat \ {0} /\ CHUNK \in Nat \ {0} /\ CHUNK % 2 = 0
    /\ TurnBytes \in Nat /\ TurnBytes % 2 = 0
    /\ MaxTurns \in Nat /\ MaxTaps \in Nat

VARIABLES
    pcm,      \* s_ring
    carry,    \* s_in_carry, << >> when not valid
    gap,      \* s_play_gap
    muted,    \* s_play_muted
    flush,    \* s_flush_pending
    play,     \* audio_io_play()'s bytes, past its look at gap and mute
    drain,    \* playback_task(): where it is
    hand,     \* what it has read, its own carry first
    held,     \* its carry
    written,  \* what it last wrote to the codec
    tap,      \* do_interrupt(): where it is
    turn,     \* the reply the server is sending
    sent,     \* its bytes so far
    inbound,  \* s_turn_inbound
    torn,     \* history: bytes were skipped inside a reply, and no gap since
    taps      \* bounds the run

producer == <<carry, gap, muted, play>>
consumer == <<drain, hand, held, written>>
server   == <<turn, sent, inbound, torn>>
user     == <<tap, taps>>
playvars     == <<pcm, flush, producer, consumer, server, user>>

MidTurn == 0 < sent /\ sent < TurnBytes
Even(n) == n - (n % 2)
Rest(s, n) == SubSeq(s, n + 1, Len(s))
First(s, n) == SubSeq(s, 1, n)

-----------------------------------------------------------------------------
(***************************************************************************)
(* on_audio() and audio_io_play(): a TLS record's worth of bytes.          *)
(***************************************************************************)
Byte(n) == [turn |-> turn, n |-> n, torn |-> torn', old |-> FALSE]

on_audio(k) ==
    /\ play = << >> /\ sent + k <= TurnBytes
    /\ inbound' = TRUE
    /\ gap' = FALSE
    /\ carry' = IF gap THEN << >> ELSE carry
    /\ torn' = IF gap THEN MidTurn ELSE torn
    /\ play' = IF muted THEN << >> ELSE [i \in 1 .. k |-> Byte(sent + i - 1)]
    /\ sent' = sent + k
    /\ UNCHANGED <<pcm, flush, muted, consumer, turn, user>>

(* The carry goes ahead; what is left over is kept; a full ring drops      *)
(* whole samples.                                                          *)
Stitched == carry \o play

(* Mutant: what does not fit is cut off at the byte.                       *)
AcceptedBytes ==
    IF Len(Stitched) < RING - Len(pcm) THEN Even(Len(Stitched))
    ELSE RING - Len(pcm)

Accepted ==
    IF Len(Stitched) < RING - Len(pcm) THEN Even(Len(Stitched))
    ELSE Even(RING - Len(pcm))

audio_io_play ==
    /\ play # << >> /\ play' = << >>
    /\ pcm' = pcm \o First(Stitched, Accepted)
    /\ carry' = Rest(Stitched, Even(Len(Stitched)))
    /\ UNCHANGED <<flush, gap, muted, consumer, server, user>>

-----------------------------------------------------------------------------
(***************************************************************************)
(* playback_task(): a stream buffer may hand over any number of bytes.     *)
(***************************************************************************)
DrainAt(pc) == drain = pc

Receives(k) ==
    /\ DrainAt("receive") /\ k <= Len(pcm) /\ k <= CHUNK - Len(held)
    /\ k = 0 => pcm = << >>
    /\ hand' = held \o First(pcm, k) /\ pcm' = Rest(pcm, k)
    /\ drain' = "received"
    /\ UNCHANGED <<flush, producer, held, written, server, user>>

DrainWrites ==
    /\ DrainAt("received") /\ ~flush
    /\ written' = First(hand, Even(Len(hand)))
    /\ held' = Rest(hand, Even(Len(hand)))
    /\ hand' = << >> /\ drain' = "receive"
    /\ UNCHANGED <<pcm, flush, producer, server, user>>

(* Mutant: what the task has in hand and all it carries survive a flush.   *)
DiscardsKeepingCarry ==
    /\ DrainAt("received") /\ flush
    /\ pcm' = << >> /\ hand' = << >> /\ held' = First(hand, Len(hand) % 2)
    /\ drain' = "discarded"
    /\ UNCHANGED <<flush, producer, written, server, user>>

(* Mutant: one read is thrown away, not all there is.                      *)
DiscardsOnce ==
    /\ DrainAt("received") /\ flush
    /\ pcm' = Rest(pcm, IF Len(pcm) < CHUNK THEN Len(pcm) ELSE CHUNK)
    /\ hand' = << >> /\ held' = << >>
    /\ drain' = "discarded"
    /\ UNCHANGED <<flush, producer, written, server, user>>

Discards ==
    /\ DrainAt("received") /\ flush
    /\ pcm' = << >> /\ hand' = << >> /\ held' = << >>
    /\ drain' = "discarded"
    /\ UNCHANGED <<flush, producer, written, server, user>>

FlushDone ==
    /\ DrainAt("discarded") /\ drain' = "receive"
    /\ flush' = FALSE
    /\ UNCHANGED <<pcm, producer, hand, held, written, server, user>>

-----------------------------------------------------------------------------
(***************************************************************************)
(* audio_io_flush().  What is queued must not be heard; a flush between    *)
(* the task's last look and its clearing of the flag goes unseen, and then *)
(* promises nothing.                                                       *)
(***************************************************************************)
FlushMarked(s) == [i \in DOMAIN s |-> [s[i] EXCEPT !.old = TRUE]]

audio_io_flush ==
    /\ flush' = TRUE /\ gap' = TRUE
    /\ pcm' = IF DrainAt("discarded") THEN pcm ELSE FlushMarked(pcm)

NewTurn == turn' = turn + 1 /\ sent' = 0 /\ inbound' = FALSE

AgentAudioDone ==
    /\ play = << >> /\ sent = TurnBytes /\ turn < MaxTurns /\ NewTurn
    /\ UNCHANGED <<pcm, flush, producer, consumer, torn, user>>

(* UserStartedSpeaking: the server gives the reply up; the mute ends.      *)
on_user_started_speaking ==
    /\ play = << >> /\ turn < MaxTurns /\ NewTurn
    /\ audio_io_flush /\ muted' = FALSE
    /\ UNCHANGED <<carry, play, consumer, torn, user>>

(* DISCONNECTED, ERROR, BAD_KEY: a gap, and the mute ends.                 *)
StreamGone ==
    /\ play = << >> /\ turn < MaxTurns /\ NewTurn
    /\ gap' = TRUE /\ muted' = FALSE
    /\ UNCHANGED <<pcm, flush, carry, play, consumer, torn, user>>

(* The end of do_stop(): the WebSocket task is gone.                       *)
audio_io_reset ==
    /\ play = << >> /\ turn < MaxTurns /\ NewTurn
    /\ flush' = TRUE
    /\ pcm' = IF DrainAt("discarded") THEN pcm ELSE FlushMarked(pcm)
    /\ carry' = << >> /\ gap' = FALSE /\ muted' = FALSE /\ torn' = FALSE
    /\ UNCHANGED <<play, consumer, user>>

(* do_interrupt(), on the LVGL task: the flush, a look at s_turn_inbound,  *)
(* the mute.                                                               *)
do_interrupt ==
    /\ tap = "idle" /\ taps < MaxTaps /\ taps' = taps + 1
    /\ pcm # << >> \/ hand # << >>
    /\ audio_io_flush /\ tap' = "flushed"
    /\ UNCHANGED <<carry, muted, play, consumer, server>>

InterruptMutes ==
    /\ tap = "flushed" /\ tap' = "idle"
    /\ IF inbound THEN muted' = TRUE /\ gap' = TRUE
                  ELSE UNCHANGED <<muted, gap>>
    /\ UNCHANGED <<pcm, flush, carry, play, consumer, server, taps>>

(* The main loop, MUTE_MAX_MS after the tap: the reply may be arriving.    *)
MuteDeadline ==
    /\ muted /\ muted' = FALSE
    /\ torn' = (torn \/ MidTurn)
    /\ UNCHANGED <<pcm, flush, carry, gap, play, consumer, turn, sent,
                   inbound, user>>

-----------------------------------------------------------------------------
PlayInit ==
    /\ pcm = << >> /\ carry = << >> /\ gap = FALSE /\ muted = FALSE
    /\ flush = FALSE /\ play = << >>
    /\ drain = "receive" /\ hand = << >> /\ held = << >> /\ written = << >>
    /\ tap = "idle" /\ turn = 1 /\ sent = 0 /\ inbound = FALSE
    /\ torn = FALSE /\ taps = 0

PlaybackTask == (\E k \in 0 .. CHUNK : Receives(k)) \/ DrainWrites \/ Discards
                \/ FlushDone

PlayNext ==
    \/ (\E k \in 1 .. TurnBytes : on_audio(k)) \/ audio_io_play
    \/ PlaybackTask
    \/ AgentAudioDone \/ on_user_started_speaking \/ StreamGone
    \/ audio_io_reset \/ do_interrupt \/ InterruptMutes \/ MuteDeadline

PlaySpec == PlayInit /\ [][PlayNext]_playvars
-----------------------------------------------------------------------------
(* Every pair of bytes written to the codec is one sample of one reply,    *)
(* across odd records, splits, full rings, flushes, mutes and lost sockets *)
(* (s_play_gap and both carries); only a reply that is heard again in its  *)
(* middle, after a mute's deadline or in the instant between a tap's flush *)
(* and its mute, promises nothing until the next gap.                      *)
Samples == {i \in DOMAIN written : i % 2 = 1}
Aligned ==
    \A i \in Samples :
        LET low == written[i]
            high == written[i + 1]
        IN  low.torn \/ high.torn
            \/ (low.turn = high.turn /\ low.n % 2 = 0 /\ high.n = low.n + 1)

(* What was queued when a flush was raised is not heard after it, however  *)
(* the flush falls between the task's reads and writes (audio_io_flush()). *)
FlushedIsSilent == \A i \in DOMAIN written : ~written[i].old

Bytes == [turn : Nat, n : Nat, torn : BOOLEAN, old : BOOLEAN]

PlayTypeOK ==
    /\ pcm \in Seq(Bytes) /\ carry \in Seq(Bytes) /\ play \in Seq(Bytes)
    /\ hand \in Seq(Bytes) /\ held \in Seq(Bytes) /\ written \in Seq(Bytes)
    /\ {gap, muted, flush, inbound, torn} \subseteq BOOLEAN
    /\ drain \in {"receive", "received", "discarded"}
    /\ tap \in {"idle", "flushed"}
    /\ turn \in Nat /\ sent \in 0 .. TurnBytes /\ taps \in Nat
=============================================================================
