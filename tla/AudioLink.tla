------------------------------ MODULE AudioLink ------------------------------
(***************************************************************************)
(* main/audio_io.c: when the microphone and the speaker are open.  They    *)
(* share one I2S interface, and opening or closing either changes both.    *)
(* The capture task parks the microphone while nobody wants samples; in    *)
(* deep idle the playback task closes the speaker, which lets the chip     *)
(* sleep, and reopens it for the next sound or on the way out.  What is    *)
(* played is Playback's; here a chunk is a chunk.                          *)
(***************************************************************************)
EXTENDS Naturals

CONSTANTS
    MaxChunks, \* what the playback ring holds
    MaxBadOpens \* bounds the opens that fail

ASSUME AudioLinkAssumption == MaxChunks \in Nat \ {0} /\ MaxBadOpens \in Nat

VARIABLES
    deepWant,   \* s_deep_idle_want
    chimeOn,    \* s_chime_on
    toneAsked,  \* s_tone_req holds one playback_task() has not taken
    chunks,     \* what s_ring holds
    flushAsked, \* s_flush_pending
    captureOn,  \* s_capture_enabled or s_monitor: someone wants samples
    spkClosed,  \* s_spk_closed
    micFlag,    \* s_mic_is_open
    wait,       \* SPK_REOPEN_RETRY_MS since a reopen failed is not over
    player,     \* where playback_task() is
    playing,    \* its chime and tone
    then,       \* what it goes on to once the speaker is open
    capturer,   \* where capture_task() is
    micOpen,    \* its mic_open
    codecLock,  \* who holds s_codec_lock: "play", "cap" or "none"
    i2s,        \* the devices that are open
    badOpens

linkWanted == <<deepWant, chimeOn, toneAsked, chunks, flushAsked, captureOn>>
spk   == <<spkClosed, wait, player, playing, then>>
mic   == <<micFlag, capturer, micOpen>>
wires == <<codecLock, i2s, badOpens>>
linkvars == <<linkWanted, spk, mic, wires>>

Silent == [chime |-> FALSE, tone |-> FALSE]

LinkInit ==
    /\ deepWant = FALSE /\ chimeOn = FALSE /\ toneAsked = FALSE
    /\ chunks = 0 /\ flushAsked = FALSE
    /\ captureOn = FALSE
    /\ spkClosed = FALSE /\ wait = FALSE
    /\ player = "top" /\ playing = Silent /\ then = "receive"
    /\ capturer = "top" /\ micOpen = TRUE /\ micFlag = TRUE
    /\ codecLock = "none" /\ i2s = {"mic", "spk"} /\ badOpens = 0

Opens(ok) == ok \/ badOpens < MaxBadOpens
OpenCounted(ok) == badOpens' = IF ok THEN badOpens ELSE badOpens + 1

-----------------------------------------------------------------------------
(***************************************************************************)
(* playback_task().                                                        *)
(***************************************************************************)
(* spk_reopen() goes to the lock only for a closed speaker, and not too    *)
(* soon after a failure; what comes after it goes on either way.           *)
Reopens(next) ==
    IF spkClosed /\ ~wait
    THEN player' = "open" /\ then' = next
    ELSE player' = next /\ UNCHANGED then

(* The top of its loop: close in deep idle, reopen out of it.              *)
PlayTop ==
    LET tone  == toneAsked \/ playing.tone
        still == ~chimeOn /\ ~tone /\ ~flushAsked /\ chunks = 0
    IN  /\ player = "top"
        /\ playing' = [chime |-> chimeOn, tone |-> tone]
        /\ toneAsked' = FALSE
        /\ \/ /\ ~deepWant /\ Reopens("receive")
           \/ /\ deepWant /\ still /\ ~spkClosed
              /\ player' = "close" /\ UNCHANGED then
           \/ /\ deepWant /\ (~still \/ spkClosed)
              /\ player' = "receive" /\ UNCHANGED then
        /\ UNCHANGED <<deepWant, chimeOn, chunks, flushAsked, captureOn,
                       spkClosed, wait, mic, wires>>

PlayLocks ==
    /\ player \in {"close", "open"} /\ codecLock = "none"
    /\ codecLock' = "play"
    /\ player' = IF player = "close" THEN "closing" ELSE "opening"
    /\ UNCHANGED <<linkWanted, spkClosed, wait, playing, then, mic, i2s,
                   badOpens>>

(* spk_close_if_idle(), under the lock: with the microphone open it would  *)
(* gain nothing.                                                           *)
spk_close_if_idle ==
    /\ player = "closing"
    /\ IF micFlag
       THEN player' = "receive" /\ UNCHANGED i2s
       ELSE player' = "closed" /\ i2s' = i2s \ {"spk"}
    /\ codecLock' = "none"
    /\ UNCHANGED <<linkWanted, spkClosed, wait, playing, then, mic, badOpens>>

(* Mutant: a reopen is noted whether it succeeded or not.                  *)
ReopenNotedAnyway ==
    /\ player = "opening"
    /\ \E ok \in BOOLEAN :
            /\ Opens(ok) /\ OpenCounted(ok)
            /\ i2s' = IF ok THEN i2s \cup {"spk"} ELSE i2s
            /\ wait' = ~ok
    /\ player' = "opened" /\ codecLock' = "none"
    /\ UNCHANGED <<linkWanted, spkClosed, playing, then, mic>>

(* spk_reopen(), under the lock.                                           *)
spk_reopen ==
    /\ player = "opening"
    /\ \E ok \in BOOLEAN :
            /\ Opens(ok) /\ OpenCounted(ok)
            /\ i2s' = IF ok THEN i2s \cup {"spk"} ELSE i2s
            /\ wait' = ~ok
            /\ player' = IF ok THEN "opened" ELSE then
    /\ codecLock' = "none"
    /\ UNCHANGED <<linkWanted, spkClosed, playing, then, mic>>

(* Either notes it once the lock is free: the flag is its task's own.      *)
NoteSpeaker ==
    /\ player \in {"closed", "opened"}
    /\ spkClosed' = (player = "closed")
    /\ player' = IF player = "closed" THEN "receive" ELSE then
    /\ UNCHANGED <<linkWanted, wait, playing, then, mic, wires>>

Sounds == playing.chime \/ playing.tone

(* The receive: a chunk, or nothing - at once under a chime or a tone, and *)
(* after a timeout or a poke otherwise.  Agent audio cuts a tone off.      *)
Receive ==
    LET got == chunks > 0
    IN  /\ player = "receive"
        /\ chunks' = IF got THEN chunks - 1 ELSE 0
        /\ playing' = [playing EXCEPT
                            !.tone = @ /\ (playing.chime \/ ~got)]
        /\ \/ /\ flushAsked /\ player' = "flush"
              /\ UNCHANGED then
           \/ /\ ~flushAsked /\ got /\ Reopens("write")
           \/ /\ ~flushAsked /\ ~got /\ Sounds /\ Reopens("sound")
           \/ /\ ~flushAsked /\ ~got /\ ~Sounds /\ player' = "top"
              /\ UNCHANGED then
        /\ UNCHANGED <<deepWant, chimeOn, toneAsked, flushAsked, captureOn,
                       spkClosed, wait, mic, wires>>

FlushRing ==
    /\ player = "flush"
    /\ chunks' = 0 /\ flushAsked' = FALSE /\ player' = "top"
    /\ UNCHANGED <<deepWant, chimeOn, toneAsked, captureOn, spkClosed, wait,
                   then, playing, mic, wires>>

(* The write; without a speaker a chunk is dropped, and a chime or a    *)
(* tone is tried again.  A tone is over sooner or later.                   *)
WriteSound ==
    /\ player \in {"sound", "write"} /\ player' = "top"
    /\ \/ UNCHANGED playing
       \/ /\ player = "sound" /\ ~playing.chime
          /\ playing' = Silent
    /\ UNCHANGED <<linkWanted, spkClosed, wait, then, mic, wires>>

playback_task ==
    \/ PlayTop \/ PlayLocks \/ spk_close_if_idle \/ spk_reopen \/ NoteSpeaker
    \/ Receive \/ FlushRing \/ WriteSound

-----------------------------------------------------------------------------
(***************************************************************************)
(* capture_task().                                                         *)
(***************************************************************************)
(* Wanted and open, the task reads block after block and stays here.       *)
CaptureTop ==
    /\ capturer = "top"
    /\ ~captureOn \/ ~micOpen
    /\ capturer' = IF captureOn THEN "resume"
                   ELSE IF micOpen THEN "park" ELSE "parked"
    /\ UNCHANGED <<linkWanted, spk, micFlag, micOpen, wires>>

(* A parked task looks again at a timeout or at audio_io_deep_idle()'s     *)
(* poke.                                                                   *)
ParkedWait ==
    /\ capturer = "parked" /\ capturer' = "top"
    /\ UNCHANGED <<linkWanted, spk, micFlag, micOpen, wires>>

CaptureLocks ==
    /\ capturer \in {"park", "resume"} /\ codecLock = "none"
    /\ codecLock' = "cap"
    /\ capturer' = IF capturer = "park" THEN "parking" ELSE "resuming"
    /\ UNCHANGED <<linkWanted, spk, micFlag, micOpen, i2s, badOpens>>

Park ==
    /\ capturer = "parking" /\ capturer' = "parked"
    /\ i2s' = i2s \ {"mic"} /\ micFlag' = FALSE /\ micOpen' = FALSE
    /\ codecLock' = "none"
    /\ UNCHANGED <<linkWanted, spk, badOpens>>

(* Mutant: the flag follows once the lock is let go.                       *)
ResumeFlagsLater ==
    \/ /\ capturer = "resuming" /\ capturer' = "resumed"
       /\ i2s' = i2s \cup {"mic"} /\ codecLock' = "none"
       /\ UNCHANGED <<linkWanted, spk, micFlag, micOpen, badOpens>>
    \/ /\ capturer = "resumed" /\ capturer' = "top"
       /\ micFlag' = TRUE /\ micOpen' = TRUE
       /\ UNCHANGED <<linkWanted, spk, wires>>

(* The open and its flag in one step against the speaker's close.          *)
ResumeMic ==
    /\ capturer = "resuming"
    /\ \E ok \in BOOLEAN :
            /\ Opens(ok) /\ OpenCounted(ok)
            /\ i2s' = IF ok THEN i2s \cup {"mic"} ELSE i2s
            /\ micFlag' = ok /\ micOpen' = ok
            /\ capturer' = IF ok THEN "top" ELSE "parked"
    /\ codecLock' = "none"
    /\ UNCHANGED <<linkWanted, spk>>

capture_task ==
    CaptureTop \/ ParkedWait \/ CaptureLocks \/ Park \/ ResumeMic

-----------------------------------------------------------------------------
(***************************************************************************)
(* What other tasks ask for.                                               *)
(***************************************************************************)
audio_io_deep_idle ==
    /\ deepWant' = ~deepWant
    /\ UNCHANGED <<chimeOn, toneAsked, chunks, flushAsked, captureOn, spk,
                   mic, wires>>

audio_io_chime ==
    /\ chimeOn' = ~chimeOn
    /\ UNCHANGED <<deepWant, toneAsked, chunks, flushAsked, captureOn, spk,
                   mic, wires>>

audio_io_tone ==
    /\ toneAsked' = TRUE
    /\ UNCHANGED <<deepWant, chimeOn, chunks, flushAsked, captureOn, spk,
                   mic, wires>>

audio_io_queue ==
    /\ chunks < MaxChunks /\ chunks' = chunks + 1
    /\ UNCHANGED <<deepWant, chimeOn, toneAsked, flushAsked, captureOn, spk,
                   mic, wires>>

audio_io_drop ==
    /\ flushAsked' = TRUE
    /\ UNCHANGED <<deepWant, chimeOn, toneAsked, chunks, captureOn, spk,
                   mic, wires>>

audio_io_capture ==
    /\ captureOn' = ~captureOn
    /\ UNCHANGED <<deepWant, chimeOn, toneAsked, chunks, flushAsked, spk,
                   mic, wires>>

GapEnds ==
    /\ wait /\ wait' = FALSE
    /\ UNCHANGED <<linkWanted, spkClosed, player, playing, then, mic,
                   wires>>

LinkNext ==
    \/ playback_task \/ capture_task \/ GapEnds
    \/ audio_io_deep_idle \/ audio_io_chime \/ audio_io_tone
    \/ audio_io_queue \/ audio_io_drop \/ audio_io_capture

LinkSpec == LinkInit /\ [][LinkNext]_linkvars

-----------------------------------------------------------------------------
(***************************************************************************)
(* Properties.                                                             *)
(***************************************************************************)
(* Whoever finds the lock free may believe the microphone's flag, and the  *)
(* playback task the speaker's wherever it reads it, however often one was *)
(* parked, closed, reopened in vain or tried again while the other came    *)
(* and went; and no sound is written to a closed speaker unless its reopen *)
(* failed.  (s_codec_lock, spk_close_if_idle(), spk_reopen(), the park)    *)
FlagsAreTrue ==
    /\ codecLock = "none" => (micFlag <=> "mic" \in i2s)
    /\ player \notin {"closed", "opened"} => (spkClosed <=> "spk" \notin i2s)
    /\ player \in {"sound", "write"} /\ "spk" \notin i2s => badOpens > 0

(* The speaker is closed only with the microphone's device closed: its     *)
(* flag says so for as long as the lock is held.  (s_codec_lock)           *)
SpeakerClosesAlone ==
    [][i2s \ i2s' = {"spk"} => "mic" \notin i2s]_linkvars

LinkTypeOK ==
    /\ {deepWant, chimeOn, toneAsked, flushAsked, captureOn, spkClosed,
        micFlag, wait, micOpen} \subseteq BOOLEAN
    /\ chunks \in 0 .. MaxChunks
    /\ playing \in [chime : BOOLEAN, tone : BOOLEAN]
    /\ player \in {"top", "close", "closing", "closed", "receive", "open",
                   "opening", "opened", "flush", "sound", "write"}
    /\ then \in {"receive", "sound", "write"}
    /\ capturer \in {"top", "park", "parking", "parked", "resume",
                     "resuming"}
    /\ codecLock \in {"none", "play", "cap"} /\ i2s \subseteq {"mic", "spk"}
    /\ badOpens \in 0 .. MaxBadOpens
=============================================================================
