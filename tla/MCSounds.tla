------------------------------ MODULE MCSounds ------------------------------
(***************************************************************************)
(* What sounds, and what it sounds with: the alarms, the Echo game, the    *)
(* clock, the levels and the playback.  They share no variable here, and a *)
(* behaviour is one of one of them from its first state on.  Two are taken *)
(* twice, under the configuration's bounds and under these: "keeping" (the *)
(* configuration's) has time enough for alarms to be missed, a loss of     *)
(* power and a change of zone, and "ringing" has Stop and Snooze pressed   *)
(* on another task; "game" (the configuration's) has rounds against what   *)
(* the agent says, and "callouts" the nudges of a level up, their texts    *)
(* and a lost socket.                                                      *)
(***************************************************************************)
EXTENDS Alarms, Echo, Clock, Settings, Playback

VARIABLE part

Ringing ==
    INSTANCE Alarms WITH ALARM_MAX <- 1, Zones <- {0}, MaxNow <- 2,
                         MaxReboots <- 0, MaxPresses <- 1

Callouts ==
    INSTANCE Echo WITH ECHO_MAX <- 1, ECHO_SPEAK_WAIT_MS <- 1,
                       MaxNudges <- 2, MaxSpeech <- 0, MaxDrops <- 1

MCInit ==
    /\ part \in {"ringing", "keeping", "game", "callouts", "clock",
                 "settings", "playback"}
    /\ Init /\ EchoInit /\ ClkInit /\ SetInit /\ PlayInit

MCNext ==
    /\ UNCHANGED part
    /\ \/ /\ \/ part = "keeping" /\ Next
             \/ part = "ringing" /\ Ringing!Next
          /\ UNCHANGED <<echovars, clkvars, setvars, playvars>>
       \/ /\ \/ part = "game" /\ EchoNext
             \/ part = "callouts" /\ Callouts!EchoNext
          /\ UNCHANGED <<vars, clkvars, setvars, playvars>>
       \/ /\ part = "clock" /\ ClkNext
          /\ UNCHANGED <<vars, echovars, setvars, playvars>>
       \/ /\ part = "settings" /\ SetNext
          /\ UNCHANGED <<vars, echovars, clkvars, playvars>>
       \/ /\ part = "playback" /\ PlayNext
          /\ UNCHANGED <<vars, echovars, clkvars, setvars>>

MCSpec ==
    MCInit /\ [][MCNext]_<<part, vars, echovars, clkvars, setvars, playvars>>
=============================================================================
