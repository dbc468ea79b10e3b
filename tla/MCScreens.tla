----------------------------- MODULE MCScreens ------------------------------
(***************************************************************************)
(* Screens twice, a behaviour being one of one of them from its first      *)
(* state on: anything pressed and asked, and a game, opened by the agent,  *)
(* with two presses to follow.                                             *)
(***************************************************************************)
EXTENDS Screens

VARIABLE part

Opened == INSTANCE Screens WITH Calls <- {"echo"}, MaxEvents <- 3

(* Bounds of the game: the first event is the call, and the only one.      *)
GameNext ==
    /\ Opened!ScreensNext
    /\ happened = 0 => ~finger'.down
    /\ happened > 0 => voiced' \subseteq voiced

MCInit == part \in {"anything", "game"} /\ ScreensInit

MCNext ==
    /\ UNCHANGED part
    /\ \/ part = "anything" /\ ScreensNext
       \/ part = "game" /\ GameNext

MCSpec == MCInit /\ [][MCNext]_<<part, screenvars>> /\ ScreensFairness
=============================================================================
