--------------------------- MODULE DurableRecord ---------------------------
(***************************************************************************)
(* What main/history_store.h promises its caller: one record that a save   *)
(* replaces whole or not at all.  A save that returns OK has replaced it;  *)
(* one that returns an error, or that loses power, has replaced it or has  *)
(* left it alone.  A record that landed although its save returned an      *)
(* error may be taken back by the save that tries again; nothing else      *)
(* brings an older record back.                                            *)
(***************************************************************************)
CONSTANTS
    Payloads, \* what a record may hold
    Empty,    \* the record with nothing in it, which blank flash reads as
    Nothing   \* no payload

VARIABLES
    stored, \* the record
    kept,   \* the record as it was before a save that returned an error
    saving, \* the payload of the save under way, or Nothing
    acked,  \* the payload of this boot's last save if it returned OK
    loaded  \* what this boot's load returned, or Nothing

vars == <<stored, kept, saving, acked, loaded>>

Init ==
    /\ stored = Empty /\ kept = Empty
    /\ saving = Nothing /\ acked = Nothing /\ loaded = Nothing

Load ==
    /\ saving = Nothing /\ acked = Nothing /\ loaded = Nothing
    /\ loaded' = stored /\ kept' = stored
    /\ UNCHANGED <<stored, saving, acked>>

Save(p) ==
    /\ saving = Nothing
    /\ saving' = p /\ acked' = Nothing
    /\ UNCHANGED <<stored, kept, loaded>>

TakeBack ==
    /\ saving /= Nothing
    /\ stored' = kept
    /\ UNCHANGED <<kept, saving, acked, loaded>>

Saved ==
    /\ saving /= Nothing
    /\ stored' = saving /\ kept' = saving
    /\ acked' = saving /\ saving' = Nothing
    /\ UNCHANGED loaded

Failed ==
    /\ saving /= Nothing
    /\ stored' \in {stored, kept, saving}
    /\ kept' \in {kept, stored'}
    /\ saving' = Nothing
    /\ UNCHANGED <<acked, loaded>>

PowerLoss ==
    /\ stored' \in IF saving = Nothing THEN {stored}
                   ELSE {stored, kept, saving}
    /\ kept' = stored'
    /\ saving' = Nothing /\ acked' = Nothing /\ loaded' = Nothing

Next ==
    \/ Load
    \/ \E p \in Payloads : Save(p)
    \/ TakeBack
    \/ Saved
    \/ Failed
    \/ PowerLoss

Spec == Init /\ [][Next]_vars
=============================================================================
