---------------------------- MODULE HistoryStore ----------------------------
(***************************************************************************)
(* main/history_store.c: the conversation in a ring of sectors of raw NOR  *)
(* flash.  A save erases the sector after the newest one, writes the       *)
(* payload, and writes the header last; a boot takes the record with the   *)
(* newest sequence number whose magic and CRC check.  Each of the three    *)
(* flash calls may fail or be cut off by a power loss part of the way, and *)
(* a sector may be unreadable for once.                                    *)
(*                                                                         *)
(* A sector is what the code reads out of it: the header's magic, its      *)
(* sequence number, the payload its length and CRC were computed over, and *)
(* the payload that is really there.                                       *)
(***************************************************************************)
EXTENDS Integers, FiniteSets

CONSTANTS
    Slots,         \* HISTORY_STORE_SLOTS
    SeqWrap,        \* sequence numbers are modulo this, 2^32 in the code
    SeqPieces,     \* values of the low bytes of a number: 1, 2^8, 2^16, 2^24
    Payloads,      \* what dg_agent saves
    Empty,         \* the payload of length zero
    MaxSaves,      \* bound: saves begun
    MaxErrors,     \* bound: flash calls that return an error
    MaxLosses,     \* bound: power losses
    MaxUnseen      \* bound: boots whose load was skipped or failed, and
                   \* sectors that could not be read, for once

ASSUME RingAssumption ==
    /\ Slots \in Nat /\ Slots > 2
    /\ SeqWrap \in Nat /\ SeqWrap % 2 = 0 /\ SeqWrap \div 2 > Slots
    /\ SeqPieces \subseteq 1 .. SeqWrap - 1

Nothing == "nothing"
Blank   == "blank"   \* erased, or only part of it programmed
NoSlot  == -1

ASSUME PayloadAssumption ==
    Empty \in Payloads /\ Nothing \notin Payloads /\ Blank \notin Payloads

ASSUME BoundAssumption ==
    {MaxSaves, MaxErrors, MaxLosses, MaxUnseen} \subseteq Nat

VARIABLES
    flash,   \* the sectors
    pc,      \* "off", "idle", or the flash call a save is in
    s_slot,  \* the slot of the newest record known of
    s_seq,   \* its sequence number
    buf,     \* the payload of the save under way
    acked,   \* the payload of this boot's last save if it returned OK
    loaded,  \* what this boot's load returned
    saves,   \* saves begun
    faults   \* what has gone wrong so far, by kind

storevars == <<flash, pc, s_slot, s_seq, buf, acked, loaded, saves, faults>>
ram  == <<s_slot, s_seq, buf, acked, loaded>>

Ring   == 0 .. Slots - 1
Seqs   == 0 .. SeqWrap - 1
Sector == [magic : BOOLEAN, seq : Seqs,
           sum : Payloads \cup {Blank}, body : Payloads \cup {Blank}]
Erased == [magic |-> FALSE, seq |-> SeqWrap - 1, sum |-> Blank, body |-> Blank]

Bound  == [error |-> MaxErrors, loss |-> MaxLosses,
           blind |-> MaxUnseen, unreadable |-> MaxUnseen]

Fault(kind, n) ==
    /\ faults[kind] + n <= Bound[kind]
    /\ faults' = [faults EXCEPT ![kind] = @ + n]
    /\ faults'["blind"] + faults'["unreadable"] <= MaxUnseen

(***************************************************************************)
(* Reading.                                                                *)
(***************************************************************************)
(* Mutant: the numbers compared as they are.                               *)
NewerUnsigned(a, b) == a > b

(* (int32_t)(a - b) > 0                                                    *)
Newer(a, b) == (a - b) % SeqWrap \in 1 .. SeqWrap \div 2 - 1

(* slot_valid(): a zero length has no payload bytes to check.              *)
slot_valid(sector) ==
    /\ sector.magic
    /\ sector.sum /= Blank
    /\ sector.sum = sector.body \/ sector.sum = Empty

(* Mutant: the first sector that qualifies will do.                        *)
NewestIsFirst(sectors, qualify) ==
    IF qualify = {} THEN NoSlot
    ELSE CHOOSE i \in qualify : \A j \in qualify : i <= j

(* The loop both load() and ensure_scanned() run over the sectors that     *)
(* qualify: keep the first, and then whatever is newer than the one kept.  *)
Newest(sectors, qualify) ==
    LET best[i \in 0 .. Slots] ==
            IF i = 0 THEN NoSlot
            ELSE LET b == best[i - 1] IN
                 IF /\ i - 1 \in qualify
                    /\ b = NoSlot \/ Newer(sectors[i - 1].seq, sectors[b].seq)
                 THEN i - 1 ELSE b
    IN  best[Slots]

Valid(sectors)  == {i \in Ring : slot_valid(sectors[i])}
Marked(sectors) == {i \in Ring : sectors[i].magic}

(* What a load of these sectors returns when it can read these slots.      *)
Content(sectors, readable) ==
    LET best == Newest(sectors, Valid(sectors) \cap readable)
    IN  IF best = NoSlot THEN Empty ELSE sectors[best].sum

(***************************************************************************)
(* Writing.  What a flash call leaves when it fails or is cut off.         *)
(***************************************************************************)
TornSeq(seq) == {(SeqWrap - p) + (seq % p) : p \in SeqPieces} \cup {seq}

(* A header goes down from its first byte: no magic yet, a part of the     *)
(* number, a part of the length and CRC, or all of it.                     *)
Header(sector, seq, p) ==
    [sector EXCEPT !.magic = TRUE, !.seq = seq, !.sum = p]

TornErase(sector) == {sector, [sector EXCEPT !.body = Blank], Erased}
TornHeader(sector, seq, p) ==
    {sector, Header(sector, seq, p)}
        \cup {Header(sector, s, Blank) : s \in TornSeq(seq)}

next    == IF s_slot = NoSlot THEN 0 ELSE (s_slot + 1) % Slots

(* Mutant: a counter that does not wrap.                                   *)
nextSeqWide == s_seq + 1

nextSeq == (s_seq + 1) % SeqWrap

Torn ==
    CASE pc = "erase"   -> TornErase(flash[next])
      [] pc = "payload" -> {flash[next], [flash[next] EXCEPT !.body = buf]}
      [] pc = "header"  -> TornHeader(flash[next], nextSeq, buf)

-----------------------------------------------------------------------------
StoreInit ==
    /\ flash = [i \in Ring |-> Erased]
    /\ pc = "off" /\ s_slot = NoSlot /\ s_seq = 0
    /\ buf = Nothing /\ acked = Nothing /\ loaded = Nothing
    /\ saves = 0 /\ faults = [kind \in DOMAIN Bound |-> 0]

(***************************************************************************)
(* Boot: dg_agent's history_load().                                        *)
(***************************************************************************)
(* Sectors whose headers, or whose payloads, this scan could not read.     *)
Missed(bad) == bad \subseteq Ring /\ Fault("unreadable", Cardinality(bad))

history_store_load(bad) ==
    /\ pc = "off" /\ pc' = "idle"
    /\ Missed(bad)
    /\ LET best == Newest(flash, Valid(flash) \ bad) IN
        IF best = NoSlot
        THEN loaded' = Empty /\ UNCHANGED <<s_slot, s_seq>>
        ELSE /\ loaded' = flash[best].sum
             /\ s_slot' = best /\ s_seq' = flash[best].seq
    /\ UNCHANGED <<flash, buf, acked, saves>>

(* No memory to load into, or the second read of the winner failed.        *)
BlindBoot ==
    /\ pc = "off" /\ pc' = "idle"
    /\ Fault("blind", 1)
    /\ UNCHANGED <<flash, ram, saves>>

(***************************************************************************)
(* history_store_save(): the scan, then one step for each flash call.      *)
(***************************************************************************)
(* By headers alone, and only when load() did not get there.               *)
ensure_scanned(bad) ==
    /\ Missed(bad)
    /\ s_slot /= NoSlot => bad = {}
    /\ LET best == Newest(flash, Marked(flash) \ bad) IN
        IF s_slot /= NoSlot \/ best = NoSlot
        THEN UNCHANGED <<s_slot, s_seq>>
        ELSE s_slot' = best /\ s_seq' = flash[best].seq

history_store_save(p, bad) ==
    /\ pc = "idle" /\ pc' = "erase"
    /\ saves < MaxSaves /\ saves' = saves + 1
    /\ ensure_scanned(bad)
    /\ buf' = p /\ acked' = Nothing
    /\ UNCHANGED <<flash, loaded>>

EraseDone ==
    /\ pc = "erase"
    /\ flash' = [flash EXCEPT ![next] = Erased]
    /\ pc' = IF buf = Empty THEN "header" ELSE "payload"
    /\ UNCHANGED <<ram, saves, faults>>

PayloadDone ==
    /\ pc = "payload" /\ pc' = "header"
    /\ flash' = [flash EXCEPT ![next].body = buf]
    /\ UNCHANGED <<ram, saves, faults>>

(* Mutant: the new slot is remembered, its number is not.                  *)
HeaderDoneStale ==
    /\ pc = "header" /\ pc' = "idle"
    /\ flash' = [flash EXCEPT ![next] = Header(@, nextSeq, buf)]
    /\ s_slot' = next
    /\ acked' = buf /\ buf' = Nothing
    /\ UNCHANGED <<s_seq, loaded, saves, faults>>

HeaderDone ==
    /\ pc = "header" /\ pc' = "idle"
    /\ flash' = [flash EXCEPT ![next] = Header(@, nextSeq, buf)]
    /\ s_slot' = next /\ s_seq' = nextSeq
    /\ acked' = buf /\ buf' = Nothing
    /\ UNCHANGED <<loaded, saves, faults>>

(* The call returns an error, and the save with it.                        *)
CallFails ==
    /\ pc \in {"erase", "payload", "header"} /\ pc' = "idle"
    /\ Fault("error", 1)
    /\ \E left \in Torn : flash' = [flash EXCEPT ![next] = left]
    /\ buf' = Nothing
    /\ UNCHANGED <<s_slot, s_seq, acked, loaded, saves>>

PowerLoss ==
    /\ pc /= "off" /\ pc' = "off"
    /\ Fault("loss", 1)
    /\ IF pc = "idle" THEN UNCHANGED flash
       ELSE \E left \in Torn : flash' = [flash EXCEPT ![next] = left]
    /\ s_slot' = NoSlot /\ s_seq' = 0
    /\ buf' = Nothing /\ acked' = Nothing /\ loaded' = Nothing
    /\ UNCHANGED saves

StoreNext ==
    \/ \E bad \in SUBSET Ring : history_store_load(bad)
    \/ BlindBoot
    \/ \E p \in Payloads, bad \in SUBSET Ring : history_store_save(p, bad)
    \/ EraseDone
    \/ PayloadDone
    \/ HeaderDone
    \/ CallFails
    \/ PowerLoss

StoreSpec == StoreInit /\ [][StoreNext]_storevars

-----------------------------------------------------------------------------
StoreTypeOK ==
    /\ flash \in [Ring -> Sector]
    /\ pc \in {"off", "idle", "erase", "payload", "header"}
    /\ s_slot \in Ring \cup {NoSlot} /\ s_seq \in Seqs
    /\ {buf, acked, loaded} \subseteq Payloads \cup {Nothing}
    /\ saves \in 0 .. MaxSaves
    /\ \A kind \in DOMAIN Bound : faults[kind] \in 0 .. Bound[kind]

(* While every sector can be read, the ring is one record that a save      *)
(* replaces whole or not at all, wherever the power goes and whichever     *)
(* call fails: history_store.h's "a power loss anywhere in the middle      *)
(* leaves the previous record whole".  The record a save falls back on is  *)
(* what the other sectors hold, once the store has established which one   *)
(* is next.                                                                *)
Established == pc /= "off" /\ (pc = "idle" => s_slot /= NoSlot)

Record == INSTANCE DurableRecord WITH
              stored <- Content(flash, Ring),
              kept   <- Content(flash, IF Established THEN Ring \ {next}
                                                      ELSE Ring),
              saving <- buf
Implements ==
    /\ Record!Init
    /\ [][storevars' # storevars /\ faults'["unreadable"] = 0
           => [Record!Next]_(Record!vars)]_storevars

(* A save that returned OK is what the next load finds, even after a boot  *)
(* that missed a sector or could not load: it has gone on counting from a  *)
(* number no older record beats (the comment above ensure_scanned()).      *)
AckedWins == pc = "idle" /\ acked /= Nothing => Content(flash, Ring) = acked

(* The scan's answer does not depend on the order of the sectors: it is    *)
(* newer than every other valid record, though "newer" is only a signed    *)
(* difference and goes round.                                              *)
ScanFindsNewest ==
    LET best == Newest(flash, Valid(flash)) IN
    \A i \in Valid(flash) \ {best} : Newer(flash[best].seq, flash[i].seq)
=============================================================================
