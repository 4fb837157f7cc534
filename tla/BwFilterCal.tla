----------------------------- MODULE BwFilterCal -----------------------------
(***************************************************************************)
(* rt2800_bw_filter_calibration as the driver runs it: a call step that   *)
(* saves the borrowed registers and starts the calibration block, per     *)
(* bandwidth a setup step (rt2800_rf_lp_config, the bypass measurement)   *)
(* and one step per corner code tried at do_cal, a store step, and the    *)
(* restore.  The result of rt2800_lp_tx_filter_bw_cal and the attenuation *)
(* are plain `char's, whose signedness the build decides (CharSigned).    *)
(***************************************************************************)
EXTENDS Integers

CONSTANTS Radios, Rf5Init, BbpInit, DcocInit, MacInit,
          CharSigned      \* whether the build's plain char is signed

VARIABLES
    radio, rf5, bbp, dcoc, mac, cache,
    pc,        \* "idle", "loop", "do_cal", "store" or "restore"
    btxcal,    \* TX (TRUE) or RX calibration
    loop,      \* 0: 20 MHz, 1: 40 MHz
    agcFc,     \* tx_agc_fc or rx_agc_fc, the corner code tried
    calInit,   \* cal_r32_init, the bypass reading
    saved,     \* the registers saved at the call
    entryCache \* history: the calibration cache at the call

vars == <<radio, rf5, bbp, dcoc, mac, cache, pc, btxcal, loop, agcFc,
          calInit, saved, entryCache>>

Hw == INSTANCE BwFilterCalSpec

\* A value stored in a plain char, read back as an int.
ToChar(x) == IF CharSigned THEN ((x + 128) % 256) - 128 ELSE x % 256

\* rt2800_lp_tx_filter_bw_cal: start the measurement (DCOC 0 = 0x82, which
\* the radio turns into 0x02 when done), read DCOC 0x39 and sign-extend
\* its low seven bits into a char.
LpCal(raw) ==
    LET v == raw % 128 IN ToChar(IF v >= \h40 THEN v - 128 ELSE v)

\* The DCOC 0x39 byte for a signed 7-bit reading.
Raw(v) == v % 128

\* The two bank-5 registers holding the corner code of the path.
AgcRegs(b) == IF b THEN {58, 59} ELSE {6, 7}

\* rt2800_bbp_core_soft_reset leaves BBP 21 bit 0 clear, and with set_bw
\* the bandwidth field of BBP 4 at is_ht40.
SoftReset(b, setBw, ht40) ==
    [b EXCEPT ![21] = Hw!SetF(@, 0, 1, 0),
              ![4]  = IF setBw THEN Hw!SetF(@, 3, 2, IF ht40 THEN 2 ELSE 0) ELSE @]

\* rt2800_rf_lp_config on the bank-5 registers.
LpConfigRf(r, b) ==
    [r EXCEPT ![17] = Hw!SetF(@, 7, 1, 1),
              ![18] = IF b THEN \hc1 ELSE \hf1,
              ![19] = IF b THEN \h20 ELSE \h18,
              ![20] = \h02,
              ![3]  = Hw!SetF(@, 0, 6, IF b THEN \h3f ELSE \h34),
              ![4]  = Hw!SetF(@, 0, 6, IF b THEN \h3f ELSE \h34),
              ![5]  = IF b THEN \h31 ELSE @]

\* The corner code written into the low seven bits of both path registers.
WithAgc(r, b, fc) ==
    [k \in DOMAIN r |-> IF k \in AgcRegs(b) THEN Hw!SetF(r[k], 0, 7, fc) ELSE r[k]]

Init ==
    /\ Hw!Init
    /\ pc = "idle" /\ btxcal = TRUE /\ loop = 0 /\ agcFc = 0 /\ calInit = 0
    /\ saved = [rf5 |-> rf5, bbp |-> bbp, dcoc |-> dcoc, mac |-> mac]
    /\ entryCache = cache

\* The call: save MAC, BBP 23, DCOC 0/2 and the bank-5 registers, start
\* the calibration block (bank 5 R0 bits 0-1, R1 bit 0, which the radio
\* clears when ready), then select it (R0 = 1) and set BBP 23 to 0x10.
rt2800_bw_filter_calibration ==
    /\ pc = "idle"
    /\ \E b \in BOOLEAN : btxcal' = b
    /\ saved' = [rf5 |-> rf5, bbp |-> bbp, dcoc |-> dcoc, mac |-> mac]
    /\ entryCache' = cache
    /\ rf5' = [rf5 EXCEPT ![0] = Hw!SetF(@, 0, 2, 1), ![1] = Hw!SetF(@, 0, 1, 0)]
    /\ bbp' = [bbp EXCEPT ![23] = Hw!SetF(@, 0, 5, \h10)]
    /\ loop' = 0
    /\ pc' = "loop"
    /\ UNCHANGED <<radio, dcoc, mac, cache, agcFc, calInit>>

\* One pass of the do-while loop up to do_cal: the bandwidth bit of bank-5
\* R8, a soft reset at the bandwidth, rt2800_rf_lp_config, the corner code
\* cleared, and the bypass measurement with DCOC 2 bits 1-2 cleared.
BwLoopSetup ==
    LET ht40 == loop = 1
        r8   == [rf5 EXCEPT ![8] = Hw!SetF(@, 2, 1, loop)]
    IN /\ pc = "loop"
       /\ rf5' = WithAgc(LpConfigRf(r8, btxcal), btxcal, 0)
       /\ bbp' = SoftReset(bbp, TRUE, ht40)
       /\ mac' = [mac EXCEPT !.RF_CONTROL0 = IF btxcal THEN \h04 ELSE \h02,
                             !.RF_BYPASS0 = \h06]
       /\ dcoc' = [dcoc EXCEPT ![0] = \h02, ![2] = Hw!SetF(@, 1, 2, 3)]
       /\ calInit' = LpCal(Raw(Hw!Path(btxcal).init))
       /\ agcFc' = 0
       /\ pc' = "do_cal"
       /\ UNCHANGED <<radio, cache, btxcal, loop, saved, entryCache>>

\* Mutant: the goto do_cal without the 0x3f bound (the code wraps in its 7-bit field).
BwDoCalNoCodeBound ==
    LET tgt     == Hw!BwFilterTarget(btxcal, loop = 1)
        diff    == ToChar(calInit - LpCal(Raw(Hw!Reading(btxcal, agcFc))))
        giveUp  == \/ diff > tgt /\ agcFc = 0
                   \/ diff < tgt /\ agcFc = Hw!MaxAgcFc
        tryNext == ~giveUp /\ diff <= tgt
    IN /\ pc = "do_cal"
       /\ rf5' = WithAgc(rf5, btxcal, agcFc)
       /\ bbp' = SoftReset(bbp, FALSE, loop = 1)
       /\ \/ giveUp /\ agcFc' = 0 /\ pc' = "store"
          \/ tryNext /\ agcFc' = (agcFc + 1) % 128 /\ pc' = "do_cal"
          \/ ~giveUp /\ ~tryNext /\ pc' = "store" /\ UNCHANGED agcFc
       /\ UNCHANGED <<radio, dcoc, mac, cache, btxcal, loop, calInit, saved,
                      entryCache>>

\* do_cal: write the corner code, soft reset, measure, and decide: give up
\* at 0 (the first code already over the target, or the last one under
\* it), try the next code, or keep this one.
BwDoCal ==
    LET tgt     == Hw!BwFilterTarget(btxcal, loop = 1)
        diff    == ToChar(calInit - LpCal(Raw(Hw!Reading(btxcal, agcFc))))
        giveUp  == \/ diff > tgt /\ agcFc = 0
                   \/ diff < tgt /\ agcFc = Hw!MaxAgcFc
        tryNext == ~giveUp /\ diff <= tgt /\ agcFc < Hw!MaxAgcFc
    IN /\ pc = "do_cal"
       /\ rf5' = WithAgc(rf5, btxcal, agcFc)
       /\ bbp' = SoftReset(bbp, FALSE, loop = 1)
       /\ \/ giveUp /\ agcFc' = 0 /\ pc' = "store"
          \/ tryNext /\ agcFc' = agcFc + 1 /\ pc' = "do_cal"
          \/ ~giveUp /\ ~tryNext /\ pc' = "store" /\ UNCHANGED agcFc
       /\ UNCHANGED <<radio, dcoc, mac, cache, btxcal, loop, calInit, saved,
                      entryCache>>

\* The code found is stored for this path and bandwidth.
BwStore ==
    /\ pc = "store"
    /\ cache' = CASE btxcal /\ loop = 0  -> [cache EXCEPT !.tx20 = agcFc]
                 []  btxcal /\ loop = 1  -> [cache EXCEPT !.tx40 = agcFc]
                 [] ~btxcal /\ loop = 0  -> [cache EXCEPT !.rx20 = agcFc]
                 [] ~btxcal /\ loop = 1  -> [cache EXCEPT !.rx40 = agcFc]
    /\ loop' = loop + 1
    /\ pc' = IF loop + 1 <= 1 THEN "loop" ELSE "restore"
    /\ UNCHANGED <<radio, rf5, bbp, dcoc, mac, btxcal, agcFc, calInit, saved,
                   entryCache>>

\* Mutant: the write-back of saverfb5r08 missing.
BwRestoreWithoutR8 ==
    /\ pc = "restore"
    /\ rf5' = [saved.rf5 EXCEPT ![8] = rf5[8]]
    /\ bbp' = [bbp EXCEPT ![23] = saved.bbp[23],
                          ![4] = Hw!SetF(@, 3, 2, IF radio.ht40 THEN 2 ELSE 0)]
    /\ dcoc' = saved.dcoc
    /\ mac' = saved.mac
    /\ pc' = "idle"
    /\ UNCHANGED <<radio, cache, btxcal, loop, agcFc, calInit, saved, entryCache>>

\* The saved bank-5 registers, BBP 23, DCOC 0/2 and MAC registers are
\* written back, and BBP 4 follows the configured channel width.
BwRestore ==
    /\ pc = "restore"
    /\ rf5' = saved.rf5
    /\ bbp' = [bbp EXCEPT ![23] = saved.bbp[23],
                          ![4] = Hw!SetF(@, 3, 2, IF radio.ht40 THEN 2 ELSE 0)]
    /\ dcoc' = saved.dcoc
    /\ mac' = saved.mac
    /\ pc' = "idle"
    /\ UNCHANGED <<radio, cache, btxcal, loop, agcFc, calInit, saved, entryCache>>

Next ==
    \/ rt2800_bw_filter_calibration
    \/ BwLoopSetup
    \/ BwDoCal
    \/ BwStore
    \/ BwRestore

\* The calibration runs to its end in the one thread that enables the
\* radio; only the call itself is up to the caller.
Fairness ==
    /\ WF_vars(BwLoopSetup) /\ WF_vars(BwDoCal)
    /\ WF_vars(BwStore) /\ WF_vars(BwRestore)

Spec == Init /\ [][Next]_vars /\ Fairness
-----------------------------------------------------------------------------
TypeOK ==
    /\ pc \in {"idle", "loop", "do_cal", "store", "restore"}
    /\ btxcal \in BOOLEAN /\ loop \in 0..2
    /\ agcFc \in 0..Hw!MaxAgcFc
    /\ calInit \in -128..255
    /\ \A k \in DOMAIN rf5 : rf5[k] \in 0..255
    /\ \A k \in DOMAIN bbp : bbp[k] \in 0..255
    /\ \A k \in DOMAIN dcoc : dcoc[k] \in 0..255

\* During a call the abstract registers are the saved ones and the abstract
\* cache the one at the call; the restore is the abstract step.
Abs == INSTANCE BwFilterCalSpec
         WITH rf5   <- IF pc = "idle" THEN rf5 ELSE saved.rf5,
              bbp   <- IF pc = "idle" THEN bbp ELSE saved.bbp,
              dcoc  <- IF pc = "idle" THEN dcoc ELSE saved.dcoc,
              mac   <- IF pc = "idle" THEN mac ELSE saved.mac,
              cache <- IF pc = "idle" THEN cache ELSE entryCache

\* The corner-code search of rt2800_bw_filter_calibration, with its char
\* arithmetic, give-up rules and goto do_cal loop, finds the codes of the
\* reference search for both bandwidths, and its save/restore leaves every
\* borrowed RF, BBP, DCOC and MAC register as it was: the atomic
\* calibration of BwFilterCalSpec.
BwCalRefined == Abs!Spec

\* Every call of rt2800_bw_filter_calibration returns: the goto do_cal
\* loop stops at code 0x3f whatever the radio reads.
BwCalibrationEnds == pc # "idle" ~> pc = "idle"
====
