--------------------------- MODULE BwFilterCalSpec ---------------------------
(***************************************************************************)
(* What rt2800_bw_filter_calibration (RT6352) promises, as one atomic     *)
(* step per call: the TX or RX filter corner codes for 20 and 40 MHz are  *)
(* the smallest code whose measured attenuation exceeds the target (63 if *)
(* only the last code meets it, 0 if none does), every RF bank-5, BBP,    *)
(* DCOC and MAC register it borrows is back at its value at the call, and *)
(* BBP 4 is at the bandwidth of the configured channel.                   *)
(*                                                                         *)
(* The radio is fixed at Init from the CONSTANT Radios.  Its low-pass     *)
(* calibration readings are signed 7-bit values: `init' with the filter   *)
(* bypassed, `base - slope * fc' (not below -64) at corner code fc.       *)
(***************************************************************************)
EXTENDS Integers

CONSTANTS
    Radios,     \* [tx, rx: [init, base, slope], ht40: BOOLEAN]
    Rf5Init,    \* possible contents of the bank-5 registers at the call
    BbpInit,    \* possible contents of BBP 4, 21, 23
    DcocInit,   \* possible contents of DCOC 0 and 2
    MacInit     \* possible contents of RF_CONTROL0 and RF_BYPASS0

VARIABLES radio, rf5, bbp, dcoc, mac, cache

vars == <<radio, rf5, bbp, dcoc, mac, cache>>

GetF(w, lo, n) == (w \div 2^lo) % 2^n
SetF(w, lo, n, v) == w - GetF(w, lo, n) * 2^lo + v * 2^lo

MaxAgcFc == \h3f     \* the largest corner code the search tries

\* Filter targets of the four searches.
BwFilterTarget(btxcal, ht40) ==
    IF btxcal THEN (IF ht40 THEN \h02 ELSE \h09)
              ELSE (IF ht40 THEN \h31 ELSE \h27)

\* The measurement model of the radio for one path.
Path(btxcal) == IF btxcal THEN radio.tx ELSE radio.rx
Reading(btxcal, fc) ==
    LET v == Path(btxcal).base - Path(btxcal).slope * fc
    IN IF v < -64 THEN -64 ELSE v
Attenuation(btxcal, fc) == Path(btxcal).init - Reading(btxcal, fc)

\* Reference result of one search.
BwRef(btxcal, ht40) ==
    LET tgt   == BwFilterTarget(btxcal, ht40)
        above == {fc \in 0..MaxAgcFc : Attenuation(btxcal, fc) > tgt}
    IN IF above # {} THEN CHOOSE fc \in above : \A g \in above : fc <= g
       ELSE IF Attenuation(btxcal, MaxAgcFc) = tgt THEN MaxAgcFc ELSE 0

Init ==
    /\ radio \in Radios
    /\ rf5 \in Rf5Init
    /\ bbp \in BbpInit
    /\ dcoc \in DcocInit
    /\ mac \in MacInit
    /\ cache = [tx20 |-> 0, tx40 |-> 0, rx20 |-> 0, rx40 |-> 0]

\* One call of rt2800_bw_filter_calibration(btxcal).
Calibrate(btxcal) ==
    /\ cache' = IF btxcal
                THEN [cache EXCEPT !.tx20 = BwRef(TRUE, FALSE), !.tx40 = BwRef(TRUE, TRUE)]
                ELSE [cache EXCEPT !.rx20 = BwRef(FALSE, FALSE), !.rx40 = BwRef(FALSE, TRUE)]
    /\ bbp' = [bbp EXCEPT ![4] = SetF(@, 3, 2, IF radio.ht40 THEN 2 ELSE 0),
                          ![21] = SetF(@, 0, 1, 0)]
    /\ UNCHANGED <<radio, rf5, dcoc, mac>>

Next == \E b \in BOOLEAN : Calibrate(b)

Spec == Init /\ [][Next]_vars
====
