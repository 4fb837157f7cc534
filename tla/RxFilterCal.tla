----------------------------- MODULE RxFilterCal -----------------------------
(***************************************************************************)
(* What rt2800_rx_filter_calibration promises, as one atomic step: the    *)
(* RX baseband filter code for 20 and 40 MHz is the one the tone sweep    *)
(* settles on, the BBP 25/26 values are cached for channel switching, and *)
(* the registers the sweep borrowed are put back, except RFCSR 24 (left   *)
(* at the 40 MHz code) and RFCSR 31 (left in 40 MHz RX mode).             *)
(*                                                                         *)
(* The radio under calibration is fixed at Init from the CONSTANT Radios: *)
(* its chipset and the BBP 55 power readings of the passband tone and of  *)
(* the stopband tone after n steps of the filter code.  Register field    *)
(* positions are those of the rt2800 register header.                     *)
(***************************************************************************)
EXTENDS Integers

CONSTANTS
    Radios,   \* [chip, readyAt, pass, s0, slope]: chipset and tone readings
    RfcsrInit, \* possible contents of RFCSR 22, 24, 31 before the call
    BbpInit    \* possible contents of BBP 4, 24, 25, 26 before the call

ASSUME \A r \in Radios : r.readyAt \in Nat /\ r.pass \in 1..255
                        /\ r.s0 \in 0..255 /\ r.slope \in Nat

VARIABLES radio, rfcsr, bbp, cache

vars == <<radio, rfcsr, bbp, cache>>

GetF(w, lo, n) == (w \div 2^lo) % 2^n
SetF(w, lo, n, v) == w - GetF(w, lo, n) * 2^lo + v * 2^lo

RxPassTries == 100     \* the bound of the passband loop
RxStopTries == 100     \* the bound of the stopband loop

\* Start code of RFCSR 24 for each bandwidth.
RxFilterStart(bw40) == IF bw40 THEN \h27 ELSE \h07

\* Filter targets per bandwidth.
RxFilterTarget(bw40) ==
    IF radio.chip = "RT3070" THEN (IF bw40 THEN \h19 ELSE \h16)
                       ELSE (IF bw40 THEN \h15 ELSE \h13)

\* BBP 55 reads 0 until the passband tone is measured; the last read of the
\* passband loop is kept whether or not it was ready.
Passband == IF radio.readyAt < RxPassTries THEN radio.pass ELSE 0

\* BBP 55 for the stopband tone, n filter steps above the start code.
Stopband(n) == IF radio.s0 - radio.slope * n > 0 THEN radio.s0 - radio.slope * n ELSE 0

(***************************************************************************)
(* Reference result of one sweep: the first step whose rejection exceeds  *)
(* the target (or the loop bound), stepped back once if some earlier step *)
(* met the target exactly.                                                *)
(***************************************************************************)
SweepRef(bw40) ==
    LET tgt   == RxFilterTarget(bw40)
        Diff(n) == Passband - Stopband(n)
        above == {n \in 0..RxStopTries - 1 : Diff(n) > tgt}
        n0    == IF above = {} THEN RxStopTries
                 ELSE CHOOSE n \in above : \A m \in above : n <= m
        over  == \E n \in 0..n0 - 1 : Diff(n) = tgt
    IN (RxFilterStart(bw40) + n0 - (IF over THEN 1 ELSE 0)) % 256

Init ==
    /\ radio \in Radios
    /\ rfcsr \in RfcsrInit
    /\ bbp \in BbpInit
    /\ cache = [bw20 |-> 0, bw40 |-> 0, bbp25 |-> 0, bbp26 |-> 0]

\* One call of rt2800_rx_filter_calibration.
Calibrate ==
    /\ cache' = [bw20 |-> SweepRef(FALSE), bw40 |-> SweepRef(TRUE),
                 bbp25 |-> \h90, bbp26 |-> bbp[26]]
    /\ rfcsr' = [rfcsr EXCEPT ![24] = SweepRef(TRUE),
                              ![31] = SetF(@, 5, 1, 1),
                              ![22] = SetF(@, 0, 1, 0)]
    /\ bbp' = [bbp EXCEPT ![4] = SetF(@, 3, 2, 0), ![24] = 0, ![25] = \h90]
    /\ UNCHANGED radio

\* The RF init table of the chipset, outside a calibration, writes RF
\* registers the calibration borrows; the cache and the BBP stay.
RfcsrWrite ==
    /\ DOMAIN rfcsr' = DOMAIN rfcsr
    /\ \A r \in DOMAIN rfcsr : rfcsr'[r] \in 0..255
    /\ UNCHANGED <<radio, bbp, cache>>

Next == Calibrate \/ RfcsrWrite

Spec == Init /\ [][Next]_vars
====
