---------------------------- MODULE RxFilterSweep ----------------------------
(***************************************************************************)
(* rt2800_rx_filter_calibration as the driver runs it: two calls of       *)
(* rt2800_init_rx_filter (20 MHz, then 40 MHz), each a setup step with    *)
(* the passband loop, one step per stopband iteration and a return step;  *)
(* the last return also caches BBP 25/26 and puts the borrowed registers  *)
(* back.  `entry' records the registers at the call, so that the sweep    *)
(* can be shown to implement the atomic step of RxFilterCal.              *)
(***************************************************************************)
EXTENDS Integers

CONSTANTS Radios, RfcsrInit, BbpInit

VARIABLES
    radio, rfcsr, bbp, cache,
    pc,         \* "idle", "setup", "stop" or "return"
    bw40,       \* which of the two rt2800_init_rx_filter calls runs
    i,          \* stopband loop counter
    rfcsr24,    \* the local filter code
    passband,   \* the passband reading
    overtuned,  \* how many steps met the target exactly
    entry       \* history: registers and cache when the call began

vars == <<radio, rfcsr, bbp, cache, pc, bw40, i, rfcsr24, passband,
          overtuned, entry>>

\* The radio and the tone readings are those of the abstract module.
Hw == INSTANCE RxFilterCal

Init ==
    /\ Hw!Init
    /\ pc = "idle"
    /\ bw40 = FALSE
    /\ i = 0 /\ rfcsr24 = 0 /\ passband = 0 /\ overtuned = 0
    /\ entry = [rfcsr |-> rfcsr, bbp |-> bbp, cache |-> cache]

\* The radio is enabled and rt2800_rx_filter_calibration is called.
rt2800_rx_filter_calibration ==
    /\ pc = "idle"
    /\ pc' = "setup"
    /\ bw40' = FALSE
    /\ entry' = [rfcsr |-> rfcsr, bbp |-> bbp, cache |-> cache]
    /\ UNCHANGED <<radio, rfcsr, bbp, cache, i, rfcsr24, passband, overtuned>>

\* rt2800_init_rx_filter up to the stopband loop: RFCSR 24 at the start
\* code, BBP 4 and RFCSR 31 at the bandwidth, baseband loopback on, the
\* passband tone measured, then the stopband tone selected.
rt2800_init_rx_filter ==
    /\ pc = "setup"
    /\ rfcsr24' = Hw!RxFilterStart(bw40)
    /\ rfcsr' = [rfcsr EXCEPT ![24] = Hw!RxFilterStart(bw40),
                              ![31] = Hw!SetF(@, 5, 1, IF bw40 THEN 1 ELSE 0),
                              ![22] = Hw!SetF(@, 0, 1, 1)]
    /\ bbp' = [bbp EXCEPT ![4] = Hw!SetF(@, 3, 2, IF bw40 THEN 2 ELSE 0),
                          ![25] = \h90, ![24] = \h06]
    /\ passband' = Hw!Passband
    /\ overtuned' = 0
    /\ i' = 0
    /\ pc' = "stop"
    /\ UNCHANGED <<radio, cache, bw40, entry>>

\* The loop bound is reached without a break.
\* One stopband iteration: step the code while the rejection is at most
\* the target, counting exact hits; otherwise break.
RxStopbandStep ==
    LET diff == passband - Hw!Stopband(i)
    IN /\ pc = "stop"
       /\ i < Hw!RxStopTries
       /\ bbp' = [bbp EXCEPT ![25] = \h90]
       /\ \/ /\ diff <= Hw!RxFilterTarget(bw40)
             /\ rfcsr24' = (rfcsr24 + 1) % 256
             /\ overtuned' = (overtuned + (IF diff = Hw!RxFilterTarget(bw40)
                                           THEN 1 ELSE 0)) % 256
             /\ rfcsr' = [rfcsr EXCEPT ![24] = (rfcsr24 + 1) % 256]
             /\ i' = i + 1
             /\ pc' = "stop"
          \/ /\ diff > Hw!RxFilterTarget(bw40)
             /\ pc' = "return"
             /\ UNCHANGED <<rfcsr24, overtuned, rfcsr, i>>
       /\ UNCHANGED <<radio, cache, bw40, passband, entry>>

\* The loop bound is reached without a break.
RxStopbandExhausted ==
    /\ pc = "stop"
    /\ i = Hw!RxStopTries
    /\ pc' = "return"
    /\ UNCHANGED <<radio, rfcsr, bbp, cache, bw40, i, rfcsr24, passband,
                   overtuned, entry>>

\* Mutant: rfcsr24 -= overtuned, without the !!.
RxFilterReturnFullStepBack ==
    LET code == (rfcsr24 - overtuned) % 256
        regs == [rfcsr EXCEPT ![24] = code]
    IN /\ pc = "return"
       /\ \/ /\ ~bw40
             /\ cache' = [cache EXCEPT !.bw20 = code]
             /\ rfcsr' = regs
             /\ bw40' = TRUE
             /\ pc' = "setup"
             /\ UNCHANGED bbp
          \/ /\ bw40
             /\ cache' = [cache EXCEPT !.bw40 = code, !.bbp25 = bbp[25],
                                       !.bbp26 = bbp[26]]
             /\ rfcsr' = [regs EXCEPT ![22] = Hw!SetF(@, 0, 1, 0)]
             /\ bbp' = [bbp EXCEPT ![24] = 0, ![4] = Hw!SetF(@, 3, 2, 0)]
             /\ pc' = "idle"
             /\ UNCHANGED bw40
       /\ rfcsr24' = code
       /\ UNCHANGED <<radio, i, passband, overtuned, entry>>

\* The return of rt2800_init_rx_filter: step back once if overtuned.  After
\* the 20 MHz call the 40 MHz one follows; after that the caller caches the
\* results and BBP 25/26, clears BBP 24 and the loopback, and sets BBP 4
\* back to 20 MHz.
RxFilterReturn ==
    LET code == (rfcsr24 - (IF overtuned # 0 THEN 1 ELSE 0)) % 256
        regs == [rfcsr EXCEPT ![24] = code]
    IN /\ pc = "return"
       /\ \/ /\ ~bw40
             /\ cache' = [cache EXCEPT !.bw20 = code]
             /\ rfcsr' = regs
             /\ bw40' = TRUE
             /\ pc' = "setup"
             /\ UNCHANGED bbp
          \/ /\ bw40
             /\ cache' = [cache EXCEPT !.bw40 = code, !.bbp25 = bbp[25],
                                       !.bbp26 = bbp[26]]
             /\ rfcsr' = [regs EXCEPT ![22] = Hw!SetF(@, 0, 1, 0)]
             /\ bbp' = [bbp EXCEPT ![24] = 0, ![4] = Hw!SetF(@, 3, 2, 0)]
             /\ pc' = "idle"
             /\ UNCHANGED bw40
       /\ rfcsr24' = code
       /\ UNCHANGED <<radio, i, passband, overtuned, entry>>

Next ==
    \/ rt2800_rx_filter_calibration
    \/ rt2800_init_rx_filter
    \/ RxStopbandStep
    \/ RxStopbandExhausted
    \/ RxFilterReturn

\* The calibration runs in the enable path of one thread and sleeps
\* between register accesses; nothing else stops it once called.
Fairness ==
    /\ WF_vars(rt2800_init_rx_filter)
    /\ WF_vars(RxStopbandStep \/ RxStopbandExhausted)
    /\ WF_vars(RxFilterReturn)

Spec == Init /\ [][Next]_vars /\ Fairness

-----------------------------------------------------------------------------
TypeOK ==
    /\ pc \in {"idle", "setup", "stop", "return"}
    /\ bw40 \in BOOLEAN
    /\ i \in 0..Hw!RxStopTries
    /\ rfcsr24 \in 0..255 /\ passband \in 0..255
    /\ overtuned \in 0..Hw!RxStopTries
    /\ \A r \in DOMAIN rfcsr : rfcsr[r] \in 0..255
    /\ \A r \in DOMAIN bbp : bbp[r] \in 0..255

\* While a call runs, the abstract state is the one the call began in; the
\* return of the 40 MHz sweep is the abstract step.
Abs == INSTANCE RxFilterCal
         WITH rfcsr <- IF pc = "idle" THEN rfcsr ELSE entry.rfcsr,
              bbp   <- IF pc = "idle" THEN bbp ELSE entry.bbp,
              cache <- IF pc = "idle" THEN cache ELSE entry.cache

\* The stepwise sweeps of rt2800_init_rx_filter, with their break, loop
\* bound and overtune step-back, and the restore in
\* rt2800_rx_filter_calibration, together leave the calibration cache and
\* the RF/BBP registers exactly as the atomic calibration of RxFilterCal.
RxCalRefined == Abs!Spec

\* Every call of rt2800_rx_filter_calibration returns, whatever the radio
\* reads: both loops of rt2800_init_rx_filter are bounded.
RxCalibrationEnds == pc # "idle" ~> pc = "idle"
====
