------------------------------ MODULE RfBringUp ------------------------------
(***************************************************************************)
(* Device bring-up from probe to an enabled radio.  The EEPROM manager    *)
(* settles the chipset (rt); rt2800_enable_radio then waits for the MAC,   *)
(* sends the MCU its boot signal, waits for the BBP to answer, and runs    *)
(* rt2800_init_rfcsr, which dispatches on the chipset: the RT30xx, RT3352, *)
(* RT3390 and RT3572 RF init runs rt2800_rx_filter_calibration, the RT6352 *)
(* one runs rt2800_bw_filter_calibration for TX and then for RX.  The      *)
(* enable ends with the MCU_CURRENT and LED mailbox requests.  The other  *)
(* register writes of the init routines are not modelled.                 *)
(*                                                                         *)
(* The calibration radio of a device is part of its hardware record:      *)
(* hw.rxTone for the RX sweep and hw.bwRadio for the RT6352 search.  The  *)
(* two calibrators keep their own copies of the registers they use: no    *)
(* chipset runs both.                                                     *)
(***************************************************************************)
EXTENDS EepromManager, TLC

CONSTANTS RfcsrInit, RxBbpInit, Rf5Init, BwBbpInit, DcocInit, MacInit,
          CharSigned, BusyCount

VARIABLES
    rfStage,   \* "none", "table" (RX chips: table written), "tx" (RT6352
               \* TX search called), "done"
    rxRadio, bwRadio,  \* the device's calibration radio, hw.rxTone / hw.bwRadio
    rxRfcsr, rxBbp, rxCache, rxPc, rxBw40, rxI, rfcsr24, passband,
    overtuned, rxEntry,
    rf5, bwBbp, dcoc, mac, bwCache, bwPc, btxcal, loop, agcFc, calInit,
    saved, entryCache,
    enPc,      \* the next statement of rt2800_enable_radio
    mailbox, hostCmd, cmdRaised, mcuPc, mcuReq, sent, dropped,
    chanVariant  \* the tuning procedure the last channel change ran

rxVars == <<rxRfcsr, rxBbp, rxCache, rxPc, rxBw40, rxI, rfcsr24, passband,
            overtuned, rxEntry>>
bwVars == <<rf5, bwBbp, dcoc, mac, bwCache, bwPc, btxcal, loop, agcFc,
            calInit, saved, entryCache>>
enVars == <<enPc, mailbox, hostCmd, cmdRaised, mcuPc, mcuReq, sent, dropped>>
allVars == <<vars, rfStage, rxRadio, bwRadio, rxVars, bwVars, enVars, chanVariant>>

Rx == INSTANCE RxFilterSweep
        WITH Radios <- {h.rxTone : h \in Hardware}, BbpInit <- RxBbpInit,
             radio <- rxRadio, rfcsr <- rxRfcsr, bbp <- rxBbp,
             cache <- rxCache, pc <- rxPc, bw40 <- rxBw40, i <- rxI,
             entry <- rxEntry

Bw == INSTANCE BwFilterCal
        WITH Radios <- {h.bwRadio : h \in Hardware}, BbpInit <- BwBbpInit,
             radio <- bwRadio, bbp <- bwBbp, cache <- bwCache, pc <- bwPc

Reg == INSTANCE RegisterAccess

Ch == INSTANCE ChannelDispatch

\* The chipsets whose RF init calls each calibration.
RxCalChips == {"RT3070", "RT3071", "RT3090", "RT3352", "RT3390", "RT3572"}
BwCalChips == {"RT6352"}

\* USB chipsets that rt2800_enable_radio sends MCU_CURRENT after the RF init.
McuCurrentChips == {"RT3070", "RT3071", "RT3572"}

\* The mailbox requests of rt2800_enable_radio (MCU_* of rt2800.h); an LED
\* request carries token 0xff and the low and high byte of its EEPROM word.
BootSignal == Reg!McuRequest("BOOT_SIGNAL", 0, 0, 0)
LedRequest(cmd, w) ==
    Reg!McuRequest(cmd, \hff, Rd(rt, img, w) % 256, Rd(rt, img, w) \div 256)

\* The statements after the RF init that call rt2800_mcu_request, each
\* with the one that follows it, and the request it makes.
McuStages ==
    [current |-> "ledAg", ledAg |-> "ledAct", ledAct |-> "ledPol",
     ledPol |-> "return"]
StageRequest ==
    [current |-> Reg!McuRequest("CURRENT", 0, 0, 0),
     ledAg   |-> LedRequest("LED_AG_CONF", "LED_AG_CONF"),
     ledAct  |-> LedRequest("LED_ACT_CONF", "LED_ACT_CONF"),
     ledPol  |-> LedRequest("LED_LED_POLARITY", "LED_POLARITY")]

EnPcs == {"off", "boot", "bbp", "rf", "return", "on", "failed"}
           \cup DOMAIN McuStages

BringUpInit ==
    /\ Init
    /\ rfStage = "none"
    /\ rxRadio = hw.rxTone /\ bwRadio = hw.bwRadio
    /\ Rx!Init
    /\ Bw!Init
    /\ enPc = "off"
    \* rt2800_load_firmware ended with MCU_BOOT_SIGNAL over USB; the MCU
    \* may not have taken it yet.
    /\ hostCmd = "BOOT_SIGNAL"
    /\ cmdRaised \in BOOLEAN
    /\ mailbox = [Reg!MailboxCleared EXCEPT !.owner = IF cmdRaised THEN 1 ELSE 0]
    /\ mcuPc = "idle" /\ mcuReq = BootSignal
    /\ sent = <<>> /\ dropped = <<>>
    /\ chanVariant = "none"

(***************************************************************************)
(* rt2800_enable_radio.  rt2800_wait_wpdma_ready, rt2800_init_registers    *)
(* (whose bus hook may fail) and rt2800_wait_bbp_rf_ready poll MAC         *)
(* registers; any of them failing returns -EIO.                            *)
(***************************************************************************)
EnableMacWaits ==
    /\ phase = "ready" /\ enPc = "off"
    /\ \E ok \in BOOLEAN : enPc' = IF ok THEN "boot" ELSE "failed"
    /\ UNCHANGED <<mailbox, hostCmd, cmdRaised, mcuPc, mcuReq, sent, dropped>>

\* Mutant: the boot signal is requested without clearing the mailbox first.
EnableBootSignalKeepsMailbox ==
    /\ enPc = "boot"
    /\ Reg!McuCall(BootSignal)
    /\ enPc' = "bbp"
    /\ UNCHANGED <<mailbox, hostCmd, cmdRaised, sent, dropped>>

\* H2M_BBP_AGENT and H2M_MAILBOX_CSR cleared (H2M_INT_SRC too, on USB),
\* then rt2800_mcu_request(MCU_BOOT_SIGNAL).
EnableBootSignal ==
    /\ enPc = "boot"
    /\ mailbox' = Reg!MailboxCleared
    /\ Reg!McuCall(BootSignal)
    /\ enPc' = "bbp"
    /\ UNCHANGED <<hostCmd, cmdRaised, sent, dropped>>

\* msleep(1), then rt2800_wait_bbp_ready: it clears H2M_BBP_AGENT and
\* H2M_MAILBOX_CSR again and polls BBP 0; a failure returns -EIO.
EnableWaitBbp ==
    /\ enPc = "bbp" /\ mcuPc = "idle"
    /\ mailbox' = Reg!MailboxCleared
    /\ enPc' = IF Reg!rt2800_wait_bbp_ready(hw.bbp0) THEN "rf" ELSE "failed"
    /\ UNCHANGED <<hostCmd, cmdRaised, mcuPc, mcuReq, sent, dropped>>

\* rt2800_init_bbp (not modelled), then rt2800_init_rfcsr has returned:
\* every calibration it called is done.
EnableRfDone ==
    /\ enPc = "rf"
    /\ rt \in RxCalChips \cup BwCalChips => rfStage = "done"
    /\ rxPc = "idle" /\ bwPc = "idle"
    /\ enPc' = "current"
    /\ UNCHANGED <<mailbox, hostCmd, cmdRaised, mcuPc, mcuReq, sent, dropped>>

\* MCU_CURRENT (USB RT3070, RT3071, RT3572 only), the TX/RX enables (not
\* modelled), then the three LED requests, each after the previous returned.
EnableMcuStep ==
    /\ enPc \in DOMAIN McuStages /\ mcuPc = "idle"
    /\ enPc' = McuStages[enPc]
    /\ IF enPc = "current" /\ rt \notin McuCurrentChips
       THEN UNCHANGED <<mcuPc, mcuReq>>
       ELSE Reg!McuCall(StageRequest[enPc])
    /\ UNCHANGED <<mailbox, hostCmd, cmdRaised, sent, dropped>>

\* The last request has returned: rt2800_enable_radio returns 0.
EnableReturn ==
    /\ enPc = "return" /\ mcuPc = "idle"
    /\ enPc' = "on"
    /\ UNCHANGED <<mailbox, hostCmd, cmdRaised, mcuPc, mcuReq, sent, dropped>>

(***************************************************************************)
(* The writes of rt2800_init_rfcsr_30xx, _3352, _3390 and _3572 ahead of   *)
(* their rt2800_rx_filter_calibration call to the registers the sweep     *)
(* borrows.  RFCSR 22 is left alone by the 30xx table, RFCSR 31 by the    *)
(* RT3070 branch; those keep their contents from before the RF init.      *)
(***************************************************************************)
rt2800_init_rfcsr_30xx(chip) ==
    IF chip \in {"RT3071", "RT3090"} THEN (24 :> \h16) @@ (31 :> \h14)
                                     ELSE 24 :> \h16
rt2800_init_rfcsr_3352 == (22 :> \h00) @@ (24 :> \h00) @@ (31 :> \h80)
rt2800_init_rfcsr_3390 == (22 :> \h00) @@ (24 :> \h08) @@ (31 :> \h0f)
rt2800_init_rfcsr_3572 == (22 :> \h00) @@ (24 :> \h16) @@ (31 :> \h10)

\* The chipset switch of rt2800_init_rfcsr.
RfTableWrites(chip) ==
    CASE chip \in {"RT3070", "RT3071", "RT3090"} -> rt2800_init_rfcsr_30xx(chip)
      [] chip = "RT3352" -> rt2800_init_rfcsr_3352
      [] chip = "RT3390" -> rt2800_init_rfcsr_3390
      [] chip = "RT3572" -> rt2800_init_rfcsr_3572

\* rt2800_init_rfcsr on an RX-sweep chipset, up to the calibration call.
InitRfcsrTable ==
    /\ enPc = "rf" /\ rt \in RxCalChips /\ rfStage = "none"
    /\ rxRfcsr' = RfTableWrites(rt) @@ rxRfcsr
    /\ rfStage' = "table"
    /\ UNCHANGED <<vars, rxRadio, bwRadio, rxBbp, rxCache, rxPc, rxBw40, rxI,
                   rfcsr24, passband, overtuned, rxEntry, bwVars, enVars>>

\* Its rt2800_rx_filter_calibration call.
InitRfcsrRx ==
    /\ enPc = "rf" /\ rt \in RxCalChips /\ rfStage = "table"
    /\ Rx!rt2800_rx_filter_calibration
    /\ rfStage' = "done"
    /\ UNCHANGED <<vars, bwRadio, bwVars, enVars>>

\* rt2800_init_rfcsr_6352: the TX search, then the RX search.
InitRfcsr6352 ==
    /\ enPc = "rf" /\ rt \in BwCalChips /\ bwPc = "idle"
    /\ \/ rfStage = "none" /\ btxcal' = TRUE /\ rfStage' = "tx"
       \/ rfStage = "tx" /\ btxcal' = FALSE /\ rfStage' = "done"
    /\ Bw!rt2800_bw_filter_calibration
    /\ UNCHANGED <<vars, rxRadio, rxVars, enVars>>

RxRun ==
    /\ \/ Rx!rt2800_init_rx_filter \/ Rx!RxStopbandStep
       \/ Rx!RxStopbandExhausted \/ Rx!RxFilterReturn
    /\ UNCHANGED <<vars, rfStage, bwRadio, bwVars, enVars>>

BwRun ==
    /\ Bw!BwLoopSetup \/ Bw!BwDoCal \/ Bw!BwStore \/ Bw!BwRestore
    /\ UNCHANGED <<vars, rfStage, rxRadio, rxVars, enVars>>

\* The enable path once it has started.
EnableRun ==
    /\ \/ EnableBootSignal \/ EnableWaitBbp \/ EnableRfDone
       \/ EnableMcuStep \/ EnableReturn
    /\ UNCHANGED <<vars, rfStage, rxRadio, bwRadio, rxVars, bwVars>>

\* The driver's half of rt2800_mcu_request, and the MCU firmware.
McuDriver ==
    /\ Reg!McuWait \/ Reg!McuHostCmd
    /\ UNCHANGED <<vars, rfStage, rxRadio, bwRadio, rxVars, bwVars, enPc>>
McuFirmware ==
    /\ Reg!McuTake
    /\ UNCHANGED <<vars, rfStage, rxRadio, bwRadio, rxVars, bwVars, enPc>>

(***************************************************************************)
(* rt2800_config_channel on the enabled radio: the RF type the EEPROM      *)
(* manager stored picks the synthesizer procedure (lines 7034-7076).       *)
(***************************************************************************)
ConfigChannel ==
    /\ enPc = "on"
    /\ chanVariant' = Ch!rt2800_config_channel_rf(rf)
    /\ UNCHANGED <<vars, rfStage, rxRadio, bwRadio, rxVars, bwVars, enVars>>

BringUpNext ==
    \/ /\ \/ Next /\ UNCHANGED <<rfStage, rxRadio, bwRadio, rxVars, bwVars, enVars>>
          \/ EnableMacWaits /\ UNCHANGED <<vars, rfStage, rxRadio, bwRadio, rxVars, bwVars>>
          \/ EnableRun
          \/ InitRfcsrTable
          \/ InitRfcsrRx
          \/ InitRfcsr6352
          \/ RxRun
          \/ BwRun
          \/ McuDriver
          \/ McuFirmware
       /\ UNCHANGED chanVariant
    \/ ConfigChannel

(***************************************************************************)
(* Once the bus driver has called rt2800_enable_radio, the call runs to    *)
(* its end in one thread; the MCU firmware gets no fairness, its speed is  *)
(* what the WAIT_FOR_MCU timeouts are about.                               *)
(***************************************************************************)
BringUpSpec ==
    /\ BringUpInit /\ [][BringUpNext]_allVars
    /\ WF_allVars(EnableRun /\ UNCHANGED chanVariant)
    /\ WF_allVars(McuDriver /\ UNCHANGED chanVariant)
    /\ WF_allVars(InitRfcsrTable /\ UNCHANGED chanVariant)
    /\ WF_allVars(InitRfcsrRx /\ UNCHANGED chanVariant)
    /\ WF_allVars(InitRfcsr6352 /\ UNCHANGED chanVariant)
    /\ Rx!Fairness /\ Bw!Fairness
-----------------------------------------------------------------------------
\* The RX sweep of rt2800_init_rx_filter, run on the chipset the EEPROM
\* manager settled on, implements the atomic calibration of RxFilterCal.
RxCalRefined == Rx!RxCalRefined

\* The corner-code search of rt2800_bw_filter_calibration, called for TX
\* and then RX by rt2800_init_rfcsr_6352, implements BwFilterCalSpec.
BwCalRefined == Bw!BwCalRefined

(***************************************************************************)
(* rt2800_init_rfcsr, and so the filter calibrations, run only on a device *)
(* whose MCU was handed the enable's boot signal and whose BBP gave a real *)
(* answer: a BBP whose busy bit never clears reads as the 0xff sentinel,   *)
(* one still asleep reads 0x00, and the boot signal is not dropped by      *)
(* WAIT_FOR_MCU even when the loader's own boot signal is still untaken.   *)
(***************************************************************************)
RfInitAfterBootAndBbp ==
    rfStage # "none" =>
        /\ ~hw.bbp0.stuck /\ hw.bbp0.readyAt < BusyCount
        /\ \E i \in 1 .. Len(sent) : sent[i] = BootSignal

(***************************************************************************)
(* Every call of rt2800_enable_radio returns, 0 or -EIO: the RF init's     *)
(* calibration loops are bounded, and every mailbox request either gets    *)
(* the mailbox or gives up after its budget, however slow the MCU is.      *)
(***************************************************************************)
EnableReturns == enPc \notin {"off", "on", "failed"} ~> enPc \in {"on", "failed"}
====
