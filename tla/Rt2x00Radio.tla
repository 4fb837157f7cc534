---------------------------- MODULE Rt2x00Radio ----------------------------
(***************************************************************************)
(* The radio of one device handle, as the scheduler drives it through the  *)
(* exported entry points of rt2800lib.c:                                   *)
(*                                                                         *)
(*   rt2x00lib_start / rt2x00lib_stop             (DEVICE_STATE_STARTED)   *)
(*   rt2x00lib_enable_radio / _disable_radio      (DEVICE_STATE_ENABLED_  *)
(*       -> rt2800_enable_radio / rt2800_disable_radio        RADIO)       *)
(*   rt2x00lib_config (channel, power save) -> rt2800_config               *)
(*   rt2x00lib_config_antenna           -> rt2x00link_reset_tuner          *)
(*   rt2800_link_tuner (periodic, called by the link-tuning scheduler)     *)
(*   rt2800_vco_calibration (periodic VCO recalibration)                   *)
(*                                                                         *)
(* Calls are serialised (spec section 5): every entry point is one atomic  *)
(* action.  The hardware is reduced to what the properties tell apart:    *)
(* the TX/RX enable bits of MAC_SYS_CTRL, the DMA enable bits of           *)
(* WPDMA_GLO_CFG, the receiver gain register BBP 66, the PA and LNA       *)
(* enables of TX_PIN_CFG and the AUTOWAKE bit of AUTOWAKEUP_CFG.  A        *)
(* busy-wait that                                                          *)
(* times out inside rt2800_enable_radio is a nondeterministic choice of    *)
(* the step at which the sequence aborts.                                  *)
(***************************************************************************)
EXTENDS Integers, LinkTuner

CONSTANTS
    Chips,      \* chip identities the device may have been probed as;
                \* records [rt, rev2860C, rf]
    HwChannels, \* spec->channels: the channel number of each hw_value
    Confs,      \* conf->chandef values the caller may pass:
                \* [chan |-> primary channel, width |-> Widths]
    Rssis,      \* RSSI values (dBm) the link-tuning scheduler may report
    Eeproms,    \* EEPROM fields as rt2800_validate_eeprom and
                \* rt2800_init_eeprom leave them: the LNA gains, the
                \* chain counts tx and rx of default_ant, and btCoexist
    TxPinResets \* the values TX_PIN_CFG may hold at power-on

Ch == INSTANCE ChannelDispatch

VARIABLES
    chip,          \* rt2x00dev->chip, fixed by probe
    eeprom,        \* the LNA fields of the EEPROM image, fixed by probe
    started,       \* DEVICE_STATE_STARTED
    enabledRadio,  \* DEVICE_STATE_ENABLED_RADIO
    macTx, macRx,  \* MAC_SYS_CTRL_ENABLE_TX / _RX
    dma,           \* WPDMA_GLO_CFG_ENABLE_TX_DMA and _RX_DMA (set together)
    band,          \* rt2x00dev->curr_band
    ht40,          \* CONFIG_CHANNEL_HT40 in rt2x00dev->flags
    lnaGain,       \* rt2x00dev->lna_gain
    bbp66,         \* the hardware BBP 66 (receiver VGC) register
    vgcLevel,      \* link.qual.vgc_level, the tuner's write-suppression cache
    vgcLevelReg,   \* link.qual.vgc_level_reg
    rfChannel,     \* rt2x00dev->rf_channel, the channel the synthesizer is on
    txPin,         \* the enables of TX_PIN_CFG that are set (pin records)
    autowake,      \* AUTOWAKEUP_CFG_AUTOWAKE
    lastCall       \* auxiliary: the entry point the last step called

driverVars == <<chip, eeprom, started, enabledRadio, macTx, macRx, dma, band, ht40,
                lnaGain, bbp66, vgcLevel, vgcLevelReg, rfChannel, txPin, autowake>>
vars == <<driverVars, lastCall>>

hw == <<macTx, macRx, dma>>
qual == <<vgcLevel, vgcLevelReg>>
chan == <<band, ht40, lnaGain, rfChannel, txPin, autowake>>

(***************************************************************************)
(* The steps of rt2800_enable_radio that can time out, in the order they   *)
(* run: rt2800_wait_wpdma_ready, the bus driver's init_registers hook      *)
(* inside rt2800_init_registers, rt2800_wait_bbp_rf_ready and              *)
(* rt2800_wait_bbp_ready.  "none" is a bring-up that completes.            *)
(***************************************************************************)
EnableFailures == {"wpdma", "drvInit", "bbpRf", "bbp", "none"}

Init ==
    /\ chip \in Chips
    /\ eeprom \in Eeproms
    /\ started = FALSE
    /\ enabledRadio = FALSE
    \* rt2800_load_firmware leaves DMA disabled; the MAC is not enabled
    /\ macTx = FALSE /\ macRx = FALSE /\ dma = FALSE
    /\ band = "2GHZ"               \* curr_band of a zeroed rt2x00_dev
    /\ ht40 = FALSE
    /\ lnaGain = 0
    \* power-on value; nothing reads BBP 66 before rt2800_init_bbp writes it
    /\ bbp66 = 0
    /\ vgcLevel = 0 /\ vgcLevelReg = 0   \* link.qual of a zeroed rt2x00_dev
    /\ rfChannel = 0
    /\ txPin \in TxPinResets
    \* rt2800_load_firmware clears AUTOWAKEUP_CFG before the radio is used
    /\ autowake = FALSE
    /\ lastCall = [op |-> "probe", rssi |-> 0]

\* The MAC_SYS_CTRL TX/RX enables and the WPDMA_GLO_CFG DMA enables.
SetMac(tx, rx, d) == macTx' = tx /\ macRx' = rx /\ dma' = d

(***************************************************************************)
(* rt2800_set_vgc: write BBP 66 (through the RX-chain helper on some       *)
(* chips) only when the level differs from the one cached in               *)
(* qual->vgc_level; a write refreshes vgc_level and vgc_level_reg.  It     *)
(* returns the new BBP 66 and the new link_qual fields.                    *)
(***************************************************************************)
rt2800_set_vgc(cachedLevel, cachedReg, hwLevel, level) ==
    IF cachedLevel # level
    THEN [bbp |-> level, level |-> level, reg |-> level]
    ELSE [bbp |-> hwLevel, level |-> cachedLevel, reg |-> cachedReg]

\* rt2800_enable_radio, aborting at `fail` (the first failing wait), as
\* the bus driver's STATE_RADIO_ON handler runs it.
rt2800_enable_radio(fail) ==
    /\ IF fail = "wpdma" THEN UNCHANGED hw
       ELSE IF fail = "drvInit"
            \* rt2800_init_registers: rt2800_disable_wpdma, then the hook fails
            THEN /\ dma' = FALSE
                 /\ UNCHANGED <<macTx, macRx>>
            ELSE IF fail \in {"bbpRf", "bbp"}
            \* rt2800_init_registers ran: DMA off, MAC_SYS_CTRL = 0
            THEN SetMac(FALSE, FALSE, FALSE)
            \* TX, then TX+RX DMA, then TX+RX in MAC_SYS_CTRL
            ELSE SetMac(TRUE, TRUE, TRUE)
    \* rt2800_init_bbp runs only after the last wait succeeded
    /\ bbp66' = IF fail = "none" THEN InitBbp66(chip) ELSE bbp66

\* rt2800_disable_radio: rt2800_disable_wpdma, wait (error ignored), MAC off.
rt2800_disable_radio == SetMac(FALSE, FALSE, FALSE)

\* Mutant: the flag is set without testing the STATE_RADIO_ON status.
EnableRadioIgnoresStatus(fail) ==
    /\ ~enabledRadio
    /\ rt2800_enable_radio(fail)
    /\ enabledRadio' = TRUE

\* rt2x00lib_enable_radio: a no-op when already enabled; the flag is set
\* only when STATE_RADIO_ON succeeded.
EnableRadio(fail) ==
    /\ ~enabledRadio
    /\ rt2800_enable_radio(fail)
    /\ enabledRadio' = (fail = "none")

rt2x00lib_enable_radio ==
    \/ /\ enabledRadio
       /\ UNCHANGED driverVars
    \/ \E fail \in EnableFailures :
          /\ EnableRadio(fail)
          /\ UNCHANGED <<chip, eeprom, started, chan, qual>>

\* rt2x00lib_disable_radio: test_and_clear_bit, then STATE_RADIO_OFF.
DisableRadio ==
    /\ enabledRadio
    /\ enabledRadio' = FALSE
    /\ rt2800_disable_radio

rt2x00lib_disable_radio ==
    \/ /\ ~enabledRadio
       /\ UNCHANGED driverVars
    \/ /\ DisableRadio
       /\ UNCHANGED <<chip, eeprom, started, chan, bbp66, qual>>

\* rt2x00lib_start: a no-op when started; STARTED is set only when the
\* radio was enabled (or already was).
rt2x00lib_start ==
    /\ ~started
    /\ \/ /\ enabledRadio
          /\ started' = TRUE
          /\ UNCHANGED <<enabledRadio, hw, bbp66>>
       \/ \E fail \in EnableFailures :
             /\ EnableRadio(fail)
             /\ started' = (fail = "none")
    /\ UNCHANGED <<chip, eeprom, chan, qual>>

\* rt2x00lib_stop: test_and_clear_bit(STARTED), then disable the radio.
rt2x00lib_stop ==
    /\ started
    /\ started' = FALSE
    /\ \/ DisableRadio
       \/ /\ ~enabledRadio
          /\ UNCHANGED <<enabledRadio, hw>>
    /\ UNCHANGED <<chip, eeprom, chan, bbp66, qual>>

(***************************************************************************)
(* TX_PIN_CFG as the set of its one-bit enables that are set.  A PA or LNA *)
(* enable is per band ("A" 5 GHz, "G" 2.4 GHz) and chain 0..2; RFRX, RFTR  *)
(* and TRSW are single switches.                                           *)
(***************************************************************************)
Pin(kind, b, i) == [kind |-> kind, band |-> b, idx |-> i]
Switch(kind) == Pin(kind, "-", 0)
AllPins ==
    {Pin(k, b, i) : k \in {"PA", "LNA"}, b \in {"A", "G"}, i \in 0..2}
        \cup {Switch("RFRX"), Switch("RFTR"), Switch("TRSW")}
PaPins == {p \in AllPins : p.kind = "PA"}

\* The band letter of a channel as the rf->channel > 14 tests pick it.
PinBand(ch) == IF ch > 14 THEN "A" ELSE "G"

\* The chains a fall-through "case 3: case 2: case 1:" switch on a chain
\* count sets; a count outside 1..3 matches no case.
SwitchChains(n) == IF n \in 1..3 THEN 0..(n - 1) ELSE {}

(***************************************************************************)
(* The TX_PIN_CFG write of rt2800_config_channel for synthesizer channel   *)
(* ch: start from 0 (RT6352: from the register, with RFRX set), set the    *)
(* PA enables of the tx chains and the LNA enables of the rx chains to the *)
(* band of ch (PA G0 stays on with Bluetooth coexistence), then RFTR and   *)
(* TRSW.                                                                   *)
(***************************************************************************)
ChannelTxPin(ch) ==
    LET base    == IF chip.rt = "RT6352" THEN txPin \cup {Switch("RFRX")} ELSE {}
        touched == {Pin("PA", b, i) : b \in {"A", "G"}, i \in SwitchChains(eeprom.tx)}
                     \cup {Pin("LNA", b, i) : b \in {"A", "G"}, i \in SwitchChains(eeprom.rx)}
        on(p)   == \/ p.band = PinBand(ch)
                   \/ p = Pin("PA", "G", 0) /\ eeprom.btCoexist
    IN  (base \ touched) \cup {p \in touched : on(p)}
            \cup {Switch("RFTR"), Switch("TRSW")}

\* conf->chandef widths: no HT, HT20, HT40 with the secondary above or below.
Widths == {"noht", "ht20", "ht40plus", "ht40minus"}
IsHt40(conf) == conf.width \in {"ht40plus", "ht40minus"}

\* conf->chandef.chan->hw_value: the index of a channel in spec->channels.
HwValue(ch) == CHOOSE i \in DOMAIN HwChannels : HwChannels[i] = ch

(***************************************************************************)
(* rt2x00ht_center_channel: the index of the 40 MHz centre, two channels   *)
(* above or below the primary (one below channel 14), or, when the table   *)
(* lacks it, WARN_ON and the primary's own index.                          *)
(***************************************************************************)
rt2x00ht_center_channel(conf) ==
    LET c    == CASE conf.width = "ht40plus"  -> conf.chan + 2
                  [] conf.width = "ht40minus" ->
                        conf.chan - (IF conf.chan = 14 THEN 1 ELSE 2)
                  [] OTHER                    -> conf.chan
        hits == {i \in DOMAIN HwChannels : HwChannels[i] = c}
    IN  IF hits = {} THEN HwValue(conf.chan)
        ELSE CHOOSE i \in hits : \A j \in hits : i <= j

\* rt2800_config_ps: the AUTOWAKE bit of AUTOWAKEUP_CFG, set for sleep
\* (IEEE80211_CONF_PS) and cleared for awake; the wake-up timing fields and
\* the bus driver's set_device_state are not modelled.
rt2800_config_ps(ps) == ps

(***************************************************************************)
(* rt2800_config(libconf, flags), libconf.rf.channel being rfch: always    *)
(* recompute the LNA gain from rfch; with IEEE80211_CONF_CHANGE_CHANNEL    *)
(* rt2800_config_channel writes BBP 66 on some chips and TX_PIN_CFG; with  *)
(* IEEE80211_CONF_CHANGE_PS rt2800_config_ps.                              *)
(***************************************************************************)
rt2800_config(flags, rfch, ps) ==
    LET lna == rt2800_config_lna_gain(chip, eeprom, rfch) IN
    /\ lnaGain' = lna
    /\ IF "channel" \in flags
       THEN /\ bbp66' = IF ChannelWritesBbp66(chip) THEN ChannelAgc(chip, rfch, lna)
                        ELSE bbp66
            /\ txPin' = ChannelTxPin(rfch)
       ELSE UNCHANGED <<bbp66, txPin>>
    /\ autowake' = IF "ps" \in flags THEN rt2800_config_ps(ps) ELSE autowake

(***************************************************************************)
(* rt2x00lib_config(conf, flags).  libconf is zeroed; with                 *)
(* IEEE80211_CONF_CHANGE_CHANNEL the HT40 flag is set from conf, libconf.rf *)
(* becomes the table entry of the primary or of the 40 MHz centre and      *)
(* rf_channel its channel.  Without it libconf.rf.channel stays 0, and     *)
(* rt2800_config still recomputes the LNA gain from it.  curr_band is      *)
(* taken from conf's channel, which the caller changes only together with  *)
(* CHANGE_CHANNEL.  Nothing here tests the radio state, and nothing resets *)
(* the link tuner.  The empty flag set stands for a call whose flags name  *)
(* only other changes (monitor, idle, TX power), which rt2800_config does  *)
(* not test.                                                               *)
(***************************************************************************)
rt2x00lib_config(flags, conf, ps) ==
    LET chg     == "channel" \in flags
        hwValue == IF IsHt40(conf) THEN rt2x00ht_center_channel(conf)
                   ELSE HwValue(conf.chan)
        rfch    == IF chg THEN HwChannels[hwValue] ELSE 0
    IN
    /\ IF chg
       THEN /\ ht40' = IsHt40(conf)
            /\ rfChannel' = rfch
            /\ band' = Band(conf.chan)
       ELSE UNCHANGED <<ht40, rfChannel, band>>
    /\ rt2800_config(flags, rfch, ps)
    /\ UNCHANGED <<chip, eeprom, started, enabledRadio, hw, qual>>

\* The RF chipsets rt2800_vco_calibration has a case for.
VcoRfs ==
    {Ch!RF2020, Ch!RF3020, Ch!RF3021, Ch!RF3022, Ch!RF3320, Ch!RF3052,
     Ch!RF3053, Ch!RF3070, Ch!RF3290, Ch!RF3853, Ch!RF5350, Ch!RF5360,
     Ch!RF5362, Ch!RF5370, Ch!RF5372, Ch!RF5390, Ch!RF5392, Ch!RF5592,
     Ch!RF7620}

\* Mutant: the first write masks every PA and LNA enable off.
VcoMaskAllEnables ==
    LET cleared == {p \in txPin : p.kind \notin {"PA", "LNA"}}
        n       == IF eeprom.tx \in 1..3 THEN eeprom.tx ELSE 1
    IN  /\ txPin' = IF chip.rf \in VcoRfs
                    THEN cleared \cup {Pin("PA", PinBand(rfChannel), i) : i \in 0..(n - 1)}
                    ELSE cleared
        /\ UNCHANGED <<chip, eeprom, started, enabledRadio, hw, band, ht40,
                       lnaGain, bbp66, qual, rfChannel, autowake>>

\* Mutant: the chain switch of the band PA set breaks after its first case
\* instead of falling through, so only the highest tx chain's PA is set.
VcoNoFallThrough ==
    LET cleared == txPin \ PaPins
        n       == IF eeprom.tx \in 1..3 THEN eeprom.tx ELSE 1
    IN  /\ txPin' = IF chip.rf \in VcoRfs
                    THEN cleared \cup {Pin("PA", PinBand(rfChannel), n - 1)}
                    ELSE cleared
        /\ UNCHANGED <<chip, eeprom, started, enabledRadio, hw, band, ht40,
                       lnaGain, bbp66, qual, rfChannel, autowake>>

(***************************************************************************)
(* rt2800_vco_calibration: clear the PA enables of TX_PIN_CFG              *)
(* (TX_PIN_CFG_PA_PE_DISABLE), start the chip's VCO calibration (RFCSR     *)
(* writes, not modelled), then set the PAs of rf_channel's band for the tx *)
(* chains (a count outside 1..3 falls to chain 0).  An RF chipset without  *)
(* a case WARNs and returns with the PAs off.                              *)
(***************************************************************************)
rt2800_vco_calibration ==
    LET cleared == txPin \ PaPins
        n       == IF eeprom.tx \in 1..3 THEN eeprom.tx ELSE 1
    IN  /\ txPin' = IF chip.rf \in VcoRfs
                    THEN cleared \cup {Pin("PA", PinBand(rfChannel), i) : i \in 0..(n - 1)}
                    ELSE cleared
        /\ UNCHANGED <<chip, eeprom, started, enabledRadio, hw, band, ht40,
                       lnaGain, bbp66, qual, rfChannel, autowake>>

\* The gain rt2800_reset_tuner programs in the current configuration.
DefaultVgc == rt2800_get_default_vgc(chip, band, ht40, lnaGain)

(***************************************************************************)
(* rt2x00lib_config_antenna: rt2800_config_ant (antenna registers, not     *)
(* modelled), then rt2x00link_reset_tuner(antenna = true): when the radio  *)
(* is enabled, zero link.qual keeping vgc_level_reg, and call              *)
(* rt2800_reset_tuner, i.e. rt2800_set_vgc(default).                       *)
(***************************************************************************)
\* Mutant: link.qual is not cleared before rt2800_reset_tuner.
ResetTunerKeepsCache ==
    IF enabledRadio
    THEN LET r == rt2800_set_vgc(vgcLevel, vgcLevelReg, bbp66, DefaultVgc) IN
         /\ bbp66' = r.bbp
         /\ vgcLevel' = r.level /\ vgcLevelReg' = r.reg
    ELSE UNCHANGED <<bbp66, qual>>

rt2x00link_reset_tuner ==
    IF enabledRadio
    THEN LET r == rt2800_set_vgc(0, vgcLevelReg, bbp66, DefaultVgc) IN
         /\ bbp66' = r.bbp
         /\ vgcLevel' = r.level /\ vgcLevelReg' = r.reg
    ELSE UNCHANGED <<bbp66, qual>>

rt2x00lib_config_antenna ==
    /\ rt2x00link_reset_tuner
    /\ UNCHANGED <<chip, eeprom, started, enabledRadio, hw, chan>>

(***************************************************************************)
(* rt2800_link_tuner(qual) with qual->rssi = rssi.  The link-tuning        *)
(* scheduler calls it only while the radio is enabled (spec section 3).    *)
(***************************************************************************)
TunedLevel(rssi) == TunedVgc(chip, band, ht40, lnaGain, rssi)

rt2800_link_tuner(rssi) ==
    /\ enabledRadio
    /\ IF TunerDisabled(chip)
       THEN UNCHANGED <<bbp66, qual>>
       ELSE LET r == rt2800_set_vgc(vgcLevel, vgcLevelReg, bbp66,
                                    TunedLevel(rssi)) IN
            /\ bbp66' = r.bbp
            /\ vgcLevel' = r.level /\ vgcLevelReg' = r.reg
    /\ UNCHANGED <<chip, eeprom, started, enabledRadio, hw, chan>>

\* Record which entry point a step called (and the RSSI the tuner saw).
Called(op, rssi) == lastCall' = [op |-> op, rssi |-> rssi]

Next ==
    \/ rt2x00lib_start /\ Called("start", 0)
    \/ rt2x00lib_stop /\ Called("stop", 0)
    \/ rt2x00lib_enable_radio /\ Called("enable_radio", 0)
    \/ rt2x00lib_disable_radio /\ Called("disable_radio", 0)
    \* conf's channel and PS bit are enumerated only where the flags say
    \* they changed; otherwise rt2x00lib_config does not read them.
    \/ \E flags \in SUBSET {"channel", "ps"} :
       \E c \in IF "channel" \in flags THEN Confs ELSE {CHOOSE c \in Confs : TRUE} :
       \E ps \in IF "ps" \in flags THEN BOOLEAN ELSE {autowake} :
          rt2x00lib_config(flags, c, ps) /\ Called("config", 0)
    \/ rt2800_vco_calibration /\ Called("vco_calibration", 0)
    \/ rt2x00lib_config_antenna /\ Called("config_antenna", 0)
    \/ \E r \in Rssis : rt2800_link_tuner(r) /\ Called("link_tuner", r)

Spec == Init /\ [][Next]_vars

-----------------------------------------------------------------------------
(* Properties *)

TypeOK ==
    /\ chip \in Chips
    /\ eeprom \in Eeproms
    /\ {started, enabledRadio, macTx, macRx, dma, ht40} \subseteq BOOLEAN
    /\ band \in {"2GHZ", "5GHZ"}
    /\ lnaGain \in 0..255
    /\ {bbp66, vgcLevel, vgcLevelReg} \subseteq 0..255
    /\ lastCall.rssi \in Rssis \cup {0}
    /\ rfChannel \in {0} \cup {HwChannels[i] : i \in DOMAIN HwChannels}
    /\ txPin \subseteq AllPins
    /\ autowake \in BOOLEAN

(***************************************************************************)
(* The enabled flag tells the truth about the hardware: the MAC receives   *)
(* and DMA runs exactly when DEVICE_STATE_ENABLED_RADIO is set, whatever   *)
(* step of rt2800_enable_radio timed out and in whatever order start,      *)
(* stop, enable and disable were called.                                   *)
(***************************************************************************)
RadioFlagMatchesHardware ==
    enabledRadio <=> (macTx /\ macRx /\ dma)

(***************************************************************************)
(* Antenna reconfiguration re-baselines the receiver: after                *)
(* rt2x00lib_config_antenna on an enabled radio, BBP 66 holds the chip's   *)
(* default gain for the current band, whatever the tuner, a bring-up or    *)
(* the channel code wrote before, and the tuner's cache agrees with it.    *)
(***************************************************************************)
AntennaResetProgramsDefault ==
    [][lastCall'.op = "config_antenna" /\ enabledRadio =>
         bbp66' = DefaultVgc' /\ vgcLevel' = bbp66']_vars

(***************************************************************************)
(* Spec 4.7 and 8.4: the tuner writes its level when it differs from the   *)
(* currently programmed one.  So after every rt2800_link_tuner call on a   *)
(* chip whose tuner runs, BBP 66 holds the level the tuner computed for    *)
(* the RSSI it was given, even after a bring-up or a channel switch wrote  *)
(* BBP 66 behind the tuner's back.                                         *)
(***************************************************************************)
TunerLevelApplied ==
    lastCall.op = "link_tuner" /\ ~TunerDisabled(chip) =>
        bbp66 = TunedLevel(lastCall.rssi)
(***************************************************************************)
(* The receiver listens on the band it is tuned to: once a channel was     *)
(* configured, TX_PIN_CFG enables, on each RX chain of default_ant, the    *)
(* LNA of rf_channel's band and not the other one.  It must survive every  *)
(* later call: a PS-only rt2x00lib_config, the PA masking of               *)
(* rt2800_vco_calibration, radio enable and disable, on RT6352 the         *)
(* read-modify-write that keeps the register's other bits.                 *)
(***************************************************************************)
ReceiveLnasFollowChannel ==
    rfChannel # 0 /\ eeprom.rx \in 1..3 =>
        \A i \in 0..(eeprom.rx - 1) :
            /\ Pin("LNA", PinBand(rfChannel), i) \in txPin
            /\ Pin("LNA", IF PinBand(rfChannel) = "A" THEN "G" ELSE "A", i) \notin txPin

(***************************************************************************)
(* TX_PIN_CFG has two writers that must agree on the power amplifiers:    *)
(* rt2800_config_channel builds the PA enables from the channel it tunes,  *)
(* and rt2800_vco_calibration masks them out and rebuilds them from        *)
(* rf_channel.  Once a channel is configured on an RF chipset the VCO      *)
(* recalibration handles and with a programmed tx chain count, every tx    *)
(* chain's PA is on for the tuned band and off for the other band, through *)
(* any later power-save changes and recalibrations.  The one exception is  *)
(* PA G0 under Bluetooth coexistence, which rt2800_config_channel keeps on *)
(* and the recalibration drops (hazard at line 6789); RF chipsets without  *)
(* a case leave every PA off (hazard at line 6767).                        *)
(***************************************************************************)
TransmitPasFollowChannel ==
    rfChannel # 0 /\ chip.rf \in VcoRfs /\ eeprom.tx \in 1..3 =>
        \A i \in 0..(eeprom.tx - 1) :
            LET other == IF PinBand(rfChannel) = "A" THEN "G" ELSE "A" IN
            /\ Pin("PA", PinBand(rfChannel), i) \in txPin
            /\ Pin("PA", other, i) \in txPin =>
                   i = 0 /\ other = "G" /\ eeprom.btCoexist
====
