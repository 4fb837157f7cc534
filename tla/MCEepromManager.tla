-------------------------- MODULE MCEepromManager --------------------------
(***************************************************************************)
(* Devices for TLC.  A device is its chipset registers, whether it sits on *)
(* an SoC, its revision, whether it carries an efuse and which efuse kicks *)
(* time out, its EEPROM image laid out by the chip's word map, and the     *)
(* readings its radio gives the RF filter calibration, and how its BBP    *)
(* answers the readiness poll of rt2800_enable_radio.                     *)
(***************************************************************************)
EXTENDS RfBringUp

MCEepromWords == 48

\* REGISTER_BUSY_COUNT of the Linux rt2x00 driver.
MCBusyCount == 100

\* The named words of a content record placed at the chip's offsets; the
\* words not modelled hold `fill`.
Layout(chip, content, fill) ==
    [i \in 0..MCEepromWords - 1 |->
        IF \E w \in DOMAIN MapOf(chip) : MapOf(chip)[w] = i
        THEN content[CHOOSE w \in DOMAIN MapOf(chip) : MapOf(chip)[w] = i]
        ELSE fill]

\* A programmed EEPROM: NIC_CONF1 with the radio button and BT coexistence,
\* a power-limited EIRP word, programmed LNA gains and small RSSI offsets.
Prog(chipId, conf0) ==
    [CHIP_ID |-> chipId, NIC_CONF0 |-> conf0, NIC_CONF1 |-> \h4001,
     FREQ |-> \h0120, LED_AG_CONF |-> \h5555, LED_ACT_CONF |-> \h2221,
     LED_POLARITY |-> \ha9f8, LNA |-> \h0a08, RSSI_BG |-> \h0102,
     RSSI_BG2 |-> \h0b03, RSSI_A |-> \h0000, RSSI_A2 |-> \h0c00,
     EIRP_MAX_TX_POWER |-> \h0040, EXT_LNA2 |-> \h0c0b]

\* A partly erased one: NIC_CONF0 and FREQ erased, the BG2 and EXT_LNA2 A2
\* gains erased, an RSSI_A offset of -2.
Mixed(chipId, conf0) ==
    [Prog(chipId, conf0) EXCEPT !.NIC_CONF0 = \hffff, !.FREQ = \hffff,
        !.RSSI_BG2 = \hff03, !.RSSI_A = \hfe02, !.EXT_LNA2 = \hff0b]

Images(chip, chipId, conf0) ==
    { Layout(chip, Prog(chipId, conf0), 0),
      Layout(chip, Mixed(chipId, conf0), 0),
      [i \in 0..MCEepromWords - 1 |-> \hffff] }

\* The ways the image reaches the driver: a bus read, an efuse read, an
\* efuse read whose second kick times out.
\* Tone readings for the RX sweep: passband ready after `readyAt' reads,
\* stopband falling by `slope' per filter step.
Tone(chip, readyAt, s0, slope) ==
    [chip |-> chip, readyAt |-> readyAt, pass |-> \h40, s0 |-> s0, slope |-> slope]
NoTone == Tone("none", 0, 0, 0)

\* Low-pass readings for the RT6352 search (signed 7-bit).
P(init, base, slope) == [init |-> init, base |-> base, slope |-> slope]
NoBw == [tx |-> P(0, 0, 0), rx |-> P(0, 0, 0), ht40 |-> FALSE]

\* BBP 0: answering at once, after two reads, never (asleep for the whole
\* budget), or behind a busy bit that never clears.
BbpAt(readyAt) == [stuck |-> FALSE, readyAt |-> readyAt, version |-> \h52]
BbpStuck == [BbpAt(0) EXCEPT !.stuck = TRUE]
WithBbp(S, b) == {[d EXCEPT !.bbp0 = b] : d \in S}

WithCal(S, tone, bw) == {[d EXCEPT !.rxTone = tone, !.bwRadio = bw] : d \in S}

\* A programmed image read over USB, with the given radio.
CalDev(S, tone, bw) ==
    WithCal({d \in S : ~d.efuse /\ d.image[1] # \hffff}, tone, bw)

Dev(preset, csr0, soc, rev, chip, chipId, conf0) ==
    { [preset |-> preset, csr0 |-> csr0, csr0_3290 |-> csr0, soc |-> soc,
       rev |-> rev, efuse |-> e, kickTimeouts |-> k, image |-> im,
       rxTone |-> NoTone, bwRadio |-> NoBw, bbp0 |-> BbpAt(0)] :
         im \in Images(chip, chipId, conf0),
         <<e, k>> \in {<<FALSE, {}>>, <<TRUE, {}>>, <<TRUE, {8}>>} }

RT3070 == Dev("none", "RT3070", FALSE, \h0201, "RT3070", \h3070, \h0511)
RT3390 == Dev("none", "RT3390", FALSE, \h0201, "RT3390", \h3390, \h0511)
RT3071 == Dev("none", "RT3071", FALSE, \h0201, "RT3071", \h3071, \h0511)
RT3352 == Dev("none", "RT3352", FALSE, \h0201, "RT3352", \h3352, \h0511)
RT3572 == Dev("none", "RT3572", FALSE, \h0201, "RT3572", \h3572, \h0511)
RT6352 == Dev("none", "RT5390", TRUE, \h0503, "RT6352", \h7620, \h0022)

MCHardware ==
    Dev("none", "RT2860", FALSE, \h0103, "RT2860", \h2860, \h0123)
    \* an exact target hit on each bandwidth
    \cup WithCal(RT3070, Tone("RT3070", 3, \h38, 1), NoBw)
    \* a passband tone that never reads back
    \cup CalDev(RT3070, Tone("RT3070", 100, \h38, 1), NoBw)
    \* a BBP that wakes up late, one that never does, one that is stuck
    \cup WithBbp(CalDev(RT3070, Tone("RT3070", 3, \h38, 1), NoBw), BbpAt(2))
    \cup WithBbp(CalDev(RT3070, Tone("RT3070", 3, \h38, 1), NoBw), BbpAt(MCBusyCount))
    \cup WithBbp(CalDev(RT3070, Tone("RT3070", 3, \h38, 1), NoBw), BbpStuck)
    \* a flat stopband at the 20 MHz target, and a steep one
    \cup CalDev(RT3390, Tone("RT3390", 0, \h2d, 0), NoBw)
    \cup CalDev(RT3390, Tone("RT3390", 0, \h38, 3), NoBw)
    \* the other RF init tables that precede the RX sweep
    \cup CalDev(RT3071, Tone("RT3071", 0, \h38, 2), NoBw)
    \cup CalDev(RT3352, Tone("RT3352", 0, \h38, 2), NoBw)
    \cup CalDev(RT3572, Tone("RT3572", 0, \h38, 2), NoBw)
    \cup Dev("none", "RT3593", FALSE, \h0211, "RT3593", \h3593, \h0d22)
    \cup Dev("none", "RT5390", FALSE, \h0503, "RT5390", \h5390, \h0011)
    \* corner codes found mid-range; negative readings; codes 63 and 0
    \cup WithCal(RT6352, NoTone, [tx |-> P(20, 20, 1), rx |-> P(20, 20, 1), ht40 |-> FALSE])
    \cup CalDev(RT6352, NoTone, [tx |-> P(5, 20, 1), rx |-> P(-10, 20, 2), ht40 |-> TRUE])
    \cup CalDev(RT6352, NoTone, [tx |-> P(9, 0, 0), rx |-> P(60, 0, 0), ht40 |-> FALSE])
    \cup Dev("RT3290", "RT3290", FALSE, \h0015, "RT3290", \h3290, \h0011)
    \cup { [preset |-> "none", csr0 |-> "RT2561", csr0_3290 |-> "RT2561",
            soc |-> FALSE, rev |-> 0, efuse |-> FALSE, kickTimeouts |-> {},
            image |-> [i \in 0..MCEepromWords - 1 |-> \hffff],
            rxTone |-> NoTone, bwRadio |-> NoBw, bbp0 |-> BbpAt(0)],
           \* an RT5390 whose NIC_CONF0 reads all zeros
           [preset |-> "none", csr0 |-> "RT5390", csr0_3290 |-> "RT5390",
            soc |-> FALSE, rev |-> \h0503, efuse |-> FALSE, kickTimeouts |-> {},
            image |-> Layout("RT5390", Prog(\h5390, 0), 0),
            rxTone |-> NoTone, bwRadio |-> NoBw, bbp0 |-> BbpAt(0)] }

\* Register contents before the RF init: cleared, or all ones.
Rf5Regs == {0, 1, 3, 4, 5, 6, 7, 8, 17, 18, 19, 20, 37, 58, 59}
MCRfcsrInit == { [r \in {22, 24, 31} |-> 0], [r \in {22, 24, 31} |-> \hff] }
MCRxBbpInit == { [r \in {4, 24, 25, 26} |-> \h40] }
MCRf5Init == { [r \in Rf5Regs |-> 0], [r \in Rf5Regs |-> \hff] }
MCBwBbpInit == { [r \in {4, 21, 23} |-> \hff] }
MCDcocInit == { [r \in {0, 2} |-> \h10] }
MCMacInit == { [RF_CONTROL0 |-> 0, RF_BYPASS0 |-> 0] }
====
