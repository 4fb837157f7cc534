--------------------------- MODULE EepromManager ---------------------------
(***************************************************************************)
(* Bring-up of the configuration memory, rt2800lib.c: the chip probe       *)
(* (rt2800_probe_rt), the word maps that place a named EEPROM field at a   *)
(* chip-specific word offset (rt2800_eeprom_map, rt2800_eeprom_map_ext,    *)
(* rt2800_eeprom_word_index), the validation and repair of the image read *)
(* from the device (rt2800_validate_eeprom) and the derivation of the RF   *)
(* type, antenna defaults and capability flags (rt2800_init_eeprom).       *)
(*                                                                         *)
(* The image is a function from word offsets to 16-bit values; only the   *)
(* words these functions touch are modelled.  Bit fields are the masks of *)
(* rt2800.h, written as (lowest bit, width).                               *)
(***************************************************************************)
EXTENDS Integers, Sequences

CONSTANTS
    Hardware,     \* the devices: chipset registers, bus, efuse and image
    EepromWords   \* EEPROM_SIZE / sizeof(uint16_t), a multiple of 8

ASSUME EepromWords \in Nat /\ EepromWords % 8 = 0

VARIABLES
    hw,      \* the device: fixed
    phase,   \* "probe" -> "read" -> ("efuse") -> "validate" -> "init" -> "ready"
    efi,     \* rt2800_read_eeprom_efuse: the next block's first word
    efuseData, \* EFUSE_DATA3..0: the last block the efuse controller latched
    rt,      \* rt2x00dev->chip.rt
    img,     \* rt2x00dev->eeprom, word offset -> value
    rf,      \* rt2x00dev->chip.rf
    ant,     \* default_ant: chain counts and antenna selection
    caps,    \* cap_flags set by rt2800_init_eeprom
    freqOffset,
    ledReg

vars == <<hw, phase, efi, efuseData, rt, img, rf, ant, caps, freqOffset, ledReg>>

\* rt2x00_get_field16 / rt2x00_set_field16 for the field at bits lo..lo+n-1.
GetF(w, lo, n)    == (w \div 2^lo) % 2^n
SetF(w, lo, n, v) == w - GetF(w, lo, n) * 2^lo + v * 2^lo

(***************************************************************************)
(* The two word maps, restricted to the words modelled.  A word missing   *)
(* from a map has index 0 there.                                           *)
(***************************************************************************)
\* Mutant: the standard map lost its RSSI_BG entry.
MapWithoutRssiBg ==
    [CHIP_ID |-> 0, NIC_CONF0 |-> \h1a, NIC_CONF1 |-> \h1b, FREQ |-> \h1d,
     LED_AG_CONF |-> \h1e, LED_ACT_CONF |-> \h1f, LED_POLARITY |-> \h20,
     LNA |-> \h22, RSSI_BG2 |-> \h24, RSSI_A |-> \h25,
     RSSI_A2 |-> \h26, EIRP_MAX_TX_POWER |-> \h27]

rt2800_eeprom_map ==
    [CHIP_ID |-> 0, NIC_CONF0 |-> \h1a, NIC_CONF1 |-> \h1b, FREQ |-> \h1d,
     LED_AG_CONF |-> \h1e, LED_ACT_CONF |-> \h1f, LED_POLARITY |-> \h20,
     LNA |-> \h22, RSSI_BG |-> \h23, RSSI_BG2 |-> \h24, RSSI_A |-> \h25,
     RSSI_A2 |-> \h26, EIRP_MAX_TX_POWER |-> \h27]

rt2800_eeprom_map_ext ==
    [CHIP_ID |-> 0, NIC_CONF0 |-> \h1a, NIC_CONF1 |-> \h1b,
     EIRP_MAX_TX_POWER |-> \h20, FREQ |-> \h22, LED_AG_CONF |-> \h23,
     LED_ACT_CONF |-> \h24, LED_POLARITY |-> \h25, LNA |-> \h26,
     EXT_LNA2 |-> \h27, RSSI_BG |-> \h28, RSSI_BG2 |-> \h29, RSSI_A |-> \h2a,
     RSSI_A2 |-> \h2b]

UsesExtMap(r) == r \in {"RT3593", "RT3883"}

MapOf(r) == IF UsesExtMap(r) THEN rt2800_eeprom_map_ext ELSE rt2800_eeprom_map

\* rt2800_eeprom_word_index: an unmapped word gives index 0 (logged only).
rt2800_eeprom_word_index(r, w) ==
    IF w \in DOMAIN MapOf(r) THEN MapOf(r)[w] ELSE 0

\* rt2800_eeprom_read / rt2800_eeprom_write on the in-memory image.
Rd(r, im, w)    == im[rt2800_eeprom_word_index(r, w)]
Wr(r, im, w, v) == [im EXCEPT ![rt2800_eeprom_word_index(r, w)] = v]

\* Constants of rt2800.h and rt2x00leds.h.
RF2820 == 1
LED_MODE_TXRX_ACTIVITY == 1
EIRP_MAX_TX_POWER_LIMIT == \h50

\* rt2800_probe_rt: the chipsets the switch accepts.
SupportedRt == {"RT2860", "RT2872", "RT2883", "RT3070", "RT3071", "RT3090",
                "RT3290", "RT3352", "RT3390", "RT3572", "RT3593", "RT3883",
                "RT5350", "RT5390", "RT5392", "RT5592"}

\* An RSSI offset byte is cleared when abs() of it exceeds 10; the field
\* is read as an unsigned value, so abs() returns it unchanged.
ClampOffset(w, lo) == IF GetF(w, lo, 8) > 10 THEN SetF(w, lo, 8, 0) ELSE w

\* A gain byte that reads 0x00 or 0xff is a sentinel.
IsSentinel(b) == b \in {0, \hff}

\* An LNA byte (at lo) backfilled from the reference gain when it is a
\* sentinel; `into` is where the reference is written.
Backfill(w, lo, into, g) == IF IsSentinel(GetF(w, lo, 8)) THEN SetF(w, into, 8, g) ELSE w

\* Mutant: the erased-word default for NIC_CONF0 asks for three RX paths.
NicConf0DefaultThreeRx(r, im) ==
    LET c0 == Rd(r, im, "NIC_CONF0") IN
    IF c0 = \hffff
    THEN Wr(r, im, "NIC_CONF0", SetF(SetF(SetF(c0, 0, 4, 3), 4, 4, 1), 8, 4, RF2820))
    ELSE IF r \in {"RT2860", "RT2872"}
         THEN Wr(r, im, "NIC_CONF0", IF GetF(c0, 0, 4) > 2 THEN SetF(c0, 0, 4, 2) ELSE c0)
         ELSE im

(***************************************************************************)
(* The NIC_CONF0 step of rt2800_validate_eeprom: an erased word gets two   *)
(* RX paths, one TX path and RF2820; RT2860/RT2872 are limited to two RX   *)
(* streams.                                                                *)
(***************************************************************************)
ValidateNicConf0(r, im) ==
    LET c0 == Rd(r, im, "NIC_CONF0") IN
    IF c0 = \hffff
    THEN Wr(r, im, "NIC_CONF0", SetF(SetF(SetF(c0, 0, 4, 2), 4, 4, 1), 8, 4, RF2820))
    ELSE IF r \in {"RT2860", "RT2872"}
         THEN Wr(r, im, "NIC_CONF0", IF GetF(c0, 0, 4) > 2 THEN SetF(c0, 0, 4, 2) ELSE c0)
         ELSE im

\* Mutant: the erased NIC_CONF1 word is left as read.
NicConf1NotReset(r, im) == im

\* The NIC_CONF1 step: the fifteen fields set to 0 cover all sixteen bits,
\* so an erased word becomes 0.
ValidateNicConf1(r, im) ==
    IF Rd(r, im, "NIC_CONF1") = \hffff THEN Wr(r, im, "NIC_CONF1", 0) ELSE im

\* The chips whose EXT_LNA2 word is validated.
HasExtLna2(r) == r \in {"RT3593", "RT3883"}

\* The FREQ step: an erased offset byte becomes 0; the LED test reads the
\* word after that repair, and an erased LED byte sets the TX/RX activity
\* mode and writes the three LED words.
ValidateFreq(r, im) ==
    LET fr == Rd(r, im, "FREQ")
        f1 == IF GetF(fr, 0, 8) = \hff THEN SetF(fr, 0, 8, 0) ELSE fr
        f2 == SetF(SetF(f1, 8, 7, LED_MODE_TXRX_ACTIVITY), 12, 1, 0)
    IN IF GetF(f1, 8, 8) = \hff
       THEN [Wr(r, im, "FREQ", f2) EXCEPT
                ![rt2800_eeprom_word_index(r, "LED_AG_CONF")] = \h5555,
                ![rt2800_eeprom_word_index(r, "LED_ACT_CONF")] = \h2221,
                ![rt2800_eeprom_word_index(r, "LED_POLARITY")] = \ha9f8]
       ELSE Wr(r, im, "FREQ", f1)

\* An RSSI word with two offsets, both clamped and the word written back.
ValidateRssiPair(r, im, w) ==
    Wr(r, im, w, ClampOffset(ClampOffset(Rd(r, im, w), 0), 8))

\* An RSSI word with one offset and an LNA gain byte that chips with the
\* standard map backfill from the reference gain g.
ValidateRssiLna(r, im, w, g) ==
    LET c == ClampOffset(Rd(r, im, w), 0) IN
    Wr(r, im, w, IF UsesExtMap(r) THEN c ELSE Backfill(c, 8, 8, g))

\* The EXT_LNA2 step of RT3593/RT3883: the A1 test backfills A1, and the
\* A2 test also writes its repair into the A1 byte.
ValidateExtLna2(r, im, g) ==
    IF HasExtLna2(r)
    THEN Wr(r, im, "EXT_LNA2", Backfill(Backfill(Rd(r, im, "EXT_LNA2"), 0, 0, g), 8, 0, g))
    ELSE im

\* The steps of rt2800_validate_eeprom after the read, in code order.
ValidationSteps == <<"NIC_CONF0", "NIC_CONF1", "FREQ", "RSSI_BG", "RSSI_BG2",
                     "RSSI_A", "RSSI_A2", "EXT_LNA2">>

ValidateStep(r, s, g, im) ==
    CASE s = "NIC_CONF0" -> ValidateNicConf0(r, im)
      [] s = "NIC_CONF1" -> ValidateNicConf1(r, im)
      [] s = "FREQ"      -> ValidateFreq(r, im)
      [] s \in {"RSSI_BG", "RSSI_A"}   -> ValidateRssiPair(r, im, s)
      [] s \in {"RSSI_BG2", "RSSI_A2"} -> ValidateRssiLna(r, im, s, g)
      [] s = "EXT_LNA2"  -> ValidateExtLna2(r, im, g)

\* The steps from the k-th on, each applied to the image the one before
\* left (bound as a value, so each image is computed once).
RECURSIVE ValidateFrom(_, _, _, _)
ValidateFrom(r, g, k, im) ==
    IF k > Len(ValidationSteps) THEN im
    ELSE CHOOSE out \in {ValidateFrom(r, g, k + 1, nx) :
                             nx \in {ValidateStep(r, ValidationSteps[k], g, im)}} : TRUE

(***************************************************************************)
(* rt2800_validate_eeprom after the read.  The reference LNA gain is the   *)
(* A0 byte of EEPROM_LNA, which is itself never validated; the code reads  *)
(* it after the FREQ step, which writes no word the LNA word shares.       *)
(***************************************************************************)
ValidateImage(r, im) ==
    ValidateFrom(r, GetF(Rd(r, im, "LNA"), 8, 8), 1, im)

\* The RF types the switch of rt2800_init_eeprom accepts (rt2800.h values).
ValidRf == {1, 2, 3, 4, 5, 6, 7, 8, 9, \hb, \hc, \hd, \hf, \h3070, \h3290,
            \h3853, \h5350, \h5360, \h5362, \h5370, \h5372, \h5390, \h5392,
            \h7620}

\* The RF type: from CHIP_ID on the RT53xx family, fixed on three chips,
\* otherwise the RF_TYPE field of NIC_CONF0.
RfOf(r, im) ==
    CASE r \in {"RT3290", "RT5390", "RT5392", "RT6352"} -> Rd(r, im, "CHIP_ID")
      [] r = "RT3352" -> \hc
      [] r = "RT3883" -> \h3853
      [] r = "RT5350" -> \h5350
      [] OTHER -> GetF(Rd(r, im, "NIC_CONF0"), 8, 4)

\* rt2x00_rt_rev_gte(RT5390, REV_RT5390R) or (RT5390, REV_RT5370G).
HwDiversity(r, rev) == r = "RT5390" /\ rev >= \h0503

\* Mutant: the TXPATH and RXPATH fields are taken without their masks.
DefaultAntUnmasked(r, rev, im) ==
    LET c0 == Rd(r, im, "NIC_CONF0") IN
    [txChains |-> c0 \div 16, rxChains |-> c0, tx |-> "A", rx |-> "A"]

\* The antenna defaults: chain counts from NIC_CONF0, antennas from the
\* ANT_DIVERSITY field on four chips, hardware diversity on late RT5390s.
DefaultAnt(r, rev, im) ==
    LET c0  == Rd(r, im, "NIC_CONF0")
        div == GetF(Rd(r, im, "NIC_CONF1"), 11, 2)
        rx  == IF r \in {"RT3070", "RT3090", "RT3352", "RT3390"} /\ div = 3
               THEN "B" ELSE "A"
    IN [txChains |-> GetF(c0, 4, 4), rxChains |-> GetF(c0, 0, 4),
        tx |-> IF HwDiversity(r, rev) THEN "HW_DIVERSITY" ELSE "A",
        rx |-> IF HwDiversity(r, rev) THEN "HW_DIVERSITY" ELSE rx]

\* The capability flags rt2800_init_eeprom sets from NIC_CONF1 and EIRP.
CapsOf(r, im) ==
    LET c1 == Rd(r, im, "NIC_CONF1")
        Bit(n) == GetF(c1, n, 1) = 1
    IN {f \in {"EXTERNAL_LNA_A", "EXTERNAL_LNA_BG", "HW_BUTTON", "BT_COEXIST",
               "POWER_LIMIT", "EXTERNAL_PA_TX0", "EXTERNAL_PA_TX1"} :
          CASE f = "EXTERNAL_LNA_A"  -> Bit(3)
            [] f = "EXTERNAL_LNA_BG" -> Bit(2)
            [] f = "HW_BUTTON"       -> Bit(0)
            [] f = "BT_COEXIST"      -> r # "RT3352" /\ Bit(14)
            [] f = "POWER_LIMIT"     ->
                   GetF(Rd(r, im, "EIRP_MAX_TX_POWER"), 0, 8) < EIRP_MAX_TX_POWER_LIMIT
            [] f = "EXTERNAL_PA_TX0" -> r = "RT3352" /\ Bit(14)
            [] f = "EXTERNAL_PA_TX1" -> r = "RT3352" /\ Bit(15)}

\* An efuse block of the device as EFUSE_DATA3..0 present it.
Block(h, i) == [k \in 0..7 |-> h.image[i + k]]

-----------------------------------------------------------------------------

Init ==
    /\ hw \in Hardware
    /\ phase = "probe"
    /\ efi = 0
    /\ efuseData = [k \in 0..7 |-> 0]
    /\ rt = hw.preset
    /\ img = [i \in 0..EepromWords - 1 |-> 0]
    /\ rf = 0
    /\ ant = [txChains |-> 0, rxChains |-> 0, tx |-> "A", rx |-> "A"]
    /\ caps = {}
    /\ freqOffset = 0
    /\ ledReg = 0

\* rt2800_probe_rt: MAC_CSR0 (MAC_CSR0_3290 on a preset RT3290) names the
\* chipset; an unknown one is -ENODEV; an RT5390 on an SoC is an RT6352.
rt2800_probe_rt ==
    /\ phase = "probe"
    /\ LET chip == IF rt = "RT3290" THEN hw.csr0_3290 ELSE hw.csr0 IN
       IF chip \notin SupportedRt
       THEN phase' = "failed" /\ UNCHANGED rt
       ELSE /\ rt' = IF chip = "RT5390" /\ hw.soc THEN "RT6352" ELSE chip
            /\ phase' = "read"
    /\ UNCHANGED <<hw, efi, efuseData, img, rf, ant, caps, freqOffset, ledReg>>

\* rt2800_read_eeprom, the bus's read_eeprom: the efuse when
\* rt2800_efuse_detect finds one, otherwise a bus read that may fail.
rt2800_read_eeprom ==
    /\ phase = "read"
    /\ IF hw.efuse
       THEN phase' = "efuse" /\ efi' = 0 /\ UNCHANGED img
       ELSE \/ img' = hw.image /\ phase' = "validate" /\ UNCHANGED efi
            \/ phase' = "failed" /\ UNCHANGED <<img, efi>>
    /\ UNCHANGED <<hw, efuseData, rt, rf, ant, caps, freqOffset, ledReg>>

(***************************************************************************)
(* rt2800_efuse_read, one iteration of rt2800_read_eeprom_efuse: kick the  *)
(* controller, wait on the kick bit, copy EFUSE_DATA3..0 into words        *)
(* i..i+7.  The result of the wait is ignored: when the kick times out the *)
(* data registers still hold the block latched before.                     *)
(***************************************************************************)
rt2800_efuse_read ==
    /\ phase = "efuse"
    /\ efi < EepromWords
    /\ LET latched == IF efi \in hw.kickTimeouts THEN efuseData ELSE Block(hw, efi) IN
         /\ efuseData' = latched
         /\ img' = [j \in DOMAIN img |->
                      IF j - efi \in 0..7 THEN latched[j - efi] ELSE img[j]]
    /\ efi' = efi + 8
    /\ UNCHANGED <<hw, phase, rt, rf, ant, caps, freqOffset, ledReg>>

\* The efuse loop ends; rt2800_read_eeprom_efuse returns 0.
EfuseDone ==
    /\ phase = "efuse"
    /\ ~(efi < EepromWords)
    /\ phase' = "validate"
    /\ UNCHANGED <<hw, efi, efuseData, rt, img, rf, ant, caps, freqOffset, ledReg>>

\* rt2800_validate_eeprom after a successful read.
rt2800_validate_eeprom ==
    /\ phase = "validate"
    /\ img' = ValidateImage(rt, img)
    /\ phase' = "init"
    /\ UNCHANGED <<hw, efi, efuseData, rt, rf, ant, caps, freqOffset, ledReg>>

\* rt2800_init_eeprom: -ENODEV on an unknown RF type, else the derived
\* device fields.
rt2800_init_eeprom ==
    /\ phase = "init"
    /\ IF RfOf(rt, img) \notin ValidRf
       THEN phase' = "failed" /\ UNCHANGED <<rf, ant, caps, freqOffset, ledReg>>
       ELSE /\ rf' = RfOf(rt, img)
            /\ ant' = DefaultAnt(rt, hw.rev, img)
            /\ caps' = CapsOf(rt, img)
            /\ freqOffset' = GetF(Rd(rt, img, "FREQ"), 0, 8)
            /\ ledReg' = Rd(rt, img, "FREQ")
            /\ phase' = "ready"
    /\ UNCHANGED <<hw, efi, efuseData, rt, img>>

Next ==
    \/ rt2800_probe_rt
    \/ rt2800_read_eeprom
    \/ rt2800_efuse_read
    \/ EfuseDone
    \/ rt2800_validate_eeprom
    \/ rt2800_init_eeprom

Spec == Init /\ [][Next]_vars

-----------------------------------------------------------------------------
(* Properties *)

Word16 == 0..65535
Phases == {"probe", "read", "efuse", "validate", "init", "ready", "failed"}

\* Every variable keeps its type; the chain counts are four-bit fields.
TypeOK ==
    /\ phase \in Phases
    /\ efi \in 0..EepromWords
    /\ DOMAIN efuseData = 0..7 /\ \A k \in 0..7 : efuseData[k] \in Word16
    /\ DOMAIN img = 0..EepromWords - 1
    /\ \A i \in DOMAIN img : img[i] \in Word16
    /\ ant.txChains \in 0..15 /\ ant.rxChains \in 0..15
    /\ ant.tx \in {"A", "B", "HW_DIVERSITY"} /\ ant.rx \in {"A", "B", "HW_DIVERSITY"}
    /\ rf \in Word16 /\ freqOffset \in 0..255 /\ ledReg \in Word16

Validated == phase \in {"init", "ready"}

\* Spec 8.1: once rt2800_validate_eeprom has repaired the image, a second
\* validation leaves it unchanged, on every chip and whatever was read.
RepairIdempotent == Validated => ValidateImage(rt, img) = img

\* rt2800_eeprom_word_index returns index 0 for a word the chip's map lacks,
\* and rt2800_validate_eeprom writes every word it reads: validation never
\* changes word 0, the CHIP_ID, through a missing map entry.
ChipIdWordUntouched ==
    [][phase = "validate" => img'[0] = img[0]]_vars

Blank(h) == \A i \in DOMAIN h.image : h.image[i] = \hffff

\* A device whose EEPROM is blank and read without error comes up with the
\* safe defaults of rt2800_validate_eeprom: one TX and two RX chains, no
\* capability flag, frequency offset 0 and the TX/RX activity LED mode.
BlankImageSafeDefaults ==
    (Blank(hw) /\ hw.kickTimeouts = {} /\ phase = "ready") =>
        /\ ant.txChains = 1 /\ ant.rxChains = 2
        /\ caps = {}
        /\ freqOffset = 0
        /\ GetF(ledReg, 8, 7) = LED_MODE_TXRX_ACTIVITY

\* Spec 4.3: the image validated is the device's EEPROM.  Fails when an
\* efuse kick in rt2800_efuse_read times out and the stale data registers
\* are copied.
EfuseImageMatchesDevice == phase = "validate" => img = hw.image

\* The LNA gain bytes each chip uses after validation.
LnaBytes(r, im) ==
    IF HasExtLna2(r)
    THEN {GetF(Rd(r, im, "EXT_LNA2"), 0, 8), GetF(Rd(r, im, "EXT_LNA2"), 8, 8)}
    ELSE {GetF(Rd(r, im, "RSSI_BG2"), 8, 8), GetF(Rd(r, im, "RSSI_A2"), 8, 8)}

\* Spec 4.3: LNA gain fields holding a sentinel are backfilled from the
\* reference gain, so after validation no LNA gain is a sentinel unless
\* the reference is.
LnaGainsBackfilled ==
    (Validated /\ ~IsSentinel(GetF(Rd(rt, img, "LNA"), 8, 8))) =>
        \A b \in LnaBytes(rt, img) : ~IsSentinel(b)

\* A signed RSSI offset byte.
S8(b) == IF b >= 128 THEN b - 256 ELSE b

\* The RSSI offset fields: (word, lowest bit).
RssiOffsets == {<<"RSSI_BG", 0>>, <<"RSSI_BG", 8>>, <<"RSSI_BG2", 0>>,
                <<"RSSI_A", 0>>, <<"RSSI_A", 8>>, <<"RSSI_A2", 0>>}

\* Spec 4.3: rt2800_validate_eeprom clamps only RSSI offsets outside +-10;
\* an offset within range survives validation.
RssiOffsetInRangeKept ==
    [][phase = "validate" =>
         \A o \in RssiOffsets :
            S8(GetF(Rd(rt, img, o[1]), o[2], 8)) \in -10..10 =>
                GetF(Rd(rt, img', o[1]), o[2], 8) = GetF(Rd(rt, img, o[1]), o[2], 8)]_vars
====
