----------------------------- MODULE LinkTuner -----------------------------
(***************************************************************************)
(* The arithmetic of the Link Quality Tuner and of the receiver gain that  *)
(* channel configuration programs, rt2800lib.c.  Everything here is a pure *)
(* operator over the chip identity, the band, the HT40 flag, the LNA gain  *)
(* read from EEPROM and the measured RSSI; the state the tuner keeps       *)
(* (qual->vgc_level) and the register it writes (BBP 66) live in the       *)
(* modules that use these operators.                                       *)
(*                                                                         *)
(* A chip is a record [rt |-> <chip family>, rev2860C |-> BOOLEAN]; the    *)
(* second field is rt2x00_rt_rev(rt2x00dev, RT2860, REV_RT2860C).  All     *)
(* results are 8-bit register values: the C code stores them in a uint8_t  *)
(* or passes them to rt2800_bbp_write(..., const uint8_t value), so the    *)
(* sums wrap modulo 2^8.                                                   *)
(***************************************************************************)
EXTENDS Integers

U8(x) == x % 256

\* The band a channel number lies in (curr_band after rt2x00lib_config).
Band(ch) == IF ch <= 14 THEN "2GHZ" ELSE "5GHZ"

\* Mutant: the baseline computed in a wider type than uint8_t.
DefaultVgcWide(chip, band, ht40, lna) ==
    IF band = "2GHZ" THEN 28 + 2 * lna ELSE 50 + (lna * 5) \div 3

\* rt2800_get_default_vgc: the baseline gain for the chip and band.
rt2800_get_default_vgc(chip, band, ht40, lna) ==
    LET rt == chip.rt IN
    U8(IF band = "2GHZ"
       THEN IF rt \in {"RT3070", "RT3071", "RT3090", "RT3290", "RT3390",
                       "RT3572", "RT3593", "RT5390", "RT5392", "RT5592",
                       "RT6352"}
            THEN 28 + 2 * lna                      \* 0x1c + 2 * lna_gain
            ELSE 46 + lna                          \* 0x2e + lna_gain
       ELSE IF rt \in {"RT3593", "RT3883"} THEN 32 + (lna * 5) \div 3
            ELSE IF rt = "RT5592" THEN 36 + 2 * lna
            ELSE IF ~ht40 THEN 50 + (lna * 5) \div 3   \* 0x32
            ELSE 58 + (lna * 5) \div 3)                \* 0x3a

\* The chip-specific bonus rt2800_link_tuner adds above its RSSI threshold.
VgcBonus(chip, band, rssi) ==
    CASE chip.rt \in {"RT3572", "RT3593"} ->
            IF rssi > -65 THEN (IF band = "2GHZ" THEN 32 ELSE 16) ELSE 0
      [] chip.rt = "RT3883" -> IF rssi > -65 THEN 16 ELSE 0
      [] chip.rt = "RT5592" -> IF rssi > -65 THEN 32 ELSE 0
      [] OTHER              -> IF rssi > -80 THEN 16 ELSE 0

\* rt2800_link_tuner returns at once on an RT2860 revision C.
TunerDisabled(chip) == chip.rev2860C

\* The level rt2800_link_tuner asks rt2800_set_vgc to program.
TunedVgc(chip, band, ht40, lna, rssi) ==
    U8(rt2800_get_default_vgc(chip, band, ht40, lna) + VgcBonus(chip, band, rssi))

(***************************************************************************)
(* The value rt2800_init_bbp leaves in BBP 66: every init_bbp_* variant    *)
(* writes 0x38 (directly or through rt2800_init_bbp_early), except the     *)
(* RT6352 table, which writes 0x1c.  The EEPROM BBP table applied after   *)
(* it (EEPROM_BBP_START) is taken to carry no entry for BBP 66.            *)
(***************************************************************************)
InitBbp66(chip) == IF chip.rt = "RT6352" THEN 28 ELSE 56

(***************************************************************************)
(* rt2800_config_channel: the chips whose channel switch writes BBP 66     *)
(* ("AGC init") and the value they write.                                  *)
(***************************************************************************)
ChannelWritesBbp66(chip) ==
    chip.rt \in {"RT3352", "RT3572", "RT3593", "RT3883", "RT5592", "RT6352"}

ChannelAgc(chip, ch, lna) ==
    U8(CASE chip.rt = "RT3352" -> 38 + lna                           \* 0x26
         [] chip.rt \in {"RT3572", "RT3593"} ->
              IF ch <= 14 THEN 28 + 2 * lna ELSE 34 + (lna * 5) \div 3
         [] chip.rt = "RT3883" ->
              IF ch <= 14 THEN 46 + lna ELSE 32 + (lna * 5) \div 3
         [] OTHER ->                                  \* RT5592, RT6352
              (IF ch <= 14 THEN 28 ELSE 36) + 2 * lna)

(***************************************************************************)
(* rt2800_config_lna_gain: which EEPROM LNA field a channel uses.  `ee` is *)
(* a record of the (already validated) EEPROM fields: lnaBg and lnaA0 of   *)
(* EEPROM_LNA, lnaA1 of EEPROM_RSSI_BG2, lnaA2 of EEPROM_RSSI_A2 and       *)
(* extA1, extA2 of EEPROM_EXT_LNA2.                                        *)
(***************************************************************************)
rt2800_config_lna_gain(chip, ee, ch) ==
    LET ext == chip.rt \in {"RT3593", "RT3883"} IN
    CASE ch <= 14  -> ee.lnaBg
      [] ch <= 64  -> ee.lnaA0
      [] ch <= 128 -> IF ext THEN ee.extA1 ELSE ee.lnaA1
      [] OTHER     -> IF ext THEN ee.extA2 ELSE ee.lnaA2
=============================================================================
