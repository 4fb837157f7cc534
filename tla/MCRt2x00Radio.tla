--------------------------- MODULE MCRt2x00Radio ---------------------------
(***************************************************************************)
(* Model values for Rt2x00Radio: one chip of each gain-programming family  *)
(* (set_vgc through the RX-chain helper with a channel AGC write, plain    *)
(* set_vgc, the RT6352 table, and the RT2860C whose tuner is off, whose    *)
(* RF2820 also has no case in rt2800_vco_calibration), channel settings    *)
(* reaching every LNA field of rt2800_config_lna_gain in both widths and   *)
(* both HT40 sidebands, and an RSSI on each side of the -80 and -65 dBm    *)
(* tuner thresholds.                                                       *)
(***************************************************************************)
EXTENDS Rt2x00Radio

MCChips ==
    { [rt |-> "RT3572", rev2860C |-> FALSE, rf |-> Ch!RF3052],
      [rt |-> "RT5390", rev2860C |-> FALSE, rf |-> Ch!RF5390],
      [rt |-> "RT6352", rev2860C |-> FALSE, rf |-> Ch!RF7620],
      [rt |-> "RT2860", rev2860C |-> TRUE,  rf |-> Ch!RF2820] }

\* A part of the rt2800 channel table: primaries and their 40 MHz centres.
MCHwChannels == <<1, 3, 36, 38, 40, 100, 102, 104, 149, 151>>

\* Channel settings mac80211 may request (HT40 only where it is allowed).
MCConfs ==
    { [chan |-> 1,   width |-> "ht40plus"],
      [chan |-> 36,  width |-> "ht40plus"],
      [chan |-> 40,  width |-> "ht40minus"],
      [chan |-> 100, width |-> "ht20"],
      [chan |-> 104, width |-> "ht40minus"],
      [chan |-> 149, width |-> "ht40plus"] }

\* The power-on value of TX_PIN_CFG is not known: all enables off or on.
MCTxPinResets == {{}, AllPins}

MCRssis == {-90, -70, -60}

(***************************************************************************)
(* EEPROM images after rt2800_validate_eeprom: a programmed one with one   *)
(* TX and two RX chains, the same with three chains of each and Bluetooth  *)
(* coexistence, and an erased one.  EEPROM_LNA is never validated, so an  *)
(* erased word leaves LNA_BG = LNA_A0 = 0xff, and the A1/A2 fields that    *)
(* are 0xff are replaced by that same 0xff default_lna_gain; the erased    *)
(* NIC_CONF0 and NIC_CONF1 get the defaults 1 TX, 2 RX, no coexistence.    *)
(***************************************************************************)
MCEeproms ==
    { [lnaBg |-> 2, lnaA0 |-> 4, lnaA1 |-> 5, lnaA2 |-> 6, extA1 |-> 5, extA2 |-> 6,
       tx |-> 1, rx |-> 2, btCoexist |-> FALSE],
      [lnaBg |-> 2, lnaA0 |-> 4, lnaA1 |-> 5, lnaA2 |-> 6, extA1 |-> 5, extA2 |-> 6,
       tx |-> 3, rx |-> 3, btCoexist |-> TRUE],
      [lnaBg |-> 255, lnaA0 |-> 255, lnaA1 |-> 255, lnaA2 |-> 255,
       extA1 |-> 255, extA2 |-> 255, tx |-> 1, rx |-> 2, btCoexist |-> FALSE] }
=============================================================================
