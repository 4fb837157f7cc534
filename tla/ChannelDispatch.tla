--------------------------- MODULE ChannelDispatch --------------------------
(***************************************************************************)
(* The RF dispatch of rt2800_config_channel (rt2800lib.c 7039-7076): the   *)
(* switch on rt2x00dev->chip.rf that picks the synthesizer procedure of a  *)
(* channel change.  A procedure is named after its function,               *)
(* rt2800_config_channel_<name>; its register writes are not modelled.     *)
(***************************************************************************)
EXTENDS Integers

\* RF chipset identities (the RF* constants of rt2800.h).
RF2820 == 1
RF2850 == 2
RF2720 == 3
RF2750 == 4
RF3020 == 5
RF2020 == 6
RF3021 == 7
RF3022 == 8
RF3052 == 9
RF3320 == \hb
RF3322 == \hc
RF3053 == \hd
RF5592 == \hf
RF3070 == \h3070
RF3290 == \h3290
RF3853 == \h3853
RF5350 == \h5350
RF5360 == \h5360
RF5362 == \h5362
RF5370 == \h5370
RF5372 == \h5372
RF5390 == \h5390
RF5392 == \h5392
RF7620 == \h7620

\* The procedure the switch of rt2800_config_channel calls for rf.
rt2800_config_channel_rf(rf) ==
    CASE rf \in {RF2020, RF3020, RF3021, RF3022, RF3320} -> "rf3xxx"
      [] rf = RF3052                                 -> "rf3052"
      [] rf = RF3053                                 -> "rf3053"
      [] rf = RF3290                                 -> "rf3290"
      [] rf = RF3322                                 -> "rf3322"
      [] rf = RF3853                                 -> "rf3853"
      [] rf \in {RF3070, RF5350, RF5360, RF5362, RF5370, RF5372,
                 RF5390, RF5392}                     -> "rf53xx"
      [] rf = RF5592                                 -> "rf55xx"
      [] rf = RF7620                                 -> "rf7620"
      [] OTHER                                       -> "rf2xxx"
====
