-------------------------- MODULE MCFirmwareCheck --------------------------
(***************************************************************************)
(* Model values for FirmwareCheck.  Unit = 4 bytes stands for 4096, so a   *)
(* 4 KiB block is two payload bytes and its CRC, an 8 KiB block six.  The  *)
(* images are built from sealed blocks (the vendor format), blocks with    *)
(* one bit flipped (in the payload or in the stored CRC, lowest and        *)
(* highest bit), files cut one byte short, and the empty file, over both   *)
(* block sizes.  The chips cover the four branches of the length and       *)
(* version tests.                                                          *)
(***************************************************************************)
EXTENDS FirmwareCheck

MCUnit == 4

MCChips ==
    { [rt |-> "RT3070", bus |-> "usb"],    \* USB, needs the first 4 KiB
      [rt |-> "RT5390", bus |-> "usb"],    \* USB, needs an upper part
      [rt |-> "RT2860", bus |-> "pci"],    \* PCI, 8 KiB blocks
      [rt |-> "RT3290", bus |-> "pci"] }   \* PCI, 4 KiB blocks

\* Flip bit b of byte i.
FlipBit(s, i, b) == [s EXCEPT ![i] = Xor16(s[i], 2 ^ b)]

Corruptions(blk) == { FlipBit(blk, i, b) : i \in 1 .. Len(blk), b \in {0, 7} }

Good4 == { Seal(p) : p \in { <<0, 0>>, <<18, 52>>, <<255, 255>> } }
Good8 == { Seal(p) : p \in { <<0, 0, 0, 0, 0, 0>>, <<1, 2, 3, 4, 5, 6>> } }

Blocks4 == Good4 \cup UNION { Corruptions(g) : g \in Good4 }
Blocks8 == Good8 \cup UNION { Corruptions(g) : g \in Good8 }

MCImages ==
    {<<>>}
    \cup Blocks4 \cup Blocks8
    \cup { g \o b : g \in Good4, b \in Blocks4 }
    \cup { g \o b : g \in Good8, b \in Blocks8 }
    \cup { SubSeq(g, 1, Len(g) - 1) : g \in Good4 \cup Good8 }
=============================================================================
