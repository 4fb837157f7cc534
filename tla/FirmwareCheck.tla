--------------------------- MODULE FirmwareCheck ---------------------------
(***************************************************************************)
(* Firmware image validation and upload, rt2800lib.c:                      *)
(*   rt2800_check_firmware_crc, rt2800_check_firmware, rt2800_load_firmware *)
(* and the CRC helper of kernel/crc_ccit.h.                                *)
(*                                                                         *)
(* An image is a sequence of bytes.  The size unit is scaled down: the     *)
(* constant Unit stands for the 4096-byte block (8192 = 2 * Unit), which   *)
(* keeps every length test, the chunk loop and the CRC arithmetic of the   *)
(* code while letting TLC compute CRCs over whole images.                  *)
(*                                                                         *)
(* The bus driver that calls these functions is not part of the           *)
(* repository: as the spec (4.2) describes it, it validates the image      *)
(* once and uploads it only when the validation returned FW_OK.            *)
(***************************************************************************)
EXTENDS Integers, Sequences

CONSTANTS
    Chips,   \* records [rt |-> chip family, bus |-> "usb" | "pci" | "soc"]
    Images,  \* the firmware files the bus driver may be handed
    Unit     \* bytes standing for 4096

VARIABLES
    chip,          \* rt2x00dev->chip and the bus kind, fixed by probe
    image,         \* the firmware file
    checkResult,   \* what rt2800_check_firmware returned ("none": not yet)
    loadResult,    \* what rt2800_load_firmware returned ("none": not yet)
    autowake,      \* AUTOWAKEUP_CFG is non-zero
    dma,           \* WPDMA_GLO_CFG TX/RX DMA enables
    fwWritten,     \* rt2800_drv_write_firmware transferred the image
    mailboxReset,  \* H2M_BBP_AGENT and H2M_MAILBOX_CSR cleared
    bootSignal     \* MCU_BOOT_SIGNAL sent

vars == <<chip, image, checkResult, loadResult, autowake, dma, fwWritten,
          mailboxReset, bootSignal>>

-----------------------------------------------------------------------------
(* The CRC.                                                                *)

\* Bit i of x, and the exclusive or of two 16-bit values, bit by bit.
Bit(x, i) == (x \div 2 ^ i) % 2

Xor16(a, b) ==
    LET X(i) == ((Bit(a, i) + Bit(b, i)) % 2) * 2 ^ i IN
    X(0) + X(1) + X(2) + X(3) + X(4) + X(5) + X(6) + X(7) + X(8) + X(9)
        + X(10) + X(11) + X(12) + X(13) + X(14) + X(15)

\* One bit step of the reflected CCITT polynomial (0x8408).
CrcBitStep(c) == IF c % 2 = 1 THEN Xor16(c \div 2, 33800) ELSE c \div 2

\* k bit steps.
CrcBitSteps(c, k) ==
    LET s[j \in 0 .. k] == IF j = 0 THEN c ELSE CrcBitStep(s[j - 1]) IN s[k]

\* crc_ccitt_table (kernel lib/crc-ccitt.c): entry i is i through 8 steps.
crc_ccitt_table == [i \in 0 .. 255 |-> CrcBitSteps(i, 8)]

\* crc_ccitt_byte: (crc >> 8) ^ crc_ccitt_table[(crc ^ c) & 0xff].
crc_ccitt_byte(crc, c) == Xor16(crc \div 256, crc_ccitt_table[Xor16(crc, c) % 256])

(***************************************************************************)
(* crc_ccitt(crc, buffer, len): crc_ccitt_byte over the buffer, in order.  *)
(* The running value is tested first (crc < 0 never holds) so that TLC,    *)
(* which passes arguments unevaluated, computes it before recursing.       *)
(***************************************************************************)
RECURSIVE crc_ccitt(_, _)
crc_ccitt(crc, buf) ==
    IF crc < 0 \/ buf = <<>> THEN crc
    ELSE crc_ccitt(crc_ccitt_byte(crc, Head(buf)), Tail(buf))

\* swab16: exchange the two bytes of a 16-bit value.
swab16(x) == (x % 256) * 256 + x \div 256

\* Mutant: the stored CRC compared without the byte swap.
CheckFirmwareCrcUnswapped(data) ==
    LET len == Len(data) IN
    data[len - 1] * 256 + data[len] = crc_ccitt(65535, SubSeq(data, 1, len - 2))

\* rt2800_check_firmware_crc(data, len): the last two bytes, big-endian,
\* against the byte-swapped CRC (initial value ~0) of the rest.
rt2800_check_firmware_crc(data) ==
    LET len == Len(data) IN
    data[len - 1] * 256 + data[len] = swab16(crc_ccitt(65535, SubSeq(data, 1, len - 2)))

(***************************************************************************)
(* Reference definition, independent of the table: the closed-form byte    *)
(* update of the same CRC (as in avr-libc's _crc_ccitt_update):            *)
(*   d = byte ^ lo8(crc); d ^= d << 4 (8 bits);                            *)
(*   crc = ((d << 8) | hi8(crc)) ^ (d >> 4) ^ (d << 3),                    *)
(* and the sealed block format it defines: the payload followed by the     *)
(* CRC, low byte first.                                                    *)
(***************************************************************************)
CrcUpdateRef(crc, byte) ==
    LET d0 == Xor16(byte, crc % 256)
        d  == Xor16(d0, (d0 * 16) % 256)
    IN Xor16(Xor16(d * 256 + crc \div 256, d \div 16), d * 8)

RECURSIVE CrcReference(_, _)
CrcReference(crc, buf) ==
    IF crc < 0 \/ buf = <<>> THEN crc
    ELSE CrcReference(CrcUpdateRef(crc, Head(buf)), Tail(buf))

Seal(payload) ==
    LET crc == CrcReference(65535, payload) IN payload \o <<crc % 256, crc \div 256>>

Sealed(block) == block = Seal(SubSeq(block, 1, Len(block) - 2))

-----------------------------------------------------------------------------
(* rt2800_check_firmware.                                                  *)

IsUsb == chip.bus = "usb"

\* fw_len: 4 KiB for USB devices and the RT3290, 8 KiB otherwise.
FwLen(c) == IF c.bus = "usb" \/ c.rt = "RT3290" THEN Unit ELSE 2 * Unit

\* The fw_len blocks the CRC loop walks: offsets 0, fw_len, ... below len.
Blocks(data, fwLen) ==
    { SubSeq(data, o + 1, o + fwLen) : o \in { k * fwLen : k \in 0 .. (Len(data) \div fwLen) - 1 } }

rt2800_check_firmware(c, data) ==
    LET fwLen == FwLen(c)
        len == Len(data)
    IN CASE len # fwLen /\ len % fwLen # 0 -> "BAD_LENGTH"
         [] c.bus = "usb" /\ c.rt \notin {"RT2860", "RT2872", "RT3070"}
              /\ len \div fwLen = 1 -> "BAD_VERSION"
         [] \E b \in Blocks(data, fwLen) : ~rt2800_check_firmware_crc(b) -> "BAD_CRC"
         [] OTHER -> "OK"

-----------------------------------------------------------------------------
(* The firmware lifecycle of one device.                                   *)

Init ==
    /\ chip \in Chips
    /\ image \in Images
    /\ checkResult = "none"
    /\ loadResult = "none"
    \* a device re-opened after use may still have DMA and auto-wakeup on
    /\ autowake \in BOOLEAN
    /\ dma \in BOOLEAN
    /\ fwWritten = FALSE
    /\ mailboxReset = FALSE
    /\ bootSignal = FALSE

CheckFirmware ==
    /\ checkResult = "none"
    /\ checkResult' = rt2800_check_firmware(chip, image)
    /\ UNCHANGED <<chip, image, loadResult, autowake, dma, fwWritten,
                   mailboxReset, bootSignal>>

(***************************************************************************)
(* The waits of rt2800_load_firmware that can fail, in order:              *)
(* rt2800_enable_wlan_rt3290 (RT3290 only), rt2800_wait_csr_ready and the  *)
(* PBF_SYS_CTRL_READY poll after the upload.                               *)
(***************************************************************************)
LoadFailures(c) ==
    (IF c.rt = "RT3290" THEN {"wlan"} ELSE {}) \cup {"csr", "pbf", "none"}

\* Mutant: the upload leaves WPDMA_GLO_CFG as it found it.
LoadFirmwareKeepsDma(fail) ==
    /\ loadResult' = IF fail = "none" THEN "OK" ELSE "EBUSY"
    /\ autowake' = (autowake /\ fail = "wlan")
    /\ dma' = dma
    /\ fwWritten' = (fail \in {"pbf", "none"})
    /\ mailboxReset' = (fail = "none")
    /\ bootSignal' = (fail = "none" /\ IsUsb)

\* Mutant: the RT3290 wake-up error (-EIO) returned as it is.
LoadFirmwarePassesWlanError(fail) ==
    /\ loadResult' = CASE fail = "none" -> "OK" [] fail = "wlan" -> "EIO" [] OTHER -> "EBUSY"
    /\ autowake' = (autowake /\ fail = "wlan")
    /\ dma' = (dma /\ fail \in {"wlan", "csr"})
    /\ fwWritten' = (fail \in {"pbf", "none"})
    /\ mailboxReset' = (fail = "none")
    /\ bootSignal' = (fail = "none" /\ IsUsb)

\* rt2800_load_firmware, failing at `fail`.
rt2800_load_firmware(fail) ==
    /\ loadResult' = IF fail = "none" THEN "OK" ELSE "EBUSY"
    \* AUTOWAKEUP_CFG = 0 once the RT3290 wake-up succeeded
    /\ autowake' = (autowake /\ fail = "wlan")
    \* rt2800_disable_wpdma before the upload, and again after it
    /\ dma' = (dma /\ fail \in {"wlan", "csr"})
    /\ fwWritten' = (fail \in {"pbf", "none"})
    /\ mailboxReset' = (fail = "none")
    /\ bootSignal' = (fail = "none" /\ IsUsb)

LoadFirmware ==
    /\ checkResult = "OK"
    /\ loadResult = "none"
    /\ \E fail \in LoadFailures(chip) : rt2800_load_firmware(fail)
    /\ UNCHANGED <<chip, image, checkResult>>

Next == CheckFirmware \/ LoadFirmware

Spec == Init /\ [][Next]_vars

-----------------------------------------------------------------------------
(* Properties *)

TypeOK ==
    /\ chip \in Chips
    /\ image \in Images
    /\ checkResult \in {"none", "OK", "BAD_LENGTH", "BAD_VERSION", "BAD_CRC"}
    /\ loadResult \in {"none", "OK", "EBUSY"}
    /\ {autowake, dma, fwWritten, mailboxReset, bootSignal} \subseteq BOOLEAN

(***************************************************************************)
(* The CRC verdict of rt2800_check_firmware is the reference one: once the *)
(* length and version tests pass, the image is accepted exactly when every *)
(* fw_len block of it is sealed with the reference CRC-16 of its payload. *)
(* This ties together the table-driven crc_ccitt, the initial value, the   *)
(* swab16 and the big-endian read of the stored bytes, and the offsets of  *)
(* the block loop.                                                         *)
(***************************************************************************)
CrcVerdictMatchesReference ==
    checkResult \in {"OK", "BAD_CRC"} =>
        ((checkResult = "OK") <=> \A b \in Blocks(image, FwLen(chip)) : Sealed(b))

(***************************************************************************)
(* Spec 4.2 and 8.2: an image that validates carries at least one          *)
(* CRC-checked block, i.e. it is not empty.                                *)
(***************************************************************************)
AcceptedImageNonEmpty ==
    checkResult = "OK" => Len(image) > 0

(***************************************************************************)
(* Spec 4.2 step 8: when rt2800_load_firmware returns 0 the image is on    *)
(* the device, DMA is disabled (whatever state the device was opened in),  *)
(* auto-wakeup is off, the mailbox is cleared and, on USB, the MCU has had *)
(* its boot signal.                                                        *)
(***************************************************************************)
LoadedDeviceReady ==
    loadResult = "OK" =>
        /\ checkResult = "OK"
        /\ fwWritten /\ mailboxReset
        /\ ~dma /\ ~autowake
        /\ bootSignal = IsUsb
=============================================================================
