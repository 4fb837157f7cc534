# TLA+ models of the rt2800 userspace radio driver

This directory holds TLA+ models of the radio control engine in
`src/capture_hak5_wifi_coconut/libwifiuserspace/rt2800usb/rt2800lib.c`,
its CRC helper `kernel/crc_ccit.h`, the channel hopper
`src/kismet_hopper.cc` and the config file reader it uses
(`src/unnamed/part_000`). It also holds the TLC configurations that check
them. `PROJECT.json` lists:

- every component, with its status;
- every run and what it checks;
- the mutants that show each property can fail;
- the source lines each definition models;
- the findings and the hazards.

## The system

| Part | Code (`rt2800lib.c` unless named) | Modules |
|------|------|-------|
| Register access (BBP read, MCU mailbox, busy polls) | `rt2800_bbp_read` (109-138), `rt2800_mcu_request` (507-530), `rt2800_wait_bbp_ready` (3088-3111) | `RegisterAccess` |
| Chip probe | `rt2800_probe_rt` (7691-7737) | `EepromManager` |
| EEPROM manager | word maps and `rt2800_eeprom_*` (305-440), efuse (570-631), `rt2800_validate_eeprom`, `rt2800_init_eeprom` (6031-6330) | `EepromManager` |
| Radio enable path | `rt2800_enable_radio` (5930-6015), `rt2800_init_rfcsr` dispatch (5877-5927) | `RfBringUp`, `Rt2x00Radio` |
| Filter calibration | `rt2800_init_rx_filter`, `rt2800_rx_filter_calibration` (4085-4207), `rt2800_bw_filter_calibration` and helpers (5270-5611) | `RxFilterCal`, `RxFilterSweep`, `BwFilterCalSpec`, `BwFilterCal` |
| Firmware loader | `rt2800_check_firmware_crc`, `rt2800_check_firmware`, `rt2800_load_firmware` (6344-6506), `crc_ccitt_byte` | `FirmwareCheck` |
| Radio state machine | `rt2x00lib_start/stop/enable_radio/disable_radio` (7445-7527) | `Rt2x00Radio` |
| Link tuner and channel gain | `rt2800_get_default_vgc` … `rt2800_link_tuner` (2464-2571), `rt2800_config_lna_gain`, `rt2800_config` and `rt2x00lib_config` (7426-7441, 7611-7689), the AGC and TX_PIN_CFG parts of `rt2800_config_channel`, `rt2800_vco_calibration` (6712-6803), `rt2x00link_reset_tuner` | `LinkTuner`, `Rt2x00Radio` |
| Channel hopper | `main`, `parse_hopseq`, `defaulthopper`, `CatchShutdown` of `kismet_hopper.cc` | `ChannelHopper` |
| Channel dispatch | the RF switch of `rt2800_config_channel` (7008-7071) | `ChannelDispatch`, composed into `RfBringUp` |
| Config file reader | `ConfigFile::ParseConfig`, `FetchOpt`, `FetchOptVec` (part_000 30-110) | `ConfigFile`, composed into `ChannelHopper` |

**How the parts interact.** The bus driver drives the engine. It is not in
the repository; spec §6 describes it. It probes the chip, reads and repairs
the EEPROM, validates and uploads the firmware, and starts the device. The
enable path then talks to the MCU through its mailbox, waits for the BBP,
runs the RF init of the chipset the EEPROM manager settled on (which runs
one of the two filter calibrations), and sends the MCU the current and LED
commands. Once the radio is on, channel switches and the once-a-second link
tuner write BBP 66, the receiver gain, through three writers with one cache
(`qual->vgc_level`).

**Concurrency.** Spec §5 says the caller serialises every call on a device
handle, so each exported entry point of the engine runs in one thread. The
one true second actor is the MCU: its firmware runs next to the driver and
takes mailbox commands at its own pace. The hopper is a separate
single-threaded process, with a signal handler and an outside actor that
creates the kill file.

## Modules

### `LinkTuner` (operators only)

Pure `uint8_t` gain arithmetic: `rt2800_get_default_vgc`, the tuner's
`VgcBonus` and `TunedVgc`, the BBP 66 value `InitBbp66` that
`rt2800_init_bbp` leaves, `ChannelAgc`/`ChannelWritesBbp66` for
`rt2800_config_channel`, and `rt2800_config_lna_gain`.

### `Rt2x00Radio` (the device handle after bring-up)

State: the `started` and `enabledRadio` flags, the MAC TX/RX and DMA
enables, band, HT40, LNA gain, the register `bbp66`, the tuner's
`vgcLevel`, the `libconf.rf` channel last configured (`rfChannel`, 0
after the memset), the enable fields of TX_PIN_CFG (`txPin`, a set of
named fields: PA and LNA enables per band and chain, RFRX, RFTR, TRSW),
the AUTOWAKEUP flag of `rt2800_config_ps` (`autowake`), and an auxiliary
`lastCall`. Actions: the four `rt2x00lib_*` lifecycle calls with their
no-op paths (`rt2800_enable_radio` inside with a chosen failure point
`wpdma`, `drvInit`, `bbpRf`, `bbp` or `none`); `rt2x00lib_config` with any
subset of the CHANGE_CHANNEL and CHANGE_PS flags, which resolves an HT40
configuration to its centre channel (`rt2x00ht_center_channel`), fills or
zeroes `libconf.rf`, and calls `rt2800_config` (the LNA gain from
`libconf.rf.channel`, then on a channel change the BBP 66 write and the
TX_PIN_CFG value of `rt2800_config_channel`, then on a PS change the
auto-wakeup flag); `rt2800_vco_calibration`, which masks the PA enables
out of TX_PIN_CFG and sets the current band's ones again only for the RF
chipsets of its switch; `rt2x00lib_config_antenna` followed by
`rt2x00link_reset_tuner`; and `rt2800_link_tuner`.

### `FirmwareCheck`

`rt2800_check_firmware` over byte-sequence images (length, USB version and
per-block CRC tests; `Unit` stands for 4096 bytes), the table-driven
`crc_ccitt_byte` against a closed-form reference, and
`rt2800_load_firmware` with its three failing waits and its effects on the
DMA enables, the mailbox and the boot signal. The caller's protocol
(validate once, upload only on FW_OK) is modelled from spec §4.2.

### `EepromManager`

State: the device record `hw` (fixed), the bring-up `phase`, the efuse
cursor `efi` and latched `efuseData`, the chip `rt`, the image `img`
(word offset to 16-bit value), and what `rt2800_init_eeprom` derives: `rf`,
`ant`, `caps`, `freqOffset`, `ledReg`. One action per step:
`rt2800_probe_rt`, `rt2800_read_eeprom` (bus read that may fail),
`rt2800_efuse_read` (one 8-word block per step, with its ignored kick
timeout), `EfuseDone`, `rt2800_validate_eeprom` (every repair rule, through
the chip's word map), `rt2800_init_eeprom`. Only the words these functions
touch are modelled.

### `RxFilterCal` and `RxFilterSweep`

`RxFilterCal` is what `rt2800_rx_filter_calibration` promises, as one
atomic step: the 20 and 40 MHz codes of a reference sweep (`SweepRef`),
BBP 25/26 cached, and the borrowed registers restored except RFCSR 24
and 31. `RxFilterSweep` follows the code: a setup step per call of
`rt2800_init_rx_filter`, one step per stopband iteration (with the break,
the 100-try bound and the overtune count), and the return with its single
step back. `RxFilterCal` also lets RF registers change between
calibrations (`RfcsrWrite`), as the RF init tables do. An `entry` history variable gives the refinement mapping
(`Abs == INSTANCE RxFilterCal WITH ...`), checked as `RxCalRefined`.

### `BwFilterCalSpec` and `BwFilterCal`

`BwFilterCalSpec` is the RT6352 corner search as one step per call: the
smallest code whose attenuation exceeds the target, 63 or 0 at the ends,
every borrowed register back. `BwFilterCal` follows the code's goto
`do_cal` loop one corner code per step, with `char` arithmetic whose
signedness is the constant `CharSigned`, and the save/restore of the RF
bank-5, BBP, DCOC and MAC registers. It refines the spec (`BwCalRefined`).

### `RegisterAccess`

The register layer the enable path depends on.

- `rt2800_bbp_read(bbp0, i)`: the value of the i-th read of BBP 0. A BBP
  whose busy bit never clears times out in `WAIT_FOR_BBP`, which leaves
  all ones in `reg`, so the read returns 0xff; a BBP still asleep answers
  0x00 until its `readyAt`-th read.
- `rt2800_wait_bbp_ready`: some read within `BusyCount` tries is neither
  0x00 nor 0xff.
- `rt2800_mcu_request` in three steps: `McuCall` (mutex taken),
  `McuWait` (`WAIT_FOR_MCU`: write the mailbox when the owner bit is clear,
  or give the request up silently when the MCU still owns it), `McuHostCmd`
  (the `HOST_CMD_CSR` write, return).
- `McuTake`: the MCU firmware takes a raised command and clears the owner
  bit. This is modelled from the register protocol, since the firmware is
  not in the repository.

The history sequences `sent` and `dropped` record the requests handed over
and given up.

### `RfBringUp` (composition)

Composes `EepromManager`, `RegisterAccess`, `RxFilterSweep` and
`BwFilterCal`. `enPc` is the next statement of `rt2800_enable_radio`:

| Action | Code |
|--------|------|
| `EnableMacWaits` | `rt2800_wait_wpdma_ready`, `rt2800_init_registers`, `rt2800_wait_bbp_rf_ready` (succeed or fail) |
| `EnableBootSignal` | clear `H2M_BBP_AGENT`/`H2M_MAILBOX_CSR`, `rt2800_mcu_request(MCU_BOOT_SIGNAL)` |
| `EnableWaitBbp` | `rt2800_wait_bbp_ready`, including its own mailbox clear |
| `InitRfcsrTable` | the chipset switch of `rt2800_init_rfcsr` and the writes of the 30xx, 3352, 3390 or 3572 RF table to RFCSR 22, 24 and 31 (`RfTableWrites`) |
| `InitRfcsrRx`, `InitRfcsr6352` | the tables' calibration calls: the RX sweep, or the RT6352 TX and RX searches |
| `EnableRfDone` | the RF init returned |
| `EnableMcuStep` | `MCU_CURRENT` on USB RT3070/3071/3572, then the three LED requests with the EEPROM LED words |
| `EnableReturn` | return 0 |
| `ConfigChannel` | a channel change on the enabled radio: `rt2800_config_channel`'s switch on the RF chipset records the synthesizer procedure it calls (`chanVariant`) |

`McuDriver` runs the wait and host-command steps of a request in progress;
`McuFirmware` is `McuTake`. At Init the loader's own boot signal
(`rt2800_load_firmware`) may or may not have been taken by the MCU yet.

### `ChannelDispatch` (operators only)

`rt2800_config_channel_rf(rf)` is the switch of `rt2800_config_channel`
on `rt2x00dev->chip.rf`: it names the `rt2800_config_channel_rf*`
procedure called, with `rf2xxx` as the `default` branch. The procedures'
register writes are not modelled. `Rt2x00Radio` also takes the RF
identities from here for the switch of `rt2800_vco_calibration`.

### `ChannelHopper`

`kismet_hopper`'s `main` as a program counter over configure, dispatch,
check, divide, round and hop, with the sources, the enable name map, the
per-source hop state (function, template, list, position), the divisions,
`statime` and the kill file. Data is abstracted: a source line is a record
of card type, name, host part and field count; a channel list is a
sequence ending with -1. `CreateKillfile` and `CatchShutdown` are the
outside actors. Line 310's `conf->ParseConfig` is the `ParseConfig` action,
which takes one step of the `ConfigFile` instance `Cf` at a time; the
configure step then reads the sources, the enable line and the old options
through `Cf!FetchOptVec` and `Cf!FetchOpt`.

### `ConfigFile`

`ParseConfig`'s recursion as a stack of open files, each frame a file and
the number of the line its next `fgets` returns. A file is a sequence of
lines, already classified the way lines 45-62 classify them (blank,
comment, bare, empty value, include, option), and whether its last line
ends in a newline. `ReadLine` is one pass of the loop, `IncludeFile` the
nested call, `IncludeFails` a failing `fopen` (a missing file, or no
descriptor or stack left at `MaxOpen` levels, which may also crash), and
`FileEnd` the `feof` break with its `fclose`. `AtEof` is the `fgets`/`feof`
pair: it also ends the loop on a last line without a newline. `Reading`
is a RECURSIVE reference: the file's complete lines with every include
replaced by the included file's reading.

## Runs

| Run | cfg | Expect | Properties |
|-----|-----|--------|------------|
| `radio` | `MCRt2x00Radio.cfg` | pass | `TypeOK`, `RadioFlagMatchesHardware`, `AntennaResetProgramsDefault`, `ReceiveLnasFollowChannel`, `TransmitPasFollowChannel` |
| `radio_tuner` | `MCRt2x00Radio_tuner.cfg` | violation | `TunerLevelApplied` |
| `firmware` | `MCFirmwareCheck.cfg` | pass | `TypeOK`, `CrcVerdictMatchesReference`, `LoadedDeviceReady` |
| `firmware_empty` | `MCFirmwareCheck_empty.cfg` | violation | `AcceptedImageNonEmpty` |
| `eeprom` | `MCEepromManager.cfg` | pass | `TypeOK`, `RepairIdempotent`, `BlankImageSafeDefaults`, `RfInitAfterBootAndBbp`, `ChipIdWordUntouched`, `RxCalRefined`, `BwCalRefined`, `EnableReturns` |
| `eeprom_efuse` | `MCEepromManager_EfuseImageMatchesDevice.cfg` | violation | `EfuseImageMatchesDevice` |
| `eeprom_lna` | `MCEepromManager_LnaGainsBackfilled.cfg` | violation | `LnaGainsBackfilled` |
| `eeprom_rssi` | `MCEepromManager_RssiOffsetInRangeKept.cfg` | violation | `RssiOffsetInRangeKept` |
| `calibration_char` | `MCEepromManager_BwCalRefined.cfg` | violation | `BwCalRefined` with unsigned `char` |
| `hopper` | `MCChannelHopper.cfg` | pass | `TypeOK`, `EnableListRespected`, `ConfigParsedInOrder`, `EveryChannelVisited`, `KillfileStops` |
| `hopper_division` | `MCChannelHopper_DivisionSound.cfg` | violation | `DivisionSound` |
| `hopper_template` | `MCChannelHopper_NoHopWithoutTemplate.cfg` | violation | `NoHopWithoutTemplate` |

**What the passing runs show.**

- `radio`: the ENABLED_RADIO flag is set exactly when the MAC receives and
  DMA runs, over every interleaving of the entry points and every failure
  point of the enable; an antenna reset programs the default gain whatever
  was written before. Once a channel is configured, the receive LNA
  enables of TX_PIN_CFG are on for the channel's band and off for the
  other on every rx chain, through power-save changes and VCO
  recalibrations (`ReceiveLnasFollowChannel`). The two writers of the
  PA enables, `rt2800_config_channel` and `rt2800_vco_calibration`, agree:
  on an RF chipset the recalibration handles, every tx chain's PA is on
  for the tuned band and off for the other, save PA G0 under Bluetooth
  coexistence, which only the channel write keeps on
  (`TransmitPasFollowChannel`).
- `firmware`: once the length and version tests pass, an image is
  accepted exactly when every block carries the reference CRC; after an upload DMA and
  auto-wakeup are off, the mailbox is cleared and the boot signal was sent.
- `eeprom`: from probe to an enabled radio on every device of `MCHardware`. Validation
  is idempotent, never writes word 0 through a missing map entry, and a
  blank image gives the safe defaults. The RX sweep (exact target hits, a
  dead passband tone, a flat and a steep stopband) and the RT6352 search
  (mid-range codes, negative readings, codes 63 and 0) implement their
  atomic specs. The RF init runs only after the boot signal reached the
  mailbox and BBP 0 gave a real version (`RfInitAfterBootAndBbp`), and
  every call of `rt2800_enable_radio` returns (`EnableReturns`), whatever
  the MCU does with the mailbox.
- `hopper`: `ParseConfig` fills `config_map` with the include-expanded
  reading of the file, in order, or fails; it crashes only past the
  nesting bound (`ConfigParsedInOrder`). That an include cycle ends at all
  comes from the environment (descriptors or stack), not from the code, so
  no property claims termination. The enable list is respected, every
  channel of a hopping source's rotation is visited again and again, and
  a kill file stops the hopper.

**Findings** (the violation runs; details in `PROJECT.json`):

1. `radio_tuner`: after a channel switch, `rt2800_set_vgc` suppresses a
   write because `qual->vgc_level` still holds the tuner's last level,
   though `rt2800_config_channel` rewrote BBP 66 (line 2503).
2. `firmware_empty`: a zero-length firmware file is FW_OK (line 6400).
3. `eeprom_efuse`: a timed-out efuse kick is ignored, and the previous
   block is copied into the image (line 612).
4. `eeprom_lna`: on RT3593/RT3883 the EXT_LNA2 A2 test writes the default
   into A1, so an erased A2 gain survives (line 6158).
5. `eeprom_rssi`: `abs()` of an unsigned field clears small negative RSSI
   offsets (line 6134).
6. `calibration_char`: with an unsigned plain `char` (gcc on ARM) the
   RT6352 search stores corner code 0 where a signed build finds 35
   (line 5374).
7. `hopper_division`: `-d` divides the 802.11a list by the 802.11b source
   count: SIGFPE with only ar5k cards, a read past the list otherwise
   (kismet_hopper.cc:591).
8. `hopper_template`: a lone wsp100 source given with `-c` is meant to
   end the hopper, but the test at kismet_hopper.cc:510 reads the source
   list already cleared at line 419. The source keeps `defaulthopper` from
   line 437 with a NULL template, and the hop loop calls it.

TLC also reaches a zero-chain configuration from an all-zeros NIC_CONF0
on RT5390: only an all-ones word is replaced (line 6050). Spec §4.3
disagrees; no run states the all-zeros rule. In the `radio` run it also
reaches two states recorded as hazards without a property: a
power-save-only `rt2x00lib_config` recomputes the LNA gain from the
zeroed `libconf.rf.channel` (the 2.4 GHz field) while the radio stays on a
5 GHz channel (line 860); `rt2800_vco_calibration` on an RF2820
leaves every PA enable cleared after its WARN (line 6767); and with
Bluetooth coexistence on 5 GHz a recalibration turns off PA G0, which
`rt2800_config_channel` keeps on (line 6789).

**Mutants.** Every property of a passing run has a mutant in
`PROJECT.json`: a plausible bug in the mapped code (a dropped byte swap, an
unmasked field, a map without a word, a full step back, a missing
restore, a code loop without its cap, a wait that treats 0xff as ready, a
boot signal that does not clear the mailbox first, a chain switch without
its fall-through) that
TLC must catch under the run's own configuration.

## Bounds and why they are enough

- **`MCRt2x00Radio`**: four chips, one per gain family (RT3572, RT5390,
  RT6352, RT2860C with the tuner disabled), whose RF chipsets cover both
  sides of the VCO switch (RF3052/5390/7620 with a case, RF2820 without);
  a channel table of ten entries holding both HT40 centres of each
  configuration; six configurations: channels 1, 36, 100 and 149 (one per
  LNA field), HT20 and both HT40 directions, channel 40/104 minus giving
  centres 38/102; RSSI on each side of the -80 and -65 dBm thresholds;
  three images: programmed with one TX and two RX chains, programmed with
  three of each and Bluetooth coexistence (the G0 PA case), and erased
  (the `uint8_t` wrap); TX_PIN_CFG at reset either clear or all set, so
  that the RT6352 read-modify-write sees both. 184,193 states.
- **`MCFirmwareCheck`**: `Unit` = 4 bytes; sealed blocks of both sizes,
  every single-bit flip of bit 0 and bit 7, two-block files, short files,
  the empty file; one chip per branch of the length and version tests.
  7,110 states.
- **`MCEepromManager`**: devices covering each word map, the RT3290 MAC
  register, the SoC rename, unsupported chips; programmed, partly erased,
  blank and all-zero images; efuse devices with and without kick timeouts;
  RT3070/RT3390 radios for the RX sweep, one RT3071, RT3352 and RT3572
  radio each so that every RF table ahead of the sweep runs, and three
  RT6352 radios for the search; three RT3070 devices whose BBP answers on the third read, on the
  100th (just past the budget) and never (stuck busy bit). `BusyCount` is
  100, the REGISTER_BUSY_COUNT of the Linux driver, so the loop bounds are
  the real ones. The registers before the RF init are all zeros or all
  ones; the RF tables then overwrite the ones they write. A channel change may follow on every enabled radio. 44,912 states.
- **`MCChannelHopper`**: up to three sources; one invocation per path of
  the setup code and the card mixes that reach the hop loop with and
  without `-d`. Each invocation names its config file in `MCConfFiles`.
  `main.conf` has an include, lines of every kind and two enablesources
  lines, and includes a file whose last line has no newline. `loop.conf`
  includes itself, `broken.conf` includes a missing file, and one
  invocation names no existing file. `MaxOpen` is 3, so the cycle reaches
  the descriptor/stack limit after two nested opens. 6,052 states.

## Fairness

- `ChannelHopper`: weak fairness on `main`'s own steps. It is one thread
  in an endless loop. There is no fairness on the kill file or the signal,
  which come from outside.
- `RfBringUp`: weak fairness on the enable path's steps, on the RF init
  dispatch, on the calibration steps of both calibrators, and on the
  driver's steps of a mailbox request. All of them are statements of one
  thread that sleeps but never blocks. The MCU gets **no** fairness: its
  firmware is closed and need not ever take a command. `EnableReturns`
  holds because every wait is bounded, not because the MCU answers.
- `Rt2x00Radio` and `FirmwareCheck` carry no fairness and no liveness
  property: their entry points are called from outside, and nothing
  promises a call.

`CHECK_DEADLOCK FALSE` is set where the process really stops: bring-up and
firmware validation run once per device, and the hopper ends by exit, a
signal or a fault.

## What is not modelled, and why

- **Register tables** of `rt2800_init_registers`, `init_bbp_*`,
  `init_rfcsr_*` and `config_txpower`. These are straight-line writes of
  constants that no property observes. Only BBP 66, the MAC/DMA enables
  and the registers the calibrations borrow are kept, including the RF
  tables' writes to RFCSR 22, 24 and 31.
- **RFCSR/RF accessors and `rt2800_bbp_write_with_rx_chain`.** Each is one
  register write behind a busy wait. The read-back of BBP 27 in
  `with_rx_chain` can write 0xff back after a timed-out read; `rt2800_set_vgc`
  reaches it on RT3572/3593/3883/5592, and the model treats that write as
  a direct BBP 66 write, since the BBP register file is not modelled.
- **The MCU's handling of commands.** The firmware is closed. The model
  shows that `rt2800_wait_bbp_ready`'s mailbox clear can release an
  untaken boot signal (hazard at line 3099), but no property states what
  the MCU then does.
- **Per-RF channel programming.** The body of each `rt2800_config_channel_rf*`
  procedure is not modelled: it writes register fields whose masks are
  defined in `rt2800.h`, which is not in the repository. For the same
  reason TX_PIN_CFG is a set of named fields, and `PA_PE_DISABLE` is read
  by its name, as the mask that keeps everything but the PA enables. TX
  power and IQ calibration are not modelled; of `rt2800_config_ps` only
  the auto-wakeup flag is.
- **`rt2800_config_ant`** and the BBP 3 writes of `init_bbp_3352/6352`,
  which overwrite the antenna and HT40-minus fields; the BBP register file
  is outside the model. Nor are the RT6352 BBP writes at the end of
  `rt2800_vco_calibration`.
- **`ConfigFile::ExpandLogPath`** (part_000 117-248). No program under
  `src/` calls it, so none of its behaviour is reachable.
- **Line contents.** Lines reach the model already classified. `StrStrip`,
  `StrLower` and lines longer than the 8 KiB buffer (which `fgets` splits)
  are not modelled.
- **Several hopper processes.** The pid file check at line 211 unlinks
  the running instance's pid file (hazard in `PROJECT.json`). The model
  follows one process.
- **Byte-level USB transport.** The spec puts it out of scope.

Planned next: `rt2800_config_ant` with a model of the BBP 1/3 fields it
writes, so that an antenna change interleaves with the HT40-minus setting
of a channel change.
