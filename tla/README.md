# Model checking Cr50 AP RO verification, the TPM transports, USB EP0, U2F, the EC queue, image jumps and fan control

This directory holds TLA+ models of these parts of the code, the TLC
configurations that check them, and `PROJECT.json`:

- the AP read-only firmware verification in
  `src/common/ap_ro_integrity_check.c`;
- the TPM-over-SPI peripheral in `src/chip/g/spp.c` and
  `src/chip/g/spp_tpm.c`;
- the TPM-over-I2C peripheral in `src/chip/g/i2cp.c`;
- the ring-buffer queue in `src/common/queue.c`;
- the USB control endpoint (EP0) of `src/chip/g/usb.c`;
- the image jumps, jump tags, reset flags, lock and reboot commands of
  `src/common/system.c`;
- the U2F secrets in NVMEM and the presence check of `src/board/cr50/u2f.c`;
- the fan channels and their HOOK_TICK control loop in
  `src/zephyr/shim/src/fan.c`.

`PROJECT.json` maps every modelled definition to the
source lines it translates, and lists the runs, mutants, findings and hazards.

## The system

On every boot the Cr50 (H1) decides whether the AP may run. An AP_RO_VALIDATE
request reaches `do_ap_ro_check` on the TPM task. The request can come from the
vendor command `ap_ro_check_callback` or from `validate_ap_ro` (an internal TPM
extension call). `do_ap_ro_check` then takes these steps:

1. **Support.** `ap_ro_check_unsupported` decides whether verification applies
   at all. It can answer Board ID blocked, page not programmed, page
   unreadable, or OK.
2. **Legacy (V1).** If the H1 flash page holds a factory-seeded digest, the
   AP RO ranges are hashed through the SPI hash shortcut (`validate_ranges_sha`).
3. **Cache (V2 fast path).** If the page holds a V2 descriptor,
   `validate_cached_ap_ro_v2` re-reads the GVD (gsc_verification_data) at the
   cached offsets. It compares the digest of the header and ranges with the
   cached one, then hashes the ranges.
4. **Trust chain (V2 full scan).** Otherwise
   `validate_and_cache_ap_ro_v2_from_flash` walks the AP flash at 4 KiB
   strides looking for an FMAP with an RO_GSCVD area, and runs `check_gscvd`
   on each one:
   - header binders (magic, size, `fmap_location`, Board ID);
   - ranges, keyblock, root key hash, keyblock signature, GVD signature,
     then the range digest.
   - On success it calls `require_future_checks`, which clears an INFO word
     so that checks become mandatory, and `save_gvd_hash`, which applies the
     rollback floor, erases the page and writes the descriptor.
5. **Verdict.**
   - A success gives PASS and releases the EC reset override.
   - ROV_FAILED, or any non-success once `check_is_required()`, latches FAIL
     and starts `keep_ec_in_reset`, a deferred call that asserts EC reset and
     re-arms itself every 100 ms.
   - Anything else gives UNSUPPORTED_TRIGGERED.

Other operations that change state:

- `ap_ro_device_reset` runs on the hook task at AP reset and clears a non-FAIL
  verdict.
- `vc_seed_ap_ro_check` writes or erases the V1 record. It is refused once the
  Board ID type is programmed, except in CR50_DEV builds.
- `ap_ro_info erase` (CR50_DEV only) erases the page.
- `vc_get_ap_ro_status` reports the verdict.

## Modules

| Module | Models |
|---|---|
| `ApRoVerify` | The whole file: the record store, range hasher, V1 verifier and seed command, V2 verifier, cache manager and the result/enforcement state machine, with H1 flash faults, power loss and shared-memory accounting. |
| `MC_ApRoVerify` | Model values and small image sets for TLC. |
| `Queue` | `common/queue.c`: the ring, its free-running size_t head and tail, and every call that changes them. |
| `QueueAbstract` | What the queue promises: a bounded FIFO whose calls return the number of units moved. |
| `MC_Queue` | Two unit values for TLC. |
| `SppTpm` | `chip/g/spp.c` and `chip/g/spp_tpm.c`: the SPP FIFOs and stall byte, both SPP interrupts, the TPM receive state machine, interface stop/start, and a TPM host. |
| `MC_SppTpm` | One register address and two byte values for TLC. |
| `I2cp` | `chip/g/i2cp.c`: both register files, the write-complete interrupt, the posting calls, the SDA poller and its restart, and a TPM host that may wedge the bus. |
| `MC_I2cp` | Two byte values, the response lengths and the symmetry for TLC. |
| `UsbEp0` | `chip/g/usb.c`, EP0: the driver state and EP0 registers, every EP0 handler, `usb_reset` and `usb_interrupt`, against a USB host and the DWC core. |
| `MC_UsbEp0` | Descriptor lengths and four control requests for TLC. |
| `System` | `common/system.c`: the jump data and jump tags in retained RAM, `system_common_pre_init`, `jump_to_image`, `system_run_image_copy`, `system_disable_jump`, the lock, `handle_pending_reboot` and its console, host and shutdown callers, chip resets, and `system_unsafe_to_overwrite` against a reference. |
| `MC_System` | Two tag values and one reset cause for TLC. |
| `U2F` | `board/cr50/u2f.c`: the G2F salt, KEK seed and key-handle salt in NVMEM (committed and uncommitted), their RAM copy loaded by `get_state`, `u2f_gen_kek_seed`, reboots, and the power-button presence. |
| `MC_U2F` | The failing operations for TLC. |
| `Fan` | `zephyr/shim/src/fan.c`: every fan channel's status, the PWM it drives, `SLEEP_MASK_FAN`, the `fan_set_*` calls and the HOOK_TICK control loop. |
| `MC_Fan` | The channels' flags for TLC. |

### State (`ApRoVerify` VARIABLES)

| Variable | Models |
|---|---|
| `rec` | The H1 flash page `p_chk`. It is blank, V1 (a content digest), V2 (FMAP slot, GVD location, header), or garbage. Garbage is a page that neither `find_v2_entry` nor `verify_ap_ro_check_space` accepts. |
| `required` | The INFO word (`check_is_required`). |
| `bid` | The Board ID type. |
| `apro_result` | The static verdict. |
| `hold` | Whether the `keep_ec_in_reset` deferred call is armed. |
| `ecRst` | The EC reset line. |
| `leaked` | Units of shared memory never released. |
| `req` | A validate request waiting for the TPM task. |
| `hookPc` | `ap_ro_device_reset` between its test and its store. |
| `image` | The AP flash. |
| `seeded`, `checked`, `memFault` | History variables for the properties: digests ever seeded, the content the last run examined, memory-safety faults committed. |

### Data abstraction

- An AP flash image has an RO content (a model value), two FMAP candidate
  slots and two GVD locations.
- An FMAP slot holds a GVD location, "no FMAP" or "FMAP without RO_GSCVD".
- A GVD is a header record plus `flaw`, the first check of the chain it fails.
  The header record holds `fmap_location`, Board ID, rollback counter and the
  content its range digest names.
- Cryptography is the assumption that a GVD whose chain verifies was signed
  by the vendor (an ASSUME in the module). Hashes are equality of contents.
- One heap unit stands for one `shared_mem_acquire`, and `HeapCap` is the heap.

### Actions

- **`do_ap_ro_check(x, ff)`** is one atomic step of the TPM task.
  - `x` is the transport mode for the run: every AP SPI read works, or every
    one fails.
  - `ff` is at most one H1 flash fault: the INFO write, the page erase or the
    page write fails or loses power.
  - The step threads an accumulator through the callees. Each callee
    (`read_ranges`, `read_keyblock`, `read_rootk`, `unpack_pubk`,
    `verify_keyblock`, `verify_gvd_signature`) is an operator that does
    nothing once an earlier one failed, which is the code's early return or
    `goto exit`.
  - The scan is the RECURSIVE `ScanFrom`.
  - Power loss in a run ends it in the `Rebooted` state.
- **`ap_ro_device_reset`** is split into its test and its store. This lets
  the higher-priority TPM task run between them.
- **The environment** can:
  - program Board ID (`ProgramBoardId`);
  - reflash the AP (`ReflashAp`);
  - reboot the H1 (`H1Reboot`);
  - deassert EC reset (`EcRstDeasserted`);
  - send requests (`ap_ro_check_callback`).

## Runs

| Run | Expect | Properties | Shows |
|---|---|---|---|
| core | pass | TypeOK, PassMeansAuthorised, CacheHoldsOnlyVerified | In a CR50_DEV build, which is a superset of the release build's behaviours, no interleaving of checks, reflashes, seeding, AP resets and reboots passes unvouched content or poisons the cache. This holds over a live or dead AP transport, with any one H1 flash operation failing or losing power. |
| live | pass | FailKeepsEcInReset | On a fault-free flash, a FAIL verdict always re-asserts EC reset. |
| leak | violation | AuthenticImageNotFailed | Leaks in `check_gscvd` starve a later valid run. |
| queue_fifo | pass | TypeOK, ChunksCoverQueue, QueueRefinesFifo | Every sequence of queue calls, across wraps of the counters, implements the bounded FIFO; the DMA chunks stay inside the free or queued units. |
| spp | pass | TypeOK, WritesDelivered, TransactionsAcknowledged | Every completed TPM write reaches `tpm_register_put` once, with its payload. Every transaction is acknowledged on INT_AP_L, across wake pulses, both SPP interrupts and interface restarts. |
| spp_abort | violation | NoPutOutsideRxbuf | A host that times out a stalled write makes the CS-deassert drain pass a pointer before `rxbuf` to `tpm_register_put`. |
| i2cp | pass | TypeOK, HandlerGetsWrittenBytes, PostedBytesInFile, StuckBusRecovers | Every write-complete callback gets exactly the bytes written since the last callback or restart, and posted response bytes stay in place. A wedged bus is always released. |
| i2cp_recovery | violation | NoSpuriousRecovery | A lost reset of `i2cp_sda_low_count` makes the driver restart in the middle of a healthy transaction. |
| system | pass | TypeOK, TagsRestored, BootRecordTrue, UnsafeCoversWrites, AddsOnlyDuringSysjump | Across jumps (also from an older RO image with jump data version 1 or 2), chip resets at any point of a sysjump, power loss, and the lock and reboot commands: every tag added in a sysjump is found by the next image and no tag survives a reset, the reset flags tell how the image was entered, tags are added only during a sysjump, and `system_unsafe_to_overwrite` flags every in-flash write that touches the running image. |
| u2f | pass | LoadedStateMatchesNv, LegacyRegistrationsKept | With every NVMEM write and TRNG draw free to fail and reboots anywhere, the salts the key derivations use are the ones in NVMEM, and a device that used U2F before the KEK seed existed keeps its salt as KEK seed until a TPM clear. |
| fan_sleep | violation | SleepBlockedWhileDriving | With two channels, `fan_set_duty(1, 0)` allows deep sleep while channel 0 drives its PWM. |
| usb | pass | TypeOK, HostGetsItsData, SetupHandled | With only EP0 raising the USB interrupt, every SETUP is handled once and every completed IN data stage delivers min(wLength, descriptor length) bytes, across bus resets, stalls and early SETUPs. |

`PROJECT.json` gives the findings that each violation shows. Four more
findings have no run of their own, because the number of runs is bounded;
each is reproduced by checking the named property under the named
configuration:

- **Mandatory checks bypassed** (`RequiredMeansEnforced`; the constants of
  `ApRoVerify_live.cfg` with `Images <- ReleaseImages`, `XferModes = {"ok"}`,
  `FlashFaults <- AllFlashFaults` and `SPECIFICATION Spec`). After
  `require_future_checks` cleared the INFO word, a failed or interrupted
  erase or write in `save_gvd_hash` leaves a page that neither
  `find_v2_entry` nor `verify_ap_ro_check_space` accepts. Every later
  `do_ap_ro_check` returns UNSUPPORTED_TRIGGERED (line 718) before it
  consults `check_is_required()`, so the AP boots unverified. No passing
  run checks `RequiredMeansEnforced`: on a fault-free flash it only
  restates the `check_is_required()` test at line 1465.
- **The first SPI read does not stall** (`ReadsReturnRegister` under
  `SppTpm_pass.cfg`'s constants). `spp_if_start` sets the stall byte in
  `init_new_cycle`, and then `spp_configure` writes 0xff to DUMMY_WORD
  (`spp.c`, line 191). The first read after every interface start returns
  filler instead of the register.
- **A failed KEK seed write is kept** (`KekMatchesNv` under
  `U2F_pass.cfg`). `u2f_gen_kek_seed` draws the new seed into the loaded RAM
  state and keeps it when `write_tpm_nvmem_hidden` fails. Key handles
  wrapped until the next reboot stop working after it.
- **A new device gets its salt as KEK seed** (`FreshKekNotSalt` under
  `U2F_pass.cfg`). A first `load_state` that stores the salt and then fails
  to draw or write the KEK seed leaves `t_salt` set for the retry. The retry
  takes the "previously used u2f" branch and copies the salt into the KEK
  seed, where the comment says a device that never used U2F gets a new
  seed.

 Some properties
are defined in `ApRoVerify` but no current run checks them:
`ResetHoldMeansFail`, `RollbackNeverDecreases` and `NoOutOfBoundsRead`. Each
of them fails on the sequence its hazard in `PROJECT.json` describes. The
`AuthenticImageNotFailed` property, checked here only by the leak run, also
fails over a dead AP SPI transport (`validate_and_cache_ap_ro_v2_from_flash`,
line 1343) and over a failing INFO or cache-page write (`check_gscvd`,
line 1303). The code latches FAIL there even before checks are mandatory,
where the spec (section 7) calls for UNSUPPORTED. `NoHeapOverflow` is
violated with `TinyKbImages` of `MC_ApRoVerify` in place of the core images:
`read_keyblock` (line 868) copies a keyblock larger than the buffer it
allocated. The run is kept out of the run list for lack of room; the hazard
in `PROJECT.json` records it.

Each property of a passing run has a mutant: a plausible bug in a mapped
definition under which TLC finds the property violated. The mutants are:

- allocation results unchecked;
- the cached-digest compare dropped;
- the rollback floor dropped;
- `check_is_required()` ignored in the verdict;
- `keep_ec_in_reset` not re-arming;
- `queue_count` computed without the size_t wrap;
- `queue_get_write_chunk` treating a masked tail equal to head as wrapped;
- `queue_advance_tail` not clamping to the free space;
- `spp_advance_rx` not moving the read pointer;
- `tpm_register_put` taking the payload right after the header;
- `spp_rx_interrupt` not setting `seen_data`;
- the poller's threshold test `>` instead of `==`;
- `word_in_value` not fetched before the copy loop;
- the fill's first register index taken as `last_read_pointer & 15` instead of `>> 2`;
- `check_i2cp_state` not unwedging the bus;
- `load_in_fifo` without its `IN_BUF_SIZE` limit;
- `expect_status_phase_in` without its zero-length packet;
- `stall_both_fifos` not re-arming the OUT descriptor;
- `system_add_jump_tag` without its size limit;
- `system_add_jump_tag` without its magic test;
- `system_common_pre_init` not moving the tags of an older jump data struct;
- `system_common_pre_init` ignoring `reset_flags` when it tests for a jump;
- `system_unsafe_to_overwrite` testing only the write's start;
- `load_state` not noticing a failed `setvar` of the new salt;
- `load_state` drawing a new KEK seed even for a device that had a salt.

## The queue

`Queue` keeps `head` and `tail` as the code does: free-running counters of
width `SizeBits`, masked with `BufferUnits - 1` when used as indices (the
Bitwise `&`). `buffer` is the ring, `out` the units the last call copied to
the caller, `ret` its return value. Each call of `queue.c` that changes the
queue or returns units is one action: `queue_init`, `queue_advance_tail`,
`queue_advance_head`, `queue_add_unit`, `queue_add_memcpy`,
`queue_remove_unit`, `queue_remove_memcpy`, `queue_peek_memcpy`, and
`WriteChunkUnit`, a producer writing into the chunk from
`queue_get_write_chunk` before it calls `queue_advance_tail`.

The refinement mapping `Items` reads the queued units from the masked
counters; `QueueRefinesFifo` is `QueueAbstract!Spec` under that mapping,
checked as a temporal property. The unit size is one and the policy
callbacks are the null policy; both are left out.

Bounds: 2 units and a 2-bit size_t, so the counters wrap after two laps of
the ring and every wrap of the ring and of size_t is reached within a few
calls; counts up to 3, one more than the ring, so every clamp is exercised.
The passing run peeks at offset 0 only. With `PeekIndices = {0, 1}`
(offset 1 on an empty queue is past the data) TLC finds `QueueRefinesFifo`
violated: `queue_peek_memcpy` computes `available - i` before testing
`i < available`, the size_t difference wraps, nothing is copied and the call
returns `count` (queue.c line 236). A run showing this was kept in an earlier
version; it was retired to keep the number of runs small, and the hazard at
line 236 in `PROJECT.json` records it.

## The TPM SPI peripheral

`SppTpm` models three actors.

- **The host.** It is a TPM host as Linux `tpm_tis_spi` drives one. It sends
  a 4-byte header (read or write, size, register address) and polls bit 0
  of every MISO byte from the fourth on until the device stops stalling.
  Then it clocks the data and deasserts CS.
  - Before a transaction it may send a wake pulse: a CS deassertion with no
    data.
  - With `ApGivesUp` it may time out a stall and deassert CS.
  - After each transaction it waits for the INT_AP_L pulse.
- **The RX-level interrupt** (`_sps0_interrupt`).
- **The CS-deassert interrupt** (`spp_cs_deassert_interrupt`). Its three
  steps are separate actions: the late wake-pulse check, the clearing of
  TXFIFO_EN, and the re-check.

Both interrupts have priority 1 and do not nest. State:

- The FIFOs are sequences of bytes. `dummy` is DUMMY_WORD, the byte the TX
  side sends when its FIFO is empty or disabled: `STALL_ASSERT` "00",
  `STALL_DEASSERT` "01" or the hardware default "ff".
- The receive state machine of `spp_tpm.c` is threaded through each
  interrupt as a record (`H`/`SetH`).
- `tpm_register_get` returns any register contents.
- Each `tpm_register_put` is logged with the offset of its source pointer
  from `rxbuf`.
- `spp_if_stop`/`spp_if_start` (the TPM reset hooks) may run between
  transactions.

The order in which the NVIC takes two pending interrupts of equal priority
is not fixed by the code. The constant `DeassertFirst` lets the passing run
take a pending CS_DEASSERT first. With the other order, a late wake-pulse
handler disables TX in the middle of a read, and TLC finds the host stalled
for good.

Bounds:

- FIFOs and `rxbuf` of 8 bytes, RX threshold 3 (the code's value);
- one address, two data values, transfers of 1 or 2 bytes;
- two transactions per behaviour, one stall poll.

The first transaction after a start never stalls (the finding on
`ReadsReturnRegister` above), so
the abort run needs two transactions. It uses 16-byte FIFOs and
`rxbuf`, one data value, and transfers of up to 6 bytes, so that the missing
payload can exceed what `rxbuf` holds.

## The TPM I2C peripheral

`I2cp` keeps both register files byte by byte. A word is four consecutive
bytes, so the read-modify-write of a register is modelled by the bytes it
keeps and the bytes it replaces. The copy loop of `_i2cp_write_complete_int`
is the recursive `UnpackLoop`, which fetches a new word at every aligned
pointer. `i2cp_post_read_fill_fifo` keeps its three phases: the partial
first word, the whole words (`FillWords`) and the partial last word.

The actors:

- **The host.** It writes a message byte by byte and waits for the TPM
  layer's ready signal. After a one-byte message (a register address) it
  reads 1 or 4 bytes. In a transaction it may stop clocking while the
  peripheral drives SDA low (`CtlHang`).
- **The write-complete interrupt.** The TPM layer's callback is not in this
  repository. The model treats it as an environment: for a read request it
  calls `i2cp_zero_read_fifo_buffer_depth` and posts register contents with
  either posting call.
- **The deferred poller** on the hook task. `i2cp_sda_low_count++` is split
  into `PollSample` (SDA read and load) and `PollInc` (store, threshold test,
  restart or re-arm), because the interrupt can run between the two.

Polls are 700 ms apart and transactions last under 1 ms. So a poll may see
either SDA level during a transaction, but only one poll sees any given
transaction, and the poll after a store comes after any transaction then in
progress.

`wrote`, `sentMsg` and `posted` are ghost variables. They record the bytes
written since the last callback or restart, and the posted bytes the host
has not clocked out yet.

Bounds:

- 8-byte register files (two words, so both wraps happen);
- messages of 1 or 2 bytes, responses of 1 or 4 bytes (4 reaches the
  whole-word loop, 1 leaves the pointer unaligned);
- four transactions and one wedge;
- `i2cp_read_recovery_count` 2 bits wide. Only its changes matter.

The symmetry over the two data values is sound for every property, the
liveness one included: none of them names a data value.

## USB EP0

`usb_interrupt` runs at priority 1; the host and the DWC core are the
environment. `UsbEp0` keeps the driver's statics (`what_am_i_doing`,
`cur_out_idx`, `next_out_idx`, the two OUT descriptors, the IN chain, the
device address, the handled SETUP) and the EP0 registers it reads and writes
(DOEPINT, DIEPINT, the enable, stall and SETUP bits, DAINTMSK) as one record
`dev`. Each C function is an operator from `dev` to `dev`, so a handler is the
composition of its callees in the code's order.

- **The ISR.** `IsrEnter` reads GINTSTS and DAINT; `IsrBody` does the rest of
  `usb_interrupt` atomically, `usb_reset` and `ep0_interrupt` included. The
  split lets the core DMA a packet between the two reads, as it can.
- **The core.** A SETUP is DMA'd into `next_out_desc` only when that
  descriptor is ready and the endpoint enabled; a descriptor marked LAST
  disables the endpoint; the SETUP-phase-done bit follows the first token
  after a SETUP; a SETUP clears STALL and ends an IN transfer.
- **The host.** It sends a SETUP from `Requests`, takes the IN data stage
  packet by packet (ending on a short packet or at wLength), sends the status
  OUT, and may reset the bus or start a new SETUP early. It sends a SETUP
  only when the device is quiescent (no interrupt pending or running): host
  scheduling is far slower than the ISR and DMA.
- **Undefined behaviour.** Before the first packet `cur_out_desc` is NULL and
  the SR read is undefined; the model lets it read either value and any
  request.
- NAK/CNAK are abstracted, and DOEPINT cases D and E (OUT data stages) are
  never raised, since no modelled request has an OUT data stage.

Bounds: packets of 2 bytes and 4 IN descriptors (so `IN_BUF_SIZE` = 8, the
code's ratio scaled down), descriptors of 3, 9 and 4 bytes, and four
requests: a short GET_DESCRIPTOR, one over `IN_BUF_SIZE` (stalled), one whose
length is a multiple of the packet size below wLength, and SET_ADDRESS. Up
to three SETUPs and one bus reset per behaviour.

Two observations the runs do not check:

- With `OtherSources = TRUE` (another interrupt source runs the ISR) TLC
  finds `SetupHandled` violated. A SETUP DMA'd between the GINTSTS read and
  the DOEPINT read reaches `ep0_interrupt` with `intr_on_out = 0`; the
  WAITING_FOR_SETUP_PACKET branch decodes DOEPINT anyway, reads SR from a
  stale or NULL `cur_out_desc`, and re-arms the descriptor that holds the
  SETUP. The code's comment at lines 786-788 says these bits are not
  trustworthy without an interrupt.
- `load_in_fifo` sends no zero-length packet when the data is a multiple of
  the packet size and shorter than wLength; the host then waits in the data
  stage until it times out (GetString in `MC_UsbEp0`).

## System: image jumps and jump tags

`system.c` keeps a `struct jump_data` at the end of RAM, and jump tags just
below it, so that one image (RO or RW) can hand data to the next across
`jump_to_image`. `System` models this:

- **Retained RAM.** A position is a byte distance below the end of RAM. The
  struct is `JD` = 24 bytes (version 3); version 2 was `JUMP_DATA_SIZE_V2` =
  16 bytes, and version 1 had no `jump_tag_total`. `jd` holds the struct's
  fields. `mem` holds the tag headers, each with its position, tag, size and
  a data token; a position with no header reads as `Junk`. `PutTag` is
  `system_add_jump_tag`: the total grows first, and the header is written at
  the new `system_usable_ram_end`. `TagWalk` is the search loop of
  `system_get_jump_tag`, stepping by `HDR + ROUNDUP4(size)`.
- **A jump.** `jump_to_image` fills the struct and runs the HOOK_SYSJUMP
  hooks. During them (`pc = "sysjump"`) tags may be added. `JumpDone`
  disables interrupts and enters the new image, whose
  `system_common_pre_init` (`Boot`) decides from the magic, the version and
  the chip's reset flags whether this was a jump. If it was, it moves older
  tags by the struct size difference (`MoveTags`, the `memmove`) and clears
  the magic.
- **Resets.** `ChipReset` may happen at any step, during the hooks included.
  RAM is either retained, or lost to junk with an arbitrary magic and
  version. `Init` is a power-on, or a jump from an older RO image (jump
  data version 1 or 2) with its tags.
- **Commands.** `system_run_image_copy` (same image, the lock rule, the
  reset vector check), `system_disable_jump`, the `sysjump`, `reboot` and
  `syslock` console commands, the reboot host command, the shutdown hook,
  and `handle_pending_reboot`.
- **Environment.** A jump reports no chip reset flags; a real reset reports
  a nonempty set (`Causes`). `system_reset` is chip code: a soft reset is
  reported as `soft`, a hard or cold one as `hard`. The statics
  (`force_locked`, `disable_jump`, `reboot_at_shutdown`) start anew in every
  image.
- **`system_unsafe_to_overwrite`** is checked against `WriteHitsImage`, the
  plain definition of "the write's byte range meets the protected region",
  over every write inside a 16-byte flash with 5-bit offsets.

Bounds: two tags; sizes 1, 5 (not a multiple of 4) and 256 (over the
uint8_t limit); three boots and two adds per behaviour, which reaches a jump
after a jump and a reset in the middle of the hooks after an add. The lock
is off or fully on (write protect asserted and RO protected).

## U2F: secrets in NVMEM and the presence check

`u2f.c` keeps three secrets in NVMEM: the G2F salt (an nvmem variable
that replaced the deprecated U2F salt), the KEK seed and the key-handle
salt (hidden TPM objects). `get_state` loads them into a static RAM copy
once per boot, and the key derivations use that copy. `U2F` models this:

- **Secrets** are numbers. 0 means absent, `LegacySalt` is the salt of a
  device that used U2F before the KEK seed existed, and 1..`MaxRand` are
  values drawn from `DCRYPTO_ladder_random` in this behaviour.
- **NVMEM** has a committed part `nv` and an uncommitted KEK seed `pendKek`.
  `read_tpm_nvmem_hidden` reads through the cache (`HiddenKek`). A reboot
  loses the cache and RAM.
- **`load_state`** is three operators, one per secret (`LoadSalt`,
  `LoadKek`, `LoadKh`). Each follows the code's early returns, with the
  outcome of every `setvar`, TRNG draw and hidden write chosen by TLC. The
  writes done before a failure stay in NVMEM. A crash in the middle is a
  failure followed by `Reboot`, since RAM is lost either way.
- **`u2f_gen_kek_seed(commit)`** is called on a TPM clear; `NvCommit` is
  the clear's later commit of NVMEM.
- **The key derivations** (`u2f_origin_user_keypair`, `u2f_gen_kek`,
  `g2f_individual_keypair`) are one action `UseKeys`. They change the state
  only through `get_state`, and a derived key is determined by the secrets
  it is derived from.
- **Presence.** `power_button_record` and `pop_check_presence` over a
  `get_time()` bounded by `MaxTime`.

Initial NVMEM is one of four states a device can boot with: never used
U2F, used it only with the deprecated salt, used it before the KEK seed
existed, or fully set up. Bounds: every operation may fail, three TRNG
draws, two reboots and three time units. That is enough for a failed
first load, a retry and a reboot, and for presses and presence checks
between them. Presence has no property of its own: what it could state
restates the assignments of `pop_check_presence`. No fairness is assumed: the TPM task calls U2F only on
host requests.

## Fan control

`fan.c` drives each fan channel's PWM and, in RPM mode, adjusts the duty
every HOOK_TICK towards a target speed read back from the tachometer. It
also keeps the `SLEEP_MASK_FAN` bit, which forbids deep sleep while a fan
is driven. `Fan` models this:

- **State.** `fan_status[]` as `fs`, the duty each PWM output drives as
  `pwm` (0 when the channel is disabled), and the sleep-mask bit as
  `noSleep`.
- **Operators.** Each C function is an operator on the whole state, so a
  call is the composition of its callees in the code's order.
  `fan_set_rpm_target` may call `fan_set_enabled` and `fan_set_duty`, and
  the tick's `fan_smart_control` may call `fan_adjust_duty`, which calls
  `fan_set_duty`.
- **Steps.** Every public call is a step, and so is `fan_tick_func`, which
  runs over the channels in order with tachometer readings chosen by TLC.
  The calls come from the host command and console tasks and the tick from
  the hook task, so they interleave in any order.
- **Abstractions.** The PWM pulse width is abstracted to the duty
  percentage. The drivers' "not ready" paths are left out: they only skip
  the hardware update.

The run uses two channels, both able to measure speed, with targets of
0, one inside and one above [`RPM_MIN`, `RPM_MAX`], and tachometer readings
of 0, 2400 and 4800. TLC finds `SleepBlockedWhileDriving` violated in three
calls: `fan_set_enabled(0, 1)` and `fan_set_duty(0, 40)`, in either order,
then `fan_set_duty(1, 0)` before a tick. With `FAN_CH_COUNT = 1` the same model
satisfies it (1,978 distinct states), so single-fan boards are not exposed.

## Bounds

- **Two FMAP slots and two GVD locations.** That is enough for these cases:
  - a candidate that fails before a valid one;
  - a GVD whose `fmap_location` does not match the FMAP that points at it
    (`ImgMoved`);
  - an FMAP without an RO_GSCVD area (`ImgNone`).
- **Four contents (A, B, old, evil) and five headers.** These cover:
  - a valid release;
  - an update with a higher rollback counter;
  - a signed release below the floor;
  - a tampered content under a valid GVD;
  - a self-made GVD.
- **`HeapCap = 3`** lets a few leaking runs happen before a valid run needs
  its two units. The leak run uses 2, which reaches exhaustion sooner.
- **The live run** uses the core image set on a fault-free flash. It checks
  liveness under `HoldSpec`, which keeps only the timer's fairness, on
  `FailKeepsEcInReset` alone. That is
  all `FailKeepsEcInReset` needs, and it spares TLC the `ENABLED` test of
  the check action.
- **Fault sets** are small on purpose: one fault per run is enough to reach
  every partial state of the page.

## Fairness

The TPM task serves every pending request, so `ApRoCheck` has weak fairness.
The hook task finishes `ap_ro_device_reset` once it has started it. The timer
fires an armed deferred call. Nothing is assumed about the environment:
requests, reflashes and reboots may never happen.

- **SppTpm.** A pending interrupt is taken (weak fairness of both handlers'
  steps). The host, once it has started a transaction, keeps clocking, ends
  it, and takes the INT_AP_L pulse. The TPM reset hook that stopped the
  interface starts it again.
- **I2cp.** The write-complete interrupt is taken once pending. The
  deferred poller keeps firing, because it re-arms itself and a restart
  re-arms it. Nothing is assumed of the host.
- **UsbEp0.** A pending USB interrupt is taken and its body completes, and
  the core DMAs a SETUP into a ready descriptor. Nothing is assumed of the
  host.

## Not modelled, and plan for later sittings

- **Abstracted detail in `ap_ro_integrity_check.c`:**
  - the byte layout and checksums of the page;
  - malformed seed payloads, which change nothing;
  - `vc_get_ap_ro_hash`, which is read-only;
  - a failing INFO read in `check_is_required`, which reads as "required";
  - the flash log.
- **Abstracted detail in the TPM transports:**
  - sleep masks, console output and the flash log;
  - the INT_AP_L extension (the CS-assert interrupt);
  - the AP-off branch of `poll_read_state`, which only resets the count;
  - the host's maximum I2C message length, which is set outside this
    repository (see the hazard at `i2cp.c:288`).
- **Not modelled in `system.c`:** version and build-info reporting,
  the sysinfo, scratchpad, sleepmask and jumptags console commands, the chip
  info and VBNV host commands, which read or pass through to chip code;
  hibernate; the MPU programming in `system_disable_jump`. An offset + size
  that wraps past 2^32 in `system_unsafe_to_overwrite` is left to the
  callers' range checks, which are outside this repository.
- **Facts not kept as hazards:** `read_gscvd_header` sums attacker sizes
  into a uint32_t `expected_size` that can wrap, but the wrapped case still
  fails in `read_ranges` or `read_rootk`; `vc_get_ap_ro_status` reports
  UNSUPPORTED_NOT_TRIGGERED for a blank page even while FAIL is latched;
  `spp_tpm.c`'s RX_BAD branch (over `RXBUF_MAX`) is unreachable for a host
  that follows the header format.
- **Facts left out of the hazard list**, for want of room:
  - `system_unsafe_to_overwrite` sums offset and size in uint32_t, so a
    write that wraps past 2^32 is judged safe; its callers bound both.
  - `spp_transmit` truncates to the free TX FIFO room, which exceeds the
    largest read.
  - `keyblock_signature.data_size` is used as a hash length without a
    bound against `keyblock_size` (`ap_ro_integrity_check.c`, line 484).
    `NoOutOfBoundsRead` fails over `KbDataImages`.
  - The missing zero-length packet of `load_in_fifo` (see USB EP0 above).
- **Not modelled in `fan.c`:** the getters and `fan_is_stalled`, which only
  read; the devicetree tables, which are configuration.
- **Planned:** the rest of `usb.c`.
- **Planned refinement.** An abstract `ApRoAbstract` specification of the
  verdict (PASS only for vouched content, FAIL latched until reboot) will be
  shown implemented by `ApRoVerify` through a refinement mapping.
- **Planned reference check.** The FMAP scan will be checked against a
  reference definition over bounded images.
- **The rest of `usb.c`:** the other endpoints' handler tables,
  `setup_data_fifos`, `usb_softreset`, the register programming of
  `usb_init`, suspend, wakeup and connect are register pokes without protocol
  state; descriptor and string bytes are abstracted to lengths.
- **Board, LED, sensor, GPIO and test glue** holds configuration tables
  without protocol state, and is left out.
