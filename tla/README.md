# A TLA+ model of esp-hosted-linux

The repository turns an ESP chip into the Wi-Fi, Bluetooth and 802.15.4 radio
of a Linux host. `host/` is the kernel module, `esp/esp_driver/` the firmware.
They exchange framed packets over SPI, SPI half duplex, SDIO or USB.

What is hard in this program is not the data path but what happens when
something breaks: the firmware resets, a frame is lost, a command never
answers, the module is removed meanwhile. Five kernel contexts then rebuild one
session through about fifteen flag bits, a generation counter and three
cancellable works. The transport underneath has to notice that the counters on
the other side started again, and the firmware has to keep the events of one
Wi-Fi start apart from the next. These are what the project models:

| Module | Models |
|---|---|
| `FwRecovery` | recovery coordinator, boot reconstruction, radio service worker, SPI recovery half, module exit |
| `CmdMailbox`, `CmdService` | the host's command mailbox, and what it promises to a caller |
| `SdioLink` | both ends of the SDIO link |
| `SpiHdLink` | both ends of the SPI half-duplex link |
| `FwCommand` | the firmware's Wi-Fi command processor |
| `FwRecoveryProofs`, `CmdMailboxProofs`, `CmdQueueProofs`, `SdioLinkProofs`, `SpiHdLinkProofs`, `FwCommandProofs`, `FwEventProofs` | theorems about the module they are named after (`CmdQueueProofs`: `CmdMailbox`, `FwEventProofs`: `FwCommand`) |
| `QueueLemmas` | lemmas about a queue without duplicates, cited by `CmdQueueProofs` |
| `MC*` | fault sets and symmetry for TLC |

## 1. Inventory

| Component | State | Operations | Interacts with | Hard behaviour |
|---|---|---|---|---|
| Recovery coordinator (`host/main.c`) | `state_flags`, `state`, `fw_recovery_gen`, `fw_reconstruct_gen`, `fw_boot_reset_attempts`, `fw_boot_deadline`, `fw_boot_commit_epoch`, the delayed work `fw_recovery_work` | `esp_schedule_recovery`, `esp_request_firmware_restart`, `esp_bootup_request_retry`, `esp_fw_recovery_work`, `esp_begin/commit/finish_reconstruction` | called by every failing context; calls the transport's `recover_transport`, `reset_target` | interleaving, stale generation, bounded retry, never losing an owed recovery |
| Boot reconstruction (`host/main.c`) | boot metadata, card, interfaces | `process_event_esp_bootup` and the works in front of it | cancels the watchdog, drives the transport, sends commands, starts OTA | twelve early exits, partial failure after commit |
| Radio service (`host/main.c`) | `radio_service_desired`, published endpoints, `RADIO_INIT_PENDING` | `radio_service_param_set`, `esp_radio_service_work` | gated by recovery, may request a restart | user write against worker, dropped work |
| SPI transport (`host/spi/esp_spi.c`) | `data_path`, `ESP_SPI_RESETTING`, `reset_work`, soft reboot budget and epoch, boot rescue token, queues | `recover_transport`, `reset_target`, `quiesce/reinit/commit`, `spi_work`, probe and remove | callbacks of the coordinator | reset against boot event, acknowledgement lost |
| Command mailbox (`host/esp_cmd.c`) | node pool, free and pending queue, `cur_cmd` | prepare, `cmd_work`, response, timeout, abort, setup, teardown | callers in any context; SPI reports send failures | late response, ambiguous timeout, teardown with waiters |
| MLME staging (`host/esp_cmd.c`, `esp_cfg80211.c`) | staged auth / assoc / disconnect | cfg80211 operations and events | command mailbox | late results |
| SDIO link (`host/sdio`, `sdio_slave_api.c`) | `PACKET_LEN` and `TOKEN` against the host's cursors, TX aggregate and epoch, reset intents, handshake generation | TX thread, RX work, recovery, handshake, suspend, resume, bind | coordinator | wrap-around, baseline after a reset, stale intent, stale aggregate |
| SPI-HD link (`host/spi_hd`, `spi_hd_slave_api.c`) | `TX_BUF_LEN` and `RX_BUF_LEN` against the host's cursors, in-flight marks, ready marker | `spihd_work`, live resync, OPEN, hardware reset, bind | coordinator | unacknowledged DMA, edge interrupt, ready byte of the old firmware |
| USB transport (`host/usb`) | URB pool, deframer | | coordinator | partial frames, disconnect |
| RCP device (`host/esp_rcp.c`) | session nonce, open count | open, write, close, session reset | coordinator | stale session |
| Bluetooth, statistics, debugfs, logging | thin or without protocol state | | | |
| Firmware command processor (`main/cmd.c`) | Wi-Fi life cycle, scan ownership, session generations, one marked and one legacy frame in flight | command dispatch, event handlers, TX-done callback, timer | Wi-Fi library, host | four contexts, asynchronous stop, late callbacks |
| Firmware, rest (`main/app_main.c`, USB slave, radio endpoints) | boot announcement, OTA, slave queues | | the wire | reboot after acknowledgement |

`PROJECT.json` lists the same components with their status, and every hazard at
the line where it bites.

What makes each component correct:

* coordinator: an owed recovery is never forgotten; it ends; the reset budget
  is neither overdrawn nor wasted; a finished recovery leaves no intent behind;
* reconstruction: what is published is the live incarnation, and is usable;
* radio: the last selection wins; a pending publication has somebody to do it;
* SPI: one reset at a time; a commit refills the budget of soft reboots;
* removal: it terminates, and nothing runs afterwards;
* mailbox: a caller gets its own response or an error, nodes are conserved, an
  ambiguous timeout quarantines the firmware, teardown frees no node in use;
* links: a credit is a buffer, the read cursor reaches the boot event, no frame
  and no reset crosses a session, a healthy session has coherent counters and no
  lost wakeup, recovery ends;
* firmware commands: one answer per command, one truthful status per accepted
  frame, no event of a stopped Wi-Fi is taken for one of the running Wi-Fi.

## 2. Plan

1. `FwRecovery`: coordinator, reconstruction, radio worker, SPI recovery half,
   module exit. **Done**, with proofs in `FwRecoveryProofs`.
2. `CmdMailbox`: the command mailbox, with its own abstract specification (a
   caller's call returns once, with its response or an error). **Done**;
   `CmdMailboxProofs` and `CmdQueueProofs` prove its safety properties and the
   refinement.
3. `SdioLink` and `SpiHdLink`: the counted links with their reset handshakes,
   host and firmware. **Done**, each with a module of proofs.
4. `FwCommand`: the firmware's command processor. **Done** for the parts that
   have state across commands, with proofs in `FwCommandProofs` and
   `FwEventProofs`.
5. Left: the boot TLV parser as a function against a reference definition; MLME
   staging; the USB deframer against a reference definition; RCP sessions; a
   composition of mailbox and coordinator under an abstract session
   specification (closed, rebuilding, open).

Every safety invariant of the runs is stated by a theorem (section 9); of the
action properties `BootEventKept` of `SdioLink` is left. It needs the places
where a rebase may be owed across a commit, in the way `Noted` of
`SdioLinkProofs` has them for a reset.

## 3. FwRecovery

### State

Flag bits keep the names of `enum adapter_flags_e` without the prefix. The
generation counters are replaced by what the code compares: `reconStale` says
that `fw_recovery_gen` moved since `fw_reconstruct_gen` was sampled, `recStale`
that it moved since the worker took its local `gen`. The commit epoch appears
as `synced`. This makes the state finite without bounding the counters.
`overtaken` is a history variable: a commit found a restart in flight, scheduled
but not yet requested, or requested and not yet carried out.

`deadline` is `fw_boot_deadline` against `jiffies` (none, armed, passed);
`timer` says that `fw_recovery_work` is pending. Delays are not modelled: a
pending work may run at any time, so every ordering that some delay permits is
explored, and some that the nominal delays make unlikely. `ResetUnderWay` reads
off the place of `esp_spi_reset_work` whether a reset may still reach the
firmware or ask for another.

`pc[t]` is the place of context `t`: `rec` (the watchdog worker), `ev` (the
event worker), `radio`, and each failure reporter in `Errs`. The chain
`esp_bootup_request_retry`, `esp_schedule_recovery`,
`esp_request_firmware_restart`, `reset_target` is shared, so its actions take
`t`; `ret[t]` is the return point.

### Actions

One action is one section under `fw_recovery_lock` or
`spi_reboot_budget_lock`, or a group of unlocked bit operations no other
context can distinguish. Where the code drops a lock between a decision and its
effect, so does the model: `Schedule` and `Arm`, `Request` and `ResetTarget`,
`ResetTarget` and `ResetQueue`, `RecProbe` and `RecLive`, the three steps of
`esp_commit_reconstruction`, the four releases of `reset_work`.
`cancel_*_work_sync` is a step that waits for the other context to be idle.

The firmware is an environment: it boots, announces itself once, answers while
it is alive, crashes or hangs, and reboots when told. `evFresh`, `rstFresh` and
the Boolean queues record whether a boot frame still belongs to the running
incarnation, and `meta` whether the metadata the driver holds (capabilities,
chip, checksum mode, nonce) is that of the running one.

### Abstractions

* SPI backend only; `raw_tp_mode` is 0.
* The boot TLV walk (`EvParse`) is one step that succeeds or fails, and the
  unlocked bit operations before it (`EvBegin`, `host/main.c:1011` to 1036) are
  one step.
* `RstHwReset` and `RstKeepBoot` take the rescue check of `reset_work`
  (`host/spi/esp_spi.c:731`) to find a ready firmware whenever there is one.
* Commands succeed when firmware, data path and state admit it; otherwise, or
  by the fault `cmd`, they fail. The mailbox is `CmdMailbox`; that a timed-out
  command also quarantines the firmware appears here as the fault `stateful`.
* Faults are counted against `MaxFaults` and limited to `FaultKinds`.

### Bounds

| Constant | Values | Why enough |
|---|---|---|
| `Errs` | 1 | a report already races with the watchdog, the event worker, the radio worker and `reset_work`, which all run the same chain |
| `MaxAttempts` | 1 | reaches the terminal state soonest; the code uses 3. The budget invariants are proved for every value |
| `MaxFaults` | 0 to 2 | failure reports (`StatefulError`, `BusError`) count as faults; recovery from one fault already passes through every action |
| `MaxWrites` | 0 or 1 | a write at any point of the worker is one race |

### Runs

| Run | Checks | Shows |
|---|---|---|
| `safety` | `TypeOK`, `WatchdogArmed`, `RecoveryInv`, `BudgetInv`, `ResetSerialised`, `RestartIntentSettles`, `SessionUsable` | with any one fault, with radio control and an OTA in the middle of the rebuild: a recovery is never forgotten, budgets hold, resets are serialised, a settled session has no reset intent, unless its commit overtook one, admits commands and has boot metadata |
| `exit` | `ExitQuiescent`, `ExitCompletes` | removal at any point terminates and leaves nothing that can run |
| `live` | `SoftRebootLeft`, `RecoveryCompletes` | without a reset GPIO, where only the firmware's cooperation or its silence ends a reset: recovery ends, and a late commit callback never costs the next recovery its first reboot, with the same exception |
| `radio` | `RadioConverges` | the last selection is published |

Deadlock checking is off: a settled driver with healthy firmware may do nothing.

### Fairness

`FairSpec` assumes that a queued work runs (`WF` on each worker), a booting
firmware boots, a raised data-ready line is served and time passes. The event
worker and module exit are strongly fair: they wait in `cancel_*_work_sync` for
a work that could be requeued again and again, and the kernel refuses
requeueing while such a wait is in progress. Nothing is assumed of faults,
users or failure reports.

## 4. CmdMailbox

### State and actions

The mailbox is `cmd_pool` (`pool`), `cmd_free_queue` (`free`),
`cmd_pending_queue` (`pend`), `cur_cmd` (`cur`), `cmd_nodes_in_use` (`inUse`),
`next_cmd_seq` (`nextSeq`) and the node fields (`nd`). `wq` is `cmd_wq`: live,
destroyed but not yet `NULL`, or `NULL`.

Three kinds of context use it. *Users* are cfg80211, ioctl and worker contexts:
`Prepare`, `AssignSeq`, `QueueNode`, `Timeout`, `Quarantine`, `Finish`,
`Decode`, `Recycle`, `Kick`, `KickQueue` are the sections of one call, from
`prepare_command_request_for_if` to the end of `wait_and_decode_cmd_resp`. The
*manager* is `process_event_esp_bootup` and, on the way out, `esp_exit`: it
closes the transport, aborts waiters, destroys the queue, waits for the nodes,
sets everything up again, and issues commands of its own meanwhile (`Mgr*`).
`CmdWork` is `esp_cmd_work`. The transport loses, delays and purges frames; the
firmware answers in order, late, or never, and may restart at any moment
(`FwRestart` forgets what it had received).

Unlocked tests are steps of their own where a later step relies on them:
`RxGate` before `RxResponse`, `Kick` before `KickQueue`, `Timeout` before
`Quarantine` and `Finish`. The tests of `prepare_command_request_for_if` that
`get_free_cmd_node` repeats under the lock are not: failing early or late is
the same refusal. Likewise waking up is part of `Finish`.

`id` numbers the commands and `resp` records which one a response answers; the
code has neither. `SeqSpace` is 2^16 in the code.

### Abstractions

* Encoding and decoding of each command is one step that succeeds or is
  refused; only `MONITOR_CONFIG` differs in control, by recycling a node the
  queue refused without waiting.
* `ESP_OTA_IN_PROGRESS` is left out: it is only set during a reconstruction,
  when the codes that may be issued are restricted already.
* The nodes of the free queue are interchangeable, so the queue is a set.
* `MgrSetup` always gets its pool and its work queue; without them
  `esp_commands_setup` fails and there is no mailbox.
* The firmware's `esp_cmd_dispatch` runs one command at a time (`FwAnswer`), so
  the answers leave in the order of the commands.
* Radio, MAC filter and network interface teardown in `esp_remove_card` do not
  touch the mailbox.
* Using a destroyed `cmd_wq` is a no-op here; it can happen (section 8).

### What it promises

`CmdService` is the mailbox as a caller sees it: a call is open, then sent to
the firmware or refused, one call at a time; its outcome is decided once, only
a sent call is answered, and it returns. `ImplementsService` checks the
refinement, with `Progress` reading a caller's state off its node.

| Run | Checks | Shows |
|---|---|---|
| `mailbox` | `TypeOK`, `NodesConserved`, `QueuesOwned`, `ResponseMatches`, `SubmittedIsCurrent`, `NoneStranded`, `AmbiguousQuarantined`, `ImplementsService` | two users and the manager on two nodes, a firmware restart and one fault of any kind |
| `mailbox_live` | `ManagerReturns`, `CallsReturn` | one node, so that the pool runs empty; module removal at any moment; all calls and teardowns return without help from the firmware |

`ResponseMatches` excepts the commands a reconstruction admits, of which
`INIT_INTERFACE` is command 1 of every session; if
the firmware restarts while one is being sent, takes more than the command
timeout to answer, and its boot event starts the next session meanwhile, the
late answer is taken for the new command. Both commands went to the same
firmware incarnation and ask for the same thing. `AmbiguousQuarantined` excepts
them too: one that times out during a reconstruction does not stop its commit.
`NoneStranded` lets `esp_exit` answer for a queued command: it opens the gate of
`cmd_work` again for its own `DEINIT_INTERFACE`, without starting the work, and
aborts what is queued afterwards.

Bounds: two users with one call each are enough for a queue behind a current
command, for two late answers and for a wrap of the sequence number
(`SeqSpace` is 3, so that the third command wraps); one restart gives two
sessions. One restart is a limit of the claim for `ResponseMatches`: a second one
breaks it (section 8). `SYMMETRY` exchanges
users and nodes in the safety run only.

Fairness: a caller goes on and its timeout expires, queued work runs, the
receive worker finishes the frame it holds, the manager goes on. The firmware,
the wire, users and faults are not fair.

## 5. SdioLink

### State and actions

`fw` is the slave: its running state, the host's interrupt bits, `PACKET_LEN`
(`plen`), what is published (`out`), `TOKEN` (`tok`), the buffers it still holds
(`held`) and the handshake registers (`gen`, `done`). `cx` is the host's end:
read cursor, TX cursor, cached credits, and `based`, a history variable that
says whether the cursors were based on the incarnation the firmware's counters
are in now, an earlier one or the one to come. `h` holds the adapter flags and
reset intents every host context shares; `cur` and `fresh` replace the commit
epochs by the comparisons the code makes.

| Context | Actions |
|---|---|
| TX thread | `WritePacket` by its users; `TxBuild`, `TxCredit`, `TxCreditError`, `TxGiveUp`, `TxWrite`, `TxWriteError` |
| RX work and interrupt | `Isr`, `RxLenError`, `RxReset`, `RxNothing`, `ReadPacket`, `ReadError` |
| recovery worker | `RecGate` to `RecAbort`: claim of an intent, TX barrier, hard reset, acknowledged CLOSE, slave reset, OPEN, live resync |
| boot handler | `BootStart`, `BootReinit`, `BootCommit`, `BootFinish`, `BootCallback`, `BootAbort` |
| power management | `PmSuspend` to `PmTimeout` |
| binding | `Probe`, `RemoveStart`, `RemoveEnd` |
| slave | `FwInit`, `FwOpen`, `FwBoot`, `FwSend`, `FwReload`, `FwClose`, `FwRestart`, `FwReset`, `FwPowerSave`, `FwCrash` |

A section under `sdio_claim_host`, or under a spinlock, is one step. The shared
policy of `host/main.c` (schedule, request, retry) is restated as operators on
`h`; its interleavings are the subject of `FwRecovery`.

### Abstractions

* Lengths are 1 for a data packet and 2 for the boot event; the moduli shrink
  with them. The queues hold at most one frame of each kind.
* The firmware sends only answers to what it received.
* A suspend begins only in a healthy session with no boot event in flight.
  `esp_sdio_handshake_mutex` is held within `esp_suspend` and `esp_resume` and
  free between them, so a recovery pass may fall there.
* The device is bound again only after the CLOSE of the removal was processed.
* `BootReinit` takes its baseline whatever the slave holds, as the code does;
  that the slave still holds buffers then is the fault `held`, which `LinkFaults`
  leaves out (section 8).
* A failed OPEN write in `RecResyncOpen` (`host/sdio/esp_sdio.c:1603`, 1643) is a
  pass that ends without a session, as after an OPEN nobody answers. An
  asynchronous `mmc_hw_reset` (1360) is not distinguished from a synchronous one.
* `PmSleep` waits for the drain; the code sleeps one second and warns if frames
  are left (3050 to 3061).
* `FwPowerSave` leaves out the restart after dropped E2H tokens and the failed
  reset of the slave's queues (`sdio_slave_api.c:293` to 309).
* `Init` is a driver with a fresh firmware, or with one still in the session of
  an earlier binding whose counters are about to wrap.

### Run `sdio`

One fault of any kind of `LinkFaults` (bus, write, read, acknowledgement,
power cycle, build, crash, suspend, unbind, user request...), one frame.

| Property | Says |
|---|---|
| `CreditsReal` | a credit the host holds, or would read next, is a buffer the slave has free |
| `BootEventKept` | a published boot event the cursor can reach stays reachable until it is read |
| `AckMeansRestart` | once the host has seen its CLOSE acknowledged, the firmware is on its way to restart or has restarted since |
| `NoStaleTx` | no frame of one session reaches the next |
| `NoStaleReset` | no step of the recovery worker takes down a session that has been committed meanwhile, and no intent crosses a commit |
| `Recovers` | a recovery ends in a session, in the terminal state or with the device gone |

Bounds: `MaxBuf` 2 and `TxMax` 5 make `TOKEN` wrap, `RxMax` 5 makes
`PACKET_LEN` wrap; one attempt reaches the terminal state soonest; one fault
already brings in every context. **One fault is a limit of the claim** for
`CreditsReal`, `NoStaleTx` and `BootEventKept` without exceptions: with more,
section 8 gives the overlaps that break the first two, and section 9 proves them
for any number of faults once those steps are excepted by name. `TypeOK`,
`AckMeansRestart` and `NoStaleReset` are proved for any number.

Fairness: threads, works and the firmware's tasks run (`WF`). The boot handler
is strongly fair, because the recovery worker it has to wait for is queued again
and again, and so are suspend and resume, because the mutex they wait for is
handed over; so is the expiry of a boot deadline when nothing else can end the
wait (`Stuck`), because the watchdog re-arms itself on each pass. `Recovers`
excepts counters that restarted without the host knowing (`faults.silent`); see
section 8.

## 6. SpiHdLink

### State and actions

`fw` holds the registers `SLAVE_READY`, `SLAVE_CTRL`, `TX_BUF_LEN` (`pub`) and
`RX_BUF_LEN` (`arm`), the data-ready line, the descriptors filled and not yet
processed, and whether the firmware is inside a frame (`part`). `cx` is
`struct esp_spi_hd`. `fw.same` is history: the firmware is the one the session
was committed on.

`spihd_work` is `WkStart` to `WkWriteError`; a transaction that fails may have
moved the firmware or not (`Partly`), which the host cannot see. Recovery is
`RecGate` to `RecAbort`, the boot handler `Dispatch` to `BootAbort`;
`reset_target` runs in whichever context asked for it (`h.rst`), as
`ResetClose` and `ResetTarget`. `RecCancel` waits for the worker as
`cancel_work_sync` does. `HwReset` and `HwResetFails` are `spihd_hw_reset`, which
`ResetTarget` and `Probe` share. A failed write may have reached the device,
that of `DATAPATH_ON` in `RecOpen` too.

### Abstractions

* `ResetTarget` cancels the worker, purges, rebases and drives EN in one step.
  The code lets the interrupt queue the worker again in between (2389 to 2399);
  with the step split, TLC finds a state where the worker has read an old boot
  event after the rebase and it is taken for the new firmware's, which violates
  `CountersCoherent` (section 8).
* A segment that does not fit the frame (`Misfit`) is fatal at once; the firmware
  appends it and fails at the checksum (`spi_hd_slave_api.c:514` to 558).
* `FwInit` clears the registers and sets `SLAVE_READY` in one step
  (`spi_hd_slave_api.c:1257` to 1331).
* `WkReadError` also stands for a batch that cannot be split for want of memory
  (`host/spi_hd/esp_spi_hd.c:1596`). A pair of frames sent as one batch (2075 to
  2155) is a longer frame. `spi_hd_skip_probe_reset` is off.

### Runs

`spihd` allows one fault of any kind, and one unbind besides. It checks
`CountersCoherent`, `NoLostWakeup`, `ReadyFresh` and `Recovers`.

`ReadyFresh` is about the byte `SLAVE_READY`, which the host clears before it
resets the chip so that the byte it reads afterwards is the new firmware's.
There are two exceptions, kept in `fw.unmarked`: the clearing write fails, which
`spihd_hw_reset` only warns about (`host/spi_hd/esp_spi_hd.c:2367`), and a
firmware that was itself restarting sets the byte again between that write and
EN. In both the host sends OPEN to a chip that is being reset, the OPEN is lost
and the boot deadline leads to another reset.

`spihd_partial` shows that a session may be resumed in the middle of a frame: a
frame has several segments, and a credit timeout after the first leaves no
transaction ambiguous, so `spihd_resync_live_session` finds nothing wrong while
the firmware waits for the rest of the frame. The comment above the function
promises to "Resume only a provably clean live session".

`spihd_credit` shows that the resume invents credits when the segment counter is
beyond half of its range: `spihd_resync_live_session` clears the credit snapshot
`rx_credit_limit` to 0, and the signed difference at the head of
`spihd_wait_tx_credit` then lies ahead of the counter. The host writes segments
the firmware has no descriptor for until the counter wraps. With the snapshot
set to `tx_segment_count` instead, the same instance has no such state. The
instance has a counter of two bits, so that half of its range is two segments;
in the code it is 2^31 segments, which a busy link sends in days.

Bounds: one frame of two segments and two descriptors exhaust the credit; both
counters start one below their wrap in one of the initial states. **One fault is
a limit of the claim** for `CountersCoherent` and `NoLostWakeup`, not only of the
run: with two faults (or two frames and a restart request that stays pending
across a whole reconstruction) `CountersCoherent` fails, and with a restart
request and a reset GPIO that fails `NoLostWakeup` does, see section 8. For any
number of faults section 9 proves which steps, and no others, lose either;
`ReadyFresh` and `TypeOK` are proved outright. The counters are too wide in this
run for a segment count beyond half of the range to meet a live resync other
than at the wrap itself, where a snapshot of 0 is a real one.

`Recovers` is claimed for a recovery under a boot deadline, or of a session that
was committed. Without either nothing bounds the wait (section 8).

Fairness: as in `SdioLink`. `ResetTarget` is strongly fair: it waits for the
worker, which others may start again.

## 7. FwCommand

### State and actions

`cmd` is the command task with its request and a stack of return points, since
`hosted_wifi_stop` and `hosted_wifi_start` are called from six handlers. `w`
holds the Wi-Fi life-cycle flags, `sc` scan ownership, `s` the session
generations and BSSIDs, `tx` the marked frame (`s_hosted_mgmt`), `lg` the legacy
in-flight slot. `evq` is the default event loop, a FIFO; `fin` are frames that a
context took out of `tx` under the lock and has not reported yet. `lib` is the
Wi-Fi library, external: its connection state, its scan, frames on the air, and
`inc`, which numbers its starts. `out` records what the host was given.
`tx.timers` are the frames whose timeout may still expire: a timer is stopped by
`xTimerStop(timer, 0)` after its frame was taken (`main/cmd.c:561`), a request to
the timer task that may be late or fail unnoticed, and an expiry takes whatever
frame is pending (`main/cmd.c:460`).

Handlers keep the names of the code. A command handler is split where it waits,
calls the library, or stores something that the event loop, the Wi-Fi task or
the timer also reads: `process_auth_request`, `AuthBssid`, `AuthSend`,
`AuthConnect`, `AuthDone`; `hosted_wifi_stop`, `StopReturns`, `StaStopAcked`,
`PostFence`, `FenceAcked`; `process_mgmt_tx`, `MgmtSend`,
`hosted_send_mgmt_accept`, `MgmtTimer`, `MgmtUntimed`,
`hosted_mgmt_mark_accepted`, `MgmtStatus`. The timer's side is
`hosted_mgmt_timeout_cb`, with `hosted_mgmt_take_timeout`, and whoever took a
frame reports it in `hosted_mgmt_finish_owned`.

### Abstractions

* A frame is its body; the TX-done callback matches on addresses and a prefix of
  the body, so two frames with the same body cannot be told apart, as in the
  code. A protected frame is ciphertext and matches a robust one (`Robust`) on
  the header alone (`Header`, `main/cmd.c:401`), whatever the two bodies are.
* An event handler is one step. The test at the head of `OnConnected` (1532) and
  its stores (1537 to 1542), that of `OnDisconnected` (1557) and its use, with a
  `sleep(1)` between them, may be separated in the code by a `hosted_wifi_stop`.
  So are the two sections of `hosted_mgmt_fail_pending` and
  `hosted_mgmt_abort_pending` one step, and the flags and the sending of an
  association (3085 to 3097). Reading `start_timer` and starting that timer
  (697, 700) are one step: in between only an old timer can take the frame, and
  its callback ends in a restart.
* The library: `esp_wifi_connect` and sending an association succeed only in the
  state that fits; `esp_wifi_stop` silences every producer, but posts STA_STOP
  later; `esp_wifi_scan_stop` posts SCAN_DONE before it returns.
* A host is marked or legacy throughout, and has one command at a time, which it
  may give up.
* `WIFI_MODE_AP` requests (3709) are left out. The reset of the STA
  configuration in `process_init_interface` (3414) appears only as a failure.
  `esp_hosted_monitor_config` is three cases: enabled, disabled, failed, and then
  the rollback is done or the chip restarts (`app_main.c:940`). Management frames the library sends of its own accord are not
  modelled.
* Monitor mode on the inherited channel only. Not modelled: authorisation,
  reassociation, keys, IEs, OTA, wake-on-WLAN, AP stations, transmit power.

### Runs

`Init` is what a first command left behind: nothing, a running scan, an
authentication, a session, or a frame in flight, in STA or APSTA mode, from a
marked or a legacy host. Two further commands of any kind follow, with one
failure (`fwcommand`), or one command with two failures (`fwcommand_live`).

| Property | Says |
|---|---|
| `StatusTruthful` | at most one status per frame, not before its acceptance, unless an old timer took it and the firmware restarts; never an acknowledgement more than the air gave to frames that look the same when encrypted |
| `AnsweredOnce` | one answer per command, and none forgotten |
| `StaleEventsInert` | an event of a stopped Wi-Fi changes nothing in the next; a scan is completed by its own completion |
| `MlmeCurrent` | authentication, association and disconnect events name a request of the running Wi-Fi, once |
| `Settles` | handlers return, tracked frames get their status, scan ownership is released |

Two access points and two bodies distinguish "this one" from "another one";
three commands are a leftover, an overlapping one and one that follows.
`SYMMETRY` exchanges access points, and bodies, in `fwcommand` only.

Fairness (`FairSpec`): the command task, the event loop and the timers run, the
library ends its scans and posts STA_STOP. A transmission need never complete
and an access point need never answer. Of the timers only that of the pending
frame is assumed to expire; an older one may or may not. A legacy frame has no timeout in the
code, so `Settles` does not speak of it.

## 8. Disagreements and gaps found while modelling

`spihd_partial` and `spihd_credit` (section 6) are the disagreements kept as
runs. The others are behaviours of the models that no property forbids:

| Place | What happens |
|---|---|
| `host/main.c:710` | a bus error between commit and `radio_service_work`: the work sees `FW_RECOVERY_PENDING` and returns, the live resync clears the bit and queues nothing. Endpoints are never created, the spent budget never returns, although line 1391 says "Hold the reset budget until radio_service_work actually instantiates the configured BT/RCP endpoints" |
| `host/spi/esp_spi.c:321` | the live branch of `esp_spi_recover_transport` stores `READY` over the clamp of a concurrent reset report; TX stays open to a firmware that is being reset |
| `host/main.c:411` | a bus error before the first boot event hides the initial boot timeout; if the boot frame is lost, no reset is ever requested |
| `host/main.c:1333` | after an OTA no deadline is armed; if the watchdog purges the new boot frame from `rx_q`, recovery waits for ever. `OtaConfigured = TRUE` in `FwRecoveryLive.cfg` reproduces it as a violation of `RecoveryCompletes` |
| `host/esp_cmd.c:1444` | the unlocked test of `cmd_wq` at the end of a call races `destroy_cmd_wq`: the node is recycled before the test, so teardown does not wait for this caller |
| `host/sdio/esp_sdio.c:1617` | a crash seen only through an impossible `PACKET_LEN` arms no boot deadline |
| `host/sdio/esp_sdio.c:3078` | when `MMC_PM_KEEP_POWER` fails, the power-save handshake restarts the slave's counters and the host does not rebase |
| `host/sdio/esp_sdio.c:3146` | a recovery pass between the return of `esp_suspend` and the sleep finds the counters the power-save handshake restarted, expects a boot event and arms no deadline: it asks for OPEN without end |
| `host/sdio/esp_sdio.c:1562` | the comment expects `RESET_DONE` for `ESP_RESET`; the slave (`sdio_slave_api.c:336`) restarts and never answers, so this branch always ends in the fallback |
| `host/spi/esp_spi.c:210` | a boot event of the previous incarnation, dequeued before a reset, is rejected only while `ESP_SPI_RESETTING` is set; afterwards it is reconstructed, until the fresh one that follows replaces it, or purges that one as well (next row) |
| `host/main.c:1036` | a firmware that restarts while the boot event of the incarnation before it is waiting: reconstructing that one purges the new event, which is sent once, and the session is committed with the old metadata (`meta` stays `"stale"`), with nothing left to correct it; TLC reaches such a state without any fault, after an early expiry of the initial boot timeout. The comment at line 1020 says "Boot metadata belongs to exactly one firmware incarnation" |
| `host/spi_hd/esp_spi_hd.c:1676` | in INT1 mode data-ready is cleared before the buffer is allocated; when that fails the live resume finds the line low and a frame unread |
| `main/cmd.c:460` | the late timer of one marked frame takes the next one before its acceptance is sent; the callback reports it and restarts the firmware. The comment at line 584 says "The timer is armed only after acceptance has been queued", and the one at line 639 that starting it earlier "could expire and destroy the state before a successful acceptance is ever observable". `StatusTruthful` excepts it by `fin.by` and `up`; without the exception two frames and no failure violate it |
| `main/cmd.c:3034` | AUTH stores `association_ongoing` after `esp_wifi_connect`; a DISCONNECTED handled in between leaves it set, and later AUTH is refused |
| `main/cmd.c:2820` | `s_auth_generation` is stored before `s_auth_bssid`; a late answer of the previous access point is reported under the new number |
| `main/cmd.c:1596` | the SCAN_DONE a customised archive posts for an AUTH lookup is ignored only during the lookup; dispatched later it completes the next scan. `StaleEventsInert` excepts it |

Attempts to prove the properties for any number of faults turned up more, each of
which needs two or three. The first is excepted by the property, the others
bound what is claimed to one fault, or are hypotheses of the theorem:

| Place | What happens |
|---|---|
| `host/main.c:315` | scheduling a recovery and requesting the restart are two sections. A reconstruction that begins after the first may commit before the second: the new session then carries the reset of the old one (`overtaken`), and its soft reboot is charged to the new session |
| `host/spi_hd/esp_spi_hd.c:2580` | `spihd_resync_live_session` stores `data_path` and `READY` without looking at `FW_RESET_EXPECTED` again, and a later pass rebases (2632) without stopping the worker. When a restart request falls between, the worker writes across the rebase: one credit is lost, and a boot event of the old firmware, or a reset that failed, can be committed on such counters. `CountersCoherent` fails with two faults. `host/main.c:474` says "Retry OPEN (without rebasing)" |
| `host/main.c:382` | the boot deadline is looked at before `CLEANUP_IN_PROGRESS` and `ALLOW_RECONSTRUCT`, and the retry clears the former, so that a recovery pass may run beside the reconstruction. On SDIO an aggregate built after the barrier of that pass survives its hard reset: `NoStaleTx` fails with two attempts and three faults |
| `host/sdio/esp_sdio.c:486` | the comment says that a live recovery must not take this baseline, since "it would invent ESP_MAX_BUF_CNT free buffers while firmware still holds some of them". The resume takes it after a recovery in between may have rebased and sent a command: `CreditsReal` fails with a suspend and a request |
| `host/sdio/esp_sdio.c:847` | so does the reinit of a boot event when the slave has not yet reloaded a buffer written just before it: with the fault `held` and a second boot event `CreditsReal` fails |
| `host/spi_hd/esp_spi_hd.c:2389` | after `cancel_work_sync` and the rebase of a reset the interrupt may queue the worker once more, before EN: it reads a boot event of the old firmware on the new counters |
| `host/spi_hd/esp_spi_hd.c:2384` | `spihd_reset_target` closes the data path, then cancels the worker, rebases and drives the GPIO. A reconstruction that commits after the first reopens the path; if the GPIO then fails, the session stands on a firmware that was not reset, with rebased counters, a frame unread and the worker's wakeup gone: `CountersCoherent` and `NoLostWakeup` fail with a restart request and a failed reset |
| `host/esp_cmd.c:1821` | the answer of `INIT_INTERFACE`, command 1 of each session, is what keeps the sessions apart. An `INIT_INTERFACE` that times out in the first restart is answered in the second; the firmware's receive queue, which still holds the second `INIT_INTERFACE` and a command behind it, survives the next teardown; each later `INIT_INTERFACE` is then taken for answered one session early, and an old answer meets a new command with the same code and number. `ResponseMatches` fails with two restarts |
| `host/esp_cfg80211.c:300` | `cmd_init_interface` is also called for a virtual interface, outside a reconstruction; its late answer can pass for the handshake of the next session. `ResponsesMatch` assumes that users do not issue it |

## 9. Proofs

Every theorem is for all values of the constants, from the assumptions at the
head of the module it is about: which contexts, callers or nodes exist is any
(finite) set without the reserved names, bounds are naturals, a modulus is
larger than what one step may move a counter by. The proof of a type invariant
goes action by action. Below is what each of the others needed besides it.

`FwRecoveryProofs`, for any set `Errs` of reporting contexts:

| Theorem | Statement | Argument |
|---|---|---|
| `TypeCorrect` | `Spec => []TypeOK` | each action keeps each of the five parts of the type invariant; return points keep `pc` within its labels |
| `BudgetSafe` | `Spec => []BudgetInv` | inductive with `TypeOK`: only `Request` charges and arms, only `Finish` refunds, and it heals `EXHAUSTED` in the same section |
| `ResetsSerialised` | `Spec => []ResetSerialised` | `ResetInv`: whoever is about to queue a reset, the queued work, and the work up to its release hold `ESP_SPI_RESETTING`, until removal clears it. After that no reset can be requested, because `UNLOADING` stays set (`ExitMarked`) |
| `RecoveryBacked` | `Spec => []RecoveryInv` | below |
| `RecoveryNeverForgotten` | `Spec => []WatchdogArmed` | from `RecoveryInv` |
| `ExitLeavesNothing` | `Spec => []ExitQuiescent` | `ExitInv`: what `esp_exit` has cancelled stays cancelled at each of its stages, because `UNLOADING` stops every source |
| `SessionsUsable` | `Spec => []SessionUsable` | `UsableInv`: `CLEANUP` excludes an initialised or reopened card, `RECONSTRUCT` always has the event worker at a step that will clear it, and metadata is there from `EvParse` until the session is retired |
| `IntentSettles` | `Spec => []RestartIntentSettles` | `IntentInv`: a restart wanted or in flight keeps `RESET_EXPECTED`, which only a commit clears; the commit that does so is the one that sets `overtaken` |
| `SoftBudgetRefilled` | `Spec => []SoftRebootLeft` | `SoftInv`: without a charged attempt no reset is wanted or under way, so nothing counts a soft reboot before `Request` has charged |

`WatchdogArmed` speaks of moments when no context is active, and is not
inductive. `RecoveryInv` names who answers for an owed recovery at every other
moment: the timer, the worker itself if it is going to re-arm
(`RecArms`), the event worker (`EvArms`), or a context between `Schedule` and
`Arm` (`Arming`). The delicate case is the worker on its way to clear `PENDING`
after a live resync: a request that arrives meanwhile makes `recStale` true, so
the worker stops answering, but that request itself is about to arm; and if the
session was retired meanwhile, the event worker is rebuilding it
(`LiveResyncBacked`). `EvCancel` may throw the timer away because the commit
that follows settles the session (`CommitInitialised`) or re-arms.

`CmdMailboxProofs` and `CmdQueueProofs`, for any finite sets of callers and
nodes and any sequence space:

| Theorem | Statement | Argument |
|---|---|---|
| `NodesSafe` | `Spec => []NodesConserved` | `NodeInv`: a caller holds a node exactly between `get_free_cmd_node` and `recycle_cmd_node`, and an unallocated pool has no free node. Only `Prepare` and `Recycle` move a node; setup and teardown replace the pool only when `cmd_nodes_in_use` is 0 or there is no pool, and then no caller holds one |
| `MailboxTypes` | `Spec => []TypeOK` | `QueueInv`, below |
| `QueuesSafe` | `Spec => []QueuesOwned` | `QueueInv` |
| `NoStateMismatch` | `Spec => []SubmittedIsCurrent` | `QueueInv` |
| `NeverStranded` | `Spec => []NoneStranded` | `MailboxOpen` ties the gate of `cmd_work` to a live work queue and to the place of the manager; whoever empties `cur_cmd` is `Leaving` until its kick |
| `ResponsesMatch` | `INIT_INTERFACE \notin UserCodes` implies `Spec => [](boots <= 1 /\ drawn < SeqSpace => ResponseMatches)` | `AnswerInv`, below |
| `AmbiguousSafe` | `Spec => []AmbiguousQuarantined` | `RebuildQuiet`: during a reconstruction only its own commands hold nodes, so a commit, which clears the quarantine, leaves no unanswered command of the old session behind |
| `MailboxImplementsService` | `Spec => ImplementsService` | each step moves the `Progress` of at most one caller, as `CmdService` allows (`OneMoves`); that at most one command is with the firmware is `SubmittedIsCurrent` |

`QueueInv` says of each caller what the fields of its node are at its step
(`NodePhase`) and where the node is (`NodePlace`), that the pending queue has no
duplicates, and that a node nobody holds is blank. It is inductive only as a
whole: that `list_del` removes the node takes that it is queued once, and that a
completed node is not queued takes the place of its caller.

The code matches a response on command code and sequence number, and the numbers
restart with every session; so what `ResponseMatches` needs is that no answer of
the session before is still under way when a user's command is sent. `AnswerInv`
takes everything under way as one sequence (`Pipe`: the response at hand, the
receive queue, the firmware's queue, the transmit queue), whose steps only drop,
prefix-consume or append. On it: messages carry numbers of the first session or
of this one (`Numbered`, `TwoSessions`); the first session's are ahead of the
second's (`Ordered`); while the first session's `INIT_INTERFACE` is under way no
user's command is (`InitAlone`, `InitIsManagers`); and therefore, once an
`INIT_INTERFACE` of the second session is answered, no user's command of the
first is left (`Handshake`). Its hypotheses are what the code does not ensure:
`boots <= 1` and the users' `INIT_INTERFACE` are rows of section 8, and
`drawn < SeqSpace` says that fewer than 2^16 numbers have been drawn, since a
number that wraps while an answer is late is matched. The run `mailbox` checks
the property through a wrap, for the few commands it issues.

`SdioLinkProofs`, for any counter sizes, credits, attempts and faults:

| Theorem | Statement | Argument |
|---|---|---|
| `LinkTypes` | `Spec => []TypeOK` | the records of the two ends, one lemma each; the credit arithmetic stays within the register because `TxMax > 2 * MaxBuf` |
| `AckedCloseRestarts` | `Spec => []AckMeansRestart` | `HandshakeInv`: a pass past its claim holds the handshake mutex, so neither suspend nor resume starts a handshake of its own meanwhile; while the host waits, its CLOSE is still pending and the answer register is 0, or the firmware has acknowledged and is about to restart, or it restarted and forgot the generation |
| `ResetsFresh` | `Spec => NoStaleReset` | `PassInv`: a pass begins on a session that is not healthy, and only the end of the pass, or a commit, which waits for the worker, makes it healthy (`OnlyCommitHeals`, over every action of every context); the claim is kept only up to the barrier |

| `CreditsKept` | `Spec /\ [][~InventsCredit]_vars => []CreditsReal` | below |
| `StaleFramesStopped` | `Spec /\ [][~ResetUnderTx]_vars => NoStaleTx` | below |

The last two fail without their hypothesis (section 8), so each names the steps
that break it. `Backed` is the arithmetic: what `TOKEN` minus the host's count
still allows is at most what the slave has free, and the cached and reserved
credits are part of it; a write, a reload and a wrap move both sides together.
`Backed` is lost by every write of unknown outcome, so the invariant `CountInv`
is: backed, or *noted*, with TX closed unless a reconstruction holds it open.
`Noted` says that the reset which mends the count is expected, owed or under way
in a place from which it cannot be dropped: neither the end of a recovery pass
nor the commit of a reconstruction takes it off the record unless it began after
the note was made (`h.dirty`). `StaleInv` says the same of an aggregate of an
older incarnation. Both rest on `LinkInv`: who may run beside whom (the boot
handler and the recovery worker only when a reset is expected), what is stopped
while nothing is bound, what a suspend excludes, and that the host is ahead of
the firmware only from an acknowledged CLOSE to the restart. That the policy of
`host/main.c` only ever adds marks is proved once (`PolicyWorse`).

The excepted steps, `ResetUnderTx` and `InventsCredit`, are

* a power cycle, or the restart a CLOSE announced, while a reconstruction that
  the boot deadline expired on holds TX open (`host/main.c:382`);
* the baseline of a resume, of a boot event, or of a slave reset taken as
  acknowledged, while the slave still holds buffers (`host/sdio/esp_sdio.c:486`,
  847);
* a suspend undone for want of `MMC_PM_KEEP_POWER`
  (`host/sdio/esp_sdio.c:3078`) on counters that a late CLOSE acknowledged in
  place of the power-save request, so that they were not restarted.

With TLC each of the three kinds of step alone leads to a state that violates
`CreditsReal`, and the first one to a step that violates `NoStaleTx`, in
instances with two attempts and up to three faults. The invariants were checked
with two faults of every kind (5.4 million states) and with three of
the kinds late, user, bus and build (8.5 million states) before they were proved.

`SpiHdLinkProofs`, for any counter sizes, descriptors, attempts and faults:

| Theorem | Statement | Argument |
|---|---|---|
| `LinkTypes` | `Spec => []TypeOK` | as above; every counter moves modulo its register, and the firmware holds no more segments than descriptors |
| `CountersKept` | `Spec => Tracked /\ [][Tracked => (Tracked' /\ CountersCoherent') \/ LosesCount]_vars` | below |
| `WakeupsKept` | `Spec => Awake /\ [][Tracked /\ Awake => (Awake' /\ (fw'.same => NoLostWakeup')) \/ LosesWakeup]_vars` | below |
| `ReadyByteFresh` | `Spec => ReadyFresh` | `ReadyInv`: a chip in reset shows a ready byte only if it is one of the two exceptions (`unmarked`); a recovery pass and the probe read the byte first, and nothing of an earlier binding runs while none is bound |

`CountersCoherent` and `NoLostWakeup` are no invariants under several faults
(section 8), so the theorems say exactly which steps can lose them. `Tracked` is
the inductive form of `CountersCoherent` over a session (committed, on its
firmware, no reset on its way): host and firmware agree on what was read and
written up to what is in the worker's hands, the cached credit is backed by
descriptors, and an ambiguous transaction has marked the session and stopped the
worker until a resync has looked at it. It holds initially, and every step keeps
it and the property except `LosesCount`: the commit of a reconstruction that was
not on its counters, a reset that rebased the host and then failed, and a live
resync with the segment count beyond half of its range (`spihd_credit`). `Awake`
says that whenever data-ready is up or a frame is queued, the worker is queued or
will look again; the exceptions are a commit of a session already asleep and the
failed reset. Both rest on `LinkInv`, which ties the slave's ready byte, the
resync flag and the places of the recovery worker and the boot handler together.
`LinkInv` and both statements were checked with TLC first, with two faults of any
kind (3.4 million states) and, for the wrap, with two-bit counters, four frames
and one fault (10.8 million states).

`FwCommandProofs`, for any number of commands, access points, frame bodies and
faults:

| Theorem | Statement | Argument |
|---|---|---|
| `ProcessorTypes` | `Spec => [](TypeOK /\ ControlInv)` | the stack of return points is at most two deep and names a caller for each subroutine |
| `AnswersUnique` | `Spec => []AnsweredOnce` | `AnswerInv` says who owns the answer of a command, its handler or the legacy slot, and `AirInv` that the callback of an earlier legacy frame cannot find a later one in the slot |
| `StatusesTruthful` | `Spec => []StatusTruthful` | `StatusInv` says who owns the status of a frame: the transaction, a context that took the cookie out under the lock, or the handler, and that a frame taken before its acceptance was taken by an old timer (`fin.by`). `AckInv` counts, per class of frames that look alike, the acknowledgements reported or still owed against those the air gave |
| `MlmeEventsCurrent` | `Spec => MlmeCurrent` | `MlmeInv`: every generation in the session was written since the last stop and its event is due; a handler that may still write one has a fresh number |

`FwEventProofs`, for the same, adds the event loop:

| Theorem | Statement | Argument |
|---|---|---|
| `NoEventCrossesAStop` | `Spec => []QueueQuiet` | `FenceInv`: `esp_wifi_stop` silences the producers, STA_STOP is awaited if it is owed, the fence is posted behind everything else, and `hosted_wifi_stop` returns when it has come out. `RadioInv` and `InitedInv` add that the command task's flags agree with the library, so that no stop is skipped for a radio that is on |
| `StaleEventsAreInert` | `archive \notin FaultKinds` implies `Spec => StaleEventsInert` | with `ScanInv`: the library owes at most one completion, that of the running scan or of the cancelled one, and a queued completion belongs to the scan that owns the slot, or the slot is draining. The hypothesis leaves out the customised archive of `main/cmd.c:1596` (section 8), which the property excepts by the number of the completion and the invariant cannot |

Only model-checked:

* liveness: `ExitCompletes`, `RecoveryCompletes`, `RadioConverges`,
  `ManagerReturns`, `CallsReturn`, `Recovers` of both links, `Settles`; fairness
  is out of the prover's reach;
* `ResponseMatches` through a wrap of the sequence numbers, `StaleEventsInert`
  with a customised archive, and that with the one fault of the run
  `CountersCoherent` and `NoLostWakeup` hold in every state;
* `BootEventKept` of `SdioLink`, claimed for one fault, and that with that one
  fault `CreditsReal` and `NoStaleTx` hold without the hypotheses of their
  theorems;
* the violations `ResumeClean` and `CreditHeld`.

## 10. Not modelled

* USB transport and RCP device: own modules, planned. The RCP endpoint is
  rebuilt by the radio worker, where its failure is a fault of `FwRecovery`.
* cfg80211 operations and MLME staging: mostly one command each; staging is
  planned.
* The boot TLV parser: one accept-or-fail step of `FwRecovery`; planned as a
  function.
* SPI-HD QIO diagnostics and transmit batching, SDIO aggregation copies, SPI
  per-frame flow control: they move bytes and keep no session state beyond the
  counters modelled here.
* `app_main.c` of the firmware, OTA writes, Bluetooth, Thread, statistics,
  debugfs, logging: vendor glue, I/O and formatting.
