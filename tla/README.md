# Formal models of the MediaTek OpenWrt tree

This directory holds TLA+ models of the parts of this OpenWrt/ImmortalWrt tree
that keep state of their own, run concurrently or must survive a power failure,
together with the TLC runs that check them and the TLAPS proofs about them.
Most of the tree is build machinery, patches and device trees; what has state
and is written here rather than imported is listed below.

## 1. Inventory

| part | state | operations | what makes it hard |
|---|---|---|---|
| NMBM core (`drivers/mtd/nmbm/nmbm-core.c`) | on the chip: the signature, one or two info tables, the user's blocks, bad marks; in RAM: `struct nmbm_instance` | attach (create or load), erase, write, read, mark bad, detach | power failing between two erases or programs; blocks failing while the tables that record bad blocks are written; rescue loops |
| NMBM MTD layer (`nmbm-mtd.c`) | the device lock and its wait queue | MTD calls, suspend, resume, shutdown | several callers; a suspend and a shutdown that keep the lock |
| conninfra message thread (`base/msg_thread.c`, `base/ring.c`, `base/osal.c`) | operation pool, active and free rings, reference counts, completion signals | send, send without waiting, worker loop, deinit | a timeout racing the worker's late answer on an object that is recycled |
| conninfra core (`core/conninfra_core.c`, `src/conninfra.c`) | power state of each radio driver, reset state, callback registry | power on/off, chip reset with pre and post callbacks, (un)register | resets racing power requests, callbacks on three threads |
| mtk_eth_soc (`mtk_eth_soc.c`, `mtk_eth_reset.c`) | DMA rings, queue states, reference count, reset flag | xmit, interrupt, NAPI poll, open, stop, reset work | two devices on one ring, wake-ups, a reset against traffic and against users |
| mtk_hnat | hardware flow table | hook functions | table layout and packet headers |
| mtk-snand, SPI NAND drivers | controller registers, bad block table | page read and program, erase | mostly register sequences |
| mtwifi-cfg, luci-app-mtk, switch, mii_mgr, regs | configuration files, ioctl front ends | apply, parse, show | conversions of configuration formats |
| miniupnpd-mtk-adjust, wrtbwmon | imported daemon, accounting tables | requests, periodic update | imported code |
| gpio-button-hotplug, button-hotplug, trelay | button debounce state, pair of relayed devices | interrupt, poll, work queue; create, remove | a work item racing removal |
| `package/system/mtd`, `base-files` (sysupgrade, preinit, first boot), `procd.sh` | flash partitions, the overlay, configuration archive | write, jffs2 splice, upgrade, boot | power failing during an upgrade |
| hostapd ubus and ucode glue, iwinfo, swconfig, ead, nvram, uencrypt | per-interface objects, ban timers, switch attributes | ubus calls, netlink, packets | event order |
| ntfs3 run list (`fs/ntfs3/run.c`) | sorted array of runs and its packed form | add, truncate, collapse, pack, unpack | splits and merges in place, allocations failing half way, sign bits |
| rest of ntfs3, igc, Lantiq, Realtek, Atheros, Broadcom and other target drivers | as in their upstream projects | | imported code |
| `scripts/`, `tools/`, `toolchain/`, `include/`, Kconfig | none at run time | build | generated or build-time code |

### What correctness means, per part

* **NMBM core.** Acknowledged data are never lost to a power failure or to a bad
  block elsewhere; no two logic blocks share a physical block; table upkeep never
  touches user data, remapped blocks or the signature; the next attach prefers the
  table that matches the data; each operation ends whatever fails; what is declared
  bad or unusable is recorded.
* **NMBM MTD layer.** Core calls are mutually exclusive; after a suspend nothing
  runs until resume, after a shutdown nothing runs; waiters are eventually served.
* **Message thread.** Each accepted operation is executed once; its result goes to
  the sender that waits for it and to no other; an operation object is never both in
  use and free; the pool never loses objects.
* **conninfra core.** Radios are powered iff some driver asked for it; a reset
  notifies each subscriber once and powers the same drivers up again; requests during
  a reset are refused; no thread waits forever.

* **Ethernet transmit ring.** The free count, the pointers and the ownership of the
  descriptors agree at any moment; nobody uses the ring after it was freed; it is freed
  for the last user only; packets are freed in the end and stopped queues woken.
* **ntfs3 run list.** Whatever was split, merged or cut before, a lookup finds the run
  that holds a cluster; every function changes the map of clusters as its name says, or
  forgets clusters when memory runs out, but never maps one to a wrong place; packing and
  unpacking are inverse.

PROJECT.json lists the same parts as `components` and the places where the code
is exposed as `hazards`.

## 2. Plan

Done (sections 3 to 7):

1. `NmbmTables`, `Nmbm`: the NMBM core, every erase and program a step of its own,
   with power failures; inductive invariants in `NmbmInv`, `NmbmRecord` and `NmbmData`,
   proofs in `NmbmProofs`, `NmbmRecordProofs` and `NmbmDataProofs`.
2. `NmbmMtd`, `NmbmSerial`, `NmbmPageIo`: the lock and the page loops of the MTD layer,
   proofs in `NmbmMtdProofs` and `NmbmPageProofs`.
3. `MsgThread`: the conninfra message thread, proofs in `MsgThreadProofs`.
4. `ConninfraCore`: power and whole-chip reset, proofs in `ConninfraProofs`.
5. `EthTx`: the transmit ring of the Ethernet driver, its users and the reset work, proofs
   in `EthTxProofs`.
6. `NtfsRun`, `NtfsRunMap`: the run list of ntfs3 and the map it stands for.

Not done, in the order of what it would add:

7. An abstract specification of NMBM (a block device with atomic erase and write and
   a mapping that survives) and the refinement from `Nmbm`. `DataSurvives` states the
   safety part of it.
8. An abstract specification of the message thread, and `ConninfraCore` on top of it.
9. Sysupgrade and `mtd` under power failures; the button drivers; `trelay`; receiving in
   the Ethernet driver.

## 3. Modules and code

`map` in PROJECT.json gives the source lines of every definition. A definition whose
comment begins with "Mutant" is a wrong variant of the definition after it; the
specifications do not use it. It shows that the properties notice the mistake.

| module | models | is used by |
|---|---|---|
| `NmbmTables` | chip, `struct nmbm_instance`, tables: `nmbm-core.c` | `Nmbm` |
| `Nmbm` | attach, erase, write, mark bad, detach, power failures: `nmbm-core.c` | `NmbmInv` |
| `NmbmInv`, `MCNmbm` | inductive invariant; instances for TLC | runs `nmbm_*` |
| `NmbmProofs` | proofs about `Nmbm`: addresses and ranges | `NmbmRecordProofs` |
| `NmbmRecord`, `NmbmRecordProofs` | inductive invariant of the tables; proofs about them | `NmbmDataProofs` |
| `NmbmData`, `NmbmDataProofs` | inductive invariant of the user's data; proofs about them | |
| `NmbmSerial` | what the core needs of its callers: one operation at a time, none after a shutdown | `NmbmMtd` |
| `NmbmMtd`, `NmbmMtdProofs` | `nmbm_get_device`, `nmbm_release_device` and their callers: `nmbm-mtd.c` | run `mtd_lock` |
| `NmbmPageIo`, `NmbmPageProofs` | `nmbm_mtd_read_data`, `nmbm_mtd_write_data`: `nmbm-mtd.c` | run `page_io` |
| `MsgThread`, `MCMsg` | `base/msg_thread.c` | runs `msg`, `msg_late` |
| `MsgThreadProofs` | proofs about `MsgThread`: who has an op, order, results | |
| `ConninfraCore`, `MCConninfra`, `ConninfraProofs` | `core/conninfra_core.c`, `src/conninfra.c`, `platform/consys_hw.c` | runs `core_*` |
| `EthTx`, `MCEth`, `EthTxProofs` | transmit ring, `mtk_open`, `mtk_stop`, `mtk_pending_work`: `mtk_eth_soc.c`, `mtk_eth_reset.c` | runs `eth`, `eth_last` |
| `NtfsRun`, `MCNtfs` | `ntfs3/run.c`, `attr_load_runs` in `attrib.c` | run `ntfs_run` |
| `NtfsRunMap` | what a run list promises: a map from clusters of a file to clusters of the volume | `NtfsRun` |

### NMBM core

NMBM hides bad blocks of a NAND chip from its user. The chip is divided into data blocks
and a management area, which holds, from the bottom, the main info table, the backup info
table, free spare blocks, spare blocks that stand in for bad data blocks, and the
signature. The boundary between the last free spare block and the ones in use
(`mapping_blocks_top_ba`) moves down with each remapping.

`flash` and `oob` are what survives a power failure; `ni` is the instance structure. A
procedure that touches the chip in a loop is a set of labels of `pc`, with its locals and
return label in `lv`. Each erase and each program is a step, with a variant in which it
fails, for blocks in `Weak`. `Crash` may come at any label; it clears `ni` and leaves the
block being worked on in any state it can be left in. The next step is then
`nmbm_attach`.

Abstractions: a table fills one block (`SpareBlocks` is then 2, as the code computes);
a block of user data holds one value; the retries of one erase or program are one step;
an OOB bad mark sticks. `changed` stands for the two counters `block_state_changed` and
`block_mapping_changed`, which are only compared with zero, together. Reads have no effect
on the state except for blocks that read with an ECC error during attach, which are in the
attach actions; `ReadSinglePage` gives the answer of a read and is used in `DataSurvives`.

History variables: `expect` (what an acknowledged operation left in a logic block), `lost`
(power failed while no table was on the chip but user data were), `skipped`
(`nmbm_map_block` stepped over a bad spare block, see section 6).

### NMBM MTD layer

`NmbmMtd` has an action for each section under `nm->lock` and each step between two of
them: `Call`, `Take`, `AlreadySuspended`, `Wait` (queue up, mark the task asleep, unlock),
`Resume` (woken, leave the queue, try again), `Release`. `NmbmPageIo` has a step for each
turn of the two loops; each byte is a token that tells where it came from, so that "the
right bytes in the right places" can be stated.

### conninfra message thread

An action is an access to shared memory other threads can tell apart. Senders: `Send`
(take an op from the free queue), `Fill`, `PutActive`, `CheckTimeout` (the read of
`signal->timeoutValue` after the op was handed over), `Signalled` or `TimesOut`,
`ReadResult`, `LetGo` (drop the reference), `PutFree`; `...Fails` are the waits for a
queue's mutex that a kill ends. Worker: `GetActive`, `Handle`, `Dec`, `WFree`, `WTimed`,
`WResult`, `Raise`. `Uses` is a set of ways to use a thread, from which `Init` chooses one:
who calls, who uses the functions that wait, whether a wait may end before the answer, who
may be killed, and how many requests there are.

### conninfra core

Four kinds of threads: the drivers that call the API (`AskPower`, `SendPower`, `LockRst`,
`SetTrg`, `SendRst`, `Register`, and `SendPowerFails` and `SendRstFails` for a message that
could not be sent), `conninfra_cored`, which serves power requests
(`CoredTake` reads the status, `CoredServe` does the rest under `core_lock`),
`conninfra_cb`, which runs a reset (`CbStart` ... `CbEnd`), and a thread for each radio,
which calls its callbacks (`SubReset`). What happens under `core_lock` is one step; the
variable `core_lock` is TRUE when it stays locked after that step. `hw` records which
parts of the chip the platform code has switched on. The message threads are queues in
order with a caller that waits until its request is served, without time-outs. A send may
fail, as it does when no op is free or a kill ends the wait for a queue; `unsent` is a
history variable that tells whether this has happened to the request of a reset.

`Uses` is a set of ways to use the driver, from which `Init` chooses one: which radios are
asked for, trigger resets and register callbacks, whether `CONFIG_CONNINFRA_AUTO_UP`
switches the common part on at start, how many calls there are, and whether sends may fail.

### Ethernet transmit ring

The devices of the SoC share one ring of descriptors, a circle `0 .. N - 1`. From
`last_free` (exclusive) to `next_free` (exclusive) lie packets, up to `drx` already sent,
up to `ctx` announced to the engine. Actors: the stack, which calls `mtk_start_xmit` with
`page_lock` held (`StartXmit`, `TxMap` or `TxMapFail`, `TxThresh`, `TxStopQueue`; the
reads of `free_count` and the stopping of the queue are separate steps, as the poll runs
without the lock); the engine (`HwSend`); the interrupt and the NAPI poll (`HandleIrqTx`,
`NapiAck`, `PollRead`, `PollFree` for one descriptor, `PollWake`, `NapiEnd`, `NapiRearm`);
and whoever holds the RTNL lock: `UserUp`, `UserDown` and the steps of `mtk_stop`
(`StopTxOff` ... `StopFree`), or the reset work (`ResetPrepare`, after which the RTNL lock is
dropped, `ResetResume`, `ResetStop`, `ResetInit`, `ResetOpen`, `ResetDone`). `napi_on` and
`missed` are the kernel's NAPI states DISABLE and MISSED.

Of a packet the model keeps how many descriptors it needs. Byte queue limits, the PDMA
variant of the ring, receiving, and PHY and MAC settings are left out. `Uses` says which
devices there are, which packets are sent, which devices are taken down, and whether there
are resets and `mtk_open` fails in them.

### ntfs3 run list

Each function of `run.c` is an operator on a record of the runs, the allocated slots, the
number of allocations that will succeed, and the result. The actions call one of them with
every argument. `NtfsRunMap` has the same operations on the map from virtual to logical
clusters; `Implements` compares the two in every reachable state and for every argument.
A byte of the packed form holds two bits, so that the offsets of the instance take one to
seven bytes, up and down: each of the three tests in `run_packed_size` (four, two and one
byte more) decides both ways, and the sign needs a byte of its own or not. The loops over
bytes do not depend on the width. In `run_unpack` `lcn` is unsigned; `Refused` treats a run
that ends before cluster 0 as one behind the volume. The test for 2^32 clusters is left out,
as it refuses nothing more on a smaller volume.

## 4. Runs

| run | shows |
|---|---|
| `nmbm_crash` | 10 blocks, power fails up to twice, at any step, with a weak data block and a weak block under each table. One table is readable at any moment (`TableSurvives`); the table the next attach prefers leads to all acknowledged data (`Recoverable`); they are found again (`DataSurvives`); an operation that returned has saved its remapping (`MappingRecorded`). |
| `nmbm_wear` | 9 blocks, any of which may fail, none or some bad from the factory (data, spare and signature blocks), until there is no spare block left: addresses and tables well formed (`TypeOK`), table upkeep within the spare area (`TableWritesConfined`), the order of the areas (`RegionsInOrder`), no physical block used twice (`MappingInjective`), no user data where tables may be written (`SpareHoldsNoData`), every attach and operation ends (`OperationsEnd`). |
| `nmbm_shared` | violation of `MapsToUnusedBlock`, section 6. |
| `mtd_lock` | 3 tasks, 2 calls each, of any kind: `Exclusive`, `NoLostWakeup`, `ShutdownIsFinal`, the refinement of `NmbmSerial` (`Serialises`), `CallsReturn`, `ShutdownReturns`. |
| `page_io` | every request on 3 pages of 2 data and 2 oob bytes, with every outcome of every page (0, 1 or 3 bit flips, uncorrectable, failed): `ReadDelivers`, `ReadReportsWorst` (the worst of the pages' results, and data after an ECC error), `WritePlaces`. |
| `msg` | 3 senders, 2 ops, 3 requests, in three ways: all wait and handlers end in time; two wait, may give up, and one may be killed; none waits and one may be killed. `ResultReady`, `QueuedOnce`, `PoolRefilled`, `HandledInOrder`, `EventuallyHandled`, `SendReturns`. |
| `msg_late` | violation of `OwnResult`, section 6. |
| `core_reset` | 2 API threads, 3 ways to use the driver, in two of which messages may fail to be sent: `OneReset`, `TriggerIntact`, `DoneCountedOnce`, `QuietDuringReset`, `PowerRestored`, `ChipFollowsRadios`, `ResetEnds`, `RequestsServed`. |
| `core_lock` | violation of `CoreLockReleased`, section 6. |
| `eth` | a ring of 5 descriptors in three uses: two devices with packets of one and two descriptors in bursts; two devices and resets; one device taken down, brought up and reset, whose `mtk_open` may fail. `RingExact` (accounting), `RingAlive` (no use after free), `Reclaimed` (no completion is lost), `QueueWoken`. |
| `eth_last` | violation of `LastUser`, section 6. |
| `ntfs_run` | files of 4 clusters, runs from two places of the volume or holes, five attributes to load from (two of them refused by `run_unpack`, one too short), 0, 1 or enough allocations: `LookupFinds`, `PackRoundTrips`, `Implements`. |

### Bounds

NMBM: nine blocks leave room for two data blocks that go bad, two tables, the signature, and
spare blocks which are used up, so that every search runs into its limit; ten leave room for
the rescue paths, which move a table upwards. `FactoryBads` has a chip without bad blocks,
one with a bad data block and a bad signature block, and one with two bad data blocks. Two
power failures are needed for one during the recovery from the other. `Weak`
makes the runs small: it is everything in `nmbm_wear`, and in `nmbm_crash` the blocks under
the data, the tables and the spare area that the property is about. The proofs are for all
sizes.

Locks and threads: three tasks make two of them wait for a third; with two calls a
task comes back while others still sleep. Two ops for three senders make the free queue
run empty and ops change hands. `core_reset` needs two API threads for two triggers at
once, a second reset after the first for stale `trg_drv` and `rst_state`, and five requests
to switch two radios on and off again with a repeated request in between; sends may
fail in the first and third use. Three of the
five radios are present: one that is not Wi-Fi, Wi-Fi, and the common part, which
`consys_hw.c` treats differently. BT, FM and GPS are treated alike.

Ethernet: five descriptors, two of them in reserve, are the least with room for a packet of
two descriptors beside one of one, so that the ring becomes full in both ways; a budget of
one makes every poll of two packets end on its budget. The proofs are for all sizes.

Run lists: four clusters give lists of up to four runs, which is what splitting a run in the
middle beside another run takes; the first allocation holds one run, so that each insertion
can be the one that has to allocate; `HalfMax` is small enough for `run_truncate_around` to
halve the list.

Deadlock is not checked: once the bounds are reached the models stop.

### Fairness

* `Nmbm`: weak fairness of the driver's own steps (`Step`). An operation runs in its
  caller's context and sleeps only in the chip driver; that an operation is started, or
  that power fails, is not assumed.
* `NmbmMtd`: weak fairness of each task's steps: the kernel runs what can run, and a core
  call returns (`OperationsEnd`). The lock does not promise that a task is served if others
  keep calling, and with a bound on the calls the runs do not claim it.
* `MsgThread`: weak fairness of the worker and of each sender once it has an op. Handlers
  return.
* `EthTx`: weak fairness of code that has been started and runs to its end, of the engine, of
  interrupt delivery and of the poll; strong fairness of `mtk_stop` and the reset work, which
  wait for a queue's lock, for `page_lock` and for the RTNL lock, which others take again and
  again. That packets are sent, devices taken up or down, or resets begun is not assumed.
* `ConninfraCore`: weak fairness of each of its threads; callbacks return, as the reset handler
  assumes by waiting for them without limit.

`ntfs_run` has safety properties only.

## 5. Proofs

Checked by TLAPS for all values of the constants, under the assumptions named in the
modules that declare them. Steps that need arithmetic cite the SMT backend, the others are
left to Zenon.

* **NMBM** (`NmbmProofs`: `Invariance`, `TypeCorrect`, `Confinement`). Assumed:
  `GeometryAssumption` (at least one data block and two management blocks) and
  `BoundAssumption`. `TableWritesConfined` is not inductive: whether a loop stays within
  its limits depends on what its caller passed, and whether the caller can go on depends
  on where the table ended up. `IInv` adds to `TypeOK` the layout of the instance's addresses (`Layout`), to
  which label each procedure may return (`ReturnLabels`), what holds at each label while a
  table is written on its behalf (`Ranges`), where signatures lie (`Signature`) and that a
  page is written only to a mapped block (`PageWrite`). `NmbmProofs` begins with facts about
  records, blocks and labels that the other two modules use as well. `NextInv` has one named
  step for each step of the code and ends with the disjuncts of `Next`.
* **NMBM tables** (`NmbmRecordProofs`: `Record`, `RegionsStayInOrder`,
  `MappingStaysInjective`, `SpareStaysFree`, `TablesSurvive`). The same assumptions, and
  behaviours in which `nmbm_map_block` has not stepped over a spare block (`~skipped`, see
  section 6): once it has, a table and data can share a block, and `TablesSurvive`, too, is
  claimed only without it. None of the properties is inductive. That mappings stay apart from
  tables after an attach depends on what the tables on the chip say, which depends on what the
  instance knew when it wrote them, possibly before several power failures. `RecordInv` has a
  part about the chip alone, which power failures preserve (`Chip`): there are a signature
  and at most two tables below it; tables map nothing into the area in which tables lie; of
  two, the one with the larger `write_count` knows of every block that the other knows to be
  unusable, and maps nothing to the other; below two tables there is no block that could be
  written. The part about a session (`Session`) says for each procedure that writes a table
  which other block holds one meanwhile (`Safe`), which may still hold the one it replaces
  (`Replaced`), and where its loop may be (`From`, `UpTo`); that the mapping in memory and the one in
  the cache keep clear of the tables (`Mappings`); and that the instance knows what the tables know
  (`Knows`). `MainFirst` is what makes an attach find a main table before a stale copy: no
  block below it could be written. `NextRecord` has one named step for each step of the code.
* **NMBM data** (`NmbmDataProofs`: `UserData`, `DataIsKept`, `AlwaysRecoverable`,
  `MappingIsRecorded`). The same assumptions, and `ValsAssumption`: what a user writes can be
  told from an erased block. `DataSurvives` and `Recoverable` are, besides `~skipped`, about
  behaviours in which power has not failed while there were data and no table on the chip
  (`~lost`): the next attach then finds nothing to go by. None of the three is inductive. What
  an attach finds is a table that some earlier session has written, possibly with another
  mapping than the one in memory when power failed. `DataInv` therefore says of every table on
  the chip, not only of the preferred one, that it leads to all acknowledged data, and that
  all tables lead to the same blocks (`TablesLead`, and `Held` for the mapping in memory). This is kept
  because a remapping is saved before the block it abandons is acknowledged elsewhere: an
  operation under way concerns a block whose content is not known to the user (`Operation`),
  and only at three labels may the mapping in memory be ahead of the tables (`Current`). A write of a
  table replaces a table only when another one with the new mapping exists, but for the first
  of an update (`upd_backup`), which writes the new mapping while the main table still has the
  old one. `Protection` covers the instance that gave up: it has no table left, or all of
  them are right. `BadAgree` and `BadKnown` say that a block once recorded as bad stays so in
  newer tables and in memory. So a block that is good in memory is bad in no table, and data
  acknowledged in it can be read after any attach. `Start` and `Loaded` are what an attach
  begins and ends with.
* **Lock** (`NmbmMtdProofs`: `MutualExclusion`, `WakeupsKept`, `ShutdownHolds`,
  `Serialisation`). The inductive invariant is the conjunction of `TypeOK`, `Exclusive` and
  `NoLostWakeup`, with the fact that only a task that works, not the reboot hook, is inside
  the core (`HoldsForWork`). `Serialisation` shows that each step of the lock is a step of `NmbmSerial` or
  leaves it unchanged. This is what justifies that `Nmbm` runs one operation at a time.
* **Page loops** (`NmbmPageProofs`: `PageInvariance`, `ReadsDeliver`, `ReadsReportWorst`,
  `WritesPlace`). Assumed: pages with at least one data byte and one oob byte, at least one page
  (`SizeAssumption`), and any set of numbers of bit flips with 0 in it (`FlipsAssumption`). The
  properties are about the end of a call. `PageInv` says of every turn where the two runs
  stand (`Cut`: the next byte of each lies at its column of page `addr`, and a column other than 0
  means that nothing of the run has been moved), what a read has copied (`Copied`) and met
  (`Met`), and which bytes are in the pages a write has programmed (`Placed`). For a write the two runs must
  also end in the same page (`InStep`), for a part with no bytes left is written again from the
  cache; this is why `WritePlaces` is about requests whose runs reach the same pages. That the
  loop stays on the device follows from the checks before it (`InDevice`).
* **Reset** (`ConninfraProofs`: `ResetInvariant`, `ResetsExclude`, `TriggerKnown`). The
  invariant `RInv` follows the grant of a reset through the threads: it is with one caller,
  or in the queue of `conninfra_cb`, or with its handler, or it is lost because it could not
  be sent, and then nobody has it and nobody gets another (`Handed`); a queued request
  belongs to a caller that waits for it, so serving it does not disturb a caller with a
  grant (`Queued`); `trg_drv` is right from before the request is queued until the handler
  clears it (`Named`).
* **Power** (`ConninfraProofs`: `PowerInvariant`, `BitsCountRadios`, `CallbacksQuiet`,
  `ResetRestoresPower`, `ChipWithRadios`). On top of `RInv`, `CInv` says for each phase of a
  reset which radios have a callback to run (`Phases`). `rst_state` is a sum of bits, and
  `opfunc_chip_rst` takes its value for a set of radios: this is right because every radio
  adds its bit once in a phase, and the lemmas on `Bits` turn sums into sets. `Noted` relates
  the power noted to the power on while the handler notes it and while it restores it.
  `Follows` is what makes the early read of the status in `opfunc_power_off_internal` safe
  without a reset: no other thread changes the power.
* **Message thread** (`MsgThreadProofs`: `QueuedOnceHolds`, `PoolRefilledHolds`,
  `HandledInOrderHolds`, `ResultReadyHolds`, `OwnResultHolds`). Assumed: the ops are finitely
  many. The theorems are about threads all of whose senders wait or none does (`Uniform`);
  for others `QueuedOnce` fails (section 6). `ResultReadyHolds` and `OwnResultHolds` are about
  handlers that end in time; `msg_late` shows that the second needs it. The others hold with
  late handlers and kills too. The invariant `Inv` has five parts besides types. `Owned`
  adds to `QueuedOnce` that an active op is not with the worker, and that an op a sender has
  for itself is neither. It is preserved because `ref_count` is the number of references
  left (`Counted`), and so the one that finds it 0 is the last. `Placed` says that an op which
  is neither free nor in use is one that a kill has cost. `Ordered` splits the history of
  queued requests into those handled, the one being handled, and those of the active ops, in
  the order of the queue. `Answered` follows a result from the handler through the worker
  into the op. The worker writes into an op that it no longer counts itself a user of; what
  makes this safe in time is that the sender which waits for the signal keeps the op.
* **Transmit ring** (`EthTxProofs`: `Invariance`, `RingStaysUp`, `AccountingExact`,
  `LastUserOnly`). Assumed: a ring of at least four descriptors, at least one device, and of
  the use only that `mtk_open` does not fail in a reset, which `eth_last` shows to be needed.
  `RingAlive` is not inductive: that a ring which is freed has no user left follows from the
  order of steps of `mtk_stop`, and that it is freed by the last user only from the count.
  The invariant adds `RefsExact` (`dma_refcnt` is the number of devices that hold a
  reference: those up, but for the ones a reset has stopped and not reopened, and the one
  whose `mtk_stop` has not come to its decrement), `Quiet` (how far each phase of
  `mtk_stop` has silenced transmission, poll and engine) and `ReadsHold` (what the poll has
  read of the engine's pointer, and the room a transmission has found, are still there).
  `RingExact` is preserved by three steps that matter, `TxMap`, `HwSend` and `PollFree`; each
  moves one pointer on the circle, and the lemmas `Around`, `Ahead`, `Behind` and
  `ExactAfter` say what that does to the distances from it.

Only model-checked: the liveness properties, which are out of the prover's reach, and what
the functions of the run list compute (`LookupFinds`, `PackRoundTrips`, `Implements` of
`NtfsRun`). These functions are recursive in the code and in the model, and what they return
for lists of any length needs an induction over the list, which the installed provers cannot
instantiate. Every other property of a passing run has a theorem.

## 6. Where code and comments disagree

Each of these is a run that TLC refutes; PROJECT.json quotes the lines.

* `nmbm_shared`: `nmbm_map_block` goes down from `mapping_blocks_top_ba` to the first good
  block, but lowers the mark by one only. After a bad spare block the next remapping gets
  the same block again. `RegionsInOrder`, `MappingInjective`, `SpareHoldsNoData`,
  `DataSurvives`, `Recoverable` and `MappingRecorded` are stated for behaviours in which this
  has not happened (`~skipped`), and `TablesSurvive` is proved for them.
* `msg_late`: the worker uses an op after it has dropped its reference. If the sender's
  wait ends in between, the result goes to the next user of the op.
* `core_lock`: a forced power-off of a chip that is already off returns with `core_lock`
  held.
* `eth_last`: in a reset, closing a device that could not be reopened drops the reference of
  the device that was, and the ring is freed under it. `RingStaysUp`, `AccountingExact` and
  `LastUserOnly` are proved for resets in which `mtk_open` does not fail.

Met in the models, without a run of their own (most are hazards with a note in PROJECT.json):

* `nmbm_update_info_table_once` forgets a bad block that it met itself; the next update
  records it.
* An unusable logic block is not recorded when nothing else changed.
* `nmbm_mark_bad_block` marks the block in its spare area and then saves the tables. If power
  fails in between, the block stays in use with its mark: writes check its recorded state only.
  When a later attach finds one table only, it looks at the marks of the blocks above it and
  records the block as bad, and reads of it fail although the data is there. `DataSurvives`
  therefore claims the answer to a read for blocks without a mark.
* A thread used both by senders that wait and by senders that do not (`conninfra_cored`
  with `conninfra_core_dump_power_state`) can put an op back too early:
  the read of `timeoutValue` after the hand-over may see the next request's.
* `conninfra_core_trg_chip_rst` returns -1 when it cannot send the request of a reset, and
  leaves `rst_status` as it is. `conninfra_trigger_whole_chip_rst` ignores the result and returns
  0, "triggered" in `conninfra.h`; `conninfra_core_unlock_rst` has no caller. From then on every
  trigger and every power request is answered "reset ongoing". `OneReset` says that `rst_status`
  is set without a reset under way only after such a failure, and that nothing gets past it
  then; `ResetEnds` and `RequestsServed` are about what has been sent.
* While a reset switches the radios on again, a power-off that read the status before it got
  `core_lock` can switch the chip off under another radio. `ChipFollowsRadios` is stated for
  behaviours without a reset.
* A queue that is stopped just after the poll has freed everything is not woken by the driver:
  `free_count` is read before `netif_stop_queue`, and nothing looks at it afterwards.
  `QueueWoken` is stated for stopped queues with packets outstanding.
* `run_unpack` adds to the cluster of a hole when loading begins inside it. `Implements` leaves
  that case out (`InHole`).
* A run at cluster 0 is packed with an offset that `run_unpack` refuses. `PackRoundTrips`
  leaves files with cluster 0 out.
* A reset restores the power its radios had when it noted it. A request that was accepted
  before the reset and is served during it is undone or ignored.
* A reset switches Wi-Fi on before the common part, and `consys_hw_pwr_on` then runs the
  common sequence only.

## 7. Limits

The models trust the kernel's primitives (spin locks, mutexes, semaphores, wait queues,
completions), the chip driver below NMBM and the checksums over tables. Memory is
sequentially consistent. Allocation failures are modelled in `NtfsRun` only, a module's removal in
`msg_thread_deinit` only. `EthTx` assumes that the engine stops when it is disabled:
`mtk_stop_dma` waits 10 times 20 ms for it and goes on without an error if it is still busy, so
`RingAlive` and `RingStaysUp` say nothing about an engine that takes longer. Section 1 and `components` in PROJECT.json list the parts that are not
modelled and why.
