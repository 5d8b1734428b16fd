# Verification of the Renesas PTP driver package

TLA+ models of the Linux drivers for the Renesas ClockMatrix, 82P33 ("Sabre") and FemtoClock3
synchronisation management units, model-checked with TLC and, all safety properties of the runs, proved with TLAPS.
Paths below are relative to the repository; `C`, `S`, ... abbreviate files as follows.

| short | file |
|---|---|
| `C` | `linux/drivers/ptp/ptp_clockmatrix.c` |
| `S` | `linux/drivers/ptp/ptp_idt82p33.c` |
| `I2C`, `SPI` | `linux/drivers/mfd/rsmu_i2c.c`, `rsmu_spi.c` |
| `CDEV` | `linux/drivers/misc/rsmu_cdev.c` |
| `CM`, `SAB`, `FC3` | `linux/drivers/misc/rsmu_cm.c`, `rsmu_sabre.c`, `rsmu_fc3.c` |

## 1. The system

A device sits on an I2C or SPI bus. The **bus driver** (`I2C`, `SPI`) gives the other drivers a
`regmap` and one mutex (`rsmu_ddata.lock`); `rsmu_core.c` creates two child devices from it: a **PTP
driver** (`C` or `S`), which registers PTP hardware clocks with the kernel, and a **character device**
(`CDEV` with the operations of `CM`, `SAB` or `FC3`), which user space drives with `ioctl`. Both children
work on the same registers under the same mutex; neither knows what the other caches.

| component | state it keeps | operations | interacts through | what makes it correct |
|---|---|---|---|---|
| Bus drivers | `rsmu->page`, the cached page | `rsmu_reg_read/write`, page write, probe | regmap lock; the device's page register | every access reaches the register it names |
| ClockMatrix steering (`C` 907-987, 1393-1621, 1719-1801, 1873-1945) | `mode`, `phase_pull_in`, `current_freq_scaled_ppm` | `adjfine`, `adjtime`, `adjphase`, worker | mutex, auxiliary worker of the PTP clock, mode registers | the DPLL runs at the dialed frequency except in an announced pull-in, and pull-ins end |
| ClockMatrix external time stamps (`C` 251-404, 458-482, 2360-2399, 2501-2516) | `extts_mask`, `extts_single_shot`, `event_channel` | enable, disable, `extts_work`, removal | delayed work, mutex, trigger in the device | every edge of an enabled ToD is reported once; nothing runs after removal |
| ClockMatrix time of day and periodic outputs (`C` 424-500, 502-830, 989-1063, 1325-1391, 1803-1906) | `calculate_overhead_flag`, `start_time`, `output_mask` | gettime, settime, large adjtime, enabling outputs | mutex; armed trigger or pending command in the device | the clock shows what was set; all outputs of the clock are aligned and keep running |
| 82P33 steering and holdover (`S` 98-126, 535-636, 866-878, 981-1078; `SAB` 302-343) | `pll_mode`, `current_freq`, `ddco`; `dpll_operating_mode_cnfg_prev` | `adjfine`, `adjtime`, `adjwritephase`, worker; `RSMU_SET_HOLDOVER_MODE` | **both** drivers write the operating mode register | cached mode right, holdover lasts and can be ended |
| 82P33 external time stamps and clock reading (`S` 128-405, 1341-1380) | `extts_mask`, `extts_single_shot`, `tod_trigger`, `discard_next_extts` | enable, disable, `extts_work`, `_idt82p33_gettime` | one register, `TOD_STS`, latches edges and reads | reads and edges are not mixed up; polling resumes |
| FemtoClock3 measurement (`FC3` 72-172, 375-455, 673-732) | `MEAS_MODE`, `TIME_REF`, `TDC_APLL` | bind, `RSMU_GET_TDC_MEAS` | FIFO and mode of the TDC | mode known, measurements fresh, requests return |
| FemtoClock3 references (`FC3` 309-329, 504-624) | none; connection and priorities of references in the device | `RSMU_SET_CLOCK_PRIORITIES`, `RSMU_GET_CURRENT_CLOCK_INDEX` | the same mutex | the clocks followed are those asked for |
| 82P33 time of day and overhead (`S` 372-533, 638-802, 847-864, 906-926, 1049-1113) | `calculate_overhead_flag`, `start_time`, overheads, `adjtime_work` | settime, gettime, large adjtime, alignment work, enabling | mutex; write trigger and full seconds of the device | corrections add up exactly, settime sets, outputs get aligned |
| Binding and unbinding of both PTP drivers (`C` 2263-2358, 2401-2511, `S` 804-830, 928-941, 1115-1150, 1200-1252, 1341-1459) | `tod_mask`/`pll_mask`, channels | `idtcm_probe/_remove`, `idt82p33_probe/_remove` | mutex, clock registry, delayed works, events | a bound driver is complete; nothing of a driver is left when its memory goes |
| Character device and the ClockMatrix requests that change it (`CDEV`; `CM` 101-246, 336-402, 430-503, 527-548) | none; priority tables and mode bits in the device | probing with its image, `RSMU_SET_COMBOMODE`, `_HOLDOVER_MODE`, `_OUTPUT_TDC_GO`, `_CLOCK_PRIORITIES`, `RSMU_REG_WRITE` | mutex; registers shared with the PTP driver | no lost update, priorities as asked |
| Software pull-ins of both chips, their arithmetic (`C` 1562-1621, 2244-2261, `S` 575-636) | frequency word, duration | halving, conversion and limits | the two steering components | the clock moves the way asked for, and not too far |
| Requests that read; combo mode of `SAB`; images of `SAB`; periodic outputs of the 82P33 | none | state, FFO, monitor status; one bit each | registers | *not modelled*, section 6 |
| `rsmu_core.c`, register headers, `rsmu_ctl`, scripts, patches | none | - | - | not modelled: no state |

What is hard here: the flags `phase_pull_in` and `ddco` are tested before the mutex is taken; caches of
device state (`page`, `mode`, `pll_mode`, `MEAS_MODE`) must survive failed transfers, rebinding and a second
driver; delayed works run against requests and removal, and a clock can be called while its driver is still probing; an early return after a failed transfer may leave
something set, armed or disabled that a later, successful operation trips over; and time passes inside
operations. `PROJECT.json` lists each such place with its line and the properties that guard it.

## 2. Modules

| module | models | abstract specification / proofs |
|---|---|---|
| `SteeredClock` | what steering promises: a dialed frequency, and pull-ins that return to it | - |
| `IdtcmSteering` (`MCIdtcmSteering`) | ClockMatrix steering | implements `SteeredClock`; `IdtcmSteering_proofs` |
| `RegisterFile` | a flat, atomic register file | - |
| `RsmuPage` | paged access of the bus drivers | implements `RegisterFile`; `RsmuPage_proofs` |
| `IdtcmExtts` | ClockMatrix external time stamps | `IdtcmExtts_proofs` |
| `Idt82p33Extts` | 82P33 external time stamps and clock reading | `Idt82p33Extts_proofs` |
| `SabreSteering` | 82P33 steering composed with holdover of the character device | implements `SteeredClock`; `Sabre_proofs` |
| `PullIn` (`MCIdtcmSteering`) | arithmetic of software pull-ins of both chips | `IdtcmSteering_proofs` |
| `SabreTimeOfDay` (`MCSabreTimeOfDay`) | 82P33 time of day, alignment work, overhead flag | `Sabre_proofs` |
| `PtpLifecycle` (`MCPtpLifecycle`) | probe and removal of both PTP drivers against calls, works and events | `PtpLifecycle_proofs` |
| `Fc3Tdc` | FemtoClock3 measurement | - |
| `Fc3References` | FemtoClock3 references and priorities | - |
| `Fc3Requests` (`MCFc3Requests`) | the two composed: all requests, one at a time under the mutex | `CdevRequests_proofs` |
| `IdtcmTimeOfDay` (`MCIdtcmTimeOfDay`) | ClockMatrix time of day in both register forms, periodic outputs, mapping of outputs to PLLs | `IdtcmTimeOfDay_proofs` |
| `CmRequests` (`MCCmRequests`) | requests of the character device to a ClockMatrix and its probing, beside the PTP driver | `CdevRequests_proofs` |

Conventions shared by all of them:

* A step is one bus transfer or one stretch of code between two points where another thread, the
  device or a failure can be noticed. `pc` holds the point an actor is at, named for what it does next. Where
  an operation holds the mutex throughout and no other actor sees its registers meanwhile, it is one step
  (`SabreSteering`), and its failures are actions `...Fails` with every outcome that a failing transfer in the
  middle may leave.
* `errs` counts failed transfers and bounds them by `MaxErrors` (`failures` and `MaxFailures` in `Fc3Tdc` and `SabreTimeOfDay`,
  whose `pc` is called `step` and `stage`: they share a module of proofs with another component). It is also what properties that hold
  only without failures refer to.
* A register of several bytes is sent byte by byte (`I2C` 236-252). When the write of a frequency word or of a time fails, the register
  may hold the old value, the new one, or one that is neither (`Torn`, `TornBase`). A byte whose own transfer fails is taken as not
  written; where that byte triggers something (`SabreTimeOfDay`) it may also have been written.
* History variables record what a property needs to refer to and never steer the model: `overlapped` (two calls were in the
  driver at once, or a pull-in was restarted with the worker in the driver, `IdtcmSteering`; something went on during unbinding, `PtpLifecycle`),
  `unsure` (the last write of the frequency word failed, both steering modules), `abandoned` (the worker failed) and `switched` (the last switch of
  the mode succeeded, `IdtcmSteering`), `shared` (a read of a clock armed a PLL with the trigger of another, `Idt82p33Extts`), `synced` (PLLs the operation has
  synchronised), `intended`, `crossed`, `spoilt` and `owing` (`SabreTimeOfDay`), `asked`, `promised` and `crossed` (`CmRequests`), `wanted`
  (`Fc3References`). A property that starts with one of them says under which condition the code keeps its promise; the condition is as weak as
  TLC accepts, and what happens outside it is listed in section 5.
* Definitions `Mutant...` are plausible bugs, written next to the definition they would replace; they belong to
  no specification. Each property of each run is violated by one of them.
* Frequencies, PLLs, threads and references are model values; times are small integers.

### IdtcmSteering

`pc` runs `lock` (flag tested, mutex awaited) - `setup` - `mode` (timers written, `PLL_MODE` not yet) - `write` - for `adjfine` `store` (mutex
released, `current_freq_scaled_ppm` not yet stored). `op` is the call's kind and the frequency it works with.
`mode` is the cache, `hwMode`/`wpTimer` the registers, which a switch writes in separate steps (`WriteTimers`, `SwitchMode`) and may leave half done
(`SwitchModeFails`); `dpll` is the frequency word split into its dialed
base, which a failed write may leave `Torn`, and whether a pull-in offsets it. `oldFirmware` is a device before V487, whose registered adjtime
(`idtcm_adjtime_deprecated`) does not test `phase_pull_in`: it may start a pull-in again and put the worker off. `manualRef` is the variant found when the channel is enabled:
`MANUAL_REFERENCE` (software pull-in with the worker) or `PLL_MODE` (firmware pull-in).
`overlapped` notes that two calls were in the driver at
once; a call and the worker do not count. `ptp_clock_unregister` ends the worker, while calls that are in the driver go on. `Init` is the channel
that `idtcm_enable_channel` leaves, including the cases in which the switch out of write phase mode failed and
nobody looked, and in which the mode is one the driver does not know. `MCInit` explores old firmware with software pull-ins only: it differs in nothing else.

### RsmuPage

Clients read and write one register each under the regmap lock; the page write and the transfer are two
transactions and either may fail. `CachedAtProbe` is what a zeroed `rsmu->page` stands for: no page at all
on the ClockMatrix, page 0 on an 82P33 over SPI. `Reload` is unbinding and binding. A bulk transfer is a
sequence of such accesses. Paging by regmap itself (82P33 over I2C, FemtoClock3) is not modelled.

### IdtcmExtts and Idt82p33Extts

Request threads, the polling work, the device's triggers and (ClockMatrix) `idtcm_remove`. On the ClockMatrix the
poll's loop is unrolled transfer by transfer; `removing` follows `idtcm_remove`, whose store to `extts_mask`
is outside the mutex and may be lost. On the 82P33 the loop over PLLs is one step, and `gettime` is the
sequence `gettime` - `wait` (inside `cancel_delayed_work_sync`) - `trigger` - `read` - `restore`. `latched` is
the reference whose edge has altered `TOD_STS` since it was remembered; a PLL whose read trigger is still the LSB
read differs on every read. Arming reads `TOD_STS` and then selects the trigger (`S` 220, 227), and the trigger selected before may catch an edge in between:
that is an outcome of `Armed`. `event` records where the last reported time came from: an edge of the own reference, of the one selected before
the PLL was enabled (`slipped`, the first event only), of another one, or a read.

### SabreSteering

The clock's calls, the `ddco` worker and the two holdover requests. `KeepMode = TRUE` restricts the users: holdover
is enabled once at a time, with no pull-in under way in the wrong mode, and meanwhile the clock is only steered in the mode
it was in. Properties in the first group of the module do not need that, those of the second do.

`ImplementsClock` is the refinement of `SteeredClock`, the abstract specification that ClockMatrix steering implements too. Here it holds whatever calls overlap,
but for one step, `StaleAdjfine`: an adjfine that tested `ddco` before a pull-in started and writes its frequency over it. A write of the five bytes of the
word that fails (`WordFails`) leaves the frequency unknown, in both refinements: `dialed` is then the remembered frequency, from which the next write that succeeds goes on.

### PullIn

One channel of either chip (`chip`: what may be dialed, what a pull-in may use, which corrections are pulled in). A step is a call or one turn of the halving
loop, all under the mutex. `word` and `current` are in scaled_ppm (2^-16 ppm), the result of C's divisions (`Quotient`) and of the final limit. `Shift` is what the word adds to
the clock over the nominal duration; the jiffy by which the worker starts early and the conversion to register units are not modelled. Which calls meet a pull-in and what failures do
is the business of the steering modules. `MCIdtcmSteering` checks `PullIn` in the run of `IdtcmSteering`: they share no state, and each is explored while the other has nothing to do.

### Fc3Tdc

`Bind` starts from a zeroed structure, whose `MEAS_MODE` 0 happens to be `CONTINUOUS`; the request's steps are those of
`set_tdc_meas_mode` and `rsmu_fc3_get_tdc_meas`. The device numbers its measurements, so that `result > askedAt`
says "made after it was asked for". `ClearsOnDisable` is a fact about the device the repository does not settle.

### Fc3References and Fc3Requests

`mux` is what `REF_SEL_CNFG` connects each reference to, `refTable` the two bytes of priorities. A request holds the mutex and the device
changes none of these registers, so a request is one step; a write of two bytes that fails may have changed any of the references. Users
name clocks, the device has references, and `wanted` keeps the last list that succeeded: `FollowsAsAsked` compares it with what
`rsmu_fc3_get_clock_index` would report. `Fc3Requests` adds these requests to `Fc3Tdc`, between two measurements.

### SabreTimeOfDay

A clock is its `offset` from `now`. `TOD_CNFG` is `cnfg`, the write trigger is `trigger`: `msb` takes the time when its last byte is
written, `pps` at the clock's next full second (`Tick`), and both are used up by that. An adjtime reads, waits when the full second is too
near (`Guard`), writes the time of that second plus its delta and arms; a failure in a correction forward falls back to an immediate
write with the overhead flag up. A write of `TOD_CNFG` that fails may leave any part of the new time (`PartlyWritten`), under `msb` up to the byte that
takes it, and an arming write that fails may have armed the trigger. `crossed` are the clocks that an operation read while they were not where the corrections
before had moved them: an earlier correction still waited, or the fallback makes one a second time that had got through. A correction by a fraction of a second queues the alignment work, unless it is queued. `InTime` is what the
driver counts on and the model with it: less time than the guard passes between reading the clock (or the end of the wait) and arming the
trigger. That a trigger is used once is external: the comment at `S` 165 and the code at `S` 1364 disagree about it.

### PtpLifecycle

`core` is the thread that probes and removes, `index` and `step` its loop over channels. The ClockMatrix driver registers a
clock when its channel is ready, the 82P33 driver before, which is why `ready` and `registered` are apart. Calls, `extts_work` and the
`adjtime_work` of each channel take the mutex; a call of the ClockMatrix other than for time stamps does nothing that matters here and is left out.
`eventClock[d]` is `event_channel` of ToD `d` while `d` is in `extts_mask`. `ptp_clock_unregister` waits for calls of its clock,
`cancel_delayed_work_sync` for a handler; a cancel without `sync` only takes the work from the queue. `WaitsFor` spells out who waits for
whom, and `OwnerIsNotHeldUp` that the one everybody waits for does not wait itself.

### IdtcmTimeOfDay

A clock is its `offset` from true time; `before` remembers offset and time at the start of the
operation. The deprecated form reads, computes, arms and writes, then synchronises PLL by PLL
(`inReset` is the master sync in reset); the SCSR form writes a buffer and a command and polls. The
corrections for the duration of a write are 0 and reading is one instant. `OutputMask` gives each clock its outputs; `PllsOf` is
the mapping of `C` 629-703, in which Q8 and Q11 belong to one PLL or the other as `mux` says, and `Driver` is the same mapping the other
way round, from what the outputs are driven by. Enabling a periodic output is one bit,
and then a correction by 0, in the SCSR form, that aligns it.

### CmRequests

A register is split into the bits its request sets (`own`) and the rest, which is `pll_mode` for the register that holds
`state_mode`. A request takes the mutex, reads, changes and writes, or writes the priority table slot by slot with the
group counter of the code's loop (`group` is `prev_priority_group`); threads of the PTP driver change `pll_mode` in the
same way. `asked` is the set of values a register may have if every request were atomic and a failed write had or had not
happened: it makes `NoUpdateIsLost` a statement about all interleavings. `promised` is the list of the last successful priority
request. Requests refused before their first transfer change nothing and have no action; `RSMU_REG_WRITE` reaches the three kinds
of registers of the model, not the priority table.

Probing (`probe`) comes first: `rsmu_probe` calls `device_init`, which writes the image register by register (`ImageBytes`) without the mutex, while
threads of the PTP driver may be at work; then the firmware version is read, and only then can users open the device. `crossed` are the
registers the image wrote between the read and the write of another thread: their update is the one that may get lost.

## 3. Runs

| run | instance | shows |
|---|---|---|
| `steering` | 2 callers, the worker, 2 frequencies, both variants, old and new firmware, 2 failures, removal, fair; beside them `PullIn` with 5 values of a ClockMatrix's frequency limit, both kinds of its firmware, 2 thresholds of an 82P33, 19 frequencies and 32 corrections | words only go out in their mode and, once a switch has succeeded, with its timer; a DPLL at a pull-in frequency is flagged, unless the last write of its word failed; a flagged pull-in has its worker, unless the worker failed; until two calls overlap `SteeredClock` is implemented: frequencies change when asked, pull-ins are undisturbed, and after a failed write the next goes on from the frequency dialed last; pull-ins end, unless the worker failed or an adjtime of old firmware asks for another; they go the right way, never too far, and all the way where not limited |
| `page_access` | 2 clients, 2 pages, 2 values, 2 failures, reloads | accesses on their page; `RegisterFile` implemented |
| `extts_polling` | 1 caller, 2 ToDs, removal, 1 failure, fair | enabled is polled and armed, events are new, latched edges are reported |
| `sabre_extts` | 2 callers, 1 PLL, 2 references, 1 failure, fair | reader alone; events from edges of the own reference, but for a first one caught while its trigger was selected; with the one PLL of this device, polling continues and no read is an event; calls return unless stuck, and stuck is for ever |
| `sabre_extts_deadlock` | 1 caller, no failure, fair | **violated**: reading the clock deadlocks with the poll |
| `sabre_steering` | 3 callers, 2 frequencies, 2 failures, `KeepMode` | `SteeredClock` implemented but for stale adjfines, with failed writes leaving the frequency unknown; mode remembered, holdover lasts and ends |
| `sabre_holdover_twice` | 1 caller, no failure, any user | **violated**: holdover enabled twice cannot be disabled |
| `fc3_requests` | FIFO of 2, 4 measurements, 2 failures, 2 binds, 2 references, 3 clocks, 2 priorities, 8 lists, fair | mode known, one shot fresh, the clocks followed are those asked for, requests return |
| `time_of_day` | 2 clocks with 2 outputs each, both forms, 2 settings of the multiplexers, 3 operations, 2 ticks, 1 failure | clock and outputs as asked, outputs synchronised and running after every success |
| `sabre_time_of_day` | 2 clocks (symmetric), a second of 3 ticks, guard 1, 8 ticks, 2 operations after enabling, 2 failures | corrections add up, also when the next begins before the alignment of the last, unless one is overtaken while it waits; settime sets, alignment follows |
| `ptp_lifecycle` | both drivers, 2 channels, 2 callers (symmetric), any firmware masks, failure at any channel | bound is complete, calls find their channel, nothing is left when the memory goes, events go to registered clocks, nobody is held up for ever |
| `cm_requests` | 2 users (symmetric), 1 PTP thread, 1 unit, 6 slots, 2 groups, 11 lists, 3 requests, 1 failure, an image | no update of either driver is lost; priorities as asked after a success, whatever failed before |

**Why the bounds are enough.** Two threads suffice to separate a test from its use, three let a third act in
between (the mutex admits one at a time, so a fourth only queues). Two frequencies distinguish "the remembered one" from
"another one", two pages a right from a wrong page, two references an own from a foreign one, two ToDs
single shot from continuous polling. Two failures allow one in an operation and one in its clean-up, its fallback or in the
worker; one is used where each failure already leads to a separate case. A FIFO of two overflows within the
four measurements. Six slots hold one run of equal priorities more than two groups serve. Three operations let one fail, one trip over what it left and one follow. Two ticks
give every pair of steps a different time. A second of three ticks has one that is too close to its end, one that is not and the full one;
eight ticks hold two corrections, their full seconds and their alignment works. Two channels let a second fail with the first registered. Two outputs
per clock, Q8 or Q11 and one of those beside it, meet each case of the mapping with a multiplexer; two references at one clock or at two meet each
case of clocks and references. Eight lists have one of each kind of refused or accepted list. The frequencies and corrections of `PullIn` are 0,
an odd value, each limit and its neighbours, of both signs, and fit TLC's integers. `CHECK_DEADLOCK FALSE` is used where a bounded counter, the removal of
the driver or the deadlock of section 5 really stops the model.

**Fairness.** Assumed is what the kernel's scheduler provides: a thread inside the driver goes on (weak
fairness of its steps), a mutex is handed to each waiter in turn (strong fairness of taking it), and a
delay expires unless it is set anew: `ptp_schedule_worker` re-arms the delayed work, so the fairness of the steering worker is that of
`WorkExpires \/ PullInStarted`. Nobody is obliged to call, to remove the driver or to produce an edge or a measurement, so
`RequestsReturn` rests on the time-out of the FemtoClock3 driver and not on its device.

`sabre_extts` has one PLL because with two `EnabledIsPolledUnlessFailed` and `NoEventFromReadUnlessFailed` fail: a read of the clock may leave the poll off or be
reported (section 5). `ReaderIsAlone`, `EventsFromOwnReference` and `StuckForEver` hold for any number of them and are proved so; `EventsFromOwnReference` then excepts devices on which a read
of one clock has armed another with its trigger (`shared`, `S` 334), which one PLL cannot meet.

No run checks a type invariant: section 4 proves those of all modules but the two abstract specifications, which have none.
The inductive invariants of section 4 were checked with TLC, on the instances of these runs, before they were proved.

## 4. Proofs

TLAPS checks the following for all values of the constants allowed by each module's `ASSUME`. Every safety property of a passing
run is the conclusion of a theorem, and so are some that are no longer checked by a run of their own because a refinement that is checked implies what they say of its steps
(`FrequencyRemembered` and `PullInUndisturbed` of `IdtcmSteering`, `FrequencyRemembered` and `OffFrequencyIsFlagged` of `SabreSteering`). Each section names the inductive invariant and what it adds to the property.

* **`IdtcmSteering_proofs`.** `IInv` strengthens the safety properties with `Placement` (who
  holds the mutex where) and `ModeCoherent` (cache = register, and an actor about to write has its mode). The latter
  is why the cached mode may be trusted: it only changes together with the register, inside
  the mutex. From it: `SteeringTypes`, `WordsInTheirMode`, `OffFrequencyFlagged` (but for a write of the word that failed),
  `PullInCancellerScheduled` (but for a worker that failed) and `TimerFollowsMode`, from `TimerCoherent`: once a switch has succeeded the timer is that of the cached mode except while somebody is between
  the two, until a switch breaks off. `SInv` adds what holds until two calls overlap: the test of `phase_pull_in`
  still holds when the caller acts (`TestStillHolds`), a frequency taken under the mutex is still the right one (`FreqTaken`), the
  worker only runs in a pull-in; from it `SerialFrequencyRemembered`, `SerialPullInUndisturbed` and, step by step,
  the refinement `SteeringImplementsClock`, in which a failed write of the word is the abstract `WriteFails`. The number of callers is not limited: `overlapped` is part of the statements.
* **`IdtcmSteering_proofs`, pull-ins.** About `PullIn`, for all limits, frequencies and corrections. `PullInInv` (`PullInInductive`): through every halving
  `ppb * duration <= |delta| < (ppb + 1) * duration`, with the sign of the correction (`PartInv`; `HalfPart` is the step of the loop), and the word is the limited sum (`WordInv`). What a halving or the
  conversion drops is then less than a nanosecond per second (`PartShift`, and `SignedShift` for either sign), which gives `PullInsAsAsked`.
* **`RsmuPage_proofs`.** Under `CacheIsSound` (a failed page write did not reach the device, and a zeroed
  cache is not mistaken for a page) `IInv` says that the regmap lock is exclusive and that a cache which names
  a page names the device's. From it `PageTypes`, `AccessesOnTheirPage`, `PageImplementsFile`.
* **`IdtcmExtts_proofs`.** `ExttsInv`: the mutex is exclusive (`MutexInv`); with the mask not empty and no removal under way the work is queued or under
  way, and whoever has the mutex knows whether the mask was empty when it got it (`PollInv`), which is what the decision to queue the work rests on; without
  failures every ToD in the mask is armed or has a time stamp waiting, except for the one the poll is about to arm again (`ArmedInv`). From it
  `EnabledTodsArePolled`, `PolledTodsAreArmed`, `ReportedOnce`.
* **`Idt82p33Extts_proofs`.** `ReaderInv`, for any number of PLLs: a reader that has turned time stamps off has taken the work from the queue and outlived
  its handler; from it `ReadersAreAlone`. `OwnInv`, for any number too: until a read of
  one clock has armed another with its trigger, an enabled PLL has its own trigger or that of a read, and what it has latched is an edge of its own reference, unless the time of a
  read or its first event is still to come (`LatchInv`); from it `OwnReference`. `OnePllInv`, for a device with one: it is never polled in single shot mode, so what a read turns off
  it turns on again (`KeptInv`); the device has the trigger that was asked for, or that of a read, and without failures the latter only within the read
  (`TriggerInv`); only the reader keeps the poll off (`PolledInv`). From it `OnePllNoEventFromRead`, `OnePllStaysPolled`.
  `DeadlockLasts`, again for any number of PLLs: once a reader with the mutex waits for a poll that waits for the mutex, both do for ever, which makes the exception
  in `CallsReturnUnlessStuck` a final one (`StuckForEver`).
* **`Sabre_proofs`, steering.** `ClockInv` holds for any users: `SabreFrequencyRemembered` and
  `SabreOffFrequencyFlagged` but for a write of the word that failed (`unsure`, until the next that succeeds), `SabreDdcoCancelled`. It also gives the refinement `SabreImplementsClock`, step by step (`SteeringStepRefines`): because the mutex covers both the word and
  `current_freq`, which the ClockMatrix driver stores later, overlapping calls are no exception here, only the stale test of `ddco` is. Under `KeepMode`, `HoldingInv` relates the cached mode, the register and the mode
  to return to: `SabreModeKnown`, `SabreHoldoverLasts`, `SabreHoldoverEnds`.
* **`Sabre_proofs`, time of day.** First the arithmetic of full seconds, for a second of any length: `After(v)`, the full second after `v`, stays the
  same until it is reached and is never missed (`AfterSame`, `AfterNext`), is one second later after the delay (`AfterDelay`), and adding it leaves the fraction of a
  correction (`AfterPlus`). `TodInv`: operations are where their kind may be; the overhead flag is up only within an adjtime that fell back, or since one
  failed (`FlagInv`); a time that was set is shown (`SetInv`); and `OffsetInv` per clock, until it is crossed or spoilt: what a clock that waits for its full
  second will take over is the offset asked for, at the very next full second (`SteadyInv`); a correction or an alignment under way started from the offset asked for,
  has computed the full second after the one it read, and arms the trigger within the guard, before it (`CorrectingInv`). That it started from there is what `NotCrossed` says of the
  step that reads the clock: a second correction, or the work of an earlier one, is covered unless it reads while a correction still waits. From it
  `SabreClocksAsIntended`, `SabreSettimeSets`, `SabreAlignmentFollows`; the last needs no more than that a work that is queued already aligns for the correction that did not queue it.
* **`PtpLifecycle_proofs`.** `LifeInv` has six parts: who has the mutex (`OwnerInv`), what a call inside the driver relies on (`CallInv`), how far probing and
  unbinding are (`ProbeInv`, `UnbindInv`), which works may be queued or running (`WorkInv`) and where events go (`EventInv`). Two facts were found missing by failed
  attempts: `index` is 0 while the driver is bound, or the loop of the removal would skip channels; and a poll of the ClockMatrix posts to nobody once the removal has
  begun and nothing overlaps it. From it `BoundDriversAreComplete`, `CallsFindTheirChannels`, `NothingIsLeftBehind`,
  `EventsGoToRegistered`, `OwnersAreNotHeldUp`, for either driver and any number of channels and callers.
* **`IdtcmTimeOfDay_proofs`.** `TimeOfDayTypes`; and `OutputsRestored` from `Restoring`: while PLLs are synchronised each PLL of the
  clock is still to be done, or has been and is out of reset. What earlier operations, of any clock, left in reset is therefore among those to
  be done, because every write of the time starts over with all; and `DriverIsSynced` carries that from PLLs to the outputs they drive,
  for either setting of the multiplexers. `Asking` says, step by step, what is known of time read, time computed and time written while no transfer has failed;
  from it `OperationsDoAsAsked`.
* **`CdevRequests_proofs`, ClockMatrix.** `RequestTypes`, and `UpdatesKept` from `UInv`: the mutex is exclusive, only threads of the PTP driver are at work until
  the device can be opened (`OnlyClocksYet`), what a thread has read is still in the register when it writes (`ReadIsCurrent`, except for
  an output TDC whose read failed and for registers in `crossed`), hence each write is the atomic change that `asked` records.
  `PrioritiesFollow` from `PInv`, the invariant of the loop over the table: slots before the current one hold their entry of the list with the group that the runs of equal
  priority so far give it, `group` counts those runs, and slots behind the list are written as disabled (`WritesTable`); so a request that gets
  through leaves the table as promised (`Promises`). Lists have any length up to the number of slots.
* **`CdevRequests_proofs`, FemtoClock3.** About `Fc3Spec`, all requests together. `Fc3Types`; `MeasurementModeKnown`: once `TIME_REF` is known, which takes a mode switch that succeeded, the
  cached mode is the one in force or none (`ModeInv`); `OneShotsAreFresh`: in one shot mode the device measures nothing between two requests, so that the only measurement a
  request finds is its own (`FreshInv`, without failures and late answers, if disabling empties the FIFO); `ClocksFollowed`: what the two bytes of priorities say of a reference is what the last list said of the clock connected to it, for every reference (`RefInv`).

The types of every component with a state of its own are proved and therefore not part of its run.

Only model-checked: all liveness (`PullInEnds`, `LatchedIsReported`, `CallsReturnUnlessStuck`,
`RequestsReturn`), since fairness and ENABLED are out of the prover's reach. The two runs that find a violation have nothing to prove.

## 5. Where the code disagrees

With a run:

1. `S` 343: `_idt82p33_gettime` holds the mutex while `cancel_delayed_work_sync` waits for a handler that
   waits for the mutex (`sabre_extts_deadlock`).
2. `SAB` 315: enabling holdover twice saves holdover as the mode to return to (`sabre_holdover_twice`).

Found while modelling, stated here and as hazards (the properties of the runs say under which condition they
do not bite):

* `C` 1942, 1931: with two callers `adjfine` may store a stale frequency, or overwrite a pull-in that
  started after its test; hence `overlapped` in the properties of `steering`.
* `C` 1572: the sum of dialed frequency and pull-in is limited to 144 ppm, although 244 ppm may be dialed (`C` 2258): with 229 ppm dialed, a pull-in of +2 ns
  lowers the frequency by 85 ppm and moves the clock 85 us backwards, whereas the comment at `C` 1590 skips corrections that would do more harm than good. Hence the premise of
  `PullsInAsAsked`, without which TLC finds this; on an 82P33 the two limits differ by one unit of rounding only.
* `C` 1554 and `S` 873: one failed transfer in the worker leaves the pull-in flagged for ever; `adjfine` then returns 0
  without effect and, on the ClockMatrix, `adjtime` -EBUSY. Hence `abandoned`.
* `C` 1797, `S` 569: a write of the frequency word that fails leaves the DPLL at the old frequency, the new one or neither, while the flag and the remembered
  frequency are those of before: off its frequency without a flag. On an 82P33 an `adjfine` back to `current_freq` then returns 0 without writing (`S` 1033); on both
  chips a failed stop leaves the pull-in flagged. Hence `unsure`, and `unknown` in `SteeredClock`.
* `C` 1856: with firmware before V487 `adjtime` starts a pull-in whether or not one is under way; who keeps calling keeps the worker from ending it, and each time the
  pull-in starts anew. Hence `AskedAgain` in `PullInEnds`.
* `SPI` 131: the zeroed `page` of an 82P33 over SPI names page 0: after a rebind the first access may go to another page. `CachedAtProbe` = page 0
  in `page_access` shows it.
* `C` 1402: a switch that breaks off between timers and mode leaves the timer of the other mode under the cached mode, which later calls trust, until the next switch that
  succeeds. Hence `switched` in `WordWrittenWithItsTimer`.
* `C` 2389: a trigger that could not be armed again looks like one that fired: the old time is reported again.
* `S` 385, 398: a failed read of the clock leaves external time stamps off although `extts_mask` says on; `S` 334: they are armed
  with the trigger of the clock that was read; `S` 361: with several PLLs a read may be reported as an event.
* `S` 220, 227: disabling leaves the trigger selected, and enabling reads `TOD_STS` before it selects the new one: an edge of the old reference in between is
  reported as the first time stamp of the new one. Hence `slipped`.
* `S` 1008 with `SAB` 315: steering in another mode during holdover ends the holdover, and disabling it then restores a
  mode the clock's cache does not know.
* `FC3` 140: the measurement mode is cached before it is in force; a failure leaves a driver that
  waits five seconds for measurements nobody makes. `FC3` 382: without firmware, with an image that lacks the frequencies, or with a feedback divider that reads as 0 (`FC3` 78-92), measurements are divided by 0.
* `C` 1043: `calculate_overhead_flag` survives a failed adjtime, and the next settime adds the time since the clock was last read;
  `SetAsAsked` therefore only speaks of histories without failures.
* `CM` 455: with more runs of equal priority than `MAX_PRIORITY_GROUP` the first entry of the run too many gets no group and the others
  join the last group, which belongs to another priority. `PrioritiesAsAsked` without its premise on the number of runs is violated.
* `CM` 236: the result of reading the control register of an output TDC is ignored; after a failed read an uninitialized
  byte, with the go bit set or cleared in it, is written and the request succeeds.
* `SAB` 19: `dpll_operating_mode_cnfg_prev` is one array for all devices of the module; the model has one device.
* `C` 745: a trigger that could not be armed is not noticed, so a settime may succeed without effect; `C` 824: a
  time-out leaves a command that the next operation's buffer is used under.
* `S` 497: an adjtime, or the alignment work of an earlier one, that reads the clock while a correction waits for its full second replaces `TOD_CNFG` and loses that correction
  (`crossed`); one that reads it later is covered. `S` 517: the work is not queued again when it is queued, so one work aligns for both, which `AlignmentFollows` confirms to be enough.
  `S` 519: an arming write that reports an error but arms, followed by the immediate fallback, makes the correction twice if its full second passes before the fallback reads the clock. `S` 421: a failed settime
  leaves its trigger armed, and the next write of `TOD_CNFG`, by an adjtime, is taken over at once; a failed write while a full second is waited for leaves
  a torn time to be taken over.
* `S` 456-479: `calculate_overhead_flag` and `start_time` are shared by all clocks of the device, and a failed adjtime of one adds to the next settime
  of another; only corrections forward have the immediate fallback. The loop that measures
  the overhead of nine bytes (`S` 724) indexes with the wrong variable.
* `C` 2492: a failed probe does not cancel `extts_work`. `S` 1454: removal cancels the works before the clocks go, so that a call may queue them
  again; after a failed first channel a work that was never initialised is cancelled. `C` 2506: `idtcm_remove` clears `extts_mask` outside the
  mutex, and a poll that is under way may post to a clock that is gone.
* `CDEV` 395: the image is loaded without the mutex, and may change modes the PTP driver has cached. `CDEV` 423: an open file outlives `rsmu_remove`.
  `CORE` 84: the mutex is destroyed before the children that use it go.
* `CM` 338: the image is loaded with offsets that depend on a firmware version which is only read afterwards (`CM` 541), and versions are compared
  differently from the PTP driver (`CM` 101-136).
* `C` 1372: enabling an output uses the register of the new firmware whatever the firmware is.

## 6. Not modelled, and the plan

Not modelled, because it holds or changes no state: conversions of frequencies, phases and times to register bytes, contents of firmware images, register addresses, logging, `rsmu_ctl`,
scripts, requests that only read. One bit of one register, read, changed and written under the mutex and used by nobody else: periodic outputs and combo mode of
the 82P33. Waiting for the ClockMatrix to boot is a loop of reads before anything is set up. `rsmu_core.c` has the mutex and two children; that is the `lock`
of the other modules. External, modelled from how the code uses them: regmap, delayed works and PTP clock registry of the kernel,
and the devices behind the registers.

What would come next:

1. Proofs: `SteadyInv` without its restriction to histories without a failure on the clock, by naming what each failure leaves; `EnabledIsPolledUnlessFailed` and `NoEventFromReadUnlessFailed`
   for several PLLs of which one is enabled.
2. The conversions that `PullIn` leaves out: frequency words, write phase limits and bytes of the time of day.
3. `SabreTimeOfDay` composed with `Idt82p33Extts`, whose reads it shares.
