# The Intel 536EP modem driver in TLA+

A model of the Linux driver of the Intel 536EP software modem
(`src/intel-536EP-2.56.76.0/coredrv/`): TLA+ modules translated from its C
source, TLC runs over small instances, and TLAPS proofs for all of them.

The driver presents a serial port (a tty) and behind it runs a modem whose
signal processing and protocols are a binary library, `536core.lib`. The C
source is the glue: it decides when the library runs, carries characters and
modem lines between it and the tty, and starts and stops it all. Nearly all of
it runs in several contexts at once (processes, work queue threads, the timer
softirq, a tasklet, an interrupt) with flags and counters that mostly have no
lock. That is what the models are about.

Build facts the models rely on: target `TARGET_SELAH`, Linux 2.6.32 with
`CONFIG_SMP` and `HZ=250` (`autoconf.h`), so every `#if LINUX_VERSION_CODE` is
read for 2.6.32; a work item can run on two processors at once, and
`spin_lock_bh` keeps softirqs off the holder's own processor only.

## 1. The system

| Component | Source | State | Operations |
|---|---|---|---|
| UART FIFOs | `uart.c` 53-66, 672-929 | two rings of 8192 characters, each with put, get, count | `UART_{dce,dte}_to_char`, `_from_char`, `_to_num`, `_to_free`, `_flush` |
| UART lines and settings | `uart.c` 78-632 | DTR, RTS, DSR, CTS, RLSD, RING, breaks, baud rate, format; `delta_msr_wait` | on and off for each line, `UART_line_status`, `UART_msr_wait` |
| Real-Time Services | `rts.c`, `clm_bg`, `clm_initialize`, `clm_terminate` in `clmmain.c`, `RSATaskYield` in `task.c` | five flags and counters, the timer, the work item, two wait queues, `Lock_clm_bg`, `Lock_timer_task` | enable, disable, timer, schedule, task, yield, terminate |
| Run-time budget | `task.c`, `UpdateMinRunTime` in `clmmain.c` | `clm_task`: time slice, loops | set, restart, expired |
| Transmit path | `softserial_io.c`, `write`.. in `coredrv.c`, `clm_rx_int`, the event handler in `softserial.c` | `tx_fifo`, the event bit, the work item, `write_wait` | write, put_char, send_xchar, flush, wait until sent, pump, wake |
| Receive path | `send_data_to_user` in `coredrv.c` | the receive FIFO, the tty flip buffer | pump |
| Device lifecycle | `softserial_open`, `_close`; `open`, `close` of `coredrv.c` | `G.refcount`, `softserial_async`, `tx_fifo`, irq, mapping | open, close |
| Modem control | `softserial_ioctl.c` | the lines | TIOCMGET, TIOCMBIS, TIOCMBIC, TIOCMSET, TIOCMIWAIT |
| Line settings | `softserial_set_termios`, `_set_ldisc` | termios, the UART settings | translation both ways |
| `/proc/ham` queues | `coredrv.c` 720-928 | two wait queues, two flags, two work items, the flags of the library they test | read, write, sleep, wake, both put off |
| DSP interrupt | `coredrv.c` 581-590, 962-998 | `dce_tx_enabled`, `CRAM_CallBack`, a tasklet | interrupt, schedule, tasklet |
| Core locks | `locks.c` | some thirty spin locks | one-line wrappers for the library |
| Not logic of the driver | `wwh_dflt.c` (tables of countries), `hamregistry`, scripts, `packaging_scripts/`, `intel-536-537/` (objects) | | |

How they interact:

```
 process --n_tty_write--> softserial_write --> write --> transmit FIFO
                                                              |
 timer softirq RTS_Timer --> RTS_Task_Schedule --> work item  | UART_dce_from_char
                                    RTS_Task --> clm_bg ------+--> clm_rx_int --> library
                                                  |                  |
                                  ACU_Main (library, may yield)      | few left
                                                                     v
 process <--wake_up(write_wait)-- softserial_background_event_handler (work item)
 process --close--> clm_terminate: RTS_Task_Terminate, RTS_Disable, switch off
```

What is hard:

- *Flags as locks.* `rs_task_running` keeps a second background out of `clm_bg`,
  whose spin lock is held while the library sleeps in `RSATaskYield`. It is a
  volatile byte set by the softirq and cleared by the task, the open and nobody
  else; a second task let in would spin on a sleeping holder.
- *Check, then lock.* Both ends of the FIFO look at its counter before they take
  the lock. With one producer that is sound; throttling, flow-control
  characters, `put_char` and flushes come from other contexts.
- *Wake-ups.* A yielded task, a writer and a process that waits for the modem
  lines each test something, then sleep.
- *Shutdown.* A close must stop a timer, a softirq, work items and a task that
  may be asleep, in the right order, each of which can start another.
- *Signed and unsigned.* The counter is signed, the room and the number are
  unsigned, the caller of the room takes it as an `int`.

What makes each component correct: the FIFO is a bounded queue, its counters
agree, its counter stays in range; of the services, one background at a time, no
lost resume, a quiet teardown, a timer that stays stopped, a background that
keeps running; of the transmit path, what is reported as written is in the FIFO,
nothing else is, and a process that waits for room is woken; of the persistent
settings, an answer that belongs to its request, and a request that ends; of the receive path,
every character taken is delivered; of the lifecycle, one modem started for the
first open and stopped for the last close, everything given back; of
TIOCMIWAIT, a change after the call is seen; of the line settings, a translation
that round-trips. `PROJECT.json` lists the hazards line by line.

## 2. The modules

| Module | What it is |
|---|---|
| `CharQueue` | abstract: a bounded first-in first-out queue of characters |
| `UartFifo` | one FIFO of `uart.c`; implements `CharQueue` |
| `Background` | abstract: what the modem core is promised of its background: one run at a time, only when due, none after a close |
| `Rts` | Real-Time Services, from open to close; implements `Background` |
| `TxPath` | the transmit path; composes with `Fifo == INSTANCE UartFifo` |
| `RxPath` | the receive path; extends `UartFifo` with the pump and the tty's flip buffer |
| `ModemLines` | the modem lines, TIOCMIWAIT and the external interrupt |
| `SharedModem` | abstract: a modem several processes share, started by one and stopped for the last |
| `Device` | opening and closing, with the interrupt, the tasklet and the event handler; implements `SharedModem` |
| `Termios` | the line settings, in `c_cflag` and in `uart` |
| `Persist` | the persistent settings: the queues behind `/proc/ham`, with the library's request and `hamregistry` around them |
| `MCModemLines`, `MCDevice`, `MCTermios` | symmetry and constants for TLC (the other runs need none) |
| `UartFifoProofs`, `RtsProofs`, `TxPathProofs`, `RxPathProofs`, `ModemLinesProofs`, `DeviceProofs`, `TermiosProofs`, `PersistProofs` | theorems and proofs |

An operator with a comment "... if ..." placed before a definition
(`ToFreeOffByOne`, `CloseStillEnabled`) is a deliberately wrong variant of that
definition. No specification uses it: `PROJECT.json` pairs it with a property
that it breaks, so that each property is known to depend on the code.

### UartFifo

`buf`, `put`, `get`, `count` are `uart_tx_fifo`, `uart_tx_put_index`,
`uart_tx_get_index` and `uart_tx_count`. Each context that may be inside
`UART_dce_to_char` is a producer, with a program counter `ppc` and the character
`pch` it holds; the consumer has `cpc`, and `ch` is what it was last given.

`ToCharCheck` and `FromCharCheck` are the tests made outside the lock,
`ToCharStore` and `FromCharTake` the sections inside. A section is one step
although the code changes three counters in it: whoever does not hold the lock
reads `count` only, and `count` changes once in each section. (The flush zeroes
`count` last; `put` and `get` are read under the lock only.) `UART_dce_to_free`
and `UART_dce_to_num` are unsigned, so they are taken modulo `UIntMod`.
`CoreFlush` is the library flushing at hang-up, in the thread of the consumer;
`TtyFlushBuffer` is a process, in any thread. The receive FIFO is the same code
with the names swapped: its producer is the library, its consumer
`send_data_to_user`, and only `clm_terminate` and the library flush it (`RxPath`).

### Rts

Every read and write of a flag another thread uses is a step. `tpc` walks
`RTS_Timer` and the `RTS_Task_Schedule` it calls, `wpc[w]` walks `RTS_Task` on
worker `w` with `clm_bg` and `RSATaskYield` inside, `apc` is the process that
opens and closes. `queued` is the worker whose queue holds `rs_wq`: the kernel
clears the pending bit before it runs the work, so it can be queued again, on
another processor, while it runs. `wait_event_interruptible` is its three steps:
join the queue, test, sleep. `del_timer_sync` waits for a handler that runs, and
deletes. `time` is the remainder of jiffies not yet turned into ticks of 10 ms.

`OpenReturns` covers the failure of `request_irq`, after which the code has
started the services all the same and no close comes. `gaveUp` and `clean` are
history: this close stopped waiting; no task was left over from an earlier
session when services started. Properties that a close that gave up makes false
say so with them; section 5 has what happens then.

The body of `clm_bg` is one place, `"bg"`, where the library may yield any number
of times; when it yields (`clm_task`, the time slices and loops of `task.c`) is left
open. `UpdateMinRunTime` translates the state of the library's machines into a
timeout; those states are not known here, so it is one of `Timeouts` or, if the
state is the one it has seen last, what there was.

`Background` sees four things of this. `Session` is where opens and closes have come
to: open from the first run that is allowed to the close, `quiet` once a close has
waited for the task, `abandoned` when it gave up, `lost` when a later open has started
services with a task left over. A run is `Due` from `rs_task_running` being set to the worker's entering
`clm_bg`; `Inside` are the workers in it; `Asleep` says that the one inside has
yielded and `rs_task_yielded` is still set. So which flag is set where, the work queue, the timer and
its lock are all behind it. A run may be asked for late, even after a close has
waited (a scheduler had read `rs_task_enabled` before), but is then only turned away.

### TxPath

`wpc` walks `softserial_write` and `write`; `asked`, `written`, `copied` and `i` are
their variables. `rpc` walks `clm_bg` and `clm_rx_int`, `hpc` the event handler. The
FIFO is `UartFifo` with two producers: `"tty"`, the writing process, and
`"other"`, for `put_char`, `send_xchar`, `throttle` and `unthrottle`. `free` is the room
in the library's own buffer; with `CoreSends`, `CoreHangsUp` and `HardReset` it is
all the library does here. What `n_tty_write` does around `softserial_write` (prepare
to sleep, call, sleep if nothing was written, call again with the rest) is
external, from the kernel the driver is built for.

`softcore_space` is the room read as an `int`. `WriteWild` is the negative case: the
size of the `memcpy` is negative, and the model goes no further with that process.
`drained`, `crossed` and `flushed` are history: characters left the FIFO, another
context stored, the FIFO was flushed, since the call (or the process's last look)
began.

The pump walks its loop test, its take and its final test separately, so a
write, a flow-control character or a flush comes between any two of them.
`UART_cts_on` schedules the same event (`CoreRaisesCts`, `CtsQueue`) whenever the
library raises CTS. A process that waits until all is sent looks once a jiffy,
and may give up at any time: a signal, or its timeout (`DrainGivesUp`). Not here:
the pending external interrupt of `clm_rx_int` (`ModemLines` has it) and the
handler's test of a closed tty (`Device`).

### RxPath

`rpc` walks `send_data_to_user`: the test of the loop, `UART_dte_from_char` (its check
and its section are the consumer's steps of `UartFifo`), `tty_insert_flip_char`,
`tty_flip_buffer_push`. `accepted` is `i`, `flip` the tty's flip buffer and `commit` how
many of its characters the line discipline may have. The tty is the kernel's: it
refuses a character when it keeps `FlipSize` for a process that does not read, and
`FlushToLdisc` hands on what was committed. The library stores (`CoreStores`) and
flushes (`RxFlush`) in the thread of the background, but outside `send_data_to_user`;
stores may come at any time, since the DSP's tasklet may be their origin.

A character taken from the FIFO and refused by the tty is lost, and it does not
count against the limit of a call; `RxOrder` allows that loss, and no other. Left
out: the flush of the FIFO by a close that has given up waiting, which could come
in the middle of a call, and what a process discards in the tty (`tcflush`).

### ModemLines

`on[l]` is line `l` of `uart`. A context (a process that switches DTR and RTS, or
the modem core that switches the lines of the modem status) walks one of the
twelve routines of `uart.c` with `lpc`: test the line, set it, wake
`delta_msr_wait`, call `clm_external_int`. `Wakes` and `Announces` say which
routines have the last two. `todo` is what is left of its call, since TIOCMSET
makes two switches. `pending` is `ext_intr_pending`, `bpc` walks its test, its
clearing and the call of the library in `clm_rx_int`, and `told` is what the
library then read. `wpc` walks TIOCMIWAIT, which reads its lines one at a time
(`k`), before the wait into `old` and after it into `new`.

`early` is history: the lines that changed during the call while the process was
not on the wait queue. `UART_msr_wait` sleeps without testing a condition, so such
a change wakes nobody, and `NoMissedChange` promises the others only.

The device is open throughout. Which contexts come here depends on the kernel
(2.6.32 keeps TIOCMSET and its like from the driver, and TIOCMIWAIT not); the
model allows any. Seen in the model, with no statement in the repository to hold
it against: TIOCMIWAIT returns -EIO when a line has pulsed, or when DTR
dropped, which it does not read; DTR raised again is not announced; `softserial_unthrottle`
leaves RTS off. The breaks are not in it; the event that `UART_cts_on` schedules is in
`TxPath`, the settings of `uart` in `Termios`.

### Device

`refcount` is `G.refcount`, one byte, so it counts modulo `RefMod`. `pc[p]` is where a
process is in `softserial_open` and the `open` it calls, or in `softserial_close` and
`close`. The kernel calls both under its big lock, and a process that sleeps gives
that lock up: each action is what a process does up to the next call that may
sleep (`get_zeroed_page`, `pci_enable_device`, `ioremap`, `request_irq`, the start of
the services; `RTS_Task_Terminate`, `free_irq`, `vfree`, `free_page`). What `open` takes is
a variable each: `page`, `mapped`, `irqs`, `callback`, `services`, and so are the two
places that keep a pointer to the tty. What the services do is in `Rts`; here they
are on or off.

The kernel's part is external: when an open fails it closes the file all the same,
and after the last close it waits for the queued work (`flush_scheduled_work`) and
frees the tty (`TtyRelease`, `TtyFree`). `free_irq` waits for a handler that runs.
Memory is never short: the code does not look at what `get_zeroed_page` and `ioremap`
return. The event handler reads `tty` twice in a row, which is one step here, since
the kernel's wait makes a close in between harmless.

`trouble` is history, and the properties name what they are true without: `left`, an
open failed, and left the page, the mapping and even the services; `miscounted`, an
open failed or was closed after its failure with others counted; `crossed`, the modem
was being started by one process and stopped by another at the same time;
`wrapped`. `overtaken`: the callback was cleared in the middle of a call. Seen in the model: after `left`
nothing is given back if nobody opens and closes successfully; after `crossed` a
process may have an open device with the modem off; `close` does not wait for the
tasklet, so a callback it overtakes goes on without its registers.

`SharedModem` knows what the modem is doing and who has it open. `Power` is read off
the count and the places of the processes: with the count at 0 the modem is off or
being stopped, above 0 it is being started or on. Someone may `Join` while another is
still starting it, and leave again, which stops nothing. `Lost` is the case of a count that went
wrong or of a start that met a stop; nothing is promised from there on. An open that
fails with nobody else there (`left`) is promised everything.

### Termios

`cflag` is the part of `c_cflag` the driver looks at, `uart` the four settings of the
UART, `dceStop` `dce_stop_bits`. `tpc` walks `softserial_set_termios` and `set_char`,
`lpc` walks `get_char` and `softserial_set_ldisc`, a field at a time, because both read
and write what the other does: 2.6.32 calls the one under `termios_mutex` and the
other under `ldisc_mutex`. `c_cflag` is one word written by both, so `SetTermios` may
also lose what it stores. `up` has the first open in two steps: `softserial_open` sets
`c_cflag`, and only after the device's registers are mapped does `UART_init` set the
UART, while other processes have the tty open. The library reads the settings and
does not change them. Flow control and carrier bits are left out: they set flags
that nothing in the driver reads.

`mixed` is history: calls overlapped, or came before the open was through, and
nothing was set since by a call that overlapped none.

`InSync` does not compare the UART with `Translate`, the code's own translation, but with
`Asked`, a reading of `c_cflag` made from the codes of `UART_parity` (`uart.c:586`) and the
flags for which `softserial_set_ldisc` takes them; `AskedReadsFlags` proves the two fit.
Where the code does not come to what was asked `Agrees` names the field:

- odd and mark parity are set as even (finding 5 of section 5);
- a speed without a case reads as 115200 after a change of line discipline, and a
  request for 115200 is then skipped as no change;
- `dce_stop_bits` is left from the last session when the device is opened again, so
  a change of line discipline reports two stop bits where the UART has one.

One stop bit is 1 in `Asked` as everywhere the code passes it (`UART_init` in `open`,
`softserial_set_termios`), although `uart.c:566` gives 0 for one stop bit and 1 for one and a
half. Seen in the model besides: after an overlap a request for what `c_cflag` holds is
skipped as no change.

### Persist

`waitForApp`, `pktToApp`, `pktFromApp` and `noAppRunning` are the flags of the library
that `coredrv.c` is given pointers to or that decide a request; `pkt` is the one packet both sides
use, reduced to its kind and the number of the request it belongs to. `epc` walks
`Exec_Linux_Persist` and the two waits with a timeout (`interruptible_sleep_on_timeout_persistReadQ`,
`_persistWriteQ`), `hpc` walks `hamproc_read` with `interruptible_sleep_on_persistReadQ`, and
`hamproc_write`. `readQSem` and `writeQSem` are the conditions the sleepers sleep on, set
by the sleepers themselves. `wakeWork` and `waitWork` are `wait_wq` and `wait_wq2`, `target` is
`pkt_to_app1`: in atomic context `coredrv.c` puts the wake-up and both waits off to
the work queue, where `WakeTask2` sleeps on the condition 0 until its time is up and
`WakeTask` comes after it. A step is one read or write of a flag.

External, and modelled from how `coredrv.c` is called and calls: `Exec_Linux_Persist`,
`persist_hamproc_read` and `persist_hamproc_write` (in the library) and the process
`hamregistry`, which reads, answers and reads again, may come and go at any time, may
be stopped in its sleep and may fail to write. `clm_initialize` asks in the process
that opens the device, before `RTS_Enable`; after that only `clm_bg` asks. So there is
one request at a time. `ctx` says which it is; a signal can hit the opening
process only.

`Preempt`: `in_atomic` sees the spin lock that `clm_bg` holds only in a kernel that counts
it. The `autoconf.h` of the repository has `CONFIG_PREEMPT` off, where nothing is ever
put off and every request behaves as one of the opening process without signals;
the run takes a kernel that counts, which has both kinds.

`reached` and `fault` are history: `hamregistry` was asleep when the core woke it; it was
interrupted, died or could not write since it was last at rest. Seen in the model:
when `hamregistry` is not there the request of an open with a signal pending turns
without sleeping, because the unsigned timeout takes `-ERESTARTSYS`, although
`readme.txt` says that the driver should still work without the tool; a wake-up between the
setting of `wait_for_app` and of `readQSem` is lost, and with it `hamregistry` for the rest of
the load, since the first failure sets `noAppRunning`; while the wait is put off the core
does not wait at all, so a request from the background fails there, unless `hamregistry` happens to be
interrupted. One load of the module only: `create_hamproc`, `detach_hamproc` and
`ham_proc_shutdown_wait` are left out. A wait that is put off again while its work item sleeps
in the one before is not queued a second time in the model, as the kernel would; TLC
finds that it happens only once a request has failed or `hamregistry` was interrupted
(`noAppRunning` or `fault`). In the first case no later request comes to
anything (`FailureIsFinal`), in the second the safety properties promise nothing; for
`WakeReaches` a second wait, which ends by its timeout, is a longer delay.

## 3. The runs

| Run | Bounds | What it shows |
|---|---|---|
| `rx` | FIFO of 3, 2 characters, limit 2, flip buffer of 3 | `QueueSpec` (the FIFO implements `CharQueue`), `InBounds` (the count stays between 0 and the size), `RxOrder`, `AllPushed`, `SendReturns`, `RxTypeOK` |
| `fifo_room` | size 2, 2 producers | *violation*: `StoredOnlyWithRoom` |
| `rts` | 2 workers, jiffies of 10 ms up to 2 late, one timeout of 10, close on either processor | `BackgroundSpec` (the services implement `Background`), `NoSpinOnSleeper`, `StopsQuietly`, `NoLostWakeup`, `BackgroundAlive`, `TypeOK`; `YieldResumed`, `BackgroundRuns`, `CloseReturns` |
| `rts_terminate` | 1 worker | *violation*: `TaskCompletes` |
| `rts_disable` | 1 worker, close on another processor than the timer | *violation*: `DisableStopsTimer` |
| `tx` | size 2, writes of 2, threshold 2, others and flushes | `NothingLost`, `NoOverrun`, `NoLostWriteWakeup`, and of the FIFO under two producers and flushes from anywhere `CountersSound`, `TypeOK` |
| `tx_live` | size 2, writes of 3, threshold 1, the library may hang up | `WriterProceeds`, `DrainEnds` |
| `lines` | 1 process that switches DTR and RTS, 1 that waits for CTS, two modem status lines | `ExternalIntKept`, `NoMissedChange`, `HangupSeen`, `TypeOK` |
| `device` | 3 processes, a count modulo 3, at most 2 interrupts registered, up to two of the four kinds of trouble | `OnWhileOpen`, `OffWhenClosed`, `ModemShared` (the device implements `SharedModem`), `RegistersMapped`, `TtyAlive`, `TypeOK` |
| `device_close` | 2 processes, a count that does not wrap | *violation*: `LastOneStops` |
| `termios` | 2 requests, 3 speeds, one of them unknown to `softserial_set_ldisc` | `InSync`, `TypeOK` |
| `persist` | 3 requests, from an open or the background | `AnswerMatches`, `UnservedInAtomic`, `GivesUpOnlyUnreached`, `RequestEnds`, `WakeReaches`, `TypeOK` |

Why the bounds are enough. The FIFO's behaviour depends on the difference of
`put` and `get`, so a size of 2 or 3 has the empty, the full, the wrapped and the
overfilled ring; `UIntMod` is above every room and number that can occur, which
is all the unsigned arithmetic needs; `MaxCount` stops an overfilled ring from
growing for ever, a little beyond the size, and in `rx` it is never reached.
In `rx` the limit is below both sizes, so a call ends at its limit, at an empty FIFO
and with a tty that is full.
A write of 2 into a ring of 2 that holds something has a partial write, a full FIFO and
a second turn of the loop; in `tx_live` a write of 3 has them into an empty one too. Two workers are the least that can run `RTS_Task` twice; `MaxLate`
of 2 jiffies gives handlers that turn one tick and two, so a timeout runs out on
time and late. Shorter jiffies, with a handler that turns no tick, other timeouts
and longer delays are in the proofs, which have the safety properties for all of them. Opens and
closes are not bounded. Three requests are one to succeed or fail, one whose
exchange meets a late answer of the first, and one after `noAppRunning` is set. Two
lines of the modem status, one of which is waited for, make TIOCMIWAIT read in two
steps and wake for the wrong line; the calls of `MCModemLines` have both control
lines in one call and RTS alone, and their number is not bounded. With three
processes one can start the modem, one stop it and one have it open, and a count
modulo 3 wraps when all three have; as long as starts and stops do not cross only
one interrupt is ever registered, so a bound of 2 is met only where they do. TLC goes
no further (`FewTroubles`) when three kinds of trouble have met: beyond that only `TypeOK`
says anything, and it is proved. Opens and closes are not bounded. The two requests of `termios` differ from the settings of
an open in the stop bits alone and in everything else, so a change of one field and
of all occur, and the number of calls is not bounded. The proofs of section 4
have no bounds.

`rts` and `rts_disable` are run with `CHECK_DEADLOCK FALSE` because the
system really stops: that is what `rts_disable` shows. So is `persist`, which ends
when its requests are used up and `hamregistry` sleeps. The other runs check that
it does not.

Fairness. `Rts`: weak fairness of the timer, its handler, each worker and the
close, because the kernel runs an expired timer, a queued work item and a process
that can run; none for `Open` and `Close`, which nothing makes happen. It lets the
library yield for ever, but not stay in `clm_bg` without a step. `CloseReturns` excuses
the deadlock of `rts_disable` (`Deadlocked`), and that only when the close does not run
on the timer's processor. `TxPath`: weak fairness of the writer,
the others' store, the pump's start and the handler, for the same reason
and because `Rts` has `BackgroundRuns`; strong fairness of `CoreSends`, an assumption
about the library: given the opportunity again and again, it sends; strong
fairness of the pump's steps, since the library does not raise CTS for ever in one
run of `ACU_Main`, and of the pump starting with `acu_loop` set, which says that the
modem is not reset in every single background. None for giving up a wait. `WriterProceeds` and `DrainEnds` assume besides that
other contexts stop sending sometime, `WriterProceeds` excuses a flush, and
`DrainEnds` a count that a flush made negative: in those cases the code does hang (a
flush wakes nobody; the wait is for 0 and the number is then 2^32-1).
`RxPath`: weak fairness of the pump's start and steps, as in `TxPath`, and of
`FlushToLdisc`, which is that a process reads. The last is needed: a refused
character does not count against the limit, so while nobody reads and the library
goes on sending, `send_data_to_user` does not return, and `SendReturns` fails without
it. `ModemLines`: weak fairness of each context inside a
routine, of the handling of the interrupt and of the process in TIOCMIWAIT, none for
starting a call; strong fairness of the test of `ext_intr_pending`, because the
background comes back to it again and again (`BackgroundRuns`) and the library
does not switch lines for ever in one turn. `Persist`: weak fairness of the
request, of `hamproc_read` and of `hamproc_write` with what `hamregistry` does of its own, since they
are processes and timeouts; strong fairness of the work items, of which one waits
for the other; none for making a request, for starting, stopping or interrupting
`hamregistry` or for the failure of its write. `Device` and `Termios` have safety properties
only, and no fairness.

## 4. What is proved

For all constants that satisfy `FifoAssumption`, `RtsAssumption`,
`TxAssumption`, `RxAssumption`, `LinesAssumption`, `DeviceAssumption`,
`TermiosAssumption` and `PersistAssumption`, and nothing else taken on trust:

| Theorem | Statement |
|---|---|
| `UartFifoProofs!TypeCorrect`, `IndicesConsistent`, `UnderflowIsBounded` | the counters agree, and the count goes no lower than -1, for every size and any set of producers |
| `UartFifoProofs!CountInBounds` | with one producer the check outside the lock is enough, and with no flush from the tty the other one is too (`InBounds`) |
| `UartFifoProofs!FifoIsQueue` | with one producer and no flush from the tty, `Spec` implements `CharQueue` |
| `RtsProofs!RtsTypeCorrect`, `OneWorkerInBackground`, `CloseLeavesNothing`, `YieldKeepsWakeup`, `BackgroundStaysAlive` | the invariants of `rts`, for any number of processors, timeouts and delays |
| `RtsProofs!RtsIsBackground` | the services implement `Background`, for the same |
| `RtsProofs!TimerLockExcludes`, `OneProcessorNeverDeadlocks`, `DeadlockIsFinal` | who holds `Lock_timer_task` and where; the deadlock of `rts_disable` needs two processors, and nothing ends it |
| `RtsProofs!StrandedTaskStays` | a task that sleeps in `RSATaskYield` when new runs are forbidden sleeps on until the next open: behind the violation of `rts_terminate` |
| `TxPathProofs!TxTypeCorrect`, `WriteWakeupNotLost` | type correctness and the wake-up of the writer, for any size, threshold, writes |
| `TxPathProofs!CountersStaySound` | the FIFO of the path is `UartFifo`'s, whose invariant holds there: its counters agree, and go no lower than -1 |
| `TxPathProofs!WriteLosesNothing`, `WriteOverrunsNothing` | what `softserial_write` reports it stored, and it copies nothing it was not given, under the conditions of `NothingLost` and `NoOverrun` and `SmallCounts` |
| `TxPathProofs!TxAloneUsesFifo`, `TxAloneIsQueue`, `AloneIsNeverWild` | while no other context sends, the path is a behaviour of a FIFO with one producer; without flushes from the tty it implements `CharQueue`; and the size of its `memcpy` is never negative, if the size of the FIFO is in the range of an `int` |
| `RxPathProofs!RxTypeCorrect`, `AllIsPushed`, `OrderIsKept` | the safety properties of `rx`, for any size, limit and flip buffer |
| `RxPathProofs!RxUsesFifo`, `RxFifoIsQueue` | the receive path is a behaviour of `UartFifo`, so its theorems hold there; it implements `CharQueue`, with no condition |
| `TermiosProofs!TermiosTypeCorrect`, `SettingsAgree` | the invariants of `termios`, for any speeds and requests |
| `TermiosProofs!ParityIsEven`, `OddComesToEven` | no overlap of calls brings a parity other than none or even to `uart`; a request for odd or mark parity comes to even, for every request (finding 5) |
| `TermiosProofs!AskedReadsFlags`, `FlagsReadBack` | `Asked` gives back every setting `softserial_set_ldisc` has flags for, odd and mark parity included; `softserial_set_ldisc` is undone by `softserial_set_termios` on every setting that `uart` can have |
| `ModemLinesProofs!LinesTypeCorrect`, `ExternalIntIsKept`, `ChangeIsNotMissed` | the invariants of `lines`, for any number of contexts and waiting processes and any of the status lines |
| `ModemLinesProofs!DecisionIsPresent` | TIOCMIWAIT compares with lines as they are when it decides, but for those that changed while it was not on the queue |
| `DeviceProofs!DeviceTypeCorrect`, `ModemOnWhileOpen`, `ModemOffWhenClosed`, `InterruptFindsRegisters`, `TtyStaysAlive` | the invariants of `device`, for any number of processes and any width of the count |
| `DeviceProofs!DeviceIsShared` | `Device` implements `SharedModem`, for the same |
| `PersistProofs!PersistTypeCorrect`, `AnswersMatch`, `GivesUpUnreached`, `AtomicIsUnserved` | the safety properties of `persist`, for any number of requests and either kind of kernel |
| `PersistProofs!FailureIsFinal`, `AnswersComeInTime` | after a failure no request passes the test of `noAppRunning`; before one, an answer is written while the core still waits for it |

The arguments:

- *FIFO.* A check outside the lock must be shown to hold still under it.
  `NoOverflow` is not inductive: the invariant adds that a producer between its
  check and its store leaves room for one (`count < N`), which the consumer and the flushes can only
  improve, and that only one producer is there. `NoUnderflow`, the other half of `InBounds`, adds that a consumer
  between its check and its take has `count > 0` when nobody else flushes.
  `UnderflowBound` needs only that such a consumer has `count >= 0`: it is the
  signed check that stops a second underflow. `IndexCount` goes through modular
  arithmetic, in lemmas. For `FifoIsQueue` the queue is the `count` places from `get`;
  each action maps to `Put`, `Take`, `TakeNothing`, `Empty` or a stutter.
- *Services.* `RtsInv` (`OneTask`) treats `rs_task_running` as a token: while it is
  set it is in one place, with the scheduler that has set it and not yet queued
  the work, with the queued work, or with the one busy worker; only a scheduler
  that finds it clear may start a task. From it, and `BgLockHeld`, a worker at the
  lock finds it free. `Quiet` strengthens `QuietTeardown` by the place between the
  two tests of `RTS_Task`: once a close has found `rs_task_running` clear,
  `rs_task_enabled` being clear already (`Phases`), a task still started by a
  scheduler that had read the flag before is turned away by the first test.
  `NoLostWakeup` is kept because there is one task only: whoever clears
  `rs_task_yielded` clears it for the sleeper and goes on to wake it. `Phases` also
  says in which phases of a close the timer may be armed or handled, which gives
  `TimerStopped`, the other half of `StopsQuietly`. For `BackgroundAlive` each place of
  `RTS_Timer` either leads back to arming the timer or is passed only with
  `rs_timer_running` clear, and the token again says that whoever set
  `rs_task_running` is on the way to clear it.
- *Services as a background.* `TimerIsBg`, `TaskIsBg` and `AppIsBg` map each action to a step of
  `Background` or a stutter. `OneTask` makes `Inside` at most one worker and forbids a
  second run while one is due; `Quiet` says that no run begins after `Completed`, and that it
  finds nothing left; `Allowed` adds to `RtsInv` that runs are allowed as long as the session
  is open, so none is turned away then. A resume comes from `RTS_Task_Schedule`, so
  with `Phases` it comes before the services are disabled. Actions that move nothing the mapping
  looks at go through `SessionKept`, `DueKept` and `RunKept`.
- *The deadlock.* `LockHeld` ties the lock to places of the code. On one processor the handler
  has returned when `RTS_Disable` takes the lock, and starts again only when it is free.
- *Transmit path.* While a process waits asleep on a FIFO that has drained below
  the threshold, a pump that has taken something has not yet made its last test, or
  has made it and is about to queue the work, or the work is queued, or the handler
  is about to test the bit or to wake. `WakeUp` in `TxPathProofs` names these (`Waiting`, `Moving`,
  `Pending`) and each action of any of the parties hands one over to the next.
  Every step of the path is a step of `UartFifo` or leaves the FIFO alone
  (`StepIsFP`), which gives `CountersSound`. With the other context idle
  (`OtherIdle`) each step is also one of the FIFO with the writer as its only producer
  (`StepIsAlone`; `Alone` is `UartFifoProofs` under that substitution), so `FifoIsQueue`
  and `NoOverflow` hold there by instantiation, and the room that `softcore_space` returns is no
  less than 0.
- *One call of* `softserial_write`. The theorems assume `SmallCounts`, which limits the
  model's `MaxCount` to the range where an overfilled ring still reads as a
  negative room and not, wrapped once more, as a positive one. Then a positive room
  is `N - count` (`SpaceIsRoom`). `RoomKept`: unless others store or flush, that
  room stays for the rest of the copy, since the pump only adds to it, so every
  character is stored and `stored` keeps step with `written`. `OneCopy`: while nothing
  leaves the FIFO, a copy either takes all that was asked or fills it, so there is no
  second copy with the wrong bound.
- *Receive path.* Every step of `RxPath` is a step of `UartFifo` or leaves the FIFO alone
  (`FifoKept`), so its invariant carries over and is used: the consumer has data when it
  takes. `Position` adds that nothing is uncommitted as long as nothing was accepted, for
  the push depends on that count. `RxOrder` is proved action by action on the sequence
  of what is in the tty, in hand and in the ring.
- *Line settings.* `InSync` speaks of the time between calls only. `Setting` and `Getting`
  say for each field what each routine has copied when it comes to it; they hold while
  nothing overlaps, when one routine's source cannot change under it (`Alone`). `Values`
  has what no overlap can break: only no parity and even parity reach the UART, and two
  stop bits there are two in `dce_stop_bits` too, which is why a stale value can differ
  in one direction only. `TranslateAsked` sets what `softserial_set_termios` hands on against
  what was asked: they are the same but for odd and mark parity.
- *Modem lines.* A hang-up is not lost because each step of `UART_dtr_off` and of
  `clm_rx_int` leaves a trace for the next: the line differs from what the library
  read, then a context is at the wake-up (`WakesThere`: with a switch that wakes,
  so the announcement follows) or at the announcement, then the flag is set, then
  the library is about to read. Were the flag cleared after the read, the last
  link would break. For the waiting process, `Knows` says at each place of
  TIOCMIWAIT which of its values are those of the lines, but for the lines in
  `early`; when it joins the queue the old values are, so a later difference was
  made by the modem core, which is then at its wake-up.
- *Device.* `Counting` says that the count is the number of processes that are
  starting the modem or have it open, as long as nothing was miscounted; so it is 0
  when all are away, and above 0 for whoever has it open. `OneChanges` is what the count
  is for: whoever starts the modem does so with the count above 0, whoever stops
  it with the count at 0, and there is one such process. Hence nobody
  disturbs a start or a stop half-way, and `TurnsOn` and `TurnsOff` can say what each
  has done at each place and what holds in between. `Ordered` has the order of
  registers, interrupt and callback, and survives opens that fail and are
  miscounted, since it needs `OneChanges` but not `Counting`. `Leaving` is the kernel's part: the tty
  is freed when all others are away, so with the count at 0 and no pointer to it.
- *Device as a shared modem.* `PowerIs` says by cases what `Power` is in a state of
  `DeviceInv`: since `OneChanges` lets one process at a time start or stop, and `Counting` ties
  the count to who is where, the places of all processes come down to the count and
  to the one that acts. Each action of an open and a close then has a lemma of its own.

- *Persistent settings.* As long as no request has failed and `hamregistry` has not
  been interrupted, it is at rest when a request is made, and no wake-up is on its way
  (`Flow`). After the core's wake-up the exchange is in one of three phases: `NotYet`
  (the wake-up did not meet it, and the packet is still there), `Serving` (it has the
  packet in hand and `pkt_from_app` is clear), `Done` (the answer is in the packet); each of
  its steps moves to the next. `Failing` ends this for good: after a failure no request
  goes beyond the test of `noAppRunning`, so an answer that comes late meets none.
  In atomic context nobody waits, so the core takes the packet back in the same run:
  the packet is gone before the work item with its wake-up gets a turn
  (`UnservedInAtomic`).

Only model-checked: the liveness properties, since the prover does not reason about
fairness and `ENABLED`, and the four refutations. What is proved of each is the safety it rests on:

| Liveness, checked by TLC | Proved of it |
|---|---|
| `BackgroundRuns`, `YieldResumed`, `CloseReturns` (`rts`) | `BackgroundAlive`, `NoLostWakeup`, and that only two processors can deadlock |
| `WriterProceeds`, `DrainEnds` (`tx_live`) | `NoLostWriteWakeup`, `CountersSound` |
| `SendReturns` (`rx`) | `AllPushed`, `InBounds` |
| `HangupSeen` (`lines`) | `ExternalIntKept` |
| `RequestEnds`, `WakeReaches` (`persist`) | `GivesUpOnlyUnreached` |

The refutations `rts_terminate` and `rts_disable` are explained by `StrandedTaskStays` and
`DeadlockIsFinal`: what TLC shows once, nothing undoes on any number of processors. All invariants and action properties of the passing runs are proved.

## 5. Findings

1. `uart.c:680`, run `fifo_room`. The room is checked before the lock and not
   under it, so two contexts can both take the last place: the oldest unread
   character is overwritten, and the count exceeds the size. Then
   `UART_dce_to_free` wraps round and never again reports a full FIFO until it is
   drained to its size. The counters stay consistent (`IndexCount`, in `CountersSound`).
2. `rts.c:314`, run `rts_terminate`. `RTS_Task_Terminate` clears
   `rs_task_enabled`, after which nothing resumes a task asleep in
   `RSATaskYield`. The close waits its four seconds in vain and tears the modem down under
   the task, which holds `Lock_clm_bg` for good; the next open starts a second
   task, which spins on it. `clmmain.c:246` says the opposite.
3. `rts.c:147`, run `rts_disable`. `RTS_Disable` calls `del_timer_sync` while
   holding the lock the timer's handler takes: on two processors both wait for
   ever.
4. `softserial.c:321`, run `device_close`. A second open returns 0 while the first
   is still starting the modem. If that fails, it takes its count back, and the
   close with which the kernel follows a failed open takes the other's: the count is
   0 and the modem is stopped under a process that has it open, although
   `softserial.c:324` says "if not last one open, just return".
5. `softserial_io.c:307`, theorem `OddComesToEven`; proved for every request instead of
   run for one. The tests for odd and mark parity are on `PARENB & PARODD` and `PARENB & CMSPAR`,
   which are 0, so they never hold, and the one for even parity always does: whoever asks
   for odd parity has even parity, although `uart.c:587` has "1 - Odd Parity", and
   `softserial_io.c:241` turns that 1 into `PARENB | PARODD`.

Met while modelling, and stated as conditions of the properties rather than as
runs: the copy size of `softserial_write` is bounded by all that was asked and
not by what is left of it, so it can send what lies behind the buffer when the
pump makes room during the call (`drained` in `NoOverrun`); its count ignores what
`write` returns (`crossed`, `flushed` in `NothingLost`); `softserial_flush_buffer` wakes
nobody (`flushed` in `NoLostWriteWakeup`). In codes alone, and of no consequence in
the repository's C: one stop bit is passed to `UART_stop_bits` as 1, which `uart.c:567`
calls "1.5 Stop Bits Per Character" (`Asked`).

## 6. Not modelled, and the plan

Left for later, in this order:

1. `RunTime`: ticks, time slices and minimum loops (`task.c`). `Rts` has the library yield
   at any time or never, so its properties hold for every slice; the ticks themselves,
   and a slice that is stale after a re-open, are not modelled.
2. `Rts` and `Device` composed, for the open that comes after a close that gave up.
3. The flush by a close that gave up, in `RxPath`; an open that fails, in `Termios`;
   loading and unloading, in `Persist`.

Not planned: the modem library (no source; it appears as external actions), the
tables of countries (data), PCI detection and registration (straight-line calls
of the kernel), the lock wrappers only the library uses, scripts and packaging. Most of the lines
of the repository are of these kinds: the two `autoconf.h` are the generated
configuration of a kernel (a list of definitions), `wwh_dflt.c` is data, and the headers
declare what the C files define.
