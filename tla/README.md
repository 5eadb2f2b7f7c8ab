# Models and proofs of ArcticTracker-Teensy

ArcticTracker is an APRS tracker, digipeater and igate: a Teensy 3.2 with
ChibiOS/RT, a VHF transceiver module (SR_FRS_1W), a GPS and an ESP8266 WIFI
module. This directory holds TLA+ models of its firmware, the TLC
configurations that check them on small instances, and TLAPS proofs.

    tlc -workers 2 -config Fbq_fifo.cfg Fbq      # one line per .cfg, see "Runs"
    tlapm FbqProofs.tla

`PROJECT.json` lists components, runs, the lines each definition models, the
hazards of the code, and one plausible bug per checked property (a *mutant*
definition, kept in the module just before the definition it would replace).

Contents: 1 the system, 2 scheduling, 3 what is modelled, 4 runs, 5 proofs,
6 disagreements found, 7 plan, 8 not modelled.

## 1. The system

| Component | State | Operations | Hard behaviour |
|---|---|---|---|
| Packet buffer pool `fbuf.c` | `_pool` of 900 slots of 32 bytes with reference counts, `_free_slots`; an `FBUF` (head, write and read slot, read position, length) per packet | new, putChar, write, removeLast, newRef, connect (with `_split`), release, reset, rseek, getChar, read | slots shared by packets of several threads, cut while shared or read; slot boundaries; pool exhausted |
| Packet queue `fbuf.c` (FBQ) | ring, `index`, `cnt`, semaphores `length` and `capacity` | init, put, get, clear, signal, eof, full | blocking calls that are in two halves; clear while others are inside |
| HDLC encoder `hdlc_encoder.c` | `encoder_queue`, `buffer`, `hdlc_idle`, `enc_idle`, monitor queue | thread: get packet, wait for radio and channel, encode up to MAXFRAME frames; wait_idle; test signal | waits for radio, channel, byte queue and is itself waited for by `radio_release` |
| AFSK transmitter `afsk_tx.c` | byte queue `oq`, `transmit`, current byte | bit clock interrupt: next bit, PTT | interrupt calls `radio_PTT`, which waits on a semaphore |
| Transceiver `sr_frs.c` | `_on`, `radio_rdy`, `count`, `channel_rdy`, `tx_off`, two mutexes, two condition variables; copies of the settings | require, release, PTT, wait_enabled, wait_channel_ready, squelch interrupt, settings over a serial line | counted users from several threads; power-down must wait for encoder and transmitter; commands and replies on a line that nothing locks |
| HDLC decoder `hdlc_decoder.c` | bit history, frame buffer, three subscriber queues | bit unstuffing, FCS check, distribution to monitor, digipeater and igate | blocks in the queue of a slow subscriber; subscribers come and go |
| AFSK receiver `afsk_rx.c` | filters, clock recovery, bit queue | sampling interrupt, bit clock | interrupt to thread queue |
| Heard list `heardlist.c` | ring of 32 checksums with time stamps | tick (every 5 s), exists, add, duplicate | ring boundaries, 16-bit time; digipeater and igate share it |
| Digipeater `digipeater.c` | on/off, queue, thread | activate, check_frame: path rewriting | started and stopped under traffic |
| Igate `igate.c` | on/off, running, radio/net threads, queue | connect and log in, gate RF to internet and back, activate | connection loss, attempts, three callers of activate |
| Packet monitor `monitor.c` | on/off, queue, text flag | activate, print packets | started and stopped under traffic |
| WIFI and internet `ui/wifi.c` | mode, received-line buffer, two mutexes, semaphores | commands with answers, open, close, write, read; parameters from the web interface | late answers, lock order |
| Tracker `tracker.c` | last position, position buffer, 4 objects, counters | main loop: when to send, what to send | smart beaconing, repeated use of the radio |
| GPS `gps.c` | fix flag, position, time | parse sentences, notify, wait_fix | stale notifications |
| Configuration `config.c`, `util/eeprom.c` | parameters with checksum in EEPROM | get, set, reset | power loss between value and checksum; sizes |
| Button, menu, status screens `ui/ui.c`, `ui/gui_menu.c`, `ui/gui_status.c` | button flags and timers, `butt_event`, menu position, current screen, display mutex | interrupt and timers make events, button thread handles them, display thread redraws | events that overlap; two threads that draw |
| RGB LED `ui/ui.c` | colour or mix, priority flag, phase and timer | mix, on, off for threads; priority on and off for interrupts | interrupts and timer between test and act |
| Shell `ui/commands.c`, `ui/text.c` | none of its own | 60 commands: set, ask, start, stop, send | calls into all of the above |

How they interact:

- *Packet out*: tracker, digipeater, igate and shell commands build a packet
  with `fbuf_*`, `fbq_put` it into `encoder_queue`; the encoder writes bytes
  into `oq`; the bit clock interrupt sends them and keys the transmitter.
  Tracker and shell commands surround that with `radio_require` and
  `radio_release`; digipeater and igate hold the radio while they are active.
- *Packet in*: sampling interrupt, bit queue, decoder thread, then one
  `fbq_put` per subscriber of the same packet (`fbuf_newRef`); digipeater and
  igate ask the heard list and connect a new header to the old content
  (`fbuf_connect`), so the slots of one packet are in several threads' hands.
- *Internet*: igate calls `inet_*`, which are commands over a serial line with
  a monitor thread that sorts answers from received lines.

What makes each correct: a slot is in use exactly while a packet has it, and a
packet keeps its content whoever shares it; a queue is a bounded FIFO; what is
on the air is whole frames, in order, while powered and keyed; `radio_release`
returns and does not cut a packet off; the heard list says what was heard
lately; a subscriber gets every frame once while active; activation and
deactivation leave neither a stuck thread nor a lost buffer; a parameter that
passes its checksum is one that was set.

## 2. Scheduling, and what a step is

`chconf.h:82` sets the time quantum to 0: threads of the same priority run
until they block or sleep. All protocol threads have `NORMALPRIO`; the button
thread (`NORMALPRIO+1`, `ui/ui.c:328`) and the LED thread are higher. So in the
models a thread's code between two places where it may block is one step, and
threads interleave at those places; interrupts (bit clock, squelch) come
between any two steps. ChibiOS semaphore queues are first come first served
(`chconf.h:177`), mutexes and condition variables behave as documented.

The button thread can also come into the middle of a function of another thread.
Where that matters a function is cut into steps: settings are written unit by
unit (Panel), the position buffer is tested and read in two steps and objects are
picked, built and sent in three (Tracker), a thread that tests `pri_on` acts on it
later (Led). The button's own calls are cut where they may block in a full queue. The functions of `fbuf.c`, which the
button thread calls too when it turns digipeater or igate off, are one step
each: that two of them can meet in `_fbuf_newslot` is a hazard listed without a
property (`fbuf.c:77`).

## 3. What is modelled

### Fbq (with BoundedFifo) — `fbuf.c:441-511`

`index`, `cnt`, `buf`, `length`, `capacity` are the fields of `fbq_t`; a
semaphore is its counter and its queue of threads. `fbq_put` is `PutNow` (a
place is free), or `PutWait` followed by `PutResume`: `chSemWaitS` gives up the
lock, and between the signal that grants the place and the moment the producer
runs again, other threads put and get. `fbq_get` likewise. `Clear` is
`fbq_clear`; with `ClearAnyTime = FALSE` it is called as its comment asks, with
no thread inside a call, and with `TRUE` whenever. Threads that were reset by it
go on with `PutReset` and `GetReset`. `fbq_eof` is the macro of `fbuf.h:83`, and
`EofExact` what the encoder does with it: it asks, and then gets a packet while the
transmitter is running.

`BoundedFifo` says what a queue promises in terms of calls, arguments and
results only: a sequence of at most `Size` buffers. `ImplementsFifo` is the
refinement, with `fifo` the `cnt` places after `index`.

### Fbuf (and MCFbuf) — `fbuf.c:22-429`

`pool` and `free_slots` are the code's; `fb[h]` is the FBUF record of handle
`h`. Each function of `fbuf.c` is one action, and any handle may be the
argument of any of them as far as the callers do that: a packet is written to
only before it is shared (`phase`), as the comment of `fbuf_connect` asks.
`text` and `nread` are history: the bytes a packet is meant to have, and how
many of them its reader has passed. A byte is the pair of the handle that wrote
it and its position, so two bytes are never mistaken for one another.
`fbuf_write` and `fbuf_putstr` are repeated `PutChar`; `fbuf_insert` has no
caller.

`fbuf_connect` is called with any position and `fbuf_rseek` with any position of the
packet, also where the code does not do well: a split at the end of a slot leaves an
empty one, a cut before the place of a reader and a seek to the boundary of two slots
leave the reader at no byte (`AtByte`). `ReaderExact` speaks of readers that stand at a
byte or at the end, and `EofAtEnd`, `RseekExact` and `ReaderKept` say what is lost in
those cases. `HeaderPast` is by how much the header length of the callers
(`AX25_HDR_LEN`, which counts a PID) may exceed a frame: 1 with frames that have no
PID, 0 without. Past the end, `_split` makes a slot whose length has wrapped
(`LengthSize`, 256 in the code) and a byte nobody wrote (`Junk`).

### TxPath — `hdlc_encoder.c`, `afsk_tx.c`, `sr_frs.c`

One variable `enc` says at which blocking place the encoder thread stands;
`user[u]` the same for a thread in `radio_require` or `radio_release`. The bit
clock interrupt is taken a byte at a time: `TxStart` (first byte, PTT on),
`TxNext`, `TxEnd` (queue empty, PTT off). `air` records what the transmitter
sends between keying on and off, as symbols: flag, content of packet p, checksum
of packet p.

| Code | Actions |
|---|---|
| `hdlc_txencoder` | `Fetch`, `Enable`/`WaitEnabled`, `ChannelFree`/`ChannelBusy`/`ChannelBlock`, `Pause` |
| `hdlc_encode_frames` | `Preamble`, `Frame`, `FrameCheck`, `Between`, `Postamble` |
| `afsk_txBitClock`, `radio_PTT` | `TxStart`, `TxNext`, `TxEnd` with `KeyOn`, `KeyOff` |
| `squelch_handler` | `SquelchOpen`, `SquelchClose` |
| `radio_require`, `_initialize` | `Require`, `Initialized` |
| `radio_release`, `hdlc_wait_idle` | `Release`, `Slept`, `TestIdle`, `WaitIdle`, `WaitTxOff`, `TurnOff` |
| `cmd_testpacket` and other senders | `Put` |

`wait_channel_ready` tests `channel_rdy` and then waits, and the squelch
interrupt is locked out of neither: `ChannelBusy` and `ChannelBlock` are two
steps, and `NoWaitOnFree` says what is lost between them. `TurnOff` happens with `radio_mutex` held since `Release`, and `Enable`
needs that mutex. Timing enters in three guards, each named in a comment:
`TxEnd` (the byte queue does not run dry while the encoder can run, a byte lasts
6.7 ms), `Postamble` and `Slept` (the bit clock has ticked during a preamble or
a 60 ms sleep), and `EncoderBlocked` (who calls `radio_release` has slept after
its `fbq_put`).

### RxPath — `hdlc_decoder.c:133-152`, `monitor.c`, `digipeater.c:43-129`

The decoder thread takes a frame round its subscribers: `Receive`, then per
`mqueue[i]` `Skip` or `PutFrame` (`PutResume` or `PutReset` if it had to wait),
then `Finish`. The queues are rings with semaphore counters as in Fbq. A
subscriber's thread is `Begin`, `Resume`, `Dispose`, `End`; `mon_activate` and
`digipeater_activate` are `Start`, `Stop` (with `RadioReleased` for the
digipeater), `SignalResume` if `fbq_signal` had to wait, and `Join`. `ref` counts
references per packet buffer, and `Holders` says who has one.

Threads of normal priority run only while the decoder has given up the processor
(`Yielded`); the button thread, which controls the digipeater, runs at any time.
`quiet` is history: FALSE once something was received while a subscriber was
being turned off, or the monitor was turned on or off in the middle of a frame.
All behaviours go on after that, but `RefsExact` and `ReceptionGoesOn` are
stated for quiet behaviours: the code does not keep them otherwise (hazards at
`digipeater.c:124`, `hdlc_decoder.c:147`). `EachFrameOnce` holds in all, and so does
`StopReturns`, which lets a stop only be `Stranded`: waiting for a place in the full
queue of a thread that has ended.

### Heardlist — `heardlist.c`

The ring and its three functions as they are, including where the loops start
when the ring has wrapped (`First`), which is outside of the array; what is read
there is any entry (`junk`). `heard` is history: when each checksum was added.
Runs wrap the ring; `DuplicateExact` is of what comes before that (`Unwrapped`),
`ExistsIfInList` of all.

### Digipeater (on Heardlist) — `digipeater.c:138-213`, `igate.c:252-300`, `ax25.c`

A frame is its address fields with the used and last flags, the control field
and the rest. `Hear` puts it into the queues of digipeater and igate;
`CheckFrame` and `Rf2inet` take it from there, in any order: they ask the one
heard list, decode the header up to the last-flag or to seven digis (`DecodedPath`: the code then says
eight, and what is in the eighth is `Beyond`), build the new
path (`NewPath`) and encode the header (`EncodeHeader`). What the next station
decodes is compared with the old frame (`PathKept`): also for a path in which a
digi is marked as used after one that is not, where the next station finds more
used than this one marked. An `Address` is a name of `Callsigns`, an SSID of four
bits and the used flag.

### Modem — bits and samples

A transmission is encoded at once, as the encoder thread does it
(`EncodeFrame`, with bit stuffing and flags); then each `Sample` gives one
sample of the tone (`TxBitClock`) to the receiver (`ProcessSample`: transition,
nudge of the phase, majority of three, NRZI, octets), and `Decode` is the
decoder thread from one `get_bit` to the next, with its loops (`FlagSync`,
`FrameSync`, `Octet`, `Skip`). The clocks of the two stations differ (`SlipGap`),
the receiver starts in any of `Phases`. `CrcMatch` is `crc_match` with the 8-bit length
of its parameter (`LengthSize`) and the seek to where the checksum begins: if that is
the boundary of two slots of the buffer (34, 66, 98 octets ...) it reads something else
(`FcsFound`). The checksum itself accepts what was sent and nothing else.

### Wifi — `ui/wifi.c:65-365, 661-750`

`wifi_mutex` and `data_mutex`, the semaphore of the answer (`response_pending`),
`client_active` and the client's buffer are the code's; commands carry numbers
as history, so that an answer that is taken for another one's is seen. A client
is `Call`, `LockData`, `Lock` (with `Written`), `TimeOut`, `Return`, or the shell
of the module (`ShellWanted`, `ShellBegin`, `ShellEnd`). The monitor thread is
`ReadAnswer`/`Signal`, `ReadClosed`, `ReadBoot`/`ServerStarted` and
`ReadRequest`/`MonitorLock`/`MonitorLine`/`Serve` for `wifi_command`, which may
wait for a mutex in two places. The module (external) answers in order, late or
not at all, closes connections, asks, and restarts.

### Igate — `igate.c:86-242`, with its queues

`main` is where the main thread stands: connecting with attempts, welcome,
login, listening, and the end with the signal to its child and the wait for it;
`radio` is the child; `control` is where `igate_activate(false)` stands. Decoder
and tracker put into `rxqueue` (`Put`, `PutResume`); data from the server comes
by `read_queue`. `crowded` is history: a `fbq_signal` found its queue full.

### Tracker — `tracker.c`, `gps.c:325-426`

`Sentence` is what an RMC sentence does to fix and position, `SetTimer` and
`Expire` the time limit of `gps_wait_fix`. The thread is `Begin`, `Waited`,
`Status`, `PickObject`/`BuildObject`/`SendObject`, `Position` (`should_update`, with
`Due`), `TestEmpty`/`getPos`, `Repeat` and `Sent` (`report_station_position`), `Sleep`,
`End`. What distances, bearings and speeds come to is a choice. The button, of higher
priority, asks for a report (`tracker_posReport`, between any two of these steps) and adds
and clears objects; `AddObject`, `ObjectDeleted`, `ObjectAdded` and `ClearObjects`,
`ObjectCleared` are its calls cut at each `fbq_put`, which may block. This commit calls
`tracker_addObject` and `tracker_clearObjects` from nowhere; they are modelled as what
`tracker.h:13-14` offers to the button's thread. The shell turns the tracker on and off and sets
TRACKER_MAXPAUSE (`SetMaxPause`). A read of `nPos` in `getPos` may be of the variable or of
what was tested before, as the compiler likes. `air` is history: what others were told of the
objects; `apart` is FALSE once a call for objects has overlapped the thread's report of them.

### Settings and Panel — `config.c`, `config.h`, `util/eeprom.c`, `ui/text.c`, commands

`Layout` gives each parameter its address and size; a byte is the set of its
one-bits, so that the checksum is a symmetric difference. `Set` and `SetByte`
return the steps of a write: aligned units of four, two or one bytes as in
`eeprom_write_block`, then the checksum. The operators of `commands.c`, `text.c`
and `wifi.c` say what each command writes. In `Panel` four threads take such
steps: shell, web interface and display thread, which run until they may have to
wait, and the button thread, which comes in anywhere. Turning a switch on or off
is `Activate`, `RadioStep`, `JoinThread`; `ThreadWakes` is the digipeater's or
igate's thread. `PowerCut` may come at any time. `torn`, `clash`, `tried`, `last`
and `stale` are history. `WritesStay` speaks of steps: none reaches a parameter other
than the one that is being set.

### Ui — button, menu, status screens

Interrupt (`button_handler`), timers (`bphandler`, `holdhandler`), the event
thread (`TestShort` … `Again`), and drawing: `draw[t]` is what thread t has yet to
draw. `click_handler` and `push_handler` change menu and screen and say what is
drawn; `Update` is the display thread, of lower priority; `Draw` takes one step
of drawing, and a thread may wait at the mutex, at the WIFI module and while the
picture goes to the display. `seen` is history.

### Led — `ui/ui.c:15-171`

`rgb_led_mix`, `rgb_led_on`, `rgb_led_off`, `chandler` and the two priority
functions are operators of the same names. `Ask` and `Answer` are a thread's
call before and after the test of `pri_on`; `PriOn` and `PriOff` are squelch
and bit clock interrupts, `PriOffUnasked` the `radio_PTT(false)` of `_initialize`,
which turns off a colour that may not be on.

### Trx — settings of the transceiver, `sr_frs.c:107-151, 226-363`

Parameters, their copies in memory (`radio`) and what the transceiver has been
told (`chip`) are three places. `Order` is one setting of a command of shell or
web interface; who requires the radio goes through `PowerUp`, `Handshake`,
`Initialize`, `Ready` and `PowerDown`; `ReadReply` is `readline` by whoever
waits. The transceiver (external) boots, obeys and replies (`Booted`, `Obey`).

### MCParts

Digipeater, Modem, Panel, Ui, Led and Trx share no state (Heardlist is below
Digipeater, Settings below Panel). `MCParts` takes one of them in each behaviour,
the others stay as they are: six checks in one run, and no more.

## 4. Runs

| Run | Bounds | Question |
|---|---|---|
| `Fbq_fifo` | 2 producers, 2 consumers, ring of 2, 2 buffers | `TypeOK`, `Accounting`, `EofExact`, and the FIFO is implemented |
| `Fbq_live` | 3 producers, 1 consumer, ring of 2, clear at any time | a put that waits returns (`PutReturns`) |
| `Fbuf_share` | 3 handles, 4 slots of 3 bytes, 2 bytes written per packet, positions one past the end | references and free counter are exact (`RefExact`, `FreeExact`) |
| `Fbuf_read` | 3 handles, 3 slots of 2 bytes, 3 bytes written per packet, 1 reader | content is kept, readers are where they should be (`ContentKept`, `ReaderExact`) |
| `TxPath_run` | 2 users, 2 packets, queue of 2, byte queue of 2, MAXFRAME 2 | power, PTT, framing, order; `radio_release` returns |
| `RxPath_run` | monitor and digipeater, queues of 1, 2 frames, 2 stops | references, delivery, decoder and stops go on (`RefsExact`, `EachFrameOnce`, `ReceptionGoesOn`, `StopReturns`) |
| `Wifi_run` | igate and shell, 3 commands, 1 request (for a parameter or for access points), restart or power switch | answers go to their commands, the connection flag is right, calls return |
| `Igate_run` | queues of 2, up to 4 attempts per connection, no bound on starts and stops | nothing is left, stop returns, decoder is not held up (`NothingLeft`, `StopReturns`, `DecoderGoesOn`) |
| `Tracker_run` | 2 positions, 2 objects, buffer of 1, `int8_t` of -2..1, maximum pause 1 or 2, on or off at the start, 3 acts of button and shell | objects on the air, reports in time, `tracker_off` returns |
| `MCParts_run` | Digipeater: 2 frames of seven paths, list of 3, 3 more entries, 3 ticks; Modem: 2 transmissions of 2 frames, 2 phases, a slip every 15 bits; Panel: 5 parameters, 2 commands, 1 poll, 1 push, 1 power cut; Ui: 8 edges, 2 screens, 3 items of which 2 are seen, 1 update; Led: a colour and two mixes; Trx: 2 frequencies, 2 squelch levels, 2 commands, 2 power-ups | `DuplicateExact`, `PathKept`, `FrameArrives`, `ReadsAsSet`, `SwitchExact`, `ButtonExact`, `ScreenExact`, `LedExact`, `TrxExact`, `WritesStay` |
| `TxPath_pending` | as `TxPath_run` | refutes `SentBeforeOff`, see section 6 |
| `Wifi_order` | igate, 1 command, 1 request for a parameter | refutes `RequestServed`, see section 6 |

Twenty more configurations are here for the statements of comments that the code
does not keep: each ends in a counterexample, and section 6 lists them.

Why the bounds are enough to be of interest: two producers and two consumers
are what it takes for one thread to overtake another between grant and run; a ring of two wraps and is full and empty. Slots of two bytes have a first, an
inner and a last boundary, chains of two slots that are split give three, and with
slots of three bytes a cut past the end falls inside of a slot; three
packets are the header, the packet and the reference of a third subscriber. The
byte queue of two is smaller than any transmission, so the encoder waits for the
bit clock inside a frame and at every one of its `oqPut`. Two users are one that
releases while another requires. With a queue of one and two frames the decoder waits for a subscriber
and subscribers for the decoder, and two stops let a subscriber come back to the
ring it left; that a stop is stranded in a full queue needs three frames, which `RxPath_stop`
has. Three commands on the WIFI module are one that is late, one that
takes its answer and one more. A full ring of two objects pushes one out, in three acts with the tracker on from the start. A heard list of three wraps. Eight edges are four
presses: two clicks and two pushes in any order. Parameters of one, two and four
bytes at even and odd addresses take all widths of a write; a power cut comes
between any two of its units. Two commands are one that comes while another is
under way. Octets with ones at their start, end and throughout make bit
stuffing cross an octet; 15 bits between slips is as fast as the code's nudging
follows. `MaxLength`, `MaxReaders`, `MaxFrames`, `MaxStops`, `MaxTicks`,
`MaxAdded`, `MaxHeard`, `MaxCalls`, `MaxEvents`, `MaxPos`, `MaxActs`,
`MaxCommands`, `MaxPolls`, `MaxPushes`, `MaxCuts`, `MaxEdges`, `MaxUpdates`,
`MaxOrders` and `MaxPowerUps` bound what would grow for ever. Handles of Fbuf are
interchangeable (`Symmetry`, safety only).

Deadlock is checked in `Fbq_*` and `TxPath_*`. In the others the bounds may
leave nothing to do, in Fbuf a full pool, in Igate an igate that nobody starts
again after a signal found its queue full.

Conditions. Where a property holds except when calls meet that nothing in the
code keeps apart, the meeting is recorded in a history variable and the property
is stated for behaviours without it; all behaviours go on after it. These
variables are `quiet` (RxPath), `clean` (Wifi), `lost` and `crowded` (Igate),
`apart` (Tracker), `orderly` (Panel), `calm` and `tidy` of `seen` (Ui), `undisturbed` (Led)
and `alone` (Trx); `Unwrapped` of Heardlist is a state. What is broken when the
condition fails has a counterexample in section 6 for `clean`, `lost`, `apart`, `orderly`,
`undisturbed` and `Unwrapped`; for `quiet`, `crowded`, `calm`, `tidy` and `alone` the
hazard list says at which line they bite.

Fairness. In `Fbq_live` a ready thread runs, and consumers call `fbq_get` in
endless loops (encoder, digipeater, igate and monitor threads do); nothing makes
a producer put. In `TxPath_run` the encoder is a ready thread, the bit clock a
timer, and a thread inside `radio_require` or `radio_release` goes on; nobody
has to send or to release. Nothing is assumed of the squelch, nor of the draw that
gives the channel to the encoder: the channel may stay closed, or the encoder unlucky, for
ever, and `ReleaseReturns` then says that it is the channel the encoder waits for
(`WaitsForChannel`). In `RxPath_run` every thread goes on except that
nothing has to be received, started or stopped; a subscriber is done with a frame
some time, as it prints, beeps or puts it into a queue that is emptied. In `Wifi_run` and `Wifi_order` the
monitor thread and clients that have begun go on, and time limits expire; nothing
is assumed of the module. In `Igate_run` threads go on, connecting succeeds some
time (`SF` of `Connect`: there is an access point and a server), the server
sends something at intervals, as APRS-IS servers do, and a connection that
`inet_close` has closed is reported. In `Tracker_run` timer, thread and the waiting `tracker_off`
go on; sentences of the GPS need not come.

## 5. Proofs

Each theorem holds for every value of the constants that the named assumption
of its module allows. An invariant seldom is inductive as it stands; what had
to be added is said for each.

### Queue: `FbqProofs`

For any finite number of producers and consumers, any set of buffers and every
ring size from 1 to 255 (`FbqAssumption`):

| Theorem | States |
|---|---|
| `TypeCorrect` | `Spec => []TypeOK` |
| `AccountingHolds` | `Spec => []Accounting`, if `fbq_clear` is called as its comment asks |
| `EofHolds` | `Spec => []EofExact`, under the same condition: what the encoder does after `fbq_eof` is right |
| `Refinement` | `Spec => ImplementsFifo`, under the same condition |

The argument. `TypeOK` is not inductive alone: `SemSignal` takes the tail of a
queue when the counter is negative, which is well-typed only if counter and
queue agree. `Waiters` says that they do, which is a fact about the kernel's semaphores. `WaitInv == TypeOK /\ Waiters` is inductive: lemmas about
`SemTake`, `SemEnqueue`, `SemSignal` and `Granted` say that each keeps a
semaphore and its queue consistent. `Accounting` relates the counters to the
number of granted threads, so its steps need how the cardinality of
`GrantedIn(S)` changes when one thread is granted or runs; it is inductive with
`WaitInv` and `NoReset` (without an ill-timed clear no thread is ever in state
`"reset"`), as `QueueInv`. `EofExact` follows from `QueueInv` by arithmetic. For
the refinement each action of `Fbq` is shown to be the action of `BoundedFifo`
with the same result: a store appends to the `cnt` places after `index`, a
fetch takes their head; here `Accounting` shows that a granted put finds a free
place and a granted get a buffer.

### Packet buffers: `FbufProofs`

For any finite set of packets, any number of slots, slot size 1 to 255 and any
length of content (`FbufAssumption`):

| Theorem | States |
|---|---|
| `RefExactHolds` | `Spec => []RefExact`: a slot's count is the number of packets that have it |
| `FreeExactHolds` | `Spec => []FreeExact` |
| `ContentKeptHolds` | `Spec => []ContentKept`: the chain has what was put in |
| `ReaderExactHolds` | `Spec => []ReaderExact`: a reader at a byte is at the right one |

All assume `HeaderPast = 0`, that no packet is connected past its end, which is true of
frames that have a PID. That the other frames break `ContentKept` is shown by `Fbuf_past`;
`RefExact` and `FreeExact` are model-checked with them.

`RefExact` says nothing of where `next` leads, so it is not inductive. `FbufInv`
adds: from `head` there is a path without repetition that ends in `NILPTR`
(`Chains`); a packet that may be written to or shortened shares no slot
(`Owned`); only a slot that is the only one of its chain may be empty
(`Filled`), of packets that may be written to; `wslot` is the last slot
(`Writable`); the content of the chain is `text` (`Texts`). The code's loops
over slots are recursive functions in the model, of at most `FBUF_SLOTS`
rounds. An induction over them is done on sets: `Steps` says that a set of
numbers that has 0 and with k also k+1 has all up to n, and `Recursion` that the
recursive definition is met; `ChainIsPath` then says that the loop over `next`
collects exactly the path. All else is about paths: `PathJoin`, `CutAt` (a path
is what is before a slot, the slot, and the rest), `ContentConcat` and
`ContentFrame`, and one lemma for what each function of `fbuf.c` does to paths.
`OwnStep` is the case of functions on a packet that shares nothing; `Release`,
`NewRef` and `Connect` count users of slots. For readers `ReadInv` adds where they
may be (`ReaderIn`): a reader's slot is on its chain, a reader at `NILPTR` has read
all, and for one that stands at a byte the rest of the chain from `rslot` on is what
is still to be read and the `rpos` bytes before it. Of a reader that has been moved
off its byte nothing is said but that its slot is on the chain.

### Transmission: `TxPathProofs`

For any users, packets, sizes of the queues and `MaxFrame`: `TypeCorrect`,
`UserHasRadioHolds`, `KeyedMeansOnHolds`, `InterruptNeverWaitsHolds`,
`WholeFramesHolds`, `InOrderHolds`, and `NoneTwiceHolds` (no packet is on the
air twice); no run checks the first and the last of these.

`TypeInv` are the types with what they depend on. `PowerInv`: `radio_mutex` is
held exactly by who is turning the transceiver on or off, `count` is the number
of threads that have it, and `on` and `radio_rdy` follow. `KeyInv`: while the
encoder is in a transmission nobody has passed `hdlc_wait_idle`, `tx_off` is free
exactly while the transceiver is on, not keyed and not being turned off, and what
an idle encoder has left in the byte queue is being sent. This is why the
interrupt never waits, and why the power is not cut under the transmitter.
`AirInv` says which symbol may follow which, in `air`, in the byte queue and
between them; `OrderInv` that what is further on its way (air, sent now, byte
queue, encoder's buffer, packet queue) was put earlier.

### Distribution of frames: `RxPathProofs`

For any subscribers of the three, any size of the queues, any number of frames
and of stops (`RxAssumption`):

| Theorem | States |
|---|---|
| `RingInvariant`, `TypeCorrect` | queues, semaphores and threads agree; every variable has its type |
| `FramesDelivered` | `Spec => []EachFrameOnce` |
| `ReferencesExact` | `Spec => []RefsExact` |

`RingInv` is what the other two rest on, and holds in all behaviours, also when
a queue is cleared while the decoder waits in it. It has, for each subscriber,
`Exact`: the counter of `length` is the number of buffers, less the thread that
waits or was granted one; the counter of `capacity` is the number of free places
that nobody has been granted, less those who wait; who waits is in the
semaphore's queue once. And `Life`: there is a thread from the start of a
subscriber to the `Join` of its stop, and a queue is empty once it is off. There
is one lemma for what each of `Store`, `PutWait`, `Fetch` and `Clear` makes of
`Exact` of one queue.

`EachFrameOnce` is about a subscriber's *line*: what it has got, followed by what
is in its ring. `OrderInv` says of the line that the frames in it are in the order
of reception, and that they are all the decoder has passed to this subscriber
since it was turned on. A step leaves the line as it was (a fetch moves its
middle: `LineLeft`), or adds the frame to its end (`LineJoined`).

For `RefsExact` the holders of a buffer are counted by place (`Count`: places of
rings, threads, the decoder, who stops). `QuietInv` says what quiet times are good for: no
put is reset, and who turns a subscriber off finds its thread waiting and its queue
empty, so that the one place `fbq_signal` needs is there, and what is cleared
was nobody's. Without `quiet`, `RefsExact` is false in the code (hazard at
`digipeater.c:124`).

### Heard list and digipeater: `PartsProofs`

| Theorem | States |
|---|---|
| `PathKeptHolds` | `DigipeaterSpec => []PathKept` |

The module also has `DuplicateExactHolds` (`Spec => []DuplicateExact`, of Heardlist)
and `ListUsed` (`DigipeaterSpec => Spec`: each step of digipeater and igate is a step of
the list or leaves it alone). `PROJECT.json` does not list them as results: the condition
`Unwrapped` of `DuplicateExact` is true only until the ring has taken as many entries
as it has places, or the 16-bit time has come round, which is the start of the device's
running life; when the ring has wrapped, `hlist_exists` misses what is in the list
(section 6). Their argument: `HeardInv` adds to the types that, while `Unwrapped`, the
entries are in the order of their time stamps (`InOrder`); the last entry of each
checksum is there (`HeardKept`); and the entries from `hlist_next - hlist_length` on are
exactly those that have not expired (`InUse`). The last is
why `hlist_tick` may stop at the first entry that is young enough: `HeardTick`
uses `InOrder` for it. `VisitedInUse` says that the loops go over those entries.

`PathKept` needs of the state only that what is in the queues was on the air
(`QueuesInv`); the rest is lemmas about paths of any digis and any callsigns:
`DecodedIsEncoded` (a header of up to seven digis is decoded to the path it was
made of), `NewPathIs` (what is at each place of the new path), `PartsOfNewPath`
(what the next station finds before and after the two that are new), and
`AliasFacts` (the alias that is taken out is one the digipeater answers to).

### Tracker, Igate, Wifi, and the parts that stand alone

| Module | Theorems | Invariant |
|---|---|---|
| `TrackerProofs` | `TypeCorrect`, `ReportsDueHolds`, `ObjectsExactHolds` | `ThreadInv`: the thread has the radio from its start to its end, and there is one as long as it is on or being joined; the position count is of 8 bits and no more is claimed of it; `PauseInv`: the pause counter, of 8 bits, is never behind the passes since the last report; `ReportInv`: as long as `apart`, the objects told of (`Told`: without the one that is being added and those already cleared) are what is on the air, and the packet being built is of an object of the ring |
| `IgateProofs` | `NothingLeftHolds`, `OneRadioThreadHolds` | `IgateInv`: the radio thread does not outlive the state of the main thread that has started it, and the decoder waits only for a queue it is subscribed to |
| `WifiProofs` | `AnswerMatchesHolds`, `ConnectedExactHolds` | all of it as long as the behaviour is `clean`. `LockInv`: who has written a command owns `wifi_mutex`; `AnswerInv`: at most one command or answer is on the line, and is that of the thread that waits; `OpenInv`: an "ok" to `OPEN` on its way means that the connection is open |
| `PartsProofs` (Led) | `LedExactHolds` | `LedInv`: as long as `undisturbed`, while the priority colour is on no call is under way and the timer stands, and what was asked for is in `ledstate`; colours that are not restored are in section 6 |
| `PartsProofs` (Ui) | `ButtonExactHolds` | `ButtonInv`: an event takes a press that no event has had, counting the one the timers are still to make; what has been handled was made before what is in `butt_event`; while none has been overwritten, the handled ones and the one being handled are all that were made |
| `PartsProofs` (Ui) | `ScreenExactHolds` | `ScreenInv`: the visible items exist (`Steady`), and, as long as the menu has not been drawn over the other thread's picture, what is on the display and what the thread that draws has still to put there is what has been asked for (`Tidy`) |
| `PartsProofs` (Trx) | `TrxExactHolds` | `TrxInv`, while one thread at a time gives commands: nobody waits, or one does and either its command is on the wire or its reply is there (`LineExact`); how far powering up has come (`Phases`); from the first group command on the chip has the parameters of the EEPROM, or has them on the wire (`Told`) |

`OneRadioThread`, an action property that is stated in `IgateProofs`, says that a
radio thread is started only when there is none. The names of clients of Wifi
are assumed to be different from the monitor's and from "none"
(`WifiAssumption`); there is at least one screen and one item, and one item is
visible (`UiAssumption`); a frequency is not 0, which stands for none
(`TrxAssumption`). Nothing else is assumed of constants than their types, and
that `None` is none of them. `ButtonExact`, `ScreenExact`, `TrxExact`,
`SwitchExact`, `LedExact`, `ObjectsExact`, `AnswerMatches` and `ConnectedExact` have their
conditions (`calm`, `tidy`, `alone`, `orderly`, `undisturbed`, `apart`, `clean`) in the
properties, where the code does not keep others out; the conditions are history,
which no theorem assumes.

### Parameters, and the switches of igate and digipeater: `PartsProofs`

For whatever is typed, any set of parameters that has the two switches
(`PanelAssumption`) and any bounds on commands, polls, pushes and power cuts:

| Theorem | States |
|---|---|
| `PanelInvariant` | `PanelSpec => []PanelInv` |
| `SwitchExactHolds` | `PanelSpec => []SwitchExact` |
| `WritesStayHolds` | `PanelSpec => WritesStay`, an action property |

`SwitchExact` is about quiet moments, and says nothing of the steps between
them. `PanelInv` is about what each thread has still to do: it is either
writing parameters that are no switch (`Other`), or what is left of one change of
one switch (`Jobs`), be it from the shell, the menu or the display thread. In
orderly behaviours at most one thread is at a switch (`Single`), and its next
step tells the rest (`Fits`): until the switch is acted on, thread, subscription
and signals are as `on` says (`Matches`), and the parameter has its value once
its two bytes are written (`SumWritten`); while it is turned off its thread ends
after the signal (`Ending`). A switch that nobody is at is as its parameter says,
or waits for the display thread (`Rest`). The users of the radio are the
switches that have it (`HasRadio`).

A step that is not about a switch leaves it alone (`ApartKeeps`), because no
write reaches another parameter. That is `WritesStay`. It rests on
`SettingsAssumption`, that the places of the parameters with their checksums are
apart: 54 places that `config.h` lays out by hand, so TLC evaluates it.
`UnitsAre` unfolds the recursion of `Units`, from the end of the block to its
start (`UpTo` is the induction, on a set of numbers): each unit lies in the
places of the value.

### What is not proved

Liveness under fairness and `ENABLED` are beyond TLAPS. What a recursive
definition computes can be proved where the induction is over a set of numbers
as in `FbufProofs` and `PartsProofs`, but not with the library's induction
theorems, which take an operator. Only model-checked are: `FrameArrives` (for frames of any length it
would need an induction over encoder and decoder together, and the receiver's
clock tolerates only slips the run has); `ReadsAsSet` (a parameter of one byte
reads as a value somebody tried to set, or its default; a longer one as the last value, as
long as it was neither cut off nor written by two threads at once: mixtures that pass
their checksum are `NeverMixed` in section 6); that references are exact when
packets are connected past their end (`HeaderPast` 1); and all liveness.

## 6. Disagreements between code and comments

Each of these is a statement of a comment that some behaviour of the code breaks.
Two of them are findings of `PROJECT.json`, with a run:

- `TxPath_pending`, `SentBeforeOff` (`sr_frs.c:93`): `radio_release` waits with
  `radio_mutex` held; a packet put while the encoder pauses after a transmission needs
  that mutex and is left unsent when the transceiver is turned off.
- `Wifi_order`, `RequestServed` (`ui/wifi.c:368`): `cmd_getParm` and `cmd_setParm` take
  `data_mutex` while `wifi_command` holds `wifi_mutex`; `inet_open`,
  `inet_write` and `inet_close` take them the other way round. A request of the
  web interface and a client wait for each other until the client has timed out,
  and as `inet_open` is tried again and again, perhaps for ever.

Twenty have a configuration that ends in a counterexample. It checks one property of the
module the configuration is named after (`Fbuf_*` with MCFbuf, `Heard_wrap` with
Heardlist):

| Configuration | Property | Where | What happens |
|---|---|---|---|
| `Fbq_clear` | `ClearReleasesAll` | `fbuf.c:462` | `fbq_clear` releases places `index` to `index+length-1`; the packets are in `index+1` to `index+length` |
| `Fbuf_past` | `ContentKept` | `fbuf.c:277` | the header length of a frame without PID is past its end; the slot `_split` makes has a length that has wrapped, and a byte nobody wrote is in both packets |
| `Fbuf_eof` | `EofAtEnd` | `fbuf.c:290` | a split at the end of a slot leaves an empty one, after which `fbuf_eof` is false at the end |
| `Fbuf_seek` | `RseekExact` | `fbuf.c:159` | a position on the boundary of two slots leaves the reader past the last byte of a slot |
| `Fbuf_kept` | `ReaderKept` | `fbuf.c:292` | a slot is cut before the byte at which the reader of another packet stands |
| `TxPath_quiet` | `NoWaitOnFree` | `sr_frs.c:214` | the squelch closes between the test of `channel_rdy` and the wait; the encoder sleeps on a free channel until there is traffic again |
| `TxPath_limit` | `EveryFetchedEncoded` | `hdlc_encoder.c:211` | `i < maxfr` is true whenever it is tested: after a full transmission one more packet is fetched, and never sent or released |
| `RxPath_stop` | `EveryStopReturns` | `digipeater.c:123` | the queue is full and the thread busy: it ends as `digi_on` is false, and `fbq_signal` waits for ever for a place |
| `Wifi_late` | `EveryAnswerMatches` | `ui/wifi.c:159` | the answer to a command that has timed out is taken for the answer to the next |
| `Wifi_close` | `EveryCloseSeen` | `ui/wifi.c:241` | the server closes before the caller of `inet_open` has run, who then sets `inet_connected` |
| `Igate_loss` | `LossNoticed` | `igate.c:150` | a connection the server has closed does not wake the thread that reads from it |
| `Tracker_buffer` | `BufferBounds` | `tracker.c:474` | the button's report takes the last position between `posBuf_empty` and `getPos`; `nPos` becomes -1 |
| `Tracker_objects` | `ObjectsAgree` | `tracker.c:146` | `tracker_addObject` waits in `fbq_put` between `nObjects++` and `nextObj`; the thread reports a slot with no object |
| `Heard_wrap` | `ExistsIfInList` | `heardlist.c:74` | with `i` negative the loop starts at `HEARDLIST_SIZE-i`, outside of the array, and misses entries |
| `MCParts_seven` | `RestCopied` | `digipeater.c:199` | with seven digis the new path has eight, and `ax25_encode_header` writes none |
| `MCParts_shared` | `FirstGated` | `igate.c:264` | digipeater and igate ask the same list: what one has tested is a duplicate for the other |
| `MCParts_ones` | `StuffingComplete` | `hdlc_encoder.c:238` | a frame that ends in five ones gets no zero before its flag, and is lost |
| `MCParts_slot` | `AnyLengthArrives` | `hdlc_decoder.c:171` | `crc_match` seeks to the boundary of two slots: frames of 34, 66, 98 octets are refused |
| `MCParts_mixed` | `NeverMixed` | `config.c:42` | power is cut while a value is written over another; the mixture has the checksum |
| `MCParts_override` | `NeverOverridden` | `ui/ui.c:102` | the interrupt comes after the test of `pri_on`; the thread's colour replaces the priority colour |

The last are stated by definitions without a configuration; each is refuted when it takes
the place of the properties in `MCParts_run.cfg`:

- `SwitchFollows` of Panel (`igate.c:208`): the button turns a
  switch off while the shell's `on` is between writing the parameter and acting
  on it, so the switch ends on while its parameter says off.
- `HostKept` of Panel, with `IGATE_HOST` in `Used` (`ui/commands.c:1114`): the shell
  writes 32 bytes and a checksum where the parameter has 40.
- `LevelsExact` of Trx (`sr_frs.c:133`): volume and microphone level are not sent
  when the transceiver is powered up. `LowTxPowerExact` (`sr_frs.c:310`): low
  power asked for twice is full power.
- `ColourRestored` of Led (`ui/ui.c:153`): a colour that was on is lit together
  with the priority colour, which nothing turns off.

`cmd_setfreq` (`ui/commands.c:383`) reads the second frequency from the first
argument, and sets the transmit frequency with it; `ShellOrders` of Trx has it so.

## 7. Plan

Done: all modules of section 3, the proofs of section 5. Left, in this order:

| Module | On | Content |
|---|---|---|
| TxPath extended | TxPath | packet monitor on the encoder, test signal, `ptt` and `radio` commands |
| Fbuf extended | Fbuf | the button thread in the middle of `_fbuf_newslot` |

Abstract specifications: `BoundedFifo` for every queue (stated, proved to be
implemented); a channel that delivers each frame once to each active subscriber,
for RxPath; a transmitter that sends a sequence of whole frames, for TxPath.

## 8. Not modelled

Tone generation and filters (`afsk_rx.c:120-243`, `tone.c`, `util/DAC.c`):
arithmetic on samples. Pixels, buzzer, text of reports and screens, NMEA parsing,
distance and bearing, line editing of the shell (`util/shell.c`): wording and
geometry, with no state that another part reads. Commands that only print. ADC
and USB set-up, `main.c`, `halconf.h`, `mcuconf.h`: fixed initialisation.
`inet2rf` is empty in the code. PTT and radio on or off from the shell, and the test signal of the encoder: see the plan.
ChibiOS itself is taken from how it is used: semaphores in Fbq,
mutex, condition variables and output queue in TxPath. The pool's behaviour when
`_fbuf_newslot` fails in `_split` or `fbuf_new` (index `NILPTR` used in the
array) is excluded by guards of Fbuf and listed as a hazard.
