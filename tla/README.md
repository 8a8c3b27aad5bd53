# Firment in TLA+

Firment connects a small controller (the *edge*: XMC4 or STM32) to a web page. A
message travels from a widget through an MQTT broker and an ESP32 to the edge
controller, over SPI or UART, and back. This directory models the parts of it
whose correctness depends on the order in which things happen, checks them with
TLC on small instances, and proves the main invariants with TLAPS for every value
of the constants.

Paths below are relative to `src/`.

## 1. Inventory

    browser                     ESP32                              edge controller
    +---------------+  MQTT   +-------------------------+   SPI   +------------------------------+
    | widgets       | <-----> | app_main.c (bridge)     | <-----> | fmt_spi.c  or fmt_uart.c     |
    |  FWUpdate.tsx | broker  |  fmt_esp_spi.c  (sub)   |  UART   |   sendQueue, rxQueue queue.c |
    |  Log, Plot    |         |  fmt_esp_uart.c         |         | fmt_comms.c (CRC, encode)    |
    | mqclient.tsx  |         +-------------------------+         | fmt_rx, fmt_update, fmt_log, |
    +---------------+                                             | ghostProbe, application      |
                                                                  +------------------------------+

| Component | State it keeps | Operations | What is hard | What makes it correct |
|---|---|---|---|---|
| Packet queue, `firmware/queue.c` | `front`, `back`, `numItemsWaiting`, the ring | `initQueue`, `enqueueBack`, `dequeueFront`, `numItemsInQueue` | a thread and interrupt handlers of several priorities are in it at once; `BASEPRI` is the lock | a linearizable bounded FIFO; the lock is always given back |
| Message layer, `firmware/fmt_comms.c` | two queues, error counters | `fmt_sendMsg`, `fmt_getMsg`, `acceptMsgIfValid` (from the receive interrupt), `reportCommsErrors` | one CRC engine for two contexts; results of calls not looked at; `checkCRCMatch` computes a comparison and drops it; a report of errors goes through the queue whose drops it reports | each packet once; a drop is reported in the end, or the queue goes on dropping |
| SPI transport, `firmware/fmt_spi.c` | packet buffers, the enable bits of two interrupts, the driver's busy bit | `spi_startTxChain` from the task and from two handlers, `spiEventHandlerISR` | preemption between a check and its use; edges that nobody hears; a pin that is late | the chain of transfers is never cut; the buffer is left alone while it is sent |
| SPI sub, `esp/mqtt5/main/fmt_esp_spi.c` | prequeue, transaction queue, `lastRealMessagePosition`, two pins | `sendPacketSpi`, `waitForSpiRx`, callbacks of the slave driver | a sub cannot start a transaction; two tasks and an interrupt share counters and a pin, on two cores and without a lock | no message is held without the pin saying so, but for a race that the next packet ends; both queues move |
| UART transport and framing, `firmware/fmt_uart.c`, `fmt_uart_frame.c` | state of the receiver, packet buffers | `handleRxSegment`, `uart_startTxChain`, `uartEventHandlerISR` | lost, changed and added bytes; a length that is any byte; a task and a handler that both take the chain up | no write past the buffer; a clean packet is handed over; a fault costs one packet at most; the chain goes on |
| Update, device, `firmware/fmt_update.c` | `chunksPending`, `activePage`, `pageBuffer`, flash | `handleImageData` | lost chunks, an upload that starts over the remains of another image, resets | whole pages reach flash; callbacks come when they say |
| Update, widget, `web-ui/src/FWUpdate.tsx` | `pages`, `activePageIndex`, a timer | `handleSubmit`, `updateStatus`, `handleTimeout` | late, lost and repeated statuses; impatient users | "Upload complete" means it is; every upload ends |
| Flash ports, `firmware/port/*/fmt_flash_*.c` | flash, by erase blocks and write blocks | `fmt_flash_write` | an erase block holds several pages of an update, which come in any order; resets between two double words; errors that nobody looks at | a write is whole; an upload whose pages come in order keeps what it saved |
| Bridge, `esp/mqtt5/main/app_main.c` | batch buffer, topics, active transport | `handleEdgeMsg`, `unpackAndSendToEdge`, `checkForTransportChange`, MQTT events | a full buffer; an edge that moves to the other transport; a check for data that consumes it; a batch that waits for the next message | the transport is found; each packet read is handled; the buffer is not overrun and does not stay full |
| Broker session, `web-ui/src/mqclient.tsx`, `BrokerAddress.tsx` | client, topic prefix, handlers, two timers | `setupMq`, `teardownMq`, `selectDevice`, `connectToBroker` | timers that outlive the render that set them, and cannot be cleared by the next; callbacks of a client that was ended | one session at most; "Active Data" and "Connecting" do not stay |
| Log, `firmware/fmt_log.c`, `web-ui/src/Log.tsx` | a count on each side | `fmt_sendLog`, `appendToLog` | restart of one side | every message is shown |
| Ghost probe and plot, `firmware/ghostProbe.c`, `web-ui/src/plot/plotModel.tsx` | active test points, divider; records | `handleRunScanCtl`, `gp_periodic`; `handleProbeSignals`, `getRecordSlice` | a scan that is reconfigured while it runs; start of the periodic before its initialisation | a record holds samples of one configuration |
| Waveform, example application, version, GPIO, periodic timers, generators, broker configuration, host port | configuration, or a few numbers | | arithmetic and start-up code | |

`PROJECT.json` lists every component with what is modelled of it, and under
`hazards` every place where one of these behaviours bites, with the properties
that cover it or the reason why none does.

## 2. Modules

| Module | Models | Composed of |
|---|---|---|
| `BoundedFifo` | the abstract queue: calls are invoked, take effect once, return | |
| `Queue` | `queue.c` with the critical sections of `crit_section.h` | implements `BoundedFifo` |
| `MCQueue` | the instance that TLC checks | `Queue` |
| `QueueProofs` | theorems about `Queue` | `Queue` |
| `FmtUpdate` | `fmt_update.c` | |
| `FWUpdate` | `FWUpdate.tsx` | |
| `UpdateSystem` | an update end to end, over a link that loses and repeats | `FmtUpdate`, `FWUpdate` |
| `MCUpdate` | the instance that TLC checks | `UpdateSystem` |
| `UpdateProofs` | theorems about types, the start callback and whole pages | `UpdateSystem` |
| `SavedProofs` | that what the web UI has counted is in flash, and when the finish callback is right | `UpdateProofs` |
| `FmtSpi` | `fmt_spi.c` and who calls it | |
| `SpiLink` | both ends of the SPI bus | `FmtSpi`, and `fmt_esp_spi.c` |
| `SpiProofs` | theorems about `SpiLink` | `SpiLink` |
| `EspSpi` | the prequeue of `fmt_esp_spi.c`, load by load | |
| `FlashPort` | `fmt_flash_write` of both ports, as operators | also used by `FmtUpdate` |
| `Flash` | uploads over `fmt_flash_write`, double word by double word | `FlashPort` |
| `MCFlash` | the instance that TLC checks | `Flash` |
| `FlashProofs` | theorems about `Flash` | `Flash` |
| `UartFrame` | the receiver of `fmt_uart_frame.c` | |
| `FmtComms` | `fmt_comms.c` between its queues | |
| `FmtUart` | `fmt_uart.c`: driver events and the task | `UartFrame`, `FmtComms` |
| `UartLink` | the UART with an ESP32 and a bad line | `FmtUart` |
| `MCUart` | the instance that TLC checks | `UartLink` |
| `UartProofs` | theorems about `UartLink` | `UartLink` |
| `EspBridge` | the main loop of `app_main.c` | |
| `BridgeProofs` | theorems about `EspBridge` | `EspBridge` |
| `BrokerLink` | `BrokerAddress.tsx` with its part of `mqclient.tsx` | |
| `BrokerProofs` | theorems about `BrokerLink` | `BrokerLink` |

### Queue

`front`, `back`, `numItemsWaiting` and `items` are the fields of `queue_t`;
`basepri` is the mask register. A *context* is the thread or an interrupt handler,
with its NVIC priority; `pc`, `op`, `buffer`, `ok`, `reg` are where it is in its
call and its locals. Every load, store and copy of `queue.c` is an action
(`EnqueueTest`, `EnqueueCopy`, `AdvanceBack`, `LoadCount`, `StoreCount`, ...);
`numItemsWaiting++` is a load and a store. There is one core: a context runs when
no context of its own or a more urgent priority is in the middle of something
(`Runs`), and a handler starts only if the mask lets it (`MayStart`). A receiver
may look at `numItemsInQueue` first (`PollNumItems`), as `fmt_getMsg` and
`spi_startTxChain` do, and may be preempted before it dequeues.

The same module serves `sendQueue` and `rxQueue`: they are two instances with the
senders and receivers exchanged. The functions `enqueueFront`, `peekFront` and
`dequeueBack` return false and do nothing.

### FmtUpdate, FWUpdate, UpdateSystem

`handleImageData` runs in one context, so a call is one action with everything it
calls: `HandleImageData(msg)` is `PageComplete`, `PageIncomplete` or `RejectMsg`.
`chunksPending` is the set of the bits that are set. A payload is known by its
image, page and chunk, and its size as full, short or over the maximum. Flash is
kept page by page; `ProcessPage` calls `FlashWrite` of `FlashPort`, which may erase the
pages that share a block. The widget's module-level
variables are the state of `FWUpdate`, and each of its handlers is an action, since
the event loop runs one at a time.

`UpdateSystem` puts a link between them: `downlink` carries chunks and `uplink`
statuses, each in order. A chunk may be lost (`LoseChunk`: a full prequeue in the
ESP32, a full queue in the device, a publication at QoS 0), a status may be lost
(`LoseStatus`) or delivered again (`DuplicateStatus`: the ESP32 publishes retained
at QoS 1). The user submits whenever he likes, also in the middle of an upload; the
device may reset, which forgets RAM and keeps flash. Four history variables tell when
nobody can know better: `older` and `stale` count the chunks and statuses on their way
that belong to an earlier submit; `misled` records that the widget took a success that was
not of the page it awaited, or of an earlier upload; `mixed` records that a page was
completed with chunks of more than one image, since no message says of which image it is.

### FlashPort, Flash

A page is what one update writes, `UPDATE_PAGE_SIZE`, which is the write block of both
controllers; a cell is a double word. `FlashWrite` erases the block of a page unless the
page itself looks erased (`flash_isErased`), and programs cells that are erased.
`Flash` takes the same call apart: `BeginWrite` looks and erases, each
`ProgramDoubleWord` is a turn of the loop, and `Reset` may come between any two. Which
pages come in which order is not for flash to say: `fmt_update.c:112-116` takes any page
when none is under way, so that a page may be skipped, or come again. `BeginWrite(p)` is
therefore possible for every page at any time, with any data that the page may be sent,
and an upload may start whenever no write is under way, over whatever is there. `saved` is what was reported as saved since the upload began, and
`orderly` is history: the upload found blocks that fill from the start
(`BlocksFillFromTheStart`), and so far each block got its pages one after the other.

### UartFrame, FmtComms, FmtUart, UartLink

`rxState`, and `segment`, the bytes that the driver still owes, are the receiver;
`rxPacket` holds the bytes of the packet so far (the code leaves old bytes behind them,
which nothing reads). `ReceiveByte` is a byte that the driver takes and, at the end of
a segment, `handleRxSegment`. Bytes are numbers; START_CODE is one of them.

`FmtComms` has the periodic task (`pc`): `SendTelemetry`, `ReportCommsErrors` and
`SendReport`, `FmtGetMsg`. `enqueueBack` and `dequeueFront` are atomic there, which is
what `Queue` shows. A message is known by the counts of errors it carries.
`AcceptMsgIfValid` takes any packet: `checkCRCMatch` returns whether the engine computed
a CRC, and drops the comparison (`fmt_comms.c:179-180`).

`FmtUart` adds the driver: the task looks at `tx_busy` (`StartTxChain`) and sends
(`DequeueAndSend`) in two steps, and the events of `uartEventHandlerISR` come
between any two steps of the task. `UartLink` adds `sendPacketUart` of the ESP32, byte
by byte, and faults of the line: a byte is lost, changed, added, or given up by the
driver. `whole`, `heard`, `inStep`, `tame` and `missed` are history: what became of the
frame, for the properties.

### EspSpi

`sendPacketSpi` runs in the task of the MQTT client and `getNextTxBuffer` in the main
task. `SpiLink` takes what each does to `numWaiting` as a step; here every load and store of
`txPreQ` is one, and the buffers hold packets with numbers.

### EspBridge

A pass of the loop of `app_main` is `NextPass`, then a wait on the transport in use
(`WaitForSpiRx`, `WaitForUartRx`, `RxTimeout`), then after a timeout the two steps of
`checkForTransportChange` (`CheckSpi`, which consumes, and `CheckUart`, which does not),
then `HandleEdgeMsg`. `rx` is what the drivers hold; on SPI the edge can send only as
many packets as the loop has queued transactions for (`spiQueued`). `mqttWritePos` is
counted in units of the length of an empty packet.

### BrokerLink

Each render of `BrokerAddress` has its own `staleTimeout`, `connectTimeout` and
`connectStatus`. The callbacks of a client keep those of the render that made it, and
the form those of the last render. A *closure* is one such set; it gets a number when
`connectToBroker` runs in it, and a second call without a render in between runs in the
same one (`rendered`). `OnMessage` compares with the status of its closure (`shown`) and
not with the one on the screen.

`closureOf` is the closure of each client. A client that was ended is no longer `live`, but it
is `open` until its stream closes (`StreamCloses`), and until then it runs the callbacks
that it was given: its messages call `OnMessage`, and the answer to a subscription calls
`OnSubscribe`. The handler of "connect" subscribes with the variable `client` of
`mqclient.tsx`, which may be a later client than the one that connected (`mqclient.tsx:36-37`):
`asked` holds the pairs of who asked whom. An ended client refuses what it is asked
afterwards.

### FmtSpi, SpiLink

`spi_startTxChain` runs in the periodic task (from `fmt_sendMsg`) and in the
handlers of the clear-to-send and message-waiting pins. Both run it step by step
(`TestBusy` ... `Transfer`), and the handlers, which have one priority, preempt the
task between any two of its steps. `pending` holds the interrupts that wait;
`ctsIocOn` is the enable bit that `fmt_enableIoc` sets: an edge that comes while it
is off is lost, as on the XMC4, where the bit gates the trigger. `txPacket` tells whether the
static buffer was filled by a dequeue (`"fresh"`), by zeroes (`"empty"`), or
handed to the driver (`"sent"`).

The sub has a transaction queue (`trans`, with the finished ones that
`waitForSpiRx` has not collected) and a prequeue (`numWaiting`). The slave driver
sets the head transaction up (`PostSetup`, which raises clear-to-send) and ends it
some time after the last bit, in `my_post_trans_cb`: `LoadPosition`, `CountOff` and
`LowerMsgWaiting` are the load, the store with its test, and the pin of
`--lastRealMessagePosition == 0`, and `PostTrans` lowers clear-to-send.
`sendPacketSpi` is as many steps of the MQTT task: `CountPacket`, `StorePosition`,
`RaiseMsgWaiting`. The two come between one another in any order, since the ESP32 has two
cores and neither takes a lock; `raced` records that the last `StorePosition` fell
between a load of the callback and its write of the pin. What is on the wire is
`onWire`; `heard` says what the sub takes of it, so that a transfer that started
before the sub was ready is heard in part or not at all.

## 3. Runs

| Run | Configuration | Asks |
|---|---|---|
| `queue` | `MCQueue.cfg` | Do three contexts at priorities 25, 30 and 64 that preempt one another anywhere in `queue.c` see a FIFO? |
| `update` | `MCUpdate.cfg` | What reaches flash, what does the UI claim, and does every upload end, over a link that loses and repeats? |
| `update_finish` | `MCUpdateFinish.cfg` | Does the finish callback mean that the image is saved? (It does not.) |
| `spi` | `MCSpi.cfg` | Is the chain of transfers ever cut, is every message of the sub announced? |
| `spi_live` | `MCSpiLive.cfg` | Do the queues of both sides move? |
| `spi_ready` | `MCSpiReady.cfg` | Does the main wait for a sub that is ready? (It does not.) |
| `spi_buffer` | `MCSpiBuffer.cfg` | Is the packet buffer left alone while it is sent? (It is not.) |
| `flash` | `MCFlash.cfg` | What do uploads in any order, over one another and with resets anywhere leave in flash? |
| `uart` | `MCUart.cfg` | What does a bad line cost, is the chain ever cut, which drops are reported? |
| `esp_race` | `MCEspSpi.cfg` | Is every packet that `sendPacketSpi` accepts sent? (It is not.) |
| `bridge` | `MCBridge.cfg` | Does the bridge follow an edge that changes its transport, and keep its buffer moving? |
| `browser` | `MCBroker.cfg` | Do timers of old renders and callbacks of ended clients leave more than one session, or a status for good? |

**queue.** `CriticalSectionsExclude`: of two contexts that preempt one another only
one is between its mask and unmask. `RingConsistent`: outside critical sections the
three fields agree on which slots hold packets. `PolledDequeueSucceeds`: a single
receiver that saw a packet gets one, which is what `fmt_getMsg` relies on when it
ignores the result. `MaskingEnds`: also the answers of a full and of an empty queue
unmask. `ImplementsFifo`: refinement of `BoundedFifo`.
*Bounds*: three packets is the least capacity at which the wrap, a full, an empty
and a partly filled ring differ; two packets tell order and duplication; two
senders, above and below the receiver in priority, give every order of preemption
(deeper nesting repeats a pair that is there).

**update.** `FlashPagesWhole`: a page of flash is blank, or has as many chunks as an
image has there, each in its place, and none missing, stale or of another page.
`CompleteMeansSaved`: unless the widget was misled by a success of another page or of an
earlier submit (see the finding), or a page was completed with chunks of two images, the
pages it has counted are in flash, and "Upload complete" means that a whole image is: no
chunk or status that was lost, late or repeated, of this image or of one sent before it,
makes the device erase a page that was counted.
`StartComesFirst`: nothing is in flash before the start callback ran.
`EveryUploadEnds`: no upload stays in progress.
*Bounds*: a long image of three pages and a short one of two, of two chunks a page and one
in the last of the long one, have a first, a middle and a last page, a short one, and a page
that is the last of one image and not of the other; erase blocks of two pages put the third
page alone in its block; three submits of either image, two repeated
statuses and one reset allow an upload over the remains of two others. Losses are
not bounded. The system may stop when the submits are used up, so deadlock is not
checked.
*Two images on one page.* A message does not say of which image it is. Chunk 0 of a page of
one image is kept and its chunk 1 is lost; the user submits another image, whose chunk 0 is
lost and whose chunk 1 completes the page, which is reported as saved. `mixed` is then
true, for good, and the run claims no more of what the widget has counted;
`FlashPagesWhole` holds all the same. `misled` and `mixed` are the only two ways, which is
what `CompleteIsSaved` proves for any images.

**spi.** `ChainNotCut`: if nobody is in the middle of anything and packets wait, a
transfer is under way or its clear-to-send interrupt is enabled or pending.
`MessageWaitingHonest`: a sub that holds a message says so, at every step of the two calls
that write the pin, unless the last `sendPacketSpi` stored the position of the last
message between the callback's load of it and its write of the pin. In that race the
callback stores what it loaded, less one, over the new position, or lowers the pin that the
task has raised, and the message waits behind a low pin. The next `sendPacketSpi` that does
not race sets both right, for the older messages too. As the main also starts transfers for
packets of its own, the message goes out with the next of them (`SubQueueMoves`).
*Bounds*: two transactions are the real `TRANSACTION_QUEUE_LEN`; the edge's send
queue matters to the link only as empty or not and full or not, and a length of one has
both; a prequeue of one is full as soon as it is used, so that messages wait behind every
mixture of transactions (the proofs cover every length).

**spi_live.** `SendQueueMoves`, `SubQueueMoves`: a full queue on either side does not stay
full, whichever edges are missed and whichever races are lost.
*Bounds*: one transaction and queues of one packet, so that liveness can be checked: each
queue is full as soon as it is used, and the single transaction makes the main wait for
clear-to-send between any two transfers.

**flash.** `WriteIsWhole`: a write finds erased what it programs, whatever earlier uploads and
resets have left: the errors that nobody looks at do not come up. `UploadIsKept`: as long
as an upload is orderly, the pages that it has saved are in flash as they were sent.
`BlocksStayFilled`: an orderly upload leaves flash as the next one needs to find it, a block
whose first page is blank being blank, which is why looking at one page is enough.
*Disorderly uploads.* An upload that loses the chunks of the first page of a block and
writes the second (the widget can be made to go on, see `update_finish`) leaves a block
whose first page is blank and a later one is not. A clean upload over it writes the first
page without an erase, meets the old second page, erases the block for it, and takes its
own first page along, which was reported as saved. `UploadIsKept` and
`BlocksStayFilled` claim nothing of such uploads, and say that there is no other way to lose
a page; `WriteIsWhole` holds for them too.
*Bounds*: six pages in blocks of three have a first, middle and last page of a block
twice; two double words, some of which look erased, tell a partly programmed page
from a whole one. Uploads, pages and resets are not bounded, and each page may come at any
time. Some pages of the images look erased altogether, but never the first of an erase
block (`NoBlankFirstPages`): an image that has one leaves the same kind of block behind,
and `BlocksStayFilled` would not hold. A page looks erased when it is all zeroes on the XMC4
and all ones on the STM32 (`ERASED_STATE`). No document of the repository promises more of
`fmt_flash_write` for whole pages, so that this is a hazard of the list and no finding.

**uart.** `TypeOK` includes `SegmentFits`: the driver is never told to write past
`rxPacket`, nor to receive nothing. `CleanFrameIsHanded`: a frame that starts when the
receiver is in step and is not spoilt is handed over as it was sent.
`DropsAtMost1ValidPacket`: what two tests of `uartFrameTest.cpp` say of one packet,
for every order of packets and of faults of that kind, which is a byte of the payload or of
the CRC lost or added. Packets that contain a start code may cost more than one, and so may
a length that is lost, since a byte of the payload is then read as one and may stand
for more bytes than several short packets have; the property leaves both out by `tame`, the
model does not. `TxChainNotCut`: a packet waits with the driver idle only while the task is about
to send. `LossesAreReported`: what was counted is in a report that was sent, or the send
queue has dropped another message since. The report goes through the queue whose drops it
reports; a dropped report is a new drop, which the next call of `reportCommsErrors` notices.
As long as the queue is full at each of these calls there is no report at all, and the
message layer drops on (`fmt_comms.c:69-76`): nothing in the code says otherwise.
*Bounds*: a packet of at most 8 bytes has every length from 1 to 5, with and without
padding; one packet is short, the other holds a start code and, after it, a length; a spoilt byte may
become the start code or the greatest length. One fault is enough to put the receiver out of
step anywhere in a frame; the frames after it are not bounded. A send queue of two has a
full, an empty and a middle state; a receive queue of one is full at once. `FmtSendMsg` and
`AcceptMsgIfValid` drop whenever their queue is full, without a bound; to keep the counts
finite the task begins nothing more when `MaxSendDrops` (two) messages were dropped and the
queue is full, and the ESP32 sends no more after `MaxRxDrops` (one) was.
`LossesAreReported` speaks only of states below the first bound, in which no message waits for
room. The bounds stop the model where the program would go on, so deadlock is not checked.

**bridge.** `TypeOK` includes that `mqttBuffer` is not overrun. `ReadPacketIsHandled`:
a packet read by the check is handled in the same pass, and the transport it came from
is known. `TransportIsFound`: an edge that stays on a transport is followed there.
`BufferMoves`: a buffer without room is emptied.
*Bounds*: two SPI transactions are the real number; two packets in the UART's FIFO; a
buffer of five units fills after one or two messages and leaves an odd rest; the edge
moves there and back, and a short transaction or a noise may come anywhere.

**browser.** `OneSession`: a page has one client at most, the last it made, and none
when it shows "Not Connected". `ActiveDataIsWatched`: "Active Data" is never shown
without a timer that will take it back, be it the data of a client that was ended.
`EveryAttemptIsDecided`: "Connecting" ends. That a status is that of the connection in use is not
true, and no document says it: the timer of an old render marks a new attempt "Connected,
No data", and so does the answer to a subscription that comes just after the five seconds
are over and the client was ended. The second also clears the timer of the attempt if both are of
one render. The hazard list names both.
*Bounds*: three calls, the one on loading and two submits, allow timers of two old
renders besides two calls in one render, and callbacks of two ended clients; the address may be edited in between.

### Disagreements between the code and its documentation

- `update_finish`: `fmt_update.c:63` looks at the index of the last page only.
  `fmt_update.in.h:28` promises a callback "once a new image is successfully fully
  saved". A user who submits twice gets two statuses of page 0; the widget does not
  compare a status with the page it waits for (`FWUpdate.tsx:48-57`) and sends page 1
  and page 2 without waiting; when the chunks of page 1 are lost, page 2 is taken and
  the callback runs over an image with a hole.
- `spi_ready`: the sub lowers clear-to-send some time after the last bit
  (`fmt_spi.c:172-177` says so); a `fmt_sendMsg` in that time finds the pin high and
  starts a transfer for which the sub is not set up, against `fmt_esp_spi.h:12-13`.
- `spi_buffer`: `fmt_spi.c:99` says that the check makes it safe to call at any time.
  A task preempted after the check, by a handler that starts a transfer, dequeues its
  packet into the buffer being sent; its own `Transfer` is refused and the packet is
  lost.
- `esp_race`: `fmt_esp_spi.h:8-9` says that flow control prevents dropped packets. Two
  tasks change `txPreQ.numWaiting` without a lock (`fmt_esp_spi.c:171` and `:197`), and a packet that
  was accepted is lost when the store of one falls into the change of the other.

## 4. Fairness

- `Queue`: a processor in the middle of a call executes its next instruction unless
  an interrupt takes over (`WF` of `Step(c)`). Nobody is obliged to call.
- `UpdateSystem`: a timer that is armed fires, and a message at the head of a channel
  is delivered or lost. No message is promised to arrive, and nobody to submit.
- `SpiLink`: the periodic task sends telemetry for ever (`comm_handleTelemetry`, at
  1 kHz), a pending interrupt is taken, a context goes on, a transfer ends, and the
  ESP32 runs its driver, its loop and a call of `sendPacketSpi` that has begun. All weak: each of these actions stays enabled
  until it is taken or something else has done its work. No packet is promised from
  the MQTT task (`CountPacket`).
- `UartLink`: the task goes on once it has begun something, a send ends, and
  `comm_handleTelemetry` calls `reportCommsErrors` in each of its rotations
  (`message_handlers.c:76-80`): strong fairness, since the call has nothing to do while
  the counts have not changed and the task may be busy elsewhere each time. Nobody is
  obliged to send telemetry or packets.
- `EspBridge`: the loop goes on, time passes, and the edge sends telemetry, of which
  `comm_handleTelemetry` has a message each second; strong fairness, since the queues of the
  drivers are full at times. An edge that stopped for good would be followed nowhere.
- `BrokerLink`: a timer that is set fires. Neither the broker nor the user is obliged to
  anything.

## 5. Proofs

All proofs use only the named assumptions in the modules: a capacity of at least one
(`initQueue` refuses zero), every user of a queue at a priority that
`highestSenderPriority` masks (`queue.h:10`), queue lengths of the ESP32 of at least
one, the task distinct from the handlers, packets of even size (`fmt_sizes.h:10`; the CRC
is at an even position), partitions, pages and erase blocks of at least one, and the
same sizes of pages and partition on both sides of an update.

**`QueueProofs`.** The runs' invariants are not inductive. The strengthening `IndInv`
is `TypeOK` with three parts: `MaskInv` (a context inside its critical section has
the mask set, and nothing more urgent is in the middle of a call), `LocalsInv` (what a call's locals are at
each of its steps: the register holds the count, the test's answer still holds), and
`RingInv` (the fields agree, up to the step that the one context inside has come to:
after `AdvanceBack`, `back` is one slot ahead of the count, and so on). Mutual
exclusion makes `RingInv` inductive: only one context can be between the steps it
tells apart. On it rest `TypeCorrect`, `MutualExclusion`, `RingIsConsistent`; with
`PollInv` (a polled receiver still has a packet) `SingleReceiverGetsItsPacket`; and
`QueueImplementsFifo`, where a step maps to taking effect at the store of the count
(`enqueueBack`), at the advance of `front` (`dequeueFront`), or at the test of a call
that finds the queue full or empty, and to a stutter or an invocation otherwise.

**`SpiProofs`.** `Inv` adds to `TypeOK` that a sub that is not idle has a transaction
(`PhaseInv`), that `lastRealMessagePosition` is not behind a message once it is stored
and did not race (`PositionInv`: those in the prequeue go out after everything queued;
what the callback has loaded is then what is stored; it lowers the pin at none), and that a
context that saw an empty send queue is right until it gives up (`EmptySeen`: the
task, which alone fills the queue, is that context or preempted by it). On it rest
`SpiTypeCorrect`, `ChainIsNotCut` and `MessageWaitingIsHonest`. `EmptySeen` is where
the preemption rule matters: were messages sent by a handler that preempts others,
the chain could be cut with a packet in the queue.

**`FlashProofs`.** `WritesAreWhole` rests on `TypeOK` alone: the page was blank when the write
began, or its block was erased. `UploadsAreKept` needs `OrderInv`, which says of an orderly
upload that the pages of a block before one that is saved or being written are saved
(`BlocksInOrder`); that what is left of a block it has begun with is blank, and a block it has
not begun with fills from the start (`RestIsBlank`); and that what was saved is there
(`SavedIsKept`). A page that does not look erased is then the first of its block, so that its
erase takes no saved page along. Pages may look erased, and blocks come in any order.
`BlocksFill` adds that the first page of a block is not blank once it was written, and that is
where `NoBlankFirstPages` is needed, and all that is. A reset in the middle of a block
preserves it, because the pages before it were programmed. Arithmetic of blocks is in
`FirstPageFacts` and `PreviousPageFacts`. `FlashTypeCorrect` and `WritesAreWhole` hold for
every upload, the others for orderly ones, which is what they say of the code: see the
paragraph on disorderly uploads.

**`UartProofs`.** `IInv` adds to `TypeOK` how much of a packet is there in each state of
the receiver (`FrameInv`) and the types of queues and line. `PayloadFits` is the
arithmetic: a valid length leaves a padded payload and a CRC that fit, because the
greatest packet has an even size; with 63 bytes it would not hold. On it rests
`UartTypeCorrect`; `TxChainIsNotCut` needs no more than the queue's type.
`CleanFramesAreHanded` needs that what is on the line is one of the ESP32's packets and no
longer than that (`OnLine`), and that the bytes the receiver has and the bytes on the line make up the packet as
long as nothing was spoilt (`CleanInv`). `FaultsCostOnePacketEach` counts: `Owed` is
by how many bytes the receiver's segment reaches beyond the frame on the line, and `Late` is
one when that frame began in the middle of a segment and will be missed. The invariant
`FaultsPay` is `missed + Owed + Late <= faults`. A lost byte raises `Owed` by one, an added
one lowers it or puts a receiver that is done ahead of the line, where it waits for a start
code and owes nothing. A frame that begins while bytes are owed gives up its start code for
one of them, so `Late` goes up as `Owed` goes down; when it ends, `missed` takes over from
`Late`. That the receiver never takes a wrong byte for a length is what `StartsFrame` and
`LengthIsTrue` add, and the reason for `tame`.

**`UpdateProofs`.** `TypeInv` adds to `TypeOK` that every message under way is one that the
widget can send for one of its images; on it rests `TypeCorrect`. `StartIsFirst` needs
`StartInv`: until the first page is written the widget has no success to go on from, so
that no other page is on its way. `PagesAreWhole` needs `BufferInv`: either all bits are
pending, or there is an image such that every chunk it has of the page under way, and whose
bit is clear, is in its place in the buffer. When images meet on a page it is the one with the
fewest chunks there, since a message clears the bits that its image does not have
(`BufferFills`). No assumption on the images is needed, here or in `SavedProofs`.

**`SavedProofs`.** `CompleteIsSaved` is the deepest of the theorems, since a page that was
counted could be erased by a later one of its block, or written again by what is left of
an earlier upload, of this image or of another. The inductive invariant `SavedInv` says, until
the widget is misled or images meet on a page: a page that was counted is *spent* for every
image, which is that there is a chunk of it that the device misses and no message under way
carries, where a chunk is held only if nothing of another image is in the page under way
(`Held`); in a block, a page that is not spent is blank and has
the earlier pages of its image in flash, unless it is the first (`BlockInv`); a later
page is under way only behind the last chance of an earlier one, and no page but the first has
chunks under way of two uploads (`OrderInv`); and a success that the widget has still to take is
of a page it has counted or of the one it waits for, with the rest of that block blank
(`UploadInv`). A page is completed only when it is not spent for the image of its message, so that it is the one
the widget waits for, and what it erases was not counted. `BlankAssumption` is needed: a page
that looks erased after it was written is the concern of `Flash`.

`FinishIsSaved` is about the other end, the finish callback of the device, which knows
nothing of the widget. `FinishInv` says, as long as neither has happened, that a page that is not
spent for an image has all the earlier pages of it in flash, those of other blocks included.
When a page is completed the later ones are spent (`LaterIsSpent`), and it takes no earlier one
with it (`EarlierStays`); the last page therefore completes an image that is all there.
`FinishUnlessMisled` says the same of `FinishMeansSaved`, which the run `update_finish`
refutes: a success taken for another page, and chunks of several images on one page, are the
only ways to a callback that comes too early. Neither theorem assumes anything of `Images`.

**`BridgeProofs`.** `BridgeInv` adds to `TypeOK` at which steps of the loop a packet is held
(`HeldToHandle`), that the loop waits only on a transport it knows (`WaitsOnKnown`), and
that nothing is gathered for MQTT before there is a topic (`TopicComesFirst`). On it rest
`BridgeTypeCorrect`, `ReadPacketsAreHandled` and `GatheredHasTopic`, for queues and
buffers of every size.

**`BrokerProofs`.** `BrokerInv` adds to the invariants of the run that each client made has a
closure, numbered no higher than the last one (`ClosuresInv`), which types the timers that its callbacks start, and
that an attempt under way has a pending timer (`AttemptIsTimed`). That is the safety half of
`EveryAttemptIsDecided`; with the fairness of the timer, it is why the attempt is decided.
The theorems hold for any number of submits and any callbacks of ended clients.

Only model-checked are the liveness properties (`MaskingEnds`, `EveryUploadEnds`,
`SendQueueMoves`, `SubQueueMoves`, `LossesAreReported`, `TransportIsFound`,
`BufferMoves`, `EveryAttemptIsDecided`), which the prover does not do under fairness. Every
other property of a passing run is a theorem. Of the four properties that the code does not
have and runs refute, `FinishMeansSaved` is proved under the condition under which it holds.

## 6. Plan

Modelled first was what everything passes through (queue, SPI link) and what does
harm when wrong (update); then flash, the UART with the message layer, and the two ends
of the MQTT connection. What remains, in this order:

1. `EspBridge` with the state of the MQTT connection and of the subscription, and with
   `unpackAndSendToEdge`, in place of the chunks `UpdateSystem` loses.
2. `LogView`: the counts of `fmt_log.c` and `Log.tsx` over a restart of either side.
3. `GhostProbe`: a scan that is reconfigured between two calls of `gp_periodic`.

## 7. What is left out

- Errors of the flash drivers, and a write that is not aligned to a write block, which
  no update makes. Erasing is one step. Nothing reads flash while it is written.
- What mixed pages hold. With chunks of two images on a page, `FlashPagesWhole` is all that is
  claimed; the protocol has no identity of an image (hazard at `fmt_update.c:128`).
- The values of CRCs, and the engine that two contexts share: the comparison is dropped
  by the code, so that they decide nothing.
- The SPI driver's error events, which count and do nothing else; STM32's EXTI, which
  may keep an edge that came while disabled (the model loses it, which is the harder
  case for liveness).
- The connection of the bridge to the broker. It is made once (`disable_auto_reconnect`),
  and its subscription too, when the first version message comes (`app_main.c:416`);
  both are in the hazard list. `unpackAndSendToEdge` is a source of lost chunks in
  `UpdateSystem`.
- mqtt.js, which is not in the repository. `BrokerLink` assumes that `end()` makes a client
  refuse new subscriptions at once and silences it only when its stream closes, at any later time; that
  an answer comes for what was asked and not twice; and that a client connects and connects again whenever
  it is open, which is more than an ended one does.
- The USART driver, which is not in the repository for the STM32. After an error of the line
  `fmt_uart.c:124` calls `Receive` for the next start code and ignores the result; `RxError`
  takes it that the driver restarts the segment. A CMSIS driver whose receive is still active
  answers BUSY and goes on with the old segment, into the buffer it was given: that would be a
  receiver further out of step, and not covered by `DropsAtMost1ValidPacket`.
- Buffers of the bridge other than `mqttBuffer`: `TypeOK` of `EspBridge` says nothing of
  `helloBuffer` or of the driver's `rxPacket`. The last messages before silence, which wait in
  `mqttBuffer` for another to publish them, are covered only through `EveryUploadEnds`.
- Encoding and decoding by nanopb and protobuf.js, which are libraries; a message that
  cannot be decoded is a lost one.
- An empty image, and a build without `FMT_UPDATE_SUPPORTED`.
- The log and the ghost probe (see the plan).
- Waveform, control law, plot geometry (floating-point arithmetic), registers of
  peripherals, generators, configuration files.
- Vendored code: the device family packs and peripheral drivers of the XMC4 and STM32 under
  `firmware/port`, CMSIS and nanopb under `firmware/lib`. They are by far the most
  lines of the repository. Firment's own C and TypeScript is a few thousand lines, and
  what of it has control worth a model is covered above.

## 8. Running

    tlc -workers 2 -config MCQueue.cfg MCQueue.tla
    tlc -workers 2 -config MCUpdate.cfg MCUpdate.tla
    tlc -workers 2 -config MCUpdateFinish.cfg MCUpdate.tla      (finds the trace)
    tlc -workers 2 -config MCSpi.cfg SpiLink.tla
    tlc -workers 2 -config MCSpiLive.cfg SpiLink.tla
    tlc -workers 2 -config MCSpiReady.cfg SpiLink.tla           (finds the trace)
    tlc -workers 2 -config MCSpiBuffer.cfg SpiLink.tla          (finds the trace)
    tlc -workers 2 -config MCFlash.cfg MCFlash.tla
    tlc -workers 2 -config MCUart.cfg MCUart.tla
    tlc -workers 2 -config MCEspSpi.cfg EspSpi.tla              (finds the trace)
    tlc -workers 2 -config MCBridge.cfg EspBridge.tla
    tlc -workers 2 -config MCBroker.cfg BrokerLink.tla
    tlapm QueueProofs.tla
    tlapm SpiProofs.tla
    tlapm FlashProofs.tla
    tlapm UartProofs.tla
    tlapm UpdateProofs.tla
    tlapm SavedProofs.tla
    tlapm BridgeProofs.tla
    tlapm BrokerProofs.tla

Definitions whose comment calls them a slip (`SuccessorLate`, `DisableNothing`,
`AnyPageAnyTime`, ...) are no part of the specifications: each is a bug that the
code could have, put in the place of the definition it resembles to see that the
property named in `PROJECT.json` notices.
