# A formal model of the VCU kernel modules

This directory is a TLA+ development of the Linux driver in `src/`: the two
codec modules `al5e` (encoder) and `al5d` (decoder) and the code they share in
`src/common`. The driver runs on the CPU and talks to a microcontroller, the
MCU, whose firmware does the encoding and decoding. The models are translated
from the C code. TLC checks them on small instances, and TLAPS proves most of
their safety properties for every instance.

## 1. The system

### Parts

| Part | Code | State | Operations |
|---|---|---|---|
| Mailbox | `al_mailbox.c`, `mcu_utils.c`, `al_mail.c` | a ring of words in memory shared with the MCU, `head` and `tail` registers | `al5_mailbox_write`, `al5_mailbox_read` |
| MCU interface | `mcu_interface.c` | two mailboxes, a read and a write spinlock | `al5_mcu_send`, `al5_mcu_recv`, `al5_mcu_is_empty`, `al5_signal_mcu` |
| Queues | `al_queue.c`, `al_list.c` | a list of mails, a wait queue, the flag `locked` | push, pop, pop with timeout, lock, unlock |
| User | `al_user.c` | one per open file: `uid`, `chan_uid`, `checkpoint`, eight mutexes, seven queues, two buffer pools | send, deliver, destroy the channel, drop residual mails |
| Group | `al_group.c` | the table of users of a device | bind, unbind, find by user id or channel id, read mails at an interrupt |
| Codec | `al_codec.c` | the device: group, interface, firmware memory | open, release, set-up, firmware loading, the MCU handshake, tear-down |
| Encoder | `enc_user.c`, `al_enc.c`, `enc_mails_factory.c` | the user's | create channel (with checkpoints), encode, wait for status, put stream buffer, get and release reconstructed picture |
| Decoder | `dec_user.c`, `al_dec.c`, `dec_mails_factory.c` | the user's | create channel, decode a frame or slice, search start code and wait for it, wait for status |
| Buffers | `al_buffers_pool.c`, `al_alloc.c`, `al_dmabuf.c`, `al_alloc_ioctl.c` | DMA memory, dma-buf handles, file descriptors | allocate, free, reserve a descriptor, export |
| Glue | `al_vcu.c`, `al_char.c`, `*_l2_prefetch.c`, headers | device nodes, device tree values | probe, remove |

### How they interact

A process opens the device and gets an `al5_user`, bound to the lowest free
slot of the group. Its threads call ioctls. Most of these send a mail to the
MCU through the command box and some then sleep on a queue of the user. The MCU
raises an interrupt when it has written to the status box. The interrupt thread
(`al5_group_read_mails`) takes the mails out one after another, finds the
user (by the user id in answers to CREATE, INIT and SEARCH_START_CODE, by the
channel id in everything else) and pushes each onto the queue for its kind. A mail
nobody is found for makes the driver destroy the mail's channel. Closing the
file destroys the channel without waiting for an answer, drops the mails in the
queues, and frees the user.

### What is hard

* The reader and the writers of a mailbox share memory and are ordered only by
  the two registers. Head equal to tail has to mean "empty" and never "full",
  and a mail may straddle the end of the ring.
* Every send can be refused because the box is full. Each caller has to undo or
  to remember what it has done so far. The encoder's create remembers, in
  `checkpoint`.
* `al5_user_destroy_channel` needs all eight mutexes of the user, some of which
  are held by threads that sleep until a mail comes. It unlocks the queues to
  wake them, takes the mutexes, and locks the queues again at the end.
* Waits end early, by a signal or by the timeout of the create, while the
  command is already with the MCU. The answer comes later.
* Channel ids are the firmware's, user ids the group's. Both are handed out
  again while mails with the old ids are on their way.
* The close of a file frees a user that the interrupt thread may just have looked
  up; the group's lock, held over all the mails of an interrupt, is what keeps
  them apart.
* DMA buffers must not be freed while the firmware may write to them. They are
  shared with the client and with other drivers through dma-bufs, and whoever
  lets go last frees them.
* A probe takes some twenty resources and exchanges mails with a firmware it has
  just booted. Any step may fail, while the interrupt is requested and the firmware
  is running, and a firmware may outlive its device and meet the next probe.

`PROJECT.json` lists these hazards one by one, each at its line, with the
properties that cover it.

## 2. The modules

```
MailFifo  <--refines--  Mailbox  <--EXTENDS--  MCMailbox, MailboxProofs

Mcu  <--EXTENDS--  Users  <--EXTENDS--  Encoder  <--EXTENDS--  MCEncoder
                          <--EXTENDS--  Decoder  <--EXTENDS--  MCDecoder

Users  <--EXTENDS--  UsersProofs  <--EXTENDS--  ChannelProofs  <--EXTENDS--  OwnerProofs
OwnerProofs, Encoder  <--EXTENDS--  EncoderProofs
OwnerProofs, Decoder  <--EXTENDS--  DecoderProofs

BufPool  <--EXTENDS--  MCBufPool, BufPoolProofs
Codec    <--EXTENDS--  MCCodec, CodecProofs
```

`BufPool` and `Codec` stand beside `Users`: a pool is either allocated or not in
`Encoder`, which is what `AllOrNothing` of `BufPool` shows it to be; and a file
can be opened only while `Codec` is at `bound`, where a channel of mails to and
from a configured firmware exists (`VisibleOnlyConfigured`).

### Mailbox and MailFifo

`MailFifo` is what the mailbox promises: a mail is queued whole or refused
whole, and mails come out in order. `Mailbox` is the code: a function
`data` from word offsets to words of four bytes, the registers `head` and
`tail`, and the copy procedures with their wrap-around arithmetic. A mail is a
uid, a size in bytes and its words, and the header is serialised and parsed as
in `serialize_header` and `unserialize_*` (two 16-bit values in four bytes). A
writer's steps are: take `write_lock` (`SendBegin`), read the registers and
decide (`WriteRefused`, `WriteAdmitted`), copy the header, copy the body,
publish the tail. The reader's steps are: see that the box is not empty and
read the header (`ReadHeader`), copy the body and publish the head (`ReadBody`).
Sizes are the code's: `copy` rounds up to four bytes, the admission test uses the
unrounded size, and the code's reserved word is the `+ 4` of
`not_enough_space_in_mailbox`. The history variables `sent`, `inbox`, `wr` and
`rd` record what went in and came out, and the stream positions reached.

The same code serves both directions, so one module models both boxes. In the
status box the writer is the firmware, which is taken to follow the same
protocol.

### Mcu

The other models see the mailboxes as what `Mailbox` is proved to be: a
first-in first-out channel that refuses a mail when it is full (`CmdFull`). The
refusal here depends on the number of mails, in the code on their bytes: the
caller sees `-EAGAIN` in both. `al5_mcu_send`, `CreateMsg` and `ChanMsg` are the
driver's side.

The firmware is not in the repository, so its actions are external. They assume
only what the driver relies on: commands are handled in order; a CREATE is
answered once, with an id no live channel has or with `BAD_CHAN`; a DESTROY of
a live channel is answered once and a QUIET_DESTROY not at all; statuses come
only from live channels. Commands for a channel that does not live are ignored.
The fields `by` and `orphan` of mails and the variable `creator` are history:
no action's guard reads them.

### Users

The state of `al5_user`, field by field (`chan_uid`, `checkpoint`, `locks`,
`queues`, `locked`, the two pools as allocated or not), the group's table, and
one `pc` per thread. Actions:

* `al5_codec_open` with `al5_group_bind_user` and `al5_user_init`;
* the interrupt thread: `IrqRead` takes a mail and looks the user up,
  `IrqDeliver` pushes it onto a queue, `IrqOrphan` destroys the channel of a mail
  without a user. The thread holds `group->lock` from the lookup to the delivery,
  and binding and unbinding a user take the same lock (`GroupLockFree`), so a file
  is neither opened nor freed in between. Queues, mutexes and `chan_uid` are not
  under that lock and do change;
* `al5_user_destroy_channel`, from the unlocked check (`DestroyEnter`) through
  each mutex (`DestroyMutex`), the send and its refusal, the wait and its
  interruption, to the unlock and the relock of the queues;
* `al5_codec_release`: the loop of quiet destroys, the freeing of the buffers
  in any case, the purge of the queues, the unbind.

### Encoder

Every call of `enc_user.c`. A create resumes at its checkpoint (`ResumeAt`), and
each of its sends may be refused, its wait may be answered, woken by a destroy in
another thread, or given up, and its allocations may fail. Encode and release
of a picture check and send under a mutex that the destroy needs as well, so
each is one step. Put stream buffer takes no mutex, so its check and its send
are two. The client's behaviour is a constant: `Ops` says which calls each
thread makes. "CLOSE" closes a file without a channel, "EXIT" closes it at any
time no call is running, as the kernel does for a process that dies.

### Decoder

Every call of `dec_user.c`. A create has neither checkpoints nor buffers: its
answer ends it. Decoding a frame or a slice is one check and one send under a
mutex. A start code search takes no mutex and needs no channel; its answer goes by the
user id, to a thread that waits with or without a channel. The steps that
encoder and decoder have in common (asking for a channel, giving up, being woken,
waiting on a queue under its mutex) are in `Users`, and so are the properties
that hold of both devices.

### BufPool

The DMA memory of one client. A buffer is a place in memory with a reference count
(`refs`), and `al5_dmabuf_release` frees it at the last put. Owners of references
are the pool (`handles`), descriptors (`fdt`) and calls under way. Three kinds of
actors share it: the thread that creates and destroys, one in a call on a picture, and
threads in calls on descriptors. Actions:

* the create gets its id (`check_and_affect_chan_uid`, after which `created` holds) and
  only then allocates. A call on a picture tests `created` and takes the mutex
  `AL5_USER_REC`, the allocation runs under `AL5_USER_CREATE`, so the two may
  overlap; a destroy takes every mutex and overlaps with neither;
* `al5_bufpool_allocate`, buffer by buffer, with its four failures: no array, no
  second array (`fail_handles` frees the first and leaves the pointer), no memory,
  no dma-buf;
* `al5_bufpool_free`: the puts, the two `kfree`, the reset of the pool;
* `al5_bufpool_reserve_fd` in two steps, because `dma_buf_fd` gives the pool's own
  reference to the descriptor and `dma_buf_get` takes a new one after;
* `al5_bufpool_get_id`; GET_DMA_FD and GET_DMA_PHY (and, with the same
  steps, `al5_get_dmabuf_info` of put stream buffer): get, attach, map, detach, put;
* `al5_dmabuf_map` with the mapping it caches per attachment, used by this
  driver and by any other that imports the buffer;
* the client, which closes descriptors it was told of, and its exit.

The kernel's dma-buf and descriptor functions are external.

### Codec

The life of a device. `held` is the set of resources; `al5_codec_set_up` takes them
in the order of `SetUpOrder`, and the labels `fail` and `free_mcu_caches` are
`SetUpFails`. `al5_codec_set_firmware` binds the root user, boots the MCU and
shakes hands in `init_mcu`: it waits for a ping, allocates memory for the firmware,
sends its configuration and waits for the acknowledgement. Every wait can time
out, every allocation can fail. `al5_codec_tear_down` has three steps, with the
interrupt still requested. The kernel releases what `devm_` functions allocated
afterwards, the interrupt first.

Beside it run `al5_hardirq_handler`, which clears the interrupt and wakes the
thread, the thread with its bound on mails (`MaxMsg`), and the firmware, which posts
a mail and raises the interrupt in a second step. A removal does not stop the
firmware, and `stop_mcu` may give up on it; it then lives on and posts into the
mailboxes of the next probe until that resets it.

When the handler uses the interface after it was freed, nothing is known of what
happens; the model records it (`stale`) and lets the handler return.

### Step size

A step ends where another thread, the interrupt or the MCU could see or change
what the next one uses. Merged are: the four assignments of
`user_queues_unlock` (each queue has its own waiters, and the destroy takes the
first mutex only afterwards); the eight unlocks at the end of a destroy; a
trylock with the check after it; in a quiet destroy, the send with the assignments
and the freeing after it (`DestroyQuiet`: the interrupt thread could see `chan_uid` between
them, but no property tells the two orders apart); the second reading of `chan_uid` in
`al5e_user_put_stream_buffer` with its send; the copy of a mail's body with the
publication of the head, since the mailbox has one reader. In `Codec`, `free_irq`
drops a wake of the interrupt thread that is still pending, where the kernel would let
the thread run once more (`DevresIrq`). A call that is refused and changes nothing
(`-EPERM`, a failed trylock, `-EAGAIN` of a call that is one send) is a
stuttering step. The answers of ioctls are left out, except the one
`al5_codec_release` loops on. Failures that return before any state is changed, such as those of
`al5_get_dmabuf_info` and the test of the size in put stream buffer, are left out. Allocating a mail is assumed to succeed; its
failure takes the same path as a refused send where the code checks for it.

## 3. What TLC checks

Bounds, all named in the modules: `CmdCap`, `StatusCap` and `BoxCap` (mails a box holds),
`MaxTries` (10000 in the code), `MaxSignals` (waits cut short), `MaxOutstanding`
(frames and pictures under way), `MaxUsers`, the channel ids, the threads. They
are chosen so that the interesting cases occur: a command box of two is full
while a create still has a mail to send; two channel ids allow an old channel
and a new one side by side, and one id forces its reuse; two signals can
interrupt a destroy and its repetition; two tries let a close both succeed late
and give up. In `bufpool` three places in memory serve a pool of two and one more
buffer, two descriptors run out, and memory is handed out again after it was
freed. In `codec` a box of three has room for what an earlier firmware may leave
there (`MaxTraces` + 1) and the ping of the new one. With a box of two, an abandoned
firmware can fill it and be reset before it raises its interrupt: then nobody
empties the box, the new firmware cannot ping, and the probe ends by its time-out only.
Probes, removals and reloads of the module are not bounded.

| Run | Client | Shows |
|---|---|---|
| `mailbox` | two writers, a reader, a ring of five words, six mails of four shapes | no word is overwritten unread, mails come out whole and in order, the ring refines `MailFifo`, the invariant used in the proofs holds, and under fairness every mail let in is read |
| `encoder_team` | control, feeding and waiting thread; allocations fail | buffers live as long as the firmware has them, each push happens once and in order, pools belong to channels, no accepted frame is behind a destroy |
| `encoder_signals` | two threads, two interruptions anywhere | mutexes are given back and queues relocked on every path when waits end early; a waiting destroy frees buffers only after the firmware let go |
| `encoder_rivals` | two threads create, one destroys | a destroy that wakes a create leaves no channel behind, and pushes stay in order |
| `encoder_files` | two files, one of a process that exits with its channel alive and frames under way; allocations fail | mails reach the file they are for, two files never hold one channel; quiet and orphan destroys leave no channel behind, destroy nobody's channel and free no buffers in use |
| `encoder_live` | the team, fair | a destroy returns although the waiting thread holds a mutex; a status reaches the waiting thread |
| `decoder` | control, feeding and waiting thread, one interruption anywhere, fair | channels have owners until a wait is cut short, and a destroy and a start code waiter come back |
| `bufpool` | a pool, calls on pictures, a thread in GET_DMA_FD, GET_DMA_PHY or another driver, a process that exits; fair | every reference has an owner, memory lives as long as it is used and no longer, arrays are freed once and read alive (with two exceptions, below), mappings are undone, an exit gives all memory back |
| `codec` | load, probe, remove, again and again; every failure and time-out; fair | nothing is left after a failure, the device appears configured, the firmware's memory and the handler's data are there, a probe needs no time-out, no mail is left without an interrupt |

Deadlock checking is off in `mailbox`, which ends at `MaxMails`.

### Properties

* `RingInv`, `HeadTail`, `InOrderIntact`, `ImplementsFifo`, `EveryMailRead`: section 4.
* `NoOrphanChannel`: a channel that lives in the firmware has a holder, an answer
  on its way to one, or a destroy in the command box.
* `BuffersOutliveChannel`: buffers the firmware was given are still allocated,
  or a destroy is in the command box.
* `PushOrder`: whatever is refused and tried again, a channel gets the
  intermediate buffers once and then the reference buffers once.
* `PoolsBelongToChannel`: no path leaves buffers to a user without a channel,
  where the next create would allocate over them.
* `FramesReachChannel`: a frame a call accepted is in front of every destroy of
  its channel in the command box.
* `OwnedUntilInterrupted`: `NoOrphanChannel` in the decoder, as long as no wait was
  cut short, for a file on which one thread creates and destroys. What a rival's destroy does to
  a create is checked in `encoder_rivals`, on steps both devices share.
* `MutexDiscipline`: the exact set of mutexes a thread holds at each point.
* `QueuesRelocked`: every way out of a destroy locks the queues again.
* `DeliveredToOwner`, `ChannelsDistinct`: mails and channels belong to the
  file they were made for.
* `FreedAfterAnswer`: a destroy that waits for its answer frees the buffers
  only when this file's channel no longer lives.
* `OrphanBelongsToNobody`: the channel that `destroy_orphan_channel` destroys is
  not one that a file holds.
* `DestroyReturns`, `StatusReaches`, `StartCodeReaches`: liveness.
* `RefsMatchOwners`, `MemoryFollowsUsers`: the count of each dma-buf is the
  number of its owners, and its memory is allocated while it has one and only then. In the middle of `al5_bufpool_reserve_fd` the pool has lent its
  reference to the descriptor (`Lent`).
* `AllOrNothing`: a pool is whole or empty, over any sequence of failed allocations and
  frees.
* `ArraysUsedAlive`: its arrays are freed once, although a close frees a pool again after its
  destroy did, and a call on a picture, which may come as soon as the channel has an
  id, reads them alive. Two paths are excepted by name, where the code does otherwise:
  the free after `fail_handles`, and a search while a failed allocation undoes itself
  (`al5e_user_release_rec` tests `chan_uid` only and holds another mutex than the create, so
  it may read the array of handles that the allocation has just freed). The model takes both
  steps and names them in `faults`; without the exceptions TLC finds both.
  What is claimed is that there is no third: the mutexes of a destroy keep searches
  out, and no other path frees an array twice.
* `MappingsUndone`: an attachment has the one mapping its direction says, and none
  after it is detached.
* `ExitReturnsMemory`: liveness; also the descriptors that a failed GET_DMA_FD never
  told the client of are closed at exit.
* `NothingLeft`: the resources held after a probe and after
  everything that ends one.
* `VisibleOnlyConfigured`, `McuMemoryAlive`, `HandlerFindsAll`: the firmware and the
  interrupt handler against the thread that sets up and tears down.
* `ProbeReturns`, `EveryMailServed`: liveness of the handshake and of the two halves
  of the interrupt handler.

### Assumptions some of them need

* `encoder_files` has `PromptReuse = FALSE`: the firmware does not give out an
  id while a file or a mail still goes by it. With prompt reuse,
  a user keeps its `chan_uid` from the moment the firmware answers a DESTROY to
  the moment the destroying thread reads the answer. During that time a second
  file may be given the id, and `al5_group_user_from_chan_uid` finds the lower
  of the two slots: `ChannelsDistinct`, `DeliveredToOwner` and
  `FreedAfterAnswer` all fail. So does `OrphanBelongsToNobody`: a late status of a
  closed file destroys the channel that has got the same id since. What the firmware really does is not in the
  repository.
* `NoOrphanChannel` is checked without interruptions. A create that gives
  up leaves an answer which the close of the file throws away, and the channel then
  lives on without an owner; only feedback of that channel, which never comes,
  would make the driver destroy it. The same happens without any interruption
  when a create starts after a destroy has released the mutexes and before it
  has locked the queues again: the create fails at once and its answer comes later.
  `encoder_rivals` therefore keeps its file open.
* A start code answer of a closed file goes to the next file in the same slot. The
  decoder run has one file.
* `NoOrphanChannel` and `BuffersOutliveChannel` exempt a channel that
  `al5_codec_release` gave up after its last try: its comment calls that "best
  effort".
* One thread per file destroys. With two, both may pass the unlocked check; the
  second then sends a DESTROY for `BAD_CHAN` and, holding every mutex, waits for an
  answer the firmware may never give.
* A client closes the descriptors it was told of, and no others. One that guesses the
  number of a descriptor could close it before `al5_bufpool_reserve_fd` takes its
  reference.
* `MemoryFollowsUsers` and `RefsMatchOwners` leave out the buffers (`lost`) that
  `al5_allocate_dmabuf` loses when `al5_create_dmabuf_fd` fails: a flaw of that
  path, at the line `PROJECT.json` names.
* The firmware's answer to a call on a picture names a picture of the channel that
  asked, or none. An answer that an earlier channel left in the queue is not modelled.
* `NothingLeft` leaves out three failures of `al5_codec_set_up` and two of
  `al5e_init` that do leave something behind. `HandlerFindsAll` holds up to
  `al5_codec_tear_down`, which frees what the handler uses before the interrupt is
  released. `McuMemoryAlive` leaves out the time between `fail_msg` and `stop_mcu`,
  and a firmware that a removal, a failed character device or a `stop_mcu` that gave
  up has left running; `VisibleOnlyConfigured` leaves out a probe that meets such a
  firmware before it has answered.
* `CodecAssumption`: no more mails fit into the box than the thread reads at one
  interrupt. Otherwise `EveryMailServed` fails, since the rest of the mails waits for
  an interrupt that may not come.

### Fairness

`FairSpec` of `Encoder` and `Decoder` assumes that a thread inside a call runs on when it can
(weak fairness of `InCall`), that a thread that waits for a mutex gets it in the
end although others take it again and again (strong fairness of `DestroyMutex`:
the kernel queues the waiters of a mutex and hands it over to one that waits too
long), and that the interrupt thread and the firmware keep working. No client is
obliged to make any call. `FairSpec` of `Mailbox` assumes weak fairness of the
steps inside a write and of the reader's. `FairSpec` of `BufPool` assumes that a pool
operation runs on and that the kernel closes the files of a process that exits.
`FairSpec` of `Codec` assumes that the probing thread and the interrupt thread run,
that a pending interrupt is served, and that the firmware boots, answers and raises
its interrupts; a failure or a time-out is possible at every place but never has to
happen.

### Where the code and its messages disagree

| Run | What the code says | What happens |
|---|---|---|
| `encode_early` | "Cannot encode frame until channel is configured" | the test is on `chan_uid`, which is set before the buffers are allocated and sent: another thread's frame is let through |
| `failed_allocation` | "Failed internal buffers allocation, channel wasn't created" | a full command box refuses the destroy, the error is dropped, and the user keeps a channel that counts as fully created |
| `boot_ack` | "after this, the mcu is set to send us an interrupt, we can't fail before ack'ing it" (a comment in `al5_codec_set_firmware`) | `init_mcu` gives up after its time-out or at a signal, with that interrupt still to come; the root user on the stack stays bound |

## 4. What is proved

Everything in this section holds for every value of the constants that meets the
named assumptions: any number of files, threads, channels and user slots, any capacity
of the boxes, any client behaviour `Ops`, with or without failing allocations, and any
number of waits cut short, unless a theorem names a condition. The assumptions of
`Mcu` and `Users` say only that sizes are numbers, that a thread has a file, and that the
values for "none" (`NoFile`, `NoThread`, `NoIrq`, `BAD_CHAN`) are no others. TLC checked each inductive invariant on small instances
before it was proved.

### The mailbox

`MailboxProofs` proves, for every ring size that is a multiple of four and at
least eight, every set of mails and every set of writers:

| Theorem | Statement |
|---|---|
| `RingInvariant` | `Spec => []RingInv` |
| `TypeCorrect` | `Spec => []TypeOK` |
| `HeadTailCorrect` | `Spec => []HeadTail`: what is unread fits, with the reserved word to spare |
| `DeliveryCorrect` | `Spec => []InOrderIntact`: each mail read is the next one written, intact |
| `Refinement` | `Spec => ImplementsFifo`: the ring implements `MailFifo` |

The assumptions are the ones named in `Mailbox`: `SizeAssumption`,
`MailsAssumption` (a mail's words are as many as its size in bytes spans) and
`NamesAssumption`. TLC evaluates them in the mailbox run.

The properties are not inductive: they do not say where in the ring a mail's
words are. `RingInv` does. It gives each mail a position in an endless
stream of bytes, of which a ring offset is the remainder (`Pos`): the registers
stand for the positions `wr` and `rd`, less than a ring apart (`RegisterInv`);
the mails written follow one another up to `wr` (`StreamInv`); a writer in the
middle of a mail has room for all of it, and what it has copied is where it
belongs (`WriterInv`); the reader is before a mail or just after a header
(`ReaderInv`); and every mail not yet read is in the ring (`UnreadStored`). Two
positions that are less than a ring apart have different offsets, so a copy
into the free part leaves the unread mails alone (`WriteKeeps`, `UnreadKept`).
The arithmetic of the code enters through a few lemmas: `advance` is the
remainder of the position moved by the rounded size (`AdvanceIsOff`),
`write_data` and `read_data` copy the words they should on either side of the
end (`WriteDataFacts`, `ReadDataFacts`), and a header survives being written
and read (`HeaderRoundTrip`). Each action then has a lemma of its own, and
`NextInv` collects them. For the refinement only two steps are visible,
`PushTail` (the mail is sent) and `ReadBody` (it is received); all others are
stuttering.

### Users, encoder and decoder

The two devices share most of their steps, so the work is shared as well.
`UsersProofs`, `ChannelProofs` and `OwnerProofs` define one invariant each and hold a lemma for each
step of `Users` and `Mcu`; `EncoderProofs` and `DecoderProofs` add their own steps and
state the theorems.

| Theorem | Device | Statement |
|---|---|---|
| `EncoderInvariant`, `DecoderInvariant` | both | `Spec => []UsersInv` |
| `TypeCorrect` | both | the type invariant |
| `MutexesAreGivenBack` | both | `Spec => []MutexDiscipline` |
| `QueuesAreRelocked` | both | `Spec => []QueuesRelocked` |
| `PoolsHaveAChannel` | encoder | `Spec => []PoolsBelongToChannel` |
| `ChannelInvariant` | both | `Spec => []IdsInv`, if `PromptReuse = FALSE` |
| `ChannelsAreDistinct` | both | `Spec => []ChannelsDistinct`, if `PromptReuse = FALSE` |
| `FramesAreNotLost` | both | `Spec => []FramesReachChannel`, if `PromptReuse = FALSE` |
| `OrphansAreNobodys` | encoder | `Spec => []OrphanBelongsToNobody`, if `PromptReuse = FALSE` |
| `BuffersFreedAfterAnswer` | encoder | `Spec => FreedAfterAnswer`, if `PromptReuse = FALSE` |
| `OrderInvariant` | encoder | `Spec => []PushInv`, if `PromptReuse = FALSE` |
| `BuffersComeInOrder` | encoder | `Spec => []PushOrder`, if `PromptReuse = FALSE` |
| `OwnerInvariant` | both | `Spec => [](signals = 0 => OwnInv)`, if `PromptReuse = FALSE` and `OneControl` |
| `ChannelsHaveOwners` | encoder | `Spec => [](signals = 0 => NoOrphanChannel)`, under the same conditions |
| | decoder | `Spec => []OwnedUntilInterrupted`, under the same conditions |
| `MailsReachTheirOwner` | encoder | `Spec => [](signals = 0 => DeliveredToOwner)`, under the same conditions |
| `BuffersStayAllocated` | encoder | `Spec => [](signals = 0 => BuffersOutliveChannel)`, under the same conditions |

`UsersInv` is inductive without any assumption on the firmware. Its parts:

* `McuTypes`, `UserTypes`, `FlagTypes`, `ThreadTypes`: the types, field by field;
* `CallsOK`: what `pc` and `after` of a thread say about its file. A thread
  in a call has an open file; a file that closes has no other call; a destroy that was
  started by a create or by a close knows where to return to;
* `LocksOK`: a mutex is held by a thread of the same file, and a thread holds
  exactly the mutexes that `Needs` computes from its `pc`. `MutexDiscipline` speaks of
  each point of a call, but is not inductive: it does not exclude that a thread
  of another file holds a mutex;
* `QueuesOK`: a queue is unlocked only while a thread of the file is between
  `user_queues_unlock` and `user_queues_lock`, or the file is being freed;
* `ChannelOK`: a checkpoint says whether there is a channel and which of the pools
  are allocated. `PoolsBelongToChannel` needs it because a create resumes at its checkpoint
  and a destroy may free the pools in the meantime.

`IdsInv` is about ids, and needs a firmware that gives an id out only when no file and no
mail goes by it (`PromptReuse = FALSE`; section 3 says what happens otherwise). Its
parts:

* `BindOK`: the group's table and the user ids are each other's inverse, and a file
  that is not open has no channel and no mails;
* `FirmwareOK`: a channel that does not live has no buffers, frames or creator;
* `LinksOK`: a channel belongs to one file or to one unread answer to a create, never
  both (`FilesOK`, `ClaimsOK`); between lookup and delivery, feedback still goes to the file that
  holds the channel, or to one that is closing (`IrqUserOK`); the answer to a destroy is the last mail about its
  channel, and there is one at most in a queue (`DestroysOK`); a destroy of an orphan names nobody's
  channel (`OrphansOK`); and until a wait is cut short, the channel of a file lives and no
  destroy of it is on its way, unless a thread waits for the answer (`HoldersOK`).

`ChannelsDistinct` alone is not inductive: two answers with the same id could be on
their way. `FreedAfterAnswer` needs `DestroysOK`, since an answer left over from an earlier
destroy would free the buffers too early. `PushOrder` needs `IdsInv` and one invariant
more, `PushInv`: what a channel was given followed by the pushes in the
command box, in that order, is a prefix of "intermediate, reference" (`InOrder`), and how
long a prefix agrees with the checkpoint of the file that holds the channel
(`CheckpointOK`).

`OwnInv` is about who owns what. It needs two conditions more, both met by the run
`encoder_files`. No wait has been cut short so far (`signals = 0`): a
create that is interrupted leaves its answer to nobody. And the client has one
thread per file that creates and destroys (`OneControl`), with any number of
other threads: section 3 says how a create that starts in the middle of another thread's
destroy loses its answer. Its parts:

* `ControlOK`: only that thread is in a create or a destroy, except for the close;
* `AsksOK`: a file has at most one mail of a create, in one place only: the command box, the
  status box, the interrupt thread or the queue. It carries the
  file's own user id, and a thread of the file waits for it. So a slot is not given to
  another file while the answer is on its way, and nobody takes an old answer for a new one;
* `MadeOK`, `OwnedOK`: a file claims the channel it holds and the one in the answer to its
  create. Who claims a channel made it, and who made it claims it until the destroy is
  in the command box. `NoOrphanChannel` speaks of living channels only, and says
  neither who gets the answer nor that this file still reads it;
* `GivenUpOK`: at the end of a close the channel is gone or counts as given up, since
  the file is about to forget it;
* `FeedbackOK`, `MailsOK`: feedback in the status box or in the interrupt thread is meant for the
  file that holds the channel, and what is in a queue, start codes apart, was
  meant for the file.

`DeliveredToOwner` follows because the encoder sends no searches. `BuffersOutliveChannel` needs
one part more, `BuffersOK`: a file whose channel was given buffers, or will be by a push in
the command box, has both pools allocated, unless its close gave the channel up. Its proof uses all of `UsersInv`, `IdsInv`,
`PushInv` and `OwnInv`.

### Codec

`CodecProofs` proves from `CodecAssumption`, for every capacity of the box and every
number of trace mails:

| Theorem | Statement |
|---|---|
| `CodecInvariant` | `Spec => []CodecInv` |
| `TypeCorrect` | `Spec => []TypeOK` |
| `GivesEverythingBack` | `Spec => []NothingLeft` |
| `AppearsConfigured` | `Spec => []VisibleOnlyConfigured` |
| `FirmwareKeepsItsMemory` | `Spec => []McuMemoryAlive` |
| `HandlerIsSafe` | `Spec => []HandlerFindsAll` |

`CodecInv` gives the resources held at each `pc` (`HeldOK`) and the reason why a
failure path is taken (`ReasonOK`), without which the same `pc` would
have to allow for different resources. `PointerOK` ties the pool's pointer to the memory: it is
NULL exactly when the memory is not allocated, so the tear-down frees it once. `HandshakeOK` counts
the answers to INIT: those in the root user's queue and in the
box, the one a booting firmware will send and the one an unread configuration will cause are
two in all, and unless an earlier firmware left some, their number says how far the
handshake is. The answer read at `ack` then is that of a configured firmware. `FirmwareOK` and `HandlerOK` say where a firmware runs and what the
interrupt handler goes by.

### Buffers

`BufPoolProofs` proves from `BufPoolAssumption`, for any finite number of places in
memory, descriptors and threads:

| Theorem | Statement |
|---|---|
| `BufPoolInvariant` | `Spec => []BufPoolInv` |
| `TypeCorrect` | `Spec => []TypeOK` |
| `ReferencesHaveOwners` | `Spec => []RefsMatchOwners` |
| `MemoryLivesWithItsUsers` | `Spec => []MemoryFollowsUsers` |
| `PoolIsWhole` | `Spec => []AllOrNothing` |
| `ArraysLive` | `Spec => []ArraysUsedAlive` |
| `EveryMappingIsUndone` | `Spec => []MappingsUndone` |

The assumption of finiteness is needed because a reference count is compared with the
cardinality of the set of owners; a process has finitely many of each. `BufPoolInv` says for every point of
a pool operation, of a call on pictures and of a call on descriptors what it owns (`PoolOK`, `RecOK`, `CallsOK`); that a channel has buffers, and calls on its pictures, only between
its create and its destroy (`ChannelOK`), so that no search meets the arrays a destroy frees (`ArraysOK`);
that descriptors the client was told of are open (`ToldOpen`), since closing another one would put a reference
nobody took; that what `al5_allocate_dmabuf` lost has no owner (`LostOK`); and that
memory is allocated exactly while the count is positive (`MemoryOK`). The lemmas on
counting say how the number of owners changes when one is added, leaves or
is replaced, so that each action's lemma only has to name the owner.

### Only model-checked

* Liveness, which is out of the prover's reach: `EveryMailRead`, `DestroyReturns`,
  `StatusReaches`, `StartCodeReaches`, `ExitReturnsMemory`, `ProbeReturns`,
  `EveryMailServed`.
* `NoOrphanChannel` with two threads that create and destroy (`encoder_rivals`): it holds
  there because the file stays open; the theorem lets files close, and has one such thread.
* The properties of `ChannelInvariant` and of what rests on it, in the runs with
  `PromptReuse = TRUE`: there they hold because the run has one file only.

## 5. What is not modelled

* Device tree and L2 prefetch values, printing and the layout of the ioctl
  structures: no control, or only I/O.
* Device numbers, the registers of the MCU's caches, CPU mappings of buffers
  (`mmap`, `kmap`, `vmap`), which change no state of the driver.
* Files that are open during a removal: `Codec` has no clients. The window between
  `al5_codec_tear_down` and the removal of the character device is a listed hazard.
* Sizes and addresses of buffers, and the contents of mails other than kind,
  channel and user.
* `al5_user_get_mail`, which nothing calls. Trace mails are in `Codec` only.
* Failing allocations of mails and list cells in the interrupt thread, which the code
  does not check.
* Paths that end in an access outside the modelled memory, or that leak what the
  model does not count: `devm_ioremap_nocache` answers NULL, which `IS_ERR` lets
  through (`al_codec.c:409`); the array of users may be NULL (`al_group.c:29`); the
  interface is allocated with the size of a pointer (`mcu_interface.c:30`); a picture
  id equal to the number of buffers passes the test (`enc_user.c:303`); `dma_buf_fd`
  fails with other numbers than the one tested for (`enc_user.c:336`); minor numbers
  are never given back (`al_enc.c:247`); private data leaks when an open is refused
  (`al_codec.c:285`) or a wrap of a buffer fails (`al_dmabuf.c:310`); a mail
  delivered between the purge of the queues and the unbind is lost (`al_codec.c:328`).

## 6. Plan

1. Done: all modules of section 2, and the proofs of section 4.
2. `NoOrphanChannel` for two threads that create and destroy on a file that stays open. `AsksOK`
   then has to allow for answers that no thread waits for.
3. `Addresses`: the arithmetic of `al5_mcu_get_virtual_address`, against a
   reference definition.
