------------------------------- MODULE Users --------------------------------
(***************************************************************************)
(* The users of a codec device: one al5_user per open file, the group that *)
(* holds them, the interrupt thread that hands the mails of the MCU out,   *)
(* and the part of a user's life that encoder and decoder share: opening,  *)
(* destroying the channel, closing.                                        *)
(*                                                                         *)
(* A thread runs one call at a time; pc says where it is.  A step is what  *)
(* a thread does between two points where another thread, the interrupt or *)
(* the MCU can see or change what it uses.  Refused calls that change      *)
(* nothing (-EPERM, -EINTR of a failed trylock, -EAGAIN of a send that is  *)
(* the whole call) are stuttering steps.                                   *)
(***************************************************************************)
EXTENDS Mcu, FiniteSets

CONSTANTS
    Threads,     \* threads that call into the driver
    NoThread,
    FileOf,      \* the file each thread works on
    Ops,         \* the calls each thread makes: what the client promises
    NoIrq,       \* the interrupt thread holds no mail
    MaxUsers,    \* max_users_nb
    MaxTries,    \* bound: 10000 in the code
    MaxSignals,  \* bound: signals that reach a waiting thread
    MaxOutstanding,  \* bound: mails a client lets wait for an answer or a reader
    PromptReuse  \* the firmware may hand a channel id out again at once

Slots   == 0..MaxUsers-1
ChanIds == Chans \cup {BAD_CHAN}

\* What the status box carries.
Answers ==
    [uid : {"CREATE_CHANNEL"}, user : Slots, chan : ChanIds, by : Files]
    \cup [uid : {"SEARCH_START_CODE"}, user : Slots, by : Files]
    \cup [uid : {"DESTROY_CHANNEL", "ENCODE_ONE_FRM", "DECODE_ONE_FRM"}, chan : Chans,
          by : Files \cup {NoFile}]
    \cup [uid : {"GET_RECONSTRUCTED_PICTURE"}, chan : Chans, found : BOOLEAN,
          by : Files \cup {NoFile}]

ASSUME UsersAssumption ==
    /\ NoThread \notin Threads
    /\ NoIrq \notin [mail : Answers, user : Files \cup {NoFile}]
    /\ FileOf \in [Threads -> Files]
    /\ MaxUsers \in Nat \ {0}
    /\ MaxTries \in Nat \ {0}
    /\ MaxSignals \in Nat
    /\ MaxOutstanding \in Nat \ {0}
    /\ PromptReuse \in BOOLEAN

VARIABLES
    uid,          \* user->uid, -1 while the file is closed
    slot,         \* group->users
    chan_uid,     \* user->chan_uid
    checkpoint,   \* user->checkpoint
    locks,        \* user->locks: who holds each mutex
    queues,       \* user->queues[].list
    locked,       \* user->queues[].locked
    int_buffers,  \* user->int_buffers is allocated
    rec_buffers,  \* user->rec_buffers is allocated
    irq,          \* mail in the hands of the interrupt thread, and its user
    pc,           \* where each thread is
    idx,          \* next mutex of al5_user_destroy_channel
    after,        \* who called al5_user_destroy_channel
    err,          \* answer of al5_user_destroy_channel to al5_codec_release
    tries,        \* tries of al5_codec_release
    signals       \* signals so far

groupVars  == <<uid, slot>>
chanVars   == <<chan_uid, checkpoint>>
queueVars  == <<queues, locked>>
poolVars   == <<int_buffers, rec_buffers>>
threadVars == <<pc, idx, after, err, tries, signals>>
userVars   == <<groupVars, chanVars, locks, queueVars, poolVars, irq, threadVars>>

\* enum al5_user_op, in the order al5_user_destroy_channel takes the mutexes.
OpOrder == <<"INIT", "CREATE", "DESTROY", "XCODE", "STATUS", "SC", "DEBUG", "REC">>
OpIds   == {OpOrder[i] : i \in 1..Len(OpOrder)}

\* enum al5_user_mail.
QueueIds == {"INIT", "CREATE", "DESTROY", "STATUS", "SC", "DEBUG", "REC"}

\* mutant: the statuses are not told apart from the debug mails.
mail_to_queue_NoStatus(msg_uid) ==
    IF msg_uid = "CREATE_CHANNEL" THEN "CREATE"
    ELSE IF msg_uid = "DESTROY_CHANNEL" THEN "DESTROY" ELSE "DEBUG"

mail_to_queue(msg_uid) ==
    CASE msg_uid = "INIT"                      -> "INIT"
      [] msg_uid = "CREATE_CHANNEL"            -> "CREATE"
      [] msg_uid = "DESTROY_CHANNEL"           -> "DESTROY"
      [] msg_uid = "ENCODE_ONE_FRM"            -> "STATUS"
      [] msg_uid = "DECODE_ONE_FRM"            -> "STATUS"
      [] msg_uid = "SEARCH_START_CODE"         -> "SC"
      [] msg_uid \in {"GET_RECONSTRUCTED_PICTURE",
                      "RELEASE_RECONSTRUCTED_PICTURE"} -> "REC"
      [] OTHER                                 -> "DEBUG"

UsersInit ==
    /\ uid = [f \in Files |-> -1]
    /\ slot = [i \in 0..MaxUsers-1 |-> NoFile]
    /\ chan_uid = [f \in Files |-> BAD_CHAN]
    /\ checkpoint = [f \in Files |-> "NO_CHECKPOINT"]
    /\ locks = [f \in Files |-> [op \in OpIds |-> NoThread]]
    /\ queues = [f \in Files |-> [q \in QueueIds |-> <<>>]]
    /\ locked = [f \in Files |-> [q \in QueueIds |-> TRUE]]
    /\ int_buffers = [f \in Files |-> FALSE]
    /\ rec_buffers = [f \in Files |-> FALSE]
    /\ irq = NoIrq
    /\ pc = [t \in Threads |-> "idle"]
    /\ idx = [t \in Threads |-> 1]
    /\ after = [t \in Threads |-> "ioctl"]
    /\ err = [t \in Threads |-> "0"]
    /\ tries = [t \in Threads |-> 0]
    /\ signals = 0

al5_chan_is_created(f) == chan_uid[f] # BAD_CHAN
al5_have_checkpoint(f) == checkpoint[f] # "NO_CHECKPOINT"

\* The kernel calls release once no thread is inside a call on the file.
IsOpen(f) == uid[f] # -1 /\ \A t \in Threads : FileOf[t] = f => after[t] # "release"

MayCall(t, op) == pc[t] = "idle" /\ IsOpen(FileOf[t]) /\ op \in Ops[t]

Goto(t, label) == pc' = [pc EXCEPT ![t] = label]

\* Only al5_codec_release goes by the answer of al5_user_destroy_channel.  The
\* answers of the ioctls are left out: no later step depends on them.
Answer(t, e) ==
    err' = [err EXCEPT ![t] = IF after[t] = "release" THEN e ELSE @]

Lock(t, op)   == locks' = [locks EXCEPT ![FileOf[t]][op] = t]
Unlock(t, op) == locks' = [locks EXCEPT ![FileOf[t]][op] = NoThread]
IsFree(t, op) == locks[FileOf[t]][op] = NoThread

\* al5_queue_pop and al5_queue_pop_timeout take the first mail, or wake up
\* empty-handed once the queue is unlocked.
Available(f, q) == queues[f][q] # <<>> \/ ~locked[f][q]

\* mutant: the mail is read and stays in the list.
PopAny_Peek(f, q) == UNCHANGED queues

PopAny(f, q) ==
    queues' = [queues EXCEPT ![f][q] = IF @ = <<>> THEN <<>> ELSE Tail(@)]

\* A signal ends a wait that has nothing to wake up for.
Signal(f, q) ==
    /\ ~Available(f, q)
    /\ signals < MaxSignals
    /\ signals' = signals + 1

-----------------------------------------------------------------------------
\* Opening a file: al5_codec_open, al5_group_bind_user, al5_user_init.

FreeSlots == {i \in 0..MaxUsers-1 : slot[i] = NoFile}

Lowest(S) == CHOOSE i \in S : \A j \in S : i <= j

al5_user_init(f, i) ==
    /\ uid' = [uid EXCEPT ![f] = i]
    /\ chan_uid' = [chan_uid EXCEPT ![f] = BAD_CHAN]
    /\ checkpoint' = [checkpoint EXCEPT ![f] = "NO_CHECKPOINT"]
    /\ locks' = [locks EXCEPT ![f] = [op \in OpIds |-> NoThread]]
    /\ queues' = [queues EXCEPT ![f] = [q \in QueueIds |-> <<>>]]
    /\ locked' = [locked EXCEPT ![f] = [q \in QueueIds |-> TRUE]]
    /\ int_buffers' = [int_buffers EXCEPT ![f] = FALSE]
    /\ rec_buffers' = [rec_buffers EXCEPT ![f] = FALSE]

\* group->lock: al5_irq_handler holds it while it hands mails out, so no user is
\* bound or unbound between the lookup of a user and the delivery to it.
\* Between two mails the model lets the lock go, as if each had had an
\* interrupt of its own.
GroupLockFree == irq = NoIrq

\* No free slot: -EAGAIN, nothing changes.
al5_codec_open(f) ==
    /\ uid[f] = -1
    /\ GroupLockFree
    /\ FreeSlots # {}
    /\ slot' = [slot EXCEPT ![Lowest(FreeSlots)] = f]
    /\ al5_user_init(f, Lowest(FreeSlots))
    /\ UNCHANGED <<irq, threadVars, mcuVars>>

-----------------------------------------------------------------------------
\* The interrupt thread: al5_group_read_mails, one mail at a time.

al5_group_user_from_uid(user_uid) == slot[user_uid]

\* mutant: any bound user will do.
SlotsWithChan_Any(c) == {i \in 0..MaxUsers-1 : slot[i] # NoFile}

\* mutant: the search starts at the second user.
SlotsWithChan_SkipsFirst(c) ==
    {i \in 1..MaxUsers-1 : slot[i] # NoFile /\ chan_uid[slot[i]] = c}

SlotsWithChan(c) == {i \in 0..MaxUsers-1 : slot[i] # NoFile /\ chan_uid[slot[i]] = c}

al5_group_user_from_chan_uid(c) ==
    IF SlotsWithChan(c) = {} THEN NoFile ELSE slot[Lowest(SlotsWithChan(c))]

retrieve_user(m) ==
    IF m.uid \in {"CREATE_CHANNEL", "INIT", "SEARCH_START_CODE"}
    THEN al5_group_user_from_uid(m.user)
    ELSE al5_group_user_from_chan_uid(m.chan)

should_destroy_channel_on_bad_feedback(msg_uid) ==
    msg_uid \notin {"INIT", "SEARCH_START_CODE", "DESTROY_CHANNEL"}

\* al5_mcu_recv and retrieve_user.
IrqRead ==
    /\ irq = NoIrq
    /\ status # <<>>
    /\ irq' = [mail |-> Head(status), user |-> retrieve_user(Head(status))]
    /\ status' = Tail(status)
    /\ UNCHANGED <<cmd, alive, pushed, frames, creator, groupVars, chanVars, locks,
                   queueVars, poolVars, threadVars>>

al5_list_push(list, m) == Append(list, m)

al5_user_deliver(f, m) ==
    queues' = [queues EXCEPT ![f][mail_to_queue(m.uid)] = al5_list_push(@, m)]

IrqDeliver ==
    /\ irq # NoIrq
    /\ irq.user # NoFile
    /\ al5_user_deliver(irq.user, irq.mail)
    /\ irq' = NoIrq
    /\ UNCHANGED <<mcuVars, groupVars, chanVars, locks, locked, poolVars, threadVars>>

\* destroy_orphan_channel, dropped when the command box is full.
IrqOrphan ==
    /\ irq # NoIrq
    /\ irq.user = NoFile
    /\ IF should_destroy_channel_on_bad_feedback(irq.mail.uid) /\ ~CmdFull
       THEN al5_mcu_send(OrphanMsg(irq.mail.chan))
       ELSE UNCHANGED cmd
    /\ irq' = NoIrq
    /\ UNCHANGED <<status, alive, pushed, frames, creator, groupVars, chanVars, locks,
                   queueVars, poolVars, threadVars>>

-----------------------------------------------------------------------------
\* al5_user_destroy_channel, step by step.

\* mutant: the status waiters are forgotten.
SharedQueues_NoStatus == {"SC", "CREATE", "REC"}

\* mutant: the start code waiters are forgotten.
SharedQueues_NoStartCode == {"STATUS", "CREATE", "REC"}

SharedQueues == {"STATUS", "SC", "CREATE", "REC"}

user_queues_unlock(f) ==
    locked' = [locked EXCEPT ![f] = [q \in QueueIds |-> @[q] /\ q \notin SharedQueues]]

user_queues_lock(f) ==
    locked' = [locked EXCEPT ![f] = [q \in QueueIds |-> @[q] \/ q \in SharedQueues]]

UnlockAll(t) ==
    locks' = [locks EXCEPT ![FileOf[t]] =
                [op \in OpIds |-> IF @[op] = t THEN NoThread ELSE @[op]]]

al5_user_destroy_channel_resources(f) ==
    /\ int_buffers' = [int_buffers EXCEPT ![f] = FALSE]
    /\ rec_buffers' = [rec_buffers EXCEPT ![f] = FALSE]

\* The check that the channel exists is made without a lock.
DestroyEnter(t) ==
    /\ MayCall(t, "DESTROY")
    /\ al5_chan_is_created(FileOf[t])
    /\ Goto(t, "destroy_queues")
    /\ UNCHANGED <<groupVars, chanVars, locks, queueVars, poolVars, irq,
                   idx, after, err, tries, signals, mcuVars>>

DestroyQueues(t) ==
    /\ pc[t] = "destroy_queues"
    /\ user_queues_unlock(FileOf[t])
    /\ idx' = [idx EXCEPT ![t] = 1]
    /\ Goto(t, "destroy_mutexes")
    /\ UNCHANGED <<groupVars, chanVars, locks, queues, poolVars, irq,
                   after, err, tries, signals, mcuVars>>

DestroyMutex(t) ==
    /\ pc[t] = "destroy_mutexes"
    /\ IsFree(t, OpOrder[idx[t]])
    /\ Lock(t, OpOrder[idx[t]])
    /\ IF idx[t] = Len(OpOrder)
       THEN Goto(t, "destroy_send") /\ idx' = [idx EXCEPT ![t] = 1]
       ELSE UNCHANGED pc /\ idx' = [idx EXCEPT ![t] = @ + 1]
    /\ UNCHANGED <<groupVars, chanVars, queueVars, poolVars, irq,
                   after, err, tries, signals, mcuVars>>

\* mutant: the mutexes taken so far are kept.
DestroyKilled_KeepsLocks(t) ==
    /\ pc[t] = "destroy_mutexes"
    /\ ~IsFree(t, OpOrder[idx[t]])
    /\ signals < MaxSignals
    /\ signals' = signals + 1
    /\ Answer(t, "EINTR")
    /\ idx' = [idx EXCEPT ![t] = 1]
    /\ Goto(t, "destroy_relock")
    /\ UNCHANGED <<groupVars, chanVars, locks, queueVars, poolVars, irq, after, tries, mcuVars>>

\* mutant: a plain return instead of the jump to relock_user_queues.
DestroyKilled_Returns(t) ==
    /\ pc[t] = "destroy_mutexes"
    /\ ~IsFree(t, OpOrder[idx[t]])
    /\ signals < MaxSignals
    /\ signals' = signals + 1
    /\ UnlockAll(t)
    /\ idx' = [idx EXCEPT ![t] = 1]
    /\ Goto(t, "idle")
    /\ UNCHANGED <<groupVars, chanVars, queueVars, poolVars, irq, after, err, tries, mcuVars>>

\* mutex_lock_killable gives up only while it waits.
DestroyKilled(t) ==
    /\ pc[t] = "destroy_mutexes"
    /\ ~IsFree(t, OpOrder[idx[t]])
    /\ signals < MaxSignals
    /\ signals' = signals + 1
    /\ UnlockAll(t)
    /\ Answer(t, "EINTR")
    /\ idx' = [idx EXCEPT ![t] = 1]
    /\ Goto(t, "destroy_relock")
    /\ UNCHANGED <<groupVars, chanVars, queueVars, poolVars, irq, after, tries, mcuVars>>

\* mutant: the buffers are left behind.
ForgetChannel_KeepsPools(f) ==
    /\ chan_uid' = [chan_uid EXCEPT ![f] = BAD_CHAN]
    /\ checkpoint' = [checkpoint EXCEPT ![f] = "NO_CHECKPOINT"]
    /\ UNCHANGED poolVars

ForgetChannel(f) ==
    /\ chan_uid' = [chan_uid EXCEPT ![f] = BAD_CHAN]
    /\ checkpoint' = [checkpoint EXCEPT ![f] = "NO_CHECKPOINT"]
    /\ al5_user_destroy_channel_resources(f)

\* mutant: the error of the send is not looked at.
DestroyRefused_Forgets(t) ==
    /\ pc[t] = "destroy_send"
    /\ CmdFull
    /\ ForgetChannel(FileOf[t])
    /\ Answer(t, "0")
    /\ Goto(t, "destroy_unlock")
    /\ UNCHANGED <<groupVars, locks, queueVars, irq, idx, after, tries, signals, mcuVars>>

DestroyRefused(t) ==
    /\ pc[t] = "destroy_send"
    /\ CmdFull
    /\ Answer(t, "EAGAIN")
    /\ Goto(t, "destroy_unlock")
    /\ UNCHANGED <<groupVars, chanVars, locks, queueVars, poolVars, irq,
                   idx, after, tries, signals, mcuVars>>

\* quiet: the driver does not wait for an answer.
DestroyQuiet(t) ==
    /\ pc[t] = "destroy_send"
    /\ after[t] = "release"
    /\ ~CmdFull
    /\ al5_mcu_send(ChanMsg("QUIET_DESTROY_CHANNEL", chan_uid[FileOf[t]]))
    /\ ForgetChannel(FileOf[t])
    /\ Answer(t, "0")
    /\ Goto(t, "destroy_unlock")
    /\ UNCHANGED <<groupVars, locks, queueVars, irq, idx, after, tries, signals,
                   status, alive, pushed, frames, creator>>

DestroySend(t) ==
    /\ pc[t] = "destroy_send"
    /\ after[t] # "release"
    /\ ~CmdFull
    /\ al5_mcu_send(ChanMsg("DESTROY_CHANNEL", chan_uid[FileOf[t]]))
    /\ Goto(t, "destroy_wait")
    /\ UNCHANGED <<groupVars, chanVars, locks, queueVars, poolVars, irq,
                   idx, after, err, tries, signals, status, alive, pushed, frames, creator>>

DestroyAnswered(t) ==
    /\ pc[t] = "destroy_wait"
    /\ queues[FileOf[t]]["DESTROY"] # <<>>
    /\ PopAny(FileOf[t], "DESTROY")
    /\ ForgetChannel(FileOf[t])
    /\ Answer(t, "0")
    /\ Goto(t, "destroy_unlock")
    /\ UNCHANGED <<groupVars, locks, locked, irq, idx, after, tries, signals, mcuVars>>

\* mutant: no mail is taken for the answer.
DestroyInterrupted_Forgets(t) ==
    /\ pc[t] = "destroy_wait"
    /\ Signal(FileOf[t], "DESTROY")
    /\ ForgetChannel(FileOf[t])
    /\ Goto(t, "destroy_unlock")
    /\ UNCHANGED <<groupVars, locks, queueVars, irq, idx, after, err, tries, mcuVars>>

DestroyInterrupted(t) ==
    /\ pc[t] = "destroy_wait"
    /\ Signal(FileOf[t], "DESTROY")
    /\ Answer(t, "EINTR")
    /\ Goto(t, "destroy_unlock")
    /\ UNCHANGED <<groupVars, chanVars, locks, queueVars, poolVars, irq,
                   idx, after, tries, mcuVars>>

DestroyUnlock(t) ==
    /\ pc[t] = "destroy_unlock"
    /\ UnlockAll(t)
    /\ Goto(t, "destroy_relock")
    /\ UNCHANGED <<groupVars, chanVars, queueVars, poolVars, irq,
                   idx, after, err, tries, signals, mcuVars>>

\* Back to the caller: the ioctl, al5e_user_create_channel, which drops the
\* answer and returns its own error, or the loop of al5_codec_release.
DestroyRelock(t) ==
    /\ pc[t] = "destroy_relock"
    /\ user_queues_lock(FileOf[t])
    /\ Goto(t, IF after[t] = "release" THEN "release_loop" ELSE "idle")
    /\ after' = [after EXCEPT ![t] = IF @ = "create" THEN "ioctl" ELSE @]
    /\ UNCHANGED <<groupVars, chanVars, locks, queues, poolVars, irq,
                   idx, err, tries, signals, mcuVars>>

-----------------------------------------------------------------------------
\* Closing a file: al5_codec_release.  A client that may CLOSE closes its file
\* after it destroyed the channel, one that may EXIT at any time.

\* mutant: the channel is not destroyed.
ReleaseEnter_NoDestroy(t) ==
    /\ IsOpen(FileOf[t])
    /\ "EXIT" \in Ops[t]
    /\ \A u \in Threads : FileOf[u] = FileOf[t] => pc[u] = "idle"
    /\ after' = [after EXCEPT ![t] = "release"]
    /\ Goto(t, "release_purge")
    /\ UNCHANGED <<groupVars, chanVars, locks, queueVars, poolVars, irq,
                   idx, err, tries, signals, mcuVars>>

ReleaseEnter(t) ==
    /\ IsOpen(FileOf[t])
    /\ \/ "EXIT" \in Ops[t]
       \/ "CLOSE" \in Ops[t] /\ ~al5_chan_is_created(FileOf[t])
    /\ \A u \in Threads : FileOf[u] = FileOf[t] => pc[u] = "idle"
    /\ after' = [after EXCEPT ![t] = "release"]
    /\ tries' = [tries EXCEPT ![t] = 0]
    /\ err' = [err EXCEPT ![t] = "-1"]
    /\ Goto(t, IF al5_chan_is_created(FileOf[t]) THEN "release_loop" ELSE "release_purge")
    /\ UNCHANGED <<groupVars, chanVars, locks, queueVars, poolVars, irq,
                   idx, signals, mcuVars>>

\* while (ret != 0 && tries < 10000)
ReleaseTry(t) ==
    /\ pc[t] = "release_loop"
    /\ err[t] # "0"
    /\ tries[t] < MaxTries
    /\ tries' = [tries EXCEPT ![t] = @ + 1]
    /\ IF al5_chan_is_created(FileOf[t])
       THEN Goto(t, "destroy_queues") /\ UNCHANGED err
       ELSE Answer(t, "EPERM") /\ UNCHANGED pc
    /\ UNCHANGED <<groupVars, chanVars, locks, queueVars, poolVars, irq,
                   idx, after, signals, mcuVars>>

\* "best effort. If everything went wrong, still free the channel resources"
ReleaseFree(t) ==
    /\ pc[t] = "release_loop"
    /\ err[t] = "0" \/ tries[t] >= MaxTries
    /\ al5_user_destroy_channel_resources(FileOf[t])
    /\ creator' = [ch \in Chans |-> IF ch = chan_uid[FileOf[t]] /\ creator[ch] = FileOf[t]
                                    THEN NoFile ELSE creator[ch]]
    /\ Goto(t, "release_purge")
    /\ UNCHANGED <<groupVars, chanVars, locks, queueVars, irq, idx, after, err, tries, signals,
                   cmd, status, alive, pushed, frames>>

al5_user_remove_residual_messages(f) ==
    /\ queues' = [queues EXCEPT ![f] = [q \in QueueIds |-> <<>>]]
    /\ locked' = [locked EXCEPT ![f] = [q \in QueueIds |-> FALSE]]

ReleasePurge(t) ==
    /\ pc[t] = "release_purge"
    /\ al5_user_remove_residual_messages(FileOf[t])
    /\ Goto(t, "release_unbind")
    /\ UNCHANGED <<groupVars, chanVars, locks, poolVars, irq,
                   idx, after, err, tries, signals, mcuVars>>

\* al5_group_unbind_user, kzfree(user).
ReleaseUnbind(t) ==
    /\ pc[t] = "release_unbind"
    /\ GroupLockFree
    /\ slot' = [slot EXCEPT ![uid[FileOf[t]]] = NoFile]
    /\ uid' = [uid EXCEPT ![FileOf[t]] = -1]
    /\ chan_uid' = [chan_uid EXCEPT ![FileOf[t]] = BAD_CHAN]
    /\ checkpoint' = [checkpoint EXCEPT ![FileOf[t]] = "NO_CHECKPOINT"]
    /\ queues' = [queues EXCEPT ![FileOf[t]] = [q \in QueueIds |-> <<>>]]
    /\ after' = [after EXCEPT ![t] = "ioctl"]
    /\ tries' = [tries EXCEPT ![t] = 0]
    /\ Answer(t, "0")
    /\ Goto(t, "idle")
    /\ UNCHANGED <<locks, locked, poolVars, irq, idx, signals, mcuVars>>

-----------------------------------------------------------------------------
\* What the calls of encoder and decoder have in common.

\* The unlock at the end, whatever the answer.
CreateReturn(t) == Unlock(t, "CREATE") /\ Goto(t, "idle")

\* A create asks the MCU for a channel and waits for the answer.
CreateSend(t) ==
    /\ pc[t] = "create_send"
    /\ ~CmdFull
    /\ al5_mcu_send(CreateMsg(FileOf[t], uid[FileOf[t]]))
    /\ Goto(t, "create_wait")
    /\ UNCHANGED <<groupVars, chanVars, locks, queueVars, poolVars, irq,
                   idx, after, err, tries, signals, status, alive, pushed, frames, creator>>

\* A destroy in another thread unlocked the queue.
CreateWoken(t) ==
    /\ pc[t] = "create_wait"
    /\ queues[FileOf[t]]["CREATE"] = <<>>
    /\ ~locked[FileOf[t]]["CREATE"]
    /\ CreateReturn(t)
    /\ UNCHANGED <<groupVars, chanVars, queueVars, poolVars, irq,
                   idx, after, err, tries, signals, mcuVars>>

\* A signal or WAIT_TIMEOUT_DURATION ends the wait.
CreateGivesUp(t) ==
    /\ pc[t] = "create_wait"
    /\ Signal(FileOf[t], "CREATE")
    /\ CreateReturn(t)
    /\ UNCHANGED <<groupVars, chanVars, queueVars, poolVars, irq, idx, after, err, tries, mcuVars>>

\* Mails of a file that wait for an answer or a reader.
Outstanding(f) ==
    Cardinality({i \in 1..Len(cmd) : 
        cmd[i].uid \in {"ENCODE_ONE_FRM", "DECODE_ONE_FRM", "SEARCH_START_CODE",
                       "GET_RECONSTRUCTED_PICTURE"}})
    + Len(status) + (IF irq = NoIrq THEN 0 ELSE 1)
    + Len(queues[f]["STATUS"]) + Len(queues[f]["SC"]) + Len(queues[f]["REC"])
    + (IF al5_chan_is_created(f) THEN frames[chan_uid[f]] ELSE 0)

\* mutant: the mutex is not taken.
SendOnChannel_NoMutex(t, op, m) ==
    /\ al5_chan_is_created(FileOf[t])
    /\ ~CmdFull
    /\ al5_mcu_send(m)

\* A call that is one check and one send under a mutex that
\* al5_user_destroy_channel needs as well: chan_uid cannot change inside.
SendOnChannel(t, op, m) ==
    /\ IsFree(t, op)
    /\ al5_chan_is_created(FileOf[t])
    /\ ~CmdFull
    /\ al5_mcu_send(m)

\* A wait on a queue, under the mutex that goes with it.
Waiting(op) ==
    CASE op = "STATUS" -> "status_wait"
      [] op = "SC"     -> "sc_wait"
      [] op = "REC"    -> "rec_wait"

WaitEnter(t, op) ==
    /\ IsFree(t, op)
    /\ Lock(t, op)
    /\ Goto(t, Waiting(op))
    /\ UNCHANGED <<groupVars, chanVars, queueVars, poolVars, irq,
                   idx, after, err, tries, signals, mcuVars>>

\* With a mail, or without one when the queue was unlocked.
WaitReturn(t, op) ==
    /\ pc[t] = Waiting(op)
    /\ Available(FileOf[t], op)
    /\ PopAny(FileOf[t], op)
    /\ Unlock(t, op)
    /\ Goto(t, "idle")
    /\ UNCHANGED <<groupVars, chanVars, locked, poolVars, irq,
                   idx, after, err, tries, signals, mcuVars>>

WaitInterrupted(t, op) ==
    /\ pc[t] = Waiting(op)
    /\ Signal(FileOf[t], op)
    /\ Unlock(t, op)
    /\ Goto(t, "idle")
    /\ UNCHANGED <<groupVars, chanVars, queueVars, poolVars, irq,
                   idx, after, err, tries, mcuVars>>

NamesChannel(m, ch) == "chan" \in DOMAIN m /\ m.chan = ch

\* Somebody still goes by the id of a channel: a file, or a mail.
IdInUse(ch) ==
    \/ \E f \in Files : chan_uid[f] = ch
    \/ \E i \in 1..Len(cmd) : NamesChannel(cmd[i], ch)
    \/ \E i \in 1..Len(status) : NamesChannel(status[i], ch)
    \/ irq # NoIrq /\ NamesChannel(irq.mail, ch)

McuCommand ==
    /\ McuHandles
    /\ PromptReuse \/ \A ch \in alive' \ alive : ~IdInUse(ch)
    /\ UNCHANGED userVars

-----------------------------------------------------------------------------
Irq == IrqRead \/ IrqDeliver \/ IrqOrphan

\* Steps of a thread inside a destroy or a close.
DestroyStep(t) ==
    \/ DestroyQueues(t)
    \/ DestroyMutex(t)
    \/ DestroyRefused(t)
    \/ DestroyQuiet(t)
    \/ DestroySend(t)
    \/ DestroyAnswered(t)
    \/ DestroyUnlock(t)
    \/ DestroyRelock(t)

ReleaseStep(t) ==
    \/ ReleaseTry(t)
    \/ ReleaseFree(t)
    \/ ReleasePurge(t)
    \/ ReleaseUnbind(t)

UsersTypeOK ==
    /\ uid \in [Files -> -1..MaxUsers-1]
    /\ slot \in [0..MaxUsers-1 -> Files \cup {NoFile}]
    /\ chan_uid \in [Files -> Chans \cup {BAD_CHAN}]
    /\ checkpoint \in [Files -> {"NO_CHECKPOINT", "ALLOCATE_BUFFERS",
                                 "SEND_INTERMEDIATE_BUFFERS", "SEND_REFERENCE_BUFFERS"}]
    /\ locks \in [Files -> [OpIds -> Threads \cup {NoThread}]]
    /\ \A f \in Files : DOMAIN queues[f] = QueueIds
    /\ locked \in [Files -> [QueueIds -> BOOLEAN]]
    /\ int_buffers \in [Files -> BOOLEAN]
    /\ rec_buffers \in [Files -> BOOLEAN]
    /\ irq # NoIrq => irq.user \in Files \cup {NoFile}
    /\ idx \in [Threads -> 1..Len(OpOrder)]
    /\ after \in [Threads -> {"ioctl", "create", "release"}]
    /\ tries \in [Threads -> 0..MaxTries]
    /\ signals \in 0..MaxSignals

-----------------------------------------------------------------------------
\* Properties of every device.

DestroyQueued(c) ==
    \E i \in 1..Len(cmd) :
        cmd[i].uid \in {"DESTROY_CHANNEL", "QUIET_DESTROY_CHANNEL"} /\ cmd[i].chan = c

\* A channel that lives in the firmware has somebody who will destroy it:
\* a file that holds its id, a CREATE answer that still reaches a file, or
\* a destroy on its way.  Only al5_codec_release may give a channel up.
\* (try_to_create_channel, al5_user_destroy_channel, al5_codec_release)
NoOrphanChannel ==
    \A c \in alive :
        \/ creator[c] = NoFile
        \/ \E f \in Files :
              \/ chan_uid[f] = c
              \/ \E i \in 1..Len(queues[f]["CREATE"]) : queues[f]["CREATE"][i].chan = c
        \/ \E i \in 1..Len(status) : status[i].uid = "CREATE_CHANNEL" /\ status[i].chan = c
        \/ irq # NoIrq /\ irq.mail.uid = "CREATE_CHANNEL" /\ irq.mail.chan = c
        \/ DestroyQueued(c)

\* A frame or slice that a call accepted reaches the firmware while the channel
\* lives: no destroy of the channel, in any thread, is in front of it.  A
\* destroy that was interrupted keeps the id, so this is about the time
\* before any interruption.  (the mutexes of al5_user_destroy_channel)
FramesReachChannel ==
    signals = 0 =>
        \A i \in 1..Len(cmd) :
            cmd[i].uid \in {"ENCODE_ONE_FRM", "DECODE_ONE_FRM", "DECODE_ONE_SLICE"} =>
                /\ cmd[i].chan \in alive
                /\ \A j \in 1..i-1 :
                      cmd[j].uid \in {"DESTROY_CHANNEL", "QUIET_DESTROY_CHANNEL"}
                      => cmd[j].chan # cmd[i].chan

\* The mutexes a thread holds at each point of each call: in particular none
\* when it returns, on any error path, and all of them from the send to the
\* unlock of al5_user_destroy_channel.
Holds(t) == {op \in OpIds : locks[FileOf[t]][op] = t}

MutexDiscipline ==
    \A t \in Threads :
        Holds(t) =
            CASE pc[t] \in {"create_send", "create_wait", "create_allocate",
                            "create_int", "create_ref"}             -> {"CREATE"}
              [] pc[t] = Waiting("STATUS")                          -> {"STATUS"}
              [] pc[t] = Waiting("SC")                              -> {"SC"}
              [] pc[t] = Waiting("REC")                             -> {"REC"}
              [] pc[t] = "destroy_mutexes"           -> {OpOrder[i] : i \in 1..idx[t]-1}
              [] pc[t] \in {"destroy_send", "destroy_wait", "destroy_unlock"} -> OpIds
              [] OTHER                                              -> {}

\* Once no thread is destroying or closing, waits on an empty queue block
\* again: every way out of al5_user_destroy_channel relocks the queues.
QueuesRelocked ==
    \A f \in Files :
        (\A t \in Threads : FileOf[t] = f =>
            pc[t] \notin {"destroy_mutexes", "destroy_send", "destroy_wait",
                          "destroy_unlock", "destroy_relock", "release_unbind"})
        /\ uid[f] # -1
        => \A q \in QueueIds : locked[f][q]

\* What a file finds in its queues was meant for it: answers to its own
\* creates and feedback of channels it created, although user ids and
\* channel ids are handed out again.  (retrieve_user)
DeliveredToOwner ==
    \A f \in Files : \A q \in QueueIds :
        \A i \in 1..Len(queues[f][q]) : queues[f][q][i].by \in {f, NoFile}

\* No two files hold the same channel, although ids are handed out again.
\* (check_and_affect_chan_uid, al5_user_destroy_channel)
ChannelsDistinct ==
    \A f, g \in Files : f # g /\ al5_chan_is_created(f) => chan_uid[f] # chan_uid[g]

\* A destroy comes back, although the thread that waits for a status holds a
\* mutex it needs and nobody will send that status: unlocking the queues
\* wakes the waiter.  (user_queues_unlock in al5_user_destroy_channel)
DestroyReturns ==
    \A t \in Threads : pc[t] = "destroy_queues" ~> pc[t] = "idle"

=============================================================================
