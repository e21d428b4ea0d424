------------------------------ MODULE Encoder -------------------------------
(***************************************************************************)
(* The encoder device: the calls of enc_user.c, as al5e_codec_ioctl        *)
(* reaches them, on top of the users of the device and the MCU.            *)
(***************************************************************************)
EXTENDS Users

CONSTANTS
    AllocFails       \* al5_bufpool_allocate may fail

ASSUME EncoderAssumption == AllocFails \in BOOLEAN

vars == <<userVars, mcuVars>>

channel_is_fully_created(f) == al5_chan_is_created(f) /\ ~al5_have_checkpoint(f)

-----------------------------------------------------------------------------
\* al5e_user_create_channel.

\* Where a create goes on: a checkpoint resumes what an earlier call left.
ResumeAt(f) ==
    CASE checkpoint[f] = "NO_CHECKPOINT"             -> "create_send"
      [] checkpoint[f] = "ALLOCATE_BUFFERS"          -> "create_allocate"
      [] checkpoint[f] = "SEND_INTERMEDIATE_BUFFERS" -> "create_int"
      [] checkpoint[f] = "SEND_REFERENCE_BUFFERS"    -> "create_ref"

SetCheckpoint(f, c) == checkpoint' = [checkpoint EXCEPT ![f] = c]

CreateEnter(t) ==
    /\ MayCall(t, "CREATE")
    /\ IsFree(t, "CREATE")
    /\ ~channel_is_fully_created(FileOf[t])
    /\ Lock(t, "CREATE")
    /\ Goto(t, ResumeAt(FileOf[t]))
    /\ UNCHANGED <<groupVars, chanVars, queueVars, poolVars, irq,
                   idx, after, err, tries, signals, mcuVars>>

CreateRefused(t) ==
    /\ pc[t] \in {"create_send", "create_int", "create_ref"}
    /\ CmdFull
    /\ CreateReturn(t)
    /\ UNCHANGED <<groupVars, chanVars, queueVars, poolVars, irq,
                   idx, after, err, tries, signals, mcuVars>>

check_and_affect_chan_uid(f, ch) ==
    ch # BAD_CHAN /\ chan_uid' = [chan_uid EXCEPT ![f] = ch]

\* try_to_create_channel: the answer, which names no channel when the MCU refuses.
CreateAnswered(t) ==
    LET f == FileOf[t]
        m == Head(queues[f]["CREATE"])
    IN  /\ pc[t] = "create_wait"
        /\ queues[f]["CREATE"] # <<>>
        /\ PopAny(f, "CREATE")
        /\ \/ /\ m.chan = BAD_CHAN
              /\ CreateReturn(t)
              /\ UNCHANGED chanVars
           \/ /\ check_and_affect_chan_uid(f, m.chan)
              /\ SetCheckpoint(f, "ALLOCATE_BUFFERS")
              /\ Goto(t, "create_allocate")
              /\ UNCHANGED locks
        /\ UNCHANGED <<groupVars, locked, poolVars, irq, idx, after, err, tries, signals, mcuVars>>

CreateAllocate(t) ==
    LET f == FileOf[t]
    IN  /\ pc[t] = "create_allocate"
        /\ int_buffers' = [int_buffers EXCEPT ![f] = TRUE]
        /\ rec_buffers' = [rec_buffers EXCEPT ![f] = TRUE]
        /\ SetCheckpoint(f, "SEND_INTERMEDIATE_BUFFERS")
        /\ Goto(t, "create_int")
        /\ UNCHANGED <<groupVars, chan_uid, locks, queueVars, irq,
                       idx, after, err, tries, signals, mcuVars>>

\* Either pool may fail; the first is kept.  al5_user_destroy_channel is
\* called without the mutex and its answer is dropped.
CreateNoMemory(t) ==
    LET f == FileOf[t]
    IN  /\ pc[t] = "create_allocate"
        /\ AllocFails
        /\ \E got \in BOOLEAN : int_buffers' = [int_buffers EXCEPT ![f] = got]
        /\ SetCheckpoint(f, "NO_CHECKPOINT")
        /\ Unlock(t, "CREATE")
        /\ after' = [after EXCEPT ![t] = "create"]
        /\ Goto(t, "destroy_enter")
        /\ UNCHANGED <<groupVars, chan_uid, queueVars, rec_buffers, irq,
                       idx, err, tries, signals, mcuVars>>

CreateDestroys(t) ==
    /\ pc[t] = "destroy_enter"
    /\ IF al5_chan_is_created(FileOf[t])
       THEN Goto(t, "destroy_queues") /\ UNCHANGED after
       ELSE Goto(t, "idle") /\ after' = [after EXCEPT ![t] = "ioctl"]
    /\ UNCHANGED <<groupVars, chanVars, locks, queueVars, poolVars, irq,
                   idx, err, tries, signals, mcuVars>>

\* The buffers in the mail are those of the user's pool.
create_mail_from_bufpool(msg_uid, ch) == ChanMsg(msg_uid, ch)

\* mutant: the checkpoint does not move on.
CreateInt_SameCheckpoint(t) ==
    /\ pc[t] = "create_int"
    /\ ~CmdFull
    /\ al5_mcu_send(create_mail_from_bufpool("PUSH_BUFFER_INTERMEDIATE", chan_uid[FileOf[t]]))
    /\ Goto(t, "create_ref")
    /\ UNCHANGED <<groupVars, chanVars, locks, queueVars, poolVars, irq,
                   idx, after, err, tries, signals, status, alive, pushed, frames, creator>>

\* send_intermediate_buffers
CreateInt(t) ==
    /\ pc[t] = "create_int"
    /\ ~CmdFull
    /\ al5_mcu_send(create_mail_from_bufpool("PUSH_BUFFER_INTERMEDIATE", chan_uid[FileOf[t]]))
    /\ SetCheckpoint(FileOf[t], "SEND_REFERENCE_BUFFERS")
    /\ Goto(t, "create_ref")
    /\ UNCHANGED <<groupVars, chan_uid, locks, queueVars, poolVars, irq,
                   idx, after, err, tries, signals, status, alive, pushed, frames, creator>>

\* send_reference_buffers
CreateRef(t) ==
    /\ pc[t] = "create_ref"
    /\ ~CmdFull
    /\ al5_mcu_send(create_mail_from_bufpool("PUSH_BUFFER_REFERENCE", chan_uid[FileOf[t]]))
    /\ SetCheckpoint(FileOf[t], "NO_CHECKPOINT")
    /\ CreateReturn(t)
    /\ UNCHANGED <<groupVars, chan_uid, queueVars, poolVars, irq,
                   idx, after, err, tries, signals, status, alive, pushed, frames, creator>>

-----------------------------------------------------------------------------
\* The calls on a channel.

al5e_create_encode_one_frame_msg(ch) == ChanMsg("ENCODE_ONE_FRM", ch)

al5e_user_encode_one_frame(t) ==
    /\ MayCall(t, "ENCODE")
    /\ Outstanding(FileOf[t]) < MaxOutstanding
    /\ SendOnChannel(t, "XCODE", al5e_create_encode_one_frame_msg(chan_uid[FileOf[t]]))
    /\ UNCHANGED <<userVars, status, alive, pushed, frames, creator>>

\* al5e_user_wait_for_status
WaitStatusEnter(t) ==
    /\ MayCall(t, "STATUS")
    /\ al5_chan_is_created(FileOf[t])
    /\ WaitEnter(t, "STATUS")

WaitStatusReturn(t) == WaitReturn(t, "STATUS")

\* al5e_user_put_stream_buffer holds no mutex: chan_uid is read twice.
PutStreamEnter(t) ==
    /\ MayCall(t, "PUT")
    /\ al5_chan_is_created(FileOf[t])
    /\ Goto(t, "put_send")
    /\ UNCHANGED <<groupVars, chanVars, locks, queueVars, poolVars, irq,
                   idx, after, err, tries, signals, mcuVars>>

PutStreamSend(t) ==
    /\ pc[t] = "put_send"
    /\ IF CmdFull THEN UNCHANGED cmd
       ELSE al5_mcu_send(ChanMsg("PUT_STREAM_BUFFER", chan_uid[FileOf[t]]))
    /\ Goto(t, "idle")
    /\ UNCHANGED <<groupVars, chanVars, locks, queueVars, poolVars, irq,
                   idx, after, err, tries, signals, status, alive, pushed, frames, creator>>

\* al5e_user_get_rec
GetRecEnter(t) ==
    /\ MayCall(t, "REC")
    /\ Outstanding(FileOf[t]) < MaxOutstanding
    /\ SendOnChannel(t, "REC", ChanMsg("GET_RECONSTRUCTED_PICTURE", chan_uid[FileOf[t]]))
    /\ Lock(t, "REC")
    /\ Goto(t, Waiting("REC"))
    /\ UNCHANGED <<groupVars, chanVars, queueVars, poolVars, irq,
                   idx, after, err, tries, signals, status, alive, pushed, frames, creator>>

GetRecReturn(t) == WaitReturn(t, "REC")

\* al5e_user_release_rec, for a picture of this channel.
al5e_user_release_rec(t) ==
    /\ MayCall(t, "REC")
    /\ rec_buffers[FileOf[t]]
    /\ SendOnChannel(t, "REC", ChanMsg("RELEASE_RECONSTRUCTED_PICTURE", chan_uid[FileOf[t]]))
    /\ UNCHANGED <<userVars, status, alive, pushed, frames, creator>>

-----------------------------------------------------------------------------
Init == UsersInit /\ McuInit

\* What a thread inside a call does next, of its own accord.
InCall(t) ==
    \/ CreateRefused(t)
    \/ CreateSend(t)
    \/ CreateAnswered(t)
    \/ CreateWoken(t)
    \/ CreateAllocate(t)
    \/ CreateNoMemory(t)
    \/ CreateDestroys(t)
    \/ CreateInt(t)
    \/ CreateRef(t)
    \/ WaitStatusReturn(t)
    \/ PutStreamSend(t)
    \/ GetRecReturn(t)
    \/ DestroyStep(t)
    \/ ReleaseStep(t)

\* al5e_codec_ioctl, and the close of the file.
Call(t) ==
    \/ CreateEnter(t)
    \/ DestroyEnter(t)
    \/ al5e_user_encode_one_frame(t)
    \/ WaitStatusEnter(t)
    \/ PutStreamEnter(t)
    \/ GetRecEnter(t)
    \/ al5e_user_release_rec(t)
    \/ ReleaseEnter(t)

Interrupted(t) ==
    \/ CreateGivesUp(t)
    \/ DestroyKilled(t)
    \/ DestroyInterrupted(t)
    \/ \E op \in {"STATUS", "REC"} : WaitInterrupted(t, op)

McuFeedback == McuReports("ENCODE_ONE_FRM") /\ UNCHANGED userVars

Next ==
    \/ \E f \in Files : al5_codec_open(f)
    \/ \E t \in Threads : Call(t) \/ InCall(t) \/ Interrupted(t)
    \/ Irq
    \/ McuCommand
    \/ McuFeedback

Spec == Init /\ [][Next]_vars

\* A thread inside a call runs on when it can, and a mutex it waits for is
\* handed over in the end although other threads take it again and again:
\* the kernel queues the waiters of a mutex.  The interrupt thread and the
\* firmware do their work.  No client has to call anything.
Fairness ==
    /\ \A t \in Threads : WF_vars(InCall(t)) /\ SF_vars(DestroyMutex(t))
    /\ WF_vars(Irq)
    /\ WF_vars(McuCommand)
    /\ WF_vars(McuFeedback)

FairSpec == Spec /\ Fairness

-----------------------------------------------------------------------------
\* The boxes hold no more than they can, users and mutexes have their types.
TypeOK == McuTypeOK /\ UsersTypeOK

\* The firmware never keeps buffers that the driver has freed, but for the
\* time a quiet destroy is on its way: whoever holds the channel still has
\* both pools.  (al5_user_destroy_channel, al5_codec_release)
BuffersOutliveChannel ==
    \A c \in alive :
        pushed[c] # <<>> =>
            \/ creator[c] = NoFile
            \/ DestroyQueued(c)
            \/ \E f \in Files : chan_uid[f] = c /\ int_buffers[f] /\ rec_buffers[f]

\* However often a create is refused by a full mailbox and called again, the
\* channel gets its intermediate buffers once, then its reference buffers
\* once.  (the checkpoints of al5e_user_create_channel)
PushOrder ==
    \A c \in Chans :
        pushed[c] \in {<<>>, <<"PUSH_BUFFER_INTERMEDIATE">>,
                       <<"PUSH_BUFFER_INTERMEDIATE", "PUSH_BUFFER_REFERENCE">>}

\* Buffers are allocated only for a channel: no path leaves them to a user
\* without one, where the next create would allocate over them.
PoolsBelongToChannel ==
    \A f \in Files : int_buffers[f] \/ rec_buffers[f] => al5_chan_is_created(f)

\* A destroy that waits frees the buffers only once the firmware has let go of
\* this file's channel; its id may already be another's.
\* (al5_user_destroy_channel, quiet = 0)
FreedAfterAnswer ==
    [][\A t \in Threads :
          pc[t] = "destroy_wait" /\ pc'[t] = "destroy_unlock" /\ chan_uid'[FileOf[t]] = BAD_CHAN
          => chan_uid[FileOf[t]] \notin {ch \in alive : creator[ch] = FileOf[t]}]_vars

\* Whoever waits for a status while the firmware works on a frame of its
\* channel comes back.  (al5e_user_wait_for_status)
StatusReaches ==
    \A t \in Threads :
        pc[t] = Waiting("STATUS") /\ al5_chan_is_created(FileOf[t])
            /\ frames[chan_uid[FileOf[t]]] > 0
        ~> pc[t] = "idle"

\* What destroy_orphan_channel destroys, for a mail whose channel no user holds,
\* belongs to nobody when the firmware gets to it, provided that the firmware does
\* not hand an id out while a mail goes by it.  (handle_mail, al_group.c)
OrphanBelongsToNobody ==
    cmd # <<>> /\ "orphan" \in DOMAIN Head(cmd) /\ Head(cmd).chan \in alive
        => \A f \in Files : chan_uid[f] # Head(cmd).chan

-----------------------------------------------------------------------------
\* What messages of the driver say, and the code does not keep.

\* "Cannot encode frame until channel is configured" (enc_user.c:230): a
\* frame reaches only a channel that has its buffers.
EncodeAfterConfigured ==
    \A ch \in alive :
        frames[ch] > 0 =>
            pushed[ch] = <<"PUSH_BUFFER_INTERMEDIATE", "PUSH_BUFFER_REFERENCE">>

\* "Failed internal buffers allocation, channel wasn't created"
\* (enc_user.c:181): the create that says so leaves no channel.
FailedAllocationLeavesNoChannel ==
    [][\A t \in Threads :
          after[t] = "create" /\ pc'[t] = "idle" => chan_uid'[FileOf[t]] = BAD_CHAN]_vars

=============================================================================
