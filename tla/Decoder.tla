------------------------------ MODULE Decoder -------------------------------
(***************************************************************************)
(* The decoder device: the calls of dec_user.c, as al5d_ioctl reaches      *)
(* them, on top of the users of the device and the MCU.  The decoder has   *)
(* neither checkpoints nor buffer pools; it searches start codes, which    *)
(* needs no channel and is answered by user id.                            *)
(***************************************************************************)
EXTENDS Users

vars == <<userVars, mcuVars>>

-----------------------------------------------------------------------------
\* al5d_user_create_channel.

CreateEnter(t) ==
    /\ MayCall(t, "CREATE")
    /\ IsFree(t, "CREATE")
    /\ ~al5_chan_is_created(FileOf[t])
    /\ Lock(t, "CREATE")
    /\ Goto(t, "create_send")
    /\ UNCHANGED <<groupVars, chanVars, queueVars, poolVars, irq,
                   idx, after, err, tries, signals, mcuVars>>

CreateRefused(t) ==
    /\ pc[t] = "create_send"
    /\ CmdFull
    /\ CreateReturn(t)
    /\ UNCHANGED <<groupVars, chanVars, queueVars, poolVars, irq,
                   idx, after, err, tries, signals, mcuVars>>

\* init_chan: a refusal names BAD_CHAN, which is what the user has anyway.
CreateAnswered(t) ==
    /\ pc[t] = "create_wait"
    /\ queues[FileOf[t]]["CREATE"] # <<>>
    /\ PopAny(FileOf[t], "CREATE")
    /\ chan_uid' = [chan_uid EXCEPT ![FileOf[t]] = Head(queues[FileOf[t]]["CREATE"]).chan]
    /\ CreateReturn(t)
    /\ UNCHANGED <<groupVars, checkpoint, locked, poolVars, irq,
                   idx, after, err, tries, signals, mcuVars>>

al5d_user_create_channel(t) ==
    \/ CreateRefused(t)
    \/ CreateSend(t)
    \/ CreateAnswered(t)
    \/ CreateWoken(t)

-----------------------------------------------------------------------------
\* The other calls.

al5d_create_decode_one_slice_msg(ch) == ChanMsg("DECODE_ONE_SLICE", ch)
al5d_create_decode_one_frame_msg(ch) == ChanMsg("DECODE_ONE_FRM", ch)

al5d_user_decode_one_slice(t) ==
    /\ MayCall(t, "SLICE")
    /\ SendOnChannel(t, "XCODE", al5d_create_decode_one_slice_msg(chan_uid[FileOf[t]]))
    /\ UNCHANGED <<userVars, status, alive, pushed, frames, creator>>

al5d_user_decode_one_frame(t) ==
    /\ MayCall(t, "DECODE")
    /\ Outstanding(FileOf[t]) < MaxOutstanding
    /\ SendOnChannel(t, "XCODE", al5d_create_decode_one_frame_msg(chan_uid[FileOf[t]]))
    /\ UNCHANGED <<userVars, status, alive, pushed, frames, creator>>

\* No mutex and no channel.
al5d_user_search_start_code(t) ==
    /\ MayCall(t, "SEARCH")
    /\ Outstanding(FileOf[t]) < MaxOutstanding
    /\ ~CmdFull
    /\ al5_mcu_send(SearchMsg(FileOf[t], uid[FileOf[t]]))
    /\ UNCHANGED <<userVars, status, alive, pushed, frames, creator>>

\* al5d_user_wait_for_status
WaitStatusEnter(t) ==
    /\ MayCall(t, "STATUS")
    /\ al5_chan_is_created(FileOf[t])
    /\ WaitEnter(t, "STATUS")

WaitStatusReturn(t) == WaitReturn(t, "STATUS")

\* al5d_user_wait_for_start_code, with or without a channel.
WaitStartCodeEnter(t) == MayCall(t, "SC") /\ WaitEnter(t, "SC")

WaitStartCodeReturn(t) == WaitReturn(t, "SC")

-----------------------------------------------------------------------------
Init == UsersInit /\ McuInit

\* What a thread inside a call does next, of its own accord.
InCall(t) ==
    \/ al5d_user_create_channel(t)
    \/ WaitStatusReturn(t)
    \/ WaitStartCodeReturn(t)
    \/ DestroyStep(t)
    \/ ReleaseStep(t)

\* al5d_ioctl, and the close of the file.
Call(t) ==
    \/ CreateEnter(t)
    \/ DestroyEnter(t)
    \/ al5d_user_decode_one_slice(t)
    \/ al5d_user_decode_one_frame(t)
    \/ al5d_user_search_start_code(t)
    \/ WaitStatusEnter(t)
    \/ WaitStartCodeEnter(t)
    \/ ReleaseEnter(t)

Interrupted(t) ==
    \/ CreateGivesUp(t)
    \/ DestroyKilled(t)
    \/ DestroyInterrupted(t)
    \/ \E op \in {"STATUS", "SC"} : WaitInterrupted(t, op)

McuFeedback == McuReports("DECODE_ONE_FRM") /\ UNCHANGED userVars

Next ==
    \/ \E f \in Files : al5_codec_open(f)
    \/ \E t \in Threads : Call(t) \/ InCall(t) \/ Interrupted(t)
    \/ Irq
    \/ McuCommand
    \/ McuFeedback

Spec == Init /\ [][Next]_vars

\* As for the encoder: calls run on, mutexes are handed over in the end, the
\* interrupt thread and the firmware do their work, clients need not call.
Fairness ==
    /\ \A t \in Threads : WF_vars(InCall(t)) /\ SF_vars(DestroyMutex(t))
    /\ WF_vars(Irq)
    /\ WF_vars(McuCommand)
    /\ WF_vars(McuFeedback)

FairSpec == Spec /\ Fairness

-----------------------------------------------------------------------------
\* Until a wait is cut short, no channel is without somebody who will destroy
\* it, whatever is refused and whenever the file closes, if one thread of the
\* file creates and destroys.  (With two, the answer to a create that meets the
\* queues a destroy has unlocked may be thrown away by the close.)
\* (al5d_user_create_channel, al5_user_destroy_channel, al5_codec_release)
OwnedUntilInterrupted == signals = 0 => NoOrphanChannel

\* A search of the file is with the firmware or its answer on the way.
SearchUnderWay(f) ==
    \/ \E i \in 1..Len(cmd) : cmd[i].uid = "SEARCH_START_CODE" /\ cmd[i].user = uid[f]
    \/ \E i \in 1..Len(status) : status[i].uid = "SEARCH_START_CODE" /\ status[i].user = uid[f]
    \/ irq # NoIrq /\ irq.mail.uid = "SEARCH_START_CODE" /\ irq.user = f

\* Whoever waits for a start code while a search of the file is under way comes
\* back, although a destroy of the channel may wake it first and other calls
\* fill the boxes.  (al5d_user_wait_for_start_code, retrieve_user)
StartCodeReaches ==
    \A t \in Threads :
        pc[t] = Waiting("SC") /\ SearchUnderWay(FileOf[t]) ~> pc[t] = "idle"

=============================================================================
