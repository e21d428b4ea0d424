--------------------------- MODULE DecoderProofs ----------------------------
(***************************************************************************)
(* Proofs about Decoder, for every number of files, threads and channels   *)
(* and every size of the mailboxes.  The steps the decoder shares with the *)
(* encoder are proved about in UsersProofs; here are its own.              *)
(***************************************************************************)
EXTENDS Decoder, OwnerProofs

-----------------------------------------------------------------------------
\* The steps of the decoder alone.

OwnStep(t) ==
    \/ CreateEnter(t) \/ CreateRefused(t) \/ CreateAnswered(t)
    \/ al5d_user_decode_one_slice(t) \/ al5d_user_decode_one_frame(t)
    \/ al5d_user_search_start_code(t)

DecoderStep == \E t \in Threads : OwnStep(t)

\* Every step is one of these or one that the encoder takes as well.
LEMMA NextSteps == Next => SharedStep \/ DecoderStep
<1> SUFFICES ASSUME Next, ~DecoderStep PROVE SharedStep
    OBVIOUS
<1>1. ASSUME NEW t \in Threads, Call(t) PROVE SharedStep
    BY <1>1 DEF Call, DecoderStep, OwnStep, SharedStep, SharedCall, WaitStatusEnter,
       WaitStartCodeEnter, MayCall, WaitCall, WaitOps
<1>2. ASSUME NEW t \in Threads, InCall(t) PROVE SharedStep
    BY <1>2 DEF InCall, al5d_user_create_channel, DecoderStep, OwnStep, SharedStep, SharedCall,
       WaitStatusReturn, WaitStartCodeReturn, WaitOps
<1>3. ASSUME NEW t \in Threads, Interrupted(t) PROVE SharedStep
    BY <1>3 DEF Interrupted, SharedStep, SharedCall, WaitOps
<1>4. McuCommand \/ McuFeedback => SharedStep
    BY DEF McuCommand, McuFeedback, SharedStep, McuStep
<1> QED
    BY <1>1, <1>2, <1>3, <1>4 DEF Next, SharedStep

\* The decoder's own steps keep each part of the invariant.
LEMMA ThreadTypes_Decoder == UsersInv /\ DecoderStep => ThreadTypes'
<1> SUFFICES ASSUME UsersInv, DecoderStep PROVE ThreadTypes'
    OBVIOUS
<1> USE McuAssumption, UsersAssumption DEF UsersInv, ThreadTypes, Labels, groupVars, chanVars,
       queueVars, poolVars, threadVars, mcuVars
<1>1. ASSUME NEW t \in Threads, CreateEnter(t) PROVE ThreadTypes'
    BY <1>1, OpOrderFacts DEF CreateEnter, MayCall, Lock, IsFree, Goto
<1>2. ASSUME NEW t \in Threads, CreateRefused(t) PROVE ThreadTypes'
    BY <1>2, OpOrderFacts DEF CreateRefused, CreateReturn, Unlock, Goto
<1>3. ASSUME NEW t \in Threads, CreateAnswered(t) PROVE ThreadTypes'
    BY <1>3, OpOrderFacts DEF CreateAnswered, PopAny, CreateReturn, Unlock, Goto
<1>4. ASSUME NEW t \in Threads, al5d_user_decode_one_slice(t) PROVE ThreadTypes'
    BY <1>4, OpOrderFacts DEF al5d_user_decode_one_slice, SendOnChannel, al5_mcu_send,
       userVars
<1>5. ASSUME NEW t \in Threads, al5d_user_decode_one_frame(t) PROVE ThreadTypes'
    BY <1>5, OpOrderFacts DEF al5d_user_decode_one_frame, SendOnChannel, al5_mcu_send,
       userVars
<1>6. ASSUME NEW t \in Threads, al5d_user_search_start_code(t) PROVE ThreadTypes'
    BY <1>6, OpOrderFacts DEF al5d_user_search_start_code, al5_mcu_send, userVars
<1> QED
    BY <1>1, <1>2, <1>3, <1>4, <1>5, <1>6 DEF DecoderStep, OwnStep

\* A call starts on an open file.
LEMMA CallsOK_Decoder == UsersInv /\ DecoderStep => CallsOK'
<1> SUFFICES ASSUME UsersInv, DecoderStep PROVE CallsOK'
    OBVIOUS
<1> USE McuAssumption, UsersAssumption DEF UsersInv, ThreadTypes, CallsOK, Labels, Destroying,
       Releasing, groupVars, chanVars, queueVars, poolVars, threadVars, mcuVars
<1>1. ASSUME NEW t \in Threads, CreateEnter(t) PROVE CallsOK'
    BY <1>1 DEF CreateEnter, MayCall, IsOpen, Goto
<1>2. ASSUME NEW t \in Threads, CreateRefused(t) PROVE CallsOK'
    BY <1>2 DEF CreateRefused, CreateReturn, Unlock, Goto
<1>3. ASSUME NEW t \in Threads, CreateAnswered(t) PROVE CallsOK'
    BY <1>3 DEF CreateAnswered, PopAny, CreateReturn, Unlock, Goto
<1>4. ASSUME NEW t \in Threads, al5d_user_decode_one_slice(t) PROVE CallsOK'
    BY <1>4 DEF al5d_user_decode_one_slice, SendOnChannel, al5_mcu_send, userVars
<1>5. ASSUME NEW t \in Threads, al5d_user_decode_one_frame(t) PROVE CallsOK'
    BY <1>5 DEF al5d_user_decode_one_frame, SendOnChannel, al5_mcu_send, userVars
<1>6. ASSUME NEW t \in Threads, al5d_user_search_start_code(t) PROVE CallsOK'
    BY <1>6 DEF al5d_user_search_start_code, al5_mcu_send, userVars
<1> QED
    BY <1>1, <1>2, <1>3, <1>4, <1>5, <1>6 DEF DecoderStep, OwnStep

\* The flags stay Boolean.
LEMMA FlagTypes_Decoder == UsersInv /\ DecoderStep => FlagTypes'
<1> SUFFICES ASSUME UsersInv, DecoderStep PROVE FlagTypes'
    OBVIOUS
<1> USE McuAssumption, UsersAssumption DEF UsersInv, FlagTypes, groupVars, chanVars,
       queueVars, poolVars, threadVars, mcuVars
<1>1. ASSUME NEW t \in Threads, CreateEnter(t) PROVE FlagTypes'
    BY <1>1 DEF CreateEnter, MayCall, Lock, IsFree, Goto
<1>2. ASSUME NEW t \in Threads, CreateRefused(t) PROVE FlagTypes'
    BY <1>2 DEF CreateRefused, CreateReturn, Unlock, Goto
<1>3. ASSUME NEW t \in Threads, CreateAnswered(t) PROVE FlagTypes'
    BY <1>3 DEF CreateAnswered, PopAny, CreateReturn, Unlock, Goto
<1>4. ASSUME NEW t \in Threads, al5d_user_decode_one_slice(t) PROVE FlagTypes'
    BY <1>4 DEF al5d_user_decode_one_slice, SendOnChannel, al5_mcu_send, userVars
<1>5. ASSUME NEW t \in Threads, al5d_user_decode_one_frame(t) PROVE FlagTypes'
    BY <1>5 DEF al5d_user_decode_one_frame, SendOnChannel, al5_mcu_send, userVars
<1>6. ASSUME NEW t \in Threads, al5d_user_search_start_code(t) PROVE FlagTypes'
    BY <1>6 DEF al5d_user_search_start_code, al5_mcu_send, userVars
<1> QED
    BY <1>1, <1>2, <1>3, <1>4, <1>5, <1>6 DEF DecoderStep, OwnStep

\* None of them leaves a queue unlocked.
LEMMA QueuesOK_Decoder == UsersInv /\ DecoderStep => QueuesOK'
<1> SUFFICES ASSUME UsersInv, DecoderStep PROVE QueuesOK'
    OBVIOUS
<1> USE McuAssumption, UsersAssumption DEF UsersInv, FlagTypes, UserTypes, ThreadTypes,
       QueuesOK, Destroying, Releasing, groupVars, chanVars, queueVars, poolVars, threadVars,
       mcuVars
<1>1. ASSUME NEW t \in Threads, CreateEnter(t) PROVE QueuesOK'
    <2>1. pc[t] = "idle"
        BY <1>1 DEF CreateEnter, MayCall
    <2> QED
        BY <1>1, <2>1, KeepQueues DEF CreateEnter, Goto, Unlocking
<1>2. ASSUME NEW t \in Threads, CreateRefused(t) PROVE QueuesOK'
    BY <1>2, KeepQueues DEF CreateRefused, CreateReturn, Goto, Unlocking
<1>3. ASSUME NEW t \in Threads, CreateAnswered(t) PROVE QueuesOK'
    BY <1>3, KeepQueues DEF CreateAnswered, CreateReturn, Goto, Unlocking
<1>4. ASSUME NEW t \in Threads, al5d_user_decode_one_slice(t) PROVE QueuesOK'
    BY <1>4 DEF al5d_user_decode_one_slice, SendOnChannel, al5_mcu_send, userVars
<1>5. ASSUME NEW t \in Threads, al5d_user_decode_one_frame(t) PROVE QueuesOK'
    BY <1>5 DEF al5d_user_decode_one_frame, SendOnChannel, al5_mcu_send, userVars
<1>6. ASSUME NEW t \in Threads, al5d_user_search_start_code(t) PROVE QueuesOK'
    BY <1>6 DEF al5d_user_search_start_code, al5_mcu_send, userVars
<1> QED
    BY <1>1, <1>2, <1>3, <1>4, <1>5, <1>6 DEF DecoderStep, OwnStep

\* The mutex of a create is held until it returns.
LEMMA LocksOK_Decoder == UsersInv /\ DecoderStep => LocksOK'
<1> SUFFICES ASSUME UsersInv, DecoderStep PROVE LocksOK'
    OBVIOUS
<1> USE McuAssumption, UsersAssumption DEF UsersInv, ThreadTypes, CallsOK, LocksOK, Needs,
       Destroying, Releasing, groupVars, chanVars, queueVars, poolVars, threadVars, mcuVars
<1>1. ASSUME NEW t \in Threads, CreateEnter(t) PROVE LocksOK'
    <2>1. "CREATE" \in OpIds /\ IsFree(t, "CREATE") /\ Lock(t, "CREATE") /\ OthersStay(t)
        BY <1>1, OpOrderFacts DEF CreateEnter, MayCall, Goto, OthersStay
    <2>2. Needs(t)' = Needs(t) \cup {"CREATE"}
        BY <1>1 DEF CreateEnter, MayCall, Goto
    <2> HIDE DEF Needs, UsersInv, LocksOK
    <2> QED
        BY <2>1, <2>2, TakeMutex DEF IsFree, Lock
<1>2. ASSUME NEW t \in Threads, CreateRefused(t) PROVE LocksOK'
    <2>1. "CREATE" \in OpIds /\ Unlock(t, "CREATE") /\ OthersStay(t)
        BY <1>2, OpOrderFacts DEF CreateRefused, CreateReturn, Goto, OthersStay
    <2>2. Needs(t) = {"CREATE"} /\ Needs(t)' = {}
        BY <1>2 DEF CreateRefused, CreateReturn, Goto
    <2> HIDE DEF Needs, UsersInv, LocksOK
    <2> QED
        BY <2>1, <2>2, GiveMutex DEF Unlock
<1>3. ASSUME NEW t \in Threads, CreateAnswered(t) PROVE LocksOK'
    <2>1. "CREATE" \in OpIds /\ Unlock(t, "CREATE") /\ OthersStay(t)
        BY <1>3, OpOrderFacts DEF CreateAnswered, CreateReturn, Goto, OthersStay
    <2>2. Needs(t) = {"CREATE"} /\ Needs(t)' = {}
        BY <1>3 DEF CreateAnswered, CreateReturn, Goto
    <2> HIDE DEF Needs, UsersInv, LocksOK
    <2> QED
        BY <2>1, <2>2, GiveMutex DEF Unlock
<1>4. ASSUME NEW t \in Threads, al5d_user_decode_one_slice(t) PROVE LocksOK'
    BY <1>4 DEF al5d_user_decode_one_slice, SendOnChannel, al5_mcu_send, userVars
<1>5. ASSUME NEW t \in Threads, al5d_user_decode_one_frame(t) PROVE LocksOK'
    BY <1>5 DEF al5d_user_decode_one_frame, SendOnChannel, al5_mcu_send, userVars
<1>6. ASSUME NEW t \in Threads, al5d_user_search_start_code(t) PROVE LocksOK'
    BY <1>6 DEF al5d_user_search_start_code, al5_mcu_send, userVars
<1> QED
    BY <1>1, <1>2, <1>3, <1>4, <1>5, <1>6 DEF DecoderStep, OwnStep

\* The users keep their types, and each queue only gets mails of its kind.
LEMMA UserTypes_Decoder == UsersInv /\ DecoderStep => UserTypes'
<1> SUFFICES ASSUME UsersInv, DecoderStep PROVE UserTypes'
    OBVIOUS
<1> USE McuAssumption, UsersAssumption DEF UsersInv, UserTypes, ChanIds, groupVars, chanVars,
       queueVars, poolVars, threadVars, mcuVars
<1>1. ASSUME NEW t \in Threads, CreateEnter(t) PROVE UserTypes'
    BY <1>1 DEF CreateEnter, MayCall, Lock, IsFree, Goto
<1>2. ASSUME NEW t \in Threads, CreateRefused(t) PROVE UserTypes'
    BY <1>2 DEF CreateRefused, CreateReturn, Unlock, Goto
<1>3. ASSUME NEW t \in Threads, CreateAnswered(t) PROVE UserTypes'
    <2>1. FileOf[t] \in Files /\ "CREATE" \in QueueIds
        BY DEF QueueIds
    <2>2. PopAny(FileOf[t], "CREATE")
        BY <1>3 DEF CreateAnswered
    <2>3. /\ queues' \in [Files -> [QueueIds -> Seq(Answers)]]
          /\ \A g \in Files : \A r \in QueueIds : queues'[g][r] \in Seq(MailsOf(r))
        BY <2>1, <2>2, PopTypes
    <2>4. Head(queues[FileOf[t]]["CREATE"]).chan \in ChanIds
        BY <1>3, <2>1, CreateQueue DEF CreateAnswered
    <2>5. chan_uid' \in [Files -> ChanIds]
        BY <1>3, <2>1, <2>4 DEF CreateAnswered
    <2> QED
        BY <1>3, <2>3, <2>5 DEF CreateAnswered
<1>4. ASSUME NEW t \in Threads, al5d_user_decode_one_slice(t) PROVE UserTypes'
    BY <1>4 DEF al5d_user_decode_one_slice, SendOnChannel, al5_mcu_send, userVars
<1>5. ASSUME NEW t \in Threads, al5d_user_decode_one_frame(t) PROVE UserTypes'
    BY <1>5 DEF al5d_user_decode_one_frame, SendOnChannel, al5_mcu_send, userVars
<1>6. ASSUME NEW t \in Threads, al5d_user_search_start_code(t) PROVE UserTypes'
    BY <1>6 DEF al5d_user_search_start_code, al5_mcu_send, userVars
<1> QED
    BY <1>1, <1>2, <1>3, <1>4, <1>5, <1>6 DEF DecoderStep, OwnStep

\* A send goes into a box that has room.
LEMMA McuTypes_Decoder == UsersInv /\ DecoderStep => McuTypes'
<1> SUFFICES ASSUME UsersInv, DecoderStep PROVE McuTypes'
    OBVIOUS
<1> USE McuAssumption, UsersAssumption DEF UsersInv, McuTypes, groupVars, chanVars, queueVars,
       poolVars, threadVars, mcuVars
<1>1. ASSUME NEW t \in Threads, CreateEnter(t) PROVE McuTypes'
    BY <1>1 DEF CreateEnter, MayCall, Lock, IsFree, Goto
<1>2. ASSUME NEW t \in Threads, CreateRefused(t) PROVE McuTypes'
    BY <1>2 DEF CreateRefused, CreateReturn, Unlock, Goto
<1>3. ASSUME NEW t \in Threads, CreateAnswered(t) PROVE McuTypes'
    BY <1>3 DEF CreateAnswered, PopAny, CreateReturn, Unlock, Goto
<1>4. ASSUME NEW t \in Threads, al5d_user_decode_one_slice(t) PROVE McuTypes'
    <2>1. ChanMsg("DECODE_ONE_SLICE", chan_uid[FileOf[t]]) \in Commands
        BY CommandTypes DEF UserTypes, ChannelCommands
    <2>2. cmd' = Append(cmd, ChanMsg("DECODE_ONE_SLICE", chan_uid[FileOf[t]])) /\ ~CmdFull
        BY <1>4 DEF al5d_user_decode_one_slice, al5_mcu_send, SendOnChannel, al5d_create_decode_one_slice_msg
    <2>3. cmd' \in Seq(Commands) /\ Len(cmd') <= CmdCap
        BY <2>1, <2>2, MailSeqs DEF CmdFull
    <2> QED
        BY <1>4, <2>3 DEF al5d_user_decode_one_slice
<1>5. ASSUME NEW t \in Threads, al5d_user_decode_one_frame(t) PROVE McuTypes'
    <2>1. ChanMsg("DECODE_ONE_FRM", chan_uid[FileOf[t]]) \in Commands
        BY CommandTypes DEF UserTypes, ChannelCommands
    <2>2. cmd' = Append(cmd, ChanMsg("DECODE_ONE_FRM", chan_uid[FileOf[t]])) /\ ~CmdFull
        BY <1>5 DEF al5d_user_decode_one_frame, al5_mcu_send, SendOnChannel, al5d_create_decode_one_frame_msg
    <2>3. cmd' \in Seq(Commands) /\ Len(cmd') <= CmdCap
        BY <2>1, <2>2, MailSeqs DEF CmdFull
    <2> QED
        BY <1>5, <2>3 DEF al5d_user_decode_one_frame
<1>6. ASSUME NEW t \in Threads, al5d_user_search_start_code(t) PROVE McuTypes'
    <2>1. SearchMsg(FileOf[t], uid[FileOf[t]]) \in Commands
        BY <1>6, CommandTypes DEF al5d_user_search_start_code, MayCall, IsOpen, UserTypes, Slots
    <2>2. cmd' = Append(cmd, SearchMsg(FileOf[t], uid[FileOf[t]])) /\ ~CmdFull
        BY <1>6 DEF al5d_user_search_start_code, al5_mcu_send
    <2>3. cmd' \in Seq(Commands) /\ Len(cmd') <= CmdCap
        BY <2>1, <2>2, MailSeqs DEF CmdFull
    <2> QED
        BY <1>6, <2>3 DEF al5d_user_search_start_code
<1> QED
    BY <1>1, <1>2, <1>3, <1>4, <1>5, <1>6 DEF DecoderStep, OwnStep

\* A create that waits has no channel yet.
LEMMA ChannelOK_Decoder == UsersInv /\ DecoderStep => ChannelOK'
<1> SUFFICES ASSUME UsersInv, DecoderStep PROVE ChannelOK'
    OBVIOUS
<1> USE McuAssumption, UsersAssumption DEF UsersInv, UserTypes, FlagTypes, ThreadTypes,
       CallsOK, ChannelOK, Destroying, Releasing, Closing, groupVars, chanVars, queueVars,
       poolVars, threadVars, mcuVars
<1>1. ASSUME NEW t \in Threads, CreateEnter(t) PROVE ChannelOK'
    BY <1>1 DEF CreateEnter, MayCall, Goto, al5_chan_is_created
<1>2. ASSUME NEW t \in Threads, CreateRefused(t) PROVE ChannelOK'
    BY <1>2 DEF CreateRefused, CreateReturn, Unlock, Goto
<1>3. ASSUME NEW t \in Threads, CreateAnswered(t) PROVE ChannelOK'
    <2>1. \A u \in Threads : u # t /\ FileOf[u] = FileOf[t] => pc[u] \notin Creating
        BY <1>3, DestroysAlone DEF CreateAnswered, Creating
    <2>2. ~int_buffers[FileOf[t]] /\ ~rec_buffers[FileOf[t]]
        BY <1>3 DEF CreateAnswered
    <2> DEFINE ch == Head(queues[FileOf[t]]["CREATE"]).chan
    <2>3. /\ chan_uid' = [chan_uid EXCEPT ![FileOf[t]] = ch] /\ pc' = [pc EXCEPT ![t] = "idle"]
          /\ pc[t] = "create_wait" /\ UNCHANGED <<uid, checkpoint, poolVars, after>>
        BY <1>3 DEF CreateAnswered, CreateReturn, Goto
    <2> HIDE DEF ch
    <2> QED
        BY <2>1, <2>2, <2>3 DEF Creating
<1>4. ASSUME NEW t \in Threads, al5d_user_decode_one_slice(t) PROVE ChannelOK'
    BY <1>4 DEF al5d_user_decode_one_slice, SendOnChannel, al5_mcu_send, userVars
<1>5. ASSUME NEW t \in Threads, al5d_user_decode_one_frame(t) PROVE ChannelOK'
    BY <1>5 DEF al5d_user_decode_one_frame, SendOnChannel, al5_mcu_send, userVars
<1>6. ASSUME NEW t \in Threads, al5d_user_search_start_code(t) PROVE ChannelOK'
    BY <1>6 DEF al5d_user_search_start_code, al5_mcu_send, userVars
<1> QED
    BY <1>1, <1>2, <1>3, <1>4, <1>5, <1>6 DEF DecoderStep, OwnStep
-----------------------------------------------------------------------------
\* What UsersInv gives for the decoder.

LEMMA DecoderKeeps == UsersInv /\ [Next]_vars => UsersInv'
<1> SUFFICES ASSUME UsersInv, [Next]_vars PROVE UsersInv'
    OBVIOUS
<1>1. CASE DecoderStep
    <2>1. /\ McuTypes' /\ UserTypes' /\ FlagTypes' /\ ThreadTypes' /\ CallsOK' /\ LocksOK'
          /\ QueuesOK' /\ ChannelOK'
        BY <1>1, McuTypes_Decoder, UserTypes_Decoder, FlagTypes_Decoder, ThreadTypes_Decoder,
           CallsOK_Decoder, LocksOK_Decoder, QueuesOK_Decoder, ChannelOK_Decoder
    <2> QED
        BY <2>1 DEF UsersInv
<1> QED
    BY <1>1, NextSteps, SharedKeeps, UsersStutter DEF vars

\* The inductive invariant holds of every behaviour of the decoder, whatever
\* calls its threads make and whenever signals, the MCU and the interrupt come.
THEOREM DecoderInvariant == Spec => []UsersInv
<1>1. Init => UsersInv
    BY UsersStart DEF Init
<1> QED
    BY <1>1, DecoderKeeps, PTL DEF Spec

\* The boxes never hold more than they can, a queue holds only mails, and every
\* user, mutex and flag keeps its type.  (al5_mcu_send, al5_user_init)
THEOREM TypeCorrect == Spec => [](McuTypeOK /\ UsersTypeOK)
<1>1. UsersInv => McuTypeOK /\ UsersTypeOK
    BY UsersInvTypes
<1> QED
    BY <1>1, DecoderInvariant, PTL

\* At every point of every call a thread holds exactly the mutexes the code means
\* it to hold: none when it returns, on any error path, all of them while a
\* channel is destroyed.  (al5d_user_create_channel, al5_user_destroy_channel)
THEOREM MutexesAreGivenBack == Spec => []MutexDiscipline
    BY DecoderInvariant, UsersInvMutexes, PTL

\* Every way out of al5_user_destroy_channel locks the queues again.
THEOREM QueuesAreRelocked == Spec => []QueuesRelocked
    BY DecoderInvariant, UsersInvQueues, PTL

-----------------------------------------------------------------------------
\* Channels and their ids, when the firmware hands out fresh ones.

LEMMA NextFresh == PromptReuse = FALSE /\ Next => FreshStep \/ DecoderStep
<1> SUFFICES ASSUME PromptReuse = FALSE, Next, ~DecoderStep PROVE FreshStep
    OBVIOUS
<1>1. ASSUME NEW t \in Threads, Call(t) PROVE FreshStep
    BY <1>1 DEF Call, DecoderStep, OwnStep, FreshStep, SharedCall, WaitStatusEnter,
       WaitStartCodeEnter, MayCall, WaitCall, WaitOps
<1>2. ASSUME NEW t \in Threads, InCall(t) PROVE FreshStep
    BY <1>2 DEF InCall, al5d_user_create_channel, DecoderStep, OwnStep, FreshStep, SharedCall,
       WaitStatusReturn, WaitStartCodeReturn, WaitOps
<1>3. ASSUME NEW t \in Threads, Interrupted(t) PROVE FreshStep
    BY <1>3 DEF Interrupted, FreshStep, SharedCall, WaitOps
<1>4. McuCommand \/ McuFeedback => FreshStep
    BY CommandFresh, FeedbackFresh DEF McuFeedback, FreshStep
<1> QED
    BY <1>1, <1>2, <1>3, <1>4 DEF Next, FreshStep

LEMMA DecoderKeepsIds == UsersInv /\ IdsInv /\ DecoderStep => IdsInv'
<1> SUFFICES ASSUME UsersInv, IdsInv, NEW t \in Threads, OwnStep(t) PROVE IdsInv'
    BY DEF DecoderStep
<1>0. FileOf[t] \in Files /\ ThreadTypes
    BY UsersAssumption DEF UsersInv
<1> DEFINE Same == UNCHANGED <<uid, slot, chan_uid, after, signals, status, irq, queues, alive, pushed,
                               frames, creator>>
<1> USE DEF groupVars, chanVars, queueVars, threadVars, mcuVars, userVars
<1>1. CASE CreateEnter(t) \/ CreateRefused(t)
    <2>1. Passive /\ UNCHANGED <<uid, slot, creator>>
        BY <1>0, <1>1 DEF CreateEnter, CreateRefused, CreateReturn, MayCall, Goto, Passive, Onward,
           Closing, ThreadTypes
    <2> QED
        BY <2>1, PassiveKeeps
<1>2. CASE CreateAnswered(t)
    <2>1. PICK f, new : f = FileOf[t] /\ new = Head(queues[f]["CREATE"]).chan
        OBVIOUS
    <2>2. /\ pc[t] = "create_wait" /\ queues[f]["CREATE"] # <<>> /\ PopAny(f, "CREATE")
          /\ chan_uid' = [chan_uid EXCEPT ![f] = new] /\ pc' = [pc EXCEPT ![t] = "idle"]
          /\ UNCHANGED <<uid, slot, after, signals, irq, cmd, status, alive, pushed, frames, creator>>
        BY <1>2, <2>1 DEF CreateAnswered, CreateReturn, Goto
    <2> QED
        BY <2>1, <2>2, AnsweredKeeps
<1>3. CASE al5d_user_decode_one_slice(t)
    <2>1. /\ cmd' = Append(cmd, ChanMsg("DECODE_ONE_SLICE", chan_uid[FileOf[t]])) /\ Same
          /\ UNCHANGED pc /\ chan_uid[FileOf[t]] # BAD_CHAN /\ IsFree(t, "XCODE")
        BY <1>3 DEF al5d_user_decode_one_slice, SendOnChannel, al5_mcu_send,
           al5d_create_decode_one_slice_msg, al5_chan_is_created
    <2>2. Onward
        BY <1>0, <2>1 DEF Onward, Closing
    <2>3. \A u \in Threads : FileOf[u] = FileOf[t] => pc[u] # "destroy_wait"
        BY <2>1, OpOrderFacts, NobodyDestroys
    <2> QED
        BY <1>0, <2>1, <2>2, <2>3, ChannelSend DEF ChannelCommands
<1>4. CASE al5d_user_decode_one_frame(t)
    <2>1. /\ cmd' = Append(cmd, ChanMsg("DECODE_ONE_FRM", chan_uid[FileOf[t]])) /\ Same
          /\ UNCHANGED pc /\ chan_uid[FileOf[t]] # BAD_CHAN /\ IsFree(t, "XCODE")
        BY <1>4 DEF al5d_user_decode_one_frame, SendOnChannel, al5_mcu_send,
           al5d_create_decode_one_frame_msg, al5_chan_is_created
    <2>2. Onward
        BY <1>0, <2>1 DEF Onward, Closing
    <2>3. \A u \in Threads : FileOf[u] = FileOf[t] => pc[u] # "destroy_wait"
        BY <2>1, OpOrderFacts, NobodyDestroys
    <2> QED
        BY <1>0, <2>1, <2>2, <2>3, ChannelSend DEF ChannelCommands
<1>5. CASE al5d_user_search_start_code(t)
    <2>1. PICK m : m = SearchMsg(FileOf[t], uid[FileOf[t]])
        OBVIOUS
    <2>2. cmd' = Append(cmd, m) /\ Same /\ UNCHANGED pc /\ uid[FileOf[t]] # -1
        BY <1>5, <2>1 DEF al5d_user_search_start_code, MayCall, IsOpen, al5_mcu_send
    <2>3. m \in Commands
        <3>1. uid[FileOf[t]] \in Slots
            BY <1>0, <2>2 DEF UsersInv, UserTypes, Slots
        <3> QED
            BY <1>0, <2>1, <3>1, CommandTypes
    <2>4. /\ m.uid = "SEARCH_START_CODE" /\ "orphan" \notin DOMAIN m /\ \A ch : ~NamesChannel(m, ch)
        BY <2>1, MessageNames DEF SearchMsg
    <2>5. Onward
        BY <1>0, <2>2 DEF Onward, Closing
    <2>6. Sends(FileOf[t], m)
        BY <2>2, <2>4, <2>5 DEF Sends, FrameMsgs, Destroys
    <2> QED
        BY <1>0, <2>3, <2>6, SendKeeps
<1> QED
    BY <1>1, <1>2, <1>3, <1>4, <1>5 DEF OwnStep

LEMMA NextKeepsIds == PromptReuse = FALSE /\ UsersInv /\ IdsInv /\ [Next]_vars => IdsInv'
    BY NextFresh, FreshKeepsIds, DecoderKeepsIds, IdsStutter DEF vars

\* The invariant about ids holds of every behaviour of the decoder, for a firmware
\* that hands an id out again only when no file and no mail goes by it.
THEOREM ChannelInvariant == PromptReuse = FALSE => (Spec => []IdsInv)
<1> SUFFICES ASSUME PromptReuse = FALSE PROVE Spec => []IdsInv
    OBVIOUS
<1>1. Init => IdsInv
    BY IdsStart DEF Init
<1>2. UsersInv /\ IdsInv /\ [Next]_vars => IdsInv'
    BY NextKeepsIds
<1> QED
    BY <1>1, <1>2, DecoderInvariant, PTL DEF Spec

\* Two files never hold the same channel, whoever creates, destroys, is interrupted
\* or closes meanwhile.  (al5d_user_create_channel, al5_user_destroy_channel)
THEOREM ChannelsAreDistinct == PromptReuse = FALSE => (Spec => []ChannelsDistinct)
<1> SUFFICES ASSUME PromptReuse = FALSE PROVE Spec => []ChannelsDistinct
    OBVIOUS
<1> QED
    BY ChannelInvariant, IdsDistinct, PTL

\* A slice or frame that the decoder accepted reaches the firmware while its channel
\* lives, until a wait is cut short by a signal.
\* (al5d_user_decode_one_slice, al5d_user_decode_one_frame)
THEOREM FramesAreNotLost == PromptReuse = FALSE => (Spec => []FramesReachChannel)
<1> SUFFICES ASSUME PromptReuse = FALSE PROVE Spec => []FramesReachChannel
    OBVIOUS
<1> QED
    BY ChannelInvariant, IdsFrames, PTL

-----------------------------------------------------------------------------
\* Owners, until a wait is cut short, for clients with one thread per file that
\* creates and destroys.

LEMMA DecoderOwns ==
    ASSUME UsersInv, IdsInv, OwnInv, NEW t \in Threads, OwnStep(t) PROVE OwnInv'
<1>0. FileOf[t] \in Files /\ ThreadTypes
    BY UsersAssumption DEF UsersInv
<1>a. after = [after EXCEPT ![t] = after[t]] /\ pc = [pc EXCEPT ![t] = pc[t]]
    BY <1>0 DEF ThreadTypes
<1> DEFINE Same == UNCHANGED <<pc, after, status, alive, irq, queues, uid, chan_uid, creator>>
<1> USE DEF groupVars, chanVars, queueVars, threadVars, mcuVars, userVars, Goto
<1>1. CASE CreateEnter(t)
    <2>1. Control(t)
        BY <1>1 DEF CreateEnter, MayCall, Control
    <2>2. Still(t, "create_send", after[t])
        BY <1>1, <1>a, <2>1 DEF CreateEnter, MayCall, Still
    <2> QED
        BY <2>2, StillKeeps
<1>2. CASE CreateRefused(t)
    <2>1. Still(t, "idle", after[t])
        BY <1>2, <1>a DEF CreateRefused, CreateReturn, Still, Creating, Destroying
    <2> QED
        BY <2>1, StillKeeps
<1>3. CASE CreateAnswered(t)
    <2>1. PICK f, new : f = FileOf[t] /\ new = Head(queues[f]["CREATE"]).chan
        OBVIOUS
    <2>2. /\ pc[t] = "create_wait" /\ queues[f]["CREATE"] # <<>> /\ PopAny(f, "CREATE")
          /\ chan_uid' = [chan_uid EXCEPT ![f] = new] /\ pc' = [pc EXCEPT ![t] = "idle"]
          /\ UNCHANGED <<uid, after, irq, cmd, status, alive, creator>>
        BY <1>3, <2>1 DEF CreateAnswered, CreateReturn
    <2> QED
        BY <2>1, <2>2, AnsweredOwns
<1>4. ASSUME NEW m \in Commands, m.uid # "CREATE_CHANNEL", cmd' = Append(cmd, m), Same, pc[t] = "idle"
      PROVE  OwnInv'
    <2>1. pc' = [pc EXCEPT ![t] = "idle"] /\ after' = [after EXCEPT ![t] = after[t]]
        BY <1>4, <1>a
    <2>2. Still(t, "idle", after[t])
        BY <1>4, <2>1 DEF Still, Creating, Destroying
    <2> QED
        BY <2>2, StillKeeps
<1>5. CASE al5d_user_decode_one_slice(t)
    <2>1. PICK m : m = ChanMsg("DECODE_ONE_SLICE", chan_uid[FileOf[t]])
        OBVIOUS
    <2>2. m \in Commands /\ m.uid # "CREATE_CHANNEL"
        BY <1>0, <2>1, IdTypes DEF ChanMsg, Commands, ChannelCommands
    <2>3. cmd' = Append(cmd, m) /\ Same /\ pc[t] = "idle"
        BY <1>5, <2>1 DEF al5d_user_decode_one_slice, MayCall, SendOnChannel, al5_mcu_send,
           al5d_create_decode_one_slice_msg
    <2> QED
        BY <1>4, <2>2, <2>3
<1>6. CASE al5d_user_decode_one_frame(t)
    <2>1. PICK m : m = ChanMsg("DECODE_ONE_FRM", chan_uid[FileOf[t]])
        OBVIOUS
    <2>2. m \in Commands /\ m.uid # "CREATE_CHANNEL"
        BY <1>0, <2>1, IdTypes DEF ChanMsg, Commands, ChannelCommands
    <2>3. cmd' = Append(cmd, m) /\ Same /\ pc[t] = "idle"
        BY <1>6, <2>1 DEF al5d_user_decode_one_frame, MayCall, SendOnChannel, al5_mcu_send,
           al5d_create_decode_one_frame_msg
    <2> QED
        BY <1>4, <2>2, <2>3
<1>7. CASE al5d_user_search_start_code(t)
    <2>1. PICK m : m = SearchMsg(FileOf[t], uid[FileOf[t]])
        OBVIOUS
    <2>2. cmd' = Append(cmd, m) /\ Same /\ pc[t] = "idle" /\ uid[FileOf[t]] # -1
        BY <1>7, <2>1 DEF al5d_user_search_start_code, MayCall, IsOpen, al5_mcu_send
    <2>3. uid[FileOf[t]] \in Slots
        BY <1>0, <2>2 DEF UsersInv, UserTypes, Slots
    <2>4. m \in Commands
        BY <1>0, <2>1, <2>3, CommandTypes
    <2>5. m.uid # "CREATE_CHANNEL"
        BY <2>1 DEF SearchMsg
    <2> QED
        BY <1>4, <2>2, <2>4, <2>5
<1> QED
    BY <1>1, <1>2, <1>3, <1>5, <1>6, <1>7 DEF OwnStep

LEMMA DecoderSignals ==
    ASSUME NEW t \in Threads, OwnStep(t) PROVE signals' = signals
<1>1. CASE CreateEnter(t) \/ CreateRefused(t) \/ CreateAnswered(t)
    BY <1>1 DEF CreateEnter, CreateRefused, CreateAnswered
<1>2. CASE al5d_user_decode_one_slice(t) \/ al5d_user_decode_one_frame(t) \/ al5d_user_search_start_code(t)
    BY <1>2 DEF al5d_user_decode_one_slice, al5d_user_decode_one_frame, al5d_user_search_start_code,
       userVars, threadVars
<1> QED
    BY <1>1, <1>2 DEF OwnStep

\* Until a wait is cut short, whoever has a channel made it, and whoever made one has
\* it or will get it, in every behaviour of the decoder.
THEOREM OwnerInvariant == PromptReuse = FALSE /\ OneControl => (Spec => [](signals = 0 => OwnInv))
<1> SUFFICES ASSUME PromptReuse = FALSE, OneControl PROVE Spec => [](signals = 0 => OwnInv)
    OBVIOUS
<1>1. Init => OwnInv
    BY OwnStart DEF Init
<1>2. UsersInv /\ IdsInv /\ (signals = 0 => OwnInv) /\ [Next]_vars => (signals = 0 => OwnInv)'
    <2> SUFFICES ASSUME UsersInv, IdsInv, signals = 0 => OwnInv, [Next]_vars, signals' = 0 PROVE OwnInv'
        OBVIOUS
    <2>1. CASE FreshStep
        BY <2>1, SignalsGrow, FreshOwns
    <2>2. CASE DecoderStep
        BY <2>2, DecoderSignals, DecoderOwns DEF DecoderStep
    <2>3. CASE UNCHANGED vars
        <3>1. UNCHANGED <<userVars, mcuVars>> /\ signals = 0
            BY <2>3 DEF vars, userVars, threadVars
        <3> QED
            BY <3>1, OwnStutter
    <2> QED
        BY <2>1, <2>2, <2>3, NextFresh
<1> QED
    BY <1>1, <1>2, ChannelInvariant, DecoderInvariant, PTL DEF Spec

\* Until a wait is cut short, a channel that lives in the firmware has somebody who
\* will destroy it, or al5_codec_release has given it up.
\* (al5d_user_create_channel, al5_user_destroy_channel)
THEOREM ChannelsHaveOwners ==
    PromptReuse = FALSE /\ OneControl => (Spec => []OwnedUntilInterrupted)
<1> SUFFICES ASSUME PromptReuse = FALSE, OneControl PROVE Spec => []OwnedUntilInterrupted
    OBVIOUS
<1>1. UsersInv /\ (signals = 0 => OwnInv) => OwnedUntilInterrupted
    BY OwnNoOrphans DEF OwnedUntilInterrupted
<1> QED
    BY <1>1, OwnerInvariant, DecoderInvariant, PTL
=============================================================================
