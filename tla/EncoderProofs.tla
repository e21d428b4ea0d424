--------------------------- MODULE EncoderProofs ----------------------------
(***************************************************************************)
(* Proofs about Encoder, for every number of files, threads and channels   *)
(* and every size of the mailboxes.  The steps the encoder shares with the *)
(* decoder are proved about in UsersProofs; here are its own.              *)
(***************************************************************************)
EXTENDS Encoder, OwnerProofs, SequenceTheorems

-----------------------------------------------------------------------------
\* The steps of the encoder alone.

OwnStep(t) ==
    \/ CreateEnter(t) \/ CreateRefused(t) \/ CreateAnswered(t) \/ CreateAllocate(t)
    \/ CreateNoMemory(t) \/ CreateDestroys(t) \/ CreateInt(t) \/ CreateRef(t)
    \/ al5e_user_encode_one_frame(t) \/ PutStreamEnter(t) \/ PutStreamSend(t)
    \/ GetRecEnter(t) \/ al5e_user_release_rec(t)

EncoderStep == \E t \in Threads : OwnStep(t)

\* Every step is one of these or one that the decoder takes as well.
LEMMA NextSteps == Next => SharedStep \/ EncoderStep
<1> SUFFICES ASSUME Next, ~EncoderStep PROVE SharedStep
    OBVIOUS
<1>1. ASSUME NEW t \in Threads, Call(t) PROVE SharedStep
    BY <1>1 DEF Call, EncoderStep, OwnStep, SharedStep, SharedCall, WaitStatusEnter, MayCall,
       WaitCall, WaitOps
<1>2. ASSUME NEW t \in Threads, InCall(t) PROVE SharedStep
    BY <1>2 DEF InCall, EncoderStep, OwnStep, SharedStep, SharedCall, WaitStatusReturn,
       GetRecReturn, WaitOps
<1>3. ASSUME NEW t \in Threads, Interrupted(t) PROVE SharedStep
    BY <1>3 DEF Interrupted, SharedStep, SharedCall, WaitOps
<1>4. McuCommand \/ McuFeedback => SharedStep
    BY DEF McuCommand, McuFeedback, SharedStep, McuStep
<1> QED
    BY <1>1, <1>2, <1>3, <1>4 DEF Next, SharedStep

\* A create goes on where the checkpoint says.
LEMMA ResumeLabels ==
    ASSUME UsersInv, NEW f \in Files
    PROVE  ResumeAt(f) \in {"create_send", "create_allocate", "create_int", "create_ref"}
<1>1. checkpoint[f] \in {"NO_CHECKPOINT", "ALLOCATE_BUFFERS", "SEND_INTERMEDIATE_BUFFERS",
                         "SEND_REFERENCE_BUFFERS"}
    BY DEF UsersInv, UserTypes
<1> QED
    BY <1>1 DEF ResumeAt

\* The encoder's own steps keep each part of the invariant.
LEMMA ThreadTypes_Encoder == UsersInv /\ EncoderStep => ThreadTypes'
<1> SUFFICES ASSUME UsersInv, EncoderStep PROVE ThreadTypes'
    OBVIOUS
<1> USE McuAssumption, UsersAssumption DEF UsersInv, ThreadTypes, Labels, groupVars, chanVars,
       queueVars, poolVars, threadVars, mcuVars
<1>1. ASSUME NEW t \in Threads, CreateEnter(t) PROVE ThreadTypes'
    <2>1. ResumeAt(FileOf[t]) \in Labels
        BY ResumeLabels
    <2> QED
        BY <1>1, <2>1 DEF CreateEnter, Goto
<1>2. ASSUME NEW t \in Threads, CreateRefused(t) PROVE ThreadTypes'
    BY <1>2, OpOrderFacts DEF CreateRefused, CreateReturn, Unlock, Goto
<1>3. ASSUME NEW t \in Threads, CreateAnswered(t) PROVE ThreadTypes'
    <2>1. \E label \in Labels : pc' = [pc EXCEPT ![t] = label]
        BY <1>3 DEF CreateAnswered, CreateReturn, Goto
    <2> QED
        BY <1>3, <2>1 DEF CreateAnswered
<1>4. ASSUME NEW t \in Threads, CreateAllocate(t) PROVE ThreadTypes'
    BY <1>4, OpOrderFacts DEF CreateAllocate, SetCheckpoint, Goto
<1>5. ASSUME NEW t \in Threads, CreateNoMemory(t) PROVE ThreadTypes'
    BY <1>5, OpOrderFacts DEF CreateNoMemory, SetCheckpoint, Unlock, Goto
<1>6. ASSUME NEW t \in Threads, CreateDestroys(t) PROVE ThreadTypes'
    BY <1>6, OpOrderFacts DEF CreateDestroys, Goto
<1>7. ASSUME NEW t \in Threads, CreateInt(t) PROVE ThreadTypes'
    BY <1>7, OpOrderFacts DEF CreateInt, al5_mcu_send, SetCheckpoint, Goto
<1>8. ASSUME NEW t \in Threads, CreateRef(t) PROVE ThreadTypes'
    BY <1>8, OpOrderFacts DEF CreateRef, al5_mcu_send, SetCheckpoint, CreateReturn, Unlock,
       Goto
<1>9. ASSUME NEW t \in Threads, al5e_user_encode_one_frame(t) PROVE ThreadTypes'
    BY <1>9, OpOrderFacts DEF al5e_user_encode_one_frame, SendOnChannel, al5_mcu_send,
       userVars
<1>10. ASSUME NEW t \in Threads, PutStreamEnter(t) PROVE ThreadTypes'
    BY <1>10, OpOrderFacts DEF PutStreamEnter, MayCall, Goto
<1>11. ASSUME NEW t \in Threads, PutStreamSend(t) PROVE ThreadTypes'
    BY <1>11, OpOrderFacts DEF PutStreamSend, al5_mcu_send, Goto
<1>12. ASSUME NEW t \in Threads, GetRecEnter(t) PROVE ThreadTypes'
    BY <1>12, OpOrderFacts DEF GetRecEnter, MayCall, SendOnChannel, al5_mcu_send, IsFree,
       Lock, Waiting, Goto
<1>13. ASSUME NEW t \in Threads, al5e_user_release_rec(t) PROVE ThreadTypes'
    BY <1>13, OpOrderFacts DEF al5e_user_release_rec, SendOnChannel, al5_mcu_send, userVars
<1> QED
    BY <1>1, <1>2, <1>3, <1>4, <1>5, <1>6, <1>7, <1>8, <1>9, <1>10, <1>11, <1>12, <1>13 DEF
       EncoderStep, OwnStep

\* Whoever enters a call finds no close under way, and a close waits for the calls.
LEMMA CallsOK_Encoder == UsersInv /\ EncoderStep => CallsOK'
<1> SUFFICES ASSUME UsersInv, EncoderStep PROVE CallsOK'
    OBVIOUS
<1> USE McuAssumption, UsersAssumption DEF UsersInv, ThreadTypes, CallsOK, Labels, Destroying,
       Releasing, groupVars, chanVars, queueVars, poolVars, threadVars, mcuVars
<1>1. ASSUME NEW t \in Threads, CreateEnter(t) PROVE CallsOK'
    <2>1. ResumeAt(FileOf[t]) \in {"create_send", "create_allocate", "create_int", "create_ref"}
        BY ResumeLabels
    <2> QED
        BY <1>1, <2>1 DEF CreateEnter, MayCall, IsOpen, Goto
<1>2. ASSUME NEW t \in Threads, CreateRefused(t) PROVE CallsOK'
    BY <1>2 DEF CreateRefused, CreateReturn, Unlock, Goto
<1>3. ASSUME NEW t \in Threads, CreateAnswered(t) PROVE CallsOK'
    BY <1>3 DEF CreateAnswered, PopAny, CreateReturn, Unlock, Goto, check_and_affect_chan_uid,
       SetCheckpoint
<1>4. ASSUME NEW t \in Threads, CreateAllocate(t) PROVE CallsOK'
    BY <1>4 DEF CreateAllocate, SetCheckpoint, Goto
<1>5. ASSUME NEW t \in Threads, CreateNoMemory(t) PROVE CallsOK'
    BY <1>5 DEF CreateNoMemory, SetCheckpoint, Unlock, Goto
<1>6. ASSUME NEW t \in Threads, CreateDestroys(t) PROVE CallsOK'
    BY <1>6 DEF CreateDestroys, Goto
<1>7. ASSUME NEW t \in Threads, CreateInt(t) PROVE CallsOK'
    BY <1>7 DEF CreateInt, al5_mcu_send, SetCheckpoint, Goto
<1>8. ASSUME NEW t \in Threads, CreateRef(t) PROVE CallsOK'
    BY <1>8 DEF CreateRef, al5_mcu_send, SetCheckpoint, CreateReturn, Unlock, Goto
<1>9. ASSUME NEW t \in Threads, al5e_user_encode_one_frame(t) PROVE CallsOK'
    BY <1>9 DEF al5e_user_encode_one_frame, SendOnChannel, al5_mcu_send, userVars
<1>10. ASSUME NEW t \in Threads, PutStreamEnter(t) PROVE CallsOK'
    BY <1>10 DEF PutStreamEnter, MayCall, IsOpen, Goto
<1>11. ASSUME NEW t \in Threads, PutStreamSend(t) PROVE CallsOK'
    BY <1>11 DEF PutStreamSend, al5_mcu_send, Goto
<1>12. ASSUME NEW t \in Threads, GetRecEnter(t) PROVE CallsOK'
    BY <1>12 DEF GetRecEnter, MayCall, IsOpen, Waiting, Goto
<1>13. ASSUME NEW t \in Threads, al5e_user_release_rec(t) PROVE CallsOK'
    BY <1>13 DEF al5e_user_release_rec, SendOnChannel, al5_mcu_send, userVars
<1> QED
    BY <1>1, <1>2, <1>3, <1>4, <1>5, <1>6, <1>7, <1>8, <1>9, <1>10, <1>11, <1>12, <1>13 DEF
       EncoderStep, OwnStep

\* The flags stay Boolean.
LEMMA FlagTypes_Encoder == UsersInv /\ EncoderStep => FlagTypes'
<1> SUFFICES ASSUME UsersInv, EncoderStep PROVE FlagTypes'
    OBVIOUS
<1> USE McuAssumption, UsersAssumption DEF UsersInv, FlagTypes, groupVars, chanVars,
       queueVars, poolVars, threadVars, mcuVars
<1>1. ASSUME NEW t \in Threads, CreateEnter(t) PROVE FlagTypes'
    BY <1>1 DEF CreateEnter, MayCall, ResumeAt, Lock, IsFree, Goto
<1>2. ASSUME NEW t \in Threads, CreateRefused(t) PROVE FlagTypes'
    BY <1>2 DEF CreateRefused, CreateReturn, Unlock, Goto
<1>3. ASSUME NEW t \in Threads, CreateAnswered(t) PROVE FlagTypes'
    BY <1>3 DEF CreateAnswered, PopAny, CreateReturn, Unlock, Goto, check_and_affect_chan_uid,
       SetCheckpoint
<1>4. ASSUME NEW t \in Threads, CreateAllocate(t) PROVE FlagTypes'
    BY <1>4 DEF CreateAllocate, SetCheckpoint, Goto
<1>5. ASSUME NEW t \in Threads, CreateNoMemory(t) PROVE FlagTypes'
    BY <1>5 DEF CreateNoMemory, SetCheckpoint, Unlock, Goto
<1>6. ASSUME NEW t \in Threads, CreateDestroys(t) PROVE FlagTypes'
    BY <1>6 DEF CreateDestroys, Goto
<1>7. ASSUME NEW t \in Threads, CreateInt(t) PROVE FlagTypes'
    BY <1>7 DEF CreateInt, al5_mcu_send, SetCheckpoint, Goto
<1>8. ASSUME NEW t \in Threads, CreateRef(t) PROVE FlagTypes'
    BY <1>8 DEF CreateRef, al5_mcu_send, SetCheckpoint, CreateReturn, Unlock, Goto
<1>9. ASSUME NEW t \in Threads, al5e_user_encode_one_frame(t) PROVE FlagTypes'
    BY <1>9 DEF al5e_user_encode_one_frame, SendOnChannel, al5_mcu_send, userVars
<1>10. ASSUME NEW t \in Threads, PutStreamEnter(t) PROVE FlagTypes'
    BY <1>10 DEF PutStreamEnter, MayCall, Goto
<1>11. ASSUME NEW t \in Threads, PutStreamSend(t) PROVE FlagTypes'
    BY <1>11 DEF PutStreamSend, al5_mcu_send, Goto
<1>12. ASSUME NEW t \in Threads, GetRecEnter(t) PROVE FlagTypes'
    BY <1>12 DEF GetRecEnter, MayCall, SendOnChannel, al5_mcu_send, IsFree, Lock, Waiting,
       Goto
<1>13. ASSUME NEW t \in Threads, al5e_user_release_rec(t) PROVE FlagTypes'
    BY <1>13 DEF al5e_user_release_rec, SendOnChannel, al5_mcu_send, userVars
<1> QED
    BY <1>1, <1>2, <1>3, <1>4, <1>5, <1>6, <1>7, <1>8, <1>9, <1>10, <1>11, <1>12, <1>13 DEF
       EncoderStep, OwnStep

\* None of them leaves a queue unlocked.
LEMMA QueuesOK_Encoder == UsersInv /\ EncoderStep => QueuesOK'
<1> SUFFICES ASSUME UsersInv, EncoderStep PROVE QueuesOK'
    OBVIOUS
<1> USE McuAssumption, UsersAssumption DEF UsersInv, FlagTypes, UserTypes, ThreadTypes,
       QueuesOK, Destroying, Releasing, groupVars, chanVars, queueVars, poolVars, threadVars,
       mcuVars
<1>1. ASSUME NEW t \in Threads, CreateEnter(t) PROVE QueuesOK'
    <2>1. pc[t] = "idle"
        BY <1>1 DEF CreateEnter, MayCall
    <2> QED
        BY <1>1, <2>1, KeepQueues DEF CreateEnter, Goto, Unlocking
<1>2. ASSUME NEW t \in Threads, CreateRefused(t) PROVE QueuesOK'
    <2>1. pc[t] \in {"create_send", "create_int", "create_ref"}
        BY <1>2 DEF CreateRefused
    <2> QED
        BY <1>2, <2>1, KeepQueues DEF CreateRefused, CreateReturn, Goto, Unlocking
<1>3. ASSUME NEW t \in Threads, CreateAnswered(t) PROVE QueuesOK'
    <2>1. UNCHANGED <<locked, uid>> /\ pc[t] = "create_wait"
        BY <1>3 DEF CreateAnswered
    <2>2. PICK label : pc' = [pc EXCEPT ![t] = label]
        BY <1>3 DEF CreateAnswered, CreateReturn, Goto
    <2> QED
        BY <2>1, <2>2, KeepQueues DEF Unlocking
<1>4. ASSUME NEW t \in Threads, CreateAllocate(t) PROVE QueuesOK'
    BY <1>4, KeepQueues DEF CreateAllocate, Goto, Unlocking
<1>5. ASSUME NEW t \in Threads, CreateNoMemory(t) PROVE QueuesOK'
    BY <1>5, KeepQueues DEF CreateNoMemory, Goto, Unlocking
<1>6. ASSUME NEW t \in Threads, CreateDestroys(t) PROVE QueuesOK'
    <2>1. UNCHANGED <<locked, uid>> /\ pc[t] = "destroy_enter"
        BY <1>6 DEF CreateDestroys
    <2>2. PICK label : pc' = [pc EXCEPT ![t] = label]
        BY <1>6 DEF CreateDestroys, Goto
    <2> QED
        BY <2>1, <2>2, KeepQueues DEF Unlocking
<1>7. ASSUME NEW t \in Threads, CreateInt(t) PROVE QueuesOK'
    BY <1>7, KeepQueues DEF CreateInt, Goto, Unlocking
<1>8. ASSUME NEW t \in Threads, CreateRef(t) PROVE QueuesOK'
    BY <1>8, KeepQueues DEF CreateRef, CreateReturn, Goto, Unlocking
<1>9. ASSUME NEW t \in Threads, al5e_user_encode_one_frame(t) PROVE QueuesOK'
    BY <1>9 DEF al5e_user_encode_one_frame, SendOnChannel, al5_mcu_send, userVars
<1>10. ASSUME NEW t \in Threads, PutStreamEnter(t) PROVE QueuesOK'
    <2>1. pc[t] = "idle"
        BY <1>10 DEF PutStreamEnter, MayCall
    <2> QED
        BY <1>10, <2>1, KeepQueues DEF PutStreamEnter, Goto, Unlocking
<1>11. ASSUME NEW t \in Threads, PutStreamSend(t) PROVE QueuesOK'
    BY <1>11, KeepQueues DEF PutStreamSend, Goto, Unlocking
<1>12. ASSUME NEW t \in Threads, GetRecEnter(t) PROVE QueuesOK'
    <2>1. pc[t] = "idle"
        BY <1>12 DEF GetRecEnter, MayCall
    <2> QED
        BY <1>12, <2>1, KeepQueues DEF GetRecEnter, Goto, Unlocking
<1>13. ASSUME NEW t \in Threads, al5e_user_release_rec(t) PROVE QueuesOK'
    BY <1>13 DEF al5e_user_release_rec, SendOnChannel, al5_mcu_send, userVars
<1> QED
    BY <1>1, <1>2, <1>3, <1>4, <1>5, <1>6, <1>7, <1>8, <1>9, <1>10, <1>11, <1>12, <1>13 DEF
       EncoderStep, OwnStep

\* The mutex of a create is held until it returns or starts to destroy.
LEMMA LocksOK_Encoder == UsersInv /\ EncoderStep => LocksOK'
<1> SUFFICES ASSUME UsersInv, EncoderStep PROVE LocksOK'
    OBVIOUS
<1> USE McuAssumption, UsersAssumption DEF UsersInv, ThreadTypes, CallsOK, LocksOK, Needs,
       Destroying, Releasing, groupVars, chanVars, queueVars, poolVars, threadVars, mcuVars
<1>1. ASSUME NEW t \in Threads, CreateEnter(t) PROVE LocksOK'
    <2>1. "CREATE" \in OpIds /\ IsFree(t, "CREATE") /\ Lock(t, "CREATE") /\ OthersStay(t)
        BY <1>1, OpOrderFacts DEF CreateEnter, MayCall, Goto, OthersStay
    <2>2. Needs(t)' = Needs(t) \cup {"CREATE"}
        BY <1>1, ResumeLabels DEF CreateEnter, MayCall, Goto
    <2> HIDE DEF Needs, UsersInv, LocksOK
    <2> QED
        BY <2>1, <2>2, TakeMutex DEF IsFree, Lock
<1>2. ASSUME NEW t \in Threads, CreateRefused(t) PROVE LocksOK'
    <2>1. "CREATE" \in OpIds /\ Unlock(t, "CREATE") /\ OthersStay(t)
        BY <1>2, OpOrderFacts DEF CreateRefused, CreateReturn, Goto, OthersStay
    <2>2. Needs(t) = {"CREATE"} /\ Needs(t)' = {}
        BY <1>2 DEF CreateRefused, CreateReturn, Goto
    <2> HIDE DEF Needs, UsersInv, LocksOK
    <2> QED
        BY <2>1, <2>2, GiveMutex DEF Unlock
<1>3. ASSUME NEW t \in Threads, CreateAnswered(t) PROVE LocksOK'
    <2>1. CASE CreateReturn(t)
        <3>1. "CREATE" \in OpIds /\ Unlock(t, "CREATE") /\ OthersStay(t)
            BY <1>3, <2>1, OpOrderFacts DEF CreateAnswered, CreateReturn, Goto, OthersStay
        <3>2. Needs(t) = {"CREATE"} /\ Needs(t)' = {}
            BY <1>3, <2>1 DEF CreateAnswered, CreateReturn, Goto
        <3> HIDE DEF Needs, UsersInv, LocksOK
        <3> QED
            BY <3>1, <3>2, GiveMutex DEF Unlock
    <2>2. CASE ~CreateReturn(t)
        <3>1. UNCHANGED locks /\ Goto(t, "create_allocate") /\ idx' = idx /\ pc[t] = "create_wait"
            BY <1>3, <2>2 DEF CreateAnswered
        <3>2. OthersStay(t) /\ Needs(t)' = Needs(t)
            BY <3>1 DEF Goto, OthersStay
        <3> HIDE DEF Needs, UsersInv, LocksOK
        <3> QED
            BY <3>1, <3>2, KeepMutexes
    <2> QED
        BY <2>1, <2>2
<1>4. ASSUME NEW t \in Threads, CreateAllocate(t) PROVE LocksOK'
    <2>1. UNCHANGED locks /\ OthersStay(t) /\ Needs(t)' = Needs(t)
        BY <1>4 DEF CreateAllocate, Goto, OthersStay
    <2> HIDE DEF Needs, UsersInv, LocksOK
    <2> QED
        BY <2>1, KeepMutexes
<1>5. ASSUME NEW t \in Threads, CreateNoMemory(t) PROVE LocksOK'
    <2>1. "CREATE" \in OpIds /\ Unlock(t, "CREATE") /\ OthersStay(t)
        BY <1>5, OpOrderFacts DEF CreateNoMemory, Goto, OthersStay
    <2>2. Needs(t) = {"CREATE"} /\ Needs(t)' = {}
        BY <1>5 DEF CreateNoMemory, Goto
    <2> HIDE DEF Needs, UsersInv, LocksOK
    <2> QED
        BY <2>1, <2>2, GiveMutex DEF Unlock
<1>6. ASSUME NEW t \in Threads, CreateDestroys(t) PROVE LocksOK'
    <2>1. UNCHANGED locks /\ OthersStay(t) /\ Needs(t)' = Needs(t)
        BY <1>6 DEF CreateDestroys, Goto, OthersStay
    <2> HIDE DEF Needs, UsersInv, LocksOK
    <2> QED
        BY <2>1, KeepMutexes
<1>7. ASSUME NEW t \in Threads, CreateInt(t) PROVE LocksOK'
    <2>1. UNCHANGED locks /\ OthersStay(t) /\ Needs(t)' = Needs(t)
        BY <1>7 DEF CreateInt, Goto, OthersStay
    <2> HIDE DEF Needs, UsersInv, LocksOK
    <2> QED
        BY <2>1, KeepMutexes
<1>8. ASSUME NEW t \in Threads, CreateRef(t) PROVE LocksOK'
    <2>1. "CREATE" \in OpIds /\ Unlock(t, "CREATE") /\ OthersStay(t)
        BY <1>8, OpOrderFacts DEF CreateRef, CreateReturn, Goto, OthersStay
    <2>2. Needs(t) = {"CREATE"} /\ Needs(t)' = {}
        BY <1>8 DEF CreateRef, CreateReturn, Goto
    <2> HIDE DEF Needs, UsersInv, LocksOK
    <2> QED
        BY <2>1, <2>2, GiveMutex DEF Unlock
<1>9. ASSUME NEW t \in Threads, al5e_user_encode_one_frame(t) PROVE LocksOK'
    BY <1>9 DEF al5e_user_encode_one_frame, SendOnChannel, al5_mcu_send, userVars
<1>10. ASSUME NEW t \in Threads, PutStreamEnter(t) PROVE LocksOK'
    <2>1. UNCHANGED locks /\ OthersStay(t) /\ Needs(t)' = Needs(t)
        BY <1>10 DEF PutStreamEnter, MayCall, Goto, OthersStay
    <2> HIDE DEF Needs, UsersInv, LocksOK
    <2> QED
        BY <2>1, KeepMutexes
<1>11. ASSUME NEW t \in Threads, PutStreamSend(t) PROVE LocksOK'
    <2>1. UNCHANGED locks /\ OthersStay(t) /\ Needs(t)' = Needs(t)
        BY <1>11 DEF PutStreamSend, Goto, OthersStay
    <2> HIDE DEF Needs, UsersInv, LocksOK
    <2> QED
        BY <2>1, KeepMutexes
<1>12. ASSUME NEW t \in Threads, GetRecEnter(t) PROVE LocksOK'
    <2>1. "REC" \in OpIds /\ IsFree(t, "REC") /\ Lock(t, "REC") /\ OthersStay(t)
        BY <1>12, OpOrderFacts DEF GetRecEnter, MayCall, SendOnChannel, Waiting, Goto, OthersStay
    <2>2. Needs(t)' = Needs(t) \cup {"REC"}
        BY <1>12 DEF GetRecEnter, MayCall, SendOnChannel, Waiting, Goto
    <2> HIDE DEF Needs, UsersInv, LocksOK
    <2> QED
        BY <2>1, <2>2, TakeMutex DEF IsFree, Lock
<1>13. ASSUME NEW t \in Threads, al5e_user_release_rec(t) PROVE LocksOK'
    BY <1>13 DEF al5e_user_release_rec, SendOnChannel, al5_mcu_send, userVars
<1> QED
    BY <1>1, <1>2, <1>3, <1>4, <1>5, <1>6, <1>7, <1>8, <1>9, <1>10, <1>11, <1>12, <1>13 DEF
       EncoderStep, OwnStep

\* The users keep their types, and each queue only gets mails of its kind.
LEMMA UserTypes_Encoder == UsersInv /\ EncoderStep => UserTypes'
<1> SUFFICES ASSUME UsersInv, EncoderStep PROVE UserTypes'
    OBVIOUS
<1> USE McuAssumption, UsersAssumption DEF UsersInv, UserTypes, ChanIds, groupVars, chanVars,
       queueVars, poolVars, threadVars, mcuVars
<1>1. ASSUME NEW t \in Threads, CreateEnter(t) PROVE UserTypes'
    BY <1>1 DEF CreateEnter, MayCall, ResumeAt, Lock, IsFree, Goto
<1>2. ASSUME NEW t \in Threads, CreateRefused(t) PROVE UserTypes'
    BY <1>2 DEF CreateRefused, CreateReturn, Unlock, Goto
<1>3. ASSUME NEW t \in Threads, CreateAnswered(t) PROVE UserTypes'
    <2>1. FileOf[t] \in Files /\ "CREATE" \in QueueIds
        BY DEF QueueIds
    <2>2. PopAny(FileOf[t], "CREATE")
        BY <1>3 DEF CreateAnswered
    <2>3. /\ queues' \in [Files -> [QueueIds -> Seq(Answers)]]
          /\ \A g \in Files : \A r \in QueueIds : queues'[g][r] \in Seq(MailsOf(r))
        BY <2>1, <2>2, PopTypes
    <2>4. Head(queues[FileOf[t]]["CREATE"]).chan \in ChanIds
        BY <1>3, <2>1, CreateQueue DEF CreateAnswered
    <2>5. chan_uid' \in [Files -> ChanIds]
        BY <1>3, <2>1, <2>4 DEF CreateAnswered, check_and_affect_chan_uid
    <2>6. checkpoint' \in [Files -> {"NO_CHECKPOINT", "ALLOCATE_BUFFERS",
                                     "SEND_INTERMEDIATE_BUFFERS", "SEND_REFERENCE_BUFFERS"}]
        BY <1>3, <2>1 DEF CreateAnswered, SetCheckpoint
    <2> QED
        BY <1>3, <2>3, <2>5, <2>6 DEF CreateAnswered
<1>4. ASSUME NEW t \in Threads, CreateAllocate(t) PROVE UserTypes'
    BY <1>4 DEF CreateAllocate, SetCheckpoint, Goto
<1>5. ASSUME NEW t \in Threads, CreateNoMemory(t) PROVE UserTypes'
    BY <1>5 DEF CreateNoMemory, SetCheckpoint, Unlock, Goto
<1>6. ASSUME NEW t \in Threads, CreateDestroys(t) PROVE UserTypes'
    BY <1>6 DEF CreateDestroys, Goto
<1>7. ASSUME NEW t \in Threads, CreateInt(t) PROVE UserTypes'
    BY <1>7 DEF CreateInt, al5_mcu_send, SetCheckpoint, Goto
<1>8. ASSUME NEW t \in Threads, CreateRef(t) PROVE UserTypes'
    BY <1>8 DEF CreateRef, al5_mcu_send, SetCheckpoint, CreateReturn, Unlock, Goto
<1>9. ASSUME NEW t \in Threads, al5e_user_encode_one_frame(t) PROVE UserTypes'
    BY <1>9 DEF al5e_user_encode_one_frame, SendOnChannel, al5_mcu_send, userVars
<1>10. ASSUME NEW t \in Threads, PutStreamEnter(t) PROVE UserTypes'
    BY <1>10 DEF PutStreamEnter, MayCall, Goto
<1>11. ASSUME NEW t \in Threads, PutStreamSend(t) PROVE UserTypes'
    BY <1>11 DEF PutStreamSend, al5_mcu_send, Goto
<1>12. ASSUME NEW t \in Threads, GetRecEnter(t) PROVE UserTypes'
    BY <1>12 DEF GetRecEnter, MayCall, SendOnChannel, al5_mcu_send, IsFree, Lock, Waiting,
       Goto
<1>13. ASSUME NEW t \in Threads, al5e_user_release_rec(t) PROVE UserTypes'
    BY <1>13 DEF al5e_user_release_rec, SendOnChannel, al5_mcu_send, userVars
<1> QED
    BY <1>1, <1>2, <1>3, <1>4, <1>5, <1>6, <1>7, <1>8, <1>9, <1>10, <1>11, <1>12, <1>13 DEF
       EncoderStep, OwnStep

\* A send goes into a box that has room.
LEMMA McuTypes_Encoder == UsersInv /\ EncoderStep => McuTypes'
<1> SUFFICES ASSUME UsersInv, EncoderStep PROVE McuTypes'
    OBVIOUS
<1> USE McuAssumption, UsersAssumption DEF UsersInv, McuTypes, groupVars, chanVars, queueVars,
       poolVars, threadVars, mcuVars
<1>1. ASSUME NEW t \in Threads, CreateEnter(t) PROVE McuTypes'
    BY <1>1 DEF CreateEnter, MayCall, ResumeAt, Lock, IsFree, Goto
<1>2. ASSUME NEW t \in Threads, CreateRefused(t) PROVE McuTypes'
    BY <1>2 DEF CreateRefused, CreateReturn, Unlock, Goto
<1>3. ASSUME NEW t \in Threads, CreateAnswered(t) PROVE McuTypes'
    BY <1>3 DEF CreateAnswered, PopAny, CreateReturn, Unlock, Goto, check_and_affect_chan_uid,
       SetCheckpoint
<1>4. ASSUME NEW t \in Threads, CreateAllocate(t) PROVE McuTypes'
    BY <1>4 DEF CreateAllocate, SetCheckpoint, Goto
<1>5. ASSUME NEW t \in Threads, CreateNoMemory(t) PROVE McuTypes'
    BY <1>5 DEF CreateNoMemory, SetCheckpoint, Unlock, Goto
<1>6. ASSUME NEW t \in Threads, CreateDestroys(t) PROVE McuTypes'
    BY <1>6 DEF CreateDestroys, Goto
<1>7. ASSUME NEW t \in Threads, CreateInt(t) PROVE McuTypes'
    <2>1. ChanMsg("PUSH_BUFFER_INTERMEDIATE", chan_uid[FileOf[t]]) \in Commands
        BY CommandTypes DEF UserTypes, ChannelCommands
    <2>2. cmd' = Append(cmd, ChanMsg("PUSH_BUFFER_INTERMEDIATE", chan_uid[FileOf[t]])) /\ ~CmdFull
        BY <1>7 DEF CreateInt, al5_mcu_send, create_mail_from_bufpool
    <2>3. cmd' \in Seq(Commands) /\ Len(cmd') <= CmdCap
        BY <2>1, <2>2, MailSeqs DEF CmdFull
    <2> QED
        BY <1>7, <2>3 DEF CreateInt
<1>8. ASSUME NEW t \in Threads, CreateRef(t) PROVE McuTypes'
    <2>1. ChanMsg("PUSH_BUFFER_REFERENCE", chan_uid[FileOf[t]]) \in Commands
        BY CommandTypes DEF UserTypes, ChannelCommands
    <2>2. cmd' = Append(cmd, ChanMsg("PUSH_BUFFER_REFERENCE", chan_uid[FileOf[t]])) /\ ~CmdFull
        BY <1>8 DEF CreateRef, al5_mcu_send, create_mail_from_bufpool
    <2>3. cmd' \in Seq(Commands) /\ Len(cmd') <= CmdCap
        BY <2>1, <2>2, MailSeqs DEF CmdFull
    <2> QED
        BY <1>8, <2>3 DEF CreateRef
<1>9. ASSUME NEW t \in Threads, al5e_user_encode_one_frame(t) PROVE McuTypes'
    <2>1. ChanMsg("ENCODE_ONE_FRM", chan_uid[FileOf[t]]) \in Commands
        BY CommandTypes DEF UserTypes, ChannelCommands
    <2>2. cmd' = Append(cmd, ChanMsg("ENCODE_ONE_FRM", chan_uid[FileOf[t]])) /\ ~CmdFull
        BY <1>9 DEF al5e_user_encode_one_frame, al5_mcu_send, SendOnChannel, al5e_create_encode_one_frame_msg
    <2>3. cmd' \in Seq(Commands) /\ Len(cmd') <= CmdCap
        BY <2>1, <2>2, MailSeqs DEF CmdFull
    <2> QED
        BY <1>9, <2>3 DEF al5e_user_encode_one_frame
<1>10. ASSUME NEW t \in Threads, PutStreamEnter(t) PROVE McuTypes'
    BY <1>10 DEF PutStreamEnter, MayCall, Goto
<1>11. ASSUME NEW t \in Threads, PutStreamSend(t) PROVE McuTypes'
    <2>1. CASE CmdFull
        BY <1>11, <2>1 DEF PutStreamSend
    <2>2. CASE ~CmdFull
        <3>1. ChanMsg("PUT_STREAM_BUFFER", chan_uid[FileOf[t]]) \in Commands
            BY CommandTypes DEF UserTypes, ChannelCommands
        <3>2. cmd' = Append(cmd, ChanMsg("PUT_STREAM_BUFFER", chan_uid[FileOf[t]]))
            BY <1>11, <2>2 DEF PutStreamSend, al5_mcu_send
        <3>3. cmd' \in Seq(Commands) /\ Len(cmd') <= CmdCap
            BY <2>2, <3>1, <3>2, MailSeqs DEF CmdFull
        <3> QED
            BY <1>11, <3>3 DEF PutStreamSend
    <2> QED
        BY <2>1, <2>2
<1>12. ASSUME NEW t \in Threads, GetRecEnter(t) PROVE McuTypes'
    <2>1. ChanMsg("GET_RECONSTRUCTED_PICTURE", chan_uid[FileOf[t]]) \in Commands
        BY CommandTypes DEF UserTypes, ChannelCommands
    <2>2. cmd' = Append(cmd, ChanMsg("GET_RECONSTRUCTED_PICTURE", chan_uid[FileOf[t]])) /\ ~CmdFull
        BY <1>12 DEF GetRecEnter, al5_mcu_send, SendOnChannel
    <2>3. cmd' \in Seq(Commands) /\ Len(cmd') <= CmdCap
        BY <2>1, <2>2, MailSeqs DEF CmdFull
    <2> QED
        BY <1>12, <2>3 DEF GetRecEnter
<1>13. ASSUME NEW t \in Threads, al5e_user_release_rec(t) PROVE McuTypes'
    <2>1. ChanMsg("RELEASE_RECONSTRUCTED_PICTURE", chan_uid[FileOf[t]]) \in Commands
        BY CommandTypes DEF UserTypes, ChannelCommands
    <2>2. cmd' = Append(cmd, ChanMsg("RELEASE_RECONSTRUCTED_PICTURE", chan_uid[FileOf[t]])) /\ ~CmdFull
        BY <1>13 DEF al5e_user_release_rec, al5_mcu_send, SendOnChannel
    <2>3. cmd' \in Seq(Commands) /\ Len(cmd') <= CmdCap
        BY <2>1, <2>2, MailSeqs DEF CmdFull
    <2> QED
        BY <1>13, <2>3 DEF al5e_user_release_rec
<1> QED
    BY <1>1, <1>2, <1>3, <1>4, <1>5, <1>6, <1>7, <1>8, <1>9, <1>10, <1>11, <1>12, <1>13 DEF
       EncoderStep, OwnStep

\* A checkpoint is left only under the mutex of the create.
LEMMA ChannelOK_Encoder == UsersInv /\ EncoderStep => ChannelOK'
<1> SUFFICES ASSUME UsersInv, EncoderStep PROVE ChannelOK'
    OBVIOUS
<1> USE McuAssumption, UsersAssumption DEF UsersInv, UserTypes, FlagTypes, ThreadTypes,
       CallsOK, ChannelOK, Destroying, Releasing, Closing, groupVars, chanVars, queueVars,
       poolVars, threadVars, mcuVars
<1>1. ASSUME NEW t \in Threads, CreateEnter(t) PROVE ChannelOK'
    BY <1>1 DEF CreateEnter, MayCall, ResumeAt, Goto, channel_is_fully_created, al5_chan_is_created,
       al5_have_checkpoint
<1>2. ASSUME NEW t \in Threads, CreateRefused(t) PROVE ChannelOK'
    BY <1>2 DEF CreateRefused, CreateReturn, Unlock, Goto
<1>3. ASSUME NEW t \in Threads, CreateAnswered(t) PROVE ChannelOK'
    <2>1. \A u \in Threads : u # t /\ FileOf[u] = FileOf[t] => pc[u] \notin Creating
        BY <1>3, DestroysAlone DEF CreateAnswered, Creating
    <2>2. CASE CreateReturn(t) /\ UNCHANGED chanVars
        BY <1>3, <2>2 DEF CreateAnswered, CreateReturn, Goto
    <2> DEFINE ch == Head(queues[FileOf[t]]["CREATE"]).chan
    <2>3. CASE /\ ch # BAD_CHAN /\ chan_uid' = [chan_uid EXCEPT ![FileOf[t]] = ch]
               /\ SetCheckpoint(FileOf[t], "ALLOCATE_BUFFERS") /\ Goto(t, "create_allocate")
        <3>1. pc[t] = "create_wait" /\ UNCHANGED <<uid, poolVars, after>>
            BY <1>3 DEF CreateAnswered
        <3> QED
            BY <2>1, <2>3, <3>1 DEF SetCheckpoint, Goto, Creating
    <2> QED
        BY <1>3, <2>2, <2>3 DEF CreateAnswered, check_and_affect_chan_uid
<1>4. ASSUME NEW t \in Threads, CreateAllocate(t) PROVE ChannelOK'
    <2>1. \A u \in Threads : u # t /\ FileOf[u] = FileOf[t] => pc[u] \notin Creating
        BY <1>4, DestroysAlone DEF CreateAllocate, Creating
    <2> QED
        BY <1>4, <2>1 DEF CreateAllocate, SetCheckpoint, Goto, Creating
<1>5. ASSUME NEW t \in Threads, CreateNoMemory(t) PROVE ChannelOK'
    <2>1. \A u \in Threads : u # t /\ FileOf[u] = FileOf[t] => pc[u] \notin Creating
        BY <1>5, DestroysAlone DEF CreateNoMemory, Creating
    <2> QED
        BY <1>5, <2>1 DEF CreateNoMemory, SetCheckpoint, Goto, Creating
<1>6. ASSUME NEW t \in Threads, CreateDestroys(t) PROVE ChannelOK'
    BY <1>6 DEF CreateDestroys, Goto
<1>7. ASSUME NEW t \in Threads, CreateInt(t) PROVE ChannelOK'
    <2>1. \A u \in Threads : u # t /\ FileOf[u] = FileOf[t] => pc[u] \notin Creating
        BY <1>7, DestroysAlone DEF CreateInt, Creating
    <2> QED
        BY <1>7, <2>1 DEF CreateInt, SetCheckpoint, Goto, Creating
<1>8. ASSUME NEW t \in Threads, CreateRef(t) PROVE ChannelOK'
    <2>1. \A u \in Threads : u # t /\ FileOf[u] = FileOf[t] => pc[u] \notin Creating
        BY <1>8, DestroysAlone DEF CreateRef, Creating
    <2> QED
        BY <1>8, <2>1 DEF CreateRef, SetCheckpoint, CreateReturn, Goto, Creating
<1>9. ASSUME NEW t \in Threads, al5e_user_encode_one_frame(t) PROVE ChannelOK'
    BY <1>9 DEF al5e_user_encode_one_frame, SendOnChannel, al5_mcu_send, userVars
<1>10. ASSUME NEW t \in Threads, PutStreamEnter(t) PROVE ChannelOK'
    BY <1>10 DEF PutStreamEnter, MayCall, Goto
<1>11. ASSUME NEW t \in Threads, PutStreamSend(t) PROVE ChannelOK'
    BY <1>11 DEF PutStreamSend, al5_mcu_send, Goto
<1>12. ASSUME NEW t \in Threads, GetRecEnter(t) PROVE ChannelOK'
    BY <1>12 DEF GetRecEnter, MayCall, SendOnChannel, al5_mcu_send, IsFree, Lock, Waiting,
       Goto
<1>13. ASSUME NEW t \in Threads, al5e_user_release_rec(t) PROVE ChannelOK'
    BY <1>13 DEF al5e_user_release_rec, SendOnChannel, al5_mcu_send, userVars
<1> QED
    BY <1>1, <1>2, <1>3, <1>4, <1>5, <1>6, <1>7, <1>8, <1>9, <1>10, <1>11, <1>12, <1>13 DEF
       EncoderStep, OwnStep
-----------------------------------------------------------------------------
\* What UsersInv gives for the encoder.

LEMMA EncoderKeeps == UsersInv /\ [Next]_vars => UsersInv'
<1> SUFFICES ASSUME UsersInv, [Next]_vars PROVE UsersInv'
    OBVIOUS
<1>1. CASE EncoderStep
    <2>1. /\ McuTypes' /\ UserTypes' /\ FlagTypes' /\ ThreadTypes' /\ CallsOK' /\ LocksOK'
          /\ QueuesOK' /\ ChannelOK'
        BY <1>1, McuTypes_Encoder, UserTypes_Encoder, FlagTypes_Encoder, ThreadTypes_Encoder,
           CallsOK_Encoder, LocksOK_Encoder, QueuesOK_Encoder, ChannelOK_Encoder
    <2> QED
        BY <2>1 DEF UsersInv
<1> QED
    BY <1>1, NextSteps, SharedKeeps, UsersStutter DEF vars

\* The inductive invariant holds of every behaviour of the encoder, whatever
\* calls its threads make and whenever signals, the MCU and the interrupt come.
THEOREM EncoderInvariant == Spec => []UsersInv
<1>1. Init => UsersInv
    BY UsersStart DEF Init
<1> QED
    BY <1>1, EncoderKeeps, PTL DEF Spec

\* The boxes never hold more than they can, a queue holds only mails, and every
\* user, mutex and flag keeps its type.  (al5_mcu_send, al5_user_init)
THEOREM TypeCorrect == Spec => []TypeOK
<1>1. UsersInv => TypeOK
    BY UsersInvTypes DEF TypeOK
<1> QED
    BY <1>1, EncoderInvariant, PTL

\* At every point of every call a thread holds exactly the mutexes the code means
\* it to hold: none when it returns, on any error path, all of them while a
\* channel is destroyed.  (al5e_user_create_channel, al5_user_destroy_channel)
THEOREM MutexesAreGivenBack == Spec => []MutexDiscipline
    BY EncoderInvariant, UsersInvMutexes, PTL

\* Every way out of al5_user_destroy_channel locks the queues again.
THEOREM QueuesAreRelocked == Spec => []QueuesRelocked
    BY EncoderInvariant, UsersInvQueues, PTL

\* No path of al5e_user_create_channel or al5_user_destroy_channel leaves buffers to
\* a user without a channel.
THEOREM PoolsHaveAChannel == Spec => []PoolsBelongToChannel
<1>1. UsersInv => PoolsBelongToChannel
    BY DEF UsersInv, ChannelOK, PoolsBelongToChannel, al5_chan_is_created
<1> QED
    BY <1>1, EncoderInvariant, PTL

-----------------------------------------------------------------------------
\* Channels and their ids, when the firmware hands out fresh ones.

LEMMA NextFresh == PromptReuse = FALSE /\ Next => FreshStep \/ EncoderStep
<1> SUFFICES ASSUME PromptReuse = FALSE, Next, ~EncoderStep PROVE FreshStep
    OBVIOUS
<1>1. ASSUME NEW t \in Threads, Call(t) PROVE FreshStep
    BY <1>1 DEF Call, EncoderStep, OwnStep, FreshStep, SharedCall, WaitStatusEnter, MayCall,
       WaitCall, WaitOps
<1>2. ASSUME NEW t \in Threads, InCall(t) PROVE FreshStep
    BY <1>2 DEF InCall, EncoderStep, OwnStep, FreshStep, SharedCall, WaitStatusReturn,
       GetRecReturn, WaitOps
<1>3. ASSUME NEW t \in Threads, Interrupted(t) PROVE FreshStep
    BY <1>3 DEF Interrupted, FreshStep, SharedCall, WaitOps
<1>4. McuCommand \/ McuFeedback => FreshStep
    BY CommandFresh, FeedbackFresh DEF McuFeedback, FreshStep
<1> QED
    BY <1>1, <1>2, <1>3, <1>4 DEF Next, FreshStep

\* The encoder's own steps that touch no id.
QuietStep(t) ==
    \/ CreateEnter(t) \/ CreateRefused(t) \/ CreateAllocate(t) \/ CreateNoMemory(t)
    \/ CreateDestroys(t) \/ PutStreamEnter(t)

LEMMA QuietSteps ==
    ASSUME UsersInv, NEW t \in Threads, QuietStep(t)
    PROVE  Passive /\ UNCHANGED <<uid, slot, creator>>
<1> DEFINE Goal == Passive /\ UNCHANGED <<uid, slot, creator>>
<1>0. ThreadTypes /\ CallsOK
    BY DEF UsersInv
<1> USE <1>0, UsersAssumption DEF ThreadTypes, Passive, Onward, Closing, groupVars, chanVars,
       queueVars, poolVars, threadVars, mcuVars
<1>1. CASE CreateEnter(t)
    BY <1>1 DEF CreateEnter, MayCall, Lock, Goto
<1>2. CASE CreateRefused(t)
    BY <1>2 DEF CreateRefused, CreateReturn, Unlock, Goto
<1>3. CASE CreateAllocate(t)
    BY <1>3 DEF CreateAllocate, SetCheckpoint, Goto
<1>4. CASE CreateNoMemory(t)
    BY <1>4 DEF CreateNoMemory, SetCheckpoint, Unlock, Goto, CallsOK, Destroying, Releasing
<1>5. CASE CreateDestroys(t)
    BY <1>5 DEF CreateDestroys, Goto, CallsOK
<1>6. CASE PutStreamEnter(t)
    BY <1>6 DEF PutStreamEnter, MayCall, Goto
<1> QED
    BY <1>1, <1>2, <1>3, <1>4, <1>5, <1>6 DEF QuietStep

LEMMA EncoderKeepsIds == UsersInv /\ IdsInv /\ EncoderStep => IdsInv'
<1> SUFFICES ASSUME UsersInv, IdsInv, NEW t \in Threads, OwnStep(t) PROVE IdsInv'
    BY DEF EncoderStep
<1>0. FileOf[t] \in Files /\ ThreadTypes
    BY UsersAssumption DEF UsersInv
<1> DEFINE Same == UNCHANGED <<uid, slot, chan_uid, after, signals, status, irq, queues, alive, pushed,
                               frames, creator>>
<1> USE DEF groupVars, chanVars, queueVars, threadVars, mcuVars, userVars
<1>1. CASE QuietStep(t)
    BY <1>1, QuietSteps, PassiveKeeps
<1>2. CASE CreateAnswered(t)
    <2>1. PICK f, new : f = FileOf[t] /\ new = Head(queues[f]["CREATE"]).chan
        OBVIOUS
    <2>2. /\ pc[t] = "create_wait" /\ queues[f]["CREATE"] # <<>> /\ PopAny(f, "CREATE")
          /\ UNCHANGED <<uid, slot, after, signals, irq, cmd, status, alive, pushed, frames, creator>>
        BY <1>2, <2>1 DEF CreateAnswered
    <2>3. PICK label : pc' = [pc EXCEPT ![t] = label]
        BY <1>2 DEF CreateAnswered, CreateReturn, Goto
    <2>4. chan_uid' = [chan_uid EXCEPT ![f] = new]
        <3>1. CASE new = BAD_CHAN /\ UNCHANGED chanVars
            <4>1. chan_uid[f] = BAD_CHAN /\ chan_uid \in [Files -> ChanIds]
                BY <2>1, <2>2, IdTypes DEF UsersInv, ChannelOK
            <4> QED
                BY <3>1, <4>1
        <3>2. CASE check_and_affect_chan_uid(f, new)
            BY <3>2 DEF check_and_affect_chan_uid
        <3> QED
            BY <1>2, <2>1, <3>1, <3>2 DEF CreateAnswered
    <2> QED
        BY <2>1, <2>2, <2>3, <2>4, AnsweredKeeps
<1>3. CASE CreateInt(t)
    <2>1. /\ cmd' = Append(cmd, ChanMsg("PUSH_BUFFER_INTERMEDIATE", chan_uid[FileOf[t]])) /\ Same
          /\ pc[t] = "create_int" /\ pc' = [pc EXCEPT ![t] = "create_ref"]
        BY <1>3 DEF CreateInt, al5_mcu_send, create_mail_from_bufpool, Goto
    <2>2. Onward
        BY <1>0, <2>1 DEF Onward, Closing, ThreadTypes
    <2> QED
        BY <1>0, <2>1, <2>2, ChannelSend DEF ChannelCommands, FrameMsgs
<1>4. CASE CreateRef(t)
    <2>1. /\ cmd' = Append(cmd, ChanMsg("PUSH_BUFFER_REFERENCE", chan_uid[FileOf[t]])) /\ Same
          /\ pc[t] = "create_ref" /\ pc' = [pc EXCEPT ![t] = "idle"]
        BY <1>4 DEF CreateRef, CreateReturn, al5_mcu_send, create_mail_from_bufpool, Goto
    <2>2. Onward
        BY <1>0, <2>1 DEF Onward, Closing, ThreadTypes
    <2> QED
        BY <1>0, <2>1, <2>2, ChannelSend DEF ChannelCommands, FrameMsgs
<1>5. CASE al5e_user_encode_one_frame(t)
    <2>1. /\ cmd' = Append(cmd, ChanMsg("ENCODE_ONE_FRM", chan_uid[FileOf[t]])) /\ Same
          /\ UNCHANGED pc /\ chan_uid[FileOf[t]] # BAD_CHAN /\ IsFree(t, "XCODE")
        BY <1>5 DEF al5e_user_encode_one_frame, SendOnChannel, al5_mcu_send,
           al5e_create_encode_one_frame_msg, al5_chan_is_created
    <2>2. Onward
        BY <1>0, <2>1 DEF Onward, Closing
    <2>3. \A u \in Threads : FileOf[u] = FileOf[t] => pc[u] # "destroy_wait"
        BY <2>1, OpOrderFacts, NobodyDestroys
    <2> QED
        BY <1>0, <2>1, <2>2, <2>3, ChannelSend DEF ChannelCommands
<1>6. CASE PutStreamSend(t)
    <2>1. Same /\ pc[t] = "put_send" /\ pc' = [pc EXCEPT ![t] = "idle"]
        BY <1>6 DEF PutStreamSend, Goto
    <2>2. Onward
        BY <1>0, <2>1 DEF Onward, Closing, ThreadTypes
    <2>3. CASE cmd' = cmd
        BY <2>1, <2>2, <2>3, PassiveKeeps DEF Passive
    <2>4. CASE cmd' = Append(cmd, ChanMsg("PUT_STREAM_BUFFER", chan_uid[FileOf[t]]))
        BY <1>0, <2>1, <2>2, <2>4, ChannelSend DEF ChannelCommands, FrameMsgs
    <2> QED
        BY <1>6, <2>3, <2>4 DEF PutStreamSend, al5_mcu_send
<1>7. CASE GetRecEnter(t)
    <2>1. /\ cmd' = Append(cmd, ChanMsg("GET_RECONSTRUCTED_PICTURE", chan_uid[FileOf[t]])) /\ Same
          /\ pc[t] = "idle" /\ pc' = [pc EXCEPT ![t] = Waiting("REC")]
        BY <1>7 DEF GetRecEnter, MayCall, SendOnChannel, al5_mcu_send, Goto
    <2>2. Onward
        BY <1>0, <2>1 DEF Onward, Closing, ThreadTypes
    <2> QED
        BY <1>0, <2>1, <2>2, ChannelSend DEF ChannelCommands, FrameMsgs
<1>8. CASE al5e_user_release_rec(t)
    <2>1. /\ cmd' = Append(cmd, ChanMsg("RELEASE_RECONSTRUCTED_PICTURE", chan_uid[FileOf[t]])) /\ Same
          /\ UNCHANGED pc
        BY <1>8 DEF al5e_user_release_rec, SendOnChannel, al5_mcu_send
    <2>2. Onward
        BY <1>0, <2>1 DEF Onward, Closing
    <2> QED
        BY <1>0, <2>1, <2>2, ChannelSend DEF ChannelCommands, FrameMsgs
<1> QED
    BY <1>1, <1>2, <1>3, <1>4, <1>5, <1>6, <1>7, <1>8 DEF OwnStep, QuietStep

LEMMA NextKeepsIds == PromptReuse = FALSE /\ UsersInv /\ IdsInv /\ [Next]_vars => IdsInv'
    BY NextFresh, FreshKeepsIds, EncoderKeepsIds, IdsStutter DEF vars

\* The invariant about ids holds of every behaviour of the encoder, for a firmware
\* that hands an id out again only when no file and no mail goes by it.
THEOREM ChannelInvariant == PromptReuse = FALSE => (Spec => []IdsInv)
<1> SUFFICES ASSUME PromptReuse = FALSE PROVE Spec => []IdsInv
    OBVIOUS
<1>1. Init => IdsInv
    BY IdsStart DEF Init
<1>2. UsersInv /\ IdsInv /\ [Next]_vars => IdsInv'
    BY NextKeepsIds
<1> QED
    BY <1>1, <1>2, EncoderInvariant, PTL DEF Spec

\* Two files never hold the same channel, whoever creates, destroys, is interrupted
\* or closes meanwhile.  (check_and_affect_chan_uid, al5_user_destroy_channel)
THEOREM ChannelsAreDistinct == PromptReuse = FALSE => (Spec => []ChannelsDistinct)
<1> SUFFICES ASSUME PromptReuse = FALSE PROVE Spec => []ChannelsDistinct
    OBVIOUS
<1> QED
    BY ChannelInvariant, IdsDistinct, PTL

\* A frame that al5e_user_encode_one_frame accepted reaches the firmware while its
\* channel lives, until a wait is cut short by a signal.
THEOREM FramesAreNotLost == PromptReuse = FALSE => (Spec => []FramesReachChannel)
<1> SUFFICES ASSUME PromptReuse = FALSE PROVE Spec => []FramesReachChannel
    OBVIOUS
<1> QED
    BY ChannelInvariant, IdsFrames, PTL

\* What destroy_orphan_channel destroys is the channel of no file.
THEOREM OrphansAreNobodys == PromptReuse = FALSE => (Spec => []OrphanBelongsToNobody)
<1> SUFFICES ASSUME PromptReuse = FALSE PROVE Spec => []OrphanBelongsToNobody
    OBVIOUS
<1>1. UsersInv /\ IdsInv => OrphanBelongsToNobody
    <2> SUFFICES ASSUME UsersInv, IdsInv, cmd # <<>>, "orphan" \in DOMAIN Head(cmd),
                        Head(cmd).chan \in alive
                 PROVE  \A f \in Files : chan_uid[f] # Head(cmd).chan
        BY DEF OrphanBelongsToNobody
    <2>1. 1 \in 1..Len(cmd) /\ Head(cmd) = cmd[1]
        BY IdTypes
    <2>2. Head(cmd).chan # BAD_CHAN
        BY IdTypes, McuAssumption
    <2> QED
        BY <2>1, <2>2 DEF IdsInv, LinksOK, OrphansOK, Held
<1> QED
    BY <1>1, ChannelInvariant, EncoderInvariant, PTL

\* The encoder's own steps end no wait for the answer to a destroy.
LEMMA NoOwnAnswer ==
    ASSUME UsersInv, EncoderStep, NEW t \in Threads, pc[t] = "destroy_wait", pc'[t] = "destroy_unlock"
    PROVE  FALSE
<1>0. ThreadTypes /\ \A f \in Files : ResumeAt(f) # "destroy_unlock"
    BY ResumeLabels DEF UsersInv
<1>1. PICK u \in Threads : OwnStep(u)
    BY DEF EncoderStep
<1> USE <1>0, UsersAssumption DEF ThreadTypes, Goto
<1>2. CASE CreateEnter(u) \/ CreateRefused(u) \/ CreateAnswered(u) \/ CreateAllocate(u)
    BY <1>2 DEF CreateEnter, MayCall, CreateRefused, CreateAnswered, CreateAllocate, CreateReturn
<1>3. CASE CreateNoMemory(u) \/ CreateDestroys(u) \/ CreateInt(u) \/ CreateRef(u)
    BY <1>3 DEF CreateNoMemory, CreateDestroys, CreateInt, CreateRef, CreateReturn
<1>4. CASE al5e_user_encode_one_frame(u) \/ al5e_user_release_rec(u)
    BY <1>4 DEF al5e_user_encode_one_frame, al5e_user_release_rec, userVars, threadVars
<1>5. CASE PutStreamEnter(u) \/ PutStreamSend(u) \/ GetRecEnter(u)
    BY <1>5 DEF PutStreamEnter, MayCall, PutStreamSend, GetRecEnter, Waiting
<1> QED
    BY <1>1, <1>2, <1>3, <1>4, <1>5 DEF OwnStep

\* When a destroy that waited frees the buffers, the firmware has let go of the
\* channel.  (al5_user_destroy_channel, quiet = 0)
THEOREM BuffersFreedAfterAnswer == PromptReuse = FALSE => (Spec => FreedAfterAnswer)
<1> SUFFICES ASSUME PromptReuse = FALSE PROVE Spec => FreedAfterAnswer
    OBVIOUS
<1>1. UsersInv /\ IdsInv /\ [Next]_vars =>
        [\A t \in Threads :
          pc[t] = "destroy_wait" /\ pc'[t] = "destroy_unlock" /\ chan_uid'[FileOf[t]] = BAD_CHAN
          => chan_uid[FileOf[t]] \notin {ch \in alive : creator[ch] = FileOf[t]}]_vars
    <2> SUFFICES ASSUME UsersInv, IdsInv, NEW t \in Threads, pc[t] = "destroy_wait",
                        pc'[t] = "destroy_unlock", chan_uid'[FileOf[t]] = BAD_CHAN, Next
                 PROVE  chan_uid[FileOf[t]] \notin alive
        BY DEF vars
    <2>1. CASE EncoderStep
        BY <2>1, NoOwnAnswer
    <2>2. CASE SharedStep
        BY <2>2, WaitEnds, AnsweredIsDead
    <2> QED
        BY <2>1, <2>2, NextSteps
<1> QED
    BY <1>1, ChannelInvariant, EncoderInvariant, PTL DEF Spec, FreedAfterAnswer
-----------------------------------------------------------------------------
\* The buffers of a channel: the intermediate ones, then the reference ones.

INT == "PUSH_BUFFER_INTERMEDIATE"
REF == "PUSH_BUFFER_REFERENCE"

\* The places in the command box where buffers of a channel wait.
Pushes(msg_uid, ch) == {i \in 1..Len(cmd) : cmd[i].uid = msg_uid /\ cmd[i].chan = ch}

\* What the firmware has and what it will get are in order, once each.
InOrder(ch) ==
    /\ pushed[ch] \in {<<>>, <<INT>>, <<INT, REF>>}
    /\ \A i \in Pushes(INT, ch) : pushed[ch] = <<>> /\ \A j \in Pushes(INT, ch) : j = i
    /\ \A i \in Pushes(REF, ch) :
          /\ pushed[ch] = <<INT>> \/ (pushed[ch] = <<>> /\ \E j \in Pushes(INT, ch) : j < i)
          /\ \A j \in Pushes(REF, ch) : j = i

\* No buffers so far; only the intermediate ones.
GivenNone(ch) == pushed[ch] = <<>> /\ Pushes(INT, ch) = {} /\ Pushes(REF, ch) = {}
GivenInt(ch)  ==
    /\ Pushes(REF, ch) = {}
    /\ pushed[ch] = <<INT>> \/ (pushed[ch] = <<>> /\ Pushes(INT, ch) # {})

\* The checkpoint of a file says what its channel has been given.
CheckpointOK(f) ==
    chan_uid[f] \in alive =>
        /\ checkpoint[f] \in {"ALLOCATE_BUFFERS", "SEND_INTERMEDIATE_BUFFERS"} =>
              GivenNone(chan_uid[f])
        /\ checkpoint[f] = "SEND_REFERENCE_BUFFERS" => GivenInt(chan_uid[f])

PushInv ==
    /\ \A ch \in alive : InOrder(ch)
    /\ \A f \in Files : CheckpointOK(f)

\* How the waiting buffers change with the command box.
LEMMA PushesTaken ==
    ASSUME UsersInv, Handles, NEW u, NEW ch
    PROVE  /\ \A i \in Pushes(u, ch)' : i \in Nat /\ i # 0 /\ i + 1 \in Pushes(u, ch)
           /\ \A i \in Pushes(u, ch) :
                 i \in Nat /\ (i = 1 \/ (i - 1 \in Pushes(u, ch)' /\ i > 1))
<1>1. cmd \in Seq(Commands) /\ cmd # <<>> /\ cmd' = Tail(cmd)
    BY IdTypes DEF Handles
<1>2. /\ Len(cmd) \in Nat \ {0} /\ Len(cmd') = Len(cmd) - 1
      /\ \A i \in 1..Len(cmd') : i + 1 \in 1..Len(cmd) /\ cmd'[i] = cmd[i+1]
      /\ \A i \in 1..Len(cmd) : i = 1 \/ (i - 1 \in 1..Len(cmd') /\ cmd'[i-1] = cmd[i])
    BY <1>1, Shrunk
<1> QED
    BY <1>2 DEF Pushes

LEMMA PushesFirst ==
    ASSUME UsersInv, Handles, NEW u, NEW ch
    PROVE  1 \in Pushes(u, ch) <=> Head(cmd).uid = u /\ Head(cmd).chan = ch
    BY CmdFirst DEF Pushes

LEMMA PushesSame ==
    ASSUME UsersInv, NEW m \in Commands, NEW u, NEW ch, cmd' = cmd \/ cmd' = Append(cmd, m),
           ~(m.uid = u /\ m.chan = ch)
    PROVE  Pushes(u, ch)' = Pushes(u, ch)
<1>1. CASE cmd' = cmd
    BY <1>1 DEF Pushes
<1>2. CASE cmd' = Append(cmd, m)
    <2>1. cmd \in Seq(Commands)
        BY IdTypes
    <2>2. /\ \A i \in 1..Len(cmd) : i \in 1..Len(cmd') /\ cmd'[i] = cmd[i]
          /\ \A i \in 1..Len(cmd') : (i \in 1..Len(cmd) /\ cmd'[i] = cmd[i]) \/ cmd'[i] = m
        BY <1>2, <2>1, Grown
    <2> QED
        BY <2>2 DEF Pushes
<1> QED
    BY <1>1, <1>2

LEMMA PushesAdded ==
    ASSUME UsersInv, NEW m \in Commands, cmd' = Append(cmd, m), NEW u, NEW ch,
           m.uid = u, m.chan = ch
    PROVE  /\ Pushes(u, ch)' = Pushes(u, ch) \cup {Len(cmd) + 1}
           /\ Len(cmd) \in Nat
<1>1. cmd \in Seq(Commands)
    BY IdTypes
<1>2. /\ Len(cmd) \in Nat
      /\ \A i \in 1..Len(cmd) : i \in 1..Len(cmd') /\ cmd'[i] = cmd[i]
      /\ Len(cmd) + 1 \in 1..Len(cmd') /\ cmd'[Len(cmd) + 1] = m
      /\ \A i \in 1..Len(cmd') : (i \in 1..Len(cmd) /\ cmd'[i] = cmd[i]) \/ (i = Len(cmd) + 1 /\ cmd'[i] = m)
    BY <1>1, Grown
<1> QED
    BY <1>2 DEF Pushes

\* Steps that give no buffers, and search nothing.
Tame ==
    /\ UNCHANGED <<alive, pushed>>
    /\ cmd' = cmd \/ \E m \in Commands : /\ m.uid \notin {INT, REF, "SEARCH_START_CODE"}
                                     /\ cmd' = Append(cmd, m)
    /\ \A f \in Files :
          \/ chan_uid'[f] = BAD_CHAN
          \/ /\ chan_uid'[f] = chan_uid[f]
             /\ \/ checkpoint'[f] \in {checkpoint[f], "NO_CHECKPOINT"}
                \/ /\ checkpoint[f] = "ALLOCATE_BUFFERS"
                   /\ checkpoint'[f] = "SEND_INTERMEDIATE_BUFFERS"

LEMMA TameKeeps == UsersInv /\ PushInv /\ Tame => PushInv'
<1> SUFFICES ASSUME UsersInv, PushInv, Tame PROVE PushInv'
    OBVIOUS
<1>1. UNCHANGED <<alive, pushed>> /\ alive \subseteq Chans
    BY IdTypes DEF Tame
<1>2. \A ch : Pushes(INT, ch)' = Pushes(INT, ch) /\ Pushes(REF, ch)' = Pushes(REF, ch)
    <2>1. CASE cmd' = cmd
        BY <2>1 DEF Pushes
    <2>2. ASSUME NEW m \in Commands, m.uid \notin {INT, REF}, cmd' = Append(cmd, m)
          PROVE  \A ch : Pushes(INT, ch)' = Pushes(INT, ch) /\ Pushes(REF, ch)' = Pushes(REF, ch)
        BY <2>2, PushesSame
    <2> QED
        BY <2>1, <2>2 DEF Tame
<1>3. ASSUME NEW ch \in alive PROVE InOrder(ch)'
    BY <1>1, <1>2 DEF PushInv, InOrder
<1>4. ASSUME NEW f \in Files PROVE CheckpointOK(f)'
    <2>1. CheckpointOK(f)
        BY DEF PushInv
    <2>2. CASE chan_uid'[f] = BAD_CHAN
        BY <1>1, <2>2, McuAssumption DEF CheckpointOK
    <2>3. CASE chan_uid'[f] = chan_uid[f] /\ checkpoint'[f] \in {checkpoint[f], "NO_CHECKPOINT"}
        BY <1>1, <1>2, <2>1, <2>3 DEF CheckpointOK, GivenNone, GivenInt
    <2>4. CASE /\ chan_uid'[f] = chan_uid[f] /\ checkpoint[f] = "ALLOCATE_BUFFERS"
               /\ checkpoint'[f] = "SEND_INTERMEDIATE_BUFFERS"
        BY <1>1, <1>2, <2>1, <2>4 DEF CheckpointOK, GivenNone, GivenInt
    <2> QED
        BY <2>2, <2>3, <2>4 DEF Tame
<1> QED
    BY <1>1, <1>3, <1>4 DEF PushInv

\* The firmware takes a command, and not one that gives buffers to this channel.
LEMMA OthersKeepOrder ==
    ASSUME UsersInv, Handles, NEW ch, pushed'[ch] = pushed[ch],
           1 \notin Pushes(INT, ch), 1 \notin Pushes(REF, ch)
    PROVE  /\ InOrder(ch) => InOrder(ch)'
           /\ GivenNone(ch) => GivenNone(ch)'
           /\ GivenInt(ch) => GivenInt(ch)'
<1>1. \A u : /\ \A i \in Pushes(u, ch)' : i \in Nat /\ i # 0 /\ i + 1 \in Pushes(u, ch)
             /\ \A i \in Pushes(u, ch) :
                   i \in Nat /\ (i = 1 \/ (i - 1 \in Pushes(u, ch)' /\ i > 1))
    BY PushesTaken
<1>2. ASSUME InOrder(ch) PROVE InOrder(ch)'
    <2>1. \A i \in Pushes(INT, ch)' : pushed[ch] = <<>> /\ \A j \in Pushes(INT, ch)' : j = i
        <3> SUFFICES ASSUME NEW i \in Pushes(INT, ch)', NEW j \in Pushes(INT, ch)'
                     PROVE  pushed[ch] = <<>> /\ j = i
            OBVIOUS
        <3>1. i + 1 \in Pushes(INT, ch) /\ j + 1 \in Pushes(INT, ch) /\ i \in Nat /\ j \in Nat
            BY <1>1
        <3>2. pushed[ch] = <<>> /\ i + 1 = j + 1
            BY <1>2, <3>1 DEF InOrder
        <3> QED
            BY <3>1, <3>2
    <2>2. ASSUME NEW i \in Pushes(REF, ch)'
          PROVE  /\ pushed[ch] = <<INT>> \/ (pushed[ch] = <<>> /\ \E j \in Pushes(INT, ch)' : j < i)
                 /\ \A j \in Pushes(REF, ch)' : j = i
        <3>1. i + 1 \in Pushes(REF, ch) /\ i \in Nat
            BY <1>1
        <3>2. pushed[ch] = <<INT>> \/ (pushed[ch] = <<>> /\ \E k \in Pushes(INT, ch) : k < i + 1)
            BY <1>2, <3>1 DEF InOrder
        <3>3. ASSUME NEW k \in Pushes(INT, ch), k < i + 1 PROVE \E j \in Pushes(INT, ch)' : j < i
            <4>1. k \in Nat /\ k - 1 \in Pushes(INT, ch)'
                BY <1>1
            <4> QED
                BY <3>1, <3>3, <4>1
        <3>4. ASSUME NEW j \in Pushes(REF, ch)' PROVE j = i
            <4>1. j + 1 \in Pushes(REF, ch) /\ j \in Nat
                BY <1>1
            <4>2. j + 1 = i + 1
                BY <1>2, <3>1, <4>1 DEF InOrder
            <4> QED
                BY <3>1, <4>1, <4>2
        <3> QED
            BY <3>2, <3>3, <3>4
    <2>3. pushed[ch] \in {<<>>, <<INT>>, <<INT, REF>>}
        BY <1>2 DEF InOrder
    <2> QED
        BY <2>1, <2>2, <2>3 DEF InOrder
<1>3. GivenNone(ch) => GivenNone(ch)'
    BY <1>1 DEF GivenNone
<1>4. GivenInt(ch) => GivenInt(ch)'
    <2>1. Pushes(REF, ch) = {} => Pushes(REF, ch)' = {}
        BY <1>1
    <2>2. Pushes(INT, ch) # {} => Pushes(INT, ch)' # {}
        BY <1>1
    <2> QED
        BY <2>1, <2>2 DEF GivenInt
<1> QED
    BY <1>2, <1>3, <1>4

\* What the checkpoint says stays true as long as the channel keeps its state.
LEMMA CheckpointKept ==
    ASSUME PushInv, NEW f \in Files, UNCHANGED <<chan_uid, checkpoint>>,
           chan_uid[f] \in alive' => chan_uid[f] \in alive,
           \A ch : ch = chan_uid[f] /\ ch \in alive' =>
              /\ GivenNone(ch) => GivenNone(ch)'
              /\ GivenInt(ch) => GivenInt(ch)' \/ checkpoint[f] # "SEND_REFERENCE_BUFFERS"
    PROVE  CheckpointOK(f)'
<1>1. CASE chan_uid[f] \notin alive'
    BY <1>1 DEF CheckpointOK
<1>2. CASE chan_uid[f] \in alive'
    <2>1. PICK ch : ch = chan_uid[f] /\ ch = chan_uid'[f] /\ ch \in alive' /\ ch \in alive
        BY <1>2
    <2>2. /\ checkpoint[f] \in {"ALLOCATE_BUFFERS", "SEND_INTERMEDIATE_BUFFERS"} => GivenNone(ch)
          /\ checkpoint[f] = "SEND_REFERENCE_BUFFERS" => GivenInt(ch)
        BY <2>1 DEF PushInv, CheckpointOK
    <2>3. /\ GivenNone(ch)' <=> GivenNone(chan_uid[f])'
          /\ GivenInt(ch)' <=> GivenInt(chan_uid[f])'
        BY <2>1 DEF GivenNone, GivenInt, Pushes
    <2>4. /\ checkpoint[f] \in {"ALLOCATE_BUFFERS", "SEND_INTERMEDIATE_BUFFERS"} => GivenNone(ch)'
          /\ checkpoint[f] = "SEND_REFERENCE_BUFFERS" => GivenInt(ch)'
        BY <2>1, <2>2
    <2> QED
        BY <2>3, <2>4 DEF CheckpointOK
<1> QED
    BY <1>1, <1>2

\* The firmware takes a command that gives no buffers to a live channel.
LEMMA TakesNoBuffers ==
    ASSUME UsersInv, PushInv, Handles, UNCHANGED <<chan_uid, checkpoint>>,
           \A ch \in alive' :
              \/ /\ ch \in alive /\ pushed'[ch] = pushed[ch]
                 /\ 1 \notin Pushes(INT, ch) /\ 1 \notin Pushes(REF, ch)
              \/ pushed'[ch] = <<>> /\ ~InCmd(ch) /\ ~Held(ch)
    PROVE  PushInv'
<1>1. ASSUME NEW ch \in alive' PROVE InOrder(ch)'
    <2>1. CASE /\ ch \in alive /\ pushed'[ch] = pushed[ch]
               /\ 1 \notin Pushes(INT, ch) /\ 1 \notin Pushes(REF, ch)
        BY <2>1, OthersKeepOrder DEF PushInv
    <2>2. CASE pushed'[ch] = <<>> /\ ~InCmd(ch)
        <3>1. Pushes(INT, ch) = {} /\ Pushes(REF, ch) = {}
            BY <2>2, IdTypes, CommandNames DEF InCmd, Pushes, ChannelCommands, INT, REF
        <3>2. Pushes(INT, ch)' = {} /\ Pushes(REF, ch)' = {}
            BY <3>1, PushesTaken
        <3> QED
            BY <2>2, <3>2 DEF InOrder
    <2> QED
        BY <2>1, <2>2
<1>2. ASSUME NEW f \in Files PROVE CheckpointOK(f)'
    <2>1. \A ch : ch = chan_uid[f] /\ ch \in alive' =>
             /\ ch \in alive /\ pushed'[ch] = pushed[ch]
             /\ 1 \notin Pushes(INT, ch) /\ 1 \notin Pushes(REF, ch)
        BY DEF Held
    <2>2. \A ch : ch = chan_uid[f] /\ ch \in alive' =>
             (GivenNone(ch) => GivenNone(ch)') /\ (GivenInt(ch) => GivenInt(ch)')
        BY <2>1, OthersKeepOrder
    <2> QED
        BY <2>1, <2>2, CheckpointKept
<1> QED
    BY <1>1, <1>2 DEF PushInv

\* A sequence of one grows to a sequence of two.
LEMMA AppendOne == ASSUME NEW S, NEW a \in S, NEW b \in S PROVE Append(<<a>>, b) = <<a, b>>
<1>1. <<a>> \in Seq(S) /\ <<a, b>> \in Seq(S)
    OBVIOUS
<1>2. Append(<<a>>, b) \in Seq(S) /\ Len(Append(<<a>>, b)) = 2
    BY <1>1
<1>3. Append(<<a>>, b)[1] = a /\ Append(<<a>>, b)[2] = b
    BY <1>1
<1>4. \A i \in 1..2 : Append(<<a>>, b)[i] = <<a, b>>[i]
    BY <1>3
<1> QED
    BY <1>1, <1>2, <1>4, SeqEqual

\* The firmware gives a channel the buffers it takes.
LEMMA GetsBuffersKeeps ==
    ASSUME UsersInv, PushInv, McuGetsBuffers, UNCHANGED userVars PROVE PushInv'
<1>0. UNCHANGED <<chan_uid, checkpoint, alive>> /\ alive \subseteq Chans
    BY IdTypes DEF userVars, chanVars, McuGetsBuffers
<1>1. PICK c, u : /\ c = Head(cmd).chan /\ u = Head(cmd).uid /\ u \in {INT, REF} /\ c \in alive
                  /\ pushed' = [pushed EXCEPT ![c] = Append(@, u)] /\ Handles
    BY TakesFirst DEF McuGetsBuffers, Takes, Handles, INT, REF
<1>2. pushed \in [Chans -> Seq({INT, REF})]
    BY DEF UsersInv, McuTypes, INT, REF
<1>3. /\ pushed'[c] = Append(pushed[c], u)
      /\ \A ch \in alive : ch # c => pushed'[ch] = pushed[ch]
    BY <1>0, <1>1, <1>2
<1>4. \A v, ch : /\ \A i \in Pushes(v, ch)' : i \in Nat /\ i # 0 /\ i + 1 \in Pushes(v, ch)
                 /\ \A i \in Pushes(v, ch) :
                       i \in Nat /\ (i = 1 \/ (i - 1 \in Pushes(v, ch)' /\ i > 1))
    BY <1>1, PushesTaken
<1>5. \A v, ch : 1 \in Pushes(v, ch) <=> v = u /\ ch = c
    BY <1>1, PushesFirst
<1>6. InOrder(c) /\ INT # REF
    BY <1>1 DEF PushInv, INT, REF
<1>7. ASSUME u = INT
      PROVE  /\ pushed[c] = <<>> /\ pushed'[c] = <<INT>> /\ Pushes(INT, c)' = {}
             /\ Pushes(REF, c)' = {} <=> Pushes(REF, c) = {}
             /\ \A i, j \in Pushes(REF, c)' : i = j
    <2>1. 1 \in Pushes(INT, c) /\ 1 \notin Pushes(REF, c)
        BY <1>5, <1>6, <1>7
    <2>2. pushed[c] = <<>> /\ \A j \in Pushes(INT, c) : j = 1
        BY <1>6, <2>1 DEF InOrder
    <2>3. Pushes(INT, c)' = {}
        <3> SUFFICES ASSUME NEW i \in Pushes(INT, c)' PROVE FALSE
            OBVIOUS
        <3>1. i \in Nat /\ i # 0 /\ i + 1 = 1
            BY <1>4, <2>2
        <3> QED
            BY <3>1
    <2>4. ASSUME NEW i \in Pushes(REF, c)', NEW j \in Pushes(REF, c)' PROVE i = j
        <3>1. i \in Nat /\ j \in Nat /\ i + 1 \in Pushes(REF, c) /\ j + 1 \in Pushes(REF, c)
            BY <1>4
        <3>2. i + 1 = j + 1
            BY <1>6, <3>1 DEF InOrder
        <3> QED
            BY <3>1, <3>2
    <2>5. Pushes(REF, c)' = {} <=> Pushes(REF, c) = {}
        BY <1>4, <2>1
    <2>6. pushed'[c] = <<INT>>
        BY <1>3, <1>7, <2>2
    <2> QED
        BY <2>2, <2>3, <2>4, <2>5, <2>6
<1>8. ASSUME u = REF
      PROVE  /\ pushed[c] = <<INT>> /\ pushed'[c] = <<INT, REF>>
             /\ Pushes(INT, c)' = {} /\ Pushes(REF, c)' = {}
    <2>1. 1 \in Pushes(REF, c)
        BY <1>5, <1>8
    <2>2. \A j \in Pushes(REF, c) : j = 1
        BY <1>6, <2>1 DEF InOrder
    <2>3. \A j \in Pushes(INT, c) : ~(j < 1)
        BY <1>4
    <2>4. pushed[c] = <<INT>>
        BY <1>6, <2>1, <2>3 DEF InOrder
    <2>5. Pushes(INT, c) = {}
        BY <1>6, <2>4 DEF InOrder
    <2>6. Pushes(INT, c)' = {}
        BY <1>4, <2>5
    <2>7. Pushes(REF, c)' = {}
        <3> SUFFICES ASSUME NEW i \in Pushes(REF, c)' PROVE FALSE
            OBVIOUS
        <3>1. i \in Nat /\ i # 0 /\ i + 1 = 1
            BY <1>4, <2>2
        <3> QED
            BY <3>1
    <2>8. pushed'[c] = <<INT, REF>>
        <3>1. Append(<<INT>>, REF) = <<INT, REF>>
            <4>1. INT \in {INT, REF} /\ REF \in {INT, REF}
                OBVIOUS
            <4> QED
                BY <4>1, AppendOne
        <3> QED
            BY <1>3, <1>8, <2>4, <3>1
    <2> QED
        BY <2>4, <2>6, <2>7, <2>8
<1>9. \A ch \in alive : ch # c =>
         /\ InOrder(ch) => InOrder(ch)'
         /\ GivenNone(ch) => GivenNone(ch)'
         /\ GivenInt(ch) => GivenInt(ch)'
    BY <1>1, <1>3, <1>5, OthersKeepOrder
<1>10. InOrder(c)'
    <2>1. CASE u = INT
        <3>1. /\ pushed'[c] = <<INT>> /\ Pushes(INT, c)' = {} /\ \A i, j \in Pushes(REF, c)' : i = j
            BY <1>7, <2>1
        <3> QED
            BY <3>1 DEF InOrder
    <2>2. CASE u = REF
        BY <1>8, <2>2 DEF InOrder
    <2> QED
        BY <1>1, <2>1, <2>2
<1>11. ~GivenNone(c)
    BY <1>1, <1>5 DEF GivenNone
<1>12. GivenInt(c) => GivenInt(c)'
    <2>1. CASE u = INT
        BY <1>7, <2>1 DEF GivenInt
    <2>2. CASE u = REF
        BY <1>1, <1>5, <2>2 DEF GivenInt
    <2> QED
        BY <1>1, <2>1, <2>2
<1>13. ASSUME NEW f \in Files PROVE CheckpointOK(f)'
    BY <1>0, <1>9, <1>11, <1>12, CheckpointKept
<1> QED
    BY <1>0, <1>9, <1>10, <1>13 DEF PushInv

\* The firmware works on a command or reports.
LEMMA FirmwareKeepsOrder ==
    ASSUME UsersInv, IdsInv, PushInv, McuStep, Fresh PROVE PushInv'
<1>0. UNCHANGED <<chan_uid, checkpoint>> /\ UNCHANGED userVars
    BY DEF McuStep, userVars, chanVars
<1>1. CASE McuGetsBuffers
    BY <1>0, <1>1, GetsBuffersKeeps
<1>2. CASE \E msg_uid \in {"ENCODE_ONE_FRM", "DECODE_ONE_FRM"} : McuReports(msg_uid)
    BY <1>0, <1>2, TameKeeps DEF McuReports, Tame
<1>3. CASE McuCreates
    <2>1. Handles /\ Head(cmd).uid = "CREATE_CHANNEL" /\ pushed' = pushed
        BY <1>3 DEF McuCreates, Takes, Handles
    <2>2. \A ch : 1 \notin Pushes(INT, ch) /\ 1 \notin Pushes(REF, ch)
        BY <2>1, PushesFirst DEF INT, REF
    <2>3. ASSUME NEW ch \in alive', ch \notin alive
          PROVE  pushed'[ch] = <<>> /\ ~InCmd(ch) /\ ~Held(ch)
        <3>1. ch \in Chans /\ ~IdInUse(ch)
            BY <1>3, <2>3, IdTypes DEF McuCreates, Fresh
        <3> QED
            BY <2>1, <2>3, <3>1 DEF IdInUse, Held, InCmd, IdsInv, FirmwareOK
    <2> QED
        BY <1>0, <2>1, <2>2, <2>3, TakesNoBuffers
<1>4. CASE McuDestroys
    <2>1. /\ Handles /\ Head(cmd).uid \in {"DESTROY_CHANNEL", "QUIET_DESTROY_CHANNEL"}
          /\ \A ch \in alive' : ch \in alive /\ ch # Head(cmd).chan
          /\ pushed' = [pushed EXCEPT ![Head(cmd).chan] = <<>>]
        BY <1>4 DEF McuDestroys, Takes, Handles, Forget
    <2>2. \A ch : 1 \notin Pushes(INT, ch) /\ 1 \notin Pushes(REF, ch)
        BY <2>1, PushesFirst DEF INT, REF
    <2>3. \A ch \in alive' : pushed'[ch] = pushed[ch]
        BY <2>1, IdTypes DEF UsersInv, McuTypes
    <2> QED
        BY <1>0, <2>1, <2>2, <2>3, TakesNoBuffers
<1>5. CASE McuRefuses \/ McuGetsFrame \/ McuGetsRec \/ McuSearches
    <2>1. /\ Handles /\ Head(cmd).uid \notin {INT, REF} /\ UNCHANGED <<alive, pushed>>
        BY <1>5 DEF McuRefuses, McuGetsFrame, McuGetsRec, McuSearches, Takes, Handles, INT, REF
    <2>2. \A ch : 1 \notin Pushes(INT, ch) /\ 1 \notin Pushes(REF, ch)
        BY <2>1, PushesFirst
    <2> QED
        BY <1>0, <2>1, <2>2, TakesNoBuffers
<1>6. CASE McuIgnores
    <2>1. /\ Handles /\ (Head(cmd).uid \in {INT, REF} => Head(cmd).chan \notin alive)
          /\ UNCHANGED <<alive, pushed>>
        BY <1>6 DEF McuIgnores, Takes, Handles, INT, REF
    <2>2. \A ch \in alive : 1 \notin Pushes(INT, ch) /\ 1 \notin Pushes(REF, ch)
        BY <2>1, PushesFirst
    <2> QED
        BY <1>0, <2>1, <2>2, TakesNoBuffers
<1> QED
    BY <1>1, <1>2, <1>3, <1>4, <1>5, <1>6 DEF McuStep, McuHandles

\* The steps that encoder and decoder share give no buffers.
LEMMA SharedTame ==
    ASSUME UsersInv, NEW t \in Threads, SharedCall(t) PROVE Tame
<1>0. /\ chan_uid \in [Files -> ChanIds] /\ checkpoint \in [Files -> {"NO_CHECKPOINT",
          "ALLOCATE_BUFFERS", "SEND_INTERMEDIATE_BUFFERS", "SEND_REFERENCE_BUFFERS"}]
      /\ FileOf[t] \in Files /\ chan_uid[FileOf[t]] \in ChanIds
    BY UsersAssumption DEF UsersInv, UserTypes
<1> USE DEF Tame, groupVars, chanVars, queueVars, poolVars, threadVars, mcuVars
<1>1. CASE DestroyEnter(t) \/ DestroyQueues(t) \/ DestroyMutex(t) \/ DestroyRefused(t)
    BY <1>1 DEF DestroyEnter, DestroyQueues, DestroyMutex, DestroyRefused
<1>2. CASE DestroyUnlock(t) \/ DestroyRelock(t) \/ DestroyKilled(t) \/ DestroyInterrupted(t)
    BY <1>2 DEF DestroyUnlock, DestroyRelock, DestroyKilled, DestroyInterrupted
<1>3. CASE DestroyQuiet(t)
    <2>1. PICK m : m = ChanMsg("QUIET_DESTROY_CHANNEL", chan_uid[FileOf[t]])
        OBVIOUS
    <2>2. m \in Commands /\ m.uid = "QUIET_DESTROY_CHANNEL" /\ cmd' = Append(cmd, m)
        BY <1>0, <1>3, <2>1 DEF DestroyQuiet, al5_mcu_send, ChanMsg, Commands, ChannelCommands
    <2>3. /\ UNCHANGED <<alive, pushed>> /\ chan_uid' = [chan_uid EXCEPT ![FileOf[t]] = BAD_CHAN]
          /\ checkpoint' = [checkpoint EXCEPT ![FileOf[t]] = "NO_CHECKPOINT"]
        BY <1>3 DEF DestroyQuiet, ForgetChannel
    <2> QED
        BY <1>0, <2>2, <2>3 DEF INT, REF
<1>4. CASE DestroySend(t)
    <2>1. PICK m : m = ChanMsg("DESTROY_CHANNEL", chan_uid[FileOf[t]])
        OBVIOUS
    <2>2. m \in Commands /\ m.uid = "DESTROY_CHANNEL" /\ cmd' = Append(cmd, m)
        BY <1>0, <1>4, <2>1 DEF DestroySend, al5_mcu_send, ChanMsg, Commands, ChannelCommands
    <2>3. UNCHANGED <<alive, pushed, chan_uid, checkpoint>>
        BY <1>4 DEF DestroySend
    <2> QED
        BY <1>0, <2>2, <2>3 DEF INT, REF
<1>5. CASE DestroyAnswered(t)
    BY <1>0, <1>5 DEF DestroyAnswered, ForgetChannel
<1>6. CASE ReleaseEnter(t) \/ ReleaseTry(t) \/ ReleaseFree(t) \/ ReleasePurge(t)
    BY <1>6 DEF ReleaseEnter, ReleaseTry, ReleaseFree, ReleasePurge
<1>7. CASE ReleaseUnbind(t)
    BY <1>0, <1>7 DEF ReleaseUnbind
<1>8. CASE CreateSend(t)
    <2>1. PICK m : m = CreateMsg(FileOf[t], uid[FileOf[t]])
        OBVIOUS
    <2>2. uid[FileOf[t]] \in Slots
        BY <1>0, <1>8, UsersAssumption DEF CreateSend, UsersInv, CallsOK, UserTypes, Slots
    <2>3. m \in Commands /\ m.uid = "CREATE_CHANNEL" /\ cmd' = Append(cmd, m)
        BY <1>0, <1>8, <2>1, <2>2 DEF CreateSend, al5_mcu_send, CreateMsg, Commands
    <2>4. UNCHANGED <<alive, pushed, chan_uid, checkpoint>>
        BY <1>8 DEF CreateSend
    <2> QED
        BY <1>0, <2>3, <2>4 DEF INT, REF
<1>9. CASE CreateWoken(t) \/ CreateGivesUp(t)
    BY <1>9 DEF CreateWoken, CreateGivesUp
<1>10. ASSUME NEW op \in WaitOps, WaitCall(t, op) \/ WaitReturn(t, op) \/ WaitInterrupted(t, op)
       PROVE  Tame
    BY <1>10 DEF WaitCall, WaitEnter, WaitReturn, WaitInterrupted
<1> QED
    BY <1>1, <1>2, <1>3, <1>4, <1>5, <1>6, <1>7, <1>8, <1>9, <1>10
       DEF SharedCall, DestroyStep, ReleaseStep

LEMMA SharedKeepsOrder == UsersInv /\ IdsInv /\ PushInv /\ FreshStep => PushInv'
<1> SUFFICES ASSUME UsersInv, IdsInv, PushInv, FreshStep PROVE PushInv'
    OBVIOUS
<1> USE DEF Tame, groupVars, chanVars, queueVars, poolVars, threadVars, mcuVars
<1>1. ASSUME NEW f \in Files, al5_codec_open(f) PROVE Tame
    <2>1. /\ UNCHANGED <<alive, pushed, cmd>> /\ chan_uid' = [chan_uid EXCEPT ![f] = BAD_CHAN]
          /\ checkpoint' = [checkpoint EXCEPT ![f] = "NO_CHECKPOINT"]
        BY <1>1 DEF al5_codec_open, al5_user_init
    <2> QED
        BY <2>1 DEF UsersInv, UserTypes
<1>2. CASE IrqRead \/ IrqDeliver
    <2>1. Tame
        BY <1>2 DEF IrqRead, IrqDeliver
    <2> QED
        BY <2>1, TameKeeps
<1>3. CASE IrqOrphan
    <2>1. UNCHANGED <<alive, pushed, chan_uid, checkpoint>>
        BY <1>3 DEF IrqOrphan
    <2>2. CASE cmd' = cmd
        BY <2>1, <2>2, TameKeeps
    <2>3. CASE /\ should_destroy_channel_on_bad_feedback(irq.mail.uid)
               /\ cmd' = Append(cmd, OrphanMsg(irq.mail.chan))
        <3>1. irq.mail \in Answers /\ irq.mail.chan \in ChanIds
            BY <1>3, <2>3, IdTypes, AnswerParts DEF IrqOrphan, should_destroy_channel_on_bad_feedback, Answers, ChanIds
        <3>2. PICK m : m = OrphanMsg(irq.mail.chan)
            OBVIOUS
        <3>3. m \in Commands /\ m.uid = "QUIET_DESTROY_CHANNEL"
            BY <3>1, <3>2 DEF OrphanMsg, Commands
        <3> QED
            BY <2>1, <2>3, <3>2, <3>3, TameKeeps DEF INT, REF
    <2> QED
        BY <1>3, <2>2, <2>3 DEF IrqOrphan, al5_mcu_send
<1> QED
    BY <1>1, <1>2, <1>3, SharedTame, TameKeeps, FirmwareKeepsOrder DEF FreshStep, Irq

\* The encoder's own steps that give no buffers.
LEMMA QuietTame ==
    ASSUME UsersInv, NEW t \in Threads, QuietStep(t) PROVE Tame
<1>0. /\ chan_uid \in [Files -> ChanIds] /\ checkpoint \in [Files -> {"NO_CHECKPOINT",
          "ALLOCATE_BUFFERS", "SEND_INTERMEDIATE_BUFFERS", "SEND_REFERENCE_BUFFERS"}]
      /\ FileOf[t] \in Files
      /\ pc[t] = "create_allocate" => checkpoint[FileOf[t]] = "ALLOCATE_BUFFERS"
    BY UsersAssumption DEF UsersInv, UserTypes, ChannelOK
<1> USE DEF Tame, groupVars, chanVars, mcuVars
<1>1. CASE CreateEnter(t) \/ CreateRefused(t) \/ CreateDestroys(t) \/ PutStreamEnter(t)
    BY <1>1 DEF CreateEnter, CreateRefused, CreateDestroys, PutStreamEnter
<1>2. CASE CreateAllocate(t)
    BY <1>0, <1>2 DEF CreateAllocate, SetCheckpoint
<1>3. CASE CreateNoMemory(t)
    BY <1>0, <1>3 DEF CreateNoMemory, SetCheckpoint
<1> QED
    BY <1>1, <1>2, <1>3 DEF QuietStep

\* A mail on the channel of a file that gives no buffers.
LEMMA SendTame ==
    ASSUME UsersInv, NEW f \in Files, NEW msg_uid \in ChannelCommands \ {INT, REF},
           cmd' = Append(cmd, ChanMsg(msg_uid, chan_uid[f])),
           UNCHANGED <<alive, pushed, chan_uid, checkpoint>>
    PROVE  Tame
<1>1. PICK m : m = ChanMsg(msg_uid, chan_uid[f])
    OBVIOUS
<1>2. m \in Commands /\ m.uid \notin {INT, REF, "SEARCH_START_CODE"}
    BY <1>1, IdTypes DEF ChanMsg, Commands, ChannelCommands
<1> QED
    BY <1>1, <1>2 DEF Tame

\* The answer to a create: the channel has nothing yet.
LEMMA AnsweredKeepsOrder ==
    ASSUME UsersInv, IdsInv, PushInv, NEW t \in Threads, CreateAnswered(t) PROVE PushInv'
<1>1. PICK f, new : f = FileOf[t] /\ new = Head(queues[f]["CREATE"]).chan
    OBVIOUS
<1>2. f \in Files /\ queues[f]["CREATE"] # <<>> /\ UNCHANGED <<cmd, alive, pushed>>
    BY <1>1, UsersAssumption DEF CreateAnswered, mcuVars
<1>3. CASE UNCHANGED chanVars
    BY <1>2, <1>3, TameKeeps DEF Tame, chanVars
<1>4. CASE /\ new # BAD_CHAN /\ chan_uid' = [chan_uid EXCEPT ![f] = new]
           /\ checkpoint' = [checkpoint EXCEPT ![f] = "ALLOCATE_BUFFERS"]
    <2>1. /\ chan_uid \in [Files -> ChanIds] /\ checkpoint \in [Files -> {"NO_CHECKPOINT",
              "ALLOCATE_BUFFERS", "SEND_INTERMEDIATE_BUFFERS", "SEND_REFERENCE_BUFFERS"}]
        BY DEF UsersInv, UserTypes
    <2>2. Unread(new)
        <3>1. 1 \in 1..Len(queues[f]["CREATE"]) /\ queues[f]["CREATE"][1].chan = new
            BY <1>1, <1>2, QueueTypes
        <3> QED
            BY <1>2, <1>4, <3>1 DEF IdsInv, LinksOK, ClaimsOK, QueueClaims
    <2>3. \A u, ch : Pushes(u, ch)' = Pushes(u, ch)
        BY <1>2 DEF Pushes
    <2>4. GivenNone(new)'
        <3>1. Pushes(INT, new) = {} /\ Pushes(REF, new) = {}
            BY <2>2, IdTypes, CommandNames DEF Unread, InCmd, Pushes, ChannelCommands, INT, REF
        <3> QED
            BY <1>2, <2>2, <2>3, <3>1 DEF Unread, GivenNone
    <2>5. ASSUME NEW ch \in alive PROVE InOrder(ch)'
        BY <1>2, <2>3 DEF PushInv, InOrder
    <2>6. CheckpointOK(f)'
        <3>1. chan_uid'[f] = new /\ checkpoint'[f] = "ALLOCATE_BUFFERS"
            BY <1>2, <1>4, <2>1
        <3>2. GivenNone(chan_uid[f])'
            BY <2>4, <3>1 DEF GivenNone, Pushes
        <3> QED
            BY <3>1, <3>2 DEF CheckpointOK
    <2>7. ASSUME NEW g \in Files, g # f PROVE CheckpointOK(g)'
        <3>1. chan_uid'[g] = chan_uid[g] /\ checkpoint'[g] = checkpoint[g]
            BY <1>2, <1>4, <2>1, <2>7
        <3> QED
            BY <1>2, <2>3, <3>1 DEF PushInv, CheckpointOK, GivenNone, GivenInt
    <2> QED
        BY <1>2, <2>5, <2>6, <2>7 DEF PushInv
<1> QED
    BY <1>1, <1>3, <1>4 DEF CreateAnswered, check_and_affect_chan_uid, SetCheckpoint

\* A file gives its channel the buffers that its checkpoint says are missing.
LEMMA PushKeepsOrder ==
    ASSUME UsersInv, IdsInv, PushInv, NEW f \in Files, NEW u, NEW next,
           cmd' = Append(cmd, ChanMsg(u, chan_uid[f])),
           checkpoint' = [checkpoint EXCEPT ![f] = next],
           \/ u = INT /\ checkpoint[f] = "SEND_INTERMEDIATE_BUFFERS" /\ next = "SEND_REFERENCE_BUFFERS"
           \/ u = REF /\ checkpoint[f] = "SEND_REFERENCE_BUFFERS" /\ next = "NO_CHECKPOINT",
           UNCHANGED <<alive, pushed, chan_uid>>
    PROVE  PushInv'
<1>1. PICK c, m : c = chan_uid[f] /\ c = chan_uid'[f] /\ m = ChanMsg(u, c)
    OBVIOUS
<1>2. /\ m \in Commands /\ m.uid = u /\ m.chan = c /\ cmd' = Append(cmd, m) /\ INT # REF
      /\ c \in ChanIds
    <2>1. c \in ChanIds /\ u \in ChannelCommands /\ INT # REF
        BY <1>1, IdTypes DEF ChannelCommands, INT, REF
    <2>2. m = [uid |-> u, chan |-> c] /\ cmd' = Append(cmd, m)
        BY <1>1 DEF ChanMsg
    <2>3. m \in Commands
        BY <2>1, <2>2 DEF Commands
    <2> QED
        BY <2>1, <2>2, <2>3
<1>3. \A v, ch : ~(v = u /\ ch = c) => Pushes(v, ch)' = Pushes(v, ch)
    BY <1>2, PushesSame
<1>4. Pushes(u, c)' = Pushes(u, c) \cup {Len(cmd) + 1} /\ Len(cmd) \in Nat
    BY <1>2, PushesAdded
<1>5. checkpoint \in [Files -> {"NO_CHECKPOINT", "ALLOCATE_BUFFERS", "SEND_INTERMEDIATE_BUFFERS",
                                "SEND_REFERENCE_BUFFERS"}]
    BY DEF UsersInv, UserTypes
<1>6. c \in alive => /\ u = INT => GivenNone(c)
                     /\ u = REF => GivenInt(c)
    BY <1>1, <1>2 DEF PushInv, CheckpointOK
<1>7. ASSUME NEW ch \in alive PROVE InOrder(ch)'
    <2>0. InOrder(ch)
        BY DEF PushInv
    <2>1. CASE ch # c
        BY <1>3, <2>0, <2>1 DEF InOrder
    <2>2. CASE ch = c /\ u = INT
        <3>1. /\ pushed[c] = <<>> /\ Pushes(INT, c)' = {Len(cmd) + 1} /\ Pushes(REF, c)' = {}
            BY <1>2, <1>3, <1>4, <1>6, <2>2 DEF GivenNone
        <3> QED
            BY <2>2, <3>1 DEF InOrder
    <2>3. CASE ch = c /\ u = REF
        <3>1. /\ Pushes(REF, c)' = {Len(cmd) + 1} /\ Pushes(INT, c)' = Pushes(INT, c)
              /\ pushed[c] = <<INT>> \/ (pushed[c] = <<>> /\ Pushes(INT, c) # {})
            BY <1>2, <1>3, <1>4, <1>6, <2>3 DEF GivenInt
        <3>2. \A j \in Pushes(INT, c) : j < Len(cmd) + 1
            BY <1>4 DEF Pushes
        <3>3. pushed[c] = <<INT>> \/ (pushed[c] = <<>> /\ \E j \in Pushes(INT, c) : j < Len(cmd) + 1)
            BY <3>1, <3>2
        <3>4. /\ pushed[c] \in {<<>>, <<INT>>, <<INT, REF>>}
              /\ \A i \in Pushes(INT, c) : pushed[c] = <<>> /\ \A j \in Pushes(INT, c) : j = i
            BY <2>0, <2>3 DEF InOrder
        <3> QED
            BY <2>3, <3>1, <3>3, <3>4 DEF InOrder
    <2> QED
        BY <1>2, <2>1, <2>2, <2>3
<1>8. CheckpointOK(f)'
    <2>1. checkpoint'[f] = next
        BY <1>5
    <2>2. CASE u = REF
        BY <1>2, <2>1, <2>2 DEF CheckpointOK
    <2>3. CASE u = INT
        <3> SUFFICES ASSUME c \in alive PROVE GivenInt(chan_uid[f])'
            BY <1>1, <1>2, <2>1, <2>3 DEF CheckpointOK
        <3>1. /\ pushed[c] = <<>> /\ Pushes(INT, c)' = {Len(cmd) + 1} /\ Pushes(REF, c)' = {}
            BY <1>2, <1>3, <1>4, <1>6, <2>3 DEF GivenNone
        <3>2. GivenInt(c)'
            BY <3>1 DEF GivenInt
        <3> QED
            BY <1>1, <3>2 DEF GivenInt, Pushes
    <2> QED
        BY <2>2, <2>3
<1>9. ASSUME NEW g \in Files, g # f PROVE CheckpointOK(g)'
    <2>1. checkpoint'[g] = checkpoint[g]
        BY <1>5, <1>9
    <2>2. PICK ch : ch = chan_uid[g] /\ ch = chan_uid'[g]
        OBVIOUS
    <2>3. CASE ch \notin alive
        BY <2>2, <2>3 DEF CheckpointOK
    <2>4. CASE ch \in alive
        <3>1. ch # c
            BY <1>1, <1>9, <2>2, <2>4, IdTypes, McuAssumption DEF IdsInv, LinksOK, FilesOK
        <3>2. Pushes(INT, ch)' = Pushes(INT, ch) /\ Pushes(REF, ch)' = Pushes(REF, ch)
            BY <1>3, <3>1
        <3>3. CheckpointOK(g)
            BY DEF PushInv
        <3> QED
            BY <2>1, <2>2, <3>2, <3>3 DEF CheckpointOK, GivenNone, GivenInt
    <2> QED
        BY <2>3, <2>4
<1> QED
    BY <1>7, <1>8, <1>9 DEF PushInv

LEMMA EncoderKeepsOrder == UsersInv /\ IdsInv /\ PushInv /\ EncoderStep => PushInv'
<1> SUFFICES ASSUME UsersInv, IdsInv, PushInv, NEW t \in Threads, OwnStep(t) PROVE PushInv'
    BY DEF EncoderStep
<1>0. /\ FileOf[t] \in Files
      /\ pc[t] = "create_int" => checkpoint[FileOf[t]] = "SEND_INTERMEDIATE_BUFFERS"
      /\ pc[t] = "create_ref" => checkpoint[FileOf[t]] = "SEND_REFERENCE_BUFFERS"
    BY UsersAssumption DEF UsersInv, ChannelOK
<1> USE DEF groupVars, chanVars, queueVars, threadVars, mcuVars, userVars
<1> DEFINE Same == UNCHANGED <<alive, pushed, chan_uid, checkpoint>>
<1>1. CASE QuietStep(t)
    BY <1>1, QuietTame, TameKeeps
<1>2. CASE CreateAnswered(t)
    BY <1>2, AnsweredKeepsOrder
<1>3. CASE CreateInt(t)
    BY <1>0, <1>3, PushKeepsOrder DEF CreateInt, al5_mcu_send, create_mail_from_bufpool, SetCheckpoint, INT
<1>4. CASE CreateRef(t)
    BY <1>0, <1>4, PushKeepsOrder DEF CreateRef, al5_mcu_send, create_mail_from_bufpool, SetCheckpoint, REF
<1>5. CASE al5e_user_encode_one_frame(t)
    <2>1. cmd' = Append(cmd, ChanMsg("ENCODE_ONE_FRM", chan_uid[FileOf[t]])) /\ Same
        BY <1>5 DEF al5e_user_encode_one_frame, SendOnChannel, al5_mcu_send,
           al5e_create_encode_one_frame_msg
    <2> QED
        BY <1>0, <2>1, SendTame, TameKeeps DEF ChannelCommands, INT, REF
<1>6. CASE PutStreamSend(t)
    <2>1. Same
        BY <1>6 DEF PutStreamSend
    <2>2. CASE cmd' = cmd
        BY <2>1, <2>2, TameKeeps DEF Tame
    <2>3. CASE cmd' = Append(cmd, ChanMsg("PUT_STREAM_BUFFER", chan_uid[FileOf[t]]))
        BY <1>0, <2>1, <2>3, SendTame, TameKeeps DEF ChannelCommands, INT, REF
    <2> QED
        BY <1>6, <2>2, <2>3 DEF PutStreamSend, al5_mcu_send
<1>7. CASE GetRecEnter(t)
    <2>1. cmd' = Append(cmd, ChanMsg("GET_RECONSTRUCTED_PICTURE", chan_uid[FileOf[t]])) /\ Same
        BY <1>7 DEF GetRecEnter, SendOnChannel, al5_mcu_send
    <2> QED
        BY <1>0, <2>1, SendTame, TameKeeps DEF ChannelCommands, INT, REF
<1>8. CASE al5e_user_release_rec(t)
    <2>1. cmd' = Append(cmd, ChanMsg("RELEASE_RECONSTRUCTED_PICTURE", chan_uid[FileOf[t]])) /\ Same
        BY <1>8 DEF al5e_user_release_rec, SendOnChannel, al5_mcu_send
    <2> QED
        BY <1>0, <2>1, SendTame, TameKeeps DEF ChannelCommands, INT, REF
<1> QED
    BY <1>1, <1>2, <1>3, <1>4, <1>5, <1>6, <1>7, <1>8 DEF OwnStep, QuietStep

\* What a channel has been given is what the checkpoint of its file says, in every
\* behaviour of the encoder.
THEOREM OrderInvariant == PromptReuse = FALSE => (Spec => []PushInv)
<1> SUFFICES ASSUME PromptReuse = FALSE PROVE Spec => []PushInv
    OBVIOUS
<1>1. Init => PushInv
    BY McuAssumption DEF Init, UsersInit, McuInit, PushInv, CheckpointOK
<1>2. UsersInv /\ IdsInv /\ PushInv /\ [Next]_vars => PushInv'
    <2> SUFFICES ASSUME UsersInv, IdsInv, PushInv, [Next]_vars PROVE PushInv'
        OBVIOUS
    <2>1. CASE Next
        BY <2>1, NextFresh, SharedKeepsOrder, EncoderKeepsOrder
    <2>2. CASE UNCHANGED vars
        <3>1. Tame
            BY <2>2 DEF vars, userVars, chanVars, mcuVars, Tame
        <3> QED
            BY <3>1, TameKeeps
    <2> QED
        BY <2>1, <2>2
<1> QED
    BY <1>1, <1>2, ChannelInvariant, EncoderInvariant, PTL DEF Spec

\* However often a create is refused by a full mailbox, given up or called again by
\* another thread, the channel gets its intermediate buffers once, then its
\* reference buffers once.  (the checkpoints of al5e_user_create_channel)
THEOREM BuffersComeInOrder == PromptReuse = FALSE => (Spec => []PushOrder)
<1> SUFFICES ASSUME PromptReuse = FALSE PROVE Spec => []PushOrder
    OBVIOUS
<1>1. IdsInv /\ PushInv => PushOrder
    BY DEF IdsInv, FirmwareOK, PushInv, InOrder, PushOrder, INT, REF
<1> QED
    BY <1>1, OrderInvariant, ChannelInvariant, PTL

-----------------------------------------------------------------------------
\* Owners, until a wait is cut short, for clients with one thread per file that
\* creates and destroys.

\* A mail on the channel of a file, or none.
LEMMA SendStill ==
    ASSUME UsersInv, OwnInv, NEW t \in Threads, NEW label, NEW msg_uid \in ChannelCommands,
           cmd' = cmd \/ cmd' = Append(cmd, ChanMsg(msg_uid, chan_uid[FileOf[t]])),
           pc' = [pc EXCEPT ![t] = label], pc[t] # "create_wait",
           label \in Creating => Control(t),
           label \notin Destroying \cup {"destroy_enter", "release_purge", "release_unbind"},
           UNCHANGED <<after, status, alive, irq, queues, uid, chan_uid, creator>>
    PROVE  OwnInv'
<1>1. PICK m : m = ChanMsg(msg_uid, chan_uid[FileOf[t]])
    OBVIOUS
<1>2. m \in Commands /\ m.uid # "CREATE_CHANNEL"
    BY <1>1, IdTypes, UsersAssumption DEF ChanMsg, Commands, ChannelCommands
<1>3. after' = [after EXCEPT ![t] = after[t]]
    BY DEF UsersInv, ThreadTypes
<1>4. Still(t, label, after[t])
    BY <1>1, <1>2, <1>3 DEF Still
<1> QED
    BY <1>4, StillKeeps

LEMMA EncoderOwns ==
    ASSUME UsersInv, IdsInv, OwnInv, NEW t \in Threads, OwnStep(t) PROVE OwnInv'
<1>0. FileOf[t] \in Files /\ ThreadTypes /\ ControlOK /\ CallsOK
    BY UsersAssumption DEF UsersInv, OwnInv
<1>a. after = [after EXCEPT ![t] = after[t]] /\ pc = [pc EXCEPT ![t] = pc[t]]
    BY <1>0 DEF ThreadTypes
<1>b. /\ pc[t] \in Creating => Control(t)
      /\ pc[t] = "destroy_enter" => Control(t)
    BY <1>0 DEF ControlOK, CallsOK, Creating, Destroying, Releasing
<1> DEFINE Same == UNCHANGED <<after, status, alive, irq, queues, uid, chan_uid, creator>>
<1> USE DEF groupVars, chanVars, queueVars, threadVars, mcuVars, userVars, Goto
<1>1. CASE CreateEnter(t)
    <2>1. PICK label \in {"create_send", "create_allocate", "create_int", "create_ref"} :
              label = ResumeAt(FileOf[t])
        BY <1>0, ResumeLabels
    <2>2. Control(t)
        BY <1>1 DEF CreateEnter, MayCall, Control
    <2>3. Still(t, label, after[t])
        BY <1>1, <1>a, <2>1, <2>2 DEF CreateEnter, MayCall, Still
    <2> QED
        BY <2>3, StillKeeps
<1>2. CASE CreateRefused(t)
    <2>1. Still(t, "idle", after[t])
        BY <1>2, <1>a DEF CreateRefused, CreateReturn, Still, Creating, Destroying
    <2> QED
        BY <2>1, StillKeeps
<1>3. CASE CreateAnswered(t)
    <2>1. PICK f, new : f = FileOf[t] /\ new = Head(queues[f]["CREATE"]).chan
        OBVIOUS
    <2>2. /\ pc[t] = "create_wait" /\ queues[f]["CREATE"] # <<>> /\ PopAny(f, "CREATE")
          /\ UNCHANGED <<uid, after, irq, cmd, status, alive, creator>>
        BY <1>3, <2>1 DEF CreateAnswered
    <2>3. PICK label \in {"idle", "create_allocate"} : pc' = [pc EXCEPT ![t] = label]
        BY <1>3 DEF CreateAnswered, CreateReturn
    <2>4. chan_uid' = [chan_uid EXCEPT ![f] = new]
        <3>1. CASE new = BAD_CHAN /\ UNCHANGED chanVars
            <4>1. chan_uid[f] = BAD_CHAN /\ chan_uid \in [Files -> ChanIds]
                BY <2>1, <2>2, IdTypes DEF UsersInv, ChannelOK
            <4> QED
                BY <3>1, <4>1
        <3>2. CASE check_and_affect_chan_uid(f, new)
            BY <3>2 DEF check_and_affect_chan_uid
        <3> QED
            BY <1>3, <2>1, <3>1, <3>2 DEF CreateAnswered
    <2> QED
        BY <2>1, <2>2, <2>3, <2>4, AnsweredOwns
<1>4. CASE CreateAllocate(t)
    <2>1. Still(t, "create_int", after[t])
        BY <1>4, <1>a, <1>b DEF CreateAllocate, Still, Creating
    <2> QED
        BY <2>1, StillKeeps
<1>5. CASE CreateNoMemory(t)
    <2>1. Still(t, "destroy_enter", "create")
        BY <1>5, <1>b DEF CreateNoMemory, Still, Creating
    <2> QED
        BY <2>1, StillKeeps
<1>6. CASE CreateDestroys(t)
    <2>1. CASE al5_chan_is_created(FileOf[t])
        <3>1. Still(t, "destroy_queues", after[t])
            BY <1>6, <1>a, <1>b, <2>1 DEF CreateDestroys, Still
        <3> QED
            BY <3>1, StillKeeps
    <2>2. CASE ~al5_chan_is_created(FileOf[t])
        <3>1. Still(t, "idle", "ioctl")
            BY <1>6, <2>2 DEF CreateDestroys, Still, Creating, Destroying
        <3> QED
            BY <3>1, StillKeeps
    <2> QED
        BY <2>1, <2>2
<1>7. CASE CreateInt(t)
    <2>1. /\ cmd' = Append(cmd, ChanMsg("PUSH_BUFFER_INTERMEDIATE", chan_uid[FileOf[t]])) /\ Same
          /\ pc[t] = "create_int" /\ pc' = [pc EXCEPT ![t] = "create_ref"]
        BY <1>7 DEF CreateInt, al5_mcu_send, create_mail_from_bufpool
    <2> QED
        BY <1>b, <2>1, SendStill DEF ChannelCommands, Creating, Destroying
<1>8. CASE CreateRef(t)
    <2>1. /\ cmd' = Append(cmd, ChanMsg("PUSH_BUFFER_REFERENCE", chan_uid[FileOf[t]])) /\ Same
          /\ pc[t] = "create_ref" /\ pc' = [pc EXCEPT ![t] = "idle"]
        BY <1>8 DEF CreateRef, CreateReturn, al5_mcu_send, create_mail_from_bufpool
    <2> QED
        BY <2>1, SendStill DEF ChannelCommands, Creating, Destroying
<1>9. CASE al5e_user_encode_one_frame(t)
    <2>1. /\ cmd' = Append(cmd, ChanMsg("ENCODE_ONE_FRM", chan_uid[FileOf[t]])) /\ Same
          /\ pc[t] = "idle" /\ pc' = pc
        BY <1>9 DEF al5e_user_encode_one_frame, MayCall, SendOnChannel, al5_mcu_send,
           al5e_create_encode_one_frame_msg
    <2>2. pc' = [pc EXCEPT ![t] = "idle"]
        BY <1>a, <2>1
    <2> QED
        BY <2>1, <2>2, SendStill DEF ChannelCommands, Creating, Destroying
<1>10. CASE PutStreamEnter(t)
    <2>1. Still(t, "put_send", after[t])
        BY <1>10, <1>a DEF PutStreamEnter, MayCall, Still, Creating, Destroying
    <2> QED
        BY <2>1, StillKeeps
<1>11. CASE PutStreamSend(t)
    <2>1. /\ cmd' = cmd \/ cmd' = Append(cmd, ChanMsg("PUT_STREAM_BUFFER", chan_uid[FileOf[t]]))
          /\ Same /\ pc[t] = "put_send" /\ pc' = [pc EXCEPT ![t] = "idle"]
        BY <1>11 DEF PutStreamSend, al5_mcu_send
    <2> QED
        BY <2>1, SendStill DEF ChannelCommands, Creating, Destroying
<1>12. CASE GetRecEnter(t)
    <2>1. /\ cmd' = Append(cmd, ChanMsg("GET_RECONSTRUCTED_PICTURE", chan_uid[FileOf[t]])) /\ Same
          /\ pc[t] = "idle" /\ pc' = [pc EXCEPT ![t] = "rec_wait"]
        BY <1>12 DEF GetRecEnter, MayCall, SendOnChannel, al5_mcu_send, Waiting
    <2> QED
        BY <2>1, SendStill DEF ChannelCommands, Creating, Destroying
<1>13. CASE al5e_user_release_rec(t)
    <2>1. /\ cmd' = Append(cmd, ChanMsg("RELEASE_RECONSTRUCTED_PICTURE", chan_uid[FileOf[t]])) /\ Same
          /\ pc[t] = "idle" /\ pc' = pc
        BY <1>13 DEF al5e_user_release_rec, MayCall, SendOnChannel, al5_mcu_send
    <2>2. pc' = [pc EXCEPT ![t] = "idle"]
        BY <1>a, <2>1
    <2> QED
        BY <2>1, <2>2, SendStill DEF ChannelCommands, Creating, Destroying
<1> QED
    BY <1>1, <1>2, <1>3, <1>4, <1>5, <1>6, <1>7, <1>8, <1>9, <1>10, <1>11, <1>12, <1>13 DEF OwnStep

LEMMA EncoderSignals ==
    ASSUME NEW t \in Threads, OwnStep(t) PROVE signals' = signals
<1>1. CASE CreateEnter(t) \/ CreateRefused(t) \/ CreateAnswered(t) \/ CreateAllocate(t)
    BY <1>1 DEF CreateEnter, CreateRefused, CreateAnswered, CreateAllocate
<1>2. CASE CreateNoMemory(t) \/ CreateDestroys(t) \/ CreateInt(t) \/ CreateRef(t)
    BY <1>2 DEF CreateNoMemory, CreateDestroys, CreateInt, CreateRef
<1>3. CASE al5e_user_encode_one_frame(t) \/ al5e_user_release_rec(t)
    BY <1>3 DEF al5e_user_encode_one_frame, al5e_user_release_rec, userVars, threadVars
<1>4. CASE PutStreamEnter(t) \/ PutStreamSend(t) \/ GetRecEnter(t)
    BY <1>4 DEF PutStreamEnter, PutStreamSend, GetRecEnter
<1> QED
    BY <1>1, <1>2, <1>3, <1>4 DEF OwnStep

\* Until a wait is cut short, whoever has a channel made it, and whoever made one has
\* it or will get it, in every behaviour of the encoder.
THEOREM OwnerInvariant == PromptReuse = FALSE /\ OneControl => (Spec => [](signals = 0 => OwnInv))
<1> SUFFICES ASSUME PromptReuse = FALSE, OneControl PROVE Spec => [](signals = 0 => OwnInv)
    OBVIOUS
<1>1. Init => OwnInv
    BY OwnStart DEF Init
<1>2. UsersInv /\ IdsInv /\ (signals = 0 => OwnInv) /\ [Next]_vars => (signals = 0 => OwnInv)'
    <2> SUFFICES ASSUME UsersInv, IdsInv, signals = 0 => OwnInv, [Next]_vars, signals' = 0 PROVE OwnInv'
        OBVIOUS
    <2>1. CASE FreshStep
        BY <2>1, SignalsGrow, FreshOwns
    <2>2. CASE EncoderStep
        BY <2>2, EncoderSignals, EncoderOwns DEF EncoderStep
    <2>3. CASE UNCHANGED vars
        <3>1. UNCHANGED <<userVars, mcuVars>> /\ signals = 0
            BY <2>3 DEF vars, userVars, threadVars
        <3> QED
            BY <3>1, OwnStutter
    <2> QED
        BY <2>1, <2>2, <2>3, NextFresh
<1> QED
    BY <1>1, <1>2, ChannelInvariant, EncoderInvariant, PTL DEF Spec

\* Until a wait is cut short, a channel that lives in the firmware has somebody who
\* will destroy it, or al5_codec_release has given it up.
THEOREM ChannelsHaveOwners ==
    PromptReuse = FALSE /\ OneControl => (Spec => [](signals = 0 => NoOrphanChannel))
<1> SUFFICES ASSUME PromptReuse = FALSE, OneControl PROVE Spec => [](signals = 0 => NoOrphanChannel)
    OBVIOUS
<1>1. UsersInv /\ (signals = 0 => OwnInv) => (signals = 0 => NoOrphanChannel)
    BY OwnNoOrphans
<1> QED
    BY <1>1, OwnerInvariant, EncoderInvariant, PTL

\* The encoder searches no start codes.
NoSearches ==
    /\ \A i \in 1..Len(cmd) : cmd[i].uid # "SEARCH_START_CODE"
    /\ \A i \in 1..Len(status) : status[i].uid # "SEARCH_START_CODE"
    /\ irq # NoIrq => irq.mail.uid # "SEARCH_START_CODE"
    /\ \A f \in Files : queues[f]["SC"] = <<>>

\* Nothing is added to the queues for start codes.
NoStartCodes == \A f \in Files : queues[f]["SC"] = <<>> => queues'[f]["SC"] = <<>>

LEMMA PopStartCodes ==
    ASSUME UsersInv, NEW f \in Files, NEW q \in QueueIds, PopAny(f, q) PROVE NoStartCodes
<1>1. queues \in [Files -> [QueueIds -> Seq(Answers)]] /\ "SC" \in QueueIds
    BY IdTypes DEF QueueIds
<1>2. PICK s : s = IF queues[f][q] = <<>> THEN <<>> ELSE Tail(queues[f][q])
    OBVIOUS
<1>3. queues' = [queues EXCEPT ![f][q] = s]
    BY <1>2 DEF PopAny
<1>4. \A g \in Files : queues'[g]["SC"] = IF g = f /\ q = "SC" THEN s ELSE queues[g]["SC"]
    BY <1>1, <1>3
<1> QED
    BY <1>2, <1>4 DEF NoStartCodes

LEMMA SharedStartCodes ==
    ASSUME UsersInv, NEW t \in Threads, SharedCall(t) PROVE NoStartCodes
<1>0. /\ FileOf[t] \in Files /\ queues \in [Files -> [QueueIds -> Seq(Answers)]]
      /\ WaitOps \subseteq QueueIds /\ "DESTROY" \in QueueIds /\ "SC" \in QueueIds
    BY UsersAssumption, IdTypes DEF QueueIds, WaitOps
<1> USE DEF NoStartCodes, queueVars
<1>1. CASE DestroyEnter(t) \/ DestroyQueues(t) \/ DestroyMutex(t) \/ DestroyRefused(t)
    BY <1>1 DEF DestroyEnter, DestroyQueues, DestroyMutex, DestroyRefused
<1>2. CASE DestroyUnlock(t) \/ DestroyRelock(t) \/ DestroyKilled(t) \/ DestroyInterrupted(t)
    BY <1>2 DEF DestroyUnlock, DestroyRelock, DestroyKilled, DestroyInterrupted
<1>3. CASE DestroyQuiet(t) \/ DestroySend(t) \/ CreateSend(t) \/ CreateWoken(t) \/ CreateGivesUp(t)
    BY <1>3 DEF DestroyQuiet, DestroySend, CreateSend, CreateWoken, CreateGivesUp
<1>4. CASE DestroyAnswered(t)
    BY <1>0, <1>4, PopStartCodes DEF DestroyAnswered
<1>5. CASE ReleaseEnter(t) \/ ReleaseTry(t) \/ ReleaseFree(t)
    BY <1>5 DEF ReleaseEnter, ReleaseTry, ReleaseFree
<1>6. CASE ReleasePurge(t) \/ ReleaseUnbind(t)
    <2>1. queues' = [queues EXCEPT ![FileOf[t]] = [q \in QueueIds |-> <<>>]]
        BY <1>6 DEF ReleasePurge, al5_user_remove_residual_messages, ReleaseUnbind
    <2> QED
        BY <1>0, <2>1
<1>7. ASSUME NEW op \in WaitOps, WaitReturn(t, op) PROVE NoStartCodes
    BY <1>0, <1>7, PopStartCodes DEF WaitReturn
<1>8. CASE \E op \in WaitOps : WaitCall(t, op) \/ WaitInterrupted(t, op)
    BY <1>8 DEF WaitCall, WaitEnter, WaitInterrupted
<1> QED
    BY <1>1, <1>2, <1>3, <1>4, <1>5, <1>6, <1>7, <1>8 DEF SharedCall, DestroyStep, ReleaseStep

\* A step that sends no search, and leaves the answers where they are.
LEMMA NoSearchSent ==
    ASSUME UsersInv, NoSearches, NoStartCodes, UNCHANGED status, irq' = irq \/ irq' = NoIrq,
           cmd' = cmd \/ \E m \in Commands : m.uid # "SEARCH_START_CODE" /\ cmd' = Append(cmd, m)
    PROVE  NoSearches'
<1>1. \A i \in 1..Len(cmd') : cmd'[i].uid # "SEARCH_START_CODE"
    <2>1. CASE cmd' = cmd
        BY <2>1 DEF NoSearches
    <2>2. ASSUME NEW m \in Commands, m.uid # "SEARCH_START_CODE", cmd' = Append(cmd, m)
          PROVE  \A i \in 1..Len(cmd') : cmd'[i].uid # "SEARCH_START_CODE"
        BY <2>2, CmdAppended DEF NoSearches
    <2> QED
        BY <2>1, <2>2
<1> QED
    BY <1>1 DEF NoSearches, NoStartCodes

\* The firmware has nothing to search.
LEMMA FirmwareSearchesNot ==
    ASSUME UsersInv, NoSearches, McuStep PROVE NoSearches'
<1>1. UNCHANGED <<irq, queues>> /\ McuTypes /\ alive \subseteq Chans
    BY IdTypes DEF McuStep, userVars, queueVars, UsersInv
<1>2. /\ \A i \in 1..Len(cmd') : cmd'[i].uid # "SEARCH_START_CODE"
      /\ Handles => Head(cmd).uid # "SEARCH_START_CODE"
    <2>1. cmd' = cmd \/ Handles
        BY DEF McuStep, McuHandles, McuCreates, McuRefuses, McuDestroys, McuGetsBuffers, McuGetsFrame,
           McuGetsRec, McuSearches, McuIgnores, McuReports, Takes, Handles
    <2> QED
        BY <2>1, CmdTaken, CmdFirst DEF NoSearches
<1>3. status' = status \/ \E m \in Answers : m.uid # "SEARCH_START_CODE" /\ status' = Append(status, m)
    <2>1. CASE McuCreates
        <3>1. Handles /\ Head(cmd) \in Commands /\ Head(cmd).uid = "CREATE_CHANNEL"
            BY <2>1, TakesFirst DEF McuCreates
        <3>2. PICK c \in Chans : status' = Append(status, CreateAnswer(Head(cmd), c))
            BY <2>1 DEF McuCreates
        <3>3. CreateAnswer(Head(cmd), c) \in Answers
            BY <1>1, <3>1, AnswerTypes DEF ChanIds
        <3> QED
            BY <3>2, <3>3 DEF CreateAnswer
    <2>2. CASE McuRefuses
        <3>1. Handles /\ Head(cmd) \in Commands /\ Head(cmd).uid = "CREATE_CHANNEL"
            BY <2>2, TakesFirst DEF McuRefuses
        <3>2. CreateAnswer(Head(cmd), BAD_CHAN) \in Answers
            BY <1>1, <3>1, AnswerTypes DEF ChanIds
        <3> QED
            BY <2>2, <3>2 DEF McuRefuses, CreateAnswer
    <2>3. CASE McuDestroys
        <3>1. PICK ch : ch = Head(cmd).chan /\ ch \in Chans
            BY <1>1, <2>3 DEF McuDestroys
        <3>2. Feedback("DESTROY_CHANNEL", ch) \in Answers
            BY <1>1, <3>1, AnswerTypes
        <3> QED
            BY <2>3, <3>1, <3>2 DEF McuDestroys, Feedback
    <2>4. CASE McuGetsBuffers \/ McuGetsFrame \/ McuIgnores
        BY <2>4 DEF McuGetsBuffers, McuGetsFrame, McuIgnores
    <2>5. CASE McuGetsRec
        <3>1. PICK ch : ch = Head(cmd).chan /\ ch \in Chans
            BY <1>1, <2>5 DEF McuGetsRec
        <3>2. PICK found, m : /\ found \in BOOLEAN
                              /\ m = [uid |-> "GET_RECONSTRUCTED_PICTURE", chan |-> ch,
                                      found |-> found, by |-> creator[ch]]
                              /\ status' = Append(status, m)
            BY <2>5, <3>1 DEF McuGetsRec
        <3>3. m \in Answers
            BY <1>1, <3>1, <3>2, AnswerTypes
        <3> QED
            BY <3>2, <3>3
    <2>6. CASE McuSearches
        BY <1>2, <2>6, TakesFirst DEF McuSearches
    <2>7. ASSUME NEW name \in {"ENCODE_ONE_FRM", "DECODE_ONE_FRM"}, McuReports(name)
          PROVE  \E m \in Answers : m.uid # "SEARCH_START_CODE" /\ status' = Append(status, m)
        <3>1. PICK ch \in alive : status' = Append(status, Feedback(name, ch))
            BY <2>7 DEF McuReports
        <3>2. Feedback(name, ch) \in Answers
            BY <1>1, <3>1, AnswerTypes
        <3> QED
            BY <3>1, <3>2 DEF Feedback
    <2> QED
        BY <2>1, <2>2, <2>3, <2>4, <2>5, <2>6, <2>7 DEF McuStep, McuHandles
<1>4. \A i \in 1..Len(status') : status'[i].uid # "SEARCH_START_CODE"
    BY <1>3, StatusAppended DEF NoSearches
<1> QED
    BY <1>1, <1>2, <1>4 DEF NoSearches

LEMMA NextSearchesNot ==
    ASSUME UsersInv, NoSearches, [Next]_vars PROVE NoSearches'
<1> USE DEF groupVars, chanVars, queueVars, poolVars, threadVars, mcuVars
<1>1. ASSUME Tame, NoStartCodes, UNCHANGED <<status, irq>> PROVE NoSearches'
    BY <1>1, NoSearchSent DEF Tame
<1>2. ASSUME NEW f \in Files, al5_codec_open(f) PROVE NoSearches'
    <2>1. queues' = [queues EXCEPT ![f] = [q \in QueueIds |-> <<>>]] /\ UNCHANGED <<status, irq, cmd>>
        BY <1>2 DEF al5_codec_open, al5_user_init
    <2>2. NoStartCodes
        BY <2>1, IdTypes DEF NoStartCodes, QueueIds
    <2> QED
        BY <2>1, <2>2, NoSearchSent
<1>3. ASSUME NEW t \in Threads, SharedCall(t) PROVE NoSearches'
    <2>1. UNCHANGED <<status, irq>>
        <3>1. CASE DestroyEnter(t) \/ DestroyStep(t) \/ ReleaseEnter(t) \/ ReleaseStep(t)
            BY <3>1 DEF DestroyEnter, DestroyStep, ReleaseEnter, ReleaseStep, DestroyQueues, DestroyMutex,
               DestroyRefused, DestroyQuiet, DestroySend, DestroyAnswered, DestroyUnlock, DestroyRelock,
               ReleaseTry, ReleaseFree, ReleasePurge, ReleaseUnbind
        <3>2. CASE DestroyKilled(t) \/ DestroyInterrupted(t) \/ CreateGivesUp(t) \/ CreateSend(t) \/ CreateWoken(t)
            BY <3>2 DEF DestroyKilled, DestroyInterrupted, CreateGivesUp, CreateSend, CreateWoken
        <3>3. CASE \E op \in WaitOps : WaitCall(t, op) \/ WaitReturn(t, op) \/ WaitInterrupted(t, op)
            BY <3>3 DEF WaitCall, WaitEnter, WaitReturn, WaitInterrupted
        <3> QED
            BY <1>3, <3>1, <3>2, <3>3 DEF SharedCall
    <2> QED
        BY <1>1, <1>3, <2>1, SharedTame, SharedStartCodes
<1>4. CASE IrqRead
    <2>1. /\ status # <<>> /\ irq' = [mail |-> Head(status), user |-> retrieve_user(Head(status))]
          /\ status' = Tail(status) /\ UNCHANGED <<cmd, queues>>
        BY <1>4 DEF IrqRead
    <2>2. /\ 1 \in 1..Len(status) /\ Head(status) = status[1]
          /\ \A i \in 1..Len(status') : i + 1 \in 1..Len(status) /\ status'[i] = status[i+1]
        BY <2>1, IdTypes, Shrunk
    <2>3. irq'.mail.uid # "SEARCH_START_CODE"
        BY <2>1, <2>2 DEF NoSearches
    <2> QED
        BY <2>1, <2>2, <2>3 DEF NoSearches
<1>5. CASE IrqDeliver
    <2>1. PICK f, q : f = irq.user /\ q = mail_to_queue(irq.mail.uid)
        OBVIOUS
    <2>2. /\ irq # NoIrq /\ irq' = NoIrq /\ UNCHANGED <<cmd, status>>
          /\ queues' = [queues EXCEPT ![f][q] = al5_list_push(@, irq.mail)]
        BY <1>5, <2>1 DEF IrqDeliver, al5_user_deliver
    <2>3. q # "SC"
        <3>1. irq.mail \in Answers /\ irq.mail.uid # "SEARCH_START_CODE"
            BY <2>2, IdTypes DEF NoSearches
        <3>2. irq.mail.uid \in {"CREATE_CHANNEL", "DESTROY_CHANNEL", "ENCODE_ONE_FRM",
                                "DECODE_ONE_FRM", "GET_RECONSTRUCTED_PICTURE"}
            BY <3>1 DEF Answers
        <3> QED
            BY <2>1, <3>2 DEF mail_to_queue
    <2>4. NoStartCodes
        BY <2>2, <2>3, IdTypes DEF NoStartCodes, QueueIds
    <2> QED
        BY <2>2, <2>4, NoSearchSent
<1>6. CASE IrqOrphan
    <2>1. /\ irq # NoIrq /\ irq' = NoIrq /\ UNCHANGED <<status, queues>>
          /\ \/ cmd' = cmd
             \/ /\ should_destroy_channel_on_bad_feedback(irq.mail.uid)
                /\ cmd' = Append(cmd, OrphanMsg(irq.mail.chan))
        BY <1>6 DEF IrqOrphan, al5_mcu_send
    <2>2. ASSUME should_destroy_channel_on_bad_feedback(irq.mail.uid)
          PROVE  OrphanMsg(irq.mail.chan) \in Commands
        BY <2>1, <2>2, IdTypes, AnswerParts, CommandTypes DEF should_destroy_channel_on_bad_feedback
    <2>3. OrphanMsg(irq.mail.chan).uid # "SEARCH_START_CODE"
        BY DEF OrphanMsg
    <2>4. NoStartCodes
        BY <2>1 DEF NoStartCodes
    <2> QED
        BY <2>1, <2>2, <2>3, <2>4, NoSearchSent
<1>7. ASSUME NEW t \in Threads, OwnStep(t) PROVE NoSearches'
    <2>0. FileOf[t] \in Files /\ "CREATE" \in QueueIds
        BY UsersAssumption DEF QueueIds
    <2>1. CASE CreateAnswered(t)
        <3>1. NoStartCodes
            BY <2>0, <2>1, PopStartCodes DEF CreateAnswered
        <3> QED
            BY <2>1, <3>1, NoSearchSent DEF CreateAnswered
    <2>2. ASSUME NEW u \in ChannelCommands, UNCHANGED <<status, irq, queues>>,
                 cmd' = cmd \/ cmd' = Append(cmd, ChanMsg(u, chan_uid[FileOf[t]]))
          PROVE  NoSearches'
        <3>1. PICK m : m = ChanMsg(u, chan_uid[FileOf[t]])
            OBVIOUS
        <3>2. m \in Commands /\ m.uid # "SEARCH_START_CODE"
            BY <2>0, <3>1, IdTypes DEF ChanMsg, Commands, ChannelCommands
        <3> QED
            BY <2>2, <3>1, <3>2, NoSearchSent DEF NoStartCodes
    <2>3. CASE QuietStep(t)
        <3>1. UNCHANGED <<status, irq, queues, cmd>>
            BY <2>3 DEF QuietStep, CreateEnter, CreateRefused, CreateAllocate, CreateNoMemory, CreateDestroys,
               PutStreamEnter
        <3> QED
            BY <3>1, NoSearchSent DEF NoStartCodes
    <2>4. CASE CreateInt(t) \/ CreateRef(t)
        BY <2>2, <2>4 DEF CreateInt, CreateRef, al5_mcu_send, create_mail_from_bufpool, ChannelCommands
    <2>5. CASE al5e_user_encode_one_frame(t) \/ al5e_user_release_rec(t)
        BY <2>2, <2>5 DEF al5e_user_encode_one_frame, al5e_user_release_rec, SendOnChannel, al5_mcu_send,
           al5e_create_encode_one_frame_msg, userVars, ChannelCommands
    <2>6. CASE PutStreamSend(t) \/ GetRecEnter(t)
        BY <2>2, <2>6 DEF PutStreamSend, GetRecEnter, SendOnChannel, al5_mcu_send, ChannelCommands
    <2> QED
        BY <1>7, <2>1, <2>3, <2>4, <2>5, <2>6 DEF OwnStep, QuietStep
<1>8. CASE UNCHANGED vars
    BY <1>8 DEF vars, userVars, NoSearches
<1>9. CASE SharedStep
    BY <1>2, <1>3, <1>4, <1>5, <1>6, <1>9, FirmwareSearchesNot DEF SharedStep, Irq
<1> QED
    BY <1>7, <1>8, <1>9, NextSteps DEF EncoderStep

\* Until a wait is cut short, what a file finds in its queues was meant for it,
\* although user ids and channel ids are handed out again.  (retrieve_user)
THEOREM MailsReachTheirOwner ==
    PromptReuse = FALSE /\ OneControl => (Spec => [](signals = 0 => DeliveredToOwner))
<1> SUFFICES ASSUME PromptReuse = FALSE, OneControl PROVE Spec => [](signals = 0 => DeliveredToOwner)
    OBVIOUS
<1>1. Init => NoSearches
    BY DEF Init, UsersInit, McuInit, NoSearches, QueueIds
<1>2. UsersInv /\ NoSearches /\ [Next]_vars => NoSearches'
    BY NextSearchesNot
<1>3. NoSearches /\ (signals = 0 => OwnInv) => (signals = 0 => DeliveredToOwner)
    BY DEF NoSearches, OwnInv, MailsOK, DeliveredToOwner
<1> QED
    BY <1>1, <1>2, <1>3, OwnerInvariant, EncoderInvariant, PTL DEF Spec

-----------------------------------------------------------------------------
\* The buffers the firmware works with.

\* Buffers that a channel was or will be given are allocated, as long as the file
\* that made it has not given it up.
BuffersOK ==
    \A f \in Files : \A ch \in alive :
        chan_uid[f] = ch /\ ~GivenNone(ch) => (int_buffers[f] /\ rec_buffers[f]) \/ creator[ch] = NoFile

\* The file still has the buffers it had.
Stocked(f, ch) ==
    /\ chan_uid[f] = ch /\ ch \in alive /\ ~GivenNone(ch)
    /\ int_buffers'[f] = int_buffers[f] /\ rec_buffers'[f] = rec_buffers[f]
    /\ creator'[ch] \in {creator[ch], NoFile}

LEMMA StockedKeeps ==
    ASSUME BuffersOK,
           \A f \in Files : \A ch \in alive' : chan_uid'[f] = ch /\ ~GivenNone(ch)' =>
              (int_buffers'[f] /\ rec_buffers'[f]) \/ creator'[ch] = NoFile \/ Stocked(f, ch)
    PROVE  BuffersOK'
<1> SUFFICES ASSUME NEW f \in Files, NEW ch \in alive', chan_uid'[f] = ch, ~GivenNone(ch)'
             PROVE  (int_buffers'[f] /\ rec_buffers'[f]) \/ creator'[ch] = NoFile
    BY DEF BuffersOK
<1>1. CASE Stocked(f, ch)
    <2>1. (int_buffers[f] /\ rec_buffers[f]) \/ creator[ch] = NoFile
        BY <1>1 DEF Stocked, BuffersOK
    <2> QED
        BY <1>1, <2>1 DEF Stocked
<1> QED
    BY <1>1

LEMMA TameGiven ==
    ASSUME UsersInv, Tame, NEW ch PROVE GivenNone(ch)' <=> GivenNone(ch)
<1>1. Pushes(INT, ch)' = Pushes(INT, ch) /\ Pushes(REF, ch)' = Pushes(REF, ch)
    <2>1. CASE cmd' = cmd
        BY <2>1 DEF Pushes
    <2>2. ASSUME NEW m \in Commands, m.uid \notin {INT, REF}, cmd' = Append(cmd, m)
          PROVE  Pushes(INT, ch)' = Pushes(INT, ch) /\ Pushes(REF, ch)' = Pushes(REF, ch)
        BY <2>2, PushesSame
    <2> QED
        BY <2>1, <2>2 DEF Tame
<1> QED
    BY <1>1 DEF GivenNone, Tame

\* Steps that give no buffers, and leave the allocated ones to files with a channel.
LEMMA TameStocked ==
    ASSUME UsersInv, BuffersOK, Tame,
           \A g \in Files : chan_uid'[g] # BAD_CHAN =>
              /\ chan_uid'[g] = chan_uid[g]
              /\ int_buffers'[g] = int_buffers[g] /\ rec_buffers'[g] = rec_buffers[g],
           UNCHANGED creator
    PROVE  BuffersOK'
<1>1. alive' = alive /\ BAD_CHAN \notin alive
    BY IdTypes, McuAssumption DEF Tame
<1>2. ASSUME NEW f \in Files, NEW ch \in alive', chan_uid'[f] = ch, ~GivenNone(ch)' PROVE Stocked(f, ch)
    BY <1>1, <1>2, TameGiven DEF Stocked
<1> QED
    BY <1>2, StockedKeeps

LEMMA SharedStocks ==
    ASSUME UsersInv, OwnInv, BuffersOK, NEW t \in Threads, SharedCall(t) PROVE BuffersOK'
<1>0. /\ chan_uid \in [Files -> ChanIds] /\ FileOf[t] \in Files /\ Tame
      /\ int_buffers \in [Files -> BOOLEAN] /\ rec_buffers \in [Files -> BOOLEAN]
    BY UsersAssumption, SharedTame DEF UsersInv, UserTypes, FlagTypes
<1> DEFINE Same == UNCHANGED <<chan_uid, int_buffers, rec_buffers, creator>>
<1> USE DEF groupVars, chanVars, poolVars, mcuVars
<1>1. CASE Same
    BY <1>0, <1>1, TameStocked
<1>2. CASE DestroyQuiet(t) \/ DestroyAnswered(t)
    <2>1. /\ chan_uid' = [chan_uid EXCEPT ![FileOf[t]] = BAD_CHAN] /\ UNCHANGED creator
          /\ int_buffers' = [int_buffers EXCEPT ![FileOf[t]] = FALSE]
          /\ rec_buffers' = [rec_buffers EXCEPT ![FileOf[t]] = FALSE]
        BY <1>2 DEF DestroyQuiet, DestroyAnswered, ForgetChannel, al5_user_destroy_channel_resources
    <2>2. chan_uid'[FileOf[t]] = BAD_CHAN
        BY <1>0, <2>1
    <2>3. \A g \in Files : g # FileOf[t] =>
             /\ chan_uid'[g] = chan_uid[g]
             /\ int_buffers'[g] = int_buffers[g] /\ rec_buffers'[g] = rec_buffers[g]
        BY <1>0, <2>1
    <2> QED
        BY <1>0, <2>1, <2>2, <2>3, TameStocked
<1>3. CASE ReleaseUnbind(t)
    <2>1. /\ chan_uid' = [chan_uid EXCEPT ![FileOf[t]] = BAD_CHAN]
          /\ UNCHANGED <<int_buffers, rec_buffers, creator>>
        BY <1>3 DEF ReleaseUnbind
    <2> QED
        BY <1>0, <2>1, TameStocked
<1>4. CASE ReleaseFree(t)
    <2>1. /\ UNCHANGED <<chan_uid, alive>>
          /\ int_buffers' = [int_buffers EXCEPT ![FileOf[t]] = FALSE]
          /\ rec_buffers' = [rec_buffers EXCEPT ![FileOf[t]] = FALSE]
          /\ creator' = [ch \in Chans |-> IF ch = chan_uid[FileOf[t]] /\ creator[ch] = FileOf[t]
                                          THEN NoFile ELSE creator[ch]]
        BY <1>4 DEF ReleaseFree, al5_user_destroy_channel_resources
    <2>2. ASSUME NEW f \in Files, NEW ch \in alive, chan_uid[f] = ch, ~GivenNone(ch)'
          PROVE  creator'[ch] = NoFile \/ Stocked(f, ch)
        <3>1. ch \in Chans /\ creator'[ch] \in {creator[ch], NoFile} /\ ~GivenNone(ch)
            BY <1>0, <2>1, <2>2, IdTypes, TameGiven
        <3>2. CASE f = FileOf[t]
            <4>1. creator[ch] \in {f, NoFile}
                BY <2>2, <3>1 DEF OwnInv, MadeOK, Claims
            <4> QED
                BY <2>1, <2>2, <3>1, <3>2, <4>1
        <3>3. CASE f # FileOf[t]
            <4>1. int_buffers'[f] = int_buffers[f] /\ rec_buffers'[f] = rec_buffers[f]
                BY <1>0, <2>1, <3>3
            <4> QED
                BY <2>2, <3>1, <4>1 DEF Stocked
        <3> QED
            BY <3>2, <3>3
    <2> QED
        BY <2>1, <2>2, StockedKeeps
<1>5. ~(DestroyQuiet(t) \/ DestroyAnswered(t) \/ ReleaseUnbind(t) \/ ReleaseFree(t)) => Same
    <2>1. CASE DestroyEnter(t) \/ DestroyQueues(t) \/ DestroyMutex(t) \/ DestroyRefused(t)
        BY <2>1 DEF DestroyEnter, DestroyQueues, DestroyMutex, DestroyRefused
    <2>2. CASE DestroyUnlock(t) \/ DestroyRelock(t) \/ DestroyKilled(t) \/ DestroyInterrupted(t)
        BY <2>2 DEF DestroyUnlock, DestroyRelock, DestroyKilled, DestroyInterrupted
    <2>3. CASE DestroySend(t) \/ ReleaseEnter(t) \/ ReleaseTry(t) \/ ReleasePurge(t)
        BY <2>3 DEF DestroySend, ReleaseEnter, ReleaseTry, ReleasePurge
    <2>4. CASE CreateSend(t) \/ CreateWoken(t) \/ CreateGivesUp(t)
        BY <2>4 DEF CreateSend, CreateWoken, CreateGivesUp
    <2>5. CASE \E op \in WaitOps : WaitCall(t, op) \/ WaitReturn(t, op) \/ WaitInterrupted(t, op)
        BY <2>5 DEF WaitCall, WaitEnter, WaitReturn, WaitInterrupted
    <2> QED
        BY <2>1, <2>2, <2>3, <2>4, <2>5 DEF SharedCall, DestroyStep, ReleaseStep
<1> QED
    BY <1>1, <1>2, <1>3, <1>4, <1>5

\* What the firmware has been given only moves from the command box to the firmware.
LEMMA FirmwareStocks ==
    ASSUME UsersInv, BuffersOK, McuStep, Fresh PROVE BuffersOK'
<1>0. /\ UNCHANGED <<chan_uid, int_buffers, rec_buffers>> /\ alive \subseteq Chans
      /\ pushed \in [Chans -> Seq({"PUSH_BUFFER_INTERMEDIATE", "PUSH_BUFFER_REFERENCE"})]
      /\ creator \in [Chans -> Files \cup {NoFile}]
    BY IdTypes DEF McuStep, userVars, chanVars, poolVars, UsersInv, McuTypes
<1>1. /\ cmd' = cmd \/ Handles
      /\ \A ch \in alive : \/ pushed'[ch] = pushed[ch]
                           \/ pushed'[ch] = <<>>
                           \/ Handles /\ Head(cmd).uid \in {INT, REF} /\ Head(cmd).chan = ch
      /\ \A ch \in alive : creator'[ch] \in {creator[ch], NoFile}
      /\ alive' \subseteq Chans
    <2>1. CASE McuCreates
        BY <1>0, <2>1 DEF McuCreates, Takes, Handles
    <2>2. CASE McuDestroys
        BY <1>0, <2>2 DEF McuDestroys, Forget, Takes, Handles
    <2>3. CASE McuGetsBuffers
        BY <1>0, <2>3 DEF McuGetsBuffers, Takes, Handles, INT, REF
    <2>4. CASE McuRefuses \/ McuGetsFrame \/ McuGetsRec \/ McuSearches \/ McuIgnores
        BY <1>0, <2>4 DEF McuRefuses, McuGetsFrame, McuGetsRec, McuSearches, McuIgnores, Takes, Handles
    <2>5. CASE \E name \in {"ENCODE_ONE_FRM", "DECODE_ONE_FRM"} : McuReports(name)
        BY <1>0, <2>5 DEF McuReports
    <2> QED
        BY <2>1, <2>2, <2>3, <2>4, <2>5 DEF McuStep, McuHandles
<1>2. ASSUME NEW ch \in alive, GivenNone(ch) PROVE GivenNone(ch)'
    <2>1. ASSUME Handles PROVE 1 \notin Pushes(INT, ch) /\ 1 \notin Pushes(REF, ch)
        BY <1>2 DEF GivenNone
    <2>2. pushed'[ch] = <<>>
        BY <1>1, <1>2, <2>1, PushesFirst DEF GivenNone
    <2>3. Pushes(INT, ch)' = {} /\ Pushes(REF, ch)' = {}
        <3>1. CASE Handles
            BY <1>2, <3>1, PushesTaken DEF GivenNone
        <3>2. CASE ~Handles
            BY <1>1, <1>2, <3>2 DEF GivenNone, Pushes
        <3> QED
            BY <3>1, <3>2
    <2> QED
        BY <2>2, <2>3 DEF GivenNone
<1>3. ASSUME NEW f \in Files, NEW ch \in alive', chan_uid[f] = ch, ~GivenNone(ch)' PROVE Stocked(f, ch)
    <2>1. ch \in alive
        BY <1>3 DEF Fresh, IdInUse
    <2> QED
        BY <1>0, <1>1, <1>2, <1>3, <2>1 DEF Stocked
<1> QED
    BY <1>0, <1>3, StockedKeeps

\* A create gives the channel the buffers it has allocated.
LEMMA PushStocks ==
    ASSUME UsersInv, IdsInv, BuffersOK, NEW t \in Threads, NEW u \in {INT, REF},
           pc[t] \in {"create_int", "create_ref"}, cmd' = Append(cmd, ChanMsg(u, chan_uid[FileOf[t]])),
           UNCHANGED <<alive, pushed, chan_uid, int_buffers, rec_buffers, creator>>
    PROVE  BuffersOK'
<1>1. PICK f, c, m : f = FileOf[t] /\ c = chan_uid[f] /\ m = ChanMsg(u, c)
    OBVIOUS
<1>2. /\ f \in Files /\ c \in ChanIds
    BY <1>1, IdTypes, UsersAssumption
<1>3. m \in Commands /\ m.chan = c /\ cmd' = Append(cmd, m)
    BY <1>1, <1>2, CommandTypes DEF ChannelCommands, INT, REF, ChanMsg
<1>4. int_buffers[f] /\ rec_buffers[f]
    <2>1. ~Closing(f)
        BY <1>1 DEF Closing, UsersInv, CallsOK, Destroying, Releasing
    <2> QED
        BY <1>1, <1>2, <2>1 DEF UsersInv, ChannelOK
<1>5. ASSUME NEW g \in Files, NEW ch \in alive, chan_uid[g] = ch, ~GivenNone(ch)', g # f
      PROVE  Stocked(g, ch)
    <2>1. ch # c
        BY <1>1, <1>2, <1>5, IdTypes, McuAssumption DEF IdsInv, LinksOK, FilesOK
    <2>2. Pushes(INT, ch)' = Pushes(INT, ch) /\ Pushes(REF, ch)' = Pushes(REF, ch)
        BY <1>3, <2>1, PushesSame
    <2> QED
        BY <1>5, <2>2 DEF Stocked, GivenNone
<1> QED
    BY <1>4, <1>5, StockedKeeps

LEMMA EncoderStocks ==
    ASSUME UsersInv, IdsInv, PushInv, BuffersOK, NEW t \in Threads, OwnStep(t) PROVE BuffersOK'
<1>0. /\ chan_uid \in [Files -> ChanIds] /\ FileOf[t] \in Files
      /\ int_buffers \in [Files -> BOOLEAN] /\ rec_buffers \in [Files -> BOOLEAN]
      /\ pc[t] = "create_allocate" => checkpoint[FileOf[t]] = "ALLOCATE_BUFFERS"
      /\ alive \subseteq Chans
    BY UsersAssumption, IdTypes DEF UsersInv, UserTypes, FlagTypes, ChannelOK
<1> DEFINE Same == UNCHANGED <<alive, pushed, chan_uid, int_buffers, rec_buffers, creator>>
<1> USE DEF groupVars, chanVars, poolVars, mcuVars, userVars
<1>1. CASE CreateEnter(t) \/ CreateRefused(t) \/ CreateDestroys(t) \/ PutStreamEnter(t)
    <2>1. UNCHANGED <<chan_uid, int_buffers, rec_buffers, creator>> /\ Tame
        BY <1>1, QuietTame DEF QuietStep, CreateEnter, CreateRefused, CreateDestroys, PutStreamEnter
    <2> QED
        BY <2>1, TameStocked
<1>2. CASE CreateAllocate(t)
    <2>1. /\ int_buffers' = [int_buffers EXCEPT ![FileOf[t]] = TRUE]
          /\ rec_buffers' = [rec_buffers EXCEPT ![FileOf[t]] = TRUE]
          /\ UNCHANGED <<chan_uid, creator, alive>> /\ Tame
        BY <1>2, QuietTame DEF QuietStep, CreateAllocate
    <2>2. int_buffers'[FileOf[t]] /\ rec_buffers'[FileOf[t]]
        BY <1>0, <2>1
    <2>3. \A g \in Files : g # FileOf[t] =>
             int_buffers'[g] = int_buffers[g] /\ rec_buffers'[g] = rec_buffers[g]
        BY <1>0, <2>1
    <2>4. ASSUME NEW g \in Files, NEW ch \in alive, chan_uid[g] = ch, ~GivenNone(ch)', g # FileOf[t]
          PROVE  Stocked(g, ch)
        BY <2>1, <2>3, <2>4, TameGiven DEF Stocked
    <2> QED
        BY <2>1, <2>2, <2>4, StockedKeeps
<1>3. CASE CreateNoMemory(t)
    <2>1. PICK got \in BOOLEAN : int_buffers' = [int_buffers EXCEPT ![FileOf[t]] = got]
        BY <1>3 DEF CreateNoMemory
    <2>2. UNCHANGED <<chan_uid, rec_buffers, creator, alive>> /\ Tame /\ pc[t] = "create_allocate"
        BY <1>3, QuietTame DEF QuietStep, CreateNoMemory
    <2>3. ASSUME NEW g \in Files, NEW ch \in alive, chan_uid[g] = ch, ~GivenNone(ch)'
          PROVE  Stocked(g, ch)
        <3>1. ~GivenNone(ch)
            BY <2>2, <2>3, TameGiven
        <3>2. g # FileOf[t]
            BY <1>0, <2>2, <2>3, <3>1 DEF PushInv, CheckpointOK
        <3>3. int_buffers'[g] = int_buffers[g]
            BY <1>0, <2>1, <2>3, <3>2
        <3> QED
            BY <2>2, <2>3, <3>1, <3>3 DEF Stocked
    <2> QED
        BY <2>2, <2>3, StockedKeeps
<1>4. CASE CreateAnswered(t)
    <2>1. PICK f, new : f = FileOf[t] /\ new = Head(queues[f]["CREATE"]).chan
        OBVIOUS
    <2>2. /\ f \in Files /\ queues[f]["CREATE"] # <<>>
          /\ UNCHANGED <<cmd, alive, pushed, int_buffers, rec_buffers, creator>>
        BY <1>0, <1>4, <2>1 DEF CreateAnswered
    <2>3. \A ch : GivenNone(ch)' <=> GivenNone(ch)
        BY <2>2 DEF GivenNone, Pushes
    <2>4. chan_uid' = chan_uid \/ (new # BAD_CHAN /\ chan_uid' = [chan_uid EXCEPT ![f] = new])
        BY <1>4, <2>1 DEF CreateAnswered, check_and_affect_chan_uid
    <2>5. new # BAD_CHAN => GivenNone(new)
        <3> SUFFICES ASSUME new # BAD_CHAN PROVE GivenNone(new)
            OBVIOUS
        <3>1. 1 \in 1..Len(queues[f]["CREATE"]) /\ queues[f]["CREATE"][1].chan = new
            BY <2>1, <2>2, QueueTypes
        <3>2. Unread(new)
            BY <2>2, <3>1 DEF IdsInv, LinksOK, ClaimsOK, QueueClaims
        <3>3. Pushes(INT, new) = {} /\ Pushes(REF, new) = {}
            BY <3>2, IdTypes, CommandNames DEF Unread, InCmd, Pushes, ChannelCommands, INT, REF
        <3> QED
            BY <3>2, <3>3 DEF Unread, GivenNone
    <2>6. ASSUME NEW g \in Files, NEW ch \in alive, chan_uid'[g] = ch, ~GivenNone(ch)'
          PROVE  Stocked(g, ch)
        <3>1. ~GivenNone(ch) /\ (new # BAD_CHAN => ch # new)
            BY <2>3, <2>5, <2>6
        <3>2. chan_uid[g] = ch
            BY <1>0, <2>2, <2>4, <2>6, <3>1
        <3> QED
            BY <2>2, <2>6, <3>1, <3>2 DEF Stocked
    <2> QED
        BY <2>2, <2>6, StockedKeeps
<1>5. CASE CreateInt(t)
    <2>1. /\ cmd' = Append(cmd, ChanMsg(INT, chan_uid[FileOf[t]])) /\ pc[t] = "create_int" /\ Same
        BY <1>5 DEF CreateInt, al5_mcu_send, create_mail_from_bufpool, INT
    <2> QED
        BY <2>1, PushStocks
<1>6. CASE CreateRef(t)
    <2>1. /\ cmd' = Append(cmd, ChanMsg(REF, chan_uid[FileOf[t]])) /\ pc[t] = "create_ref" /\ Same
        BY <1>6 DEF CreateRef, al5_mcu_send, create_mail_from_bufpool, REF
    <2> QED
        BY <2>1, PushStocks
<1>7. ASSUME NEW u \in ChannelCommands \ {INT, REF}, UNCHANGED checkpoint, Same,
             cmd' = cmd \/ cmd' = Append(cmd, ChanMsg(u, chan_uid[FileOf[t]]))
      PROVE  BuffersOK'
    <2>1. Tame
        <3>1. CASE cmd' = cmd
            BY <1>7, <3>1 DEF Tame
        <3>2. CASE cmd' = Append(cmd, ChanMsg(u, chan_uid[FileOf[t]]))
            BY <1>0, <1>7, <3>2, SendTame
        <3> QED
            BY <1>7, <3>1, <3>2
    <2> QED
        BY <1>7, <2>1, TameStocked
<1>8. CASE al5e_user_encode_one_frame(t) \/ al5e_user_release_rec(t)
    BY <1>7, <1>8 DEF al5e_user_encode_one_frame, al5e_user_release_rec, SendOnChannel, al5_mcu_send,
       al5e_create_encode_one_frame_msg, ChannelCommands, INT, REF
<1>9. CASE PutStreamSend(t) \/ GetRecEnter(t)
    BY <1>7, <1>9 DEF PutStreamSend, GetRecEnter, SendOnChannel, al5_mcu_send, ChannelCommands, INT, REF
<1> QED
    BY <1>1, <1>2, <1>3, <1>4, <1>5, <1>6, <1>8, <1>9 DEF OwnStep

LEMMA NextStocks ==
    PromptReuse = FALSE /\ UsersInv /\ IdsInv /\ PushInv /\ OwnInv /\ BuffersOK /\ [Next]_vars => BuffersOK'
<1> SUFFICES ASSUME PromptReuse = FALSE, UsersInv, IdsInv, PushInv, OwnInv, BuffersOK, [Next]_vars
             PROVE  BuffersOK'
    OBVIOUS
<1> USE DEF groupVars, chanVars, poolVars, mcuVars, userVars
<1>1. ASSUME NEW f \in Files, al5_codec_open(f) PROVE BuffersOK'
    <2>0. /\ chan_uid \in [Files -> ChanIds] /\ int_buffers \in [Files -> BOOLEAN]
          /\ rec_buffers \in [Files -> BOOLEAN]
          /\ checkpoint \in [Files -> {"NO_CHECKPOINT", "ALLOCATE_BUFFERS", "SEND_INTERMEDIATE_BUFFERS",
                                       "SEND_REFERENCE_BUFFERS"}]
        BY DEF UsersInv, UserTypes, FlagTypes
    <2>1. /\ chan_uid' = [chan_uid EXCEPT ![f] = BAD_CHAN] /\ UNCHANGED <<cmd, alive, pushed, creator>>
          /\ checkpoint' = [checkpoint EXCEPT ![f] = "NO_CHECKPOINT"]
          /\ int_buffers' = [int_buffers EXCEPT ![f] = FALSE]
          /\ rec_buffers' = [rec_buffers EXCEPT ![f] = FALSE]
        BY <1>1 DEF al5_codec_open, al5_user_init
    <2>2. Tame
        BY <2>0, <2>1 DEF Tame
    <2>3. chan_uid'[f] = BAD_CHAN
        BY <2>0, <2>1
    <2>4. \A g \in Files : g # f => /\ chan_uid'[g] = chan_uid[g] /\ int_buffers'[g] = int_buffers[g]
                                    /\ rec_buffers'[g] = rec_buffers[g]
        BY <2>0, <2>1
    <2> QED
        BY <2>1, <2>2, <2>3, <2>4, TameStocked
<1>2. CASE Irq
    <2>1. UNCHANGED <<alive, pushed, chan_uid, int_buffers, rec_buffers, creator>>
        BY <1>2 DEF Irq, IrqRead, IrqDeliver, IrqOrphan
    <2>2. \A ch : GivenNone(ch)' <=> GivenNone(ch)
        <3>1. CASE cmd' = cmd
            BY <2>1, <3>1 DEF GivenNone, Pushes
        <3>2. CASE IrqOrphan /\ cmd' # cmd
            <4>1. /\ irq # NoIrq /\ should_destroy_channel_on_bad_feedback(irq.mail.uid)
                  /\ cmd' = Append(cmd, OrphanMsg(irq.mail.chan))
                BY <3>2 DEF IrqOrphan, al5_mcu_send
            <4>2. PICK m : m = OrphanMsg(irq.mail.chan)
                OBVIOUS
            <4>3. m \in Commands
                BY <4>1, <4>2, IdTypes, AnswerParts, CommandTypes DEF should_destroy_channel_on_bad_feedback
            <4>4. m.uid \notin {INT, REF}
                BY <4>2 DEF OrphanMsg, INT, REF
            <4>5. \A ch : Pushes(INT, ch)' = Pushes(INT, ch) /\ Pushes(REF, ch)' = Pushes(REF, ch)
                BY <4>1, <4>2, <4>3, <4>4, PushesSame
            <4> QED
                BY <2>1, <4>5 DEF GivenNone
        <3> QED
            BY <1>2, <3>1, <3>2 DEF Irq, IrqRead, IrqDeliver
    <2>3. ASSUME NEW f \in Files, NEW ch \in alive, chan_uid[f] = ch, ~GivenNone(ch)' PROVE Stocked(f, ch)
        BY <2>1, <2>2, <2>3 DEF Stocked
    <2> QED
        BY <2>1, <2>3, StockedKeeps
<1>3. CASE UNCHANGED vars
    <2>1. /\ UNCHANGED <<alive, chan_uid, int_buffers, rec_buffers, creator>>
          /\ \A ch : GivenNone(ch)' <=> GivenNone(ch)
        BY <1>3 DEF vars, GivenNone, Pushes
    <2>2. ASSUME NEW f \in Files, NEW ch \in alive, chan_uid[f] = ch, ~GivenNone(ch)' PROVE Stocked(f, ch)
        BY <2>1, <2>2 DEF Stocked
    <2> QED
        BY <2>1, <2>2, StockedKeeps
<1>4. CASE FreshStep
    BY <1>1, <1>2, <1>4, SharedStocks, FirmwareStocks DEF FreshStep
<1>5. CASE EncoderStep
    BY <1>5, EncoderStocks DEF EncoderStep
<1> QED
    BY <1>3, <1>4, <1>5, NextFresh

\* Until a wait is cut short, the firmware keeps no buffers that the driver has freed,
\* but for the time a quiet destroy is on its way.
\* (al5e_user_create_channel, al5_user_destroy_channel, al5_codec_release)
THEOREM BuffersStayAllocated ==
    PromptReuse = FALSE /\ OneControl => (Spec => [](signals = 0 => BuffersOutliveChannel))
<1> SUFFICES ASSUME PromptReuse = FALSE, OneControl PROVE Spec => [](signals = 0 => BuffersOutliveChannel)
    OBVIOUS
<1>1. Init => BuffersOK
    BY DEF Init, McuInit, BuffersOK
<1>2. UsersInv /\ IdsInv /\ PushInv /\ (signals = 0 => OwnInv) /\ (signals = 0 => BuffersOK) /\ [Next]_vars
      => (signals = 0 => BuffersOK)'
    <2> SUFFICES ASSUME UsersInv, IdsInv, PushInv, signals = 0 => OwnInv, signals = 0 => BuffersOK,
                        [Next]_vars, signals' = 0
                 PROVE  BuffersOK'
        OBVIOUS
    <2>1. signals = 0
        <3>1. UNCHANGED vars => signals' = signals
            BY DEF vars, userVars, threadVars
        <3> QED
            BY <3>1, NextFresh, SignalsGrow, EncoderSignals DEF EncoderStep
    <2> QED
        BY <2>1, NextStocks
<1>3. UsersInv /\ IdsInv /\ (signals = 0 => OwnInv) /\ (signals = 0 => BuffersOK)
      => (signals = 0 => BuffersOutliveChannel)
    <2> SUFFICES ASSUME UsersInv, IdsInv, OwnInv, BuffersOK, NEW c \in alive, pushed[c] # <<>>,
                        creator[c] # NoFile, ~DestroyQueued(c)
                 PROVE  \E f \in Files : chan_uid[f] = c /\ int_buffers[f] /\ rec_buffers[f]
        BY DEF BuffersOutliveChannel
    <2>1. c \in Chans /\ creator[c] \in Files
        BY IdTypes DEF UsersInv, McuTypes
    <2>2. PICK f \in Files : f = creator[c]
        BY <2>1
    <2>3. Claims(f, c)
        BY <2>2 DEF OwnInv, OwnedOK
    <2>4. ~AnswerFor(f, c)
        BY <2>1, ClaimTypes DEF Unread
    <2>5. chan_uid[f] = c /\ ~GivenNone(c)
        BY <2>3, <2>4 DEF Claims, GivenNone
    <2> QED
        BY <2>5 DEF BuffersOK
<1> QED
    BY <1>1, <1>2, <1>3, OrderInvariant, OwnerInvariant, ChannelInvariant, EncoderInvariant, PTL DEF Spec
=============================================================================
