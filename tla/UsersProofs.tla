---------------------------- MODULE UsersProofs -----------------------------
(***************************************************************************)
(* Proofs about Users: what holds of the encoder and of the decoder alike, *)
(* and is kept by every step they share, for every number of files,        *)
(* threads and channels, whatever calls the threads make.                  *)
(***************************************************************************)
EXTENDS Users, WellFoundedInduction, TLAPS

-----------------------------------------------------------------------------
\* The inductive invariant of what encoder and decoder share, in parts.

Labels == {"idle", "create_send", "create_wait", "create_allocate", "create_int", "create_ref",
           "status_wait", "sc_wait", "rec_wait", "put_send",
           "destroy_enter", "destroy_queues", "destroy_mutexes", "destroy_send",
           "destroy_wait", "destroy_unlock", "destroy_relock",
           "release_loop", "release_purge", "release_unbind"}

\* What the command box carries.
ChannelCommands == {"DESTROY_CHANNEL", "QUIET_DESTROY_CHANNEL", "PUSH_BUFFER_INTERMEDIATE",
                    "PUSH_BUFFER_REFERENCE", "ENCODE_ONE_FRM", "DECODE_ONE_FRM",
                    "DECODE_ONE_SLICE", "GET_RECONSTRUCTED_PICTURE",
                    "RELEASE_RECONSTRUCTED_PICTURE", "PUT_STREAM_BUFFER"}
Commands ==
    [uid : {"CREATE_CHANNEL", "SEARCH_START_CODE"}, user : Slots, by : Files]
    \cup [uid : ChannelCommands, chan : ChanIds]
    \cup [uid : {"QUIET_DESTROY_CHANNEL"}, chan : ChanIds, orphan : {TRUE}]

\* The mails a queue may hold.
MailsOf(q) == {m \in Answers : mail_to_queue(m.uid) = q}

\* The state of the firmware and of the mailboxes.
McuTypes ==
    /\ cmd \in Seq(Commands) /\ Len(cmd) <= CmdCap
    /\ status \in Seq(Answers) /\ Len(status) <= StatusCap
    /\ alive \subseteq Chans
    /\ pushed \in [Chans -> Seq({"PUSH_BUFFER_INTERMEDIATE", "PUSH_BUFFER_REFERENCE"})]
    /\ frames \in [Chans -> Nat]
    /\ creator \in [Chans -> Files \cup {NoFile}]

\* The state of the users, and the mails in their queues.
UserTypes ==
    /\ uid \in [Files -> -1..MaxUsers-1]
    /\ slot \in [Slots -> Files \cup {NoFile}]
    /\ chan_uid \in [Files -> ChanIds]
    /\ checkpoint \in [Files -> {"NO_CHECKPOINT", "ALLOCATE_BUFFERS",
                                 "SEND_INTERMEDIATE_BUFFERS", "SEND_REFERENCE_BUFFERS"}]
    /\ queues \in [Files -> [QueueIds -> Seq(Answers)]]
    /\ \A f \in Files : \A q \in QueueIds : queues[f][q] \in Seq(MailsOf(q))
    /\ irq # NoIrq => irq.mail \in Answers /\ irq.user \in Files \cup {NoFile}

\* The flags of the users: Boolean.
FlagTypes ==
    /\ locked \in [Files -> [QueueIds -> BOOLEAN]]
    /\ int_buffers \in [Files -> BOOLEAN]
    /\ rec_buffers \in [Files -> BOOLEAN]

ThreadTypes ==
    /\ pc \in [Threads -> Labels]
    /\ idx \in [Threads -> 1..8]
    /\ after \in [Threads -> {"ioctl", "create", "release"}]
    /\ tries \in [Threads -> 0..MaxTries]
    /\ signals \in 0..MaxSignals

\* Who is where: a call runs on an open file, and a close runs alone.
Destroying == {"destroy_queues", "destroy_mutexes", "destroy_send", "destroy_wait",
               "destroy_unlock", "destroy_relock"}
Releasing  == {"release_loop", "release_purge", "release_unbind"}

CallsOK ==
    \A t \in Threads :
        /\ pc[t] # "idle" => uid[FileOf[t]] # -1
        /\ pc[t] \in Releasing => after[t] = "release"
        /\ pc[t] = "destroy_enter" => after[t] = "create"
        /\ after[t] = "create" => pc[t] \in Destroying \cup {"destroy_enter"}
        /\ after[t] = "release" => pc[t] \in (Destroying \ {"destroy_wait"}) \cup Releasing
        /\ after[t] = "release" =>
              \A u \in Threads : u # t /\ FileOf[u] = FileOf[t] =>
                  pc[u] = "idle"

\* The mutexes a thread needs at each point, and the threads that may hold those
\* of a file.
Needs(t) ==
    IF pc[t] \in {"create_send", "create_wait", "create_allocate", "create_int", "create_ref"}
    THEN {"CREATE"}
    ELSE IF pc[t] = "status_wait" THEN {"STATUS"}
    ELSE IF pc[t] = "sc_wait" THEN {"SC"}
    ELSE IF pc[t] = "rec_wait" THEN {"REC"}
    ELSE IF pc[t] = "destroy_mutexes" THEN {OpOrder[i] : i \in 1..idx[t]-1}
    ELSE IF pc[t] \in {"destroy_send", "destroy_wait", "destroy_unlock"} THEN OpIds
    ELSE {}

LocksOK ==
    /\ locks \in [Files -> [OpIds -> Threads \cup {NoThread}]]
    /\ \A f \in Files : \A op \in OpIds :
          locks[f][op] # NoThread => FileOf[locks[f][op]] = f
    /\ \A t \in Threads : \A op \in OpIds : locks[FileOf[t]][op] = t <=> op \in Needs(t)

\* A queue is unlocked only while somebody will lock it again, or frees it.
QueuesOK ==
    \A f \in Files : \A q \in QueueIds :
        \/ locked[f][q]
        \/ uid[f] = -1
        \/ \E t \in Threads : FileOf[t] = f /\ pc[t] = "release_unbind"
        \/ /\ q \in SharedQueues
           /\ \E t \in Threads : FileOf[t] = f /\ pc[t] \in Destroying \ {"destroy_queues"}

\* A close of the file is under way.
Closing(f) == \E t \in Threads : FileOf[t] = f /\ after[t] = "release"

\* Buffers, checkpoints and the channel of a file.
ChannelOK ==
    /\ \A f \in Files :
          /\ int_buffers[f] \/ rec_buffers[f] => chan_uid[f] # BAD_CHAN
          /\ checkpoint[f] # "NO_CHECKPOINT" => chan_uid[f] # BAD_CHAN
          /\ checkpoint[f] = "ALLOCATE_BUFFERS" => ~int_buffers[f] /\ ~rec_buffers[f]
          /\ checkpoint[f] \in {"SEND_INTERMEDIATE_BUFFERS", "SEND_REFERENCE_BUFFERS"} =>
                (int_buffers[f] /\ rec_buffers[f]) \/ Closing(f)
    /\ \A t \in Threads :
          /\ pc[t] \in {"create_send", "create_wait"} =>
                chan_uid[FileOf[t]] = BAD_CHAN /\ checkpoint[FileOf[t]] = "NO_CHECKPOINT"
          /\ pc[t] = "create_allocate" => checkpoint[FileOf[t]] = "ALLOCATE_BUFFERS"
          /\ pc[t] = "create_int" => checkpoint[FileOf[t]] = "SEND_INTERMEDIATE_BUFFERS"
          /\ pc[t] = "create_ref" => checkpoint[FileOf[t]] = "SEND_REFERENCE_BUFFERS"
          /\ pc[t] \in {"release_purge", "release_unbind"} =>
                ~int_buffers[FileOf[t]] /\ ~rec_buffers[FileOf[t]]

UsersInv ==
    /\ McuTypes /\ UserTypes /\ FlagTypes /\ ThreadTypes /\ CallsOK /\ LocksOK /\ QueuesOK
    /\ ChannelOK

-----------------------------------------------------------------------------
\* The steps that encoder and decoder share.

WaitOps == {"STATUS", "SC", "REC"}

\* A wait of a client that may call.
WaitCall(t, op) == pc[t] = "idle" /\ IsOpen(FileOf[t]) /\ WaitEnter(t, op)

McuStep ==
    /\ McuHandles \/ \E msg_uid \in {"ENCODE_ONE_FRM", "DECODE_ONE_FRM"} : McuReports(msg_uid)
    /\ UNCHANGED userVars

SharedCall(t) ==
    \/ DestroyEnter(t) \/ DestroyStep(t) \/ DestroyKilled(t) \/ DestroyInterrupted(t)
    \/ ReleaseEnter(t) \/ ReleaseStep(t)
    \/ CreateSend(t) \/ CreateWoken(t) \/ CreateGivesUp(t)
    \/ \E op \in WaitOps : WaitCall(t, op) \/ WaitReturn(t, op) \/ WaitInterrupted(t, op)

SharedStep ==
    \/ \E f \in Files : al5_codec_open(f)
    \/ \E t \in Threads : SharedCall(t)
    \/ Irq
    \/ McuStep

LEMMA OpOrderFacts ==
    /\ Len(OpOrder) = 8
    /\ OpIds = {"INIT", "CREATE", "DESTROY", "XCODE", "STATUS", "SC", "DEBUG", "REC"}
    /\ OpIds = {OpOrder[i] : i \in 1..8}
    /\ \A i \in 1..8 : OpOrder[i] \in OpIds
    BY DEF OpOrder, OpIds

\* Only t moves.
OthersStay(t) == \A u \in Threads : u # t => pc'[u] = pc[u] /\ idx'[u] = idx[u]

\* A mutex is taken, or given back, and the caller goes on.
LEMMA TakeMutex ==
    ASSUME UsersInv, NEW t \in Threads, NEW op \in OpIds,
           locks[FileOf[t]][op] = NoThread,
           locks' = [locks EXCEPT ![FileOf[t]][op] = t],
           OthersStay(t),
           Needs(t)' = Needs(t) \cup {op}
    PROVE  LocksOK'
<1>1. \A u \in Threads : u # t => Needs(u)' = Needs(u)
    BY DEF Needs, OthersStay
<1> QED
    BY <1>1, UsersAssumption DEF UsersInv, LocksOK

LEMMA GiveMutex ==
    ASSUME UsersInv, NEW t \in Threads, NEW op \in OpIds,
           Needs(t) = {op},
           locks' = [locks EXCEPT ![FileOf[t]][op] = NoThread],
           OthersStay(t),
           Needs(t)' = {}
    PROVE  LocksOK'
<1>1. \A u \in Threads : u # t => Needs(u)' = Needs(u)
    BY DEF Needs, OthersStay
<1>2. locks[FileOf[t]][op] = t
    BY DEF UsersInv, LocksOK
<1> QED
    BY <1>1, <1>2, UsersAssumption DEF UsersInv, LocksOK

\* The mutexes stay as they are, and so do those the thread needs.
LEMMA KeepMutexes ==
    ASSUME UsersInv, NEW t \in Threads, locks' = locks,
           OthersStay(t),
           Needs(t)' = Needs(t)
    PROVE  LocksOK'
<1>1. \A u \in Threads : Needs(u)' = Needs(u)
    BY DEF Needs, OthersStay
<1> QED
    BY <1>1 DEF UsersInv, LocksOK

\* The labels between the unlock and the relock of the queues.
Unlocking == Destroying \ {"destroy_queues"}

\* A thread goes on and does not leave queues unlocked behind.
LEMMA KeepQueues ==
    ASSUME UsersInv, NEW t \in Threads, NEW label,
           UNCHANGED <<locked, uid>>, pc' = [pc EXCEPT ![t] = label],
           pc[t] # "release_unbind", pc[t] \in Unlocking => label \in Unlocking
    PROVE  QueuesOK'
<1> SUFFICES ASSUME NEW f \in Files, NEW q \in QueueIds, ~locked[f][q], uid[f] # -1,
                    ~ \E u \in Threads : FileOf[u] = f /\ pc'[u] = "release_unbind"
             PROVE  /\ q \in SharedQueues
                    /\ \E u \in Threads : FileOf[u] = f /\ pc'[u] \in Unlocking
    BY DEF QueuesOK, Unlocking
<1>1. pc \in [Threads -> Labels]
    BY DEF UsersInv, ThreadTypes
<1>2. ~ \E u \in Threads : FileOf[u] = f /\ pc[u] = "release_unbind"
    BY <1>1
<1>3. q \in SharedQueues /\ \E u \in Threads : FileOf[u] = f /\ pc[u] \in Unlocking
    BY <1>2 DEF UsersInv, QueuesOK, Unlocking
<1> QED
    BY <1>1, <1>3


\* Two threads do not need the same mutex of a file.
LEMMA Excludes ==
    ASSUME UsersInv, NEW t \in Threads, NEW u \in Threads, FileOf[t] = FileOf[u],
           NEW op \in OpIds, op \in Needs(t), op \in Needs(u)
    PROVE  t = u
    BY DEF UsersInv, LocksOK

Creating == {"create_send", "create_wait", "create_allocate", "create_int", "create_ref"}

\* While a thread destroys or creates a channel, no other creates one.
LEMMA DestroysAlone ==
    ASSUME UsersInv, NEW t \in Threads,
           pc[t] \in {"destroy_send", "destroy_wait", "destroy_unlock"} \cup Creating
    PROVE  \A u \in Threads : u # t /\ FileOf[u] = FileOf[t] => pc[u] \notin Creating
<1>1. "CREATE" \in OpIds /\ "CREATE" \in Needs(t)
    BY OpOrderFacts DEF Needs, Creating
<1>2. \A u \in Threads : pc[u] \in Creating => "CREATE" \in Needs(u)
    BY DEF Needs, Creating
<1> QED
    BY <1>1, <1>2, Excludes
-----------------------------------------------------------------------------
\* The mails and the users.

\* Every set of slots has a lowest one.
Less == {ss \in Nat \X Nat : ss[1] < ss[2]}

LEMMA LessWellFounded == IsWellFoundedOn(Less, Nat)
    BY NatLessThanWellFounded DEF OpToRel, Less

LEMMA LowestIsIn ==
    ASSUME NEW S \in SUBSET Slots, S # {}
    PROVE  Lowest(S) \in S /\ \A j \in S : Lowest(S) <= j
<1>1. S \in SUBSET Nat
    BY UsersAssumption DEF Slots
<1>2. PICK i \in S : \A j \in S : ~ (<<j, i>> \in Less)
    BY <1>1, LessWellFounded, WFMin
<1>3. ASSUME NEW j \in S PROVE i <= j
    <2>1. i \in Nat /\ j \in Nat /\ <<j, i>> \in Nat \X Nat
        BY <1>1
    <2>2. ~ (<<j, i>>[1] < <<j, i>>[2])
        BY <1>2, <2>1 DEF Less
    <2> QED
        BY <2>1, <2>2
<1> QED
    BY <1>3 DEF Lowest

\* The commands are made of what the caller has.
LEMMA CommandTypes ==
    /\ \A f \in Files, u \in Slots : CreateMsg(f, u) \in Commands /\ SearchMsg(f, u) \in Commands
    /\ \A m \in ChannelCommands, ch \in ChanIds : ChanMsg(m, ch) \in Commands
    /\ \A ch \in ChanIds : OrphanMsg(ch) \in Commands
    BY DEF CreateMsg, SearchMsg, ChanMsg, OrphanMsg, Commands

\* What a command says, by its name.
LEMMA CommandParts ==
    ASSUME NEW m \in Commands
    PROVE  /\ m.uid \in {"CREATE_CHANNEL", "SEARCH_START_CODE"} =>
                 m.user \in Slots /\ m.by \in Files
           /\ m.uid \in ChannelCommands => m.chan \in ChanIds
    BY DEF Commands, ChannelCommands

\* What an answer says, by its name, and where it goes.
LEMMA AnswerParts ==
    ASSUME NEW m \in Answers
    PROVE  /\ m.uid \in {"CREATE_CHANNEL", "SEARCH_START_CODE"} => m.user \in Slots
           /\ m.uid # "SEARCH_START_CODE" => m.chan \in ChanIds
           /\ m.by \in Files \cup {NoFile}
           /\ mail_to_queue(m.uid) \in QueueIds
           /\ m.uid = "CREATE_CHANNEL" <=> mail_to_queue(m.uid) = "CREATE"
           /\ m.uid = "DESTROY_CHANNEL" <=> mail_to_queue(m.uid) = "DESTROY"
<1>1. m.uid \in {"CREATE_CHANNEL", "SEARCH_START_CODE", "DESTROY_CHANNEL", "ENCODE_ONE_FRM",
                 "DECODE_ONE_FRM", "GET_RECONSTRUCTED_PICTURE"}
    BY DEF Answers
<1>2. /\ m.uid \in {"CREATE_CHANNEL", "SEARCH_START_CODE"} => m.user \in Slots
      /\ m.uid # "SEARCH_START_CODE" => m.chan \in ChanIds
      /\ m.by \in Files \cup {NoFile}
    BY DEF Answers, ChanIds
<1> QED
    BY <1>1, <1>2 DEF mail_to_queue, QueueIds

\* retrieve_user finds a bound user or none.
LEMMA RetrieveType ==
    ASSUME UsersInv, NEW m \in Answers
    PROVE  retrieve_user(m) \in Files \cup {NoFile}
<1>1. slot \in [Slots -> Files \cup {NoFile}]
    BY DEF UsersInv, UserTypes
<1>2. CASE m.uid \in {"CREATE_CHANNEL", "INIT", "SEARCH_START_CODE"}
    <2>1. m.user \in Slots
        BY <1>2, AnswerParts DEF Answers
    <2> QED
        BY <1>1, <1>2, <2>1 DEF retrieve_user, al5_group_user_from_uid
<1>3. CASE m.uid \notin {"CREATE_CHANNEL", "INIT", "SEARCH_START_CODE"}
    <2>1. CASE SlotsWithChan(m.chan) = {}
        BY <1>3, <2>1 DEF retrieve_user, al5_group_user_from_chan_uid
    <2>2. CASE SlotsWithChan(m.chan) # {}
        <3>1. SlotsWithChan(m.chan) \in SUBSET Slots
            BY DEF SlotsWithChan, Slots
        <3>2. Lowest(SlotsWithChan(m.chan)) \in Slots
            BY <2>2, <3>1, LowestIsIn
        <3> QED
            BY <1>1, <1>3, <2>2, <3>2 DEF retrieve_user, al5_group_user_from_chan_uid
    <2> QED
        BY <2>1, <2>2
<1> QED
    BY <1>2, <1>3

\* Sequences of mails.
LEMMA MailSeqs ==
    ASSUME NEW S, NEW s \in Seq(S)
    PROVE  /\ Len(s) \in Nat
           /\ \A m \in S : Append(s, m) \in Seq(S) /\ Len(Append(s, m)) = Len(s) + 1
           /\ s # <<>> => Head(s) \in S /\ Tail(s) \in Seq(S) /\ Len(Tail(s)) = Len(s) - 1
           /\ <<>> \in Seq(S)
    OBVIOUS

\* The queues of one file change in one place.
LEMMA PopTypes ==
    ASSUME UsersInv, NEW f \in Files, NEW q \in QueueIds, PopAny(f, q)
    PROVE  /\ queues' \in [Files -> [QueueIds -> Seq(Answers)]]
           /\ \A g \in Files : \A r \in QueueIds : queues'[g][r] \in Seq(MailsOf(r))
<1>1. queues[f][q] \in Seq(MailsOf(q)) /\ queues[f][q] \in Seq(Answers)
    BY DEF UsersInv, UserTypes
<1>2. PICK s : /\ s \in Seq(MailsOf(q)) /\ s \in Seq(Answers)
               /\ queues' = [queues EXCEPT ![f][q] = s]
    <2> DEFINE s == IF queues[f][q] = <<>> THEN <<>> ELSE Tail(queues[f][q])
    <2>1. s \in Seq(MailsOf(q)) /\ s \in Seq(Answers)
        BY <1>1, MailSeqs
    <2> QED
        BY <2>1 DEF PopAny
<1> QED
    BY <1>2 DEF UsersInv, UserTypes

LEMMA DeliverTypes ==
    ASSUME UsersInv, NEW f \in Files, NEW m \in Answers, al5_user_deliver(f, m)
    PROVE  /\ queues' \in [Files -> [QueueIds -> Seq(Answers)]]
           /\ \A g \in Files : \A r \in QueueIds : queues'[g][r] \in Seq(MailsOf(r))
<1> DEFINE q == mail_to_queue(m.uid)
<1>1. q \in QueueIds /\ m \in MailsOf(q)
    BY AnswerParts DEF MailsOf
<1>2. queues[f][q] \in Seq(MailsOf(q)) /\ queues[f][q] \in Seq(Answers)
    BY <1>1 DEF UsersInv, UserTypes
<1>3. PICK s : /\ s \in Seq(MailsOf(q)) /\ s \in Seq(Answers)
               /\ queues' = [queues EXCEPT ![f][q] = s]
    <2> DEFINE s == Append(queues[f][q], m)
    <2>1. s \in Seq(MailsOf(q)) /\ s \in Seq(Answers)
        BY <1>1, <1>2, MailSeqs
    <2> QED
        BY <2>1 DEF al5_user_deliver, al5_list_push
<1> HIDE DEF q
<1> QED
    BY <1>1, <1>3 DEF UsersInv, UserTypes

LEMMA EmptyQueueTypes ==
    ASSUME UsersInv, NEW f \in Files, queues' = [queues EXCEPT ![f] = [q \in QueueIds |-> <<>>]]
    PROVE  /\ queues' \in [Files -> [QueueIds -> Seq(Answers)]]
           /\ \A g \in Files : \A r \in QueueIds : queues'[g][r] \in Seq(MailsOf(r))
    BY MailSeqs DEF UsersInv, UserTypes


\* The firmware takes a command, and has room for one answer.
Taken == cmd # <<>> /\ Len(status) < StatusCap /\ cmd' = Tail(cmd)

LEMMA TakenTypes ==
    ASSUME McuTypes, Taken
    PROVE  /\ Head(cmd) \in Commands /\ cmd' \in Seq(Commands) /\ Len(cmd') <= CmdCap
           /\ \A m \in Answers : Append(status, m) \in Seq(Answers)
                                 /\ Len(Append(status, m)) <= StatusCap
    BY MailSeqs, McuAssumption DEF McuTypes, Taken

\* The answers are made of the command and of what the firmware knows.
LEMMA AnswerTypes ==
    ASSUME McuTypes
    PROVE  /\ \A m \in Commands : m.uid = "CREATE_CHANNEL" =>
                 \A ch \in ChanIds : CreateAnswer(m, ch) \in Answers
           /\ \A m \in Commands : m.uid = "SEARCH_START_CODE" => SearchAnswer(m) \in Answers
           /\ \A ch \in Chans : \A u \in {"DESTROY_CHANNEL", "ENCODE_ONE_FRM", "DECODE_ONE_FRM"} :
                 Feedback(u, ch) \in Answers
           /\ \A ch \in Chans : \A found \in BOOLEAN :
                 [uid |-> "GET_RECONSTRUCTED_PICTURE", chan |-> ch, found |-> found,
                  by |-> creator[ch]] \in Answers
<1>1. \A m \in Commands : m.uid = "CREATE_CHANNEL" =>
         \A ch \in ChanIds : CreateAnswer(m, ch) \in Answers
    BY CommandParts DEF CreateAnswer, Answers
<1>2. \A m \in Commands : m.uid = "SEARCH_START_CODE" => SearchAnswer(m) \in Answers
    BY CommandParts DEF SearchAnswer, Answers
<1>3. \A ch \in Chans : creator[ch] \in Files \cup {NoFile}
    BY DEF McuTypes
<1>4. \A ch \in Chans : \A u \in {"DESTROY_CHANNEL", "ENCODE_ONE_FRM", "DECODE_ONE_FRM"} :
         Feedback(u, ch) \in Answers
    BY <1>3 DEF Feedback, Answers
<1>5. \A ch \in Chans : \A found \in BOOLEAN :
         [uid |-> "GET_RECONSTRUCTED_PICTURE", chan |-> ch, found |-> found,
          by |-> creator[ch]] \in Answers
    BY <1>3 DEF Answers
<1> QED
    BY <1>1, <1>2, <1>4, <1>5

\* The first answer to a create.
LEMMA CreateQueue ==
    ASSUME UsersInv, NEW f \in Files, queues[f]["CREATE"] # <<>>
    PROVE  /\ Head(queues[f]["CREATE"]) \in Answers
           /\ Head(queues[f]["CREATE"]).uid = "CREATE_CHANNEL"
           /\ Head(queues[f]["CREATE"]).chan \in ChanIds
<1>1. queues[f]["CREATE"] \in Seq(MailsOf("CREATE"))
    BY DEF UsersInv, UserTypes, QueueIds
<1>2. Head(queues[f]["CREATE"]) \in MailsOf("CREATE")
    BY <1>1, MailSeqs
<1> QED
    BY <1>2, AnswerParts DEF MailsOf

\* The state of the threads keeps its type; the loop of al5_codec_release ends.
LEMMA ThreadTypes_Shared == UsersInv /\ SharedStep => ThreadTypes'
<1> SUFFICES ASSUME UsersInv, SharedStep PROVE ThreadTypes'
    OBVIOUS
<1> USE McuAssumption, UsersAssumption DEF UsersInv, ThreadTypes, Labels, groupVars, chanVars,
       queueVars, poolVars, threadVars, mcuVars
<1>1. ASSUME NEW f \in Files, al5_codec_open(f) PROVE ThreadTypes'
    BY <1>1, OpOrderFacts DEF al5_codec_open, al5_user_init
<1>2. ASSUME NEW t \in Threads, DestroyEnter(t) PROVE ThreadTypes'
    BY <1>2, OpOrderFacts DEF DestroyEnter, MayCall, Goto
<1>3. ASSUME NEW t \in Threads, DestroyQueues(t) PROVE ThreadTypes'
    BY <1>3, OpOrderFacts DEF DestroyQueues, user_queues_unlock, Goto
<1>4. ASSUME NEW t \in Threads, DestroyMutex(t) PROVE ThreadTypes'
    BY <1>4, OpOrderFacts DEF DestroyMutex, IsFree, Lock, Goto
<1>5. ASSUME NEW t \in Threads, DestroyKilled(t) PROVE ThreadTypes'
    BY <1>5, OpOrderFacts DEF DestroyKilled, UnlockAll, Goto
<1>6. ASSUME NEW t \in Threads, DestroyRefused(t) PROVE ThreadTypes'
    BY <1>6, OpOrderFacts DEF DestroyRefused, Goto
<1>7. ASSUME NEW t \in Threads, DestroyQuiet(t) PROVE ThreadTypes'
    BY <1>7, OpOrderFacts DEF DestroyQuiet, al5_mcu_send, Goto, ForgetChannel,
       al5_user_destroy_channel_resources
<1>8. ASSUME NEW t \in Threads, DestroySend(t) PROVE ThreadTypes'
    BY <1>8, OpOrderFacts DEF DestroySend, al5_mcu_send, Goto
<1>9. ASSUME NEW t \in Threads, DestroyAnswered(t) PROVE ThreadTypes'
    BY <1>9, OpOrderFacts DEF DestroyAnswered, Goto, PopAny, ForgetChannel,
       al5_user_destroy_channel_resources
<1>10. ASSUME NEW t \in Threads, DestroyInterrupted(t) PROVE ThreadTypes'
    BY <1>10, OpOrderFacts DEF DestroyInterrupted, Goto, Signal
<1>11. ASSUME NEW t \in Threads, DestroyUnlock(t) PROVE ThreadTypes'
    BY <1>11, OpOrderFacts DEF DestroyUnlock, UnlockAll, Goto
<1>12. ASSUME NEW t \in Threads, DestroyRelock(t) PROVE ThreadTypes'
    BY <1>12, OpOrderFacts DEF DestroyRelock, user_queues_lock, Goto
<1>13. ASSUME NEW t \in Threads, ReleaseEnter(t) PROVE ThreadTypes'
    BY <1>13, OpOrderFacts DEF ReleaseEnter, IsOpen, Goto
<1>14. ASSUME NEW t \in Threads, ReleaseTry(t) PROVE ThreadTypes'
    BY <1>14, OpOrderFacts DEF ReleaseTry, Goto, Answer
<1>15. ASSUME NEW t \in Threads, ReleaseFree(t) PROVE ThreadTypes'
    BY <1>15, OpOrderFacts DEF ReleaseFree, al5_user_destroy_channel_resources, Goto
<1>16. ASSUME NEW t \in Threads, ReleasePurge(t) PROVE ThreadTypes'
    BY <1>16, OpOrderFacts DEF ReleasePurge, al5_user_remove_residual_messages, Goto
<1>17. ASSUME NEW t \in Threads, ReleaseUnbind(t) PROVE ThreadTypes'
    BY <1>17, OpOrderFacts DEF ReleaseUnbind, Goto
<1>18. ASSUME NEW t \in Threads, CreateSend(t) PROVE ThreadTypes'
    BY <1>18, OpOrderFacts DEF CreateSend, al5_mcu_send, Goto
<1>19. ASSUME NEW t \in Threads, CreateWoken(t) PROVE ThreadTypes'
    BY <1>19, OpOrderFacts DEF CreateWoken, CreateReturn, Unlock, Goto
<1>20. ASSUME NEW t \in Threads, CreateGivesUp(t) PROVE ThreadTypes'
    BY <1>20, OpOrderFacts DEF CreateGivesUp, CreateReturn, Unlock, Goto, Signal
<1>21. ASSUME NEW t \in Threads, NEW op \in WaitOps, WaitCall(t, op) PROVE ThreadTypes'
    BY <1>21, OpOrderFacts DEF WaitCall, WaitEnter, Waiting, WaitOps, IsFree, Lock, Goto,
       IsOpen
<1>22. ASSUME NEW t \in Threads, NEW op \in WaitOps, WaitReturn(t, op) PROVE ThreadTypes'
    BY <1>22, OpOrderFacts DEF WaitReturn, Waiting, WaitOps, Unlock, Goto, PopAny
<1>23. ASSUME NEW t \in Threads, NEW op \in WaitOps, WaitInterrupted(t, op) PROVE ThreadTypes'
    BY <1>23, OpOrderFacts DEF WaitInterrupted, Waiting, WaitOps, Unlock, Goto, Signal
<1>24. CASE IrqRead
    BY <1>24, OpOrderFacts DEF IrqRead
<1>25. CASE IrqDeliver
    BY <1>25, OpOrderFacts DEF IrqDeliver, al5_user_deliver
<1>26. CASE IrqOrphan
    BY <1>26, OpOrderFacts DEF IrqOrphan, al5_mcu_send
<1>27. CASE McuStep
    BY <1>27, OpOrderFacts DEF McuStep, userVars
<1> QED
    BY <1>1, <1>2, <1>3, <1>4, <1>5, <1>6, <1>7, <1>8, <1>9, <1>10, <1>11, <1>12, <1>13,
       <1>14, <1>15, <1>16, <1>17, <1>18, <1>19, <1>20, <1>21, <1>22, <1>23, <1>24, <1>25,
       <1>26, <1>27 DEF SharedStep, SharedCall, DestroyStep, ReleaseStep, Irq

\* Whoever enters a call finds no close under way, and a close waits for the calls.
LEMMA CallsOK_Shared == UsersInv /\ SharedStep => CallsOK'
<1> SUFFICES ASSUME UsersInv, SharedStep PROVE CallsOK'
    OBVIOUS
<1> USE McuAssumption, UsersAssumption DEF UsersInv, ThreadTypes, CallsOK, Labels, Destroying,
       Releasing, groupVars, chanVars, queueVars, poolVars, threadVars, mcuVars
<1>1. ASSUME NEW f \in Files, al5_codec_open(f) PROVE CallsOK'
    BY <1>1 DEF al5_codec_open, al5_user_init
<1>2. ASSUME NEW t \in Threads, DestroyEnter(t) PROVE CallsOK'
    BY <1>2 DEF DestroyEnter, MayCall, IsOpen, Goto
<1>3. ASSUME NEW t \in Threads, DestroyQueues(t) PROVE CallsOK'
    BY <1>3 DEF DestroyQueues, user_queues_unlock, Goto
<1>4. ASSUME NEW t \in Threads, DestroyMutex(t) PROVE CallsOK'
    BY <1>4 DEF DestroyMutex, IsFree, Lock, Goto
<1>5. ASSUME NEW t \in Threads, DestroyKilled(t) PROVE CallsOK'
    BY <1>5 DEF DestroyKilled, UnlockAll, Goto
<1>6. ASSUME NEW t \in Threads, DestroyRefused(t) PROVE CallsOK'
    BY <1>6 DEF DestroyRefused, Goto
<1>7. ASSUME NEW t \in Threads, DestroyQuiet(t) PROVE CallsOK'
    BY <1>7 DEF DestroyQuiet, al5_mcu_send, Goto, ForgetChannel,
       al5_user_destroy_channel_resources
<1>8. ASSUME NEW t \in Threads, DestroySend(t) PROVE CallsOK'
    BY <1>8 DEF DestroySend, al5_mcu_send, Goto
<1>9. ASSUME NEW t \in Threads, DestroyAnswered(t) PROVE CallsOK'
    BY <1>9 DEF DestroyAnswered, Goto, PopAny, ForgetChannel,
       al5_user_destroy_channel_resources
<1>10. ASSUME NEW t \in Threads, DestroyInterrupted(t) PROVE CallsOK'
    BY <1>10 DEF DestroyInterrupted, Goto, Signal
<1>11. ASSUME NEW t \in Threads, DestroyUnlock(t) PROVE CallsOK'
    BY <1>11 DEF DestroyUnlock, UnlockAll, Goto
<1>12. ASSUME NEW t \in Threads, DestroyRelock(t) PROVE CallsOK'
    BY <1>12 DEF DestroyRelock, user_queues_lock, Goto
<1>13. ASSUME NEW t \in Threads, ReleaseEnter(t) PROVE CallsOK'
    BY <1>13 DEF ReleaseEnter, IsOpen, Goto
<1>14. ASSUME NEW t \in Threads, ReleaseTry(t) PROVE CallsOK'
    BY <1>14 DEF ReleaseTry, Goto, Answer
<1>15. ASSUME NEW t \in Threads, ReleaseFree(t) PROVE CallsOK'
    BY <1>15 DEF ReleaseFree, al5_user_destroy_channel_resources, Goto
<1>16. ASSUME NEW t \in Threads, ReleasePurge(t) PROVE CallsOK'
    BY <1>16 DEF ReleasePurge, al5_user_remove_residual_messages, Goto
<1>17. ASSUME NEW t \in Threads, ReleaseUnbind(t) PROVE CallsOK'
    BY <1>17 DEF ReleaseUnbind, Goto
<1>18. ASSUME NEW t \in Threads, CreateSend(t) PROVE CallsOK'
    BY <1>18 DEF CreateSend, al5_mcu_send, Goto
<1>19. ASSUME NEW t \in Threads, CreateWoken(t) PROVE CallsOK'
    BY <1>19 DEF CreateWoken, CreateReturn, Unlock, Goto
<1>20. ASSUME NEW t \in Threads, CreateGivesUp(t) PROVE CallsOK'
    BY <1>20 DEF CreateGivesUp, CreateReturn, Unlock, Goto, Signal
<1>21. ASSUME NEW t \in Threads, NEW op \in WaitOps, WaitCall(t, op) PROVE CallsOK'
    BY <1>21 DEF WaitCall, WaitEnter, Waiting, WaitOps, IsFree, Lock, Goto, IsOpen
<1>22. ASSUME NEW t \in Threads, NEW op \in WaitOps, WaitReturn(t, op) PROVE CallsOK'
    BY <1>22 DEF WaitReturn, Waiting, WaitOps, Unlock, Goto, PopAny
<1>23. ASSUME NEW t \in Threads, NEW op \in WaitOps, WaitInterrupted(t, op) PROVE CallsOK'
    BY <1>23 DEF WaitInterrupted, Waiting, WaitOps, Unlock, Goto, Signal
<1>24. CASE IrqRead
    BY <1>24 DEF IrqRead
<1>25. CASE IrqDeliver
    BY <1>25 DEF IrqDeliver, al5_user_deliver
<1>26. CASE IrqOrphan
    BY <1>26 DEF IrqOrphan, al5_mcu_send
<1>27. CASE McuStep
    BY <1>27 DEF McuStep, userVars
<1> QED
    BY <1>1, <1>2, <1>3, <1>4, <1>5, <1>6, <1>7, <1>8, <1>9, <1>10, <1>11, <1>12, <1>13,
       <1>14, <1>15, <1>16, <1>17, <1>18, <1>19, <1>20, <1>21, <1>22, <1>23, <1>24, <1>25,
       <1>26, <1>27 DEF SharedStep, SharedCall, DestroyStep, ReleaseStep, Irq

\* The flags stay Boolean.
LEMMA FlagTypes_Shared == UsersInv /\ SharedStep => FlagTypes'
<1> SUFFICES ASSUME UsersInv, SharedStep PROVE FlagTypes'
    OBVIOUS
<1> USE McuAssumption, UsersAssumption DEF UsersInv, FlagTypes, groupVars, chanVars,
       queueVars, poolVars, threadVars, mcuVars
<1>1. ASSUME NEW f \in Files, al5_codec_open(f) PROVE FlagTypes'
    BY <1>1 DEF al5_codec_open, al5_user_init
<1>2. ASSUME NEW t \in Threads, DestroyEnter(t) PROVE FlagTypes'
    BY <1>2 DEF DestroyEnter, MayCall, Goto
<1>3. ASSUME NEW t \in Threads, DestroyQueues(t) PROVE FlagTypes'
    BY <1>3 DEF DestroyQueues, user_queues_unlock, Goto
<1>4. ASSUME NEW t \in Threads, DestroyMutex(t) PROVE FlagTypes'
    BY <1>4 DEF DestroyMutex, IsFree, Lock, Goto
<1>5. ASSUME NEW t \in Threads, DestroyKilled(t) PROVE FlagTypes'
    BY <1>5 DEF DestroyKilled, UnlockAll, Goto
<1>6. ASSUME NEW t \in Threads, DestroyRefused(t) PROVE FlagTypes'
    BY <1>6 DEF DestroyRefused, Goto
<1>7. ASSUME NEW t \in Threads, DestroyQuiet(t) PROVE FlagTypes'
    BY <1>7 DEF DestroyQuiet, al5_mcu_send, Goto, ForgetChannel,
       al5_user_destroy_channel_resources
<1>8. ASSUME NEW t \in Threads, DestroySend(t) PROVE FlagTypes'
    BY <1>8 DEF DestroySend, al5_mcu_send, Goto
<1>9. ASSUME NEW t \in Threads, DestroyAnswered(t) PROVE FlagTypes'
    BY <1>9 DEF DestroyAnswered, Goto, PopAny, ForgetChannel,
       al5_user_destroy_channel_resources
<1>10. ASSUME NEW t \in Threads, DestroyInterrupted(t) PROVE FlagTypes'
    BY <1>10 DEF DestroyInterrupted, Goto, Signal
<1>11. ASSUME NEW t \in Threads, DestroyUnlock(t) PROVE FlagTypes'
    BY <1>11 DEF DestroyUnlock, UnlockAll, Goto
<1>12. ASSUME NEW t \in Threads, DestroyRelock(t) PROVE FlagTypes'
    BY <1>12 DEF DestroyRelock, user_queues_lock, Goto
<1>13. ASSUME NEW t \in Threads, ReleaseEnter(t) PROVE FlagTypes'
    BY <1>13 DEF ReleaseEnter, IsOpen, Goto
<1>14. ASSUME NEW t \in Threads, ReleaseTry(t) PROVE FlagTypes'
    BY <1>14 DEF ReleaseTry, Goto, Answer
<1>15. ASSUME NEW t \in Threads, ReleaseFree(t) PROVE FlagTypes'
    BY <1>15 DEF ReleaseFree, al5_user_destroy_channel_resources, Goto
<1>16. ASSUME NEW t \in Threads, ReleasePurge(t) PROVE FlagTypes'
    BY <1>16 DEF ReleasePurge, al5_user_remove_residual_messages, Goto
<1>17. ASSUME NEW t \in Threads, ReleaseUnbind(t) PROVE FlagTypes'
    BY <1>17 DEF ReleaseUnbind, Goto
<1>18. ASSUME NEW t \in Threads, CreateSend(t) PROVE FlagTypes'
    BY <1>18 DEF CreateSend, al5_mcu_send, Goto
<1>19. ASSUME NEW t \in Threads, CreateWoken(t) PROVE FlagTypes'
    BY <1>19 DEF CreateWoken, CreateReturn, Unlock, Goto
<1>20. ASSUME NEW t \in Threads, CreateGivesUp(t) PROVE FlagTypes'
    BY <1>20 DEF CreateGivesUp, CreateReturn, Unlock, Goto, Signal
<1>21. ASSUME NEW t \in Threads, NEW op \in WaitOps, WaitCall(t, op) PROVE FlagTypes'
    BY <1>21 DEF WaitCall, WaitEnter, Waiting, WaitOps, IsFree, Lock, Goto, IsOpen
<1>22. ASSUME NEW t \in Threads, NEW op \in WaitOps, WaitReturn(t, op) PROVE FlagTypes'
    BY <1>22 DEF WaitReturn, Waiting, WaitOps, Unlock, Goto, PopAny
<1>23. ASSUME NEW t \in Threads, NEW op \in WaitOps, WaitInterrupted(t, op) PROVE FlagTypes'
    BY <1>23 DEF WaitInterrupted, Waiting, WaitOps, Unlock, Goto, Signal
<1>24. CASE IrqRead
    BY <1>24 DEF IrqRead
<1>25. CASE IrqDeliver
    BY <1>25 DEF IrqDeliver, al5_user_deliver
<1>26. CASE IrqOrphan
    BY <1>26 DEF IrqOrphan, al5_mcu_send
<1>27. CASE McuStep
    BY <1>27 DEF McuStep, userVars
<1> QED
    BY <1>1, <1>2, <1>3, <1>4, <1>5, <1>6, <1>7, <1>8, <1>9, <1>10, <1>11, <1>12, <1>13,
       <1>14, <1>15, <1>16, <1>17, <1>18, <1>19, <1>20, <1>21, <1>22, <1>23, <1>24, <1>25,
       <1>26, <1>27 DEF SharedStep, SharedCall, DestroyStep, ReleaseStep, Irq

\* Every way out of al5_user_destroy_channel goes through the relock.
LEMMA QueuesOK_Shared == UsersInv /\ SharedStep => QueuesOK'
<1> SUFFICES ASSUME UsersInv, SharedStep PROVE QueuesOK'
    OBVIOUS
<1> USE McuAssumption, UsersAssumption DEF UsersInv, FlagTypes, UserTypes, ThreadTypes,
       QueuesOK, Destroying, Releasing, groupVars, chanVars, queueVars, poolVars, threadVars,
       mcuVars
<1>1. ASSUME NEW f \in Files, al5_codec_open(f) PROVE QueuesOK'
    BY <1>1 DEF al5_codec_open, al5_user_init
<1>2. ASSUME NEW t \in Threads, DestroyEnter(t) PROVE QueuesOK'
    BY <1>2, KeepQueues DEF DestroyEnter, MayCall, Goto, Unlocking
<1>3. ASSUME NEW t \in Threads, DestroyQueues(t) PROVE QueuesOK'
    BY <1>3 DEF DestroyQueues, user_queues_unlock, Goto
<1>4. ASSUME NEW t \in Threads, DestroyMutex(t) PROVE QueuesOK'
    <2>1. CASE idx[t] = Len(OpOrder)
        <3>1. /\ UNCHANGED <<locked, uid>> /\ pc' = [pc EXCEPT ![t] = "destroy_send"]
              /\ pc[t] # "release_unbind"
            BY <1>4, <2>1 DEF DestroyMutex, Goto
        <3> QED
            BY <3>1, KeepQueues DEF Unlocking
    <2>2. CASE idx[t] # Len(OpOrder)
        BY <1>4, <2>2 DEF DestroyMutex
    <2> QED
        BY <2>1, <2>2
<1>5. ASSUME NEW t \in Threads, DestroyKilled(t) PROVE QueuesOK'
    BY <1>5, KeepQueues DEF DestroyKilled, Goto, Unlocking
<1>6. ASSUME NEW t \in Threads, DestroyRefused(t) PROVE QueuesOK'
    BY <1>6, KeepQueues DEF DestroyRefused, Goto, Unlocking
<1>7. ASSUME NEW t \in Threads, DestroyQuiet(t) PROVE QueuesOK'
    BY <1>7, KeepQueues DEF DestroyQuiet, Goto, Unlocking
<1>8. ASSUME NEW t \in Threads, DestroySend(t) PROVE QueuesOK'
    BY <1>8, KeepQueues DEF DestroySend, Goto, Unlocking
<1>9. ASSUME NEW t \in Threads, DestroyAnswered(t) PROVE QueuesOK'
    BY <1>9, KeepQueues DEF DestroyAnswered, Goto, Unlocking
<1>10. ASSUME NEW t \in Threads, DestroyInterrupted(t) PROVE QueuesOK'
    BY <1>10, KeepQueues DEF DestroyInterrupted, Goto, Unlocking
<1>11. ASSUME NEW t \in Threads, DestroyUnlock(t) PROVE QueuesOK'
    BY <1>11, KeepQueues DEF DestroyUnlock, Goto, Unlocking
<1>12. ASSUME NEW t \in Threads, DestroyRelock(t) PROVE QueuesOK'
    <2> SUFFICES ASSUME NEW f \in Files, NEW q \in QueueIds, ~locked'[f][q], uid'[f] # -1,
                        ~ \E u \in Threads : FileOf[u] = f /\ pc'[u] = "release_unbind"
                 PROVE  /\ q \in SharedQueues
                        /\ \E u \in Threads : FileOf[u] = f /\ pc'[u] \in Unlocking
        BY DEF Unlocking
    <2>1. /\ \A u \in Threads : u # t => pc'[u] = pc[u]
          /\ pc[t] = "destroy_relock" /\ uid' = uid
        BY <1>12 DEF DestroyRelock, Goto
    <2>2. ~ \E u \in Threads : FileOf[u] = f /\ pc[u] = "release_unbind"
        BY <2>1
    <2>3. CASE f = FileOf[t]
        <3>1. locked'[f][q] <=> locked[f][q] \/ q \in SharedQueues
            BY <1>12, <2>3 DEF DestroyRelock, user_queues_lock
        <3>2. ~locked[f][q] /\ q \notin SharedQueues
            BY <3>1
        <3> QED
            BY <2>1, <2>2, <3>2
    <2>4. CASE f # FileOf[t]
        <3>1. ~locked[f][q]
            BY <1>12, <2>4 DEF DestroyRelock, user_queues_lock
        <3>2. q \in SharedQueues /\ \E u \in Threads : FileOf[u] = f /\ pc[u] \in Unlocking
            BY <2>1, <2>2, <3>1 DEF Unlocking
        <3> QED
            BY <2>1, <2>4, <3>2
    <2> QED
        BY <2>3, <2>4
<1>13. ASSUME NEW t \in Threads, ReleaseEnter(t) PROVE QueuesOK'
    <2>1. pc[t] = "idle"
        BY <1>13 DEF ReleaseEnter
    <2> QED
        BY <1>13, <2>1, KeepQueues DEF ReleaseEnter, Goto, Unlocking
<1>14. ASSUME NEW t \in Threads, ReleaseTry(t) PROVE QueuesOK'
    <2>1. CASE al5_chan_is_created(FileOf[t])
        <3>1. /\ UNCHANGED <<locked, uid>> /\ pc' = [pc EXCEPT ![t] = "destroy_queues"]
              /\ pc[t] = "release_loop"
            BY <1>14, <2>1 DEF ReleaseTry, Goto
        <3> QED
            BY <3>1, KeepQueues DEF Unlocking
    <2>2. CASE ~al5_chan_is_created(FileOf[t])
        BY <1>14, <2>2 DEF ReleaseTry
    <2> QED
        BY <2>1, <2>2
<1>15. ASSUME NEW t \in Threads, ReleaseFree(t) PROVE QueuesOK'
    BY <1>15, KeepQueues DEF ReleaseFree, Goto, Unlocking
<1>16. ASSUME NEW t \in Threads, ReleasePurge(t) PROVE QueuesOK'
    BY <1>16 DEF ReleasePurge, al5_user_remove_residual_messages, Goto
<1>17. ASSUME NEW t \in Threads, ReleaseUnbind(t) PROVE QueuesOK'
    BY <1>17 DEF ReleaseUnbind, Goto
<1>18. ASSUME NEW t \in Threads, CreateSend(t) PROVE QueuesOK'
    BY <1>18, KeepQueues DEF CreateSend, Goto, Unlocking
<1>19. ASSUME NEW t \in Threads, CreateWoken(t) PROVE QueuesOK'
    BY <1>19, KeepQueues DEF CreateWoken, CreateReturn, Goto, Unlocking
<1>20. ASSUME NEW t \in Threads, CreateGivesUp(t) PROVE QueuesOK'
    BY <1>20, KeepQueues DEF CreateGivesUp, CreateReturn, Goto, Unlocking
<1>21. ASSUME NEW t \in Threads, NEW op \in WaitOps, WaitCall(t, op) PROVE QueuesOK'
    BY <1>21, KeepQueues DEF WaitCall, WaitEnter, Goto, Unlocking
<1>22. ASSUME NEW t \in Threads, NEW op \in WaitOps, WaitReturn(t, op) PROVE QueuesOK'
    <2>1. pc[t] \in {"status_wait", "sc_wait", "rec_wait"}
        BY <1>22 DEF WaitReturn, Waiting, WaitOps
    <2> QED
        BY <1>22, <2>1, KeepQueues DEF WaitReturn, Goto, Unlocking
<1>23. ASSUME NEW t \in Threads, NEW op \in WaitOps, WaitInterrupted(t, op) PROVE QueuesOK'
    <2>1. pc[t] \in {"status_wait", "sc_wait", "rec_wait"}
        BY <1>23 DEF WaitInterrupted, Waiting, WaitOps
    <2> QED
        BY <1>23, <2>1, KeepQueues DEF WaitInterrupted, Goto, Unlocking
<1>24. CASE IrqRead
    BY <1>24 DEF IrqRead
<1>25. CASE IrqDeliver
    BY <1>25 DEF IrqDeliver, al5_user_deliver
<1>26. CASE IrqOrphan
    BY <1>26 DEF IrqOrphan, al5_mcu_send
<1>27. CASE McuStep
    BY <1>27 DEF McuStep, userVars
<1> QED
    BY <1>1, <1>2, <1>3, <1>4, <1>5, <1>6, <1>7, <1>8, <1>9, <1>10, <1>11, <1>12, <1>13,
       <1>14, <1>15, <1>16, <1>17, <1>18, <1>19, <1>20, <1>21, <1>22, <1>23, <1>24, <1>25,
       <1>26, <1>27 DEF SharedStep, SharedCall, DestroyStep, ReleaseStep, Irq

\* A mutex is taken when it is free and given back by its holder.
LEMMA LocksOK_Shared == UsersInv /\ SharedStep => LocksOK'
<1> SUFFICES ASSUME UsersInv, SharedStep PROVE LocksOK'
    OBVIOUS
<1> USE McuAssumption, UsersAssumption DEF UsersInv, ThreadTypes, CallsOK, LocksOK, Needs,
       Destroying, Releasing, groupVars, chanVars, queueVars, poolVars, threadVars, mcuVars
<1>1. ASSUME NEW f \in Files, al5_codec_open(f) PROVE LocksOK'
    BY <1>1 DEF al5_codec_open, al5_user_init
<1>2. ASSUME NEW t \in Threads, DestroyEnter(t) PROVE LocksOK'
    BY <1>2 DEF DestroyEnter, MayCall, Goto
<1>3. ASSUME NEW t \in Threads, DestroyQueues(t) PROVE LocksOK'
    BY <1>3 DEF DestroyQueues, user_queues_unlock, Goto
<1>4. ASSUME NEW t \in Threads, DestroyMutex(t) PROVE LocksOK'
    <2>1. /\ idx[t] \in 1..8 /\ OpOrder[idx[t]] \in OpIds
          /\ pc[t] = "destroy_mutexes" /\ IsFree(t, OpOrder[idx[t]]) /\ Lock(t, OpOrder[idx[t]])
        BY <1>4, OpOrderFacts DEF DestroyMutex
    <2>2. Needs(t) = {OpOrder[i] : i \in 1..idx[t]-1}
        BY <2>1
    <2>3. {OpOrder[i] : i \in 1..idx[t]} = {OpOrder[i] : i \in 1..idx[t]-1} \cup {OpOrder[idx[t]]}
        BY <2>1
    <2>4. Needs(t)' = {OpOrder[i] : i \in 1..idx[t]}
        <3>1. CASE idx[t] = 8
            <4>1. pc'[t] = "destroy_send"
                BY <1>4, <3>1, OpOrderFacts DEF DestroyMutex, Goto
            <4> QED
                BY <3>1, <4>1, OpOrderFacts
        <3>2. CASE idx[t] # 8
            <4>1. pc'[t] = "destroy_mutexes" /\ idx'[t] = idx[t] + 1
                BY <1>4, <2>1, <3>2, OpOrderFacts DEF DestroyMutex
            <4>2. idx'[t] - 1 = idx[t]
                BY <2>1, <4>1
            <4> QED
                BY <4>1, <4>2
        <3> QED
            BY <3>1, <3>2
    <2>5. OthersStay(t)
        BY <1>4 DEF DestroyMutex, Goto, OthersStay
    <2> HIDE DEF Needs, UsersInv, LocksOK
    <2> QED
        BY <2>1, <2>2, <2>3, <2>4, <2>5, TakeMutex DEF IsFree, Lock
<1>5. ASSUME NEW t \in Threads, DestroyKilled(t) PROVE LocksOK'
    BY <1>5 DEF DestroyKilled, UnlockAll, Goto
<1>6. ASSUME NEW t \in Threads, DestroyRefused(t) PROVE LocksOK'
    BY <1>6 DEF DestroyRefused, Goto
<1>7. ASSUME NEW t \in Threads, DestroyQuiet(t) PROVE LocksOK'
    BY <1>7 DEF DestroyQuiet, al5_mcu_send, Goto, ForgetChannel,
       al5_user_destroy_channel_resources
<1>8. ASSUME NEW t \in Threads, DestroySend(t) PROVE LocksOK'
    BY <1>8 DEF DestroySend, al5_mcu_send, Goto
<1>9. ASSUME NEW t \in Threads, DestroyAnswered(t) PROVE LocksOK'
    BY <1>9 DEF DestroyAnswered, Goto, PopAny, ForgetChannel,
       al5_user_destroy_channel_resources
<1>10. ASSUME NEW t \in Threads, DestroyInterrupted(t) PROVE LocksOK'
    BY <1>10 DEF DestroyInterrupted, Goto, Signal
<1>11. ASSUME NEW t \in Threads, DestroyUnlock(t) PROVE LocksOK'
    BY <1>11 DEF DestroyUnlock, UnlockAll, Goto
<1>12. ASSUME NEW t \in Threads, DestroyRelock(t) PROVE LocksOK'
    BY <1>12 DEF DestroyRelock, user_queues_lock, Goto
<1>13. ASSUME NEW t \in Threads, ReleaseEnter(t) PROVE LocksOK'
    BY <1>13 DEF ReleaseEnter, IsOpen, Goto
<1>14. ASSUME NEW t \in Threads, ReleaseTry(t) PROVE LocksOK'
    BY <1>14 DEF ReleaseTry, Goto, Answer
<1>15. ASSUME NEW t \in Threads, ReleaseFree(t) PROVE LocksOK'
    BY <1>15 DEF ReleaseFree, al5_user_destroy_channel_resources, Goto
<1>16. ASSUME NEW t \in Threads, ReleasePurge(t) PROVE LocksOK'
    BY <1>16 DEF ReleasePurge, al5_user_remove_residual_messages, Goto
<1>17. ASSUME NEW t \in Threads, ReleaseUnbind(t) PROVE LocksOK'
    BY <1>17 DEF ReleaseUnbind, Goto
<1>18. ASSUME NEW t \in Threads, CreateSend(t) PROVE LocksOK'
    BY <1>18 DEF CreateSend, al5_mcu_send, Goto
<1>19. ASSUME NEW t \in Threads, CreateWoken(t) PROVE LocksOK'
    <2>1. "CREATE" \in OpIds /\ Unlock(t, "CREATE") /\ OthersStay(t)
        BY <1>19, OpOrderFacts DEF CreateWoken, CreateReturn, Goto, OthersStay
    <2>2. Needs(t) = {"CREATE"} /\ Needs(t)' = {}
        BY <1>19 DEF CreateWoken, CreateReturn, Goto
    <2> HIDE DEF Needs, UsersInv, LocksOK
    <2> QED
        BY <2>1, <2>2, GiveMutex DEF Unlock
<1>20. ASSUME NEW t \in Threads, CreateGivesUp(t) PROVE LocksOK'
    <2>1. "CREATE" \in OpIds /\ Unlock(t, "CREATE") /\ OthersStay(t)
        BY <1>20, OpOrderFacts DEF CreateGivesUp, CreateReturn, Goto, OthersStay
    <2>2. Needs(t) = {"CREATE"} /\ Needs(t)' = {}
        BY <1>20 DEF CreateGivesUp, CreateReturn, Goto
    <2> HIDE DEF Needs, UsersInv, LocksOK
    <2> QED
        BY <2>1, <2>2, GiveMutex DEF Unlock
<1>21. ASSUME NEW t \in Threads, NEW op \in WaitOps, WaitCall(t, op) PROVE LocksOK'
    <2>1. op \in OpIds /\ pc[t] = "idle" /\ IsFree(t, op) /\ Lock(t, op) /\ idx' = idx
        BY <1>21, OpOrderFacts DEF WaitCall, WaitEnter, WaitOps
    <2>2. Needs(t)' = Needs(t) \cup {op}
        BY <1>21 DEF WaitCall, WaitEnter, Waiting, WaitOps, Goto
    <2>3. OthersStay(t)
        BY <1>21 DEF WaitCall, WaitEnter, Goto, OthersStay
    <2> HIDE DEF Needs, UsersInv, LocksOK
    <2> QED
        BY <2>1, <2>2, <2>3, TakeMutex DEF IsFree, Lock
<1>22. ASSUME NEW t \in Threads, NEW op \in WaitOps, WaitReturn(t, op) PROVE LocksOK'
    <2>1. op \in OpIds /\ Unlock(t, op) /\ idx' = idx
        BY <1>22, OpOrderFacts DEF WaitReturn, WaitOps
    <2>2. Needs(t) = {op} /\ Needs(t)' = {}
        BY <1>22 DEF WaitReturn, Waiting, WaitOps, Goto
    <2>3. OthersStay(t)
        BY <1>22 DEF WaitReturn, Goto, OthersStay
    <2> HIDE DEF Needs, UsersInv, LocksOK
    <2> QED
        BY <2>1, <2>2, <2>3, GiveMutex DEF Unlock
<1>23. ASSUME NEW t \in Threads, NEW op \in WaitOps, WaitInterrupted(t, op) PROVE LocksOK'
    <2>1. op \in OpIds /\ Unlock(t, op) /\ idx' = idx
        BY <1>23, OpOrderFacts DEF WaitInterrupted, WaitOps
    <2>2. Needs(t) = {op} /\ Needs(t)' = {}
        BY <1>23 DEF WaitInterrupted, Waiting, WaitOps, Goto
    <2>3. OthersStay(t)
        BY <1>23 DEF WaitInterrupted, Goto, OthersStay
    <2> HIDE DEF Needs, UsersInv, LocksOK
    <2> QED
        BY <2>1, <2>2, <2>3, GiveMutex DEF Unlock
<1>24. CASE IrqRead
    BY <1>24 DEF IrqRead
<1>25. CASE IrqDeliver
    BY <1>25 DEF IrqDeliver, al5_user_deliver
<1>26. CASE IrqOrphan
    BY <1>26 DEF IrqOrphan, al5_mcu_send
<1>27. CASE McuStep
    BY <1>27 DEF McuStep, userVars
<1> QED
    BY <1>1, <1>2, <1>3, <1>4, <1>5, <1>6, <1>7, <1>8, <1>9, <1>10, <1>11, <1>12, <1>13,
       <1>14, <1>15, <1>16, <1>17, <1>18, <1>19, <1>20, <1>21, <1>22, <1>23, <1>24, <1>25,
       <1>26, <1>27 DEF SharedStep, SharedCall, DestroyStep, ReleaseStep, Irq

\* The users keep their types, and each queue only gets mails of its kind.
LEMMA UserTypes_Shared == UsersInv /\ SharedStep => UserTypes'
<1> SUFFICES ASSUME UsersInv, SharedStep PROVE UserTypes'
    OBVIOUS
<1> USE McuAssumption, UsersAssumption DEF UsersInv, UserTypes, ChanIds, groupVars, chanVars,
       queueVars, poolVars, threadVars, mcuVars
<1>1. ASSUME NEW f \in Files, al5_codec_open(f) PROVE UserTypes'
    <2>1. Lowest(FreeSlots) \in Slots
        BY <1>1, LowestIsIn DEF al5_codec_open, FreeSlots, Slots
    <2>2. Lowest(FreeSlots) \in -1..MaxUsers-1
        BY <2>1 DEF Slots
    <2>3. queues' = [queues EXCEPT ![f] = [q \in QueueIds |-> <<>>]]
        BY <1>1 DEF al5_codec_open, al5_user_init
    <2>4. /\ queues' \in [Files -> [QueueIds -> Seq(Answers)]]
          /\ \A g \in Files : \A r \in QueueIds : queues'[g][r] \in Seq(MailsOf(r))
        BY <2>3, EmptyQueueTypes
    <2> QED
        BY <1>1, <2>1, <2>2, <2>4 DEF al5_codec_open, al5_user_init
<1>2. ASSUME NEW t \in Threads, DestroyEnter(t) PROVE UserTypes'
    BY <1>2 DEF DestroyEnter, MayCall, Goto
<1>3. ASSUME NEW t \in Threads, DestroyQueues(t) PROVE UserTypes'
    BY <1>3 DEF DestroyQueues, user_queues_unlock, Goto
<1>4. ASSUME NEW t \in Threads, DestroyMutex(t) PROVE UserTypes'
    BY <1>4 DEF DestroyMutex, IsFree, Lock, Goto
<1>5. ASSUME NEW t \in Threads, DestroyKilled(t) PROVE UserTypes'
    BY <1>5 DEF DestroyKilled, UnlockAll, Goto
<1>6. ASSUME NEW t \in Threads, DestroyRefused(t) PROVE UserTypes'
    BY <1>6 DEF DestroyRefused, Goto
<1>7. ASSUME NEW t \in Threads, DestroyQuiet(t) PROVE UserTypes'
    BY <1>7 DEF DestroyQuiet, al5_mcu_send, Goto, ForgetChannel,
       al5_user_destroy_channel_resources
<1>8. ASSUME NEW t \in Threads, DestroySend(t) PROVE UserTypes'
    BY <1>8 DEF DestroySend, al5_mcu_send, Goto
<1>9. ASSUME NEW t \in Threads, DestroyAnswered(t) PROVE UserTypes'
    <2>1. "DESTROY" \in QueueIds /\ FileOf[t] \in Files
        BY <1>9 DEF QueueIds, WaitOps
    <2>2. PopAny(FileOf[t], "DESTROY")
        BY <1>9 DEF DestroyAnswered
    <2>3. /\ queues' \in [Files -> [QueueIds -> Seq(Answers)]]
          /\ \A g \in Files : \A r \in QueueIds : queues'[g][r] \in Seq(MailsOf(r))
        BY <2>1, <2>2, PopTypes
    <2> QED
        BY <1>9, <2>3 DEF DestroyAnswered, ForgetChannel
<1>10. ASSUME NEW t \in Threads, DestroyInterrupted(t) PROVE UserTypes'
    BY <1>10 DEF DestroyInterrupted, Goto, Signal
<1>11. ASSUME NEW t \in Threads, DestroyUnlock(t) PROVE UserTypes'
    BY <1>11 DEF DestroyUnlock, UnlockAll, Goto
<1>12. ASSUME NEW t \in Threads, DestroyRelock(t) PROVE UserTypes'
    BY <1>12 DEF DestroyRelock, user_queues_lock, Goto
<1>13. ASSUME NEW t \in Threads, ReleaseEnter(t) PROVE UserTypes'
    BY <1>13 DEF ReleaseEnter, IsOpen, Goto
<1>14. ASSUME NEW t \in Threads, ReleaseTry(t) PROVE UserTypes'
    BY <1>14 DEF ReleaseTry, Goto, Answer
<1>15. ASSUME NEW t \in Threads, ReleaseFree(t) PROVE UserTypes'
    BY <1>15 DEF ReleaseFree, al5_user_destroy_channel_resources, Goto
<1>16. ASSUME NEW t \in Threads, ReleasePurge(t) PROVE UserTypes'
    <2>1. FileOf[t] \in Files
        OBVIOUS
    <2>2. queues' = [queues EXCEPT ![FileOf[t]] = [q \in QueueIds |-> <<>>]]
        BY <1>16 DEF ReleasePurge, al5_user_remove_residual_messages
    <2>3. /\ queues' \in [Files -> [QueueIds -> Seq(Answers)]]
          /\ \A g \in Files : \A r \in QueueIds : queues'[g][r] \in Seq(MailsOf(r))
        BY <2>1, <2>2, EmptyQueueTypes
    <2> QED
        BY <1>16, <2>3 DEF ReleasePurge, al5_user_remove_residual_messages
<1>17. ASSUME NEW t \in Threads, ReleaseUnbind(t) PROVE UserTypes'
    <2>1. FileOf[t] \in Files
        OBVIOUS
    <2>2. queues' = [queues EXCEPT ![FileOf[t]] = [q \in QueueIds |-> <<>>]]
        BY <1>17 DEF ReleaseUnbind, CallsOK, Slots
    <2>3. /\ queues' \in [Files -> [QueueIds -> Seq(Answers)]]
          /\ \A g \in Files : \A r \in QueueIds : queues'[g][r] \in Seq(MailsOf(r))
        BY <2>1, <2>2, EmptyQueueTypes
    <2> QED
        BY <1>17, <2>3 DEF ReleaseUnbind, CallsOK, Slots
<1>18. ASSUME NEW t \in Threads, CreateSend(t) PROVE UserTypes'
    BY <1>18 DEF CreateSend, al5_mcu_send, Goto
<1>19. ASSUME NEW t \in Threads, CreateWoken(t) PROVE UserTypes'
    BY <1>19 DEF CreateWoken, CreateReturn, Unlock, Goto
<1>20. ASSUME NEW t \in Threads, CreateGivesUp(t) PROVE UserTypes'
    BY <1>20 DEF CreateGivesUp, CreateReturn, Unlock, Goto, Signal
<1>21. ASSUME NEW t \in Threads, NEW op \in WaitOps, WaitCall(t, op) PROVE UserTypes'
    BY <1>21 DEF WaitCall, WaitEnter, Waiting, WaitOps, IsFree, Lock, Goto, IsOpen
<1>22. ASSUME NEW t \in Threads, NEW op \in WaitOps, WaitReturn(t, op) PROVE UserTypes'
    <2>1. op \in QueueIds /\ FileOf[t] \in Files
        BY <1>22 DEF QueueIds, WaitOps
    <2>2. PopAny(FileOf[t], op)
        BY <1>22 DEF WaitReturn
    <2>3. /\ queues' \in [Files -> [QueueIds -> Seq(Answers)]]
          /\ \A g \in Files : \A r \in QueueIds : queues'[g][r] \in Seq(MailsOf(r))
        BY <2>1, <2>2, PopTypes
    <2> QED
        BY <1>22, <2>3 DEF WaitReturn, WaitReturn
<1>23. ASSUME NEW t \in Threads, NEW op \in WaitOps, WaitInterrupted(t, op) PROVE UserTypes'
    BY <1>23 DEF WaitInterrupted, Waiting, WaitOps, Unlock, Goto, Signal
<1>24. CASE IrqRead
    <2>1. Head(status) \in Answers
        BY <1>24, MailSeqs DEF IrqRead, McuTypes
    <2>2. retrieve_user(Head(status)) \in Files \cup {NoFile}
        BY <2>1, RetrieveType
    <2> QED
        BY <1>24, <2>1, <2>2 DEF IrqRead
<1>25. CASE IrqDeliver
    <2>1. irq.user \in Files /\ irq.mail \in Answers
        BY <1>25 DEF IrqDeliver
    <2>2. al5_user_deliver(irq.user, irq.mail)
        BY <1>25 DEF IrqDeliver
    <2>3. /\ queues' \in [Files -> [QueueIds -> Seq(Answers)]]
          /\ \A g \in Files : \A r \in QueueIds : queues'[g][r] \in Seq(MailsOf(r))
        BY <2>1, <2>2, DeliverTypes
    <2> QED
        BY <1>25, <2>3 DEF IrqDeliver
<1>26. CASE IrqOrphan
    BY <1>26 DEF IrqOrphan, al5_mcu_send
<1>27. CASE McuStep
    BY <1>27 DEF McuStep, userVars
<1> QED
    BY <1>1, <1>2, <1>3, <1>4, <1>5, <1>6, <1>7, <1>8, <1>9, <1>10, <1>11, <1>12, <1>13,
       <1>14, <1>15, <1>16, <1>17, <1>18, <1>19, <1>20, <1>21, <1>22, <1>23, <1>24, <1>25,
       <1>26, <1>27 DEF SharedStep, SharedCall, DestroyStep, ReleaseStep, Irq

\* The boxes hold mails of their kind and no more than they can.
LEMMA McuTypes_Shared == UsersInv /\ SharedStep => McuTypes'
<1> SUFFICES ASSUME UsersInv, SharedStep PROVE McuTypes'
    OBVIOUS
<1> USE McuAssumption, UsersAssumption DEF UsersInv, McuTypes, groupVars, chanVars, queueVars,
       poolVars, threadVars, mcuVars
<1>1. ASSUME NEW f \in Files, al5_codec_open(f) PROVE McuTypes'
    BY <1>1 DEF al5_codec_open, al5_user_init
<1>2. ASSUME NEW t \in Threads, DestroyEnter(t) PROVE McuTypes'
    BY <1>2 DEF DestroyEnter, MayCall, Goto
<1>3. ASSUME NEW t \in Threads, DestroyQueues(t) PROVE McuTypes'
    BY <1>3 DEF DestroyQueues, user_queues_unlock, Goto
<1>4. ASSUME NEW t \in Threads, DestroyMutex(t) PROVE McuTypes'
    BY <1>4 DEF DestroyMutex, IsFree, Lock, Goto
<1>5. ASSUME NEW t \in Threads, DestroyKilled(t) PROVE McuTypes'
    BY <1>5 DEF DestroyKilled, UnlockAll, Goto
<1>6. ASSUME NEW t \in Threads, DestroyRefused(t) PROVE McuTypes'
    BY <1>6 DEF DestroyRefused, Goto
<1>7. ASSUME NEW t \in Threads, DestroyQuiet(t) PROVE McuTypes'
    <2>1. ChanMsg("QUIET_DESTROY_CHANNEL", chan_uid[FileOf[t]]) \in Commands
        BY <1>7, CommandTypes, CommandParts DEF UserTypes, ChannelCommands
    <2>2. cmd' = Append(cmd, ChanMsg("QUIET_DESTROY_CHANNEL", chan_uid[FileOf[t]])) /\ ~CmdFull
        BY <1>7 DEF DestroyQuiet, al5_mcu_send
    <2>3. cmd' \in Seq(Commands) /\ Len(cmd') <= CmdCap
        BY <2>1, <2>2, MailSeqs DEF CmdFull
    <2> QED
        BY <1>7, <2>3 DEF DestroyQuiet
<1>8. ASSUME NEW t \in Threads, DestroySend(t) PROVE McuTypes'
    <2>1. ChanMsg("DESTROY_CHANNEL", chan_uid[FileOf[t]]) \in Commands
        BY <1>8, CommandTypes, CommandParts DEF UserTypes, ChannelCommands
    <2>2. cmd' = Append(cmd, ChanMsg("DESTROY_CHANNEL", chan_uid[FileOf[t]])) /\ ~CmdFull
        BY <1>8 DEF DestroySend, al5_mcu_send
    <2>3. cmd' \in Seq(Commands) /\ Len(cmd') <= CmdCap
        BY <2>1, <2>2, MailSeqs DEF CmdFull
    <2> QED
        BY <1>8, <2>3 DEF DestroySend
<1>9. ASSUME NEW t \in Threads, DestroyAnswered(t) PROVE McuTypes'
    BY <1>9 DEF DestroyAnswered, Goto, PopAny, ForgetChannel,
       al5_user_destroy_channel_resources
<1>10. ASSUME NEW t \in Threads, DestroyInterrupted(t) PROVE McuTypes'
    BY <1>10 DEF DestroyInterrupted, Goto, Signal
<1>11. ASSUME NEW t \in Threads, DestroyUnlock(t) PROVE McuTypes'
    BY <1>11 DEF DestroyUnlock, UnlockAll, Goto
<1>12. ASSUME NEW t \in Threads, DestroyRelock(t) PROVE McuTypes'
    BY <1>12 DEF DestroyRelock, user_queues_lock, Goto
<1>13. ASSUME NEW t \in Threads, ReleaseEnter(t) PROVE McuTypes'
    BY <1>13 DEF ReleaseEnter, IsOpen, Goto
<1>14. ASSUME NEW t \in Threads, ReleaseTry(t) PROVE McuTypes'
    BY <1>14 DEF ReleaseTry, Goto, Answer
<1>15. ASSUME NEW t \in Threads, ReleaseFree(t) PROVE McuTypes'
    BY <1>15 DEF ReleaseFree, al5_user_destroy_channel_resources, Goto
<1>16. ASSUME NEW t \in Threads, ReleasePurge(t) PROVE McuTypes'
    BY <1>16 DEF ReleasePurge, al5_user_remove_residual_messages, Goto
<1>17. ASSUME NEW t \in Threads, ReleaseUnbind(t) PROVE McuTypes'
    BY <1>17 DEF ReleaseUnbind, Goto
<1>18. ASSUME NEW t \in Threads, CreateSend(t) PROVE McuTypes'
    <2>1. CreateMsg(FileOf[t], uid[FileOf[t]]) \in Commands
        BY <1>18, CommandTypes, CommandParts DEF CreateSend, UserTypes, CallsOK, Slots
    <2>2. cmd' = Append(cmd, CreateMsg(FileOf[t], uid[FileOf[t]])) /\ ~CmdFull
        BY <1>18 DEF CreateSend, al5_mcu_send
    <2>3. cmd' \in Seq(Commands) /\ Len(cmd') <= CmdCap
        BY <2>1, <2>2, MailSeqs DEF CmdFull
    <2> QED
        BY <1>18, <2>3 DEF CreateSend
<1>19. ASSUME NEW t \in Threads, CreateWoken(t) PROVE McuTypes'
    BY <1>19 DEF CreateWoken, CreateReturn, Unlock, Goto
<1>20. ASSUME NEW t \in Threads, CreateGivesUp(t) PROVE McuTypes'
    BY <1>20 DEF CreateGivesUp, CreateReturn, Unlock, Goto, Signal
<1>21. ASSUME NEW t \in Threads, NEW op \in WaitOps, WaitCall(t, op) PROVE McuTypes'
    BY <1>21 DEF WaitCall, WaitEnter, Waiting, WaitOps, IsFree, Lock, Goto, IsOpen
<1>22. ASSUME NEW t \in Threads, NEW op \in WaitOps, WaitReturn(t, op) PROVE McuTypes'
    BY <1>22 DEF WaitReturn, Waiting, WaitOps, Unlock, Goto, PopAny
<1>23. ASSUME NEW t \in Threads, NEW op \in WaitOps, WaitInterrupted(t, op) PROVE McuTypes'
    BY <1>23 DEF WaitInterrupted, Waiting, WaitOps, Unlock, Goto, Signal
<1>24. CASE IrqRead
    <2>1. status' \in Seq(Answers) /\ Len(status') <= StatusCap
        BY <1>24, MailSeqs DEF IrqRead
    <2> QED
        BY <1>24, <2>1 DEF IrqRead
<1>25. CASE IrqDeliver
    BY <1>25 DEF IrqDeliver, al5_user_deliver
<1>26. CASE IrqOrphan
    <2>1. CASE should_destroy_channel_on_bad_feedback(irq.mail.uid) /\ ~CmdFull
        <3>1. irq.mail \in Answers /\ irq.mail.uid # "SEARCH_START_CODE"
            BY <1>26, <2>1 DEF IrqOrphan, UserTypes, should_destroy_channel_on_bad_feedback
        <3>2. OrphanMsg(irq.mail.chan) \in Commands
            BY <3>1, AnswerParts, CommandTypes
        <3>4. cmd' = Append(cmd, OrphanMsg(irq.mail.chan)) /\ ~CmdFull
            BY <1>26, <2>1 DEF IrqOrphan, al5_mcu_send
        <3>3. cmd' \in Seq(Commands) /\ Len(cmd') <= CmdCap
            BY <3>2, <3>4, MailSeqs DEF CmdFull
        <3> QED
            BY <1>26, <3>3 DEF IrqOrphan
    <2>2. CASE ~(should_destroy_channel_on_bad_feedback(irq.mail.uid) /\ ~CmdFull)
        BY <1>26, <2>2 DEF IrqOrphan
    <2> QED
        BY <2>1, <2>2
<1>27. CASE McuStep
    <2>1. CASE McuCreates
        <3>1. Taken /\ Head(cmd).uid = "CREATE_CHANNEL"
            BY <2>1 DEF McuCreates, Takes, Taken
        <3>2. PICK c \in Chans \ alive :
                 /\ alive' = alive \cup {c}
                 /\ creator' = [creator EXCEPT ![c] = Head(cmd).by]
                 /\ status' = Append(status, CreateAnswer(Head(cmd), c))
            BY <2>1 DEF McuCreates
        <3>3. CreateAnswer(Head(cmd), c) \in Answers /\ Head(cmd).by \in Files
            BY <3>1, TakenTypes, AnswerTypes, CommandParts DEF ChanIds
        <3> QED
            BY <2>1, <3>1, <3>2, <3>3, TakenTypes DEF McuCreates
    <2>2. CASE McuRefuses
        <3>1. Taken /\ Head(cmd).uid = "CREATE_CHANNEL"
            BY <2>2 DEF McuRefuses, Takes, Taken
        <3>2. CreateAnswer(Head(cmd), BAD_CHAN) \in Answers
            BY <3>1, TakenTypes, AnswerTypes DEF ChanIds
        <3> QED
            BY <2>2, <3>1, <3>2, TakenTypes DEF McuRefuses
    <2>3. CASE McuDestroys
        <3>1. Taken /\ Head(cmd).chan \in Chans
            BY <2>3 DEF McuDestroys, Takes, Taken
        <3>2. Feedback("DESTROY_CHANNEL", Head(cmd).chan) \in Answers
            BY <3>1, AnswerTypes
        <3>3. status' \in Seq(Answers) /\ Len(status') <= StatusCap
            BY <2>3, <3>1, <3>2, TakenTypes DEF McuDestroys
        <3>4. <<>> \in Seq({"PUSH_BUFFER_INTERMEDIATE", "PUSH_BUFFER_REFERENCE"})
            BY MailSeqs
        <3> QED
            BY <2>3, <3>1, <3>3, <3>4, TakenTypes DEF McuDestroys, Forget
    <2>4. CASE McuGetsBuffers
        <3> DEFINE c == Head(cmd).chan
        <3>1. /\ Taken /\ c \in Chans
              /\ Head(cmd).uid \in {"PUSH_BUFFER_INTERMEDIATE", "PUSH_BUFFER_REFERENCE"}
            BY <2>4 DEF McuGetsBuffers, Takes, Taken
        <3>2. Append(pushed[c], Head(cmd).uid)
                 \in Seq({"PUSH_BUFFER_INTERMEDIATE", "PUSH_BUFFER_REFERENCE"})
            BY <3>1, MailSeqs
        <3>3. pushed' = [pushed EXCEPT ![c] = Append(pushed[c], Head(cmd).uid)]
            BY <2>4, <3>1 DEF McuGetsBuffers
        <3> HIDE DEF c
        <3>4. pushed' \in [Chans -> Seq({"PUSH_BUFFER_INTERMEDIATE", "PUSH_BUFFER_REFERENCE"})]
            BY <3>1, <3>2, <3>3
        <3> QED
            BY <2>4, <3>1, <3>4, TakenTypes DEF McuGetsBuffers
    <2>5. CASE McuGetsFrame
        <3>1. Taken /\ Head(cmd).chan \in Chans
            BY <2>5 DEF McuGetsFrame, Takes, Taken
        <3>2. frames' = [frames EXCEPT ![Head(cmd).chan] = frames[Head(cmd).chan] + 1]
            BY <2>5, <3>1 DEF McuGetsFrame
        <3>3. frames' \in [Chans -> Nat]
            BY <3>1, <3>2
        <3> QED
            BY <2>5, <3>1, <3>3, TakenTypes DEF McuGetsFrame
    <2>6. CASE McuGetsRec
        <3>1. Taken /\ Head(cmd).chan \in Chans
            BY <2>6 DEF McuGetsRec, Takes, Taken
        <3>2. status' \in Seq(Answers) /\ Len(status') <= StatusCap
            BY <2>6, <3>1, AnswerTypes, TakenTypes DEF McuGetsRec
        <3> QED
            BY <2>6, <3>1, <3>2, TakenTypes DEF McuGetsRec
    <2>7. CASE McuSearches
        <3>1. Taken /\ Head(cmd).uid = "SEARCH_START_CODE"
            BY <2>7 DEF McuSearches, Takes, Taken
        <3>2. SearchAnswer(Head(cmd)) \in Answers
            BY <3>1, TakenTypes, AnswerTypes
        <3> QED
            BY <2>7, <3>1, <3>2, TakenTypes DEF McuSearches
    <2>8. CASE McuIgnores
        <3>1. Taken
            BY <2>8 DEF McuIgnores, Takes, Taken
        <3> QED
            BY <2>8, <3>1, TakenTypes DEF McuIgnores
    <2>9. ASSUME NEW msg_uid \in {"ENCODE_ONE_FRM", "DECODE_ONE_FRM"}, McuReports(msg_uid)
          PROVE  McuTypes'
        <3>1. PICK c \in alive : /\ frames[c] > 0
                                 /\ frames' = [frames EXCEPT ![c] = frames[c] - 1]
                                 /\ status' = Append(status, Feedback(msg_uid, c))
            BY <2>9, Zenon DEF McuReports
        <3>2. Feedback(msg_uid, c) \in Answers
            BY AnswerTypes
        <3>3. status' \in Seq(Answers) /\ Len(status') <= StatusCap
            BY <2>9, <3>1, <3>2, MailSeqs DEF McuReports
        <3>4. frames' \in [Chans -> Nat]
            <4>1. c \in Chans /\ frames[c] - 1 \in Nat
                BY <3>1
            <4> QED
                BY <3>1, <4>1
        <3> QED
            BY <2>9, <3>3, <3>4 DEF McuReports
    <2> QED
        BY <1>27, <2>1, <2>2, <2>3, <2>4, <2>5, <2>6, <2>7, <2>8, <2>9 DEF McuStep, McuHandles
<1> QED
    BY <1>1, <1>2, <1>3, <1>4, <1>5, <1>6, <1>7, <1>8, <1>9, <1>10, <1>11, <1>12, <1>13,
       <1>14, <1>15, <1>16, <1>17, <1>18, <1>19, <1>20, <1>21, <1>22, <1>23, <1>24, <1>25,
       <1>26, <1>27 DEF SharedStep, SharedCall, DestroyStep, ReleaseStep, Irq

\* Buffers come and go with the channel, under the mutex of the create.
LEMMA ChannelOK_Shared == UsersInv /\ SharedStep => ChannelOK'
<1> SUFFICES ASSUME UsersInv, SharedStep PROVE ChannelOK'
    OBVIOUS
<1> USE McuAssumption, UsersAssumption DEF UsersInv, UserTypes, FlagTypes, ThreadTypes,
       CallsOK, ChannelOK, Destroying, Releasing, Closing, groupVars, chanVars, queueVars,
       poolVars, threadVars, mcuVars
<1>1. ASSUME NEW f \in Files, al5_codec_open(f) PROVE ChannelOK'
    BY <1>1 DEF al5_codec_open, al5_user_init
<1>2. ASSUME NEW t \in Threads, DestroyEnter(t) PROVE ChannelOK'
    BY <1>2 DEF DestroyEnter, MayCall, Goto
<1>3. ASSUME NEW t \in Threads, DestroyQueues(t) PROVE ChannelOK'
    BY <1>3 DEF DestroyQueues, user_queues_unlock, Goto
<1>4. ASSUME NEW t \in Threads, DestroyMutex(t) PROVE ChannelOK'
    BY <1>4 DEF DestroyMutex, IsFree, Lock, Goto
<1>5. ASSUME NEW t \in Threads, DestroyKilled(t) PROVE ChannelOK'
    BY <1>5 DEF DestroyKilled, UnlockAll, Goto
<1>6. ASSUME NEW t \in Threads, DestroyRefused(t) PROVE ChannelOK'
    BY <1>6 DEF DestroyRefused, Goto
<1>7. ASSUME NEW t \in Threads, DestroyQuiet(t) PROVE ChannelOK'
    <2>1. \A u \in Threads : u # t /\ FileOf[u] = FileOf[t] => pc[u] \notin Creating
        BY <1>7, DestroysAlone DEF DestroyQuiet
    <2> QED
        BY <1>7, <2>1 DEF DestroyQuiet, ForgetChannel, al5_user_destroy_channel_resources, Goto, Creating
<1>8. ASSUME NEW t \in Threads, DestroySend(t) PROVE ChannelOK'
    BY <1>8 DEF DestroySend, al5_mcu_send, Goto
<1>9. ASSUME NEW t \in Threads, DestroyAnswered(t) PROVE ChannelOK'
    <2>1. \A u \in Threads : u # t /\ FileOf[u] = FileOf[t] => pc[u] \notin Creating
        BY <1>9, DestroysAlone DEF DestroyAnswered
    <2> QED
        BY <1>9, <2>1 DEF DestroyAnswered, ForgetChannel, al5_user_destroy_channel_resources, Goto, Creating
<1>10. ASSUME NEW t \in Threads, DestroyInterrupted(t) PROVE ChannelOK'
    BY <1>10 DEF DestroyInterrupted, Goto, Signal
<1>11. ASSUME NEW t \in Threads, DestroyUnlock(t) PROVE ChannelOK'
    BY <1>11 DEF DestroyUnlock, UnlockAll, Goto
<1>12. ASSUME NEW t \in Threads, DestroyRelock(t) PROVE ChannelOK'
    BY <1>12 DEF DestroyRelock, user_queues_lock, Goto
<1>13. ASSUME NEW t \in Threads, ReleaseEnter(t) PROVE ChannelOK'
    BY <1>13 DEF ReleaseEnter, IsOpen, Goto, al5_chan_is_created
<1>14. ASSUME NEW t \in Threads, ReleaseTry(t) PROVE ChannelOK'
    BY <1>14 DEF ReleaseTry, Goto, Answer
<1>15. ASSUME NEW t \in Threads, ReleaseFree(t) PROVE ChannelOK'
    BY <1>15 DEF ReleaseFree, al5_user_destroy_channel_resources, Goto
<1>16. ASSUME NEW t \in Threads, ReleasePurge(t) PROVE ChannelOK'
    BY <1>16 DEF ReleasePurge, al5_user_remove_residual_messages, Goto
<1>17. ASSUME NEW t \in Threads, ReleaseUnbind(t) PROVE ChannelOK'
    BY <1>17 DEF ReleaseUnbind, Goto
<1>18. ASSUME NEW t \in Threads, CreateSend(t) PROVE ChannelOK'
    BY <1>18 DEF CreateSend, al5_mcu_send, Goto
<1>19. ASSUME NEW t \in Threads, CreateWoken(t) PROVE ChannelOK'
    BY <1>19 DEF CreateWoken, CreateReturn, Unlock, Goto
<1>20. ASSUME NEW t \in Threads, CreateGivesUp(t) PROVE ChannelOK'
    BY <1>20 DEF CreateGivesUp, CreateReturn, Unlock, Goto, Signal
<1>21. ASSUME NEW t \in Threads, NEW op \in WaitOps, WaitCall(t, op) PROVE ChannelOK'
    BY <1>21 DEF WaitCall, WaitEnter, Waiting, WaitOps, IsFree, Lock, Goto, IsOpen
<1>22. ASSUME NEW t \in Threads, NEW op \in WaitOps, WaitReturn(t, op) PROVE ChannelOK'
    BY <1>22 DEF WaitReturn, Waiting, WaitOps, Unlock, Goto, PopAny
<1>23. ASSUME NEW t \in Threads, NEW op \in WaitOps, WaitInterrupted(t, op) PROVE ChannelOK'
    BY <1>23 DEF WaitInterrupted, Waiting, WaitOps, Unlock, Goto, Signal
<1>24. CASE IrqRead
    BY <1>24 DEF IrqRead
<1>25. CASE IrqDeliver
    BY <1>25 DEF IrqDeliver, al5_user_deliver
<1>26. CASE IrqOrphan
    BY <1>26 DEF IrqOrphan, al5_mcu_send
<1>27. CASE McuStep
    BY <1>27 DEF McuStep, userVars
<1> QED
    BY <1>1, <1>2, <1>3, <1>4, <1>5, <1>6, <1>7, <1>8, <1>9, <1>10, <1>11, <1>12, <1>13,
       <1>14, <1>15, <1>16, <1>17, <1>18, <1>19, <1>20, <1>21, <1>22, <1>23, <1>24, <1>25,
       <1>26, <1>27 DEF SharedStep, SharedCall, DestroyStep, ReleaseStep, Irq
-----------------------------------------------------------------------------
\* The invariant, and what follows from it.

\* Every step that encoder and decoder share keeps the invariant.
LEMMA SharedKeeps == UsersInv /\ SharedStep => UsersInv'
<1> SUFFICES ASSUME UsersInv, SharedStep PROVE UsersInv'
    OBVIOUS
<1>1. /\ McuTypes' /\ UserTypes' /\ FlagTypes' /\ ThreadTypes' /\ CallsOK' /\ LocksOK' /\ QueuesOK'
      /\ ChannelOK'
    BY McuTypes_Shared, UserTypes_Shared, FlagTypes_Shared, ThreadTypes_Shared, CallsOK_Shared,
       LocksOK_Shared, QueuesOK_Shared, ChannelOK_Shared
<1> QED
    BY <1>1 DEF UsersInv

LEMMA UsersStutter == UsersInv /\ UNCHANGED <<userVars, mcuVars>> => UsersInv'
<1> SUFFICES ASSUME UsersInv, UNCHANGED <<userVars, mcuVars>> PROVE UsersInv'
    OBVIOUS
<1> USE DEF UsersInv, userVars, mcuVars, groupVars, chanVars, queueVars, poolVars, threadVars
<1>1. McuTypes'
    BY DEF McuTypes
<1>2. UserTypes'
    BY DEF UserTypes
<1>3. FlagTypes'
    BY DEF FlagTypes
<1>4. ThreadTypes'
    BY DEF ThreadTypes
<1>5. CallsOK'
    BY DEF CallsOK
<1>6. LocksOK'
    BY DEF LocksOK, Needs
<1>7. QueuesOK'
    BY DEF QueuesOK
<1>8. ChannelOK'
    BY DEF ChannelOK, Closing
<1> QED
    BY <1>1, <1>2, <1>3, <1>4, <1>5, <1>6, <1>7, <1>8

\* The device when its module is loaded.
LEMMA UsersStart == UsersInit /\ McuInit => UsersInv
<1> SUFFICES ASSUME UsersInit, McuInit PROVE UsersInv
    OBVIOUS
<1> USE McuAssumption, UsersAssumption
<1>1. McuTypes
    BY MailSeqs DEF McuInit, McuTypes
<1>2. UserTypes
    <2>1. /\ uid \in [Files -> -1..MaxUsers-1]
          /\ slot \in [Slots -> Files \cup {NoFile}]
          /\ chan_uid \in [Files -> ChanIds]
          /\ checkpoint \in [Files -> {"NO_CHECKPOINT", "ALLOCATE_BUFFERS",
                                       "SEND_INTERMEDIATE_BUFFERS", "SEND_REFERENCE_BUFFERS"}]
          /\ irq = NoIrq
        BY DEF UsersInit, ChanIds, Slots
    <2>2. /\ queues \in [Files -> [QueueIds -> Seq(Answers)]]
          /\ \A f \in Files : \A q \in QueueIds : queues[f][q] \in Seq(MailsOf(q))
        BY MailSeqs DEF UsersInit
    <2> QED
        BY <2>1, <2>2 DEF UserTypes
<1>3. FlagTypes
    BY DEF UsersInit, FlagTypes
<1>4. ThreadTypes
    BY DEF UsersInit, ThreadTypes, Labels
<1>5. CallsOK
    BY DEF UsersInit, CallsOK, Releasing
<1>6. LocksOK
    BY DEF UsersInit, LocksOK, Needs
<1>7. QueuesOK
    BY DEF UsersInit, QueuesOK
<1>8. ChannelOK
    BY DEF UsersInit, ChannelOK
<1> QED
    BY <1>1, <1>2, <1>3, <1>4, <1>5, <1>6, <1>7, <1>8 DEF UsersInv

LEMMA UsersInvTypes == UsersInv => McuTypeOK /\ UsersTypeOK
<1> SUFFICES ASSUME UsersInv PROVE McuTypeOK /\ UsersTypeOK
    OBVIOUS
<1>1. McuTypeOK
    BY DEF UsersInv, McuTypes, McuTypeOK
<1>2. /\ uid \in [Files -> -1..MaxUsers-1]
      /\ slot \in [0..MaxUsers-1 -> Files \cup {NoFile}]
      /\ chan_uid \in [Files -> Chans \cup {BAD_CHAN}]
      /\ checkpoint \in [Files -> {"NO_CHECKPOINT", "ALLOCATE_BUFFERS",
                                   "SEND_INTERMEDIATE_BUFFERS", "SEND_REFERENCE_BUFFERS"}]
      /\ irq # NoIrq => irq.user \in Files \cup {NoFile}
    BY DEF UsersInv, UserTypes, ChanIds, Slots
<1>3. \A f \in Files : DOMAIN queues[f] = QueueIds
    BY DEF UsersInv, UserTypes
<1>4. locks \in [Files -> [OpIds -> Threads \cup {NoThread}]]
    BY DEF UsersInv, LocksOK
<1>5. /\ locked \in [Files -> [QueueIds -> BOOLEAN]]
      /\ int_buffers \in [Files -> BOOLEAN]
      /\ rec_buffers \in [Files -> BOOLEAN]
    BY DEF UsersInv, FlagTypes
<1>6. /\ idx \in [Threads -> 1..Len(OpOrder)]
      /\ after \in [Threads -> {"ioctl", "create", "release"}]
      /\ tries \in [Threads -> 0..MaxTries]
      /\ signals \in 0..MaxSignals
    BY OpOrderFacts DEF UsersInv, ThreadTypes
<1> QED
    BY <1>1, <1>2, <1>3, <1>4, <1>5, <1>6 DEF UsersTypeOK

\* A thread holds what it needs, and nothing else.
LEMMA UsersInvMutexes == UsersInv => MutexDiscipline
<1> SUFFICES ASSUME UsersInv, NEW t \in Threads PROVE MutexDiscipline!(t)
    BY DEF MutexDiscipline
<1>1. Holds(t) = Needs(t)
    <2>1. Needs(t) \in SUBSET OpIds
        BY OpOrderFacts DEF Needs, UsersInv, ThreadTypes
    <2> QED
        BY <2>1 DEF Holds, UsersInv, LocksOK
<1> QED
    BY <1>1 DEF Needs, Waiting

\* No queue stays unlocked.
LEMMA UsersInvQueues == UsersInv => QueuesRelocked
    BY DEF UsersInv, QueuesOK, QueuesRelocked, Destroying

=============================================================================
