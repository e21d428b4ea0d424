--------------------------- MODULE ChannelProofs ----------------------------
(***************************************************************************)
(* Proofs about the ids of channels: who holds a channel, which mails go   *)
(* by its id, and what becomes of both when ids are handed out again.      *)
(* They hold of the encoder and of the decoder alike, for a firmware that  *)
(* hands an id out again only when no file and no mail goes by it.         *)
(***************************************************************************)
EXTENDS UsersProofs

-----------------------------------------------------------------------------
\* The invariant about channels and their ids, in parts.

\* The users of the group, and what a closed file has left.
BindOK ==
    /\ \A f \in Files : uid[f] # -1 => slot[uid[f]] = f
    /\ \A i \in Slots : slot[i] # NoFile => uid[slot[i]] = i
    /\ \A f \in Files : uid[f] = -1 =>
          chan_uid[f] = BAD_CHAN /\ \A q \in QueueIds : queues[f][q] = <<>>
    /\ irq # NoIrq /\ irq.user # NoFile => uid[irq.user] # -1

\* What the firmware keeps for a channel goes with the channel.
FirmwareOK ==
    \A ch \in Chans : ch \notin alive =>
        pushed[ch] = <<>> /\ frames[ch] = 0 /\ creator[ch] = NoFile

\* The places that go by the id of a channel.
Held(ch)     == \E f \in Files : chan_uid[f] = ch
InCmd(ch)    == \E i \in 1..Len(cmd) : NamesChannel(cmd[i], ch)
InStatus(ch) == \E i \in 1..Len(status) : NamesChannel(status[i], ch)
InIrq(ch)    == irq # NoIrq /\ NamesChannel(irq.mail, ch)
InCreate(ch) == \E f \in Files : \E i \in 1..Len(queues[f]["CREATE"]) :
                    queues[f]["CREATE"][i].chan = ch

\* A channel whose file has not read the answer yet: nobody works with it.
Unread(ch) ==
    /\ ch \in alive /\ ~Held(ch) /\ ~InCmd(ch)
    /\ frames[ch] = 0 /\ pushed[ch] = <<>>

\* A channel belongs to one: to a file, or to one unread answer.
FilesOK ==
    \A f, g \in Files : f # g /\ chan_uid[f] # BAD_CHAN => chan_uid[f] # chan_uid[g]

StatusClaims ==
    \A i \in 1..Len(status) :
        status[i].uid = "CREATE_CHANNEL" /\ status[i].chan # BAD_CHAN =>
            /\ Unread(status[i].chan) /\ ~InIrq(status[i].chan) /\ ~InCreate(status[i].chan)
            /\ \A j \in 1..Len(status) : NamesChannel(status[j], status[i].chan) => j = i

IrqClaim ==
    irq # NoIrq /\ irq.mail.uid = "CREATE_CHANNEL" /\ irq.mail.chan # BAD_CHAN =>
        Unread(irq.mail.chan) /\ ~InStatus(irq.mail.chan) /\ ~InCreate(irq.mail.chan)

QueueClaims ==
    \A f \in Files : \A i \in 1..Len(queues[f]["CREATE"]) :
        queues[f]["CREATE"][i].chan # BAD_CHAN =>
            /\ Unread(queues[f]["CREATE"][i].chan)
            /\ ~InStatus(queues[f]["CREATE"][i].chan) /\ ~InIrq(queues[f]["CREATE"][i].chan)
            /\ \A g \in Files : \A j \in 1..Len(queues[g]["CREATE"]) :
                  queues[g]["CREATE"][j].chan = queues[f]["CREATE"][i].chan => g = f /\ j = i

ClaimsOK == StatusClaims /\ IrqClaim /\ QueueClaims

\* Feedback reaches the file that holds the channel, or one that is closing.
IrqUserOK ==
    irq # NoIrq /\ irq.mail.uid \notin {"CREATE_CHANNEL", "SEARCH_START_CODE"} =>
        /\ irq.user = NoFile => ~Held(irq.mail.chan)
        /\ irq.user # NoFile => Closing(irq.user) \/ chan_uid[irq.user] = irq.mail.chan

\* The answer to a destroy is the last mail about the channel.
DestroysOK ==
    /\ \A i \in 1..Len(status) : status[i].uid = "DESTROY_CHANNEL" =>
          /\ status[i].chan \notin alive
          /\ \A j \in 1..Len(status) : NamesChannel(status[j], status[i].chan) => j <= i
    /\ irq # NoIrq /\ irq.mail.uid = "DESTROY_CHANNEL" =>
          irq.mail.chan \notin alive /\ ~InStatus(irq.mail.chan)
    /\ \A f \in Files : ~Closing(f) => Len(queues[f]["DESTROY"]) <= 1
    /\ \A f \in Files : ~Closing(f) /\ queues[f]["DESTROY"] # <<>> =>
          /\ queues[f]["DESTROY"][1].chan = chan_uid[f]
          /\ chan_uid[f] \notin alive /\ ~InStatus(chan_uid[f]) /\ ~InIrq(chan_uid[f])

\* What destroy_orphan_channel destroys is held by nobody.
OrphansOK ==
    \A i \in 1..Len(cmd) : "orphan" \in DOMAIN cmd[i] /\ cmd[i].chan # BAD_CHAN =>
        ~Held(cmd[i].chan)

\* Until a wait is cut short, the channel of a file lives, unless the file waits
\* for the answer to its destroy.
Destroys(m, ch) == m.uid \in {"DESTROY_CHANNEL", "QUIET_DESTROY_CHANNEL"} /\ m.chan = ch

HoldersOK ==
    signals = 0 => \A f \in Files : chan_uid[f] # BAD_CHAN =>
        \/ /\ chan_uid[f] \in alive
           /\ \A i \in 1..Len(cmd) : ~Destroys(cmd[i], chan_uid[f])
        \/ \E t \in Threads : FileOf[t] = f /\ pc[t] = "destroy_wait"

LinksOK ==
    /\ FilesOK /\ ClaimsOK /\ IrqUserOK /\ DestroysOK /\ OrphansOK /\ HoldersOK
    /\ FramesReachChannel

IdsInv == BindOK /\ FirmwareOK /\ LinksOK
-----------------------------------------------------------------------------
\* Mails and the channels they name.

LEMMA CommandNames ==
    ASSUME NEW m \in Commands, NEW ch
    PROVE  /\ NamesChannel(m, ch) <=> m.uid \in ChannelCommands /\ m.chan = ch
           /\ "orphan" \in DOMAIN m => m.uid = "QUIET_DESTROY_CHANNEL"
<1>1. CASE m \in [uid : {"CREATE_CHANNEL", "SEARCH_START_CODE"}, user : Slots, by : Files]
    BY <1>1 DEF NamesChannel, ChannelCommands
<1>2. CASE m \in [uid : ChannelCommands, chan : ChanIds]
    BY <1>2 DEF NamesChannel, ChannelCommands
<1>3. CASE m \in [uid : {"QUIET_DESTROY_CHANNEL"}, chan : ChanIds, orphan : {TRUE}]
    BY <1>3 DEF NamesChannel, ChannelCommands
<1> QED
    BY <1>1, <1>2, <1>3 DEF Commands

LEMMA AnswerNames ==
    ASSUME NEW m \in Answers, NEW ch
    PROVE  NamesChannel(m, ch) <=> m.uid # "SEARCH_START_CODE" /\ m.chan = ch
<1>1. CASE m \in [uid : {"CREATE_CHANNEL"}, user : Slots, chan : ChanIds, by : Files]
    BY <1>1 DEF NamesChannel
<1>2. CASE m \in [uid : {"SEARCH_START_CODE"}, user : Slots, by : Files]
    BY <1>2 DEF NamesChannel
<1>3. CASE m \in [uid : {"DESTROY_CHANNEL", "ENCODE_ONE_FRM", "DECODE_ONE_FRM"}, chan : Chans,
                  by : Files \cup {NoFile}]
    BY <1>3 DEF NamesChannel
<1>4. CASE m \in [uid : {"GET_RECONSTRUCTED_PICTURE"}, chan : Chans, found : BOOLEAN,
                  by : Files \cup {NoFile}]
    BY <1>4 DEF NamesChannel
<1> QED
    BY <1>1, <1>2, <1>3, <1>4 DEF Answers

\* Feedback names a channel.
LEMMA FeedbackNames ==
    ASSUME NEW m \in Answers, m.uid \notin {"CREATE_CHANNEL", "SEARCH_START_CODE"}
    PROVE  m.chan \in Chans /\ NamesChannel(m, m.chan)
<1>1. m.chan \in Chans
    BY DEF Answers
<1> QED
    BY <1>1, AnswerNames

LEMMA MessageNames ==
    ASSUME NEW u, NEW c, NEW ch, NEW f, NEW i
    PROVE  /\ NamesChannel(ChanMsg(u, c), ch) <=> c = ch
           /\ NamesChannel(OrphanMsg(c), ch) <=> c = ch
           /\ ~NamesChannel(CreateMsg(f, i), ch) /\ ~NamesChannel(SearchMsg(f, i), ch)
           /\ "orphan" \notin DOMAIN ChanMsg(u, c)
           /\ "orphan" \notin DOMAIN CreateMsg(f, i)
           /\ "orphan" \notin DOMAIN SearchMsg(f, i)
    BY DEF NamesChannel, ChanMsg, OrphanMsg, CreateMsg, SearchMsg

\* A sequence grows at its end and shrinks at its front.
LEMMA Grown ==
    ASSUME NEW S, NEW s \in Seq(S), NEW m \in S, NEW r, r = Append(s, m)
    PROVE  /\ Len(s) \in Nat /\ Len(r) = Len(s) + 1
           /\ \A i \in 1..Len(s) : i \in 1..Len(r) /\ r[i] = s[i]
           /\ Len(s) + 1 \in 1..Len(r) /\ r[Len(s) + 1] = m
           /\ \A i \in 1..Len(r) : (i \in 1..Len(s) /\ r[i] = s[i]) \/ (i = Len(s) + 1 /\ r[i] = m)
    OBVIOUS

LEMMA Shrunk ==
    ASSUME NEW S, NEW s \in Seq(S), s # <<>>, NEW r, r = Tail(s)
    PROVE  /\ Len(s) \in Nat \ {0} /\ Len(r) = Len(s) - 1
           /\ 1 \in 1..Len(s) /\ s[1] = Head(s) /\ s[1] \in S
           /\ \A i \in 1..Len(r) : i + 1 \in 1..Len(s) /\ r[i] = s[i+1] /\ i + 1 # 1
           /\ \A i \in 1..Len(s) : i = 1 \/ (i - 1 \in 1..Len(r) /\ r[i-1] = s[i])
    OBVIOUS

\* The types the proofs below need.
LEMMA IdTypes ==
    ASSUME UsersInv
    PROVE  /\ cmd \in Seq(Commands) /\ status \in Seq(Answers) /\ alive \subseteq Chans
           /\ \A i \in 1..Len(cmd) : cmd[i] \in Commands
           /\ \A i \in 1..Len(status) : status[i] \in Answers
           /\ chan_uid \in [Files -> ChanIds]
           /\ irq # NoIrq => irq.mail \in Answers /\ irq.user \in Files \cup {NoFile}
           /\ queues \in [Files -> [QueueIds -> Seq(Answers)]]
<1>1. cmd \in Seq(Commands) /\ status \in Seq(Answers) /\ alive \subseteq Chans
    BY DEF UsersInv, McuTypes
<1>2. /\ chan_uid \in [Files -> ChanIds]
      /\ irq # NoIrq => irq.mail \in Answers /\ irq.user \in Files \cup {NoFile}
      /\ queues \in [Files -> [QueueIds -> Seq(Answers)]]
    BY DEF UsersInv, UserTypes
<1> QED
    BY <1>1, <1>2

\* What stands in the CREATE and DESTROY queues.
LEMMA QueueTypes ==
    ASSUME UsersInv, NEW f \in Files
    PROVE  /\ queues[f]["CREATE"] \in Seq(Answers) /\ queues[f]["DESTROY"] \in Seq(Answers)
           /\ \A i \in 1..Len(queues[f]["CREATE"]) :
                 /\ queues[f]["CREATE"][i] \in Answers
                 /\ queues[f]["CREATE"][i].uid = "CREATE_CHANNEL"
                 /\ queues[f]["CREATE"][i].chan \in ChanIds
           /\ \A i \in 1..Len(queues[f]["DESTROY"]) :
                 /\ queues[f]["DESTROY"][i] \in Answers
                 /\ queues[f]["DESTROY"][i].uid = "DESTROY_CHANNEL"
                 /\ queues[f]["DESTROY"][i].chan \in Chans
<1>1. /\ queues[f]["CREATE"] \in Seq(MailsOf("CREATE")) /\ queues[f]["CREATE"] \in Seq(Answers)
      /\ queues[f]["DESTROY"] \in Seq(MailsOf("DESTROY")) /\ queues[f]["DESTROY"] \in Seq(Answers)
    BY DEF UsersInv, UserTypes, QueueIds
<1>2. \A m \in MailsOf("CREATE") : m \in Answers /\ m.uid = "CREATE_CHANNEL" /\ m.chan \in ChanIds
    BY AnswerParts DEF MailsOf
<1>3. \A m \in MailsOf("DESTROY") : m \in Answers /\ m.uid = "DESTROY_CHANNEL" /\ m.chan \in Chans
    BY AnswerParts, FeedbackNames DEF MailsOf
<1>4. \A i \in 1..Len(queues[f]["CREATE"]) : queues[f]["CREATE"][i] \in MailsOf("CREATE")
    BY <1>1
<1>5. \A i \in 1..Len(queues[f]["DESTROY"]) : queues[f]["DESTROY"][i] \in MailsOf("DESTROY")
    BY <1>1
<1> QED
    BY <1>1, <1>2, <1>3, <1>4, <1>5

-----------------------------------------------------------------------------
\* Unread answers.

\* Channels whose answer stays unread, but for the one the interrupt thread has
\* just given up.
KeepsUnread ==
    \A ch \in Chans : Unread(ch) /\ (irq' = irq \/ ~InIrq(ch)) => Unread(ch)'

\* The answers to creates stay, or a file has let go of all of its mails.
KeepsCreates ==
    \A f \in Files : queues'[f]["CREATE"] \in {queues[f]["CREATE"], <<>>}

LEMMA NoNewCreate ==
    ASSUME KeepsCreates, NEW ch PROVE InCreate(ch)' => InCreate(ch)
<1> SUFFICES ASSUME NEW f \in Files, NEW i \in 1..Len(queues'[f]["CREATE"]),
                    queues'[f]["CREATE"][i].chan = ch
             PROVE  InCreate(ch)
    BY DEF InCreate
<1>1. queues'[f]["CREATE"] = queues[f]["CREATE"]
    BY DEF KeepsCreates
<1> QED
    BY <1>1 DEF InCreate

\* Nothing new for the driver to read.
LEMMA ClaimsQuiet ==
    ASSUME UsersInv, ClaimsOK, KeepsUnread, KeepsCreates,
           status' = status, irq' = irq \/ irq' = NoIrq
    PROVE  ClaimsOK'
<1>1. \A ch : InStatus(ch)' <=> InStatus(ch)
    BY DEF InStatus
<1>2. \A ch : InIrq(ch)' => InIrq(ch)
    BY DEF InIrq
<1>3. \A ch : InCreate(ch)' => InCreate(ch)
    BY NoNewCreate
<1>4. StatusClaims'
    <2> SUFFICES ASSUME NEW i \in 1..Len(status), status[i].uid = "CREATE_CHANNEL",
                        status[i].chan # BAD_CHAN
                 PROVE  /\ Unread(status[i].chan)' /\ ~InIrq(status[i].chan)'
                        /\ ~InCreate(status[i].chan)'
                        /\ \A j \in 1..Len(status) :
                              NamesChannel(status[j], status[i].chan) => j = i
        BY DEF StatusClaims
    <2>1. /\ Unread(status[i].chan) /\ ~InIrq(status[i].chan) /\ ~InCreate(status[i].chan)
          /\ \A j \in 1..Len(status) : NamesChannel(status[j], status[i].chan) => j = i
        BY DEF ClaimsOK, StatusClaims
    <2>2. status[i].chan \in Chans
        BY <2>1, IdTypes DEF Unread
    <2> QED
        BY <1>2, <1>3, <2>1, <2>2 DEF KeepsUnread
<1>5. IrqClaim'
    <2> SUFFICES ASSUME irq' = irq, irq # NoIrq, irq.mail.uid = "CREATE_CHANNEL",
                        irq.mail.chan # BAD_CHAN
                 PROVE  /\ Unread(irq.mail.chan)' /\ ~InStatus(irq.mail.chan)'
                        /\ ~InCreate(irq.mail.chan)'
        BY DEF IrqClaim
    <2>1. Unread(irq.mail.chan) /\ ~InStatus(irq.mail.chan) /\ ~InCreate(irq.mail.chan)
        BY DEF ClaimsOK, IrqClaim
    <2>2. irq.mail.chan \in Chans
        BY <2>1, IdTypes DEF Unread
    <2> QED
        BY <1>1, <1>3, <2>1, <2>2 DEF KeepsUnread
<1>6. QueueClaims'
    <2> SUFFICES ASSUME NEW f \in Files, NEW i \in 1..Len(queues'[f]["CREATE"]),
                        queues'[f]["CREATE"][i].chan # BAD_CHAN
                 PROVE  /\ Unread(queues[f]["CREATE"][i].chan)'
                        /\ ~InStatus(queues[f]["CREATE"][i].chan)'
                        /\ ~InIrq(queues[f]["CREATE"][i].chan)'
                        /\ \A g \in Files : \A j \in 1..Len(queues'[g]["CREATE"]) :
                              queues'[g]["CREATE"][j].chan = queues'[f]["CREATE"][i].chan
                              => g = f /\ j = i
        BY DEF QueueClaims
    <2>1. \A g \in Files : \A j \in 1..Len(queues'[g]["CREATE"]) :
              queues'[g]["CREATE"] = queues[g]["CREATE"]
        BY DEF KeepsCreates
    <2>2. PICK ch : ch = queues[f]["CREATE"][i].chan /\ ch = queues'[f]["CREATE"][i].chan
        BY <2>1
    <2>3. /\ Unread(ch) /\ ~InStatus(ch) /\ ~InIrq(ch)
          /\ \A g \in Files : \A j \in 1..Len(queues[g]["CREATE"]) :
                queues[g]["CREATE"][j].chan = ch => g = f /\ j = i
        BY <2>1, <2>2 DEF ClaimsOK, QueueClaims
    <2>4. ch \in Chans
        BY <2>3, IdTypes DEF Unread
    <2>5. Unread(ch)' /\ ~InStatus(ch)' /\ ~InIrq(ch)'
        BY <1>1, <1>2, <2>3, <2>4 DEF KeepsUnread
    <2> QED
        BY <2>1, <2>2, <2>3, <2>5
<1> QED
    BY <1>4, <1>5, <1>6 DEF ClaimsOK

LEMMA StatusAppended ==
    ASSUME UsersInv, NEW m \in Answers, status' = Append(status, m)
    PROVE  /\ \A j \in 1..Len(status') :
            (j \in 1..Len(status) /\ status'[j] = status[j]) \/ (j = Len(status) + 1 /\ status'[j] = m)
           /\ Len(status) \in Nat
<1>1. status \in Seq(Answers)
    BY IdTypes
<1> QED
    BY <1>1, Grown

LEMMA StatusGrown ==
    ASSUME UsersInv, NEW m \in Answers, status' = Append(status, m), NEW ch
    PROVE  InStatus(ch)' <=> InStatus(ch) \/ NamesChannel(m, ch)
<1>1. status \in Seq(Answers)
    BY IdTypes
<1> QED
    BY <1>1, Grown DEF InStatus

\* The firmware reports, and not on a channel whose answer is unread.
LEMMA ClaimsReport ==
    ASSUME UsersInv, ClaimsOK, KeepsUnread, NEW m \in Answers, status' = Append(status, m),
           m.uid = "CREATE_CHANNEL" => m.chan = BAD_CHAN,
           \A ch \in Chans : Unread(ch) => ~NamesChannel(m, ch),
           UNCHANGED <<irq, queues>>
    PROVE  ClaimsOK'
<1>0. /\ \A j \in 1..Len(status') :
            (j \in 1..Len(status) /\ status'[j] = status[j]) \/ (j = Len(status) + 1 /\ status'[j] = m)
      /\ Len(status) \in Nat
    BY StatusAppended
<1>1. \A ch : InStatus(ch)' <=> InStatus(ch) \/ NamesChannel(m, ch)
    BY StatusGrown
<1>2. \A ch : (InIrq(ch)' <=> InIrq(ch)) /\ (InCreate(ch)' <=> InCreate(ch))
    BY DEF InIrq, InCreate
<1>3. \A ch \in Chans : Unread(ch) => Unread(ch)'
    BY DEF KeepsUnread
<1>4. StatusClaims'
    <2> SUFFICES ASSUME NEW i \in 1..Len(status'), status'[i].uid = "CREATE_CHANNEL",
                        status'[i].chan # BAD_CHAN
                 PROVE  /\ Unread(status[i].chan)' /\ ~InIrq(status[i].chan)'
                        /\ ~InCreate(status[i].chan)'
                        /\ \A j \in 1..Len(status') :
                              NamesChannel(status'[j], status'[i].chan) => j = i
        BY DEF StatusClaims
    <2>1. i \in 1..Len(status) /\ status'[i] = status[i]
        BY <1>0
    <2>2. PICK ch : ch = status[i].chan /\ ch = status'[i].chan
        BY <2>1
    <2>3. /\ Unread(ch) /\ ~InIrq(ch) /\ ~InCreate(ch)
          /\ \A j \in 1..Len(status) : NamesChannel(status[j], ch) => j = i
        BY <2>1, <2>2 DEF ClaimsOK, StatusClaims
    <2>4. ch \in Chans
        BY <2>3, IdTypes DEF Unread
    <2>5. \A j \in 1..Len(status') : NamesChannel(status'[j], ch) => j = i
        BY <1>0, <2>3, <2>4
    <2>6. Unread(ch)' /\ ~InIrq(ch)' /\ ~InCreate(ch)'
        BY <1>2, <1>3, <2>3, <2>4
    <2> QED
        BY <2>2, <2>5, <2>6
<1>5. IrqClaim'
    <2> SUFFICES ASSUME irq # NoIrq, irq.mail.uid = "CREATE_CHANNEL", irq.mail.chan # BAD_CHAN
                 PROVE  /\ Unread(irq.mail.chan)' /\ ~InStatus(irq.mail.chan)'
                        /\ ~InCreate(irq.mail.chan)'
        BY DEF IrqClaim
    <2>1. Unread(irq.mail.chan) /\ ~InStatus(irq.mail.chan) /\ ~InCreate(irq.mail.chan)
        BY DEF ClaimsOK, IrqClaim
    <2>2. irq.mail.chan \in Chans
        BY <2>1, IdTypes DEF Unread
    <2> QED
        BY <1>1, <1>2, <1>3, <2>1, <2>2
<1>6. QueueClaims'
    <2> SUFFICES ASSUME NEW f \in Files, NEW i \in 1..Len(queues[f]["CREATE"]),
                        queues[f]["CREATE"][i].chan # BAD_CHAN
                 PROVE  /\ Unread(queues[f]["CREATE"][i].chan)'
                        /\ ~InStatus(queues[f]["CREATE"][i].chan)'
                        /\ ~InIrq(queues[f]["CREATE"][i].chan)'
                        /\ \A g \in Files : \A j \in 1..Len(queues[g]["CREATE"]) :
                              queues[g]["CREATE"][j].chan = queues[f]["CREATE"][i].chan
                              => g = f /\ j = i
        BY DEF QueueClaims
    <2>1. PICK ch : ch = queues[f]["CREATE"][i].chan
        OBVIOUS
    <2>2. /\ Unread(ch) /\ ~InStatus(ch) /\ ~InIrq(ch)
          /\ \A g \in Files : \A j \in 1..Len(queues[g]["CREATE"]) :
                queues[g]["CREATE"][j].chan = ch => g = f /\ j = i
        BY <2>1 DEF ClaimsOK, QueueClaims
    <2>3. ch \in Chans
        BY <2>2, IdTypes DEF Unread
    <2>4. Unread(ch)' /\ ~InStatus(ch)' /\ ~InIrq(ch)'
        BY <1>1, <1>2, <1>3, <2>2, <2>3
    <2> QED
        BY <2>1, <2>2, <2>4
<1> QED
    BY <1>4, <1>5, <1>6 DEF ClaimsOK

\* The firmware creates a channel whose id nobody goes by.
LEMMA ClaimsCreate ==
    ASSUME UsersInv, ClaimsOK, KeepsUnread, NEW m \in Answers, status' = Append(status, m),
           m.uid = "CREATE_CHANNEL", NEW new \in Chans, m.chan = new, new \notin alive,
           Unread(new)', ~InStatus(new), ~InIrq(new),
           UNCHANGED <<irq, queues>>
    PROVE  ClaimsOK'
<1>0. /\ \A j \in 1..Len(status') :
            (j \in 1..Len(status) /\ status'[j] = status[j]) \/ (j = Len(status) + 1 /\ status'[j] = m)
      /\ Len(status) \in Nat
    BY StatusAppended
<1>1. \A ch : InStatus(ch)' <=> InStatus(ch) \/ ch = new
    BY StatusGrown, AnswerNames
<1>2. \A ch : (InIrq(ch)' <=> InIrq(ch)) /\ (InCreate(ch)' <=> InCreate(ch))
    BY DEF InIrq, InCreate
<1>3. \A ch \in Chans : Unread(ch) => Unread(ch)' /\ ch # new
    BY DEF KeepsUnread, Unread
<1>4. StatusClaims'
    <2> SUFFICES ASSUME NEW i \in 1..Len(status'), status'[i].uid = "CREATE_CHANNEL",
                        status'[i].chan # BAD_CHAN
                 PROVE  /\ Unread(status[i].chan)' /\ ~InIrq(status[i].chan)'
                        /\ ~InCreate(status[i].chan)'
                        /\ \A j \in 1..Len(status') :
                              NamesChannel(status'[j], status'[i].chan) => j = i
        BY DEF StatusClaims
    <2>1. PICK ch : ch = status'[i].chan
        OBVIOUS
    <2>2. CASE i \in 1..Len(status) /\ status'[i] = status[i]
        <3>1. /\ Unread(ch) /\ ~InIrq(ch) /\ ~InCreate(ch)
              /\ \A j \in 1..Len(status) : NamesChannel(status[j], ch) => j = i
            BY <2>1, <2>2 DEF ClaimsOK, StatusClaims
        <3>2. ch \in Chans
            BY <3>1, IdTypes DEF Unread
        <3>3. ch # new /\ Unread(ch)' /\ ~InIrq(ch)' /\ ~InCreate(ch)'
            BY <1>2, <1>3, <3>1, <3>2
        <3>4. ~NamesChannel(m, ch)
            BY <3>3, AnswerNames
        <3>5. \A j \in 1..Len(status') : NamesChannel(status'[j], ch) => j = i
            BY <1>0, <3>1, <3>4
        <3> QED
            BY <2>1, <3>3, <3>5
    <2>3. CASE i = Len(status) + 1 /\ status'[i] = m
        <3>1. ch = new
            BY <2>1, <2>3
        <3>2. ~InCreate(new)
            <4> SUFFICES ASSUME NEW f \in Files, NEW k \in 1..Len(queues[f]["CREATE"]),
                                queues[f]["CREATE"][k].chan = new
                         PROVE  FALSE
                BY DEF InCreate
            <4>1. Unread(queues[f]["CREATE"][k].chan)
                BY McuAssumption DEF ClaimsOK, QueueClaims
            <4> QED
                BY <4>1 DEF Unread
        <3>3. \A j \in 1..Len(status') : NamesChannel(status'[j], new) => j = i
            BY <1>0, <2>3 DEF InStatus
        <3> QED
            BY <1>2, <2>1, <3>1, <3>2, <3>3
    <2> QED
        BY <1>0, <2>2, <2>3
<1>5. IrqClaim'
    <2> SUFFICES ASSUME irq # NoIrq, irq.mail.uid = "CREATE_CHANNEL", irq.mail.chan # BAD_CHAN
                 PROVE  /\ Unread(irq.mail.chan)' /\ ~InStatus(irq.mail.chan)'
                        /\ ~InCreate(irq.mail.chan)'
        BY DEF IrqClaim
    <2>1. Unread(irq.mail.chan) /\ ~InStatus(irq.mail.chan) /\ ~InCreate(irq.mail.chan)
        BY DEF ClaimsOK, IrqClaim
    <2>2. irq.mail.chan \in Chans
        BY <2>1, IdTypes DEF Unread
    <2> QED
        BY <1>1, <1>2, <1>3, <2>1, <2>2
<1>6. QueueClaims'
    <2> SUFFICES ASSUME NEW f \in Files, NEW i \in 1..Len(queues[f]["CREATE"]),
                        queues[f]["CREATE"][i].chan # BAD_CHAN
                 PROVE  /\ Unread(queues[f]["CREATE"][i].chan)'
                        /\ ~InStatus(queues[f]["CREATE"][i].chan)'
                        /\ ~InIrq(queues[f]["CREATE"][i].chan)'
                        /\ \A g \in Files : \A j \in 1..Len(queues[g]["CREATE"]) :
                              queues[g]["CREATE"][j].chan = queues[f]["CREATE"][i].chan
                              => g = f /\ j = i
        BY DEF QueueClaims
    <2>1. PICK ch : ch = queues[f]["CREATE"][i].chan
        OBVIOUS
    <2>2. /\ Unread(ch) /\ ~InStatus(ch) /\ ~InIrq(ch)
          /\ \A g \in Files : \A j \in 1..Len(queues[g]["CREATE"]) :
                queues[g]["CREATE"][j].chan = ch => g = f /\ j = i
        BY <2>1 DEF ClaimsOK, QueueClaims
    <2>3. ch \in Chans
        BY <2>2, IdTypes DEF Unread
    <2>4. Unread(ch)' /\ ~InStatus(ch)' /\ ~InIrq(ch)'
        BY <1>1, <1>2, <1>3, <2>2, <2>3
    <2> QED
        BY <2>1, <2>2, <2>4
<1> QED
    BY <1>4, <1>5, <1>6 DEF ClaimsOK

\* Unread depends on neither the status box nor the queues.
LEMMA SameUnread ==
    ASSUME UNCHANGED <<alive, chan_uid, cmd, frames, pushed>>, NEW ch
    PROVE  Unread(ch)' <=> Unread(ch)
    BY DEF Unread, Held, InCmd

\* The interrupt thread takes the first mail.
LEMMA ClaimsRead ==
    ASSUME UsersInv, ClaimsOK, irq = NoIrq, status # <<>>, status' = Tail(status),
           irq'.mail = Head(status), UNCHANGED <<alive, chan_uid, cmd, frames, pushed, queues>>
    PROVE  ClaimsOK'
<1>1. /\ status \in Seq(Answers) /\ 1 \in 1..Len(status) /\ Head(status) = status[1]
      /\ \A i \in 1..Len(status') : i + 1 \in 1..Len(status) /\ status'[i] = status[i+1]
                                    /\ i + 1 # 1
    BY IdTypes, Shrunk
<1>2. \A ch : InStatus(ch)' \/ InIrq(ch)' => InStatus(ch)
    BY <1>1 DEF InStatus, InIrq
<1>3. \A ch : (InCreate(ch)' <=> InCreate(ch)) /\ (Unread(ch)' <=> Unread(ch))
    BY SameUnread DEF InCreate
<1>4. StatusClaims'
    <2> SUFFICES ASSUME NEW i \in 1..Len(status'), status'[i].uid = "CREATE_CHANNEL",
                        status'[i].chan # BAD_CHAN
                 PROVE  /\ Unread(status[i].chan)' /\ ~InIrq(status[i].chan)'
                        /\ ~InCreate(status[i].chan)'
                        /\ \A j \in 1..Len(status') :
                              NamesChannel(status'[j], status'[i].chan) => j = i
        BY DEF StatusClaims
    <2>1. PICK ch : ch = status[i+1].chan /\ ch = status'[i].chan
        BY <1>1
    <2>2. /\ Unread(ch) /\ ~InCreate(ch)
          /\ \A j \in 1..Len(status) : NamesChannel(status[j], ch) => j = i + 1
        BY <1>1, <2>1 DEF ClaimsOK, StatusClaims
    <2>3. ~InIrq(ch)'
        BY <1>1, <2>2 DEF InIrq
    <2>4. \A j \in 1..Len(status') : NamesChannel(status'[j], ch) => j = i
        <3> SUFFICES ASSUME NEW j \in 1..Len(status'), NamesChannel(status'[j], ch) PROVE j = i
            OBVIOUS
        <3>1. j + 1 = i + 1
            BY <1>1, <2>2
        <3> QED
            BY <3>1
    <2> QED
        BY <1>3, <2>1, <2>2, <2>3, <2>4
<1>5. IrqClaim'
    <2> SUFFICES ASSUME irq'.mail.uid = "CREATE_CHANNEL", irq'.mail.chan # BAD_CHAN
                 PROVE  /\ Unread(irq.mail.chan)' /\ ~InStatus(irq.mail.chan)'
                        /\ ~InCreate(irq.mail.chan)'
        BY DEF IrqClaim
    <2>1. PICK ch : ch = status[1].chan /\ ch = irq'.mail.chan
        BY <1>1
    <2>2. /\ Unread(ch) /\ ~InCreate(ch)
          /\ \A j \in 1..Len(status) : NamesChannel(status[j], ch) => j = 1
        BY <1>1, <2>1 DEF ClaimsOK, StatusClaims
    <2>3. ~InStatus(ch)'
        BY <1>1, <2>2 DEF InStatus
    <2> QED
        BY <1>3, <2>1, <2>2, <2>3
<1>6. QueueClaims'
    <2> SUFFICES ASSUME NEW f \in Files, NEW i \in 1..Len(queues'[f]["CREATE"]),
                        queues'[f]["CREATE"][i].chan # BAD_CHAN
                 PROVE  /\ Unread(queues[f]["CREATE"][i].chan)'
                        /\ ~InStatus(queues[f]["CREATE"][i].chan)'
                        /\ ~InIrq(queues[f]["CREATE"][i].chan)'
                        /\ \A g \in Files : \A j \in 1..Len(queues'[g]["CREATE"]) :
                              queues'[g]["CREATE"][j].chan = queues'[f]["CREATE"][i].chan
                              => g = f /\ j = i
        BY DEF QueueClaims
    <2>1. PICK ch : ch = queues[f]["CREATE"][i].chan /\ ch = queues'[f]["CREATE"][i].chan
        OBVIOUS
    <2>2. /\ Unread(ch) /\ ~InStatus(ch)
          /\ \A g \in Files : \A j \in 1..Len(queues[g]["CREATE"]) :
                queues[g]["CREATE"][j].chan = ch => g = f /\ j = i
        BY <2>1 DEF ClaimsOK, QueueClaims
    <2> QED
        BY <1>2, <1>3, <2>1, <2>2
<1> QED
    BY <1>4, <1>5, <1>6 DEF ClaimsOK

\* The answer to a create goes into the queue of a file.
LEMMA ClaimsDeliver ==
    ASSUME UsersInv, ClaimsOK, irq # NoIrq, irq.mail.uid = "CREATE_CHANNEL", irq' = NoIrq,
           NEW f \in Files, queues'[f]["CREATE"] = Append(queues[f]["CREATE"], irq.mail),
           \A g \in Files : g # f => queues'[g]["CREATE"] = queues[g]["CREATE"],
           UNCHANGED <<alive, chan_uid, cmd, frames, pushed, status>>
    PROVE  ClaimsOK'
<1>0. PICK m : m = irq.mail
    OBVIOUS
<1>1. queues[f]["CREATE"] \in Seq(Answers) /\ m \in Answers /\ m.uid = "CREATE_CHANNEL"
    BY <1>0, QueueTypes, IdTypes
<1>2. \A ch : (InStatus(ch)' <=> InStatus(ch)) /\ ~InIrq(ch)' /\ (Unread(ch)' <=> Unread(ch))
    BY SameUnread DEF InStatus, InIrq
<1>10. \A i \in 1..Len(queues'[f]["CREATE"]) :
         \/ /\ i \in 1..Len(queues[f]["CREATE"])
            /\ queues'[f]["CREATE"][i] = queues[f]["CREATE"][i]
         \/ i = Len(queues[f]["CREATE"]) + 1 /\ queues'[f]["CREATE"][i] = m
    BY <1>0, <1>1, Grown
<1>11. \A g \in Files : \A i \in 1..Len(queues'[g]["CREATE"]) :
         \/ /\ i \in 1..Len(queues[g]["CREATE"])
            /\ queues'[g]["CREATE"][i] = queues[g]["CREATE"][i]
         \/ /\ g = f /\ i = Len(queues[f]["CREATE"]) + 1
            /\ queues'[g]["CREATE"][i] = m
    BY <1>10
<1>3. \A ch : InCreate(ch)' => InCreate(ch) \/ ch = m.chan
    BY <1>11 DEF InCreate
<1>4. StatusClaims'
    <2> SUFFICES ASSUME NEW i \in 1..Len(status), status[i].uid = "CREATE_CHANNEL",
                        status[i].chan # BAD_CHAN
                 PROVE  /\ Unread(status[i].chan)' /\ ~InIrq(status[i].chan)'
                        /\ ~InCreate(status[i].chan)'
                        /\ \A j \in 1..Len(status) :
                              NamesChannel(status[j], status[i].chan) => j = i
        BY DEF StatusClaims
    <2>1. /\ Unread(status[i].chan) /\ ~InIrq(status[i].chan) /\ ~InCreate(status[i].chan)
          /\ \A j \in 1..Len(status) : NamesChannel(status[j], status[i].chan) => j = i
        BY DEF ClaimsOK, StatusClaims
    <2>2. status[i].chan # m.chan
        BY <1>0, <1>1, <2>1, AnswerNames DEF InIrq
    <2> QED
        BY <1>2, <1>3, <2>1, <2>2
<1>5. IrqClaim'
    BY DEF IrqClaim
<1>6. QueueClaims'
    <2>1. m.chan # BAD_CHAN => Unread(m.chan) /\ ~InStatus(m.chan) /\ ~InCreate(m.chan)
        BY <1>0, <1>1 DEF ClaimsOK, IrqClaim
    <2>2. ASSUME NEW g \in Files, NEW i \in 1..Len(queues[g]["CREATE"]),
                 queues[g]["CREATE"][i].chan # BAD_CHAN
          PROVE  /\ Unread(queues[g]["CREATE"][i].chan) /\ ~InStatus(queues[g]["CREATE"][i].chan)
                 /\ queues[g]["CREATE"][i].chan # m.chan
                 /\ \A h \in Files : \A j \in 1..Len(queues[h]["CREATE"]) :
                        queues[h]["CREATE"][j].chan = queues[g]["CREATE"][i].chan
                        => h = g /\ j = i
        BY <1>1, <2>1, <2>2 DEF ClaimsOK, QueueClaims, InCreate
    <2> SUFFICES ASSUME NEW g \in Files, NEW i \in 1..Len(queues'[g]["CREATE"]),
                        queues'[g]["CREATE"][i].chan # BAD_CHAN
                 PROVE  /\ Unread(queues[g]["CREATE"][i].chan)'
                        /\ ~InStatus(queues[g]["CREATE"][i].chan)'
                        /\ ~InIrq(queues[g]["CREATE"][i].chan)'
                        /\ \A h \in Files : \A j \in 1..Len(queues'[h]["CREATE"]) :
                              queues'[h]["CREATE"][j].chan = queues'[g]["CREATE"][i].chan
                              => h = g /\ j = i
        BY DEF QueueClaims
    <2>4. PICK ch : ch = queues'[g]["CREATE"][i].chan
        OBVIOUS
    <2>5. Unread(ch) /\ ~InStatus(ch)
        BY <1>11, <2>1, <2>2, <2>4
    <2>6. ASSUME NEW h \in Files, NEW j \in 1..Len(queues'[h]["CREATE"]),
                 queues'[h]["CREATE"][j].chan = ch
          PROVE  h = g /\ j = i
        <3>1. CASE i \in 1..Len(queues[g]["CREATE"])
                   /\ queues'[g]["CREATE"][i] = queues[g]["CREATE"][i]
            <4>1. /\ ch # m.chan
                  /\ \A k \in Files : \A l \in 1..Len(queues[k]["CREATE"]) :
                        queues[k]["CREATE"][l].chan = ch => k = g /\ l = i
                BY <2>2, <2>4, <3>1
            <4> QED
                BY <1>11, <2>6, <4>1
        <3>2. CASE g = f /\ i = Len(queues[f]["CREATE"]) + 1 /\ queues'[g]["CREATE"][i] = m
            <4>1. ch = m.chan /\ ~InCreate(ch)
                BY <2>1, <2>4, <3>2
            <4> QED
                BY <1>11, <2>6, <3>2, <4>1 DEF InCreate
        <3> QED
            BY <1>11, <3>1, <3>2
    <2> QED
        BY <1>2, <2>4, <2>5, <2>6
<1> QED
    BY <1>4, <1>5, <1>6 DEF ClaimsOK

\* The file reads the answer; the channel is its own from now on.
LEMMA ClaimsTaken ==
    ASSUME UsersInv, ClaimsOK, NEW f \in Files, queues[f]["CREATE"] # <<>>,
           queues'[f]["CREATE"] = Tail(queues[f]["CREATE"]),
           \A g \in Files : g # f => queues'[g]["CREATE"] = queues[g]["CREATE"],
           NEW new, new = Head(queues[f]["CREATE"]).chan,
           \A g \in Files : chan_uid'[g] = chan_uid[g] \/ chan_uid'[g] = new,
           UNCHANGED <<alive, cmd, frames, pushed, status, irq>>
    PROVE  ClaimsOK'
<1>1. /\ queues[f]["CREATE"] \in Seq(Answers) /\ 1 \in 1..Len(queues[f]["CREATE"])
      /\ new = queues[f]["CREATE"][1].chan /\ new \in ChanIds
    BY QueueTypes, Shrunk
<1>10. \A i \in 1..Len(queues'[f]["CREATE"]) :
          /\ i + 1 \in 1..Len(queues[f]["CREATE"]) /\ i + 1 # 1
          /\ queues'[f]["CREATE"][i] = queues[f]["CREATE"][i+1]
    BY <1>1, Shrunk
<1>2. \A g \in Files : \A i \in 1..Len(queues'[g]["CREATE"]) :
          \E k \in 1..Len(queues[g]["CREATE"]) :
             /\ queues'[g]["CREATE"][i] = queues[g]["CREATE"][k]
             /\ (g = f /\ k = i + 1 /\ k # 1) \/ (g # f /\ k = i)
    BY <1>10
<1>3. \A ch : InCreate(ch)' => InCreate(ch)
    BY <1>2 DEF InCreate
<1>4. \A ch : (InStatus(ch)' <=> InStatus(ch)) /\ (InIrq(ch)' <=> InIrq(ch))
    BY DEF InStatus, InIrq
<1>5. \A ch : Unread(ch) /\ ch # new => Unread(ch)'
    BY DEF Unread, Held, InCmd
<1>6. InCreate(new)
    BY <1>1 DEF InCreate
<1>7. StatusClaims'
    <2> SUFFICES ASSUME NEW i \in 1..Len(status), status[i].uid = "CREATE_CHANNEL",
                        status[i].chan # BAD_CHAN
                 PROVE  /\ Unread(status[i].chan)' /\ ~InIrq(status[i].chan)'
                        /\ ~InCreate(status[i].chan)'
                        /\ \A j \in 1..Len(status) :
                              NamesChannel(status[j], status[i].chan) => j = i
        BY DEF StatusClaims
    <2>1. /\ Unread(status[i].chan) /\ ~InIrq(status[i].chan) /\ ~InCreate(status[i].chan)
          /\ \A j \in 1..Len(status) : NamesChannel(status[j], status[i].chan) => j = i
        BY DEF ClaimsOK, StatusClaims
    <2> QED
        BY <1>3, <1>4, <1>5, <1>6, <2>1
<1>8. IrqClaim'
    <2> SUFFICES ASSUME irq # NoIrq, irq.mail.uid = "CREATE_CHANNEL", irq.mail.chan # BAD_CHAN
                 PROVE  /\ Unread(irq.mail.chan)' /\ ~InStatus(irq.mail.chan)'
                        /\ ~InCreate(irq.mail.chan)'
        BY DEF IrqClaim
    <2>1. Unread(irq.mail.chan) /\ ~InStatus(irq.mail.chan) /\ ~InCreate(irq.mail.chan)
        BY DEF ClaimsOK, IrqClaim
    <2> QED
        BY <1>3, <1>4, <1>5, <1>6, <2>1
<1>9. QueueClaims'
    <2> SUFFICES ASSUME NEW g \in Files, NEW i \in 1..Len(queues'[g]["CREATE"]),
                        queues'[g]["CREATE"][i].chan # BAD_CHAN
                 PROVE  /\ Unread(queues[g]["CREATE"][i].chan)'
                        /\ ~InStatus(queues[g]["CREATE"][i].chan)'
                        /\ ~InIrq(queues[g]["CREATE"][i].chan)'
                        /\ \A h \in Files : \A j \in 1..Len(queues'[h]["CREATE"]) :
                              queues'[h]["CREATE"][j].chan = queues'[g]["CREATE"][i].chan
                              => h = g /\ j = i
        BY DEF QueueClaims
    <2>1. PICK k \in 1..Len(queues[g]["CREATE"]) :
             /\ queues'[g]["CREATE"][i] = queues[g]["CREATE"][k]
             /\ (g = f /\ k = i + 1 /\ k # 1) \/ (g # f /\ k = i)
        BY <1>2
    <2>2. PICK ch : ch = queues'[g]["CREATE"][i].chan /\ ch = queues[g]["CREATE"][k].chan
        BY <2>1
    <2>3. /\ Unread(ch) /\ ~InStatus(ch) /\ ~InIrq(ch)
          /\ \A h \in Files : \A j \in 1..Len(queues[h]["CREATE"]) :
                queues[h]["CREATE"][j].chan = ch => h = g /\ j = k
        BY <2>2 DEF ClaimsOK, QueueClaims
    <2>4. ch # new
        BY <1>1, <2>1, <2>3
    <2>5. ASSUME NEW h \in Files, NEW j \in 1..Len(queues'[h]["CREATE"]),
                 queues'[h]["CREATE"][j].chan = ch
          PROVE  h = g /\ j = i
        <3>1. PICK l \in 1..Len(queues[h]["CREATE"]) :
                 /\ queues'[h]["CREATE"][j] = queues[h]["CREATE"][l]
                 /\ (h = f /\ l = j + 1 /\ l # 1) \/ (h # f /\ l = j)
            BY <1>2
        <3>2. h = g /\ l = k
            BY <2>3, <2>5, <3>1
        <3> QED
            BY <2>1, <3>1, <3>2
    <2> QED
        BY <1>4, <1>5, <2>2, <2>3, <2>4, <2>5
<1> QED
    BY <1>7, <1>8, <1>9 DEF ClaimsOK

-----------------------------------------------------------------------------
\* Steps that touch no id: a thread goes on, at most a close begins.

Onward ==
    /\ \A f \in Files : Closing(f) => Closing(f)'
    /\ signals' = 0 => signals = 0 /\ \A t \in Threads : pc[t] = "destroy_wait" => pc'[t] = pc[t]

Passive ==
    /\ UNCHANGED <<chan_uid, cmd, status, irq, queues, alive, pushed, frames>>
    /\ Onward

LEMMA PassiveLinks == UsersInv /\ IdsInv /\ Passive => LinksOK'
<1> SUFFICES ASSUME UsersInv, IdsInv, Passive PROVE LinksOK'
    OBVIOUS
<1> USE DEF Passive
<1>1. FilesOK'
    BY DEF IdsInv, LinksOK, FilesOK
<1>2. ClaimsOK'
    <2>1. KeepsUnread
        BY SameUnread DEF KeepsUnread
    <2> QED
        BY <2>1, ClaimsQuiet DEF IdsInv, LinksOK, KeepsCreates
<1>3. IrqUserOK'
    BY IdTypes DEF IdsInv, LinksOK, IrqUserOK, Onward, Held
<1>4. DestroysOK'
    <2>1. \A ch : (InStatus(ch)' <=> InStatus(ch)) /\ (InIrq(ch)' <=> InIrq(ch))
        BY DEF InStatus, InIrq
    <2> QED
        BY <2>1 DEF IdsInv, LinksOK, DestroysOK, Onward
<1>5. OrphansOK'
    BY DEF IdsInv, LinksOK, OrphansOK, Held
<1>6. HoldersOK'
    BY DEF IdsInv, LinksOK, HoldersOK, Onward
<1>7. FramesReachChannel'
    BY DEF IdsInv, LinksOK, FramesReachChannel, Onward
<1> QED
    BY <1>1, <1>2, <1>3, <1>4, <1>5, <1>6, <1>7 DEF LinksOK

LEMMA PassiveKeeps == UsersInv /\ IdsInv /\ Passive /\ UNCHANGED <<uid, slot, creator>> => IdsInv'
<1> SUFFICES ASSUME UsersInv, IdsInv, Passive, UNCHANGED <<uid, slot, creator>> PROVE IdsInv'
    OBVIOUS
<1>1. BindOK' /\ FirmwareOK'
    BY DEF Passive, IdsInv, BindOK, FirmwareOK
<1> QED
    BY <1>1, PassiveLinks DEF IdsInv

-----------------------------------------------------------------------------
\* Sends on the channel of a file, or without a channel.

FrameMsgs == {"ENCODE_ONE_FRM", "DECODE_ONE_FRM", "DECODE_ONE_SLICE"}

Sends(f, m) ==
    /\ cmd' = Append(cmd, m)
    /\ \A ch : NamesChannel(m, ch) => ch \in {chan_uid[f], BAD_CHAN}
    /\ "orphan" \notin DOMAIN m
    /\ \A ch \in Chans : signals = 0 /\ Destroys(m, ch) =>
          \E t \in Threads : FileOf[t] = f /\ pc'[t] = "destroy_wait"
    /\ m.uid \in FrameMsgs =>
          /\ chan_uid[f] # BAD_CHAN /\ m.chan = chan_uid[f]
          /\ \A t \in Threads : FileOf[t] = f => pc[t] # "destroy_wait"
    /\ UNCHANGED <<uid, slot, chan_uid, status, irq, queues, alive, pushed, frames, creator>>
    /\ Onward

LEMMA SendKeeps ==
    ASSUME UsersInv, IdsInv, NEW f \in Files, NEW m \in Commands, Sends(f, m)
    PROVE  IdsInv'
<1>0. /\ cmd \in Seq(Commands) /\ cmd' = Append(cmd, m) /\ Len(cmd) \in Nat
      /\ \A i \in 1..Len(cmd') :
            (i \in 1..Len(cmd) /\ cmd'[i] = cmd[i]) \/ (i = Len(cmd) + 1 /\ cmd'[i] = m)
      /\ \A i \in 1..Len(cmd) : cmd[i] \in Commands
    BY IdTypes, Grown DEF Sends
<1>8. UNCHANGED <<uid, slot, chan_uid, status, irq, queues, alive, pushed, frames, creator>>
    BY DEF Sends
<1>1. BindOK' /\ FirmwareOK' /\ FilesOK'
    BY <1>8 DEF IdsInv, LinksOK, BindOK, FirmwareOK, FilesOK
<1>2. ClaimsOK'
    <2>1. \A ch : InCmd(ch)' => InCmd(ch) \/ NamesChannel(m, ch)
        BY <1>0 DEF InCmd
    <2>2. \A ch \in Chans : Unread(ch) => Unread(ch)'
        BY <1>8, <2>1, McuAssumption DEF Unread, Held, Sends
    <2> QED
        BY <1>8, <2>2, ClaimsQuiet DEF IdsInv, LinksOK, KeepsCreates, KeepsUnread
<1>3. IrqUserOK'
    BY <1>8, IdTypes DEF IdsInv, LinksOK, IrqUserOK, Onward, Held, Sends
<1>4. DestroysOK'
    <2>1. \A ch : (InStatus(ch)' <=> InStatus(ch)) /\ (InIrq(ch)' <=> InIrq(ch))
        BY <1>8 DEF InStatus, InIrq
    <2>2. \A g \in Files : Closing(g) => Closing(g)'
        BY DEF Sends, Onward
    <2> QED
        BY <1>8, <2>1, <2>2 DEF IdsInv, LinksOK, DestroysOK
<1>5. OrphansOK'
    <2>1. "orphan" \notin DOMAIN m
        BY DEF Sends
    <2> QED
        BY <1>0, <1>8, <2>1 DEF IdsInv, LinksOK, OrphansOK, Held
<1>6. HoldersOK'
    <2> SUFFICES ASSUME signals' = 0, NEW g \in Files, chan_uid[g] # BAD_CHAN
                 PROVE  \/ /\ chan_uid[g] \in alive
                           /\ \A i \in 1..Len(cmd') : ~Destroys(cmd'[i], chan_uid[g])
                        \/ \E t \in Threads : FileOf[t] = g /\ pc'[t] = "destroy_wait"
        BY <1>8 DEF HoldersOK
    <2>1. signals = 0 /\ \A t \in Threads : pc[t] = "destroy_wait" => pc'[t] = pc[t]
        BY DEF Sends, Onward
    <2>2. CASE \E t \in Threads : FileOf[t] = g /\ pc[t] = "destroy_wait"
        BY <2>1, <2>2
    <2>3. CASE chan_uid[g] \in alive /\ \A i \in 1..Len(cmd) : ~Destroys(cmd[i], chan_uid[g])
        <3>1. CASE Destroys(m, chan_uid[g])
            <4>1. chan_uid[g] \in Chans
                BY <2>3, IdTypes
            <4>2. \E t \in Threads : FileOf[t] = f /\ pc'[t] = "destroy_wait"
                BY <2>1, <3>1, <4>1 DEF Sends
            <4>3. NamesChannel(m, chan_uid[g])
                BY <3>1, CommandNames DEF Destroys, ChannelCommands
            <4>4. g = f
                BY <4>1, <4>3, McuAssumption DEF Sends, IdsInv, LinksOK, FilesOK
            <4> QED
                BY <4>2, <4>4
        <3>2. CASE ~Destroys(m, chan_uid[g])
            BY <1>0, <2>3, <3>2
        <3> QED
            BY <3>1, <3>2
    <2> QED
        BY <2>1, <2>2, <2>3 DEF IdsInv, LinksOK, HoldersOK
<1>7. FramesReachChannel'
    <2> SUFFICES ASSUME signals' = 0, NEW i \in 1..Len(cmd'), cmd'[i].uid \in FrameMsgs
                 PROVE  /\ cmd'[i].chan \in alive
                        /\ \A j \in 1..i-1 : ~Destroys(cmd'[j], cmd'[i].chan)
        BY <1>8 DEF FramesReachChannel, FrameMsgs, Destroys
    <2>1. signals = 0
        BY DEF Sends, Onward
    <2>2. CASE i \in 1..Len(cmd) /\ cmd'[i] = cmd[i]
        <3>1. cmd[i].chan \in alive /\ \A j \in 1..i-1 : ~Destroys(cmd[j], cmd[i].chan)
            BY <2>1, <2>2 DEF IdsInv, LinksOK, FramesReachChannel, FrameMsgs, Destroys
        <3>2. \A j \in 1..i-1 : j \in 1..Len(cmd') /\ j # Len(cmd) + 1
            BY <1>0, <2>2
        <3> QED
            BY <1>0, <2>2, <3>1, <3>2
    <2>3. CASE i = Len(cmd) + 1 /\ cmd'[i] = m
        <3>1. /\ chan_uid[f] # BAD_CHAN /\ m.chan = chan_uid[f]
              /\ \A t \in Threads : FileOf[t] = f => pc[t] # "destroy_wait"
            BY <2>3 DEF Sends
        <3>2. m.chan \in alive /\ \A j \in 1..Len(cmd) : ~Destroys(cmd[j], m.chan)
            BY <2>1, <3>1 DEF IdsInv, LinksOK, HoldersOK
        <3>3. \A j \in 1..i-1 : j \in 1..Len(cmd) /\ j \in 1..Len(cmd') /\ j # Len(cmd) + 1
            BY <1>0, <2>3
        <3> QED
            BY <1>0, <2>3, <3>2, <3>3
    <2> QED
        BY <1>0, <2>2, <2>3
<1> QED
    BY <1>1, <1>2, <1>3, <1>4, <1>5, <1>6, <1>7 DEF IdsInv, LinksOK

-----------------------------------------------------------------------------
\* The steps of the shared calls that touch no id.

PassiveCall(t) ==
    \/ DestroyEnter(t) \/ DestroyQueues(t) \/ DestroyMutex(t) \/ DestroyKilled(t)
    \/ DestroyRefused(t) \/ DestroyInterrupted(t) \/ DestroyUnlock(t) \/ DestroyRelock(t)
    \/ ReleaseEnter(t) \/ ReleaseTry(t) \/ CreateWoken(t) \/ CreateGivesUp(t)
    \/ \E op \in WaitOps : WaitCall(t, op) \/ WaitInterrupted(t, op)

LEMMA PassiveCalls ==
    ASSUME UsersInv, NEW t \in Threads, PassiveCall(t)
    PROVE  Passive /\ UNCHANGED <<uid, slot, creator>>
<1> DEFINE Goal == Passive /\ UNCHANGED <<uid, slot, creator>>
<1>0. ThreadTypes
    BY DEF UsersInv
<1> USE <1>0, UsersAssumption DEF ThreadTypes, Passive, Onward, Closing, groupVars, chanVars,
       queueVars, poolVars, threadVars, mcuVars
<1>1. CASE DestroyEnter(t)
    BY <1>1 DEF DestroyEnter, MayCall, Goto
<1>2. CASE DestroyQueues(t)
    BY <1>2 DEF DestroyQueues, user_queues_unlock, Goto
<1>3. CASE DestroyMutex(t)
    BY <1>3 DEF DestroyMutex, Lock, Goto
<1>4. CASE DestroyKilled(t)
    BY <1>4 DEF DestroyKilled, UnlockAll, Goto
<1>5. CASE DestroyRefused(t)
    BY <1>5 DEF DestroyRefused, Goto
<1>6. CASE DestroyInterrupted(t)
    BY <1>6 DEF DestroyInterrupted, Goto, Signal
<1>7. CASE DestroyUnlock(t)
    BY <1>7 DEF DestroyUnlock, UnlockAll, Goto
<1>8. CASE DestroyRelock(t)
    BY <1>8 DEF DestroyRelock, user_queues_lock, Goto
<1>9. CASE ReleaseEnter(t)
    BY <1>9 DEF ReleaseEnter, Goto
<1>10. CASE ReleaseTry(t)
    BY <1>10 DEF ReleaseTry, Goto
<1>11. CASE CreateWoken(t)
    BY <1>11 DEF CreateWoken, CreateReturn, Unlock, Goto
<1>12. CASE CreateGivesUp(t)
    BY <1>12 DEF CreateGivesUp, CreateReturn, Unlock, Goto, Signal
<1>13. ASSUME NEW op \in WaitOps, WaitCall(t, op) PROVE Goal
    BY <1>13 DEF WaitCall, WaitEnter, Waiting, WaitOps, Lock, Goto
<1>14. ASSUME NEW op \in WaitOps, WaitInterrupted(t, op) PROVE Goal
    BY <1>14 DEF WaitInterrupted, Waiting, WaitOps, Unlock, Goto, Signal
<1> QED
    BY <1>1, <1>2, <1>3, <1>4, <1>5, <1>6, <1>7, <1>8, <1>9, <1>10, <1>11, <1>12, <1>13, <1>14
       DEF PassiveCall
-----------------------------------------------------------------------------
\* Steps of a firmware that hands out fresh ids.

Fresh == \A ch \in alive' \ alive : ~IdInUse(ch)

\* What all of them have in common.
Handles == cmd # <<>> /\ cmd' = Tail(cmd)

Says(m) ==
    /\ status' = Append(status, m)
    /\ \A ch : NamesChannel(m, ch) => ch \in alive \cup alive' \cup {BAD_CHAN}
    /\ m.uid = "DESTROY_CHANNEL" => m.chan \notin alive'

Moves ==
    /\ cmd' = cmd \/ Handles
    /\ \A ch \in alive \ alive' : Handles /\ Destroys(Head(cmd), ch)
    /\ Fresh
    /\ status' = status \/ \E m \in Answers : Says(m)
    /\ UNCHANGED userVars

\* Commands only leave the box, and only at its front.
LEMMA CmdTaken ==
    ASSUME UsersInv, cmd' = cmd \/ Handles
    PROVE  \A i \in 1..Len(cmd') : \E k \in 1..Len(cmd) :
              /\ cmd'[i] = cmd[k] /\ k >= i
              /\ Handles => k = i + 1
              /\ \A j \in 1..i-1 : \E l \in 1..k-1 : cmd'[j] = cmd[l]
              /\ Handles => 1 \in 1..k-1
<1>1. cmd \in Seq(Commands)
    BY IdTypes
<1>2. CASE Handles
    <2>1. /\ Len(cmd) \in Nat \ {0} /\ Len(cmd') = Len(cmd) - 1
          /\ \A i \in 1..Len(cmd') : i + 1 \in 1..Len(cmd) /\ cmd'[i] = cmd[i+1]
        BY <1>1, <1>2, Shrunk DEF Handles
    <2>2. ASSUME NEW i \in 1..Len(cmd')
          PROVE  /\ i + 1 \in 1..Len(cmd) /\ cmd'[i] = cmd[i+1] /\ i + 1 >= i
                 /\ \A j \in 1..i-1 : \E l \in 1..(i+1)-1 : cmd'[j] = cmd[l]
                 /\ 1 \in 1..(i+1)-1
        <3>1. ASSUME NEW j \in 1..i-1 PROVE j \in 1..Len(cmd') /\ j + 1 \in 1..(i+1)-1
            BY <2>1
        <3> QED
            BY <2>1, <3>1
    <2> QED
        BY <2>2
<1>3. CASE ~Handles
    <2>1. cmd' = cmd /\ Len(cmd) \in Nat
        BY <1>1, <1>3
    <2>2. ASSUME NEW i \in 1..Len(cmd)
          PROVE  /\ cmd'[i] = cmd[i] /\ i >= i
                 /\ \A j \in 1..i-1 : \E l \in 1..i-1 : cmd'[j] = cmd[l]
        BY <2>1
    <2> QED
        BY <1>3, <2>1, <2>2
<1> QED
    BY <1>2, <1>3

\* A channel that dies has its destroy at the front of the box.
LEMMA CmdFirst ==
    ASSUME UsersInv, Handles PROVE 1 \in 1..Len(cmd) /\ Head(cmd) = cmd[1] /\ cmd[1] \in Commands
<1>1. cmd \in Seq(Commands)
    BY IdTypes
<1> QED
    BY <1>1, Shrunk DEF Handles

LEMMA MovesDestroys ==
    ASSUME UsersInv, IdsInv, Moves PROVE DestroysOK'
<1>1. UNCHANGED <<queues, chan_uid, irq, after>>
    BY DEF Moves, userVars, groupVars, chanVars, queueVars, threadVars
<1>2. \A g \in Files : Closing(g)' <=> Closing(g)
    BY <1>1 DEF Closing
<1>3. \A ch : InIrq(ch)' <=> InIrq(ch)
    BY <1>1 DEF InIrq
<1>4. \A ch : ch \notin alive /\ (Held(ch) \/ InStatus(ch) \/ InIrq(ch)) => ch \notin alive'
    BY DEF Moves, Fresh, IdInUse, Held, InStatus, InIrq
<1>5. ASSUME NEW ch \in Chans, ch \notin alive, Held(ch) \/ InStatus(ch) \/ InIrq(ch), ~InStatus(ch)
      PROVE  ~InStatus(ch)'
    <2>1. CASE status' = status
        BY <1>5, <2>1 DEF InStatus
    <2>2. ASSUME NEW m \in Answers, Says(m) PROVE ~InStatus(ch)'
        <3>1. ~NamesChannel(m, ch)
            BY <1>4, <1>5, <2>2, McuAssumption DEF Says
        <3> QED
            BY <1>5, <2>2, <3>1, StatusGrown DEF Says
    <2> QED
        BY <2>1, <2>2 DEF Moves
<1>6. ASSUME NEW i \in 1..Len(status'), status'[i].uid = "DESTROY_CHANNEL"
      PROVE  /\ status'[i].chan \notin alive'
             /\ \A j \in 1..Len(status') : NamesChannel(status'[j], status'[i].chan) => j <= i
    <2>0. ASSUME NEW k \in 1..Len(status), status[k].uid = "DESTROY_CHANNEL"
          PROVE  /\ status[k].chan \in Chans /\ status[k].chan \notin alive
                 /\ status[k].chan \notin alive'
                 /\ \A j \in 1..Len(status) : NamesChannel(status[j], status[k].chan) => j <= k
        <3>1. /\ status[k].chan \notin alive
              /\ \A j \in 1..Len(status) : NamesChannel(status[j], status[k].chan) => j <= k
            BY <2>0 DEF IdsInv, LinksOK, DestroysOK
        <3>2. status[k] \in Answers
            BY IdTypes
        <3>3. status[k].chan \in Chans /\ NamesChannel(status[k], status[k].chan)
            BY <2>0, <3>2, FeedbackNames
        <3>4. InStatus(status[k].chan)
            BY <3>3 DEF InStatus
        <3> QED
            BY <1>4, <3>1, <3>3, <3>4
    <2>1. CASE status' = status
        BY <1>6, <2>0, <2>1
    <2>2. ASSUME NEW m \in Answers, Says(m)
          PROVE  /\ status'[i].chan \notin alive'
                 /\ \A j \in 1..Len(status') : NamesChannel(status'[j], status'[i].chan) => j <= i
        <3>1. /\ \A j \in 1..Len(status') : (j \in 1..Len(status) /\ status'[j] = status[j])
                                            \/ (j = Len(status) + 1 /\ status'[j] = m)
              /\ Len(status) \in Nat
            BY <2>2, StatusAppended DEF Says
        <3>2. CASE i = Len(status) + 1 /\ status'[i] = m
            <4>1. status'[i].chan \notin alive'
                BY <1>6, <2>2, <3>2 DEF Says
            <4>2. \A j \in 1..Len(status') : j <= i
                BY <3>1, <3>2
            <4> QED
                BY <4>1, <4>2
        <3>3. CASE i \in 1..Len(status) /\ status'[i] = status[i]
            <4>1. PICK ch : ch = status[i].chan /\ ch = status'[i].chan
                BY <3>3
            <4>2. /\ ch \in Chans /\ ch \notin alive /\ ch \notin alive'
                  /\ \A j \in 1..Len(status) : NamesChannel(status[j], ch) => j <= i
                BY <1>6, <2>0, <3>3, <4>1
            <4>3. ~NamesChannel(m, ch)
                BY <2>2, <4>2, McuAssumption DEF Says
            <4>4. \A j \in 1..Len(status') : NamesChannel(status'[j], ch) => j <= i
                BY <3>1, <4>2, <4>3
            <4> QED
                BY <4>1, <4>2, <4>4
        <3> QED
            BY <3>1, <3>2, <3>3
    <2> QED
        BY <2>1, <2>2 DEF Moves
<1>7. irq # NoIrq /\ irq.mail.uid = "DESTROY_CHANNEL" =>
          irq.mail.chan \notin alive' /\ ~InStatus(irq.mail.chan)'
    <2> SUFFICES ASSUME irq # NoIrq, irq.mail.uid = "DESTROY_CHANNEL"
                 PROVE  irq.mail.chan \notin alive' /\ ~InStatus(irq.mail.chan)'
        OBVIOUS
    <2>1. PICK ch : ch = irq.mail.chan /\ ch = irq'.mail.chan
        BY <1>1
    <2>2. ch \in Chans /\ InIrq(ch)
        BY <2>1, IdTypes, FeedbackNames DEF InIrq
    <2>3. ch \notin alive /\ ~InStatus(ch)
        BY <2>1 DEF IdsInv, LinksOK, DestroysOK
    <2> QED
        BY <1>4, <1>5, <2>1, <2>2, <2>3
<1>8. ASSUME NEW f \in Files, ~Closing(f), queues[f]["DESTROY"] # <<>>
      PROVE  /\ queues[f]["DESTROY"][1].chan = chan_uid[f]
             /\ chan_uid[f] \notin alive' /\ ~InStatus(chan_uid[f])' /\ ~InIrq(chan_uid[f])'
    <2>1. PICK ch : ch = chan_uid[f] /\ ch = chan_uid'[f]
        BY <1>1
    <2>2. queues[f]["DESTROY"][1].chan = ch /\ ch \notin alive /\ ~InStatus(ch) /\ ~InIrq(ch)
        BY <1>8, <2>1 DEF IdsInv, LinksOK, DestroysOK
    <2>3. 1 \in 1..Len(queues[f]["DESTROY"])
        BY <1>8, QueueTypes, Shrunk
    <2>4. ch \in Chans /\ Held(ch)
        BY <2>1, <2>2, <2>3, QueueTypes DEF Held
    <2> QED
        BY <1>3, <1>4, <1>5, <2>1, <2>2, <2>4
<1>9. \A f \in Files : ~Closing(f) => Len(queues[f]["DESTROY"]) <= 1
    BY DEF IdsInv, LinksOK, DestroysOK
<1> QED
    BY <1>1, <1>2, <1>6, <1>7, <1>8, <1>9 DEF DestroysOK

LEMMA MovesLinks ==
    ASSUME UsersInv, IdsInv, Moves
    PROVE  BindOK' /\ FilesOK' /\ IrqUserOK' /\ OrphansOK' /\ HoldersOK' /\ FramesReachChannel'
<1>1. UNCHANGED <<uid, slot, queues, chan_uid, irq, after, pc, signals>>
    BY DEF Moves, userVars, groupVars, chanVars, queueVars, threadVars
<1>2. BindOK' /\ FilesOK'
    BY <1>1 DEF IdsInv, LinksOK, BindOK, FilesOK
<1>3. IrqUserOK'
    BY <1>1 DEF IdsInv, LinksOK, IrqUserOK, Held, Closing
<1>4. \A i \in 1..Len(cmd') : \E k \in 1..Len(cmd) :
              /\ cmd'[i] = cmd[k] /\ k >= i
              /\ Handles => k = i + 1
              /\ \A j \in 1..i-1 : \E l \in 1..k-1 : cmd'[j] = cmd[l]
              /\ Handles => 1 \in 1..k-1
    BY CmdTaken DEF Moves
<1>5. OrphansOK'
    BY <1>1, <1>4 DEF IdsInv, LinksOK, OrphansOK, Held
<1>6. HoldersOK'
    <2> SUFFICES ASSUME signals = 0, NEW g \in Files, chan_uid[g] # BAD_CHAN,
                        ~ \E t \in Threads : FileOf[t] = g /\ pc[t] = "destroy_wait"
                 PROVE  /\ chan_uid[g] \in alive'
                        /\ \A i \in 1..Len(cmd') : ~Destroys(cmd'[i], chan_uid[g])
        BY <1>1 DEF HoldersOK
    <2>1. chan_uid[g] \in alive /\ \A i \in 1..Len(cmd) : ~Destroys(cmd[i], chan_uid[g])
        BY DEF IdsInv, LinksOK, HoldersOK
    <2>2. Handles => ~Destroys(Head(cmd), chan_uid[g])
        BY <2>1, CmdFirst
    <2>3. chan_uid[g] \in alive'
        BY <2>1, <2>2 DEF Moves
    <2> QED
        BY <1>4, <2>1, <2>3
<1>7. FramesReachChannel'
    <2> SUFFICES ASSUME signals = 0, NEW i \in 1..Len(cmd'), cmd'[i].uid \in FrameMsgs
                 PROVE  /\ cmd'[i].chan \in alive'
                        /\ \A j \in 1..i-1 : ~Destroys(cmd'[j], cmd'[i].chan)
        BY <1>1 DEF FramesReachChannel, FrameMsgs, Destroys
    <2>1. PICK k \in 1..Len(cmd) :
              /\ cmd'[i] = cmd[k]
              /\ \A j \in 1..i-1 : \E l \in 1..k-1 : cmd'[j] = cmd[l]
              /\ Handles => 1 \in 1..k-1
        BY <1>4
    <2>2. cmd[k].chan \in alive /\ \A l \in 1..k-1 : ~Destroys(cmd[l], cmd[k].chan)
        BY <2>1 DEF IdsInv, LinksOK, FramesReachChannel, FrameMsgs, Destroys
    <2>3. Handles => ~Destroys(Head(cmd), cmd[k].chan)
        BY <2>1, <2>2, CmdFirst
    <2>4. cmd[k].chan \in alive'
        BY <2>2, <2>3 DEF Moves
    <2> QED
        BY <2>1, <2>2, <2>4
<1> QED
    BY <1>2, <1>3, <1>5, <1>6, <1>7

\* An unread answer stays unread when the firmware leaves the channel alone.
Leaves == \A ch \in Chans : Unread(ch) => ch \in alive' /\ frames'[ch] = 0 /\ pushed'[ch] = <<>>

LEMMA StaysUnread ==
    ASSUME UsersInv, cmd' = cmd \/ Handles, UNCHANGED chan_uid, Leaves
    PROVE  KeepsUnread
<1>1. \A ch : InCmd(ch)' => InCmd(ch)
    BY CmdTaken DEF InCmd
<1> QED
    BY <1>1 DEF KeepsUnread, Leaves, Unread, Held

\* The firmware works on a command.
LEMMA TakesFirst ==
    ASSUME UsersInv, NEW names, Takes(names)
    PROVE  /\ Handles /\ Head(cmd) \in Commands /\ Head(cmd).uid \in names
           /\ names \subseteq ChannelCommands =>
                 /\ \A ch : NamesChannel(Head(cmd), ch) <=> Head(cmd).chan = ch
                 /\ Head(cmd).chan \in ChanIds
                 /\ ~Unread(Head(cmd).chan)
<1>1. Handles /\ Head(cmd).uid \in names
    BY DEF Takes, Handles
<1>2. 1 \in 1..Len(cmd) /\ Head(cmd) = cmd[1] /\ Head(cmd) \in Commands
    BY <1>1, CmdFirst
<1>3. ASSUME names \subseteq ChannelCommands
      PROVE  /\ \A ch : NamesChannel(Head(cmd), ch) <=> Head(cmd).chan = ch
             /\ Head(cmd).chan \in ChanIds
    BY <1>1, <1>2, <1>3, CommandNames, CommandParts
<1>4. ASSUME names \subseteq ChannelCommands PROVE InCmd(Head(cmd).chan)
    BY <1>2, <1>3, <1>4 DEF InCmd
<1> QED
    BY <1>1, <1>2, <1>3, <1>4 DEF Unread

\* A channel comes to life.
LEMMA CreatesKeeps ==
    ASSUME UsersInv, IdsInv, McuCreates, Fresh, UNCHANGED userVars
    PROVE  Moves /\ FirmwareOK' /\ ClaimsOK'
<1>1. UNCHANGED <<chan_uid, irq, queues, pushed, frames>>
    BY DEF userVars, chanVars, queueVars, McuCreates
<1>2. Handles /\ Head(cmd) \in Commands /\ Head(cmd).uid = "CREATE_CHANNEL"
    BY TakesFirst DEF McuCreates
<1>3. PICK new \in Chans \ alive :
          /\ alive' = alive \cup {new}
          /\ creator' = [creator EXCEPT ![new] = Head(cmd).by]
          /\ status' = Append(status, CreateAnswer(Head(cmd), new))
    BY DEF McuCreates
<1>4. PICK m \in Answers : m = CreateAnswer(Head(cmd), new)
    BY <1>2, AnswerTypes DEF UsersInv, ChanIds
<1>5. /\ m.uid = "CREATE_CHANNEL" /\ m.chan = new /\ status' = Append(status, m)
      /\ \A ch : NamesChannel(m, ch) <=> ch = new
    BY <1>3, <1>4, AnswerNames DEF CreateAnswer
<1>6. ~IdInUse(new)
    BY <1>3 DEF Fresh
<1>7. Moves
    BY <1>2, <1>3, <1>5 DEF Moves, Says
<1>8. FirmwareOK'
    BY <1>1, <1>3 DEF IdsInv, FirmwareOK, UsersInv, McuTypes
<1>9. ~InStatus(new) /\ ~InIrq(new) /\ ~Held(new) /\ ~InCmd(new)
    BY <1>6 DEF IdInUse, InStatus, InIrq, Held, InCmd
<1>10. frames[new] = 0 /\ pushed[new] = <<>>
    BY DEF IdsInv, FirmwareOK
<1>11. Unread(new)'
    <2>1. InCmd(new)' => InCmd(new)
        BY <1>2, CmdTaken DEF InCmd
    <2> QED
        BY <1>1, <1>3, <1>9, <1>10, <2>1 DEF Unread, Held
<1>12. KeepsUnread
    <2>1. Leaves
        BY <1>1, <1>3 DEF Leaves, Unread
    <2> QED
        BY <1>1, <1>2, <2>1, StaysUnread
<1>13. ClaimsOK
    BY DEF IdsInv, LinksOK
<1>14. ClaimsOK'
    BY <1>1, <1>3, <1>5, <1>9, <1>11, <1>12, <1>13, ClaimsCreate
<1> QED
    BY <1>7, <1>8, <1>14

\* A channel dies.
LEMMA DiesKeeps ==
    ASSUME UsersInv, IdsInv, McuDestroys, UNCHANGED userVars
    PROVE  Moves /\ FirmwareOK' /\ ClaimsOK'
<1>1. UNCHANGED <<chan_uid, irq, queues>>
    BY DEF userVars, chanVars, queueVars
<1>2. Takes({"DESTROY_CHANNEL", "QUIET_DESTROY_CHANNEL"})
    BY DEF McuDestroys
<1>3. PICK ch : ch = Head(cmd).chan
    OBVIOUS
<1>4. /\ Handles /\ Head(cmd).uid \in {"DESTROY_CHANNEL", "QUIET_DESTROY_CHANNEL"}
      /\ ch \in alive /\ ch \in Chans /\ ~Unread(ch) /\ Destroys(Head(cmd), ch)
    <2>1. {"DESTROY_CHANNEL", "QUIET_DESTROY_CHANNEL"} \subseteq ChannelCommands
        BY DEF ChannelCommands
    <2>2. ch \in alive /\ ch \in Chans
        BY <1>3, IdTypes DEF McuDestroys
    <2> QED
        BY <1>2, <1>3, <2>1, <2>2, TakesFirst DEF Destroys
<1>5. /\ alive' = alive \ {ch} /\ pushed' = [pushed EXCEPT ![ch] = <<>>]
      /\ frames' = [frames EXCEPT ![ch] = 0] /\ creator' = [creator EXCEPT ![ch] = NoFile]
    BY <1>3 DEF McuDestroys, Forget
<1>6. /\ pushed \in [Chans -> Seq({"PUSH_BUFFER_INTERMEDIATE", "PUSH_BUFFER_REFERENCE"})]
      /\ frames \in [Chans -> Nat] /\ creator \in [Chans -> Files \cup {NoFile}]
    BY DEF UsersInv, McuTypes
<1>7. FirmwareOK'
    BY <1>4, <1>5, <1>6 DEF IdsInv, FirmwareOK
<1>8. KeepsUnread
    <2>1. Leaves
        BY <1>4, <1>5, <1>6 DEF Leaves, Unread
    <2> QED
        BY <1>1, <1>4, <2>1, StaysUnread
<1>9. ClaimsOK
    BY DEF IdsInv, LinksOK
<1>10. Fresh /\ \A c \in alive \ alive' : Handles /\ Destroys(Head(cmd), c)
    BY <1>4, <1>5 DEF Fresh
<1>11. CASE status' = status
    BY <1>1, <1>4, <1>7, <1>8, <1>9, <1>10, <1>11, ClaimsQuiet DEF Moves, KeepsCreates
<1>12. CASE status' # status
    <2>1. PICK m \in Answers : m = Feedback("DESTROY_CHANNEL", ch) /\ status' = Append(status, m)
        BY <1>3, <1>4, <1>12, AnswerTypes DEF McuDestroys, UsersInv
    <2>2. /\ m.uid = "DESTROY_CHANNEL" /\ m.chan = ch
          /\ \A c : NamesChannel(m, c) <=> c = ch
        BY <2>1, AnswerNames DEF Feedback
    <2>3. Says(m)
        BY <1>4, <1>5, <2>1, <2>2 DEF Says
    <2>4. Moves
        BY <1>4, <1>10, <2>3 DEF Moves
    <2>5. ClaimsOK'
        BY <1>1, <1>4, <1>8, <1>9, <2>1, <2>2, ClaimsReport
    <2> QED
        BY <1>7, <2>4, <2>5
<1> QED
    BY <1>11, <1>12

\* The firmware says something about a command, or about a channel that works.
LEMMA SaysKeeps ==
    ASSUME UsersInv, IdsInv, cmd' = cmd \/ Handles, NEW m \in Answers, status' = Append(status, m),
           m.uid = "CREATE_CHANNEL" => m.chan = BAD_CHAN, m.uid # "DESTROY_CHANNEL",
           \A ch : NamesChannel(m, ch) => ch = BAD_CHAN \/ (ch \in alive /\ ~Unread(ch)),
           Leaves, UNCHANGED <<alive, pushed, creator>>, frames' \in [Chans -> Nat],
           \A ch \in Chans : ch \notin alive => frames'[ch] = frames[ch],
           UNCHANGED userVars
    PROVE  Moves /\ FirmwareOK' /\ ClaimsOK'
<1>1. UNCHANGED <<chan_uid, irq, queues>>
    BY DEF userVars, chanVars, queueVars
<1>2. Moves
    BY DEF Moves, Says, Fresh
<1>3. FirmwareOK'
    BY DEF IdsInv, FirmwareOK
<1>4. ClaimsOK
    BY DEF IdsInv, LinksOK
<1>5. \A ch \in Chans : Unread(ch) => ~NamesChannel(m, ch)
    BY McuAssumption
<1>6. KeepsUnread
    BY <1>1, StaysUnread
<1> QED
    BY <1>1, <1>2, <1>3, <1>4, <1>5, <1>6, ClaimsReport

\* The firmware takes a command without a word.
LEMMA TakesKeeps ==
    ASSUME UsersInv, IdsInv, Handles, Leaves, UNCHANGED <<status, alive, creator>>,
           \A ch \in Chans : ch \notin alive => frames'[ch] = frames[ch] /\ pushed'[ch] = pushed[ch],
           UNCHANGED userVars
    PROVE  Moves /\ FirmwareOK' /\ ClaimsOK'
<1>1. UNCHANGED <<chan_uid, irq, queues>>
    BY DEF userVars, chanVars, queueVars
<1>2. Moves
    BY DEF Moves, Fresh
<1>3. FirmwareOK'
    BY DEF IdsInv, FirmwareOK
<1>4. ClaimsOK /\ KeepsUnread
    BY <1>1, StaysUnread DEF IdsInv, LinksOK
<1> QED
    BY <1>1, <1>2, <1>3, <1>4, ClaimsQuiet DEF KeepsCreates

\* Every step of a firmware that hands out fresh ids keeps the invariant.
LEMMA FirmwareKeeps == UsersInv /\ IdsInv /\ McuStep /\ Fresh => IdsInv'
<1> SUFFICES ASSUME UsersInv, IdsInv, McuStep, Fresh PROVE IdsInv'
    OBVIOUS
<1> DEFINE Goal == Moves /\ FirmwareOK' /\ ClaimsOK'
<1> SUFFICES Goal
    BY MovesLinks, MovesDestroys DEF IdsInv, LinksOK
<1>0. UNCHANGED userVars /\ alive \subseteq Chans
    BY IdTypes DEF McuStep
<1>20. /\ pushed \in [Chans -> Seq({"PUSH_BUFFER_INTERMEDIATE", "PUSH_BUFFER_REFERENCE"})]
       /\ frames \in [Chans -> Nat]
    BY DEF UsersInv, McuTypes
<1>1. CASE McuCreates
    BY <1>0, <1>1, CreatesKeeps
<1>2. CASE McuRefuses
    <2>1. Handles /\ Head(cmd) \in Commands /\ Head(cmd).uid = "CREATE_CHANNEL"
        BY <1>2, TakesFirst DEF McuRefuses
    <2>2. PICK m \in Answers : m = CreateAnswer(Head(cmd), BAD_CHAN)
        BY <2>1, AnswerTypes DEF UsersInv, ChanIds
    <2>3. m.uid = "CREATE_CHANNEL" /\ m.chan = BAD_CHAN /\ \A ch : NamesChannel(m, ch) => ch = BAD_CHAN
        BY <2>2, AnswerNames DEF CreateAnswer
    <2>4. UNCHANGED <<alive, pushed, frames, creator>> /\ status' = Append(status, m)
        BY <1>2, <2>2 DEF McuRefuses
    <2>5. Leaves
        BY <2>4 DEF Leaves, Unread
    <2> QED
        BY <1>0, <1>20, <2>1, <2>3, <2>4, <2>5, SaysKeeps
<1>3. CASE McuDestroys
    BY <1>0, <1>3, DiesKeeps
<1>4. CASE McuGetsBuffers
    <2>1. {"PUSH_BUFFER_INTERMEDIATE", "PUSH_BUFFER_REFERENCE"} \subseteq ChannelCommands
        BY DEF ChannelCommands
    <2>2. PICK ch : ch = Head(cmd).chan
        OBVIOUS
    <2>3. Handles /\ ch \in alive /\ ~Unread(ch)
        BY <1>4, <2>1, <2>2, TakesFirst DEF McuGetsBuffers
    <2>4. /\ UNCHANGED <<status, alive, frames, creator>>
          /\ \A c \in Chans : c # ch => pushed'[c] = pushed[c]
        BY <1>4, <1>20, <2>2 DEF McuGetsBuffers
    <2>5. Leaves
        BY <2>3, <2>4 DEF Leaves, Unread
    <2> QED
        BY <1>0, <2>3, <2>4, <2>5, TakesKeeps
<1>5. CASE McuGetsFrame
    <2>1. {"ENCODE_ONE_FRM", "DECODE_ONE_FRM"} \subseteq ChannelCommands
        BY DEF ChannelCommands
    <2>2. PICK ch : ch = Head(cmd).chan
        OBVIOUS
    <2>3. Handles /\ ch \in alive /\ ~Unread(ch)
        BY <1>5, <2>1, <2>2, TakesFirst DEF McuGetsFrame
    <2>4. /\ UNCHANGED <<status, alive, pushed, creator>>
          /\ \A c \in Chans : c # ch => frames'[c] = frames[c]
        BY <1>5, <1>20, <2>2 DEF McuGetsFrame
    <2>5. Leaves
        BY <2>3, <2>4 DEF Leaves, Unread
    <2> QED
        BY <1>0, <2>3, <2>4, <2>5, TakesKeeps
<1>6. CASE McuGetsRec
    <2>1. {"GET_RECONSTRUCTED_PICTURE"} \subseteq ChannelCommands
        BY DEF ChannelCommands
    <2>2. PICK ch : ch = Head(cmd).chan
        OBVIOUS
    <2>3. Handles /\ ch \in alive /\ ch \in Chans /\ ~Unread(ch)
        BY <1>0, <1>6, <2>1, <2>2, TakesFirst DEF McuGetsRec
    <2>4. PICK m \in Answers : /\ m.uid = "GET_RECONSTRUCTED_PICTURE" /\ m.chan = ch
                               /\ status' = Append(status, m)
        <3>1. PICK found \in BOOLEAN :
                 status' = Append(status, [uid |-> "GET_RECONSTRUCTED_PICTURE", chan |-> ch,
                                           found |-> found, by |-> creator[ch]])
            BY <1>6, <2>2 DEF McuGetsRec
        <3>2. [uid |-> "GET_RECONSTRUCTED_PICTURE", chan |-> ch, found |-> found,
               by |-> creator[ch]] \in Answers
            BY <2>3, AnswerTypes DEF UsersInv
        <3> QED
            BY <3>1, <3>2
    <2>5. \A c : NamesChannel(m, c) <=> c = ch
        BY <2>4, AnswerNames
    <2>6. UNCHANGED <<alive, pushed, frames, creator>>
        BY <1>6 DEF McuGetsRec
    <2>7. Leaves
        BY <2>6 DEF Leaves, Unread
    <2> QED
        BY <1>0, <1>20, <2>3, <2>4, <2>5, <2>6, <2>7, SaysKeeps
<1>7. CASE McuSearches
    <2>1. Handles /\ Head(cmd) \in Commands /\ Head(cmd).uid = "SEARCH_START_CODE"
        BY <1>7, TakesFirst DEF McuSearches
    <2>2. PICK m \in Answers : m = SearchAnswer(Head(cmd))
        BY <2>1, AnswerTypes DEF UsersInv
    <2>3. m.uid = "SEARCH_START_CODE" /\ \A ch : ~NamesChannel(m, ch)
        BY <2>2, AnswerNames DEF SearchAnswer
    <2>4. UNCHANGED <<alive, pushed, frames, creator>> /\ status' = Append(status, m)
        BY <1>7, <2>2 DEF McuSearches
    <2>5. Leaves
        BY <2>4 DEF Leaves, Unread
    <2> QED
        BY <1>0, <1>20, <2>1, <2>3, <2>4, <2>5, SaysKeeps
<1>8. CASE McuIgnores
    <2>1. Handles /\ UNCHANGED <<status, alive, pushed, frames, creator>>
        BY <1>8 DEF McuIgnores, Takes, Handles
    <2>2. Leaves
        BY <2>1 DEF Leaves, Unread
    <2> QED
        BY <1>0, <2>1, <2>2, TakesKeeps
<1>9. ASSUME NEW name \in {"ENCODE_ONE_FRM", "DECODE_ONE_FRM"}, McuReports(name) PROVE Goal
    <2>1. PICK ch \in alive : /\ frames[ch] > 0 /\ frames' = [frames EXCEPT ![ch] = @ - 1]
                              /\ status' = Append(status, Feedback(name, ch))
        BY <1>9 DEF McuReports
    <2>2. ch \in Chans /\ ~Unread(ch)
        BY <1>0, <1>20, <2>1 DEF Unread
    <2>3. PICK m \in Answers : m = Feedback(name, ch)
        BY <2>2, AnswerTypes DEF UsersInv
    <2>4. m.uid = name /\ \A c : NamesChannel(m, c) <=> c = ch
        BY <2>3, AnswerNames DEF Feedback
    <2>5. UNCHANGED <<cmd, alive, pushed, creator>> /\ status' = Append(status, m)
        BY <1>9, <2>1, <2>3 DEF McuReports
    <2>6. frames' \in [Chans -> Nat] /\ \A c \in Chans : c # ch => frames'[c] = frames[c]
        BY <1>20, <2>1, <2>2
    <2>7. Leaves
        BY <2>2, <2>5, <2>6 DEF Leaves, Unread
    <2> QED
        BY <1>0, <2>1, <2>2, <2>4, <2>5, <2>6, <2>7, SaysKeeps
<1> QED
    BY <1>1, <1>2, <1>3, <1>4, <1>5, <1>6, <1>7, <1>8, <1>9 DEF McuStep, McuHandles
-----------------------------------------------------------------------------
\* Steps that change who holds a channel, or where its mails are.

\* A command that is no frame joins the box.
LEMMA CmdAppended ==
    ASSUME UsersInv, NEW m \in Commands, cmd' = Append(cmd, m)
    PROVE  /\ \A i \in 1..Len(cmd') :
                 (i \in 1..Len(cmd) /\ cmd'[i] = cmd[i]) \/ (i = Len(cmd) + 1 /\ cmd'[i] = m)
           /\ Len(cmd) \in Nat
<1>1. cmd \in Seq(Commands)
    BY IdTypes
<1> QED
    BY <1>1, Grown

LEMMA FramesAppend ==
    ASSUME UsersInv, FramesReachChannel, NEW m \in Commands, cmd' = Append(cmd, m),
           m.uid \notin FrameMsgs, alive' = alive, signals' = 0 => signals = 0
    PROVE  FramesReachChannel'
<1>1. /\ \A i \in 1..Len(cmd') :
            (i \in 1..Len(cmd) /\ cmd'[i] = cmd[i]) \/ (i = Len(cmd) + 1 /\ cmd'[i] = m)
      /\ Len(cmd) \in Nat
    BY CmdAppended
<1> SUFFICES ASSUME signals' = 0, NEW i \in 1..Len(cmd'), cmd'[i].uid \in FrameMsgs
             PROVE  /\ cmd'[i].chan \in alive
                    /\ \A j \in 1..i-1 : ~Destroys(cmd'[j], cmd'[i].chan)
    BY DEF FramesReachChannel, FrameMsgs, Destroys
<1>2. i \in 1..Len(cmd) /\ cmd'[i] = cmd[i]
    BY <1>1
<1>3. cmd[i].chan \in alive /\ \A j \in 1..i-1 : ~Destroys(cmd[j], cmd[i].chan)
    BY <1>2 DEF FramesReachChannel, FrameMsgs, Destroys
<1>4. \A j \in 1..i-1 : j \in 1..Len(cmd') /\ j # Len(cmd) + 1
    BY <1>1, <1>2
<1> QED
    BY <1>1, <1>2, <1>3, <1>4

\* A file reads or drops mails.
LEMMA ReadsKeep ==
    ASSUME UsersInv, IdsInv, KeepsCreates, Onward,
           \A f \in Files : ~Closing(f) => queues'[f]["DESTROY"] = queues[f]["DESTROY"],
           \A f \in Files : uid[f] = -1 => queues'[f] = queues[f],
           UNCHANGED <<uid, slot, chan_uid, cmd, status, irq, alive, pushed, frames, creator>>
    PROVE  IdsInv'
<1>1. BindOK' /\ FirmwareOK' /\ FilesOK'
    BY DEF IdsInv, LinksOK, BindOK, FirmwareOK, FilesOK
<1>2. ClaimsOK'
    <2>1. KeepsUnread
        BY SameUnread DEF KeepsUnread
    <2> QED
        BY <2>1, ClaimsQuiet DEF IdsInv, LinksOK
<1>3. IrqUserOK'
    BY IdTypes DEF IdsInv, LinksOK, IrqUserOK, Onward, Held
<1>4. DestroysOK'
    <2>1. \A ch : (InStatus(ch)' <=> InStatus(ch)) /\ (InIrq(ch)' <=> InIrq(ch))
        BY DEF InStatus, InIrq
    <2>2. \A f \in Files : ~Closing(f)' => ~Closing(f)
        BY DEF Onward
    <2> QED
        BY <2>1, <2>2 DEF IdsInv, LinksOK, DestroysOK
<1>5. OrphansOK' /\ HoldersOK'
    BY DEF IdsInv, LinksOK, OrphansOK, HoldersOK, Held, Onward
<1>6. FramesReachChannel'
    BY DEF IdsInv, LinksOK, FramesReachChannel, Onward
<1> QED
    BY <1>1, <1>2, <1>3, <1>4, <1>5, <1>6 DEF IdsInv, LinksOK

LEMMA WaitReturnKeeps ==
    ASSUME UsersInv, IdsInv, NEW t \in Threads, NEW op \in WaitOps, WaitReturn(t, op)
    PROVE  IdsInv'
<1>1. /\ pc[t] = Waiting(op) /\ PopAny(FileOf[t], op) /\ pc' = [pc EXCEPT ![t] = "idle"]
      /\ UNCHANGED <<uid, slot, chan_uid, after, signals, irq, mcuVars>>
    BY DEF WaitReturn, Goto, groupVars, chanVars
<1>2. FileOf[t] \in Files /\ pc[t] \in {"status_wait", "sc_wait", "rec_wait"}
    BY <1>1, UsersAssumption DEF Waiting, WaitOps
<1>3. uid[FileOf[t]] # -1 /\ ThreadTypes
    BY <1>2 DEF UsersInv, CallsOK
<1>4. \A f \in Files : /\ f # FileOf[t] => queues'[f] = queues[f]
                       /\ queues'[f]["CREATE"] = queues[f]["CREATE"]
                       /\ queues'[f]["DESTROY"] = queues[f]["DESTROY"]
    BY <1>1, <1>2, IdTypes DEF PopAny, WaitOps
<1>5. Onward
    BY <1>1, <1>2, <1>3 DEF Onward, Closing, ThreadTypes
<1> QED
    BY <1>1, <1>3, <1>4, <1>5, ReadsKeep DEF KeepsCreates, mcuVars

LEMMA ReleasePurgeKeeps ==
    ASSUME UsersInv, IdsInv, NEW t \in Threads, ReleasePurge(t) PROVE IdsInv'
<1>1. /\ pc[t] = "release_purge" /\ pc' = [pc EXCEPT ![t] = "release_unbind"]
      /\ queues' = [queues EXCEPT ![FileOf[t]] = [q \in QueueIds |-> <<>>]]
      /\ UNCHANGED <<uid, slot, chan_uid, after, signals, irq, mcuVars>>
    BY DEF ReleasePurge, al5_user_remove_residual_messages, Goto, groupVars, chanVars
<1>2. FileOf[t] \in Files /\ uid[FileOf[t]] # -1 /\ after[t] = "release" /\ ThreadTypes
    BY <1>1, UsersAssumption DEF UsersInv, CallsOK, Releasing
<1>3. \A f \in Files : /\ f # FileOf[t] => queues'[f] = queues[f]
                       /\ f = FileOf[t] => queues'[f]["CREATE"] = <<>>
    BY <1>1, <1>2, IdTypes DEF QueueIds
<1>4. Closing(FileOf[t])
    BY <1>2 DEF Closing
<1>5. Onward
    BY <1>1, <1>2 DEF Onward, Closing, ThreadTypes
<1>6. KeepsCreates
    BY <1>3 DEF KeepsCreates
<1>7. /\ \A f \in Files : ~Closing(f) => queues'[f]["DESTROY"] = queues[f]["DESTROY"]
      /\ \A f \in Files : uid[f] = -1 => queues'[f] = queues[f]
    BY <1>2, <1>3, <1>4
<1> QED
    BY <1>1, <1>5, <1>6, <1>7, ReadsKeep DEF mcuVars

LEMMA ReleaseFreeKeeps ==
    ASSUME UsersInv, IdsInv, NEW t \in Threads, ReleaseFree(t) PROVE IdsInv'
<1>0. ThreadTypes
    BY DEF UsersInv
<1>1. /\ UNCHANGED <<uid, slot, chan_uid, irq, queues, after, signals, cmd, status, alive, pushed, frames>>
      /\ pc[t] = "release_loop" /\ pc' = [pc EXCEPT ![t] = "release_purge"]
      /\ \A ch \in Chans : creator'[ch] \in {creator[ch], NoFile}
    BY DEF ReleaseFree, Goto, groupVars, chanVars, queueVars
<1>2. Passive
    BY <1>0, <1>1 DEF Passive, Onward, Closing, ThreadTypes
<1>3. BindOK' /\ FirmwareOK'
    BY <1>1 DEF IdsInv, BindOK, FirmwareOK
<1> QED
    BY <1>2, <1>3, PassiveLinks DEF IdsInv

LEMMA OpenKeeps ==
    ASSUME UsersInv, IdsInv, NEW f \in Files, al5_codec_open(f) PROVE IdsInv'
<1>0. /\ uid \in [Files -> -1..MaxUsers-1] /\ slot \in [Slots -> Files \cup {NoFile}]
      /\ chan_uid \in [Files -> ChanIds] /\ queues \in [Files -> [QueueIds -> Seq(Answers)]]
    BY DEF UsersInv, UserTypes
<1>1. PICK i : i = Lowest(FreeSlots)
    OBVIOUS
<1>2. i \in Slots /\ slot[i] = NoFile
    <2>1. FreeSlots \in SUBSET Slots /\ FreeSlots # {}
        BY DEF FreeSlots, Slots, al5_codec_open
    <2>2. Lowest(FreeSlots) \in FreeSlots
        BY <2>1, LowestIsIn
    <2> QED
        BY <1>1, <2>2 DEF FreeSlots, Slots
<1>3. /\ uid[f] = -1 /\ irq = NoIrq /\ slot' = [slot EXCEPT ![i] = f] /\ uid' = [uid EXCEPT ![f] = i]
      /\ chan_uid' = [chan_uid EXCEPT ![f] = BAD_CHAN]
      /\ queues' = [queues EXCEPT ![f] = [q \in QueueIds |-> <<>>]]
      /\ UNCHANGED <<irq, pc, after, signals, cmd, status, alive, pushed, frames, creator>>
    BY <1>1 DEF al5_codec_open, al5_user_init, GroupLockFree, threadVars, mcuVars
<1>4. chan_uid[f] = BAD_CHAN /\ \A q \in QueueIds : queues[f][q] = <<>>
    BY <1>3 DEF IdsInv, BindOK
<1>5. chan_uid' = chan_uid /\ queues' = queues
    <2>1. chan_uid' = chan_uid
        BY <1>0, <1>3, <1>4
    <2>2. queues[f] = [q \in QueueIds |-> <<>>]
        BY <1>0, <1>4
    <2> QED
        BY <1>0, <1>3, <2>1, <2>2
<1>6. BindOK'
    <2>1. i # -1 /\ \A j \in Slots : j # -1
        BY <1>2, UsersAssumption DEF Slots
    <2>2. \A g \in Files : uid[g] # -1 => slot[uid[g]] = g /\ uid[g] \in Slots
        BY <1>0 DEF IdsInv, BindOK, Slots
    <2>3. \A j \in Slots : slot[j] # NoFile => uid[slot[j]] = j /\ slot[j] \in Files
        BY <1>0 DEF IdsInv, BindOK
    <2>4. \A g \in Files : uid'[g] # -1 => slot'[uid'[g]] = g
        BY <1>0, <1>2, <1>3, <2>2, McuAssumption
    <2>5. \A j \in Slots : slot'[j] # NoFile => uid'[slot'[j]] = j
        BY <1>0, <1>2, <1>3, <2>1, <2>3
    <2>6. \A g \in Files : uid'[g] = -1 =>
          chan_uid'[g] = BAD_CHAN /\ \A q \in QueueIds : queues'[g][q] = <<>>
        BY <1>0, <1>3, <1>5, <2>1 DEF IdsInv, BindOK
    <2> QED
        BY <1>3, <2>4, <2>5, <2>6 DEF BindOK
<1>7. Passive
    BY <1>3, <1>5 DEF Passive, Onward, Closing
<1>8. FirmwareOK'
    BY <1>3 DEF IdsInv, FirmwareOK
<1> QED
    BY <1>6, <1>7, <1>8, PassiveLinks DEF IdsInv

LEMMA CreateSendKeeps ==
    ASSUME UsersInv, IdsInv, NEW t \in Threads, CreateSend(t) PROVE IdsInv'
<1>0. ThreadTypes
    BY DEF UsersInv
<1>1. PICK m : m = CreateMsg(FileOf[t], uid[FileOf[t]])
    OBVIOUS
<1>2. /\ pc[t] = "create_send" /\ pc' = [pc EXCEPT ![t] = "create_wait"] /\ cmd' = Append(cmd, m)
      /\ UNCHANGED <<uid, slot, chan_uid, after, signals, status, irq, queues, alive, pushed, frames, creator>>
    BY <1>1 DEF CreateSend, al5_mcu_send, Goto, groupVars, chanVars, queueVars
<1>3. FileOf[t] \in Files /\ uid[FileOf[t]] \in Slots
    BY <1>2, UsersAssumption DEF UsersInv, UserTypes, CallsOK, Slots
<1>4. m \in Commands
    BY <1>1, <1>3, CommandTypes
<1>5. /\ m.uid = "CREATE_CHANNEL" /\ "orphan" \notin DOMAIN m /\ \A ch : ~NamesChannel(m, ch)
    BY <1>1, MessageNames DEF CreateMsg
<1>6. Onward
    BY <1>0, <1>2 DEF Onward, Closing, ThreadTypes
<1>7. Sends(FileOf[t], m)
    BY <1>2, <1>5, <1>6 DEF Sends, FrameMsgs, Destroys
<1> QED
    BY <1>3, <1>4, <1>7, SendKeeps

LEMMA DestroySendKeeps ==
    ASSUME UsersInv, IdsInv, NEW t \in Threads, DestroySend(t) PROVE IdsInv'
<1>0. ThreadTypes
    BY DEF UsersInv
<1>1. PICK m : m = ChanMsg("DESTROY_CHANNEL", chan_uid[FileOf[t]])
    OBVIOUS
<1>2. /\ pc[t] = "destroy_send" /\ pc' = [pc EXCEPT ![t] = "destroy_wait"] /\ cmd' = Append(cmd, m)
      /\ UNCHANGED <<uid, slot, chan_uid, after, signals, status, irq, queues, alive, pushed, frames, creator>>
    BY <1>1 DEF DestroySend, al5_mcu_send, Goto, groupVars, chanVars, queueVars
<1>3. FileOf[t] \in Files /\ chan_uid[FileOf[t]] \in ChanIds
    BY UsersAssumption, IdTypes
<1>4. m \in Commands
    BY <1>1, <1>3, CommandTypes DEF ChannelCommands
<1>5. /\ m.uid = "DESTROY_CHANNEL" /\ "orphan" \notin DOMAIN m
      /\ \A ch : NamesChannel(m, ch) => ch = chan_uid[FileOf[t]]
    BY <1>1, MessageNames DEF ChanMsg
<1>6. Onward
    BY <1>0, <1>2 DEF Onward, Closing, ThreadTypes
<1>8. pc'[t] = "destroy_wait"
    BY <1>0, <1>2 DEF ThreadTypes
<1>7. Sends(FileOf[t], m)
    BY <1>2, <1>5, <1>6, <1>8 DEF Sends, FrameMsgs
<1> QED
    BY <1>3, <1>4, <1>7, SendKeeps

\* A file lets go of its channel.
Lets(f) == chan_uid' = [chan_uid EXCEPT ![f] = BAD_CHAN]

LEMMA LetsGo ==
    ASSUME UsersInv, IdsInv, NEW f \in Files, Lets(f)
    PROVE  /\ chan_uid'[f] = BAD_CHAN /\ \A g \in Files : g # f => chan_uid'[g] = chan_uid[g]
           /\ \A ch \in Chans : Held(ch)' => Held(ch)
           /\ FilesOK'
<1>1. chan_uid \in [Files -> ChanIds]
    BY IdTypes
<1>2. chan_uid'[f] = BAD_CHAN /\ \A g \in Files : g # f => chan_uid'[g] = chan_uid[g]
    BY <1>1 DEF Lets
<1>3. \A ch \in Chans : Held(ch)' => Held(ch)
    BY <1>2, McuAssumption DEF Held
<1>4. FilesOK'
    BY <1>2 DEF IdsInv, LinksOK, FilesOK
<1> QED
    BY <1>2, <1>3, <1>4

LEMMA DestroyQuietKeeps ==
    ASSUME UsersInv, IdsInv, NEW t \in Threads, DestroyQuiet(t) PROVE IdsInv'
<1> DEFINE f == FileOf[t]
<1>0. ThreadTypes
    BY DEF UsersInv
<1>1. PICK m : m = ChanMsg("QUIET_DESTROY_CHANNEL", chan_uid[FileOf[t]])
    OBVIOUS
<1>2. /\ pc[t] = "destroy_send" /\ pc' = [pc EXCEPT ![t] = "destroy_unlock"] /\ cmd' = Append(cmd, m)
      /\ after[t] = "release" /\ chan_uid' = [chan_uid EXCEPT ![f] = BAD_CHAN]
      /\ UNCHANGED <<uid, slot, after, signals, status, irq, queues, alive, pushed, frames, creator>>
    BY <1>1 DEF DestroyQuiet, al5_mcu_send, Goto, groupVars, queueVars, ForgetChannel
<1>3. f \in Files /\ chan_uid[f] \in ChanIds
    BY UsersAssumption, IdTypes
<1>4. m \in Commands
    BY <1>1, <1>3, CommandTypes DEF ChannelCommands
<1>5. /\ m.uid = "QUIET_DESTROY_CHANNEL" /\ "orphan" \notin DOMAIN m /\ m.chan = chan_uid[f]
      /\ \A ch : NamesChannel(m, ch) <=> ch = chan_uid[f]
    BY <1>1, MessageNames DEF ChanMsg
<1>6. /\ \A i \in 1..Len(cmd') :
            (i \in 1..Len(cmd) /\ cmd'[i] = cmd[i]) \/ (i = Len(cmd) + 1 /\ cmd'[i] = m)
      /\ Len(cmd) \in Nat
    BY <1>2, <1>4, CmdAppended
<1>7. /\ chan_uid'[f] = BAD_CHAN /\ \A g \in Files : g # f => chan_uid'[g] = chan_uid[g]
      /\ \A ch \in Chans : Held(ch)' => Held(ch)
      /\ FilesOK'
    BY <1>2, <1>3, LetsGo DEF Lets
<1>8. \A g \in Files : Closing(g)' <=> Closing(g)
    BY <1>2 DEF Closing
<1>9. Closing(f)
    BY <1>2 DEF Closing
<1>10. \A u \in Threads : pc[u] = "destroy_wait" => pc'[u] = pc[u]
    BY <1>0, <1>2 DEF ThreadTypes
<1> HIDE DEF f
<1>11. BindOK' /\ FirmwareOK'
    BY <1>2, <1>7 DEF IdsInv, BindOK, FirmwareOK
<1>12. ClaimsOK'
    <2>1. \A ch : InCmd(ch)' => InCmd(ch) \/ ch = chan_uid[f]
        BY <1>5, <1>6 DEF InCmd
    <2>2. \A ch \in Chans : Unread(ch) => Unread(ch)'
        BY <1>2, <1>3, <1>7, <2>1 DEF Unread, Held
    <2> QED
        BY <1>2, <2>2, ClaimsQuiet DEF IdsInv, LinksOK, KeepsCreates, KeepsUnread
<1>13. IrqUserOK'
    <2> SUFFICES ASSUME irq # NoIrq, irq.mail.uid \notin {"CREATE_CHANNEL", "SEARCH_START_CODE"}
                 PROVE  /\ irq.user = NoFile => ~Held(irq.mail.chan)'
                        /\ irq.user # NoFile => Closing(irq.user)' \/ chan_uid'[irq.user] = irq.mail.chan
        BY <1>2 DEF IrqUserOK
    <2>1. /\ irq.user = NoFile => ~Held(irq.mail.chan)
          /\ irq.user # NoFile => Closing(irq.user) \/ chan_uid[irq.user] = irq.mail.chan
        BY DEF IdsInv, LinksOK, IrqUserOK
    <2>2. irq.mail.chan \in Chans /\ irq.user \in Files \cup {NoFile}
        BY IdTypes, FeedbackNames
    <2>3. PICK ch : ch = irq.mail.chan /\ ch = irq'.mail.chan
        BY <1>2
    <2>4. irq.user = NoFile => ~Held(ch)'
        BY <1>7, <2>1, <2>2, <2>3
    <2>5. irq.user # NoFile => Closing(irq.user)' \/ chan_uid'[irq.user] = ch
        BY <1>2, <1>7, <1>8, <1>9, <2>1, <2>2, <2>3
    <2> QED
        BY <1>2, <2>3, <2>4, <2>5
<1>14. DestroysOK'
    <2>1. \A ch : (InStatus(ch)' <=> InStatus(ch)) /\ (InIrq(ch)' <=> InIrq(ch))
        BY <1>2 DEF InStatus, InIrq
    <2>2. \A g \in Files : ~Closing(g)' => ~Closing(g) /\ chan_uid'[g] = chan_uid[g]
        BY <1>7, <1>8, <1>9
    <2> QED
        BY <1>2, <2>1, <2>2 DEF IdsInv, LinksOK, DestroysOK
<1>15. OrphansOK'
    <2>1. ASSUME NEW i \in 1..Len(cmd'), "orphan" \in DOMAIN cmd'[i], cmd'[i].chan # BAD_CHAN
          PROVE  ~Held(cmd[i].chan)'
        <3>1. i \in 1..Len(cmd) /\ cmd'[i] = cmd[i]
            BY <1>5, <1>6, <2>1
        <3>2. PICK ch : ch = cmd[i].chan /\ ch = cmd'[i].chan
            BY <3>1
        <3>3. ~Held(ch) /\ ch \in Chans
            <4>1. cmd[i] \in Commands /\ cmd[i].uid \in ChannelCommands
                BY <2>1, <3>1, IdTypes, CommandNames DEF ChannelCommands
            <4> QED
                BY <2>1, <3>1, <3>2, <4>1, CommandParts DEF IdsInv, LinksOK, OrphansOK, ChanIds
        <3> QED
            BY <1>7, <3>2, <3>3
    <2> QED
        BY <2>1 DEF OrphansOK
<1>16. HoldersOK'
    <2> SUFFICES ASSUME signals = 0, NEW g \in Files, chan_uid'[g] # BAD_CHAN
                 PROVE  \/ /\ chan_uid'[g] \in alive
                           /\ \A i \in 1..Len(cmd') : ~Destroys(cmd'[i], chan_uid'[g])
                        \/ \E u \in Threads : FileOf[u] = g /\ pc'[u] = "destroy_wait"
        BY <1>2 DEF HoldersOK
    <2>1. g # f /\ chan_uid'[g] = chan_uid[g]
        BY <1>7
    <2>2. CASE \E u \in Threads : FileOf[u] = g /\ pc[u] = "destroy_wait"
        BY <1>10, <2>2
    <2>3. CASE chan_uid[g] \in alive /\ \A i \in 1..Len(cmd) : ~Destroys(cmd[i], chan_uid[g])
        <3>1. chan_uid[g] # chan_uid[f]
            BY <1>3, <2>1 DEF IdsInv, LinksOK, FilesOK
        <3>2. ~Destroys(m, chan_uid[g])
            BY <1>5, <3>1 DEF Destroys
        <3> QED
            BY <1>6, <2>1, <2>3, <3>2
    <2> QED
        BY <2>1, <2>2, <2>3 DEF IdsInv, LinksOK, HoldersOK
<1>17. FramesReachChannel'
    BY <1>2, <1>4, <1>5, FramesAppend DEF IdsInv, LinksOK, FrameMsgs
<1> QED
    BY <1>7, <1>11, <1>12, <1>13, <1>14, <1>15, <1>16, <1>17 DEF IdsInv, LinksOK

\* A file lets go of its channel and sends nothing.
LEMMA LetsGoLinks ==
    ASSUME UsersInv, IdsInv, NEW f \in Files, Lets(f),
           KeepsCreates, \A g \in Files : g # f => (Closing(g) => Closing(g)'),
           \A g \in Files : g # f => queues'[g]["DESTROY"] = queues[g]["DESTROY"],
           queues'[f]["DESTROY"] = <<>>,
           irq # NoIrq => irq.user # f \/ Closing(f)' \/ irq.mail.uid \in {"CREATE_CHANNEL", "SEARCH_START_CODE"},
           \A u \in Threads : FileOf[u] # f => pc'[u] = pc[u],
           UNCHANGED <<signals, cmd, status, irq, alive, pushed, frames>>
    PROVE  LinksOK'
<1>1. /\ chan_uid'[f] = BAD_CHAN /\ \A g \in Files : g # f => chan_uid'[g] = chan_uid[g]
      /\ \A ch \in Chans : Held(ch)' => Held(ch)
      /\ FilesOK'
    BY LetsGo
<1>2. ClaimsOK'
    <2>1. \A ch \in Chans : Unread(ch) => Unread(ch)'
        BY <1>1 DEF Unread, InCmd
    <2> QED
        BY <2>1, ClaimsQuiet DEF IdsInv, LinksOK, KeepsUnread
<1>3. IrqUserOK'
    <2> SUFFICES ASSUME irq # NoIrq, irq.mail.uid \notin {"CREATE_CHANNEL", "SEARCH_START_CODE"}
                 PROVE  /\ irq.user = NoFile => ~Held(irq.mail.chan)'
                        /\ irq.user # NoFile => Closing(irq.user)' \/ chan_uid'[irq.user] = irq.mail.chan
        BY DEF IrqUserOK
    <2>1. /\ irq.user = NoFile => ~Held(irq.mail.chan)
          /\ irq.user # NoFile => Closing(irq.user) \/ chan_uid[irq.user] = irq.mail.chan
        BY DEF IdsInv, LinksOK, IrqUserOK
    <2>2. irq.mail.chan \in Chans /\ irq.user \in Files \cup {NoFile}
        BY IdTypes, FeedbackNames
    <2>3. PICK ch, h : ch = irq.mail.chan /\ ch = irq'.mail.chan /\ h = irq.user /\ h = irq'.user
        OBVIOUS
    <2>4. h = NoFile => ~Held(ch)'
        BY <1>1, <2>1, <2>2, <2>3
    <2>5. h # NoFile => Closing(h)' \/ chan_uid'[h] = ch
        BY <1>1, <2>1, <2>2, <2>3
    <2> QED
        BY <2>3, <2>4, <2>5
<1>4. DestroysOK'
    <2>1. \A ch : (InStatus(ch)' <=> InStatus(ch)) /\ (InIrq(ch)' <=> InIrq(ch))
        BY DEF InStatus, InIrq
    <2>2. \A g \in Files : g # f /\ ~Closing(g)' => ~Closing(g) /\ chan_uid'[g] = chan_uid[g]
        BY <1>1
    <2>3. ASSUME NEW g \in Files, ~Closing(g)'
          PROVE  /\ Len(queues'[g]["DESTROY"]) <= 1
                 /\ queues'[g]["DESTROY"] # <<>> =>
                       /\ queues'[g]["DESTROY"][1].chan = chan_uid'[g]
                       /\ chan_uid'[g] \notin alive /\ ~InStatus(chan_uid[g])' /\ ~InIrq(chan_uid[g])'
        <3>1. CASE g = f
            BY <3>1
        <3>2. CASE g # f
            <4>1. PICK ch : ch = chan_uid[g] /\ ch = chan_uid'[g]
                BY <2>2, <2>3, <3>2
            <4>2. /\ Len(queues[g]["DESTROY"]) <= 1
                  /\ queues[g]["DESTROY"] # <<>> =>
                       /\ queues[g]["DESTROY"][1].chan = ch
                       /\ ch \notin alive /\ ~InStatus(ch) /\ ~InIrq(ch)
                BY <2>2, <2>3, <3>2, <4>1 DEF IdsInv, LinksOK, DestroysOK
            <4> QED
                BY <2>1, <3>2, <4>1, <4>2
        <3> QED
            BY <3>1, <3>2
    <2>4. /\ \A i \in 1..Len(status) : status[i].uid = "DESTROY_CHANNEL" =>
              /\ status[i].chan \notin alive
              /\ \A j \in 1..Len(status) : NamesChannel(status[j], status[i].chan) => j <= i
          /\ irq # NoIrq /\ irq.mail.uid = "DESTROY_CHANNEL" =>
              irq.mail.chan \notin alive /\ ~InStatus(irq.mail.chan)
        BY DEF IdsInv, LinksOK, DestroysOK
    <2> QED
        BY <2>1, <2>3, <2>4 DEF DestroysOK
<1>5. OrphansOK'
    <2>1. ASSUME NEW i \in 1..Len(cmd), "orphan" \in DOMAIN cmd[i], cmd[i].chan # BAD_CHAN
          PROVE  ~Held(cmd[i].chan)'
        <3>1. PICK ch : ch = cmd[i].chan /\ ch = cmd'[i].chan
            OBVIOUS
        <3>2. ~Held(ch) /\ ch \in Chans
            <4>1. cmd[i] \in Commands /\ cmd[i].uid \in ChannelCommands
                BY <2>1, IdTypes, CommandNames DEF ChannelCommands
            <4> QED
                BY <2>1, <3>1, <4>1, CommandParts DEF IdsInv, LinksOK, OrphansOK, ChanIds
        <3> QED
            BY <1>1, <3>1, <3>2
    <2> QED
        BY <2>1 DEF OrphansOK
<1>6. HoldersOK'
    <2> SUFFICES ASSUME signals = 0, NEW g \in Files, chan_uid'[g] # BAD_CHAN
                 PROVE  \/ /\ chan_uid'[g] \in alive
                           /\ \A i \in 1..Len(cmd) : ~Destroys(cmd[i], chan_uid'[g])
                        \/ \E u \in Threads : FileOf[u] = g /\ pc'[u] = "destroy_wait"
        BY DEF HoldersOK
    <2>1. g # f /\ chan_uid'[g] = chan_uid[g]
        BY <1>1
    <2> QED
        BY <2>1 DEF IdsInv, LinksOK, HoldersOK
<1>7. FramesReachChannel'
    BY DEF IdsInv, LinksOK, FramesReachChannel
<1> QED
    BY <1>1, <1>2, <1>3, <1>4, <1>5, <1>6, <1>7 DEF LinksOK

\* Who waits for the answer to a destroy is not closing the file.
LEMMA WaitsOpen ==
    ASSUME UsersInv, NEW t \in Threads, pc[t] = "destroy_wait" PROVE ~Closing(FileOf[t])
    BY DEF UsersInv, CallsOK, Closing, Releasing, Destroying

LEMMA DestroyAnsweredKeeps ==
    ASSUME UsersInv, IdsInv, NEW t \in Threads, DestroyAnswered(t) PROVE IdsInv'
<1> DEFINE f == FileOf[t]
<1>0. ThreadTypes /\ chan_uid \in [Files -> ChanIds] /\ queues \in [Files -> [QueueIds -> Seq(Answers)]]
    BY IdTypes DEF UsersInv
<1>1. /\ pc[t] = "destroy_wait" /\ pc' = [pc EXCEPT ![t] = "destroy_unlock"]
      /\ queues[f]["DESTROY"] # <<>> /\ PopAny(f, "DESTROY")
      /\ chan_uid' = [chan_uid EXCEPT ![f] = BAD_CHAN]
      /\ UNCHANGED <<uid, slot, after, signals, cmd, status, irq, alive, pushed, frames, creator>>
    BY DEF DestroyAnswered, Goto, groupVars, ForgetChannel, mcuVars
<1>2. f \in Files /\ ~Closing(f)
    BY <1>1, UsersAssumption, WaitsOpen
<1>3. uid[f] # -1
    BY <1>1 DEF UsersInv, CallsOK
<1>4. \A g \in Files : Closing(g)' <=> Closing(g)
    BY <1>1 DEF Closing
<1>5. \A u \in Threads : FileOf[u] # f => pc'[u] = pc[u]
    BY <1>0, <1>1 DEF ThreadTypes
<1>6. PICK s : s = queues[f]["DESTROY"]
    OBVIOUS
<1>7. queues' = [queues EXCEPT ![f]["DESTROY"] = Tail(s)] /\ s \in Seq(Answers) /\ s # <<>>
    BY <1>1, <1>2, <1>6, QueueTypes DEF PopAny
<1>8. Len(s) <= 1 /\ ~InIrq(chan_uid[f])
    BY <1>1, <1>2, <1>6 DEF IdsInv, LinksOK, DestroysOK
<1>9. Tail(s) = <<>>
    BY <1>7, <1>8
<1> HIDE DEF f
<1>10. queues'[f]["DESTROY"] = <<>>
    BY <1>0, <1>2, <1>7, <1>9 DEF QueueIds
<1>11. \A g \in Files : /\ g # f => queues'[g] = queues[g]
                        /\ queues'[g]["CREATE"] = queues[g]["CREATE"]
    BY <1>0, <1>2, <1>7 DEF QueueIds
<1>12. irq # NoIrq => irq.user # f \/ irq.mail.uid \in {"CREATE_CHANNEL", "SEARCH_START_CODE"}
    <2> SUFFICES ASSUME irq # NoIrq, irq.user = f,
                        irq.mail.uid \notin {"CREATE_CHANNEL", "SEARCH_START_CODE"}
                 PROVE  FALSE
        OBVIOUS
    <2>1. chan_uid[f] = irq.mail.chan
        BY <1>2, McuAssumption DEF IdsInv, LinksOK, IrqUserOK
    <2>2. NamesChannel(irq.mail, irq.mail.chan)
        BY IdTypes, FeedbackNames
    <2> QED
        BY <1>8, <2>1, <2>2 DEF InIrq
<1>13. LinksOK'
    BY <1>1, <1>2, <1>4, <1>5, <1>10, <1>11, <1>12, LetsGoLinks DEF Lets, KeepsCreates
<1>14. BindOK'
    BY <1>0, <1>1, <1>2, <1>3, <1>11 DEF IdsInv, BindOK
<1>15. FirmwareOK'
    BY <1>1 DEF IdsInv, FirmwareOK
<1> QED
    BY <1>13, <1>14, <1>15 DEF IdsInv

LEMMA ReleaseUnbindKeeps ==
    ASSUME UsersInv, IdsInv, NEW t \in Threads, ReleaseUnbind(t) PROVE IdsInv'
<1> DEFINE f == FileOf[t]
<1>0. /\ uid \in [Files -> -1..MaxUsers-1] /\ slot \in [Slots -> Files \cup {NoFile}]
      /\ chan_uid \in [Files -> ChanIds] /\ queues \in [Files -> [QueueIds -> Seq(Answers)]]
      /\ ThreadTypes
    BY DEF UsersInv, UserTypes
<1>1. /\ pc[t] = "release_unbind" /\ pc' = [pc EXCEPT ![t] = "idle"] /\ irq = NoIrq
      /\ slot' = [slot EXCEPT ![uid[f]] = NoFile] /\ uid' = [uid EXCEPT ![f] = -1]
      /\ queues' = [queues EXCEPT ![f] = [q \in QueueIds |-> <<>>]]
      /\ chan_uid' = [chan_uid EXCEPT ![f] = BAD_CHAN]
      /\ after' = [after EXCEPT ![t] = "ioctl"]
      /\ UNCHANGED <<signals, cmd, status, irq, alive, pushed, frames, creator>>
    BY DEF ReleaseUnbind, GroupLockFree, Goto, mcuVars
<1>2. f \in Files /\ uid[f] # -1 /\ uid[f] \in Slots
    BY <1>0, <1>1, UsersAssumption DEF UsersInv, CallsOK, Slots
<1>3. \A g \in Files : g # f => (Closing(g) => Closing(g)')
    BY <1>0, <1>1 DEF Closing, ThreadTypes
<1>4. \A u \in Threads : FileOf[u] # f => pc'[u] = pc[u]
    BY <1>0, <1>1 DEF ThreadTypes
<1> HIDE DEF f
<1>5. /\ \A g \in Files : g # f => queues'[g] = queues[g]
      /\ queues'[f]["DESTROY"] = <<>> /\ queues'[f]["CREATE"] = <<>>
      /\ \A q \in QueueIds : queues'[f][q] = <<>>
    BY <1>0, <1>1, <1>2 DEF QueueIds
<1>6. KeepsCreates
    BY <1>5 DEF KeepsCreates
<1>7. LinksOK'
    BY <1>1, <1>2, <1>3, <1>4, <1>5, <1>6, LetsGoLinks DEF Lets
<1>8. BindOK'
    <2>1. \A g \in Files : uid[g] # -1 => slot[uid[g]] = g /\ uid[g] \in Slots
        BY <1>0 DEF IdsInv, BindOK, Slots
    <2>2. \A j \in Slots : slot[j] # NoFile => uid[slot[j]] = j /\ slot[j] \in Files
        BY <1>0 DEF IdsInv, BindOK
    <2>3. \A g \in Files : uid'[g] # -1 => slot'[uid'[g]] = g
        BY <1>0, <1>1, <1>2, <2>1
    <2>4. \A j \in Slots : slot'[j] # NoFile => uid'[slot'[j]] = j
        BY <1>0, <1>1, <1>2, <2>2
    <2>5. \A g \in Files : uid'[g] = -1 =>
          chan_uid'[g] = BAD_CHAN /\ \A q \in QueueIds : queues'[g][q] = <<>>
        BY <1>0, <1>1, <1>2, <1>5 DEF IdsInv, BindOK
    <2> QED
        BY <1>1, <2>3, <2>4, <2>5 DEF BindOK
<1>9. FirmwareOK'
    BY <1>1 DEF IdsInv, FirmwareOK
<1> QED
    BY <1>7, <1>8, <1>9 DEF IdsInv
-----------------------------------------------------------------------------
\* The interrupt thread.

\* The user it finds is bound, and goes by the channel.
LEMMA Retrieved ==
    ASSUME UsersInv, IdsInv, NEW m \in Answers
    PROVE  /\ retrieve_user(m) # NoFile => retrieve_user(m) \in Files /\ uid[retrieve_user(m)] # -1
           /\ m.uid \notin {"CREATE_CHANNEL", "SEARCH_START_CODE"} =>
                 /\ retrieve_user(m) = NoFile => ~Held(m.chan)
                 /\ retrieve_user(m) # NoFile => chan_uid[retrieve_user(m)] = m.chan
<1>1. uid \in [Files -> -1..MaxUsers-1] /\ slot \in [Slots -> Files \cup {NoFile}]
    BY DEF UsersInv, UserTypes
<1>2. \A i \in Slots : slot[i] # NoFile => slot[i] \in Files /\ uid[slot[i]] # -1
    BY <1>1, UsersAssumption DEF IdsInv, BindOK, Slots
<1>3. CASE m.uid \in {"CREATE_CHANNEL", "SEARCH_START_CODE"}
    <2>1. m.user \in Slots /\ retrieve_user(m) = slot[m.user]
        BY <1>3, AnswerParts DEF retrieve_user, al5_group_user_from_uid
    <2> QED
        BY <1>2, <1>3, <2>1
<1>4. CASE m.uid \notin {"CREATE_CHANNEL", "SEARCH_START_CODE"}
    <2>1. m.uid # "INIT" /\ m.chan \in Chans
        BY <1>4, FeedbackNames DEF Answers
    <2>2. retrieve_user(m) = al5_group_user_from_chan_uid(m.chan)
        BY <1>4, <2>1 DEF retrieve_user
    <2>3. CASE SlotsWithChan(m.chan) = {}
        <3>1. ASSUME NEW f \in Files, chan_uid[f] = m.chan PROVE FALSE
            <4>1. uid[f] # -1
                BY <2>1, <3>1, McuAssumption DEF IdsInv, BindOK
            <4>2. slot[uid[f]] = f /\ uid[f] \in Slots
                BY <1>1, <4>1 DEF IdsInv, BindOK, Slots
            <4>3. uid[f] \in SlotsWithChan(m.chan)
                BY <3>1, <4>2, McuAssumption DEF SlotsWithChan, Slots
            <4> QED
                BY <2>3, <4>3
        <3> QED
            BY <1>4, <2>2, <2>3, <3>1 DEF al5_group_user_from_chan_uid, Held
    <2>4. CASE SlotsWithChan(m.chan) # {}
        <3>1. PICK i : i = Lowest(SlotsWithChan(m.chan))
            OBVIOUS
        <3>2. SlotsWithChan(m.chan) \in SUBSET Slots
            BY DEF SlotsWithChan, Slots
        <3>3. i \in SlotsWithChan(m.chan)
            BY <2>4, <3>1, <3>2, LowestIsIn
        <3>4. i \in Slots /\ slot[i] # NoFile /\ chan_uid[slot[i]] = m.chan
            BY <3>2, <3>3 DEF SlotsWithChan
        <3>5. retrieve_user(m) = slot[i]
            BY <2>2, <2>4, <3>1 DEF al5_group_user_from_chan_uid
        <3> QED
            BY <1>2, <3>4, <3>5
    <2> QED
        BY <2>3, <2>4
<1> QED
    BY <1>3, <1>4

LEMMA IrqReadKeeps ==
    ASSUME UsersInv, IdsInv, IrqRead PROVE IdsInv'
<1>1. PICK m, g : m = Head(status) /\ g = retrieve_user(Head(status))
    OBVIOUS
<1>2. /\ irq = NoIrq /\ status # <<>> /\ irq' = [mail |-> m, user |-> g] /\ status' = Tail(status)
      /\ UNCHANGED <<uid, slot, chan_uid, queues, pc, after, signals, cmd, alive, pushed, frames, creator>>
    BY <1>1 DEF IrqRead, groupVars, chanVars, queueVars, threadVars
<1>3. /\ status \in Seq(Answers) /\ 1 \in 1..Len(status) /\ m = status[1] /\ m \in Answers
      /\ \A i \in 1..Len(status') : i + 1 \in 1..Len(status) /\ status'[i] = status[i+1]
                                    /\ i + 1 # 1
    BY <1>1, <1>2, IdTypes, Shrunk
<1>4. /\ g # NoFile => g \in Files /\ uid[g] # -1
      /\ m.uid \notin {"CREATE_CHANNEL", "SEARCH_START_CODE"} =>
            (g = NoFile => ~Held(m.chan)) /\ (g # NoFile => chan_uid[g] = m.chan)
    BY <1>1, <1>3, Retrieved
<1>5. irq'.mail = m /\ irq'.user = g
    BY <1>2
<1>6. \A ch : Held(ch)' <=> Held(ch)
    BY <1>2 DEF Held
<1>7. \A f \in Files : Closing(f)' <=> Closing(f)
    BY <1>2 DEF Closing
<1>8. BindOK' /\ FirmwareOK' /\ FilesOK'
    BY <1>2, <1>4, <1>5 DEF IdsInv, LinksOK, BindOK, FirmwareOK, FilesOK
<1>9. ClaimsOK'
    BY <1>1, <1>2, <1>5, ClaimsRead DEF IdsInv, LinksOK
<1>10. IrqUserOK'
    <2>1. m.uid \notin {"CREATE_CHANNEL", "SEARCH_START_CODE"} /\ g = NoFile => ~Held(m.chan)'
        BY <1>2, <1>4 DEF Held
    <2>2. ASSUME irq'.mail.uid \notin {"CREATE_CHANNEL", "SEARCH_START_CODE"}
          PROVE  /\ irq'.user = NoFile => ~Held(irq.mail.chan)'
                 /\ irq'.user # NoFile => chan_uid'[irq'.user] = irq'.mail.chan
        <3>1. PICK ch : ch = m.chan /\ ch = irq'.mail.chan
            BY <1>5
        <3>2. g = NoFile => ~Held(ch)'
            BY <1>4, <1>5, <1>6, <2>2, <3>1
        <3> QED
            BY <1>2, <1>4, <1>5, <2>2, <3>1, <3>2
    <2> QED
        BY <2>2 DEF IrqUserOK
<1>11. DestroysOK'
    <2>1. \A ch : InStatus(ch)' \/ InIrq(ch)' => InStatus(ch)
        BY <1>3, <1>5 DEF InStatus, InIrq
    <2>2. ASSUME NEW i \in 1..Len(status'), status'[i].uid = "DESTROY_CHANNEL"
          PROVE  /\ status'[i].chan \notin alive
                 /\ \A j \in 1..Len(status') : NamesChannel(status'[j], status'[i].chan) => j <= i
        <3>1. /\ status[i+1].chan \notin alive
              /\ \A j \in 1..Len(status) : NamesChannel(status[j], status[i+1].chan) => j <= i + 1
            BY <1>3, <2>2 DEF IdsInv, LinksOK, DestroysOK
        <3>2. ASSUME NEW j \in 1..Len(status'), NamesChannel(status'[j], status'[i].chan)
              PROVE  j <= i
            <4>1. j + 1 <= i + 1
                BY <1>3, <3>1, <3>2
            <4> QED
                BY <4>1
        <3> QED
            BY <1>3, <3>1, <3>2
    <2>3. m.uid = "DESTROY_CHANNEL" => m.chan \notin alive /\ ~InStatus(m.chan)'
        <3> SUFFICES ASSUME m.uid = "DESTROY_CHANNEL" PROVE m.chan \notin alive /\ ~InStatus(m.chan)'
            OBVIOUS
        <3>1. /\ m.chan \notin alive
              /\ \A j \in 1..Len(status) : NamesChannel(status[j], m.chan) => j <= 1
            BY <1>3 DEF IdsInv, LinksOK, DestroysOK
        <3>2. ASSUME NEW j \in 1..Len(status'), NamesChannel(status'[j], m.chan) PROVE FALSE
            <4>1. j + 1 <= 1
                BY <1>3, <3>1, <3>2
            <4> QED
                BY <4>1
        <3> QED
            BY <3>1, <3>2 DEF InStatus
    <2>4. ASSUME NEW f \in Files, ~Closing(f)
          PROVE  /\ Len(queues[f]["DESTROY"]) <= 1
                 /\ queues[f]["DESTROY"] # <<>> =>
                       /\ queues[f]["DESTROY"][1].chan = chan_uid[f]
                       /\ chan_uid[f] \notin alive /\ ~InStatus(chan_uid[f])
        BY <2>4 DEF IdsInv, LinksOK, DestroysOK
    <2>5. ASSUME NEW f \in Files, ~Closing(f)', queues'[f]["DESTROY"] # <<>>
          PROVE  /\ queues'[f]["DESTROY"][1].chan = chan_uid'[f]
                 /\ chan_uid'[f] \notin alive' /\ ~InStatus(chan_uid[f])' /\ ~InIrq(chan_uid[f])'
        <3>1. PICK ch : ch = chan_uid[f] /\ ch = chan_uid'[f]
            BY <1>2
        <3>2. queues[f]["DESTROY"][1].chan = ch /\ ch \notin alive /\ ~InStatus(ch)
            BY <1>2, <1>7, <2>4, <2>5, <3>1
        <3>3. ~InStatus(ch)' /\ ~InIrq(ch)'
            BY <2>1, <3>2
        <3> QED
            BY <1>2, <3>1, <3>2, <3>3
    <2>6. \A f \in Files : ~Closing(f)' => Len(queues'[f]["DESTROY"]) <= 1
        BY <1>2, <1>7, <2>4
    <2>7. irq'.mail.uid = "DESTROY_CHANNEL" => irq'.mail.chan \notin alive' /\ ~InStatus(irq.mail.chan)'
        BY <1>2, <1>5, <2>3
    <2>8. alive' = alive
        BY <1>2
    <2> QED
        BY <2>2, <2>5, <2>6, <2>7, <2>8 DEF DestroysOK
<1>12. OrphansOK' /\ HoldersOK' /\ FramesReachChannel'
    BY <1>2 DEF IdsInv, LinksOK, OrphansOK, HoldersOK, FramesReachChannel, Held
<1> QED
    BY <1>8, <1>9, <1>10, <1>11, <1>12 DEF IdsInv, LinksOK

LEMMA IrqDeliverKeeps ==
    ASSUME UsersInv, IdsInv, IrqDeliver PROVE IdsInv'
<1>0. queues \in [Files -> [QueueIds -> Seq(Answers)]]
    BY IdTypes
<1>1. PICK m, f, q : m = irq.mail /\ f = irq.user /\ q = mail_to_queue(m.uid)
    OBVIOUS
<1>2. /\ irq # NoIrq /\ f # NoFile /\ irq' = NoIrq
      /\ queues' = [queues EXCEPT ![f][q] = Append(@, m)]
      /\ UNCHANGED <<uid, slot, chan_uid, pc, after, signals, cmd, status, alive, pushed, frames, creator>>
    BY <1>1 DEF IrqDeliver, al5_user_deliver, al5_list_push, groupVars, chanVars, threadVars, mcuVars
<1>3. f \in Files /\ m \in Answers /\ uid[f] # -1 /\ q \in QueueIds
    BY <1>1, <1>2, IdTypes, AnswerParts DEF IdsInv, BindOK
<1>4. /\ q = "CREATE" <=> m.uid = "CREATE_CHANNEL"
      /\ q = "DESTROY" <=> m.uid = "DESTROY_CHANNEL"
    BY <1>1, <1>3, AnswerParts
<1>5. /\ \A g \in Files : g # f => queues'[g] = queues[g]
      /\ \A r \in QueueIds : r # q => queues'[f][r] = queues[f][r]
      /\ queues'[f][q] = Append(queues[f][q], m)
    BY <1>0, <1>2, <1>3
<1>6. \A g \in Files : Closing(g)' <=> Closing(g)
    BY <1>2 DEF Closing
<1>7. BindOK' /\ FirmwareOK' /\ FilesOK'
    BY <1>2, <1>3, <1>5 DEF IdsInv, LinksOK, BindOK, FirmwareOK, FilesOK
<1>8. ClaimsOK'
    <2>1. CASE q = "CREATE"
        BY <1>1, <1>2, <1>3, <1>4, <1>5, <2>1, ClaimsDeliver DEF IdsInv, LinksOK
    <2>2. CASE q # "CREATE"
        <3>1. KeepsCreates
            BY <1>5, <2>2 DEF KeepsCreates, QueueIds
        <3>2. KeepsUnread
            BY <1>2, SameUnread DEF KeepsUnread
        <3> QED
            BY <1>2, <3>1, <3>2, ClaimsQuiet DEF IdsInv, LinksOK
    <2> QED
        BY <2>1, <2>2
<1>9. IrqUserOK'
    BY <1>2 DEF IrqUserOK
<1>10. DestroysOK'
    <2>1. \A ch : (InStatus(ch)' <=> InStatus(ch)) /\ ~InIrq(ch)'
        BY <1>2 DEF InStatus, InIrq
    <2>2. \A g \in Files : g # f \/ q # "DESTROY" => queues'[g]["DESTROY"] = queues[g]["DESTROY"]
        BY <1>5 DEF QueueIds
    <2>3. ASSUME ~Closing(f), q = "DESTROY"
          PROVE  /\ Len(queues'[f]["DESTROY"]) = 1 /\ queues'[f]["DESTROY"][1].chan = chan_uid[f]
                 /\ chan_uid[f] \notin alive /\ ~InStatus(chan_uid[f])
        <3>1. m.uid = "DESTROY_CHANNEL" /\ m.chan = chan_uid[f]
            BY <1>1, <1>2, <1>4, <2>3 DEF IdsInv, LinksOK, IrqUserOK
        <3>2. NamesChannel(m, m.chan)
            BY <1>3, <3>1, FeedbackNames
        <3>3. InIrq(chan_uid[f])
            BY <1>1, <1>2, <3>1, <3>2 DEF InIrq
        <3>4. queues[f]["DESTROY"] = <<>>
            BY <1>3, <2>3, <3>3 DEF IdsInv, LinksOK, DestroysOK
        <3>5. queues'[f]["DESTROY"] = <<m>>
            BY <1>5, <2>3, <3>4
        <3>6. m.chan \notin alive /\ ~InStatus(m.chan)
            BY <1>1, <1>2, <3>1 DEF IdsInv, LinksOK, DestroysOK
        <3> QED
            BY <3>1, <3>5, <3>6
    <2>4. ASSUME NEW g \in Files, ~Closing(g)
          PROVE  /\ Len(queues'[g]["DESTROY"]) <= 1
                 /\ queues'[g]["DESTROY"] # <<>> =>
                       /\ queues'[g]["DESTROY"][1].chan = chan_uid[g]
                       /\ chan_uid[g] \notin alive /\ ~InStatus(chan_uid[g])
        <3>1. CASE g = f /\ q = "DESTROY"
            <4>1. ~Closing(f)
                BY <2>4, <3>1
            <4>2. /\ Len(queues'[f]["DESTROY"]) = 1 /\ queues'[f]["DESTROY"][1].chan = chan_uid[f]
                  /\ chan_uid[f] \notin alive /\ ~InStatus(chan_uid[f])
                BY <2>3, <3>1, <4>1
            <4> QED
                BY <3>1, <4>2
        <3>2. CASE g # f \/ q # "DESTROY"
            BY <2>2, <2>4, <3>2 DEF IdsInv, LinksOK, DestroysOK
        <3> QED
            BY <3>1, <3>2
    <2>5. ASSUME NEW g \in Files, ~Closing(g)', queues'[g]["DESTROY"] # <<>>
          PROVE  /\ queues'[g]["DESTROY"][1].chan = chan_uid'[g]
                 /\ chan_uid'[g] \notin alive' /\ ~InStatus(chan_uid[g])' /\ ~InIrq(chan_uid[g])'
        <3>1. PICK ch : ch = chan_uid[g] /\ ch = chan_uid'[g]
            BY <1>2
        <3>2. queues'[g]["DESTROY"][1].chan = ch /\ ch \notin alive /\ ~InStatus(ch)
            BY <1>6, <2>4, <2>5, <3>1
        <3> QED
            BY <1>2, <2>1, <3>1, <3>2
    <2>6. \A i \in 1..Len(status) : status[i].uid = "DESTROY_CHANNEL" =>
              /\ status[i].chan \notin alive
              /\ \A j \in 1..Len(status) : NamesChannel(status[j], status[i].chan) => j <= i
        BY DEF IdsInv, LinksOK, DestroysOK
    <2>7. \A g \in Files : ~Closing(g)' => Len(queues'[g]["DESTROY"]) <= 1
        BY <1>6, <2>4
    <2>8. irq' = NoIrq /\ status' = status /\ alive' = alive
        BY <1>2
    <2> QED
        BY <2>5, <2>6, <2>7, <2>8 DEF DestroysOK
<1>11. OrphansOK' /\ HoldersOK' /\ FramesReachChannel'
    BY <1>2 DEF IdsInv, LinksOK, OrphansOK, HoldersOK, FramesReachChannel, Held
<1> QED
    BY <1>7, <1>8, <1>9, <1>10, <1>11 DEF IdsInv, LinksOK

LEMMA IrqOrphanKeeps ==
    ASSUME UsersInv, IdsInv, IrqOrphan PROVE IdsInv'
<1>1. PICK m, ch : m = irq.mail /\ ch = irq.mail.chan
    OBVIOUS
<1>2. /\ irq # NoIrq /\ irq.user = NoFile /\ irq' = NoIrq
      /\ UNCHANGED <<uid, slot, chan_uid, queues, pc, after, signals, status, alive, pushed, frames, creator>>
    BY DEF IrqOrphan, groupVars, chanVars, queueVars, threadVars
<1>3. m \in Answers
    BY <1>1, <1>2, IdTypes
<1>4. \A g \in Files : Closing(g)' <=> Closing(g)
    BY <1>2 DEF Closing
<1>5. BindOK' /\ FirmwareOK' /\ FilesOK' /\ IrqUserOK'
    BY <1>2 DEF IdsInv, LinksOK, BindOK, FirmwareOK, FilesOK, IrqUserOK
<1>6. DestroysOK'
    <2>1. \A c : (InStatus(c)' <=> InStatus(c)) /\ ~InIrq(c)'
        BY <1>2 DEF InStatus, InIrq
    <2> QED
        BY <1>2, <1>4, <2>1 DEF IdsInv, LinksOK, DestroysOK
<1>7. CASE cmd' = cmd
    <2>1. KeepsUnread
        BY <1>2, <1>7, SameUnread DEF KeepsUnread
    <2>2. ClaimsOK'
        BY <1>2, <2>1, ClaimsQuiet DEF IdsInv, LinksOK, KeepsCreates
    <2>3. OrphansOK' /\ HoldersOK' /\ FramesReachChannel'
        BY <1>2, <1>7 DEF IdsInv, LinksOK, OrphansOK, HoldersOK, FramesReachChannel, Held
    <2> QED
        BY <1>5, <1>6, <2>2, <2>3 DEF IdsInv, LinksOK
<1>8. CASE cmd' # cmd
    <2>0. PICK o : o = OrphanMsg(ch)
        OBVIOUS
    <2>1. m.uid \notin {"SEARCH_START_CODE", "DESTROY_CHANNEL"} /\ cmd' = Append(cmd, o)
        BY <1>1, <1>8, <2>0 DEF IrqOrphan, should_destroy_channel_on_bad_feedback, al5_mcu_send
    <2>2. ch \in ChanIds /\ NamesChannel(m, ch)
        BY <1>1, <1>3, <2>1, AnswerParts, AnswerNames
    <2>3. o \in Commands /\ o.uid = "QUIET_DESTROY_CHANNEL" /\ o.chan = ch
        BY <2>0, <2>2, CommandTypes DEF OrphanMsg
    <2>4. \A c : NamesChannel(o, c) <=> c = ch
        BY <2>0, MessageNames
    <2>5. /\ \A i \in 1..Len(cmd') :
                (i \in 1..Len(cmd) /\ cmd'[i] = cmd[i]) \/ (i = Len(cmd) + 1 /\ cmd'[i] = o)
          /\ Len(cmd) \in Nat
        BY <2>1, <2>3, CmdAppended
    <2>6. ch # BAD_CHAN => ~Held(ch)
        <3>1. CASE m.uid = "CREATE_CHANNEL"
            BY <1>1, <1>2, <3>1 DEF IdsInv, LinksOK, ClaimsOK, IrqClaim, Unread
        <3>2. CASE m.uid # "CREATE_CHANNEL"
            BY <1>1, <1>2, <2>1, <3>2 DEF IdsInv, LinksOK, IrqUserOK
        <3> QED
            BY <3>1, <3>2
    <2>7. ClaimsOK'
        <3>1. InIrq(ch)
            BY <1>1, <1>2, <2>2 DEF InIrq
        <3>2. \A c : InCmd(c)' => InCmd(c) \/ c = ch
            BY <2>4, <2>5 DEF InCmd
        <3>3. KeepsUnread
            BY <1>2, <3>1, <3>2 DEF KeepsUnread, Unread, Held
        <3> QED
            BY <1>2, <3>3, ClaimsQuiet DEF IdsInv, LinksOK, KeepsCreates
    <2>8. OrphansOK'
        <3>1. \A c : Held(c)' <=> Held(c)
            BY <1>2 DEF Held
        <3>2. ASSUME NEW i \in 1..Len(cmd'), "orphan" \in DOMAIN cmd'[i], cmd'[i].chan # BAD_CHAN
              PROVE  ~Held(cmd'[i].chan)
            <4>1. CASE i \in 1..Len(cmd) /\ cmd'[i] = cmd[i]
                BY <3>2, <4>1 DEF IdsInv, LinksOK, OrphansOK
            <4>2. CASE i = Len(cmd) + 1 /\ cmd'[i] = o
                BY <2>3, <2>6, <3>2, <4>2
            <4> QED
                BY <2>5, <4>1, <4>2
        <3> QED
            BY <1>2, <3>2 DEF OrphansOK, Held
    <2>9. HoldersOK'
        <3> SUFFICES ASSUME signals = 0, NEW g \in Files, chan_uid[g] # BAD_CHAN,
                            ~ \E u \in Threads : FileOf[u] = g /\ pc[u] = "destroy_wait"
                     PROVE  /\ chan_uid[g] \in alive
                            /\ \A i \in 1..Len(cmd') : ~Destroys(cmd'[i], chan_uid[g])
            BY <1>2 DEF HoldersOK
        <3>1. chan_uid[g] \in alive /\ \A i \in 1..Len(cmd) : ~Destroys(cmd[i], chan_uid[g])
            BY DEF IdsInv, LinksOK, HoldersOK
        <3>2. ~Destroys(o, chan_uid[g])
            BY <2>3, <2>6 DEF Destroys, Held
        <3> QED
            BY <2>5, <3>1, <3>2
    <2>10. FramesReachChannel'
        BY <1>2, <2>1, <2>3, FramesAppend DEF IdsInv, LinksOK, FrameMsgs
    <2> QED
        BY <1>5, <1>6, <2>7, <2>8, <2>9, <2>10 DEF IdsInv, LinksOK
<1> QED
    BY <1>7, <1>8

-----------------------------------------------------------------------------
\* The steps encoder and decoder share, with a firmware that hands out fresh ids.
FreshStep ==
    \/ \E f \in Files : al5_codec_open(f)
    \/ \E t \in Threads : SharedCall(t)
    \/ Irq
    \/ McuStep /\ Fresh

LEMMA FreshKeepsIds == UsersInv /\ IdsInv /\ FreshStep => IdsInv'
<1> SUFFICES ASSUME UsersInv, IdsInv, FreshStep PROVE IdsInv'
    OBVIOUS
<1>1. ASSUME NEW f \in Files, al5_codec_open(f) PROVE IdsInv'
    BY <1>1, OpenKeeps
<1>2. ASSUME NEW t \in Threads, SharedCall(t) PROVE IdsInv'
    <2>1. CASE PassiveCall(t)
        BY <2>1, PassiveCalls, PassiveKeeps
    <2>2. CASE DestroyQuiet(t) \/ DestroySend(t) \/ DestroyAnswered(t)
        BY <2>2, DestroyQuietKeeps, DestroySendKeeps, DestroyAnsweredKeeps
    <2>3. CASE ReleaseFree(t) \/ ReleasePurge(t) \/ ReleaseUnbind(t)
        BY <2>3, ReleaseFreeKeeps, ReleasePurgeKeeps, ReleaseUnbindKeeps
    <2>4. CASE CreateSend(t) \/ \E op \in WaitOps : WaitReturn(t, op)
        BY <2>4, CreateSendKeeps, WaitReturnKeeps
    <2> QED
        BY <1>2, <2>1, <2>2, <2>3, <2>4 DEF SharedCall, DestroyStep, ReleaseStep, PassiveCall
<1>3. CASE Irq
    BY <1>3, IrqReadKeeps, IrqDeliverKeeps, IrqOrphanKeeps DEF Irq
<1>4. CASE McuStep /\ Fresh
    BY <1>4, FirmwareKeeps
<1> QED
    BY <1>1, <1>2, <1>3, <1>4 DEF FreshStep

\* What the firmware does unless it hands ids out again at once.
LEMMA CommandFresh ==
    PromptReuse = FALSE /\ McuCommand => McuStep /\ Fresh
    BY DEF McuCommand, McuStep, Fresh

LEMMA FeedbackFresh ==
    ASSUME NEW name \in {"ENCODE_ONE_FRM", "DECODE_ONE_FRM"}, McuReports(name), UNCHANGED userVars
    PROVE  McuStep /\ Fresh
    BY DEF McuReports, McuStep, Fresh

LEMMA IdsStutter == UsersInv /\ IdsInv /\ UNCHANGED <<userVars, mcuVars>> => IdsInv'
<1> SUFFICES ASSUME UsersInv, IdsInv, UNCHANGED <<userVars, mcuVars>> PROVE IdsInv'
    OBVIOUS
<1>1. Passive /\ UNCHANGED <<uid, slot, creator>>
    BY DEF Passive, Onward, Closing, userVars, mcuVars, groupVars, chanVars, queueVars, threadVars
<1> QED
    BY <1>1, PassiveKeeps

LEMMA IdsStart == UsersInit /\ McuInit => IdsInv
<1> SUFFICES ASSUME UsersInit, McuInit PROVE IdsInv
    OBVIOUS
<1>1. /\ uid = [f \in Files |-> -1] /\ slot = [i \in Slots |-> NoFile]
      /\ chan_uid = [f \in Files |-> BAD_CHAN] /\ irq = NoIrq /\ cmd = <<>> /\ status = <<>>
      /\ \A f \in Files : \A q \in QueueIds : queues[f][q] = <<>>
    BY DEF UsersInit, McuInit, Slots
<1>2. BindOK
    BY <1>1 DEF BindOK
<1>3. FirmwareOK
    BY DEF McuInit, FirmwareOK
<1>4. \A f \in Files : queues[f]["CREATE"] = <<>> /\ queues[f]["DESTROY"] = <<>>
    BY <1>1 DEF QueueIds
<1>5. ClaimsOK /\ DestroysOK
    BY <1>1, <1>4 DEF ClaimsOK, StatusClaims, IrqClaim, QueueClaims, DestroysOK
<1>6. FilesOK /\ IrqUserOK /\ OrphansOK /\ HoldersOK /\ FramesReachChannel
    BY <1>1 DEF FilesOK, IrqUserOK, OrphansOK, HoldersOK, FramesReachChannel
<1> QED
    BY <1>2, <1>3, <1>5, <1>6 DEF IdsInv, LinksOK
\* The answer to a create gives the file its channel, or none.
LEMMA AnsweredKeeps ==
    ASSUME UsersInv, IdsInv, NEW t \in Threads, pc[t] = "create_wait",
           NEW f, f = FileOf[t], NEW new, new = Head(queues[f]["CREATE"]).chan,
           queues[f]["CREATE"] # <<>>, PopAny(f, "CREATE"),
           chan_uid' = [chan_uid EXCEPT ![f] = new],
           NEW label, pc' = [pc EXCEPT ![t] = label],
           UNCHANGED <<uid, slot, after, signals, irq, cmd, status, alive, pushed, frames, creator>>
    PROVE  IdsInv'
<1>0. /\ ThreadTypes /\ chan_uid \in [Files -> ChanIds]
      /\ queues \in [Files -> [QueueIds -> Seq(Answers)]]
    BY IdTypes DEF UsersInv
<1>1. f \in Files /\ uid[f] # -1 /\ chan_uid[f] = BAD_CHAN
    BY UsersAssumption DEF UsersInv, CallsOK, ChannelOK
<1>2. PICK s : s = queues[f]["CREATE"]
    OBVIOUS
<1>3. s \in Seq(Answers) /\ s # <<>> /\ queues' = [queues EXCEPT ![f]["CREATE"] = Tail(s)]
    BY <1>1, <1>2, QueueTypes DEF PopAny
<1>4. /\ \A g \in Files : g # f => queues'[g] = queues[g]
      /\ queues'[f]["CREATE"] = Tail(queues[f]["CREATE"])
      /\ queues'[f]["DESTROY"] = queues[f]["DESTROY"]
    BY <1>0, <1>1, <1>2, <1>3 DEF QueueIds
<1>5. /\ \A g \in Files : g # f => chan_uid'[g] = chan_uid[g]
      /\ chan_uid'[f] = new
    BY <1>0, <1>1
<1>6. \A g \in Files : Closing(g)' <=> Closing(g)
    BY DEF Closing
<1>7. \A u \in Threads : pc[u] = "destroy_wait" => pc'[u] = pc[u]
    BY <1>0 DEF ThreadTypes
<1>8. new \in ChanIds /\ 1 \in 1..Len(queues[f]["CREATE"]) /\ new = queues[f]["CREATE"][1].chan
    BY <1>1, <1>2, <1>3, QueueTypes, Shrunk
<1>9. new # BAD_CHAN => Unread(new) /\ ~InStatus(new) /\ ~InIrq(new)
    BY <1>1, <1>8 DEF IdsInv, LinksOK, ClaimsOK, QueueClaims
<1>10. \A ch : Held(ch)' => Held(ch) \/ ch = new
    BY <1>5 DEF Held
<1>11. BindOK' /\ FirmwareOK'
    BY <1>1, <1>4, <1>5 DEF IdsInv, BindOK, FirmwareOK
<1>12. FilesOK'
    BY <1>1, <1>5, <1>9 DEF IdsInv, LinksOK, FilesOK, Unread, Held
<1>13. ClaimsOK'
    BY <1>1, <1>4, <1>5, ClaimsTaken DEF IdsInv, LinksOK
<1>14. IrqUserOK'
    <2> SUFFICES ASSUME irq # NoIrq, irq.mail.uid \notin {"CREATE_CHANNEL", "SEARCH_START_CODE"}
                 PROVE  /\ irq.user = NoFile => ~Held(irq.mail.chan)'
                        /\ irq.user # NoFile => Closing(irq.user)' \/ chan_uid'[irq.user] = irq.mail.chan
        BY DEF IrqUserOK
    <2>1. PICK ch, h : ch = irq.mail.chan /\ ch = irq'.mail.chan /\ h = irq.user /\ h = irq'.user
        OBVIOUS
    <2>2. ch \in Chans /\ InIrq(ch) /\ h \in Files \cup {NoFile}
        BY <2>1, IdTypes, FeedbackNames DEF InIrq
    <2>3. /\ h = NoFile => ~Held(ch)
          /\ h # NoFile => Closing(h) \/ chan_uid[h] = ch
        BY <2>1 DEF IdsInv, LinksOK, IrqUserOK
    <2>4. ch # new
        BY <1>9, <2>2, McuAssumption
    <2>5. h = NoFile => ~Held(ch)'
        BY <1>10, <2>3, <2>4
    <2>6. h # NoFile => Closing(h)' \/ chan_uid'[h] = ch
        BY <1>1, <1>5, <1>6, <2>2, <2>3, McuAssumption
    <2> QED
        BY <2>1, <2>5, <2>6
<1>15. DestroysOK'
    <2>1. \A ch : (InStatus(ch)' <=> InStatus(ch)) /\ (InIrq(ch)' <=> InIrq(ch))
        BY DEF InStatus, InIrq
    <2>2. ~Closing(f) => queues[f]["DESTROY"] = <<>>
        <3> SUFFICES ASSUME ~Closing(f), queues[f]["DESTROY"] # <<>> PROVE FALSE
            OBVIOUS
        <3>1. queues[f]["DESTROY"][1].chan = chan_uid[f]
            BY <1>1 DEF IdsInv, LinksOK, DestroysOK
        <3>2. 1 \in 1..Len(queues[f]["DESTROY"])
            BY <1>1, QueueTypes, Shrunk
        <3> QED
            BY <1>1, <3>1, <3>2, QueueTypes, McuAssumption
    <2>3. \A g \in Files : queues'[g]["DESTROY"] = queues[g]["DESTROY"]
        BY <1>4
    <2>4. ASSUME NEW g \in Files, ~Closing(g)', queues'[g]["DESTROY"] # <<>>
          PROVE  /\ queues'[g]["DESTROY"][1].chan = chan_uid'[g]
                 /\ chan_uid'[g] \notin alive /\ ~InStatus(chan_uid[g])' /\ ~InIrq(chan_uid[g])'
        <3>1. g # f
            BY <1>6, <2>2, <2>3, <2>4
        <3>2. PICK ch : ch = chan_uid[g] /\ ch = chan_uid'[g]
            BY <1>5, <3>1
        <3>3. ~Closing(g) /\ queues[g]["DESTROY"] # <<>>
            BY <1>6, <2>3, <2>4
        <3>4. queues[g]["DESTROY"][1].chan = ch /\ ch \notin alive /\ ~InStatus(ch) /\ ~InIrq(ch)
            BY <3>2, <3>3 DEF IdsInv, LinksOK, DestroysOK
        <3> QED
            BY <2>1, <2>3, <3>2, <3>4
    <2>5. \A g \in Files : ~Closing(g)' => Len(queues'[g]["DESTROY"]) <= 1
        BY <1>6, <2>3 DEF IdsInv, LinksOK, DestroysOK
    <2>6. /\ \A i \in 1..Len(status) : status[i].uid = "DESTROY_CHANNEL" =>
              /\ status[i].chan \notin alive
              /\ \A j \in 1..Len(status) : NamesChannel(status[j], status[i].chan) => j <= i
          /\ irq # NoIrq /\ irq.mail.uid = "DESTROY_CHANNEL" =>
              irq.mail.chan \notin alive /\ ~InStatus(irq.mail.chan)
        BY DEF IdsInv, LinksOK, DestroysOK
    <2> QED
        BY <2>1, <2>4, <2>5, <2>6 DEF DestroysOK
<1>16. OrphansOK'
    <2>1. ASSUME NEW i \in 1..Len(cmd), "orphan" \in DOMAIN cmd[i], cmd[i].chan # BAD_CHAN
          PROVE  ~Held(cmd[i].chan)'
        <3>1. PICK ch : ch = cmd[i].chan /\ ch = cmd'[i].chan
            OBVIOUS
        <3>2. ~Held(ch)
            BY <2>1, <3>1 DEF IdsInv, LinksOK, OrphansOK
        <3>3. NamesChannel(cmd[i], ch)
            BY <2>1, <3>1, IdTypes, CommandNames DEF ChannelCommands
        <3>4. ch # new
            BY <1>9, <2>1, <3>1, <3>3 DEF Unread, InCmd
        <3> QED
            BY <1>10, <3>1, <3>2, <3>4
    <2> QED
        BY <2>1 DEF OrphansOK
<1>17. HoldersOK'
    <2> SUFFICES ASSUME signals = 0, NEW g \in Files, chan_uid'[g] # BAD_CHAN
                 PROVE  \/ /\ chan_uid'[g] \in alive
                           /\ \A i \in 1..Len(cmd) : ~Destroys(cmd[i], chan_uid'[g])
                        \/ \E u \in Threads : FileOf[u] = g /\ pc'[u] = "destroy_wait"
        BY DEF HoldersOK
    <2>1. CASE g # f
        BY <1>5, <1>7, <2>1 DEF IdsInv, LinksOK, HoldersOK
    <2>2. CASE g = f
        <3>1. Unread(new)
            BY <1>5, <1>9, <2>2
        <3>2. ASSUME NEW i \in 1..Len(cmd), Destroys(cmd[i], new) PROVE FALSE
            <4>1. NamesChannel(cmd[i], new)
                BY <3>2, IdTypes, CommandNames DEF Destroys, ChannelCommands
            <4> QED
                BY <3>1, <4>1 DEF Unread, InCmd
        <3> QED
            BY <1>5, <2>2, <3>1, <3>2 DEF Unread
    <2> QED
        BY <2>1, <2>2
<1>18. FramesReachChannel'
    BY DEF IdsInv, LinksOK, FramesReachChannel
<1> QED
    BY <1>11, <1>12, <1>13, <1>14, <1>15, <1>16, <1>17, <1>18 DEF IdsInv, LinksOK

\* A destroy that waits holds every mutex of the file.
LEMMA NobodyDestroys ==
    ASSUME UsersInv, NEW t \in Threads, NEW op \in OpIds, IsFree(t, op)
    PROVE  \A u \in Threads : FileOf[u] = FileOf[t] => pc[u] # "destroy_wait"
<1>1. \A u \in Threads : pc[u] = "destroy_wait" => op \in Needs(u)
    BY DEF Needs
<1> QED
    BY <1>1, UsersAssumption DEF UsersInv, LocksOK, IsFree

\* A call sends on the channel of its file.
LEMMA ChannelSend ==
    ASSUME UsersInv, IdsInv, NEW f \in Files, NEW name \in ChannelCommands,
           name \notin {"DESTROY_CHANNEL", "QUIET_DESTROY_CHANNEL"},
           cmd' = Append(cmd, ChanMsg(name, chan_uid[f])),
           name \in FrameMsgs => /\ chan_uid[f] # BAD_CHAN
                                 /\ \A t \in Threads : FileOf[t] = f => pc[t] # "destroy_wait",
           Onward,
           UNCHANGED <<uid, slot, chan_uid, status, irq, queues, alive, pushed, frames, creator>>
    PROVE  IdsInv'
<1>1. PICK m : m = ChanMsg(name, chan_uid[f])
    OBVIOUS
<1>2. m \in Commands
    BY <1>1, CommandTypes, IdTypes
<1>3. /\ m.uid = name /\ m.chan = chan_uid[f] /\ "orphan" \notin DOMAIN m
      /\ \A ch : NamesChannel(m, ch) => ch = chan_uid[f]
    BY <1>1, MessageNames DEF ChanMsg
<1>4. Sends(f, m)
    BY <1>1, <1>3 DEF Sends, Destroys
<1> QED
    BY <1>2, <1>4, SendKeeps

-----------------------------------------------------------------------------
\* What the invariant says of every step and every state.

\* No file but the holder of a channel goes by its id.
LEMMA IdsDistinct == IdsInv => ChannelsDistinct
    BY DEF IdsInv, LinksOK, FilesOK, ChannelsDistinct, al5_chan_is_created

LEMMA IdsFrames == IdsInv => FramesReachChannel
    BY DEF IdsInv, LinksOK
-----------------------------------------------------------------------------
\* Who ends the wait for the answer to a destroy: the answer, or a signal.
Ends(t) == DestroyAnswered(t) \/ DestroyInterrupted(t)

LEMMA WaitEnds ==
    ASSUME UsersInv, SharedStep, NEW t \in Threads, pc[t] = "destroy_wait", pc'[t] = "destroy_unlock"
    PROVE  Ends(t)
<1>0. ThreadTypes
    BY DEF UsersInv
<1> USE <1>0 DEF ThreadTypes, Ends
<1>1. ASSUME NEW f \in Files, al5_codec_open(f) PROVE FALSE
    BY <1>1 DEF al5_codec_open, threadVars
<1>2. ASSUME NEW u \in Threads, DestroyEnter(u) PROVE Ends(t)
    BY <1>2 DEF DestroyEnter, MayCall, Goto
<1>3. ASSUME NEW u \in Threads, DestroyQueues(u) PROVE Ends(t)
    BY <1>3 DEF DestroyQueues, Goto
<1>4. ASSUME NEW u \in Threads, DestroyMutex(u) PROVE Ends(t)
    BY <1>4 DEF DestroyMutex, Goto
<1>5. ASSUME NEW u \in Threads, DestroyKilled(u) PROVE Ends(t)
    BY <1>5 DEF DestroyKilled, Goto
<1>6. ASSUME NEW u \in Threads, DestroyRefused(u) PROVE Ends(t)
    BY <1>6 DEF DestroyRefused, Goto
<1>7. ASSUME NEW u \in Threads, DestroyQuiet(u) PROVE Ends(t)
    BY <1>7 DEF DestroyQuiet, Goto
<1>8. ASSUME NEW u \in Threads, DestroySend(u) PROVE Ends(t)
    BY <1>8 DEF DestroySend, Goto
<1>9. ASSUME NEW u \in Threads, DestroyAnswered(u) PROVE Ends(t)
    BY <1>9 DEF DestroyAnswered, Goto
<1>10. ASSUME NEW u \in Threads, DestroyInterrupted(u) PROVE Ends(t)
    BY <1>10 DEF DestroyInterrupted, Goto
<1>11. ASSUME NEW u \in Threads, DestroyUnlock(u) PROVE Ends(t)
    BY <1>11 DEF DestroyUnlock, Goto
<1>12. ASSUME NEW u \in Threads, DestroyRelock(u) PROVE Ends(t)
    BY <1>12 DEF DestroyRelock, Goto
<1>13. ASSUME NEW u \in Threads, ReleaseEnter(u) PROVE Ends(t)
    BY <1>13 DEF ReleaseEnter, Goto
<1>14. ASSUME NEW u \in Threads, ReleaseTry(u) PROVE Ends(t)
    BY <1>14 DEF ReleaseTry, Goto
<1>15. ASSUME NEW u \in Threads, ReleaseFree(u) PROVE Ends(t)
    BY <1>15 DEF ReleaseFree, Goto
<1>16. ASSUME NEW u \in Threads, ReleasePurge(u) PROVE Ends(t)
    BY <1>16 DEF ReleasePurge, Goto
<1>17. ASSUME NEW u \in Threads, ReleaseUnbind(u) PROVE Ends(t)
    BY <1>17 DEF ReleaseUnbind, Goto
<1>18. ASSUME NEW u \in Threads, CreateSend(u) PROVE Ends(t)
    BY <1>18 DEF CreateSend, Goto
<1>19. ASSUME NEW u \in Threads, CreateWoken(u) PROVE Ends(t)
    BY <1>19 DEF CreateWoken, CreateReturn, Goto
<1>20. ASSUME NEW u \in Threads, CreateGivesUp(u) PROVE Ends(t)
    BY <1>20 DEF CreateGivesUp, CreateReturn, Goto
<1>21. ASSUME NEW u \in Threads, NEW op \in WaitOps, WaitCall(u, op) PROVE Ends(t)
    BY <1>21 DEF WaitCall, WaitEnter, Goto, Waiting, WaitOps
<1>22. ASSUME NEW u \in Threads, NEW op \in WaitOps, WaitReturn(u, op) PROVE Ends(t)
    BY <1>22 DEF WaitReturn, Goto, Waiting, WaitOps
<1>23. ASSUME NEW u \in Threads, NEW op \in WaitOps, WaitInterrupted(u, op) PROVE Ends(t)
    BY <1>23 DEF WaitInterrupted, Goto, Waiting, WaitOps
<1>24. Irq \/ McuStep => FALSE
    BY DEF Irq, IrqRead, IrqDeliver, IrqOrphan, McuStep, userVars, threadVars
<1> QED
    BY <1>1, <1>2, <1>3, <1>4, <1>5, <1>6, <1>7, <1>8, <1>9, <1>10, <1>11, <1>12, <1>13,
       <1>14, <1>15, <1>16, <1>17, <1>18, <1>19, <1>20, <1>21, <1>22, <1>23, <1>24 DEF
       SharedStep, SharedCall, DestroyStep, ReleaseStep

\* When it is the answer, the channel is dead.
LEMMA AnsweredIsDead ==
    ASSUME UsersInv, IdsInv, NEW t \in Threads, Ends(t), chan_uid'[FileOf[t]] = BAD_CHAN
    PROVE  chan_uid[FileOf[t]] \notin alive
<1>0. FileOf[t] \in Files /\ alive \subseteq Chans
    BY UsersAssumption, IdTypes
<1>1. CASE DestroyAnswered(t)
    <2>1. pc[t] = "destroy_wait" /\ queues[FileOf[t]]["DESTROY"] # <<>>
        BY <1>1 DEF DestroyAnswered
    <2>2. ~Closing(FileOf[t])
        BY <2>1, WaitsOpen
    <2> QED
        BY <1>0, <2>1, <2>2 DEF IdsInv, LinksOK, DestroysOK
<1>2. CASE DestroyInterrupted(t)
    <2>1. chan_uid' = chan_uid
        BY <1>2 DEF DestroyInterrupted, chanVars
    <2> QED
        BY <1>0, <2>1, McuAssumption
<1> QED
    BY <1>1, <1>2 DEF Ends
=============================================================================
