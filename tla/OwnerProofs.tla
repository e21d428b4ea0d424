---------------------------- MODULE OwnerProofs -----------------------------
(***************************************************************************)
(* Proofs about who owns a channel and whose mail is in a queue, for the   *)
(* steps that encoder and decoder share.                                   *)
(***************************************************************************)
EXTENDS ChannelProofs

-----------------------------------------------------------------------------
\* The invariant about who owns what, in parts.  It is claimed until a wait is cut
\* short, for clients with one thread per file that creates and destroys.

Control(t) == Ops[t] \cap {"CREATE", "DESTROY"} # {}

OneControl ==
    \A t, u \in Threads : FileOf[t] = FileOf[u] /\ Control(t) /\ Control(u) => t = u

ControlOK ==
    \A t \in Threads :
        pc[t] \in Creating \cup Destroying \cup {"destroy_enter"} => Control(t) \/ after[t] = "release"

\* The mails of a create: a file has one under way at most, and a thread that waits
\* for it, so that nobody else takes it for an answer to another create.
IsAsk(m, f)    == m.uid = "CREATE_CHANNEL" /\ m.by = f
AskInCmd(f)    == \E i \in 1..Len(cmd) : IsAsk(cmd[i], f)
AskInStatus(f) == \E i \in 1..Len(status) : IsAsk(status[i], f)
AskInIrq(f)    == irq # NoIrq /\ IsAsk(irq.mail, f)
AskInQueue(f)  == queues[f]["CREATE"] # <<>>
Asked(f)       == AskInCmd(f) \/ AskInStatus(f) \/ AskInIrq(f) \/ AskInQueue(f)

OneAsk(f) ==
    /\ \A i, j \in 1..Len(cmd) : IsAsk(cmd[i], f) /\ IsAsk(cmd[j], f) => i = j
    /\ \A i, j \in 1..Len(status) : IsAsk(status[i], f) /\ IsAsk(status[j], f) => i = j
    /\ Len(queues[f]["CREATE"]) <= 1
    /\ AskInCmd(f) => ~AskInStatus(f) /\ ~AskInIrq(f) /\ ~AskInQueue(f)
    /\ AskInStatus(f) => ~AskInIrq(f) /\ ~AskInQueue(f)
    /\ AskInIrq(f) => ~AskInQueue(f)

Waits(f) == \E t \in Threads : FileOf[t] = f /\ pc[t] = "create_wait"

AskOK(f) ==
    /\ Asked(f) => Waits(f)
    /\ \A i \in 1..Len(cmd) : IsAsk(cmd[i], f) => cmd[i].user = uid[f]
    /\ \A i \in 1..Len(status) : IsAsk(status[i], f) => status[i].user = uid[f]
    /\ AskInIrq(f) => irq.user = f
    /\ \A i \in 1..Len(queues[f]["CREATE"]) : queues[f]["CREATE"][i].by = f
    /\ OneAsk(f)

AsksOK == \A f \in Files : AskOK(f)

\* A file claims the channel it holds, and the one in the answer to its create.
AnswerFor(f, ch) ==
    \/ \E i \in 1..Len(status) : IsAsk(status[i], f) /\ status[i].chan = ch
    \/ AskInIrq(f) /\ irq.mail.chan = ch
    \/ \E i \in 1..Len(queues[f]["CREATE"]) : queues[f]["CREATE"][i].chan = ch

Claims(f, ch) == chan_uid[f] = ch \/ AnswerFor(f, ch)

\* Who claims a channel made it, and who made it claims it until its destroy is sent.
MadeOK  == \A f \in Files : \A ch \in Chans : Claims(f, ch) => creator[ch] \in {f, NoFile}
OwnedOK == \A ch \in alive : \A f \in Files :
              creator[ch] = f => Claims(f, ch) \/ DestroyQueued(ch)

\* At the end of a close the channel is gone or given up.
GivenUpOK ==
    \A t \in Threads : \A ch \in Chans :
        pc[t] \in {"release_purge", "release_unbind"} /\ chan_uid[FileOf[t]] = ch => creator[ch] = NoFile

\* Feedback of a channel is meant for the file that holds the channel.
IsFeedback(m) == m.uid \notin {"CREATE_CHANNEL", "SEARCH_START_CODE"}

FeedbackOK ==
    /\ \A i \in 1..Len(status) : IsFeedback(status[i]) =>
          \A f \in Files : chan_uid[f] = status[i].chan => status[i].by \in {f, NoFile}
    /\ irq # NoIrq /\ IsFeedback(irq.mail) /\ irq.user # NoFile => irq.mail.by \in {irq.user, NoFile}

\* What is in the queues, start codes apart, was meant for the file.
MailsOK ==
    \A f \in Files : \A q \in QueueIds \ {"SC"} :
        \A i \in 1..Len(queues[f][q]) : queues[f][q][i].by \in {f, NoFile}

OwnInv == ControlOK /\ AsksOK /\ MadeOK /\ OwnedOK /\ GivenUpOK /\ FeedbackOK /\ MailsOK
-----------------------------------------------------------------------------
\* The mails of creates, file by file.

\* The mails of a file's creates stay where they are, or some of them are gone.
SameAsks(f) ==
    /\ \E d \in {0, 1} : \A i \in 1..Len(cmd') : IsAsk(cmd'[i], f) =>
          i + d \in 1..Len(cmd) /\ cmd'[i] = cmd[i+d]
    /\ \E d \in {0, 1} : \A i \in 1..Len(status') : IsAsk(status'[i], f) =>
          i + d \in 1..Len(status) /\ status'[i] = status[i+d]
    /\ AskInIrq(f)' => AskInIrq(f) /\ irq' = irq
    /\ queues'[f]["CREATE"] = queues[f]["CREATE"]
    /\ Waits(f) => Waits(f)' /\ uid'[f] = uid[f]

LEMMA SameAsksKeep ==
    ASSUME NEW f \in Files, AskOK(f), SameAsks(f) PROVE AskOK(f)'
<1>1. PICK d \in {0, 1} : \A i \in 1..Len(cmd') : IsAsk(cmd'[i], f) =>
          i + d \in 1..Len(cmd) /\ cmd'[i] = cmd[i+d]
    BY DEF SameAsks
<1>2. PICK e \in {0, 1} : \A i \in 1..Len(status') : IsAsk(status'[i], f) =>
          i + e \in 1..Len(status) /\ status'[i] = status[i+e]
    BY DEF SameAsks
<1>3. /\ AskInIrq(f)' => AskInIrq(f) /\ irq' = irq
      /\ queues'[f]["CREATE"] = queues[f]["CREATE"]
      /\ Waits(f) => Waits(f)' /\ uid'[f] = uid[f]
    BY DEF SameAsks
<1>4. /\ AskInCmd(f)' => AskInCmd(f)
      /\ AskInStatus(f)' => AskInStatus(f)
      /\ AskInQueue(f)' <=> AskInQueue(f)
    BY <1>1, <1>2, <1>3 DEF AskInCmd, AskInStatus, AskInQueue
<1>5. OneAsk(f)'
    <2>1. OneAsk(f)
        BY DEF AskOK
    <2>2. \A i, j \in 1..Len(cmd') : IsAsk(cmd'[i], f) /\ IsAsk(cmd'[j], f) => i = j
        <3> SUFFICES ASSUME NEW i \in 1..Len(cmd'), NEW j \in 1..Len(cmd'),
                            IsAsk(cmd'[i], f), IsAsk(cmd'[j], f)
                     PROVE  i = j
            OBVIOUS
        <3>1. /\ i + d \in 1..Len(cmd) /\ IsAsk(cmd[i+d], f)
              /\ j + d \in 1..Len(cmd) /\ IsAsk(cmd[j+d], f)
            BY <1>1 DEF IsAsk
        <3>2. i + d = j + d
            BY <2>1, <3>1 DEF OneAsk
        <3> QED
            BY <3>2
    <2>3. \A i, j \in 1..Len(status') : IsAsk(status'[i], f) /\ IsAsk(status'[j], f) => i = j
        <3> SUFFICES ASSUME NEW i \in 1..Len(status'), NEW j \in 1..Len(status'),
                            IsAsk(status'[i], f), IsAsk(status'[j], f)
                     PROVE  i = j
            OBVIOUS
        <3>1. /\ i + e \in 1..Len(status) /\ IsAsk(status[i+e], f)
              /\ j + e \in 1..Len(status) /\ IsAsk(status[j+e], f)
            BY <1>2 DEF IsAsk
        <3>2. i + e = j + e
            BY <2>1, <3>1 DEF OneAsk
        <3> QED
            BY <3>2
    <2> QED
        BY <1>3, <1>4, <2>1, <2>2, <2>3 DEF OneAsk
<1>6. Asked(f)' => Asked(f) /\ Waits(f)
    BY <1>3, <1>4 DEF Asked, AskOK
<1>7. \A i \in 1..Len(cmd') : IsAsk(cmd'[i], f) => cmd'[i].user = uid'[f]
    <2> SUFFICES ASSUME NEW i \in 1..Len(cmd'), IsAsk(cmd'[i], f) PROVE cmd'[i].user = uid'[f]
        OBVIOUS
    <2>1. i + d \in 1..Len(cmd) /\ IsAsk(cmd[i+d], f) /\ cmd'[i] = cmd[i+d]
        BY <1>1
    <2>2. Waits(f)
        BY <2>1 DEF AskOK, Asked, AskInCmd
    <2> QED
        BY <1>3, <2>1, <2>2 DEF AskOK
<1>8. \A i \in 1..Len(status') : IsAsk(status'[i], f) => status'[i].user = uid'[f]
    <2> SUFFICES ASSUME NEW i \in 1..Len(status'), IsAsk(status'[i], f) PROVE status'[i].user = uid'[f]
        OBVIOUS
    <2>1. i + e \in 1..Len(status) /\ IsAsk(status[i+e], f) /\ status'[i] = status[i+e]
        BY <1>2
    <2>2. Waits(f)
        BY <2>1 DEF AskOK, Asked, AskInStatus
    <2> QED
        BY <1>3, <2>1, <2>2 DEF AskOK
<1>9. /\ AskInIrq(f)' => irq'.user = f
      /\ \A i \in 1..Len(queues'[f]["CREATE"]) : queues'[f]["CREATE"][i].by = f
    BY <1>3 DEF AskOK
<1> QED
    BY <1>3, <1>5, <1>6, <1>7, <1>8, <1>9 DEF AskOK

\* A file that asks for nothing.
LEMMA NoAskOK ==
    ASSUME NEW f \in Files, ~Asked(f)' PROVE AskOK(f)'
<1>1. queues'[f]["CREATE"] = <<>> /\ Len(queues'[f]["CREATE"]) = 0
    BY DEF Asked, AskInQueue
<1>2. /\ \A i \in 1..Len(cmd') : ~IsAsk(cmd'[i], f)
      /\ \A i \in 1..Len(status') : ~IsAsk(status'[i], f)
      /\ ~AskInIrq(f)' /\ ~AskInCmd(f)' /\ ~AskInStatus(f)' /\ ~AskInQueue(f)'
    BY DEF Asked, AskInCmd, AskInStatus
<1>3. OneAsk(f)'
    BY <1>1, <1>2 DEF OneAsk
<1> QED
    BY <1>1, <1>2, <1>3 DEF AskOK
-----------------------------------------------------------------------------
\* Owners.

\* The mails of files in the CREATE queues are answers, so they name a channel or none.
LEMMA ClaimTypes ==
    ASSUME UsersInv, IdsInv, NEW f \in Files, NEW ch \in Chans, AnswerFor(f, ch)
    PROVE  Unread(ch)
<1>1. ClaimsOK /\ ch # BAD_CHAN
    BY McuAssumption DEF IdsInv, LinksOK
<1>2. ASSUME NEW i \in 1..Len(status), IsAsk(status[i], f), status[i].chan = ch PROVE Unread(ch)
    BY <1>1, <1>2 DEF ClaimsOK, StatusClaims, IsAsk
<1>3. ASSUME AskInIrq(f), irq.mail.chan = ch PROVE Unread(ch)
    BY <1>1, <1>3 DEF ClaimsOK, IrqClaim, IsAsk, AskInIrq
<1>4. ASSUME NEW i \in 1..Len(queues[f]["CREATE"]), queues[f]["CREATE"][i].chan = ch PROVE Unread(ch)
    BY <1>1, <1>4 DEF ClaimsOK, QueueClaims
<1> QED
    BY <1>2, <1>3, <1>4 DEF AnswerFor

\* A step that makes no channel, and after which a channel that lives is claimed as
\* before, given up, or about to be destroyed.
Settles ==
    /\ alive' \subseteq alive
    /\ \A f \in Files : \A ch \in Chans : Claims(f, ch)' => Claims(f, ch)
    /\ \A f \in Files : \A ch \in alive' : Claims(f, ch) =>
          Claims(f, ch)' \/ creator'[ch] = NoFile \/ DestroyQueued(ch)'
    /\ \A ch \in Chans : creator'[ch] \in {creator[ch], NoFile}
    /\ \A ch \in alive' : DestroyQueued(ch) => DestroyQueued(ch)'

LEMMA SettlesKeeps ==
    ASSUME UsersInv, MadeOK, OwnedOK, Settles PROVE MadeOK' /\ OwnedOK'
<1>1. MadeOK'
    BY DEF MadeOK, Settles
<1>2. OwnedOK'
    <2> SUFFICES ASSUME NEW ch \in alive', NEW f \in Files, creator'[ch] = f
                 PROVE  Claims(f, ch)' \/ DestroyQueued(ch)'
        BY DEF OwnedOK
    <2>1. f # NoFile /\ ch \in alive /\ ch \in Chans
        BY IdTypes, McuAssumption DEF Settles
    <2>2. creator[ch] = f
        BY <2>1 DEF Settles
    <2>3. Claims(f, ch) \/ DestroyQueued(ch)
        BY <2>1, <2>2 DEF OwnedOK
    <2> QED
        BY <2>1, <2>3 DEF Settles
<1> QED
    BY <1>1, <1>2

-----------------------------------------------------------------------------
\* Steps that leave the mails of creates where they are.

Calm ==
    /\ cmd' = cmd \/ \E m \in Commands : m.uid # "CREATE_CHANNEL" /\ cmd' = Append(cmd, m)
    /\ UNCHANGED <<status, alive>>
    /\ irq' = irq \/ (irq' = NoIrq /\ irq.mail.uid # "CREATE_CHANNEL")
    /\ \A f \in Files : queues'[f]["CREATE"] = queues[f]["CREATE"]
    /\ \A f \in Files : Waits(f) => Waits(f)' /\ uid'[f] = uid[f]

\* What such a step does to the command box.
LEMMA CalmCommands ==
    ASSUME UsersInv, Calm
    PROVE  /\ \A i \in 1..Len(cmd) : i \in 1..Len(cmd') /\ cmd'[i] = cmd[i]
           /\ \A i \in 1..Len(cmd') : cmd'[i].uid = "CREATE_CHANNEL" => i \in 1..Len(cmd) /\ cmd'[i] = cmd[i]
<1>1. CASE cmd' = cmd
    BY <1>1
<1>2. ASSUME NEW m \in Commands, m.uid # "CREATE_CHANNEL", cmd' = Append(cmd, m)
      PROVE  /\ \A i \in 1..Len(cmd) : i \in 1..Len(cmd') /\ cmd'[i] = cmd[i]
             /\ \A i \in 1..Len(cmd') : cmd'[i].uid = "CREATE_CHANNEL" =>
                   i \in 1..Len(cmd) /\ cmd'[i] = cmd[i]
    <2>1. cmd \in Seq(Commands)
        BY IdTypes
    <2> QED
        BY <1>2, <2>1, Grown
<1> QED
    BY <1>1, <1>2 DEF Calm

LEMMA CalmAsks == UsersInv /\ AsksOK /\ Calm => AsksOK'
<1> SUFFICES ASSUME UsersInv, AsksOK, Calm, NEW f \in Files PROVE AskOK(f)'
    BY DEF AsksOK
<1>1. \A i \in 1..Len(cmd') : IsAsk(cmd'[i], f) => i + 0 \in 1..Len(cmd) /\ cmd'[i] = cmd[i+0]
    BY CalmCommands DEF IsAsk
<1>2. \A i \in 1..Len(status') : IsAsk(status'[i], f) => i + 0 \in 1..Len(status) /\ status'[i] = status[i+0]
    BY DEF Calm
<1>3. AskInIrq(f)' => AskInIrq(f) /\ irq' = irq
    BY DEF Calm, AskInIrq, IsAsk
<1>4. SameAsks(f)
    BY <1>1, <1>2, <1>3 DEF Calm, SameAsks
<1> QED
    BY <1>4, SameAsksKeep DEF AsksOK

LEMMA CalmAnswers ==
    ASSUME Calm, NEW f \in Files, NEW ch
    PROVE  AnswerFor(f, ch)' <=> AnswerFor(f, ch)
<1>1. AskInIrq(f)' /\ irq'.mail.chan = ch <=> AskInIrq(f) /\ irq.mail.chan = ch
    BY DEF Calm, AskInIrq, IsAsk
<1> QED
    BY <1>1 DEF Calm, AnswerFor

LEMMA CalmDestroys ==
    ASSUME UsersInv, Calm, NEW ch, DestroyQueued(ch) PROVE DestroyQueued(ch)'
    BY CalmCommands DEF DestroyQueued

\* What else such a step may do: let go of a channel that is dead, given up or about
\* to be destroyed, give channels up, read mails, and be given mails meant for the file.
Drops ==
    \A f \in Files : \/ chan_uid'[f] = chan_uid[f]
                     \/ /\ chan_uid'[f] = BAD_CHAN
                        /\ \A ch \in alive : ch = chan_uid[f] => creator'[ch] = NoFile \/ DestroyQueued(ch)'

GivesUp ==
    /\ \A ch \in Chans : creator'[ch] \in {creator[ch], NoFile}
    /\ \A t \in Threads : \A ch \in Chans :
          pc'[t] \in {"release_purge", "release_unbind"} /\ chan_uid'[FileOf[t]] = ch =>
              creator'[ch] = NoFile \/ (pc[t] \in {"release_purge", "release_unbind"} /\ chan_uid[FileOf[t]] = ch)

Reads ==
    \A f \in Files : \A q \in QueueIds \ {"SC"} : \A i \in 1..Len(queues'[f][q]) :
        \/ queues'[f][q][i].by \in {f, NoFile}
        \/ \E k \in 1..Len(queues[f][q]) : queues'[f][q][i] = queues[f][q][k]

\* Feedback on its way is meant for the file that holds the channel, when no file is
\* given a channel and no feedback is added.
LEMMA DropsFeedback ==
    ASSUME UsersInv, FeedbackOK, Drops, status' = status, irq' = irq \/ irq' = NoIrq
    PROVE  FeedbackOK'
<1>1. \A i \in 1..Len(status) : IsFeedback(status[i]) =>
         \A f \in Files : chan_uid'[f] = status[i].chan => status[i].by \in {f, NoFile}
    <2> SUFFICES ASSUME NEW i \in 1..Len(status), IsFeedback(status[i]), NEW f \in Files,
                        chan_uid'[f] = status[i].chan
                 PROVE  status[i].by \in {f, NoFile}
        OBVIOUS
    <2>1. status[i] \in Answers
        BY IdTypes
    <2>2. status[i].chan # BAD_CHAN
        BY <2>1, FeedbackNames, McuAssumption DEF IsFeedback
    <2> QED
        BY <2>2 DEF Drops, FeedbackOK
<1> QED
    BY <1>1 DEF FeedbackOK

LEMMA CalmKeeps ==
    ASSUME UsersInv, OwnInv, Calm, Drops, GivesUp, Reads, ControlOK'
    PROVE  OwnInv'
<1>1. AsksOK'
    BY CalmAsks DEF OwnInv
<1>2. \A f \in Files : \A ch \in Chans : Claims(f, ch)' => Claims(f, ch)
    BY CalmAnswers, McuAssumption DEF Claims, Drops
<1>3. \A f \in Files : \A ch \in alive : Claims(f, ch) =>
         Claims(f, ch)' \/ creator'[ch] = NoFile \/ DestroyQueued(ch)'
    BY CalmAnswers DEF Claims, Drops
<1>4. Settles
    BY <1>2, <1>3, CalmDestroys DEF Settles, Calm, GivesUp
<1>5. MadeOK' /\ OwnedOK'
    BY <1>4, SettlesKeeps DEF OwnInv
<1>6. GivenUpOK'
    BY DEF OwnInv, GivenUpOK, GivesUp
<1>7. FeedbackOK'
    BY DropsFeedback DEF OwnInv, Calm
<1>8. MailsOK'
    BY DEF OwnInv, MailsOK, Reads
<1> QED
    BY <1>1, <1>5, <1>6, <1>7, <1>8 DEF OwnInv
-----------------------------------------------------------------------------
\* The calls.

\* Only the thread that steps can come under control.
LEMMA ControlStep ==
    ASSUME ThreadTypes, ControlOK, NEW t \in Threads, NEW label, NEW s,
           pc' = [pc EXCEPT ![t] = label], after' = [after EXCEPT ![t] = s],
           label \in Creating \cup Destroying \cup {"destroy_enter"} => Control(t) \/ s = "release"
    PROVE  ControlOK'
<1>1. \A u \in Threads : /\ pc'[u] = IF u = t THEN label ELSE pc[u]
                         /\ after'[u] = IF u = t THEN s ELSE after[u]
    BY DEF ThreadTypes
<1>2. ASSUME NEW u \in Threads, pc'[u] \in Creating \cup Destroying \cup {"destroy_enter"}
      PROVE  Control(u) \/ after'[u] = "release"
    BY <1>1, <1>2 DEF ControlOK
<1> QED
    BY <1>2 DEF ControlOK, Control

LEMMA StillWaits ==
    ASSUME ThreadTypes, NEW t \in Threads, NEW label, pc' = [pc EXCEPT ![t] = label],
           pc[t] # "create_wait", NEW f, Waits(f)
    PROVE  Waits(f)'
    BY DEF ThreadTypes, Waits

\* A step of a thread that at most sends a mail.
Still(t, label, s) ==
    /\ pc' = [pc EXCEPT ![t] = label]
    /\ after' = [after EXCEPT ![t] = s]
    /\ pc[t] # "create_wait"
    /\ label \in Creating \cup Destroying \cup {"destroy_enter"} => Control(t) \/ s = "release"
    /\ label \in {"release_purge", "release_unbind"} => chan_uid[FileOf[t]] = BAD_CHAN
    /\ cmd' = cmd \/ \E m \in Commands : m.uid # "CREATE_CHANNEL" /\ cmd' = Append(cmd, m)
    /\ UNCHANGED <<status, alive, irq, queues, uid, chan_uid, creator>>

LEMMA StillKeeps ==
    ASSUME UsersInv, OwnInv, NEW t \in Threads, NEW label, NEW s, Still(t, label, s)
    PROVE  OwnInv'
<1>1. ThreadTypes /\ ControlOK
    BY DEF UsersInv, OwnInv
<1>2. ControlOK'
    BY <1>1, ControlStep DEF Still
<1>3. Calm
    BY <1>1, StillWaits DEF Calm, Still
<1>4. Drops /\ Reads
    BY DEF Drops, Reads, Still
<1>5. GivesUp
    BY <1>1, McuAssumption DEF GivesUp, Still, ThreadTypes
<1> QED
    BY <1>2, <1>3, <1>4, <1>5, CalmKeeps

\* Without a second thread that destroys, no create is woken.
LEMMA NeverWoken ==
    ASSUME UsersInv, OwnInv, OneControl, NEW t \in Threads, pc[t] = "create_wait"
    PROVE  locked[FileOf[t]]["CREATE"]
<1>1. /\ FileOf[t] \in Files /\ uid[FileOf[t]] # -1 /\ after[t] # "release"
      /\ \A u \in Threads : u # t /\ FileOf[u] = FileOf[t] => after[u] # "release"
    BY UsersAssumption DEF UsersInv, CallsOK, Destroying, Releasing
<1>2. Control(t)
    BY <1>1 DEF OwnInv, ControlOK, Creating
<1>3. ASSUME NEW u \in Threads, FileOf[u] = FileOf[t], pc[u] \in Destroying \cup {"release_unbind"}
      PROVE  FALSE
    <2>1. u # t
        BY <1>3 DEF Destroying
    <2>2. pc[u] # "release_unbind"
        BY <1>1, <1>3, <2>1 DEF UsersInv, CallsOK, Releasing
    <2>3. Control(u)
        BY <1>1, <1>3, <2>1, <2>2 DEF OwnInv, ControlOK
    <2> QED
        BY <1>2, <1>3, <2>1, <2>3 DEF OneControl
<1>4. "CREATE" \in QueueIds
    BY DEF QueueIds
<1> QED
    BY <1>1, <1>3, <1>4 DEF UsersInv, QueuesOK

\* The step of a signal is not one of these.
LEMMA PassiveOwns ==
    ASSUME UsersInv, OwnInv, OneControl, NEW t \in Threads, PassiveCall(t), signals' = 0
    PROVE  OwnInv'
<1>0. /\ ThreadTypes /\ ControlOK /\ signals \in Nat
      /\ pc[t] \in Releasing => after[t] = "release"
    BY UsersAssumption DEF UsersInv, OwnInv, CallsOK, ThreadTypes
<1>1. pc[t] \in Destroying => Control(t) \/ after[t] = "release"
    BY <1>0 DEF ControlOK
<1>a. after = [after EXCEPT ![t] = after[t]] /\ pc = [pc EXCEPT ![t] = pc[t]]
    BY <1>0 DEF ThreadTypes
<1> USE <1>0, <1>1, <1>a DEF Still, Creating, Destroying, groupVars, chanVars, queueVars, mcuVars, Goto
<1>2. CASE DestroyEnter(t)
    <2>1. Control(t)
        BY <1>2 DEF DestroyEnter, MayCall, Control
    <2>2. Still(t, "destroy_queues", after[t])
        BY <1>2, <2>1 DEF DestroyEnter, MayCall
    <2> QED
        BY <2>2, StillKeeps
<1>3. CASE DestroyQueues(t)
    <2>1. Still(t, "destroy_mutexes", after[t])
        BY <1>3 DEF DestroyQueues
    <2> QED
        BY <2>1, StillKeeps
<1>4. CASE DestroyMutex(t)
    <2>1. CASE idx[t] = Len(OpOrder)
        <3>1. Still(t, "destroy_send", after[t])
            BY <1>4, <2>1 DEF DestroyMutex
        <3> QED
            BY <3>1, StillKeeps
    <2>2. CASE idx[t] # Len(OpOrder)
        <3>1. Still(t, pc[t], after[t])
            BY <1>4, <2>2 DEF DestroyMutex
        <3> QED
            BY <3>1, StillKeeps
    <2> QED
        BY <2>1, <2>2
<1>5. CASE DestroyRefused(t)
    <2>1. Still(t, "destroy_unlock", after[t])
        BY <1>5 DEF DestroyRefused
    <2> QED
        BY <2>1, StillKeeps
<1>6. CASE DestroyUnlock(t)
    <2>1. Still(t, "destroy_relock", after[t])
        BY <1>6 DEF DestroyUnlock
    <2> QED
        BY <2>1, StillKeeps
<1>7. CASE DestroyRelock(t)
    <2>1. Still(t, IF after[t] = "release" THEN "release_loop" ELSE "idle",
                   IF after[t] = "create" THEN "ioctl" ELSE after[t])
        BY <1>7 DEF DestroyRelock, ThreadTypes
    <2> QED
        BY <2>1, StillKeeps
<1>8. CASE ReleaseEnter(t)
    <2>1. Still(t, IF al5_chan_is_created(FileOf[t]) THEN "release_loop" ELSE "release_purge", "release")
        BY <1>8 DEF ReleaseEnter, al5_chan_is_created
    <2> QED
        BY <2>1, StillKeeps
<1>9. CASE ReleaseTry(t)
    <2>1. after[t] = "release"
        BY <1>9 DEF ReleaseTry, Releasing
    <2>2. CASE al5_chan_is_created(FileOf[t])
        <3>1. Still(t, "destroy_queues", after[t])
            BY <1>9, <2>1, <2>2 DEF ReleaseTry
        <3> QED
            BY <3>1, StillKeeps
    <2>3. CASE ~al5_chan_is_created(FileOf[t])
        <3>1. Still(t, pc[t], after[t])
            BY <1>9, <2>1, <2>3 DEF ReleaseTry
        <3> QED
            BY <3>1, StillKeeps
    <2> QED
        BY <2>2, <2>3
<1>10. CASE CreateWoken(t)
    BY <1>10, NeverWoken DEF CreateWoken
<1>11. ASSUME NEW op \in WaitOps, WaitCall(t, op) PROVE OwnInv'
    <2>1. Waiting(op) \in {"status_wait", "sc_wait", "rec_wait"}
        BY DEF Waiting, WaitOps
    <2>2. Still(t, Waiting(op), after[t])
        BY <1>11, <2>1 DEF WaitCall, WaitEnter
    <2> QED
        BY <2>2, StillKeeps
<1>12. CASE \/ DestroyKilled(t) \/ DestroyInterrupted(t) \/ CreateGivesUp(t)
            \/ \E op \in WaitOps : WaitInterrupted(t, op)
    <2>1. signals' = signals + 1
        BY <1>12 DEF DestroyKilled, DestroyInterrupted, CreateGivesUp, WaitInterrupted, Signal
    <2> QED
        BY <2>1
<1> QED
    BY <1>2, <1>3, <1>4, <1>5, <1>6, <1>7, <1>8, <1>9, <1>10, <1>11, <1>12 DEF PassiveCall

\* A mail is read.
LEMMA PopReads ==
    ASSUME UsersInv, NEW f \in Files, NEW op \in QueueIds, PopAny(f, op)
    PROVE  Reads /\ \A g \in Files : \A q \in QueueIds : q # op => queues'[g][q] = queues[g][q]
<1>1. queues \in [Files -> [QueueIds -> Seq(Answers)]]
    BY IdTypes
<1>2. PICK s : s = queues[f][op]
    OBVIOUS
<1>3. s \in Seq(Answers)
    BY <1>1, <1>2
<1>4. PICK r : r = IF s = <<>> THEN <<>> ELSE Tail(s)
    OBVIOUS
<1>5. queues' = [queues EXCEPT ![f][op] = r]
    BY <1>2, <1>4 DEF PopAny
<1>6. /\ \A g \in Files : \A q \in QueueIds : g # f \/ q # op => queues'[g][q] = queues[g][q]
      /\ queues'[f][op] = r
    BY <1>1, <1>5
<1>7. \A i \in 1..Len(r) : \E k \in 1..Len(s) : r[i] = s[k]
    <2>1. CASE s = <<>>
        BY <1>4, <2>1
    <2>2. CASE s # <<>>
        <3>1. \A i \in 1..Len(r) : i + 1 \in 1..Len(s) /\ r[i] = s[i+1]
            BY <1>3, <1>4, <2>2, Shrunk
        <3> QED
            BY <3>1
    <2> QED
        BY <2>1, <2>2
<1>8. Reads
    <2> SUFFICES ASSUME NEW g \in Files, NEW q \in QueueIds, NEW i \in 1..Len(queues'[g][q])
                 PROVE  \E k \in 1..Len(queues[g][q]) : queues'[g][q][i] = queues[g][q][k]
        BY DEF Reads
    <2>1. CASE g = f /\ q = op
        BY <1>2, <1>6, <1>7, <2>1
    <2>2. CASE ~(g = f /\ q = op)
        BY <1>6, <2>2
    <2> QED
        BY <2>1, <2>2
<1> QED
    BY <1>6, <1>8

LEMMA WaitReturnOwns ==
    ASSUME UsersInv, OwnInv, NEW t \in Threads, NEW op \in WaitOps, WaitReturn(t, op)
    PROVE  OwnInv'
<1>1. /\ pc[t] \in {"status_wait", "sc_wait", "rec_wait"} /\ PopAny(FileOf[t], op)
      /\ pc' = [pc EXCEPT ![t] = "idle"]
      /\ UNCHANGED <<uid, chan_uid, after, irq, cmd, status, alive, creator>>
    BY DEF WaitReturn, Goto, groupVars, chanVars, mcuVars, Waiting, WaitOps
<1>2. ThreadTypes /\ ControlOK /\ after = [after EXCEPT ![t] = after[t]]
    BY DEF UsersInv, OwnInv, ThreadTypes
<1>3. ControlOK'
    BY <1>1, <1>2, ControlStep DEF Creating, Destroying
<1>4. Reads /\ \A f \in Files : queues'[f]["CREATE"] = queues[f]["CREATE"]
    <2>1. op \in QueueIds /\ op # "CREATE" /\ "CREATE" \in QueueIds
        BY DEF WaitOps, QueueIds
    <2>2. FileOf[t] \in Files
        BY UsersAssumption
    <2> QED
        BY <1>1, <2>1, <2>2, PopReads
<1>5. Calm
    BY <1>1, <1>2, <1>4, StillWaits DEF Calm
<1>6. Drops /\ GivesUp
    BY <1>1, <1>2 DEF Drops, GivesUp, ThreadTypes
<1> QED
    BY <1>3, <1>4, <1>5, <1>6, CalmKeeps

LEMMA DestroySendOwns ==
    ASSUME UsersInv, OwnInv, NEW t \in Threads, DestroySend(t) PROVE OwnInv'
<1>1. PICK m : m = ChanMsg("DESTROY_CHANNEL", chan_uid[FileOf[t]])
    OBVIOUS
<1>2. m \in Commands /\ m.uid # "CREATE_CHANNEL"
    BY <1>1, UsersAssumption, IdTypes, CommandTypes DEF ChannelCommands, ChanMsg
<1>3. ThreadTypes /\ ControlOK /\ after = [after EXCEPT ![t] = after[t]]
    BY DEF UsersInv, OwnInv, ThreadTypes
<1>4. Still(t, "destroy_wait", after[t])
    BY <1>1, <1>2, <1>3 DEF DestroySend, al5_mcu_send, Goto, groupVars, chanVars, queueVars, Still,
       ControlOK, Destroying, Creating
<1> QED
    BY <1>4, StillKeeps

\* A channel that its file forgets is not one that a close still has to give up.
LEMMA LetsGoGivesUp ==
    ASSUME UsersInv, IdsInv, NEW t \in Threads, NEW f \in Files, Lets(f), UNCHANGED creator,
           pc' = [pc EXCEPT ![t] = "destroy_unlock"]
    PROVE  GivesUp
<1>1. chan_uid'[f] = BAD_CHAN /\ \A g \in Files : g # f => chan_uid'[g] = chan_uid[g]
    BY LetsGo
<1>2. SUFFICES ASSUME NEW u \in Threads, NEW ch \in Chans, chan_uid'[FileOf[u]] = ch,
                      pc'[u] \in {"release_purge", "release_unbind"}
               PROVE  pc[u] \in {"release_purge", "release_unbind"} /\ chan_uid[FileOf[u]] = ch
    BY DEF GivesUp
<1>3. pc'[u] = pc[u]
    BY <1>2 DEF UsersInv, ThreadTypes
<1>4. ch # BAD_CHAN /\ FileOf[u] \in Files
    BY McuAssumption, UsersAssumption
<1>5. FileOf[u] # f
    BY <1>1, <1>2, <1>4
<1> QED
    BY <1>1, <1>2, <1>3, <1>4, <1>5

LEMMA DestroyQuietOwns ==
    ASSUME UsersInv, IdsInv, OwnInv, NEW t \in Threads, DestroyQuiet(t) PROVE OwnInv'
<1>1. PICK f, m : f = FileOf[t] /\ m = ChanMsg("QUIET_DESTROY_CHANNEL", chan_uid[FileOf[t]])
    OBVIOUS
<1>2. /\ f \in Files /\ m \in Commands /\ m.uid = "QUIET_DESTROY_CHANNEL" /\ m.chan = chan_uid[f]
    BY <1>1, UsersAssumption, IdTypes, CommandTypes DEF ChannelCommands, ChanMsg
<1>3. /\ pc[t] = "destroy_send" /\ pc' = [pc EXCEPT ![t] = "destroy_unlock"]
      /\ cmd' = Append(cmd, m) /\ Lets(f)
      /\ UNCHANGED <<uid, after, irq, queues, status, alive, creator>>
    BY <1>1 DEF DestroyQuiet, al5_mcu_send, Goto, groupVars, queueVars, ForgetChannel, Lets
<1>4. ThreadTypes /\ ControlOK /\ after = [after EXCEPT ![t] = after[t]]
    BY DEF UsersInv, OwnInv, ThreadTypes
<1>5. ControlOK'
    BY <1>3, <1>4, ControlStep DEF ControlOK, Destroying
<1>a. PICK ch : ch = chan_uid[f]
    OBVIOUS
<1>6. DestroyQueued(ch)'
    <2>1. cmd \in Seq(Commands)
        BY IdTypes
    <2>2. Len(cmd) + 1 \in 1..Len(cmd') /\ cmd'[Len(cmd) + 1] = m
        BY <1>2, <1>3, <2>1, Grown
    <2> QED
        BY <1>2, <1>a, <2>2 DEF DestroyQueued
<1>7. Drops
    <2>1. chan_uid'[f] = BAD_CHAN /\ \A g \in Files : g # f => chan_uid'[g] = chan_uid[g]
        BY <1>2, <1>3, LetsGo
    <2> QED
        BY <1>a, <1>6, <2>1 DEF Drops
<1>8. Calm
    BY <1>2, <1>3, <1>4, StillWaits DEF Calm
<1>9. GivesUp
    BY <1>2, <1>3, LetsGoGivesUp
<1>10. Reads
    BY <1>3 DEF Reads
<1> QED
    BY <1>5, <1>7, <1>8, <1>9, <1>10, CalmKeeps

LEMMA DestroyAnsweredOwns ==
    ASSUME UsersInv, IdsInv, OwnInv, NEW t \in Threads, DestroyAnswered(t) PROVE OwnInv'
<1>1. PICK f : f = FileOf[t] /\ f \in Files
    BY UsersAssumption
<1>2. /\ pc[t] = "destroy_wait" /\ pc' = [pc EXCEPT ![t] = "destroy_unlock"]
      /\ queues[f]["DESTROY"] # <<>> /\ PopAny(f, "DESTROY") /\ Lets(f)
      /\ UNCHANGED <<uid, after, cmd, status, irq, alive, creator>>
    BY <1>1 DEF DestroyAnswered, Goto, groupVars, ForgetChannel, mcuVars, Lets
<1>3. ThreadTypes /\ ControlOK /\ after = [after EXCEPT ![t] = after[t]]
    BY DEF UsersInv, OwnInv, ThreadTypes
<1>4. ControlOK'
    BY <1>2, <1>3, ControlStep DEF ControlOK, Destroying
<1>5. chan_uid[f] \notin alive
    BY <1>1, <1>2, WaitsOpen DEF IdsInv, LinksOK, DestroysOK
<1>6. Drops
    <2>1. chan_uid'[f] = BAD_CHAN /\ \A g \in Files : g # f => chan_uid'[g] = chan_uid[g]
        BY <1>1, <1>2, LetsGo
    <2> QED
        BY <1>5, <2>1 DEF Drops
<1>7. Reads /\ \A g \in Files : queues'[g]["CREATE"] = queues[g]["CREATE"]
    BY <1>1, <1>2, PopReads DEF QueueIds
<1>8. Calm
    BY <1>2, <1>3, <1>7, StillWaits DEF Calm
<1>9. GivesUp
    BY <1>1, <1>2, LetsGoGivesUp
<1> QED
    BY <1>4, <1>6, <1>7, <1>8, <1>9, CalmKeeps

LEMMA ReleaseFreeOwns ==
    ASSUME UsersInv, OwnInv, NEW t \in Threads, ReleaseFree(t) PROVE OwnInv'
<1>1. PICK f : f = FileOf[t] /\ f \in Files
    BY UsersAssumption
<1>2. /\ pc[t] = "release_loop" /\ pc' = [pc EXCEPT ![t] = "release_purge"]
      /\ UNCHANGED <<uid, chan_uid, after, irq, queues, cmd, status, alive>>
      /\ \A ch \in Chans : /\ creator'[ch] \in {creator[ch], NoFile}
                           /\ ch = chan_uid[f] /\ creator[ch] = f => creator'[ch] = NoFile
    BY <1>1 DEF ReleaseFree, Goto, groupVars, chanVars, queueVars
<1>3. ThreadTypes /\ ControlOK /\ after = [after EXCEPT ![t] = after[t]]
    BY DEF UsersInv, OwnInv, ThreadTypes
<1>4. ControlOK'
    BY <1>2, <1>3, ControlStep DEF Creating, Destroying
<1>5. \A ch \in Chans : ch = chan_uid[f] => creator'[ch] = NoFile
    <2> SUFFICES ASSUME NEW ch \in Chans, ch = chan_uid[f] PROVE creator'[ch] = NoFile
        OBVIOUS
    <2>1. Claims(f, ch)
        BY DEF Claims
    <2> QED
        BY <1>1, <1>2, <2>1 DEF OwnInv, MadeOK
<1>6. GivesUp
    BY <1>1, <1>2, <1>3, <1>5 DEF GivesUp, ThreadTypes
<1>7. Calm
    BY <1>2, <1>3, StillWaits DEF Calm
<1>8. Drops /\ Reads
    BY <1>2 DEF Drops, Reads
<1> QED
    BY <1>4, <1>6, <1>7, <1>8, CalmKeeps

\* Nobody waits for a channel on a file that closes.
LEMMA ClosingWaitsNot ==
    ASSUME UsersInv, NEW t \in Threads, after[t] = "release" PROVE ~Waits(FileOf[t])
    BY DEF UsersInv, CallsOK, Waits, Destroying, Releasing

LEMMA NotAsked ==
    ASSUME UsersInv, OwnInv, NEW f \in Files, ~Waits(f) PROVE ~Asked(f) /\ queues[f]["CREATE"] = <<>>
    BY DEF OwnInv, AsksOK, AskOK, Asked, AskInQueue

LEMMA ReleasePurgeOwns ==
    ASSUME UsersInv, OwnInv, NEW t \in Threads, ReleasePurge(t) PROVE OwnInv'
<1>1. PICK f : f = FileOf[t] /\ f \in Files
    BY UsersAssumption
<1>2. /\ pc[t] = "release_purge" /\ pc' = [pc EXCEPT ![t] = "release_unbind"]
      /\ queues' = [queues EXCEPT ![f] = [q \in QueueIds |-> <<>>]]
      /\ UNCHANGED <<uid, chan_uid, after, irq, cmd, status, alive, creator>>
    BY <1>1 DEF ReleasePurge, al5_user_remove_residual_messages, Goto, groupVars, chanVars, mcuVars
<1>3. ThreadTypes /\ ControlOK /\ after = [after EXCEPT ![t] = after[t]]
    BY DEF UsersInv, OwnInv, ThreadTypes
<1>4. ControlOK'
    BY <1>2, <1>3, ControlStep DEF Creating, Destroying
<1>5. queues[f]["CREATE"] = <<>>
    BY <1>1, <1>2, ClosingWaitsNot, NotAsked DEF UsersInv, CallsOK, Releasing
<1>6. \A g \in Files : \A q \in QueueIds : queues'[g][q] = IF g = f THEN <<>> ELSE queues[g][q]
    BY <1>2, IdTypes
<1>7. Calm
    BY <1>2, <1>3, <1>5, <1>6, StillWaits DEF Calm, QueueIds
<1>8. Drops /\ GivesUp
    BY <1>2, <1>3 DEF Drops, GivesUp, ThreadTypes
<1>9. Reads
    BY <1>6 DEF Reads
<1> QED
    BY <1>4, <1>7, <1>8, <1>9, CalmKeeps

LEMMA ReleaseUnbindOwns ==
    ASSUME UsersInv, IdsInv, OwnInv, NEW t \in Threads, ReleaseUnbind(t) PROVE OwnInv'
<1>1. PICK f : f = FileOf[t] /\ f \in Files
    BY UsersAssumption
<1>2. /\ pc[t] = "release_unbind" /\ pc' = [pc EXCEPT ![t] = "idle"]
      /\ after' = [after EXCEPT ![t] = "ioctl"]
      /\ queues' = [queues EXCEPT ![f] = [q \in QueueIds |-> <<>>]]
      /\ uid' = [uid EXCEPT ![f] = -1] /\ Lets(f)
      /\ UNCHANGED <<irq, cmd, status, alive, creator>>
    BY <1>1 DEF ReleaseUnbind, Goto, mcuVars, Lets
<1>3. ThreadTypes /\ ControlOK
    BY DEF UsersInv, OwnInv
<1>4. ControlOK'
    BY <1>2, <1>3, ControlStep DEF Creating, Destroying
<1>5. queues[f]["CREATE"] = <<>> /\ ~Waits(f)
    BY <1>1, <1>2, ClosingWaitsNot, NotAsked DEF UsersInv, CallsOK, Releasing
<1>6. \A g \in Files : \A q \in QueueIds : queues'[g][q] = IF g = f THEN <<>> ELSE queues[g][q]
    BY <1>2, IdTypes
<1>7. \A g \in Files : g # f => uid'[g] = uid[g]
    BY <1>2 DEF UsersInv, UserTypes
<1>8. Calm
    BY <1>2, <1>3, <1>5, <1>6, <1>7, StillWaits DEF Calm, QueueIds
<1>9. Drops
    <2>1. chan_uid'[f] = BAD_CHAN /\ \A g \in Files : g # f => chan_uid'[g] = chan_uid[g]
        BY <1>1, <1>2, LetsGo
    <2>2. \A ch \in alive : ch = chan_uid[f] => creator'[ch] = NoFile
        BY <1>1, <1>2, IdTypes DEF OwnInv, GivenUpOK
    <2> QED
        BY <2>1, <2>2 DEF Drops
<1>10. GivesUp
    <2>1. \A u \in Threads : u # t => pc'[u] = pc[u]
        BY <1>2, <1>3 DEF ThreadTypes
    <2>2. \A u \in Threads : u # t /\ FileOf[u] = f => pc[u] = "idle"
        BY <1>1, <1>2 DEF UsersInv, CallsOK, Releasing
    <2>3. pc'[t] = "idle" /\ \A g \in Files : g # f => chan_uid'[g] = chan_uid[g]
        BY <1>1, <1>2, <1>3, LetsGo DEF ThreadTypes
    <2> QED
        BY <1>2, <2>1, <2>2, <2>3, UsersAssumption DEF GivesUp
<1>11. Reads
    BY <1>6 DEF Reads
<1> QED
    BY <1>4, <1>8, <1>9, <1>10, <1>11, CalmKeeps

LEMMA OpenOwns ==
    ASSUME UsersInv, IdsInv, OwnInv, NEW f \in Files, al5_codec_open(f) PROVE OwnInv'
<1>1. /\ uid[f] = -1 /\ \A g \in Files : g # f => uid'[g] = uid[g]
      /\ chan_uid' = [chan_uid EXCEPT ![f] = BAD_CHAN]
      /\ queues' = [queues EXCEPT ![f] = [q \in QueueIds |-> <<>>]]
      /\ UNCHANGED <<irq, pc, after, cmd, status, alive, creator>>
    BY DEF al5_codec_open, al5_user_init, threadVars, mcuVars, UsersInv, UserTypes
<1>2. chan_uid[f] = BAD_CHAN /\ \A q \in QueueIds : queues[f][q] = <<>>
    BY <1>1 DEF IdsInv, BindOK
<1>3. chan_uid' = chan_uid /\ \A g \in Files : \A q \in QueueIds : queues'[g][q] = queues[g][q]
    BY <1>1, <1>2, IdTypes
<1>4. ~Waits(f) /\ \A g \in Files : Waits(g)' <=> Waits(g)
    BY <1>1 DEF UsersInv, CallsOK, Waits
<1>5. Calm
    BY <1>1, <1>3, <1>4 DEF Calm, QueueIds
<1>6. Drops /\ GivesUp /\ Reads
    BY <1>1, <1>3 DEF Drops, GivesUp, Reads
<1>7. ControlOK'
    BY <1>1 DEF OwnInv, ControlOK, Control
<1> QED
    BY <1>5, <1>6, <1>7, CalmKeeps

LEMMA IrqOrphanOwns ==
    ASSUME UsersInv, OwnInv, IrqOrphan PROVE OwnInv'
<1>1. /\ irq # NoIrq /\ irq.user = NoFile /\ irq' = NoIrq
      /\ cmd' = cmd \/ (cmd' = Append(cmd, OrphanMsg(irq.mail.chan)) /\ irq.mail.uid # "SEARCH_START_CODE")
      /\ UNCHANGED <<uid, chan_uid, queues, pc, after, status, alive, creator>>
    BY DEF IrqOrphan, should_destroy_channel_on_bad_feedback, al5_mcu_send, groupVars, chanVars,
       queueVars, threadVars
<1>2. irq.mail \in Answers
    BY <1>1, IdTypes
<1>3. irq.mail.uid # "CREATE_CHANNEL"
    <2> SUFFICES ASSUME irq.mail.uid = "CREATE_CHANNEL" PROVE FALSE
        OBVIOUS
    <2>1. PICK f \in Files : f = irq.mail.by
        BY <1>2 DEF Answers
    <2>2. AskInIrq(f)
        BY <1>1, <2>1 DEF AskInIrq, IsAsk
    <2> QED
        BY <1>1, <2>1, <2>2, McuAssumption DEF OwnInv, AsksOK, AskOK
<1>4. cmd' = cmd \/ \E m \in Commands : m.uid # "CREATE_CHANNEL" /\ cmd' = Append(cmd, m)
    <2> SUFFICES ASSUME cmd' # cmd PROVE \E m \in Commands : m.uid # "CREATE_CHANNEL" /\ cmd' = Append(cmd, m)
        OBVIOUS
    <2>1. irq.mail.chan \in Chans
        BY <1>1, <1>2, <1>3, FeedbackNames
    <2>2. OrphanMsg(irq.mail.chan) \in Commands /\ OrphanMsg(irq.mail.chan).uid # "CREATE_CHANNEL"
        BY <2>1 DEF OrphanMsg, Commands, ChanIds
    <2> QED
        BY <1>1, <2>2
<1>5. Calm
    BY <1>1, <1>3, <1>4 DEF Calm, Waits
<1>6. Drops /\ GivesUp /\ Reads
    BY <1>1 DEF Drops, GivesUp, Reads
<1>7. ControlOK'
    BY <1>1 DEF OwnInv, ControlOK, Control
<1> QED
    BY <1>5, <1>6, <1>7, CalmKeeps
-----------------------------------------------------------------------------
\* A create, from the mail to the answer.

LEMMA CreateSendOwns ==
    ASSUME UsersInv, OwnInv, NEW t \in Threads, CreateSend(t) PROVE OwnInv'
<1>1. PICK f, m : f = FileOf[t] /\ m = CreateMsg(FileOf[t], uid[FileOf[t]])
    OBVIOUS
<1>2. /\ pc[t] = "create_send" /\ pc' = [pc EXCEPT ![t] = "create_wait"] /\ cmd' = Append(cmd, m)
      /\ UNCHANGED <<uid, chan_uid, after, status, irq, queues, alive, creator>>
    BY <1>1 DEF CreateSend, al5_mcu_send, Goto, groupVars, chanVars, queueVars
<1>3. f \in Files /\ uid[f] \in Slots
    BY <1>1, <1>2, UsersAssumption DEF UsersInv, UserTypes, CallsOK, Slots
<1>4. m \in Commands /\ m.uid = "CREATE_CHANNEL" /\ m.by = f /\ m.user = uid[f]
    BY <1>1, <1>3, CommandTypes DEF CreateMsg
<1>5. ThreadTypes /\ ControlOK /\ after = [after EXCEPT ![t] = after[t]]
    BY DEF UsersInv, OwnInv, ThreadTypes
<1>6. /\ Len(cmd) \in Nat /\ Len(cmd) + 1 \in 1..Len(cmd')
      /\ \A i \in 1..Len(cmd) : i \in 1..Len(cmd') /\ cmd'[i] = cmd[i]
      /\ \A i \in 1..Len(cmd') :
            (i \in 1..Len(cmd) /\ cmd'[i] = cmd[i]) \/ (i = Len(cmd) + 1 /\ cmd'[i] = m)
    BY <1>2, <1>4, IdTypes, Grown
<1>7. ControlOK'
    BY <1>2, <1>5, ControlStep DEF ControlOK, Creating
<1>8. ~Asked(f) /\ queues[f]["CREATE"] = <<>>
    <2>1. ~Waits(f)
        BY <1>1, <1>2, DestroysAlone DEF Waits, Creating
    <2> QED
        BY <1>3, <2>1, NotAsked
<1>9. AskOK(f)'
    <2>1. Waits(f)'
        BY <1>1, <1>2, <1>5 DEF Waits, ThreadTypes
    <2>2. /\ \A i \in 1..Len(cmd') : IsAsk(cmd'[i], f) => i = Len(cmd) + 1 /\ cmd'[i] = m
          /\ ~AskInStatus(f)' /\ ~AskInIrq(f)' /\ ~AskInQueue(f)'
          /\ \A i \in 1..Len(status') : ~IsAsk(status'[i], f)
        BY <1>2, <1>6, <1>8 DEF Asked, AskInCmd, AskInStatus, AskInIrq, AskInQueue
    <2>3. queues'[f]["CREATE"] = <<>> /\ Len(queues'[f]["CREATE"]) = 0
        BY <1>2, <1>8
    <2>4. OneAsk(f)'
        BY <2>2, <2>3 DEF OneAsk
    <2> QED
        BY <1>2, <1>4, <2>1, <2>2, <2>3, <2>4 DEF AskOK
<1>10. ASSUME NEW g \in Files, g # f PROVE AskOK(g)'
    <2>1. \A i \in 1..Len(cmd') : IsAsk(cmd'[i], g) => i + 0 \in 1..Len(cmd) /\ cmd'[i] = cmd[i+0]
        BY <1>4, <1>6, <1>10 DEF IsAsk
    <2>2. \A i \in 1..Len(status') : IsAsk(status'[i], g) =>
             i + 0 \in 1..Len(status) /\ status'[i] = status[i+0]
        BY <1>2
    <2>3. Waits(g) => Waits(g)'
        BY <1>2, <1>5, StillWaits
    <2>4. SameAsks(g)
        BY <1>2, <2>1, <2>2, <2>3 DEF SameAsks, AskInIrq
    <2> QED
        BY <2>4, SameAsksKeep DEF OwnInv, AsksOK
<1>11. AsksOK'
    BY <1>9, <1>10 DEF AsksOK
<1>12. Settles
    <2>1. \A g \in Files : \A ch : Claims(g, ch)' <=> Claims(g, ch)
        BY <1>2 DEF Claims, AnswerFor, AskInIrq
    <2>2. \A ch : DestroyQueued(ch) => DestroyQueued(ch)'
        BY <1>6 DEF DestroyQueued
    <2> QED
        BY <1>2, <2>1, <2>2, IdTypes DEF Settles
<1>13. MadeOK' /\ OwnedOK'
    BY <1>12, SettlesKeeps DEF OwnInv
<1>14. GivenUpOK' /\ FeedbackOK' /\ MailsOK'
    BY <1>2, <1>5 DEF OwnInv, GivenUpOK, FeedbackOK, MailsOK, ThreadTypes
<1> QED
    BY <1>7, <1>11, <1>13, <1>14 DEF OwnInv

LEMMA AnsweredOwns ==
    ASSUME UsersInv, IdsInv, OwnInv, NEW t \in Threads, pc[t] = "create_wait",
           NEW f, f = FileOf[t], NEW new, new = Head(queues[f]["CREATE"]).chan,
           queues[f]["CREATE"] # <<>>, PopAny(f, "CREATE"),
           chan_uid' = [chan_uid EXCEPT ![f] = new],
           NEW label \in {"idle", "create_allocate"}, pc' = [pc EXCEPT ![t] = label],
           UNCHANGED <<uid, after, irq, cmd, status, alive, creator>>
    PROVE  OwnInv'
<1>0. /\ ThreadTypes /\ ControlOK /\ after = [after EXCEPT ![t] = after[t]]
      /\ chan_uid \in [Files -> ChanIds] /\ queues \in [Files -> [QueueIds -> Seq(Answers)]]
    BY IdTypes DEF UsersInv, OwnInv, ThreadTypes
<1>1. f \in Files /\ chan_uid[f] = BAD_CHAN
    BY UsersAssumption DEF UsersInv, ChannelOK
<1>2. PICK s : s = queues[f]["CREATE"]
    OBVIOUS
<1>3. s \in Seq(Answers) /\ s # <<>> /\ queues' = [queues EXCEPT ![f]["CREATE"] = Tail(s)]
    BY <1>1, <1>2, QueueTypes DEF PopAny
<1>4. /\ \A g \in Files : g # f => queues'[g] = queues[g] /\ chan_uid'[g] = chan_uid[g]
      /\ queues'[f]["CREATE"] = Tail(s) /\ chan_uid'[f] = new
    BY <1>0, <1>1, <1>2, <1>3 DEF QueueIds
<1>5. Len(s) = 1 /\ Tail(s) = <<>> /\ new = s[1].chan
    <2>1. Len(s) <= 1
        BY <1>1, <1>2 DEF OwnInv, AsksOK, AskOK, OneAsk
    <2>a. Len(s) \in Nat \ {0} /\ Head(s) = s[1]
        BY <1>3, Shrunk
    <2>b. \A n \in Nat \ {0} : n <= 1 => n = 1
        OBVIOUS
    <2>2. Len(s) = 1 /\ Head(s) = s[1]
        BY <2>1, <2>a, <2>b
    <2>3. Tail(s) = <<>>
        BY <1>3, <2>1
    <2> QED
        BY <1>2, <2>2, <2>3
<1>6. ~AskInCmd(f) /\ ~AskInStatus(f) /\ ~AskInIrq(f)
    BY <1>1 DEF OwnInv, AsksOK, AskOK, OneAsk, AskInQueue
<1>7. AskOK(f)'
    <2>1. ~Asked(f)'
        BY <1>4, <1>5, <1>6 DEF Asked, AskInCmd, AskInStatus, AskInIrq, AskInQueue
    <2> QED
        BY <1>1, <2>1, NoAskOK
<1>8. ASSUME NEW g \in Files, g # f PROVE AskOK(g)'
    <2>1. /\ \A i \in 1..Len(cmd') : IsAsk(cmd'[i], g) => i + 0 \in 1..Len(cmd) /\ cmd'[i] = cmd[i+0]
          /\ \A i \in 1..Len(status') : IsAsk(status'[i], g) =>
                i + 0 \in 1..Len(status) /\ status'[i] = status[i+0]
        OBVIOUS
    <2>2. Waits(g) => Waits(g)'
        BY <1>0, <1>8 DEF Waits, ThreadTypes
    <2>3. SameAsks(g)
        BY <1>4, <1>8, <2>1, <2>2 DEF SameAsks, AskInIrq
    <2> QED
        BY <2>3, SameAsksKeep DEF OwnInv, AsksOK
<1>9. AsksOK'
    BY <1>7, <1>8 DEF AsksOK
<1>10. \A ch \in Chans : Claims(f, ch) <=> ch = new
    <2>1. \A ch : AnswerFor(f, ch) <=> ch = new
        BY <1>2, <1>5, <1>6 DEF AnswerFor, AskInStatus
    <2> QED
        BY <1>1, <2>1, McuAssumption DEF Claims
<1>11. \A ch \in Chans : Claims(f, ch)' <=> ch = new
    <2>1. Len(queues'[f]["CREATE"]) = 0 /\ ~AskInIrq(f)' /\ \A i \in 1..Len(status') : ~IsAsk(status'[i], f)
        BY <1>4, <1>5, <1>6 DEF AskInStatus, AskInIrq
    <2>2. \A ch : ~AnswerFor(f, ch)'
        BY <2>1 DEF AnswerFor
    <2> QED
        BY <1>4, <2>2 DEF Claims
<1>12. Settles
    <2>1. \A g \in Files : g # f => \A ch : Claims(g, ch)' <=> Claims(g, ch)
        BY <1>4 DEF Claims, AnswerFor, AskInIrq
    <2>2. \A ch : DestroyQueued(ch) => DestroyQueued(ch)'
        BY DEF DestroyQueued
    <2> QED
        BY <1>10, <1>11, <2>1, <2>2, IdTypes DEF Settles
<1>13. MadeOK' /\ OwnedOK'
    BY <1>12, SettlesKeeps DEF OwnInv
<1>14. ControlOK'
    BY <1>0, ControlStep DEF ControlOK, Creating, Destroying
<1>15. GivenUpOK'
    <2>1. \A u \in Threads : pc[u] \in {"release_purge", "release_unbind"} => FileOf[u] # f
        BY DEF UsersInv, CallsOK, Releasing
    <2>2. \A u \in Threads : pc'[u] \in {"release_purge", "release_unbind"} => pc[u] = pc'[u]
        BY <1>0 DEF ThreadTypes
    <2> QED
        BY <1>4, <2>1, <2>2, UsersAssumption DEF OwnInv, GivenUpOK
<1>16. FeedbackOK'
    <2>1. ASSUME NEW i \in 1..Len(status), IsFeedback(status[i]), status[i].chan = new PROVE FALSE
        <3>1. NamesChannel(status[i], new) /\ new # BAD_CHAN
            BY <2>1, IdTypes, FeedbackNames, McuAssumption DEF IsFeedback
        <3>2. ~InStatus(new)
            BY <1>1, <1>2, <1>5, <3>1 DEF IdsInv, LinksOK, ClaimsOK, QueueClaims
        <3> QED
            BY <3>1, <3>2 DEF InStatus
    <2> QED
        BY <1>4, <2>1 DEF OwnInv, FeedbackOK
<1>17. MailsOK'
    <2>1. Reads
        BY <1>1, PopReads DEF QueueIds
    <2> QED
        BY <2>1 DEF OwnInv, MailsOK, Reads
<1> QED
    BY <1>9, <1>13, <1>14, <1>15, <1>16, <1>17 DEF OwnInv
-----------------------------------------------------------------------------
\* The interrupt thread.

LEMMA IrqReadOwns ==
    ASSUME UsersInv, IdsInv, OwnInv, IrqRead PROVE OwnInv'
<1>1. PICK m, g : m = Head(status) /\ g = retrieve_user(Head(status))
    OBVIOUS
<1>2. /\ irq = NoIrq /\ status # <<>> /\ irq' = [mail |-> m, user |-> g] /\ status' = Tail(status)
      /\ UNCHANGED <<uid, chan_uid, queues, pc, after, cmd, alive, creator>>
    BY <1>1 DEF IrqRead, groupVars, chanVars, queueVars, threadVars
<1>3. /\ 1 \in 1..Len(status) /\ m = status[1] /\ m \in Answers
      /\ \A i \in 1..Len(status') : i + 1 \in 1..Len(status) /\ status'[i] = status[i+1] /\ i + 1 # 1
      /\ \A i \in 1..Len(status) : i = 1 \/ (i - 1 \in 1..Len(status') /\ status'[i-1] = status[i])
    BY <1>1, <1>2, IdTypes, Shrunk
<1>4. irq'.mail = m /\ irq'.user = g
    BY <1>2
<1>5. irq' # NoIrq
    <2>1. g \in Files \cup {NoFile}
        BY <1>1, <1>3, Retrieved
    <2> QED
        BY <1>2, <1>3, <2>1, UsersAssumption
<1>6. ASSUME NEW f \in Files, IsAsk(m, f) PROVE AskOK(f)'
    <2>1. /\ AskOK(f) /\ AskInStatus(f)
        BY <1>3, <1>6 DEF OwnInv, AsksOK, AskInStatus
    <2>2. ~AskInCmd(f) /\ ~AskInQueue(f) /\ Waits(f) /\ m.user = uid[f]
        BY <1>3, <1>6, <2>1 DEF AskOK, OneAsk, Asked
    <2>3. g = f
        <3>1. uid[f] # -1
            BY <2>2 DEF Waits, UsersInv, CallsOK
        <3>2. slot[uid[f]] = f
            BY <3>1 DEF IdsInv, BindOK
        <3> QED
            BY <1>1, <1>6, <2>2, <3>2 DEF retrieve_user, al5_group_user_from_uid, IsAsk
    <2>4. \A i \in 1..Len(status') : ~IsAsk(status'[i], f)
        BY <1>3, <1>6, <2>1 DEF AskOK, OneAsk
    <2>5. /\ \A i \in 1..Len(cmd') : ~IsAsk(cmd'[i], f)
          /\ ~AskInCmd(f)' /\ ~AskInStatus(f)' /\ ~AskInQueue(f)'
          /\ queues'[f]["CREATE"] = <<>> /\ Len(queues'[f]["CREATE"]) = 0
        BY <1>2, <2>2, <2>4 DEF AskInCmd, AskInStatus, AskInQueue
    <2>6. Waits(f)'
        BY <1>2, <2>2 DEF Waits
    <2>7. OneAsk(f)'
        BY <2>4, <2>5 DEF OneAsk
    <2> QED
        BY <1>4, <2>3, <2>4, <2>5, <2>6, <2>7 DEF AskOK
<1>7. ASSUME NEW f \in Files, ~IsAsk(m, f) PROVE AskOK(f)'
    <2>1. /\ \A i \in 1..Len(cmd') : IsAsk(cmd'[i], f) => i + 0 \in 1..Len(cmd) /\ cmd'[i] = cmd[i+0]
          /\ \A i \in 1..Len(status') : IsAsk(status'[i], f) =>
                i + 1 \in 1..Len(status) /\ status'[i] = status[i+1]
        BY <1>2, <1>3
    <2>2. Waits(f) => Waits(f)'
        BY <1>2 DEF Waits
    <2>3. ~AskInIrq(f)'
        BY <1>4, <1>7 DEF AskInIrq
    <2>4. SameAsks(f)
        BY <1>2, <2>1, <2>2, <2>3 DEF SameAsks
    <2> QED
        BY <2>4, SameAsksKeep DEF OwnInv, AsksOK
<1>8. AsksOK'
    BY <1>6, <1>7 DEF AsksOK
<1>9. ASSUME NEW f \in Files, NEW ch PROVE AnswerFor(f, ch)' <=> AnswerFor(f, ch)
    <2>1. ~AskInIrq(f) /\ (AskInIrq(f)' <=> IsAsk(m, f))
        BY <1>2, <1>4, <1>5 DEF AskInIrq
    <2>2. ASSUME AnswerFor(f, ch)' PROVE AnswerFor(f, ch)
        BY <1>2, <1>3, <1>4, <2>1, <2>2 DEF AnswerFor
    <2>3. ASSUME AnswerFor(f, ch) PROVE AnswerFor(f, ch)'
        BY <1>2, <1>3, <1>4, <2>1, <2>3 DEF AnswerFor
    <2> QED
        BY <2>2, <2>3
<1>10. Settles
    <2>1. \A f \in Files : \A ch : Claims(f, ch)' <=> Claims(f, ch)
        BY <1>2, <1>9 DEF Claims
    <2>2. \A ch : DestroyQueued(ch) => DestroyQueued(ch)'
        BY <1>2 DEF DestroyQueued
    <2> QED
        BY <1>2, <2>1, <2>2, IdTypes DEF Settles
<1>11. MadeOK' /\ OwnedOK'
    BY <1>10, SettlesKeeps DEF OwnInv
<1>12. FeedbackOK'
    <2>1. IsFeedback(m) /\ g # NoFile => g \in Files /\ chan_uid[g] = m.chan
        BY <1>1, <1>3, Retrieved DEF IsFeedback
    <2>2. IsFeedback(m) /\ g # NoFile => m.by \in {g, NoFile}
        BY <1>3, <2>1 DEF OwnInv, FeedbackOK
    <2>3. \A i \in 1..Len(status') : IsFeedback(status'[i]) =>
          \A f \in Files : chan_uid[f] = status'[i].chan => status'[i].by \in {f, NoFile}
        BY <1>3 DEF OwnInv, FeedbackOK
    <2> QED
        BY <1>2, <1>4, <2>2, <2>3 DEF FeedbackOK
<1>13. ControlOK' /\ GivenUpOK' /\ MailsOK'
    BY <1>2 DEF OwnInv, ControlOK, Control, GivenUpOK, MailsOK
<1> QED
    BY <1>8, <1>11, <1>12, <1>13 DEF OwnInv

\* The mail is the answer to a create.
LEMMA DeliverAnswerOwns ==
    ASSUME UsersInv, OwnInv, IrqDeliver, irq.mail.uid = "CREATE_CHANNEL" PROVE OwnInv'
<1>1. PICK f, m : f = irq.user /\ m = irq.mail
    OBVIOUS
<1>2. m \in Answers /\ m.uid = "CREATE_CHANNEL" /\ irq # NoIrq /\ f \in Files
    BY <1>1, IdTypes DEF IrqDeliver
<1>3. AskInIrq(f) /\ m.by = f
    <2>1. PICK g \in Files : g = m.by
        BY <1>2 DEF Answers
    <2>2. AskInIrq(g)
        BY <1>1, <1>2, <2>1 DEF AskInIrq, IsAsk
    <2> QED
        BY <1>1, <2>1, <2>2 DEF OwnInv, AsksOK, AskOK
<1>4. AskOK(f) /\ ~AskInCmd(f) /\ ~AskInStatus(f) /\ queues[f]["CREATE"] = <<>> /\ Waits(f)
    BY <1>2, <1>3 DEF OwnInv, AsksOK, AskOK, OneAsk, AskInQueue, Asked
<1>5. /\ irq' = NoIrq
      /\ queues' = [queues EXCEPT ![f]["CREATE"] = Append(@, m)]
      /\ UNCHANGED <<uid, chan_uid, pc, after, cmd, status, alive, creator>>
    BY <1>1, <1>2 DEF IrqDeliver, al5_user_deliver, al5_list_push, mail_to_queue, groupVars, chanVars,
       threadVars, mcuVars
<1>6. /\ \A g \in Files : \A q \in QueueIds : g # f \/ q # "CREATE" => queues'[g][q] = queues[g][q]
      /\ queues'[f]["CREATE"] = Append(<<>>, m)
    BY <1>2, <1>4, <1>5, IdTypes DEF QueueIds
<1>7. Len(queues'[f]["CREATE"]) = 1 /\ queues'[f]["CREATE"][1] = m
    BY <1>6
<1>8. \A i \in 1..Len(queues'[f]["CREATE"]) : queues'[f]["CREATE"][i] = m
    BY <1>7
<1>9. \A g \in Files : ~AskInIrq(g)'
    BY <1>5 DEF AskInIrq
<1>10. AskOK(f)'
    <2>1. /\ ~AskInCmd(f)' /\ ~AskInStatus(f)'
          /\ \A i \in 1..Len(cmd') : ~IsAsk(cmd'[i], f)
          /\ \A i \in 1..Len(status') : ~IsAsk(status'[i], f)
        BY <1>4, <1>5 DEF AskInCmd, AskInStatus
    <2>2. Waits(f)'
        BY <1>4, <1>5 DEF Waits
    <2>3. OneAsk(f)'
        BY <1>2, <1>7, <1>9, <2>1 DEF OneAsk
    <2> QED
        BY <1>2, <1>3, <1>8, <1>9, <2>1, <2>2, <2>3 DEF AskOK
<1>11. ASSUME NEW g \in Files, g # f PROVE AskOK(g)'
    <2>1. /\ \A i \in 1..Len(cmd') : IsAsk(cmd'[i], g) => i + 0 \in 1..Len(cmd) /\ cmd'[i] = cmd[i+0]
          /\ \A i \in 1..Len(status') : IsAsk(status'[i], g) =>
                i + 0 \in 1..Len(status) /\ status'[i] = status[i+0]
        BY <1>5
    <2>2. Waits(g) => Waits(g)'
        BY <1>5 DEF Waits
    <2>3. SameAsks(g)
        BY <1>5, <1>6, <1>9, <1>11, <2>1, <2>2 DEF SameAsks, QueueIds
    <2> QED
        BY <2>3, SameAsksKeep DEF OwnInv, AsksOK
<1>12. AsksOK'
    BY <1>10, <1>11 DEF AsksOK
<1>13. ASSUME NEW g \in Files, NEW ch PROVE AnswerFor(g, ch)' <=> AnswerFor(g, ch)
    <2>1. CASE g = f
        <3>1. ~(\E i \in 1..Len(status) : IsAsk(status[i], f)) /\ Len(queues[f]["CREATE"]) = 0
            BY <1>4 DEF AskInStatus
        <3>2. AnswerFor(f, ch) <=> m.chan = ch
            BY <1>1, <1>3, <3>1 DEF AnswerFor
        <3>3. AnswerFor(f, ch)' <=> m.chan = ch
            BY <1>2, <1>5, <1>7, <1>8, <1>9, <3>1 DEF AnswerFor
        <3> QED
            BY <2>1, <3>2, <3>3
    <2>2. CASE g # f
        <3>1. ~AskInIrq(g)
            BY <1>1, <1>3, <2>2 DEF AskInIrq, IsAsk
        <3> QED
            BY <1>5, <1>6, <1>9, <2>2, <3>1 DEF AnswerFor, QueueIds
    <2> QED
        BY <2>1, <2>2
<1>14. Settles
    <2>1. \A g \in Files : \A ch : Claims(g, ch)' <=> Claims(g, ch)
        BY <1>5, <1>13 DEF Claims
    <2>2. \A ch : DestroyQueued(ch) => DestroyQueued(ch)'
        BY <1>5 DEF DestroyQueued
    <2> QED
        BY <1>5, <2>1, <2>2, IdTypes DEF Settles
<1>15. MadeOK' /\ OwnedOK'
    BY <1>14, SettlesKeeps DEF OwnInv
<1>16. ControlOK' /\ GivenUpOK' /\ FeedbackOK'
    BY <1>5 DEF OwnInv, ControlOK, Control, GivenUpOK, FeedbackOK
<1>17. MailsOK'
    BY <1>3, <1>6, <1>8 DEF OwnInv, MailsOK
<1> QED
    BY <1>12, <1>15, <1>16, <1>17 DEF OwnInv

\* The mail is something else.
LEMMA DeliverOtherOwns ==
    ASSUME UsersInv, OwnInv, IrqDeliver, irq.mail.uid # "CREATE_CHANNEL" PROVE OwnInv'
<1>1. PICK f, m, q : f = irq.user /\ m = irq.mail /\ q = mail_to_queue(irq.mail.uid)
    OBVIOUS
<1>2. /\ m \in Answers /\ irq # NoIrq /\ f \in Files /\ q \in QueueIds /\ q # "CREATE"
      /\ IsFeedback(m) \/ q = "SC"
    <2>1. m \in Answers /\ irq # NoIrq /\ f \in Files /\ m.uid # "CREATE_CHANNEL"
        BY <1>1, IdTypes DEF IrqDeliver
    <2>2. m.uid \in {"SEARCH_START_CODE", "DESTROY_CHANNEL", "ENCODE_ONE_FRM", "DECODE_ONE_FRM",
                     "GET_RECONSTRUCTED_PICTURE"}
        BY <2>1 DEF Answers
    <2> QED
        BY <1>1, <2>1, <2>2 DEF mail_to_queue, QueueIds, IsFeedback
<1>3. /\ irq' = NoIrq
      /\ queues' = [queues EXCEPT ![f][q] = Append(@, m)]
      /\ UNCHANGED <<uid, chan_uid, pc, after, cmd, status, alive, creator>>
    BY <1>1 DEF IrqDeliver, al5_user_deliver, al5_list_push, groupVars, chanVars, threadVars, mcuVars
<1>4. PICK s : s = queues[f][q]
    OBVIOUS
<1>5. s \in Seq(Answers)
    BY <1>2, <1>4, IdTypes
<1>6. /\ \A g \in Files : \A p \in QueueIds : g # f \/ p # q => queues'[g][p] = queues[g][p]
      /\ queues'[f][q] = Append(s, m)
    BY <1>2, <1>3, <1>4, IdTypes
<1>7. \A i \in 1..Len(queues'[f][q]) :
         (i \in 1..Len(s) /\ queues'[f][q][i] = s[i]) \/ queues'[f][q][i] = m
    BY <1>2, <1>5, <1>6, Grown
<1>8. q # "SC" => m.by \in {f, NoFile}
    BY <1>1, <1>2, McuAssumption DEF OwnInv, FeedbackOK
<1>9. Reads
    <2> SUFFICES ASSUME NEW g \in Files, NEW p \in QueueIds \ {"SC"}, NEW i \in 1..Len(queues'[g][p])
                 PROVE  \/ queues'[g][p][i].by \in {g, NoFile}
                        \/ \E k \in 1..Len(queues[g][p]) : queues'[g][p][i] = queues[g][p][k]
        BY DEF Reads
    <2>1. CASE g = f /\ p = q
        BY <1>4, <1>7, <1>8, <2>1
    <2>2. CASE g # f \/ p # q
        BY <1>6, <2>2
    <2> QED
        BY <2>1, <2>2
<1>10. Calm
    BY <1>2, <1>3, <1>6 DEF Calm, Waits, QueueIds
<1>11. Drops /\ GivesUp
    BY <1>3 DEF Drops, GivesUp
<1>12. ControlOK'
    BY <1>3 DEF OwnInv, ControlOK, Control
<1> QED
    BY <1>9, <1>10, <1>11, <1>12, CalmKeeps
-----------------------------------------------------------------------------
\* The firmware.

\* It says something that is no answer to a create.
Tells(m) ==
    /\ m.uid # "CREATE_CHANNEL"
    /\ IsFeedback(m) => m.by = creator[m.chan]
    /\ status' = Append(status, m)

LEMMA TalkOwns ==
    ASSUME UsersInv, OwnInv, cmd' = cmd \/ Handles,
           Handles => Head(cmd).uid # "CREATE_CHANNEL" /\ \A ch \in alive' : ~Destroys(Head(cmd), ch),
           status' = status \/ \E m \in Answers : Tells(m),
           alive' \subseteq alive, \A ch \in Chans : creator'[ch] \in {creator[ch], NoFile},
           UNCHANGED userVars
    PROVE  OwnInv'
<1>1. UNCHANGED <<uid, chan_uid, queues, irq, pc, after>>
    BY DEF userVars, groupVars, chanVars, queueVars, threadVars
<1>2. /\ \A i \in 1..Len(status) : i \in 1..Len(status') /\ status'[i] = status[i]
      /\ \A i \in 1..Len(status') : (i \in 1..Len(status) /\ status'[i] = status[i])
            \/ (status'[i] \in Answers /\ Tells(status'[i]))
    <2>1. CASE status' = status
        BY <2>1
    <2>2. ASSUME NEW m \in Answers, Tells(m)
          PROVE  /\ \A i \in 1..Len(status) : i \in 1..Len(status') /\ status'[i] = status[i]
                 /\ \A i \in 1..Len(status') : (i \in 1..Len(status) /\ status'[i] = status[i])
                       \/ (status'[i] \in Answers /\ Tells(status'[i]))
        BY <2>2, IdTypes, Grown DEF Tells
    <2> QED
        BY <2>1, <2>2
<1>3. \E d \in {0, 1} : \A i \in 1..Len(cmd') : i + d \in 1..Len(cmd) /\ cmd'[i] = cmd[i+d]
    <2>1. CASE Handles
        <3>1. \A i \in 1..Len(cmd') : i + 1 \in 1..Len(cmd) /\ cmd'[i] = cmd[i+1]
            BY <2>1, IdTypes, Shrunk DEF Handles
        <3> QED
            BY <3>1
    <2>2. CASE ~Handles
        <3>1. \A i \in 1..Len(cmd') : i + 0 \in 1..Len(cmd) /\ cmd'[i] = cmd[i+0]
            BY <2>2
        <3> QED
            BY <3>1
    <2> QED
        BY <2>1, <2>2
<1>4. AsksOK'
    <2> SUFFICES ASSUME NEW f \in Files PROVE AskOK(f)'
        BY DEF AsksOK
    <2>1. \A i \in 1..Len(status') : IsAsk(status'[i], f) =>
             i + 0 \in 1..Len(status) /\ status'[i] = status[i+0]
        BY <1>2 DEF Tells, IsAsk
    <2>2. \E d \in {0, 1} : \A i \in 1..Len(cmd') : IsAsk(cmd'[i], f) =>
             i + d \in 1..Len(cmd) /\ cmd'[i] = cmd[i+d]
        BY <1>3
    <2>3. \E d \in {0, 1} : \A i \in 1..Len(status') : IsAsk(status'[i], f) =>
             i + d \in 1..Len(status) /\ status'[i] = status[i+d]
        BY <2>1
    <2>4. /\ AskInIrq(f)' => AskInIrq(f) /\ irq' = irq
          /\ queues'[f]["CREATE"] = queues[f]["CREATE"]
          /\ Waits(f) => Waits(f)' /\ uid'[f] = uid[f]
        BY <1>1 DEF AskInIrq, Waits
    <2>5. SameAsks(f)
        BY <2>2, <2>3, <2>4 DEF SameAsks
    <2> QED
        BY <2>5, SameAsksKeep DEF OwnInv, AsksOK
<1>5. \A f \in Files : \A ch : Claims(f, ch)' <=> Claims(f, ch)
    <2> SUFFICES ASSUME NEW f \in Files, NEW ch PROVE Claims(f, ch)' <=> Claims(f, ch)
        OBVIOUS
    <2>1. (\E i \in 1..Len(status') : IsAsk(status'[i], f) /\ status'[i].chan = ch)
          <=> (\E i \in 1..Len(status) : IsAsk(status[i], f) /\ status[i].chan = ch)
        BY <1>2 DEF Tells, IsAsk
    <2> QED
        BY <1>1, <2>1 DEF Claims, AnswerFor, AskInIrq
<1>6. ASSUME NEW ch \in alive', DestroyQueued(ch) PROVE DestroyQueued(ch)'
    <2>1. PICK i \in 1..Len(cmd) : Destroys(cmd[i], ch)
        BY <1>6 DEF DestroyQueued, Destroys
    <2>2. CASE Handles
        <3>1. /\ Head(cmd) = cmd[1]
              /\ i = 1 \/ (i - 1 \in 1..Len(cmd') /\ cmd'[i-1] = cmd[i])
            BY <2>2, IdTypes, Shrunk DEF Handles
        <3>2. i # 1
            BY <2>1, <2>2, <3>1
        <3> QED
            BY <2>1, <3>1, <3>2 DEF DestroyQueued, Destroys
    <2>3. CASE ~Handles
        BY <1>6, <2>3 DEF DestroyQueued
    <2> QED
        BY <2>2, <2>3
<1>7. Settles
    BY <1>5, <1>6 DEF Settles
<1>8. MadeOK' /\ OwnedOK'
    BY <1>7, SettlesKeeps DEF OwnInv
<1>9. ControlOK' /\ GivenUpOK' /\ MailsOK'
    BY <1>1 DEF OwnInv, ControlOK, Control, GivenUpOK, MailsOK
<1>10. FeedbackOK'
    <2>1. ASSUME NEW i \in 1..Len(status'), IsFeedback(status'[i]), NEW f \in Files,
                 chan_uid[f] = status'[i].chan
          PROVE  status'[i].by \in {f, NoFile}
        <3>1. CASE i \in 1..Len(status) /\ status'[i] = status[i]
            BY <2>1, <3>1 DEF OwnInv, FeedbackOK
        <3>2. CASE status'[i] \in Answers /\ Tells(status'[i])
            <4>1. PICK m \in Answers : m = status'[i] /\ IsFeedback(m) /\ m.by = creator[m.chan]
                BY <2>1, <3>2 DEF Tells
            <4>2. m.chan \in Chans /\ Claims(f, m.chan)
                BY <2>1, <4>1, FeedbackNames DEF IsFeedback, Claims
            <4> QED
                BY <4>1, <4>2 DEF OwnInv, MadeOK
        <3> QED
            BY <1>2, <3>1, <3>2
    <2>2. irq # NoIrq /\ IsFeedback(irq.mail) /\ irq.user # NoFile => irq.mail.by \in {irq.user, NoFile}
        BY DEF OwnInv, FeedbackOK
    <2> QED
        BY <1>1, <2>1, <2>2 DEF FeedbackOK
<1> QED
    BY <1>4, <1>8, <1>9, <1>10 DEF OwnInv

\* It answers a create, with a channel or with none.
LEMMA CreatedOwns ==
    ASSUME UsersInv, IdsInv, OwnInv, Handles, Head(cmd).uid = "CREATE_CHANNEL", NEW c \in ChanIds,
           status' = Append(status, CreateAnswer(Head(cmd), c)),
           \/ c = BAD_CHAN /\ UNCHANGED <<alive, creator>>
           \/ /\ c \in Chans \ alive /\ ~IdInUse(c) /\ alive' = alive \cup {c}
              /\ creator' = [creator EXCEPT ![c] = Head(cmd).by],
           UNCHANGED userVars
    PROVE  OwnInv'
<1>1. UNCHANGED <<uid, chan_uid, queues, irq, pc, after>>
    BY DEF userVars, groupVars, chanVars, queueVars, threadVars
<1>2. PICK f, m : f = Head(cmd).by /\ m = CreateAnswer(Head(cmd), c)
    OBVIOUS
<1>3. /\ 1 \in 1..Len(cmd) /\ Head(cmd) = cmd[1] /\ Head(cmd) \in Commands
      /\ \A i \in 1..Len(cmd') : i + 1 \in 1..Len(cmd) /\ cmd'[i] = cmd[i+1] /\ i + 1 # 1
      /\ \A i \in 1..Len(cmd) : i = 1 \/ (i - 1 \in 1..Len(cmd') /\ cmd'[i-1] = cmd[i])
    BY IdTypes, Shrunk DEF Handles
<1>4. f \in Files /\ m \in Answers
    BY <1>2, <1>3, AnswerTypes, CommandParts DEF UsersInv
<1>5. m.uid = "CREATE_CHANNEL" /\ m.by = f /\ m.user = Head(cmd).user /\ m.chan = c
    BY <1>2 DEF CreateAnswer
<1>6. /\ Len(status) \in Nat /\ Len(status) + 1 \in 1..Len(status')
      /\ status'[Len(status) + 1] = m
      /\ \A i \in 1..Len(status) : i \in 1..Len(status') /\ status'[i] = status[i]
      /\ \A i \in 1..Len(status') : (i \in 1..Len(status) /\ status'[i] = status[i])
            \/ (i = Len(status) + 1 /\ status'[i] = m)
    BY <1>2, <1>4, IdTypes, Grown
<1>7. /\ IsAsk(cmd[1], f) /\ AskInCmd(f)
      /\ \A g : IsAsk(cmd[1], g) => g = f
    BY <1>2, <1>3 DEF IsAsk, AskInCmd
<1>8. /\ ~AskInStatus(f) /\ ~AskInIrq(f) /\ ~AskInQueue(f) /\ Waits(f) /\ m.user = uid[f]
      /\ \A i \in 1..Len(cmd) : IsAsk(cmd[i], f) => i = 1
    <2>1. AskOK(f) /\ OneAsk(f)
        BY <1>4 DEF OwnInv, AsksOK, AskOK
    <2> QED
        BY <1>3, <1>5, <1>7, <2>1 DEF AskOK, OneAsk, Asked
<1>9. AskOK(f)'
    <2>1. Waits(f)'
        BY <1>1, <1>8 DEF Waits
    <2>2. /\ \A i \in 1..Len(cmd') : ~IsAsk(cmd'[i], f)
          /\ ~AskInCmd(f)' /\ ~AskInIrq(f)' /\ ~AskInQueue(f)'
          /\ queues'[f]["CREATE"] = <<>> /\ Len(queues'[f]["CREATE"]) = 0
        BY <1>1, <1>3, <1>8 DEF AskInCmd, AskInIrq, AskInQueue
    <2>3. \A i \in 1..Len(status') : IsAsk(status'[i], f) => i = Len(status) + 1 /\ status'[i] = m
        BY <1>6, <1>8 DEF AskInStatus
    <2>4. OneAsk(f)'
        BY <2>2, <2>3 DEF OneAsk
    <2> QED
        BY <1>1, <1>8, <2>1, <2>2, <2>3, <2>4 DEF AskOK
<1>10. ASSUME NEW g \in Files, g # f PROVE AskOK(g)'
    <2>1. /\ \A i \in 1..Len(cmd') : IsAsk(cmd'[i], g) => i + 1 \in 1..Len(cmd) /\ cmd'[i] = cmd[i+1]
          /\ \A i \in 1..Len(status') : IsAsk(status'[i], g) =>
                i + 0 \in 1..Len(status) /\ status'[i] = status[i+0]
        BY <1>3, <1>5, <1>6, <1>10 DEF IsAsk
    <2>2. /\ AskInIrq(g)' => AskInIrq(g) /\ irq' = irq
          /\ queues'[g]["CREATE"] = queues[g]["CREATE"]
          /\ Waits(g) => Waits(g)' /\ uid'[g] = uid[g]
        BY <1>1 DEF AskInIrq, Waits
    <2>3. SameAsks(g)
        BY <2>1, <2>2 DEF SameAsks
    <2> QED
        BY <2>3, SameAsksKeep DEF OwnInv, AsksOK
<1>11. AsksOK'
    BY <1>9, <1>10 DEF AsksOK
<1>12. \A g \in Files : \A ch : Claims(g, ch)' <=> Claims(g, ch) \/ (g = f /\ ch = c)
    <2> SUFFICES ASSUME NEW g \in Files, NEW ch
                 PROVE  Claims(g, ch)' <=> Claims(g, ch) \/ (g = f /\ ch = c)
        OBVIOUS
    <2>1. (\E i \in 1..Len(status') : IsAsk(status'[i], g) /\ status'[i].chan = ch)
          <=> (\E i \in 1..Len(status) : IsAsk(status[i], g) /\ status[i].chan = ch) \/ (g = f /\ ch = c)
        BY <1>5, <1>6 DEF IsAsk
    <2> QED
        BY <1>1, <2>1 DEF Claims, AnswerFor, AskInIrq
<1>13. c \in Chans => \A g \in Files : ~Claims(g, c) /\ chan_uid[g] # c
    <2> SUFFICES ASSUME c \in Chans, NEW g \in Files PROVE ~Claims(g, c) /\ chan_uid[g] # c
        OBVIOUS
    <2>1. c \notin alive /\ ~IdInUse(c)
        BY McuAssumption
    <2>2. chan_uid[g] # c
        BY <2>1 DEF IdInUse
    <2>3. ~AnswerFor(g, c)
        BY <2>1, ClaimTypes DEF Unread
    <2> QED
        BY <2>2, <2>3 DEF Claims
<1>14. \A ch \in Chans : creator'[ch] = IF ch = c THEN f ELSE creator[ch]
    BY <1>2, McuAssumption DEF UsersInv, McuTypes
<1>15. MadeOK'
    BY <1>12, <1>13, <1>14 DEF OwnInv, MadeOK
<1>16. OwnedOK'
    <2> SUFFICES ASSUME NEW ch \in alive', NEW g \in Files, creator'[ch] = g
                 PROVE  Claims(g, ch)' \/ DestroyQueued(ch)'
        BY DEF OwnedOK
    <2>1. ch \in Chans /\ (ch = c \/ ch \in alive)
        BY IdTypes
    <2>2. CASE ch = c
        BY <1>12, <1>14, <2>1, <2>2
    <2>3. CASE ch # c
        <3>1. Claims(g, ch) \/ DestroyQueued(ch)
            BY <1>14, <2>1, <2>3 DEF OwnInv, OwnedOK
        <3>2. DestroyQueued(ch) => DestroyQueued(ch)'
            BY <1>3 DEF DestroyQueued
        <3> QED
            BY <1>12, <3>1, <3>2
    <2> QED
        BY <2>2, <2>3
<1>17. ControlOK' /\ MailsOK'
    BY <1>1 DEF OwnInv, ControlOK, Control, MailsOK
<1>18. GivenUpOK'
    BY <1>1, <1>13, <1>14, UsersAssumption DEF OwnInv, GivenUpOK
<1>19. FeedbackOK'
    <2>1. \A i \in 1..Len(status') : IsFeedback(status'[i]) => i \in 1..Len(status) /\ status'[i] = status[i]
        BY <1>5, <1>6 DEF IsFeedback
    <2> QED
        BY <1>1, <2>1 DEF OwnInv, FeedbackOK
<1> QED
    BY <1>11, <1>15, <1>16, <1>17, <1>18, <1>19 DEF OwnInv

LEMMA FirmwareOwns == UsersInv /\ IdsInv /\ OwnInv /\ McuStep /\ Fresh => OwnInv'
<1> SUFFICES ASSUME UsersInv, IdsInv, OwnInv, McuStep, Fresh PROVE OwnInv'
    OBVIOUS
<1>0. UNCHANGED userVars /\ alive \subseteq Chans /\ McuTypes
    BY IdTypes DEF McuStep, UsersInv
<1>1. CASE McuCreates
    <2>1. Handles /\ Head(cmd).uid = "CREATE_CHANNEL"
        BY <1>1, TakesFirst DEF McuCreates
    <2>2. PICK c \in Chans \ alive :
              /\ alive' = alive \cup {c}
              /\ creator' = [creator EXCEPT ![c] = Head(cmd).by]
              /\ status' = Append(status, CreateAnswer(Head(cmd), c))
        BY <1>1 DEF McuCreates
    <2>3. ~IdInUse(c) /\ c \in ChanIds
        BY <2>2 DEF Fresh, ChanIds
    <2> QED
        BY <1>0, <2>1, <2>2, <2>3, CreatedOwns
<1>2. CASE McuRefuses
    <2>1. Handles /\ Head(cmd).uid = "CREATE_CHANNEL"
        BY <1>2, TakesFirst DEF McuRefuses
    <2>2. UNCHANGED <<alive, creator>> /\ status' = Append(status, CreateAnswer(Head(cmd), BAD_CHAN))
        BY <1>2 DEF McuRefuses
    <2>3. BAD_CHAN \in ChanIds
        BY DEF ChanIds
    <2> QED
        BY <1>0, <2>1, <2>2, <2>3, CreatedOwns
<1>3. CASE McuDestroys
    <2>1. PICK ch : ch = Head(cmd).chan
        OBVIOUS
    <2>2. Handles /\ Head(cmd).uid \in {"DESTROY_CHANNEL", "QUIET_DESTROY_CHANNEL"}
        BY <1>3, TakesFirst DEF McuDestroys
    <2>3. ch \in Chans /\ alive' = alive \ {ch} /\ creator' = [creator EXCEPT ![ch] = NoFile]
        BY <1>0, <1>3, <2>1 DEF McuDestroys, Forget
    <2>4. PICK m \in Answers : m = Feedback("DESTROY_CHANNEL", ch)
        BY <1>0, <2>3, AnswerTypes
    <2>5. status' = status \/ Tells(m)
        BY <1>3, <2>1, <2>4 DEF McuDestroys, Tells, Feedback
    <2>6. \A c \in Chans : creator'[c] \in {creator[c], NoFile}
        BY <1>0, <2>3 DEF McuTypes
    <2>7. \A c \in alive' : ~Destroys(Head(cmd), c)
        BY <2>1, <2>3 DEF Destroys
    <2> QED
        BY <1>0, <2>2, <2>3, <2>5, <2>6, <2>7, TalkOwns
<1>4. ASSUME NEW names, Takes(names), {"CREATE_CHANNEL", "DESTROY_CHANNEL", "QUIET_DESTROY_CHANNEL"}
                                       \cap names = {},
             UNCHANGED <<alive, creator>>, status' = status \/ \E m \in Answers : Tells(m)
      PROVE  OwnInv'
    <2>1. Handles /\ Head(cmd).uid # "CREATE_CHANNEL" /\ \A ch : ~Destroys(Head(cmd), ch)
        BY <1>4, TakesFirst DEF Destroys
    <2>2. \A c \in Chans : creator'[c] \in {creator[c], NoFile}
        BY <1>4
    <2> QED
        BY <1>0, <1>4, <2>1, <2>2, TalkOwns
<1>5. CASE McuGetsBuffers
    BY <1>4, <1>5 DEF McuGetsBuffers
<1>6. CASE McuGetsFrame
    BY <1>4, <1>6 DEF McuGetsFrame
<1>7. CASE McuGetsRec
    <2>1. PICK ch : ch = Head(cmd).chan
        OBVIOUS
    <2>2. PICK found, m : /\ found \in BOOLEAN
                          /\ m = [uid |-> "GET_RECONSTRUCTED_PICTURE", chan |-> ch,
                                  found |-> found, by |-> creator[ch]]
                          /\ status' = Append(status, m)
        BY <1>7, <2>1 DEF McuGetsRec
    <2>3. m \in Answers
        BY <1>0, <1>7, <2>1, <2>2, AnswerTypes DEF McuGetsRec
    <2>4. Tells(m)
        BY <2>2 DEF Tells
    <2>5. UNCHANGED <<alive, creator>> /\ Takes({"GET_RECONSTRUCTED_PICTURE"})
        BY <1>7 DEF McuGetsRec
    <2> QED
        BY <1>4, <2>3, <2>4, <2>5
<1>8. CASE McuSearches
    <2>1. PICK m : m = SearchAnswer(Head(cmd))
        OBVIOUS
    <2>2. m \in Answers
        BY <1>0, <1>8, <2>1, TakesFirst, AnswerTypes DEF McuSearches
    <2>3. Tells(m)
        BY <1>8, <2>1 DEF McuSearches, Tells, SearchAnswer, IsFeedback
    <2>4. UNCHANGED <<alive, creator>> /\ Takes({"SEARCH_START_CODE"})
        BY <1>8 DEF McuSearches
    <2> QED
        BY <1>4, <2>2, <2>3, <2>4
<1>9. CASE McuIgnores
    <2>1. Handles /\ UNCHANGED <<status, alive, creator>>
        BY <1>9 DEF McuIgnores, Takes, Handles
    <2>2. Head(cmd).uid # "CREATE_CHANNEL"
        BY <1>9 DEF McuIgnores, Takes
    <2>3. \A ch \in alive : ~Destroys(Head(cmd), ch)
        BY <1>9 DEF McuIgnores, Takes, Destroys
    <2>4. \A c \in Chans : creator'[c] \in {creator[c], NoFile}
        BY <2>1
    <2> QED
        BY <1>0, <2>1, <2>2, <2>3, <2>4, TalkOwns
<1>10. ASSUME NEW name \in {"ENCODE_ONE_FRM", "DECODE_ONE_FRM"}, McuReports(name) PROVE OwnInv'
    <2>1. PICK ch, m : ch \in alive /\ m = Feedback(name, ch) /\ status' = Append(status, m)
        BY <1>10 DEF McuReports
    <2>2. m \in Answers
        BY <1>0, <2>1, AnswerTypes
    <2>3. Tells(m)
        BY <2>1 DEF Tells, Feedback
    <2>4. UNCHANGED <<cmd, alive, creator>>
        BY <1>10 DEF McuReports
    <2>5. ~Handles
        <3>1. cmd # <<>> => Len(Tail(cmd)) # Len(cmd)
            BY IdTypes
        <3> QED
            BY <2>4, <3>1 DEF Handles
    <2>6. \A c \in Chans : creator'[c] \in {creator[c], NoFile}
        BY <2>4
    <2> QED
        BY <1>0, <2>2, <2>3, <2>4, <2>5, <2>6, TalkOwns
<1> QED
    BY <1>1, <1>2, <1>3, <1>5, <1>6, <1>7, <1>8, <1>9, <1>10 DEF McuStep, McuHandles
-----------------------------------------------------------------------------
\* All steps that encoder and decoder share.

LEMMA FreshOwns ==
    OneControl /\ UsersInv /\ IdsInv /\ OwnInv /\ FreshStep /\ signals' = 0 => OwnInv'
<1> SUFFICES ASSUME OneControl, UsersInv, IdsInv, OwnInv, FreshStep, signals' = 0 PROVE OwnInv'
    OBVIOUS
<1>1. ASSUME NEW f \in Files, al5_codec_open(f) PROVE OwnInv'
    BY <1>1, OpenOwns
<1>2. ASSUME NEW t \in Threads, SharedCall(t) PROVE OwnInv'
    <2>1. CASE PassiveCall(t)
        BY <2>1, PassiveOwns
    <2>2. CASE DestroyQuiet(t) \/ DestroySend(t) \/ DestroyAnswered(t)
        BY <2>2, DestroyQuietOwns, DestroySendOwns, DestroyAnsweredOwns
    <2>3. CASE ReleaseFree(t) \/ ReleasePurge(t) \/ ReleaseUnbind(t)
        BY <2>3, ReleaseFreeOwns, ReleasePurgeOwns, ReleaseUnbindOwns
    <2>4. CASE CreateSend(t) \/ \E op \in WaitOps : WaitReturn(t, op)
        BY <2>4, CreateSendOwns, WaitReturnOwns
    <2> QED
        BY <1>2, <2>1, <2>2, <2>3, <2>4 DEF SharedCall, DestroyStep, ReleaseStep, PassiveCall
<1>3. CASE Irq
    <2>1. CASE IrqDeliver
        BY <2>1, DeliverAnswerOwns, DeliverOtherOwns
    <2> QED
        BY <1>3, <2>1, IrqReadOwns, IrqOrphanOwns DEF Irq
<1>4. CASE McuStep /\ Fresh
    BY <1>4, FirmwareOwns
<1> QED
    BY <1>1, <1>2, <1>3, <1>4 DEF FreshStep

\* Signals are counted up.
LEMMA SignalsGrow == UsersInv /\ FreshStep /\ signals' = 0 => signals = 0
<1> SUFFICES ASSUME UsersInv, FreshStep, signals' = 0 PROVE signals = 0
    OBVIOUS
<1>0. signals \in Nat
    BY UsersAssumption DEF UsersInv, ThreadTypes
<1>1. ASSUME NEW f \in Files, al5_codec_open(f) PROVE signals' = signals
    BY <1>1 DEF al5_codec_open, threadVars
<1>2. ASSUME NEW t \in Threads, SharedCall(t) PROVE signals' \in {signals, signals + 1}
    <2>1. CASE DestroyEnter(t) \/ DestroyStep(t) \/ ReleaseEnter(t) \/ ReleaseStep(t)
        BY <2>1 DEF DestroyEnter, DestroyStep, ReleaseEnter, ReleaseStep, DestroyQueues, DestroyMutex,
           DestroyRefused, DestroyQuiet, DestroySend, DestroyAnswered, DestroyUnlock, DestroyRelock,
           ReleaseTry, ReleaseFree, ReleasePurge, ReleaseUnbind
    <2>2. CASE DestroyKilled(t) \/ DestroyInterrupted(t) \/ CreateGivesUp(t) \/ CreateSend(t) \/ CreateWoken(t)
        BY <2>2 DEF DestroyKilled, DestroyInterrupted, CreateGivesUp, CreateSend, CreateWoken, Signal
    <2>3. CASE \E op \in WaitOps : WaitCall(t, op) \/ WaitReturn(t, op) \/ WaitInterrupted(t, op)
        BY <2>3 DEF WaitCall, WaitEnter, WaitReturn, WaitInterrupted, Signal
    <2> QED
        BY <1>2, <2>1, <2>2, <2>3 DEF SharedCall
<1>3. CASE Irq
    BY <1>3 DEF Irq, IrqRead, IrqDeliver, IrqOrphan, threadVars
<1>4. CASE McuStep
    BY <1>4 DEF McuStep, userVars, threadVars
<1> QED
    BY <1>0, <1>1, <1>2, <1>3, <1>4 DEF FreshStep

LEMMA OwnStutter == OwnInv /\ UNCHANGED <<userVars, mcuVars>> => OwnInv'
<1> SUFFICES ASSUME OwnInv, UNCHANGED <<userVars, mcuVars>> PROVE OwnInv'
    OBVIOUS
<1>1. UNCHANGED <<uid, chan_uid, queues, irq, pc, after, cmd, status, alive, creator>>
    BY DEF userVars, mcuVars, groupVars, chanVars, queueVars, threadVars
<1>2. \A f \in Files : AskOK(f)' <=> AskOK(f)
    BY <1>1 DEF AskOK, OneAsk, Asked, AskInCmd, AskInStatus, AskInIrq, AskInQueue, Waits
<1>3. \A f \in Files : \A ch : Claims(f, ch)' <=> Claims(f, ch)
    BY <1>1 DEF Claims, AnswerFor, AskInIrq
<1>4. \A ch : DestroyQueued(ch)' <=> DestroyQueued(ch)
    BY <1>1 DEF DestroyQueued
<1> QED
    BY <1>1, <1>2, <1>3, <1>4 DEF OwnInv, ControlOK, Control, AsksOK, MadeOK, OwnedOK, GivenUpOK,
       FeedbackOK, MailsOK

LEMMA OwnStart == UsersInit /\ McuInit => OwnInv
<1> SUFFICES ASSUME UsersInit, McuInit PROVE OwnInv
    OBVIOUS
<1>1. /\ chan_uid = [f \in Files |-> BAD_CHAN] /\ irq = NoIrq /\ cmd = <<>> /\ status = <<>>
      /\ \A f \in Files : \A q \in QueueIds : queues[f][q] = <<>>
      /\ pc = [t \in Threads |-> "idle"] /\ alive = {}
    BY DEF UsersInit, McuInit
<1>2. /\ Len(cmd) = 0 /\ Len(status) = 0
      /\ \A f \in Files : queues[f]["CREATE"] = <<>> /\ Len(queues[f]["CREATE"]) = 0
      /\ \A f \in Files : \A q \in QueueIds : Len(queues[f][q]) = 0
    BY <1>1 DEF QueueIds
<1>3. ASSUME NEW f \in Files PROVE ~AskInCmd(f) /\ ~AskInStatus(f) /\ ~AskInIrq(f) /\ ~AskInQueue(f)
    BY <1>1, <1>2 DEF AskInCmd, AskInStatus, AskInIrq, AskInQueue
<1>4. AsksOK
    BY <1>2, <1>3 DEF AsksOK, AskOK, OneAsk, Asked
<1>5. \A f \in Files : \A ch \in Chans : ~Claims(f, ch)
    BY <1>1, <1>2, <1>3, McuAssumption DEF Claims, AnswerFor
<1> QED
    BY <1>1, <1>2, <1>4, <1>5 DEF OwnInv, ControlOK, Control, MadeOK, OwnedOK, GivenUpOK, FeedbackOK, MailsOK,
       Creating, Destroying

\* What the invariant says of the properties.
LEMMA OwnNoOrphans == UsersInv /\ OwnInv => NoOrphanChannel
<1> SUFFICES ASSUME UsersInv, OwnInv, NEW c \in alive, creator[c] # NoFile, ~DestroyQueued(c)
             PROVE  \/ \E f \in Files :
                          \/ chan_uid[f] = c
                          \/ \E i \in 1..Len(queues[f]["CREATE"]) : queues[f]["CREATE"][i].chan = c
                    \/ \E i \in 1..Len(status) : status[i].uid = "CREATE_CHANNEL" /\ status[i].chan = c
                    \/ irq # NoIrq /\ irq.mail.uid = "CREATE_CHANNEL" /\ irq.mail.chan = c
    BY DEF NoOrphanChannel
<1>1. c \in Chans /\ creator[c] \in Files
    BY IdTypes DEF UsersInv, McuTypes
<1>2. PICK f \in Files : f = creator[c]
    BY <1>1
<1>3. Claims(f, c)
    BY <1>2 DEF OwnInv, OwnedOK
<1> QED
    BY <1>3 DEF Claims, AnswerFor, AskInIrq, IsAsk
=============================================================================
