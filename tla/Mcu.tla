-------------------------------- MODULE Mcu ---------------------------------
(***************************************************************************)
(* The MCU as the driver sees it: the two mailboxes and, behind them, the  *)
(* firmware.                                                               *)
(*                                                                         *)
(* The mailboxes are the first-in first-out channels that module Mailbox   *)
(* is proved to implement; the command box refuses a mail when it is full. *)
(* The firmware is not in this repository.  Its actions say what the       *)
(* driver relies on: it handles commands in order, answers every CREATE    *)
(* and DESTROY of a live channel once, gives a channel an id that no live  *)
(* channel has, and reports on a frame only while the channel lives.       *)
(***************************************************************************)
EXTENDS Integers, Sequences

CONSTANTS
    Chans,       \* channel ids the firmware hands out
    BAD_CHAN,    \* 0xff: no channel
    Files,       \* open files of the device, one al5_user each
    NoFile,      \* nobody
    CmdCap,      \* bound: mails that fit into the command box
    StatusCap    \* bound: mails that fit into the status box

ASSUME McuAssumption ==
    /\ BAD_CHAN \notin Chans
    /\ NoFile \notin Files
    /\ CmdCap \in Nat \ {0}
    /\ StatusCap \in Nat \ {0}

VARIABLES
    cmd,         \* command box, cpu_to_mcu
    status,      \* status box, mcu_to_cpu
    alive,       \* channels that live in the firmware
    pushed,      \* buffers each live channel was given, in order
    frames,      \* frames each live channel has to report on
    creator      \* history: the file whose CREATE made the channel, nobody
                 \* once al5_codec_release has given the channel up

mcuVars == <<cmd, status, alive, pushed, frames, creator>>

McuInit ==
    /\ cmd = <<>>
    /\ status = <<>>
    /\ alive = {}
    /\ pushed = [c \in Chans |-> <<>>]
    /\ frames = [c \in Chans |-> 0]
    /\ creator = [c \in Chans |-> NoFile]

\* mutant: one mail too many is let in.
CmdFull_OffByOne == Len(cmd) > CmdCap

\* al5_mcu_send returns -EAGAIN when the mail does not fit.
CmdFull == Len(cmd) >= CmdCap

al5_mcu_send(m) == cmd' = Append(cmd, m)

\* The commands.  `by' is history: the file that sent it.
CreateMsg(f, user_uid) == [uid |-> "CREATE_CHANNEL", user |-> user_uid, by |-> f]
SearchMsg(f, user_uid) == [uid |-> "SEARCH_START_CODE", user |-> user_uid, by |-> f]
ChanMsg(msg_uid, c)    == [uid |-> msg_uid, chan |-> c]

\* destroy_orphan_channel sends the same mail; `orphan' is history.
OrphanMsg(c) == [uid |-> "QUIET_DESTROY_CHANNEL", chan |-> c, orphan |-> TRUE]

\* The answers.  `by' is history: the file whose CREATE made the channel.
CreateAnswer(m, c) == [uid |-> "CREATE_CHANNEL", user |-> m.user, chan |-> c, by |-> m.by]
SearchAnswer(m)      == [uid |-> "SEARCH_START_CODE", user |-> m.user, by |-> m.by]
Feedback(msg_uid, c) == [uid |-> msg_uid, chan |-> c, by |-> creator[c]]

-----------------------------------------------------------------------------
\* The firmware takes the first command, or reports on a frame.

Takes(msg_uids) ==
    /\ cmd # <<>>
    /\ Head(cmd).uid \in msg_uids
    /\ Len(status) < StatusCap
    /\ cmd' = Tail(cmd)

McuCreates ==
    /\ Takes({"CREATE_CHANNEL"})
    /\ \E c \in Chans \ alive :
          /\ alive' = alive \cup {c}
          /\ creator' = [creator EXCEPT ![c] = Head(cmd).by]
          /\ status' = Append(status, CreateAnswer(Head(cmd), c))
    /\ UNCHANGED <<pushed, frames>>

\* Unavailable resources or wrong configuration.
McuRefuses ==
    /\ Takes({"CREATE_CHANNEL"})
    /\ status' = Append(status, CreateAnswer(Head(cmd), BAD_CHAN))
    /\ UNCHANGED <<alive, pushed, frames, creator>>

Forget(c) ==
    /\ alive' = alive \ {c}
    /\ pushed' = [pushed EXCEPT ![c] = <<>>]
    /\ frames' = [frames EXCEPT ![c] = 0]
    /\ creator' = [creator EXCEPT ![c] = NoFile]

McuDestroys ==
    /\ Takes({"DESTROY_CHANNEL", "QUIET_DESTROY_CHANNEL"})
    /\ Head(cmd).chan \in alive
    /\ Forget(Head(cmd).chan)
    /\ status' = IF Head(cmd).uid = "DESTROY_CHANNEL"
                 THEN Append(status, Feedback("DESTROY_CHANNEL", Head(cmd).chan))
                 ELSE status

McuGetsBuffers ==
    /\ Takes({"PUSH_BUFFER_INTERMEDIATE", "PUSH_BUFFER_REFERENCE"})
    /\ Head(cmd).chan \in alive
    /\ pushed' = [pushed EXCEPT ![Head(cmd).chan] = Append(@, Head(cmd).uid)]
    /\ UNCHANGED <<status, alive, frames, creator>>

McuGetsFrame ==
    /\ Takes({"ENCODE_ONE_FRM", "DECODE_ONE_FRM"})
    /\ Head(cmd).chan \in alive
    /\ frames' = [frames EXCEPT ![Head(cmd).chan] = @ + 1]
    /\ UNCHANGED <<status, alive, pushed, creator>>

\* Answers with a reconstructed picture, or with none available.
McuGetsRec ==
    /\ Takes({"GET_RECONSTRUCTED_PICTURE"})
    /\ Head(cmd).chan \in alive
    /\ \E found \in BOOLEAN :
          status' = Append(status, [uid |-> "GET_RECONSTRUCTED_PICTURE",
                                    chan |-> Head(cmd).chan, found |-> found,
                                    by |-> creator[Head(cmd).chan]])
    /\ UNCHANGED <<alive, pushed, frames, creator>>

\* A start code search needs no channel; its answer goes by the user id.
McuSearches ==
    /\ Takes({"SEARCH_START_CODE"})
    /\ status' = Append(status, SearchAnswer(Head(cmd)))
    /\ UNCHANGED <<alive, pushed, frames, creator>>

\* Commands without an answer, and commands for a channel that is not there.
McuIgnores ==
    /\ \/ Takes({"PUT_STREAM_BUFFER", "RELEASE_RECONSTRUCTED_PICTURE", "DECODE_ONE_SLICE"})
       \/ /\ Takes({"DESTROY_CHANNEL", "QUIET_DESTROY_CHANNEL", "ENCODE_ONE_FRM",
                    "DECODE_ONE_FRM", "PUSH_BUFFER_INTERMEDIATE", "PUSH_BUFFER_REFERENCE",
                    "GET_RECONSTRUCTED_PICTURE"})
          /\ Head(cmd).chan \notin alive
    /\ UNCHANGED <<status, alive, pushed, frames, creator>>

\* msg_uid is ENCODE_ONE_FRM or DECODE_ONE_FRM, as the device is.
McuReports(msg_uid) ==
    /\ Len(status) < StatusCap
    /\ \E c \in alive :
          /\ frames[c] > 0
          /\ frames' = [frames EXCEPT ![c] = @ - 1]
          /\ status' = Append(status, Feedback(msg_uid, c))
    /\ UNCHANGED <<cmd, alive, pushed, creator>>

McuHandles ==
    \/ McuCreates
    \/ McuRefuses
    \/ McuDestroys
    \/ McuGetsBuffers
    \/ McuGetsFrame
    \/ McuGetsRec
    \/ McuSearches
    \/ McuIgnores

McuTypeOK ==
    /\ Len(cmd) <= CmdCap
    /\ Len(status) <= StatusCap
    /\ alive \subseteq Chans
    /\ pushed \in [Chans -> Seq({"PUSH_BUFFER_INTERMEDIATE", "PUSH_BUFFER_REFERENCE"})]
    /\ frames \in [Chans -> Nat]
    /\ creator \in [Chans -> Files \cup {NoFile}]

=============================================================================
