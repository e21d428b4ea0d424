------------------------------ MODULE Mailbox -------------------------------
(***************************************************************************)
(* A mailbox between the CPU and the MCU (common/al_mailbox.c, with        *)
(* al5_mcu_send and al5_mcu_recv of common/mcu_interface.c).               *)
(*                                                                         *)
(* The mailbox is a ring of 32-bit words in memory both sides can access,  *)
(* with two registers: the reader publishes `head', the writers publish    *)
(* `tail', both byte offsets into the ring.  A mail is a 4-byte header     *)
(* (body size and message uid) followed by the body, padded to a multiple  *)
(* of four bytes.  Writers exclude each other with write_lock; nothing     *)
(* excludes the reader from the writers but the two registers.             *)
(*                                                                         *)
(* The driver uses the same code for both directions, so one module models *)
(* both: for the command box the writers are the CPU's threads and the     *)
(* reader is the MCU, for the status box the writer is the MCU and the     *)
(* reader is the interrupt thread, the only caller of al5_mcu_recv.        *)
(*                                                                         *)
(* A copy to or from the ring is one step.  Each access to a register is a *)
(* step of its own, except that a writer reads `tail' (which only the      *)
(* holder of write_lock changes) in the step in which it reads `head'.     *)
(***************************************************************************)
EXTENDS Integers, Sequences

CONSTANTS
    Size,       \* box->size, the bytes of the ring (MAILBOX_SIZE)
    Mails,      \* the mails that may be written
    Writers,    \* the threads that call al5_mcu_send
    NoWriter,   \* write_lock is free
    NoMail,     \* no mail is being written
    Residue,    \* what the memory of the ring holds at start
    MaxMails    \* bound: mails written in a behaviour

U16 == {n \in Nat : n < 65536}

Byte == {n \in Nat : n < 256}

Word == Byte \X Byte \X Byte \X Byte

ZeroWord == <<0, 0, 0, 0>>

\* The size in bytes a copy of n bytes occupies in the ring.
AlignUp(n) == ((n + 3) \div 4) * 4

\* The 32-bit words that n bytes span; the last one may be partial.
WordsIn(n) == (n + 3) \div 4

(***************************************************************************)
(* struct al5_mail: a message uid, a body size in bytes, and the body.     *)
(***************************************************************************)
Mail == [uid : U16, size : U16, words : Seq(Word)]

header_size == 4

(***************************************************************************)
(* head and tail are multiples of 4, so the ring has to be one too.        *)
(***************************************************************************)
ASSUME SizeAssumption ==
    /\ Size \in Nat
    /\ Size % 4 = 0
    /\ Size >= 8

ASSUME MailsAssumption ==
    /\ Mails \subseteq Mail
    /\ \A m \in Mails : Len(m.words) = WordsIn(m.size)

ASSUME NamesAssumption ==
    /\ NoWriter \notin Writers
    /\ NoMail \notin Mails
    /\ Residue \in Word
    /\ MaxMails \in Nat

-----------------------------------------------------------------------------
\* The ring's arithmetic.

NWords == Size \div 4

Offsets == 0 .. Size - 1

\* Mutant: the branch for a ring in use across its end is forgotten.
UsedSize_NoWrap(h, t) == IF t >= h THEN t - h ELSE h - t

\* Bytes in use as a writer computes them from the two registers.
UsedSize(h, t) == IF t >= h THEN t - h ELSE Size + t - h

\* Mutant: forgets the word that keeps a full ring apart from an empty one.
not_enough_space_NoGap(used_size, data_size) == data_size > Size - used_size

not_enough_space_in_mailbox(used_size, data_size) ==
    data_size + 4 > Size - used_size

mailbox_is_wrapping(off, data_size) == off + data_size > Size

\* Full words copied before the end of the ring is reached.
WordsBeforeWrap(off, size) ==
    IF mailbox_is_wrapping(off, size) THEN (Size - off) \div 4 ELSE size \div 4

\* Mutant: an offset that reaches the end of the ring stays there.
advance_NoModulo(off, size) ==
    IF mailbox_is_wrapping(off, size)
    THEN AlignUp(size - (Size - off))
    ELSE AlignUp(off + size)

(***************************************************************************)
(* Where head or tail ends up after `size' bytes were copied from `off'.   *)
(***************************************************************************)
advance(off, size) ==
    IF mailbox_is_wrapping(off, size)
    THEN AlignUp(size - (Size - off)) % Size
    ELSE AlignUp(off + size) % Size

\* Mutant: the source is not advanced past what was copied before the end.
write_data_SameSource(mem, off, src, size) ==
    LET first  == off \div 4
        before == WordsBeforeWrap(off, size)
        after  == size \div 4 - before
    IN  [i \in 0 .. NWords - 1 |->
            IF i < after THEN src[i + 1]
            ELSE IF first <= i /\ i < first + before THEN src[i - first + 1]
            ELSE mem[i]]

(***************************************************************************)
(* write_data with memcpy_toio_32: only whole words are copied, those that *)
(* do not fit before the end of the ring to its beginning.                 *)
(***************************************************************************)
write_data(mem, off, src, size) ==
    LET first  == off \div 4
        before == WordsBeforeWrap(off, size)
        after  == size \div 4 - before
    IN  [i \in 0 .. NWords - 1 |->
            IF i < after THEN src[before + i + 1]
            ELSE IF first <= i /\ i < first + before THEN src[i - first + 1]
            ELSE mem[i]]

(***************************************************************************)
(* read_data with memcpy_fromio_32: the buffer is zeroed, then whole words *)
(* are copied, so the bytes of a partial last word read as zero.           *)
(***************************************************************************)
read_data(mem, off, size) ==
    LET before == WordsBeforeWrap(off, size)
    IN  [k \in 1 .. WordsIn(size) |->
            IF k <= before THEN mem[(off \div 4) + k - 1]
            ELSE IF k <= size \div 4 THEN mem[k - before - 1]
            ELSE ZeroWord]

\* The header of a mail, a little-endian pair of 16-bit fields.
serialize_header(uid, size) ==
    <<size % 256, size \div 256, uid % 256, uid \div 256>>

unserialize_body_size(header) == header[1] + 256 * header[2]

unserialize_msg_uid(header) == header[3] + 256 * header[4]

-----------------------------------------------------------------------------
VARIABLES
    head,        \* *box->head: offset of the next byte to read
    tail,        \* *box->tail: offset of the next byte to write
    data,        \* box->data, as words
    local_tail,  \* box->local_tail: where the writer is writing
    write_lock,  \* the writer inside al5_mcu_send, or NoWriter
    wpc,         \* what that writer does next
    mail,        \* the mail it writes
    rpc,         \* what the reader does next
    rheader      \* the header the reader has read

\* History of the box: it is read by no step, only by properties and proofs.
VARIABLES
    sent,        \* every mail written, with its position in the byte stream
    inbox,       \* every mail read
    wr,          \* bytes of complete mails ever written
    rd           \* bytes ever read

ringVars == <<head, tail, data, local_tail, write_lock, wpc, mail, rpc, rheader>>
vars == <<head, tail, data, local_tail, write_lock, wpc, mail, rpc, rheader,
          sent, inbox, wr, rd>>

\* al5_mailbox_init: both registers are zero, the ring is not cleared.
Init ==
    /\ head = 0
    /\ tail = 0
    /\ data = [i \in 0 .. NWords - 1 |-> Residue]
    /\ local_tail = 0
    /\ write_lock = NoWriter
    /\ wpc = "idle"
    /\ mail = NoMail
    /\ rpc = "idle"
    /\ rheader = ZeroWord
    /\ sent = <<>>
    /\ inbox = <<>>
    /\ wr = 0
    /\ rd = 0

(***************************************************************************)
(* al5_mcu_send.  Entry takes write_lock; leaving it, with 0 or -EAGAIN,   *)
(* releases it.                                                            *)
(***************************************************************************)
Leave ==
    /\ write_lock' = NoWriter
    /\ wpc' = "idle"
    /\ mail' = NoMail

SendBegin(w, m) ==
    /\ write_lock = NoWriter
    /\ Len(sent) < MaxMails
    /\ write_lock' = w
    /\ wpc' = "check"
    /\ mail' = m
    /\ UNCHANGED <<head, tail, data, local_tail, rpc, rheader, sent, inbox, wr, rd>>

\* Room as the writer sees it: header and body, and one word left over.
HasRoom(m) ==
    ~not_enough_space_in_mailbox(UsedSize(head, tail), m.size + header_size)

\* al5_mailbox_write returns -EAGAIN.
WriteRefused ==
    /\ wpc = "check"
    /\ ~HasRoom(mail)
    /\ Leave
    /\ UNCHANGED <<head, tail, data, local_tail, rpc, rheader, sent, inbox, wr, rd>>

\* There is room: pull_tail, then the copies.
WriteAdmitted ==
    /\ wpc = "check"
    /\ HasRoom(mail)
    /\ local_tail' = tail
    /\ wpc' = "header"
    /\ UNCHANGED <<head, tail, data, write_lock, mail, rpc, rheader, sent, inbox, wr, rd>>

WriteHeader ==
    /\ wpc = "header"
    /\ data' = write_data(data, local_tail,
                          <<serialize_header(mail.uid, mail.size)>>, header_size)
    /\ local_tail' = advance(local_tail, header_size)
    /\ wpc' = "body"
    /\ UNCHANGED <<head, tail, write_lock, mail, rpc, rheader, sent, inbox, wr, rd>>

WriteBody ==
    /\ wpc = "body"
    /\ data' = write_data(data, local_tail, mail.words, mail.size)
    /\ local_tail' = advance(local_tail, mail.size)
    /\ wpc' = "push"
    /\ UNCHANGED <<head, tail, write_lock, mail, rpc, rheader, sent, inbox, wr, rd>>

\* push_tail: the mail becomes visible to the reader.
PushTail ==
    /\ wpc = "push"
    /\ tail' = local_tail
    /\ Leave
    /\ sent' = Append(sent, [mail |-> mail, at |-> wr])
    /\ wr' = wr + header_size + AlignUp(mail.size)
    /\ UNCHANGED <<head, data, local_tail, rpc, rheader, inbox, rd>>

\* Mutant: takes a ring in use across its end for an empty one.
al5_mcu_is_empty_NoWrap == head >= tail

al5_mcu_is_empty == head = tail

(***************************************************************************)
(* The reader: al5_mcu_is_empty, then al5_mailbox_read, which publishes    *)
(* head after the header and again after the body.                         *)
(***************************************************************************)
ReadHeader ==
    /\ rpc = "idle"
    /\ ~al5_mcu_is_empty
    /\ rheader' = read_data(data, head, header_size)[1]
    /\ head' = advance(head, header_size)
    /\ rpc' = "body"
    /\ rd' = rd + header_size
    /\ UNCHANGED <<tail, data, local_tail, write_lock, wpc, mail, sent, inbox, wr>>

ReadBody ==
    LET size == unserialize_body_size(rheader)
    IN  /\ rpc = "body"
        /\ inbox' = Append(inbox, [uid   |-> unserialize_msg_uid(rheader),
                                   size  |-> size,
                                   words |-> read_data(data, head, size)])
        /\ head' = advance(head, size)
        /\ rpc' = "idle"
        /\ rheader' = ZeroWord
        /\ rd' = rd + AlignUp(size)
        /\ UNCHANGED <<tail, data, local_tail, write_lock, wpc, mail, sent, wr>>

WriterStep ==
    \/ WriteRefused
    \/ WriteAdmitted
    \/ WriteHeader
    \/ WriteBody
    \/ PushTail

ReaderStep == ReadHeader \/ ReadBody

Next ==
    \/ \E w \in Writers, m \in Mails : SendBegin(w, m)
    \/ WriterStep
    \/ ReaderStep

Spec == Init /\ [][Next]_vars

(***************************************************************************)
(* Fairness: a spinlock is held for a bounded time, so a writer that has   *)
(* it finishes; the reader runs as long as the box is not empty, because   *)
(* every write is followed by a signal to it (al5_signal_mcu one way, the  *)
(* MCU's interrupt the other).  Nobody is obliged to start a write.        *)
(***************************************************************************)
FairSpec == Spec /\ WF_vars(WriterStep) /\ WF_vars(ReaderStep)

-----------------------------------------------------------------------------
\* The registers hold offsets of the ring, and nothing is read or written
\* outside it (al5_mailbox_write, al5_mailbox_read).
TypeOK ==
    /\ head \in Offsets
    /\ tail \in Offsets
    /\ data \in [0 .. NWords - 1 -> Word]
    /\ local_tail \in Offsets
    /\ write_lock \in Writers \cup {NoWriter}
    /\ wpc \in {"idle", "check", "header", "body", "push"}
    /\ mail \in Mails \cup {NoMail}
    /\ rpc \in {"idle", "body"}
    /\ rheader \in Word
    /\ sent \in Seq([mail : Mails, at : Nat])
    /\ inbox \in Seq(Mail)
    /\ wr \in Nat
    /\ rd \in Nat

(***************************************************************************)
(* "Head & Tail can only be multiples of 4, and they can only be equals if *)
(* mailbox is empty" (comment of not_enough_space_in_mailbox), where empty *)
(* is said of the byte stream: everything written has been read.           *)
(***************************************************************************)
HeadTail ==
    /\ head % 4 = 0
    /\ tail % 4 = 0
    /\ (head = tail) <=> (rd = wr)

\* What the reader makes of a mail: the bytes of a partial last word are lost
\* to the 32-bit copies and read as zero.
AsDelivered(m) ==
    [m EXCEPT !.words = [k \in 1 .. WordsIn(m.size) |->
                            IF k <= m.size \div 4 THEN m.words[k] ELSE ZeroWord]]

(***************************************************************************)
(* The n-th mail al5_mailbox_read returns is the n-th mail                 *)
(* al5_mailbox_write accepted: nothing is lost, duplicated, reordered,     *)
(* torn by the end of the ring or overwritten by a later write.            *)
(***************************************************************************)
InOrderIntact ==
    /\ Len(inbox) <= Len(sent)
    /\ \A i \in 1 .. Len(inbox) : inbox[i] = AsDelivered(sent[i].mail)

\* The mails that are in the ring, as the reader will see them.
Pending ==
    [i \in 1 .. Len(sent) - Len(inbox) |->
        AsDelivered(sent[Len(inbox) + i].mail)]

Fifo == INSTANCE MailFifo WITH
            Mails <- {AsDelivered(m) : m \in Mails},
            fifo <- Pending,
            delivered <- inbox

\* The ring implements a first-in first-out channel of mails: a mail enters
\* it at push_tail and leaves it when its body has been read.
ImplementsFifo == Fifo!Spec

\* A mail that al5_mailbox_write accepted is read eventually.
EveryMailRead ==
    \A n \in 1 .. MaxMails : (Len(sent) >= n) ~> (Len(inbox) >= n)

-----------------------------------------------------------------------------
(***************************************************************************)
(* The inductive invariant.  It ties the ring to the byte stream: stream   *)
(* position p, for rd <= p < rd + Size, is kept at offset Pos(p).          *)
(***************************************************************************)

\* The offset d bytes after offset h.
Off(h, d) == IF h + d >= Size THEN h + d - Size ELSE h + d

Pos(p) == Off(head, p - rd)

\* The bytes a mail takes in the ring.
Span(m) == header_size + AlignUp(m.size)

HeaderStored(m, p) == data[Pos(p) \div 4] = serialize_header(m.uid, m.size)

BodyStored(m, p) ==
    \A k \in 1 .. m.size \div 4 : data[Pos(p + 4 * k) \div 4] = m.words[k]

\* Stream position the writer has reached, not yet published.
LocalWr ==
    CASE wpc = "body" -> wr + header_size
      [] wpc = "push" -> wr + Span(mail)
      [] OTHER        -> wr

\* The lock, the writer's program counter and its mail go together.
LockInv ==
    /\ (wpc = "idle") <=> (write_lock = NoWriter)
    /\ (wpc = "idle") <=> (mail = NoMail)

\* The registers stand for stream positions less than a ring apart.
RegisterInv ==
    /\ head % 4 = 0
    /\ tail % 4 = 0
    /\ local_tail % 4 = 0
    /\ wr % 4 = 0
    /\ rd % 4 = 0
    /\ rd <= wr
    /\ wr - rd <= Size - 4
    /\ tail = Pos(wr)

\* What the writer was admitted for still fits, and is where it should be.
WriterInv ==
    wpc \in {"header", "body", "push"} =>
        /\ wr + Span(mail) - rd <= Size - 4
        /\ local_tail = Pos(LocalWr)
        /\ wpc # "header" => HeaderStored(mail, wr)
        /\ wpc = "push" => BodyStored(mail, wr)

\* The mails written follow one another in the stream.
StreamInv ==
    /\ \A i \in 1 .. Len(sent) : sent[i].at % 4 = 0
    /\ \A i \in 1 .. Len(sent) :
          sent[i].at + Span(sent[i].mail) =
              IF i = Len(sent) THEN wr ELSE sent[i + 1].at
    /\ \A i, j \in 1 .. Len(sent) :
          i < j => sent[i].at + Span(sent[i].mail) <= sent[j].at

\* Where the reader is: before a mail, at the end, or after a header.
ReaderInv ==
    /\ Len(inbox) <= Len(sent)
    /\ rpc = "idle" =>
          rd = IF Len(inbox) = Len(sent) THEN wr ELSE sent[Len(inbox) + 1].at
    /\ rpc = "body" =>
          /\ Len(inbox) < Len(sent)
          /\ rd = sent[Len(inbox) + 1].at + header_size
          /\ rheader = serialize_header(sent[Len(inbox) + 1].mail.uid,
                                        sent[Len(inbox) + 1].mail.size)

\* Every mail that is not read yet is intact in the ring.
UnreadStored ==
    \A i \in Len(inbox) + 1 .. Len(sent) :
        /\ BodyStored(sent[i].mail, sent[i].at)
        /\ (rpc = "idle" \/ i > Len(inbox) + 1) =>
              HeaderStored(sent[i].mail, sent[i].at)

(***************************************************************************)
(* Why the mailbox is correct: at every moment, also in the middle of a    *)
(* write or of a read, the ring holds every accepted and unread mail where *)
(* the reader will look for it, and what a writer still has to copy fits   *)
(* into bytes the reader has released.                                     *)
(***************************************************************************)
RingInv ==
    /\ TypeOK
    /\ LockInv
    /\ RegisterInv
    /\ WriterInv
    /\ StreamInv
    /\ ReaderInv
    /\ UnreadStored
    /\ InOrderIntact

=============================================================================
