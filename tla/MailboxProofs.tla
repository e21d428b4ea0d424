--------------------------- MODULE MailboxProofs ----------------------------
(***************************************************************************)
(* Proofs about Mailbox, for every ring size, set of mails and writers.    *)
(***************************************************************************)
EXTENDS Mailbox, SequenceTheorems, TLAPS

-----------------------------------------------------------------------------
\* Arithmetic of the ring.

\* x % Size for the x that occur: no further than one lap.
LEMMA ModLap ==
    ASSUME NEW x \in 0 .. Size
    PROVE  x % Size = IF x = Size THEN 0 ELSE x
<1>1. Size \in Nat /\ Size >= 8
    BY SizeAssumption
<1> QED
    BY <1>1, SMT

\* Rounding up to a word.
LEMMA AlignUpFacts ==
    ASSUME NEW n \in Nat
    PROVE  /\ AlignUp(n) \in Nat
           /\ AlignUp(n) % 4 = 0
           /\ n <= AlignUp(n)
           /\ AlignUp(n) <= n + 3
           /\ AlignUp(n) = 4 * WordsIn(n)
           /\ WordsIn(n) \in Nat
           /\ n \div 4 \in Nat
           /\ n \div 4 <= WordsIn(n)
           /\ 4 * (n \div 4) <= n
    BY SMT DEF AlignUp, WordsIn

\* Rounding up commutes with moving by whole words.
LEMMA AlignUpShift ==
    ASSUME NEW n \in Nat, NEW d \in Nat, d % 4 = 0
    PROVE  AlignUp(n + d) = AlignUp(n) + d
    BY SMT DEF AlignUp

\* The offset arithmetic of write_data and read_data is a move around the
\* ring by the rounded size.
LEMMA AdvanceIsOff ==
    ASSUME NEW off \in Offsets, off % 4 = 0,
           NEW size \in Nat, AlignUp(size) <= Size - 4
    PROVE  advance(off, size) = Off(off, AlignUp(size))
<1> DEFINE A == AlignUp(size)
<1>1. Size \in Nat /\ Size % 4 = 0 /\ Size >= 8 /\ off \in 0 .. Size - 1
    BY SizeAssumption DEF Offsets
<1>2. A \in Nat /\ A % 4 = 0 /\ size <= A /\ A <= size + 3
    BY AlignUpFacts
<1>3. CASE mailbox_is_wrapping(off, size)
    <2> DEFINE r == size - (Size - off)
    <2>1. off + size > Size
        BY <1>3 DEF mailbox_is_wrapping
    <2>2. r \in Nat /\ Size - off \in Nat /\ (Size - off) % 4 = 0 /\ r + (Size - off) = size
        BY <1>1, <2>1
    <2>3. AlignUp(r) = A - (Size - off)
        <3> HIDE DEF r
        <3>1. AlignUp(r + (Size - off)) = AlignUp(r) + (Size - off)
            BY <2>2, AlignUpShift
        <3>2. AlignUp(r) \in Nat
            BY <2>2, AlignUpFacts
        <3> QED
            BY <1>1, <1>2, <2>2, <3>1, <3>2
    <2>4. AlignUp(r) \in 0 .. Size /\ AlignUp(r) # Size
        BY <1>1, <1>2, <2>1, <2>3
    <2>5. AlignUp(r) % Size = AlignUp(r)
        BY <2>4, ModLap
    <2>6. advance(off, size) = AlignUp(r) % Size
        BY <1>3 DEF advance
    <2> QED
        BY <1>1, <1>2, <2>1, <2>3, <2>5, <2>6 DEF Off
<1>4. CASE ~mailbox_is_wrapping(off, size)
    <2>1. off + size <= Size
        BY <1>1, <1>4 DEF mailbox_is_wrapping
    <2>2. AlignUp(off + size) = off + A
        <3>1. off \in Nat
            BY <1>1
        <3>2. AlignUp(size + off) = AlignUp(size) + off
            BY <3>1, AlignUpShift
        <3> QED
            BY <1>1, <1>2, <3>2
    <2>3. off + A \in 0 .. Size
        BY <1>1, <1>2, <2>1
    <2>4. (off + A) % Size = IF off + A = Size THEN 0 ELSE off + A
        BY <2>3, ModLap
    <2>5. advance(off, size) = (off + A) % Size
        BY <1>4, <2>2 DEF advance
    <2> QED
        BY <1>1, <1>2, <2>3, <2>4, <2>5 DEF Off
<1> QED
    BY <1>3, <1>4

\* Moving around the ring stays on it, on words.
LEMMA OffFacts ==
    ASSUME NEW h \in Offsets, NEW d \in 0 .. Size - 1
    PROVE  /\ Off(h, d) \in Offsets
           /\ h % 4 = 0 /\ d % 4 = 0 => Off(h, d) % 4 = 0
           /\ Off(h, d) \div 4 \in 0 .. NWords - 1
    BY SizeAssumption DEF Off, Offsets, NWords

\* Two moves in a row are one.
LEMMA OffOff ==
    ASSUME NEW h \in Offsets, NEW d \in Nat, NEW e \in Nat, d + e < Size
    PROVE  Off(Off(h, d), e) = Off(h, d + e)
    BY SizeAssumption DEF Off, Offsets

\* Moving all the way round comes back.
LEMMA OffLap ==
    ASSUME NEW h \in Offsets, NEW d \in Nat, NEW e \in Nat, e <= d, d < Size,
           e # d
    PROVE  Off(Off(h, d), e + Size - d) = Off(h, e)
    BY SizeAssumption DEF Off, Offsets

-----------------------------------------------------------------------------
\* What the copies do.

Cells == [0 .. NWords - 1 -> Word]

\* write_data stores the k-th word of the source k - 1 words after the
\* offset, around the end of the ring, and leaves the rest of the ring alone.
LEMMA WriteDataFacts ==
    ASSUME NEW mem \in Cells, NEW off \in Offsets, off % 4 = 0,
           NEW size \in Nat, AlignUp(size) <= Size - 4,
           NEW src, \A k \in 1 .. size \div 4 : src[k] \in Word
    PROVE  /\ write_data(mem, off, src, size) \in Cells
           /\ \A k \in 1 .. size \div 4 :
                 write_data(mem, off, src, size)[Off(off, 4 * (k - 1)) \div 4] = src[k]
           /\ \A d \in 0 .. Size - 1 :
                 d >= AlignUp(size) =>
                     write_data(mem, off, src, size)[Off(off, d) \div 4]
                         = mem[Off(off, d) \div 4]
<1> DEFINE first  == off \div 4
           before == WordsBeforeWrap(off, size)
           n      == size \div 4
           after  == n - before
           W      == write_data(mem, off, src, size)
<1>1. /\ Size \in Nat /\ Size % 4 = 0 /\ Size >= 8 /\ off \in 0 .. Size - 1
      /\ NWords \in Nat /\ 4 * NWords = Size
    BY SizeAssumption DEF Offsets, NWords
<1>2. /\ AlignUp(size) \in Nat /\ size <= AlignUp(size)
      /\ n \in Nat /\ 4 * n <= size /\ size < 4 * n + 4
    BY AlignUpFacts
<1>3. /\ first \in Nat /\ 4 * first = off
      /\ before \in Nat /\ before <= n /\ first + before <= NWords
      /\ after \in Nat
      /\ after > 0 => first + before = NWords
      /\ after <= first
    <2>1. CASE off + size > Size
        BY <1>1, <1>2, <2>1 DEF WordsBeforeWrap, mailbox_is_wrapping
    <2>2. CASE ~(off + size > Size)
        BY <1>1, <1>2, <2>2 DEF WordsBeforeWrap, mailbox_is_wrapping
    <2> QED
        BY <2>1, <2>2
<1>4. W = [i \in 0 .. NWords - 1 |->
              IF i < after THEN src[before + i + 1]
              ELSE IF first <= i /\ i < first + before THEN src[i - first + 1]
              ELSE mem[i]]
    BY DEF write_data
<1> HIDE DEF W, before, first, n, after
<1>5. W \in Cells
    <2> SUFFICES ASSUME NEW i \in 0 .. NWords - 1
                 PROVE  (IF i < after THEN src[before + i + 1]
                         ELSE IF first <= i /\ i < first + before THEN src[i - first + 1]
                         ELSE mem[i]) \in Word
        BY <1>4 DEF Cells
    <2>1. mem[i] \in Word
        BY DEF Cells
    <2>2. CASE i < after
        <3>1. before + i + 1 \in 1 .. n
            BY <1>1, <1>2, <1>3, <2>2 DEF after
        <3> QED
            BY <3>1, <2>2 DEF n
    <2>3. CASE ~(i < after) /\ first <= i /\ i < first + before
        <3>1. i - first + 1 \in 1 .. n
            BY <1>1, <1>2, <1>3, <2>3
        <3> QED
            BY <3>1, <2>3 DEF n
    <2> QED
        BY <2>1, <2>2, <2>3
<1>6. ASSUME NEW k \in 1 .. n
      PROVE  W[Off(off, 4 * (k - 1)) \div 4] = src[k]
    <2>1. CASE k <= before
        <3>1. Off(off, 4 * (k - 1)) \div 4 = first + k - 1
            BY <1>1, <1>2, <1>3, <2>1 DEF Off
        <3>2. /\ first + k - 1 \in 0 .. NWords - 1
              /\ ~(first + k - 1 < after)
              /\ first <= first + k - 1 /\ first + k - 1 < first + before
              /\ (first + k - 1) - first + 1 = k
            BY <1>1, <1>2, <1>3, <2>1
        <3> QED
            BY <1>4, <3>1, <3>2
    <2>2. CASE ~(k <= before)
        <3>1. Off(off, 4 * (k - 1)) \div 4 = k - before - 1
            BY <1>1, <1>2, <1>3, <2>2 DEF Off, after
        <3>2. /\ k - before - 1 \in 0 .. NWords - 1
              /\ k - before - 1 < after
              /\ before + (k - before - 1) + 1 = k
            BY <1>1, <1>2, <1>3, <2>2 DEF after
        <3> QED
            BY <1>4, <3>1, <3>2
    <2> QED
        BY <2>1, <2>2
<1>7. ASSUME NEW d \in 0 .. Size - 1, d >= AlignUp(size)
      PROVE  W[Off(off, d) \div 4] = mem[Off(off, d) \div 4]
    <2> DEFINE i == Off(off, d) \div 4
    <2>1. i \in 0 .. NWords - 1
        BY OffFacts
    <2>2. ~(i < after) /\ ~(first <= i /\ i < first + before)
        <3>1. CASE off + d >= Size
            BY <1>1, <1>2, <1>3, <1>7, <3>1 DEF Off, after
        <3>2. CASE ~(off + d >= Size)
            BY <1>1, <1>2, <1>3, <1>7, <3>2 DEF Off, after
        <3> QED
            BY <3>1, <3>2
    <2> HIDE DEF i
    <2>3. W[i] = mem[i]
        BY <1>4, <2>1, <2>2
    <2> QED
        BY <2>3 DEF i
<1> QED
    BY <1>5, <1>6, <1>7 DEF W, n

\* read_data returns the word k - 1 words after the offset as its k-th, and
\* zero for a partial last word.
LEMMA ReadDataFacts ==
    ASSUME NEW mem \in Cells, NEW off \in Offsets, off % 4 = 0,
           NEW size \in Nat, AlignUp(size) <= Size - 4
    PROVE  /\ read_data(mem, off, size) \in Seq(Word)
           /\ read_data(mem, off, size) =
                 [k \in 1 .. WordsIn(size) |->
                     IF k <= size \div 4 THEN mem[Off(off, 4 * (k - 1)) \div 4]
                     ELSE ZeroWord]
<1> DEFINE first  == off \div 4
           before == WordsBeforeWrap(off, size)
           n      == size \div 4
           Cell(k) == IF k <= n THEN mem[Off(off, 4 * (k - 1)) \div 4] ELSE ZeroWord
<1>1. /\ Size \in Nat /\ Size % 4 = 0 /\ Size >= 8 /\ off \in 0 .. Size - 1
      /\ NWords \in Nat /\ 4 * NWords = Size
    BY SizeAssumption DEF Offsets, NWords
<1>2. /\ AlignUp(size) \in Nat /\ size <= AlignUp(size)
      /\ n \in Nat /\ 4 * n <= size /\ size < 4 * n + 4
      /\ WordsIn(size) \in Nat /\ n <= WordsIn(size)
    BY AlignUpFacts
<1>3. /\ first \in Nat /\ 4 * first = off
      /\ before \in Nat /\ before <= n /\ first + before <= NWords
      /\ before < n => first + before = NWords
    <2>1. CASE off + size > Size
        BY <1>1, <1>2, <2>1 DEF WordsBeforeWrap, mailbox_is_wrapping
    <2>2. CASE ~(off + size > Size)
        BY <1>1, <1>2, <2>2 DEF WordsBeforeWrap, mailbox_is_wrapping
    <2> QED
        BY <2>1, <2>2
<1>4. read_data(mem, off, size) =
          [k \in 1 .. WordsIn(size) |->
              IF k <= before THEN mem[first + k - 1]
              ELSE IF k <= n THEN mem[k - before - 1]
              ELSE ZeroWord]
    BY DEF read_data
<1> HIDE DEF before, first, n
<1>5. ASSUME NEW k \in 1 .. WordsIn(size)
      PROVE  (IF k <= before THEN mem[first + k - 1]
              ELSE IF k <= n THEN mem[k - before - 1]
              ELSE ZeroWord) = Cell(k)
    <2>1. CASE k <= before
        <3>1. Off(off, 4 * (k - 1)) \div 4 = first + k - 1
            BY <1>1, <1>2, <1>3, <2>1 DEF Off
        <3>2. k <= n
            BY <1>1, <1>2, <1>3, <2>1
        <3> QED
            BY <2>1, <3>1, <3>2
    <2>2. CASE ~(k <= before) /\ k <= n
        <3>1. Off(off, 4 * (k - 1)) \div 4 = k - before - 1
            BY <1>1, <1>2, <1>3, <2>2 DEF Off
        <3> QED
            BY <2>2, <3>1
    <2>3. CASE ~(k <= before) /\ ~(k <= n)
        BY <2>3
    <2> QED
        BY <2>1, <2>2, <2>3
<1>6. read_data(mem, off, size) = [k \in 1 .. WordsIn(size) |-> Cell(k)]
    BY <1>4, <1>5, Zenon
<1>7. ASSUME NEW k \in 1 .. WordsIn(size) PROVE Cell(k) \in Word
    <2>1. CASE k <= n
        <3>1. 4 * (k - 1) \in 0 .. Size - 1
            BY <1>1, <1>2, <2>1
        <3>2. Off(off, 4 * (k - 1)) \div 4 \in 0 .. NWords - 1
            BY <3>1, OffFacts
        <3> QED
            BY <2>1, <3>2 DEF Cells
    <2>2. CASE ~(k <= n)
        BY <2>2 DEF ZeroWord, Word, Byte
    <2> QED
        BY <2>1, <2>2
<1>8. read_data(mem, off, size) \in Seq(Word)
    <2> HIDE DEF Cell
    <2>1. [k \in 1 .. WordsIn(size) |-> Cell(k)] \in Seq(Word)
        BY <1>2, <1>7
    <2> QED
        BY <1>6, <2>1
<1> QED
    BY <1>6, <1>8 DEF n

\* The header survives the trip: two 16-bit fields in four bytes.
LEMMA HeaderRoundTrip ==
    ASSUME NEW uid \in U16, NEW size \in U16
    PROVE  /\ serialize_header(uid, size) \in Word
           /\ unserialize_body_size(serialize_header(uid, size)) = size
           /\ unserialize_msg_uid(serialize_header(uid, size)) = uid
<1>1. ASSUME NEW n \in U16
      PROVE  /\ n % 256 \in Byte
             /\ n \div 256 \in Byte
             /\ (n % 256) + 256 * (n \div 256) = n
    <2>1. n \in Nat /\ n < 65536
        BY DEF U16
    <2>2. n % 256 \in Byte
        BY <2>1 DEF Byte
    <2>3. n \div 256 \in Byte
        <3> DEFINE q == n \div 256
        <3>1. q \in Int /\ 256 * q <= n /\ n < 256 * q + 256
            BY <2>1
        <3> HIDE DEF q
        <3>2. q \in Byte
            BY <2>1, <3>1 DEF Byte
        <3> QED
            BY <3>2 DEF q
    <2>4. (n % 256) + 256 * (n \div 256) = n
        BY <2>1
    <2> QED
        BY <2>2, <2>3, <2>4
<1> DEFINE h == serialize_header(uid, size)
<1>2. h = <<size % 256, size \div 256, uid % 256, uid \div 256>>
    BY DEF serialize_header
<1>3. h \in Word
    BY <1>1, <1>2 DEF Word
<1>4. unserialize_body_size(h) = size
    BY <1>1, <1>2 DEF unserialize_body_size
<1>5. unserialize_msg_uid(h) = uid
    BY <1>1, <1>2 DEF unserialize_msg_uid
<1> QED
    BY <1>3, <1>4, <1>5

-----------------------------------------------------------------------------
\* The invariant holds initially and every step keeps it.

\* What the assumption on Mails says of one mail.
LEMMA MailFacts ==
    ASSUME NEW m \in Mails
    PROVE  /\ m \in Mail
           /\ m.uid \in U16 /\ m.size \in U16 /\ m.size \in Nat
           /\ \A k \in 1 .. m.size \div 4 : m.words[k] \in Word
           /\ Span(m) \in Nat /\ Span(m) % 4 = 0 /\ Span(m) >= 4
           /\ Span(m) = 4 + AlignUp(m.size)
           /\ 4 * (m.size \div 4) <= AlignUp(m.size)
           /\ AlignUp(m.size) \in Nat
           /\ m.size \div 4 \in Nat
<1>1. m \in Mail /\ Len(m.words) = WordsIn(m.size)
    BY MailsAssumption
<1>2. m.uid \in U16 /\ m.size \in U16 /\ m.words \in Seq(Word)
    BY <1>1 DEF Mail
<1>3. m.size \in Nat
    BY <1>2 DEF U16
<1>4. \A k \in 1 .. m.size \div 4 : m.words[k] \in Word
    <2> SUFFICES ASSUME NEW k \in 1 .. m.size \div 4
                 PROVE  m.words[k] \in Word
        OBVIOUS
    <2>1. WordsIn(m.size) \in Nat /\ m.size \div 4 <= WordsIn(m.size) /\ m.size \div 4 \in Nat
        BY <1>3, AlignUpFacts
    <2>2. k \in 1 .. Len(m.words)
        BY <1>1, <2>1
    <2> QED
        BY <1>2, <2>2
<1>5. /\ Span(m) \in Nat /\ Span(m) % 4 = 0 /\ Span(m) >= 4
      /\ Span(m) = 4 + AlignUp(m.size)
      /\ 4 * (m.size \div 4) <= AlignUp(m.size)
      /\ AlignUp(m.size) \in Nat
      /\ m.size \div 4 \in Nat
    <2>1. /\ AlignUp(m.size) \in Nat /\ AlignUp(m.size) % 4 = 0
          /\ m.size <= AlignUp(m.size)
          /\ m.size \div 4 \in Nat /\ 4 * (m.size \div 4) <= m.size
        BY <1>3, AlignUpFacts
    <2> QED
        BY <1>3, <2>1 DEF Span, header_size
<1> QED
    BY <1>1, <1>2, <1>3, <1>4, <1>5

\* A position keeps its place in the ring when the reader moves on.
LEMMA PosStable ==
    ASSUME NEW n \in Nat, NEW p \in Nat,
           head \in Offsets, rd \in Nat,
           head' = Off(head, n), rd' = rd + n,
           rd + n <= p, p < rd + Size
    PROVE  Pos(p)' = Pos(p)
<1>1. p - (rd + n) \in Nat /\ n + (p - (rd + n)) < Size /\ n + (p - (rd + n)) = p - rd
    BY SizeAssumption
<1>2. Off(Off(head, n), p - (rd + n)) = Off(head, p - rd)
    BY <1>1, OffOff
<1> QED
    BY <1>2 DEF Pos, Off

\* The ring starts in a state of the invariant (al5_mailbox_init).
LEMMA InitInv == Init => RingInv
<1> SUFFICES ASSUME Init PROVE RingInv
    OBVIOUS
<1>1. TypeOK
    <2>1. 0 \in Offsets
        BY SizeAssumption DEF Offsets
    <2>2. ZeroWord \in Word
        BY DEF ZeroWord, Word, Byte
    <2>3. Residue \in Word
        BY NamesAssumption
    <2> QED
        BY <2>1, <2>2, <2>3 DEF Init, TypeOK
<1>2. LockInv
    BY DEF Init, LockInv
<1>3. RegisterInv
    BY SizeAssumption DEF Init, RegisterInv, Pos, Off
<1>4. WriterInv
    BY DEF Init, WriterInv
<1>5. StreamInv
    BY DEF Init, StreamInv
<1>6. ReaderInv
    BY DEF Init, ReaderInv
<1>7. UnreadStored
    BY DEF Init, UnreadStored
<1>8. InOrderIntact
    BY DEF Init, InOrderIntact
<1> QED
    BY <1>1, <1>2, <1>3, <1>4, <1>5, <1>6, <1>7, <1>8 DEF RingInv

\* Taking or leaving the lock without writing.
LEMMA SendBeginInv ==
    ASSUME RingInv, NEW w \in Writers, NEW m \in Mails, SendBegin(w, m)
    PROVE  RingInv'
<1> USE DEF RingInv, SendBegin
<1>1. TypeOK'
    BY DEF TypeOK
<1>2. LockInv'
    BY NamesAssumption DEF LockInv
<1>3. RegisterInv'
    BY DEF RegisterInv, Pos
<1>4. WriterInv'
    BY DEF WriterInv
<1>5. StreamInv'
    BY DEF StreamInv
<1>6. ReaderInv'
    BY DEF ReaderInv
<1>7. UnreadStored'
    BY DEF UnreadStored, BodyStored, HeaderStored, Pos
<1>8. InOrderIntact'
    BY DEF InOrderIntact
<1> QED
    BY <1>1, <1>2, <1>3, <1>4, <1>5, <1>6, <1>7, <1>8

\* A refused mail leaves the ring alone (the -EAGAIN of al5_mailbox_write).
LEMMA WriteRefusedInv ==
    ASSUME RingInv, WriteRefused
    PROVE  RingInv'
<1> USE DEF RingInv, WriteRefused, Leave
<1>1. TypeOK'
    BY DEF TypeOK
<1>2. LockInv'
    BY DEF LockInv
<1>3. RegisterInv'
    BY DEF RegisterInv, Pos
<1>4. WriterInv'
    BY DEF WriterInv
<1>5. StreamInv'
    BY DEF StreamInv
<1>6. ReaderInv'
    BY DEF ReaderInv
<1>7. UnreadStored'
    BY DEF UnreadStored, BodyStored, HeaderStored, Pos
<1>8. InOrderIntact'
    BY DEF InOrderIntact
<1> QED
    BY <1>1, <1>2, <1>3, <1>4, <1>5, <1>6, <1>7, <1>8

\* Room for the bytes of a mail and one more word is room for its words.
LEMMA RoundedRoom ==
    ASSUME NEW u \in Int, u % 4 = 0, NEW n \in Nat, NEW a \in Nat, a % 4 = 0,
           a <= n + 3, Size \in Nat, Size % 4 = 0, ~(n + 4 + 4 > Size - u)
    PROVE  u + (4 + a) <= Size - 4
    OBVIOUS

\* The check admits a mail only if it fits together with the reserved word:
\* the registers give the bytes in use, and both are on words.
LEMMA WriteAdmittedInv ==
    ASSUME RingInv, WriteAdmitted
    PROVE  RingInv'
<1> USE DEF RingInv, WriteAdmitted
<1>1. mail \in Mails
    BY DEF TypeOK, LockInv
<1>2. /\ mail.size \in Nat /\ Span(mail) \in Nat /\ Span(mail) % 4 = 0
      /\ Span(mail) = 4 + AlignUp(mail.size)
      /\ AlignUp(mail.size) <= mail.size + 3
    BY <1>1, MailFacts, AlignUpFacts
<1>3. UsedSize(head, tail) = wr - rd
    BY SizeAssumption DEF UsedSize, RegisterInv, TypeOK, Pos, Off, Offsets
<1>4. wr + Span(mail) - rd <= Size - 4
    <2>1. ~(mail.size + 4 + 4 > Size - (wr - rd))
        <3>1. ~(mail.size + header_size + 4 > Size - UsedSize(head, tail))
            BY DEF HasRoom, not_enough_space_in_mailbox
        <3> QED
            BY <1>3, <3>1 DEF header_size
    <2>2. /\ wr \in Nat /\ rd \in Nat /\ wr % 4 = 0 /\ rd % 4 = 0
          /\ Size \in Nat /\ Size % 4 = 0
        BY SizeAssumption DEF TypeOK, RegisterInv
    <2>3. wr - rd \in Int /\ (wr - rd) % 4 = 0
        BY <2>2
    <2>4. AlignUp(mail.size) \in Nat /\ AlignUp(mail.size) % 4 = 0
        BY <1>2, AlignUpFacts
    <2>5. (wr - rd) + (4 + AlignUp(mail.size)) <= Size - 4
        BY <1>2, <2>1, <2>2, <2>3, <2>4, RoundedRoom
    <2>6. wr \in Nat /\ rd \in Nat /\ AlignUp(mail.size) \in Nat /\ Span(mail) \in Nat
        BY <1>2, <2>2, <2>4
    <2>7. Span(mail) = 4 + AlignUp(mail.size)
        BY <1>2
    <2>8. wr + Span(mail) - rd = (wr - rd) + (4 + AlignUp(mail.size))
        BY <2>6, <2>7
    <2> QED
        BY <2>5, <2>8
<1>5. TypeOK'
    BY DEF TypeOK
<1>6. LockInv'
    BY DEF LockInv
<1>7. RegisterInv'
    BY DEF RegisterInv, Pos
<1>8. WriterInv'
    BY <1>4 DEF WriterInv, LocalWr, RegisterInv, Pos, Span
<1>9. StreamInv'
    BY DEF StreamInv
<1>10. ReaderInv'
    BY DEF ReaderInv
<1>11. UnreadStored'
    BY DEF UnreadStored, BodyStored, HeaderStored, Pos
<1>12. InOrderIntact'
    BY DEF InOrderIntact
<1> QED
    BY <1>5, <1>6, <1>7, <1>8, <1>9, <1>10, <1>11, <1>12

-----------------------------------------------------------------------------
\* The copies of a writer.

\* A write d bytes after h changes no cell less than d bytes after h.
LEMMA WriteKeeps ==
    ASSUME NEW h \in Offsets, h % 4 = 0, NEW d \in Nat, d % 4 = 0,
           NEW mem \in Cells, NEW size \in Nat, d + AlignUp(size) <= Size - 4,
           NEW src, \A k \in 1 .. size \div 4 : src[k] \in Word
    PROVE  /\ write_data(mem, Off(h, d), src, size) \in Cells
           /\ \A e \in Nat :
                 e < d => write_data(mem, Off(h, d), src, size)[Off(h, e) \div 4]
                              = mem[Off(h, e) \div 4]
           /\ \A k \in 1 .. size \div 4 :
                 write_data(mem, Off(h, d), src, size)[Off(h, d + 4 * (k - 1)) \div 4]
                     = src[k]
           /\ advance(Off(h, d), size) = Off(h, d + AlignUp(size))
           /\ Off(h, d + AlignUp(size)) \in Offsets
           /\ Off(h, d + AlignUp(size)) % 4 = 0
<1> DEFINE A == AlignUp(size)
           off == Off(h, d)
           W == write_data(mem, off, src, size)
<1>1. Size \in Nat /\ Size % 4 = 0 /\ Size >= 8
    BY SizeAssumption
<1>2. A \in Nat /\ A % 4 = 0 /\ size \div 4 \in Nat /\ 4 * (size \div 4) <= A
    <2>1. A \in Nat /\ A % 4 = 0 /\ size <= A /\ size \div 4 \in Nat /\ 4 * (size \div 4) <= size
        BY AlignUpFacts
    <2> QED
        BY <2>1
<1>3. d \in 0 .. Size - 1 /\ A <= Size - 4 /\ d + A \in 0 .. Size - 1
    BY <1>1, <1>2
<1>4. off \in Offsets /\ off % 4 = 0
    BY <1>3, OffFacts
<1>5. Off(h, d + A) \in Offsets /\ Off(h, d + A) % 4 = 0
    <2>1. (d + A) % 4 = 0
        BY <1>2
    <2> QED
        BY <1>3, <2>1, OffFacts
<1>6. advance(off, size) = Off(h, d + A)
    <2>1. advance(off, size) = Off(off, A)
        BY <1>3, <1>4, AdvanceIsOff
    <2>2. d + A < Size
        BY <1>1, <1>3
    <2>3. Off(off, A) = Off(h, d + A)
        BY <1>2, <2>2, OffOff
    <2> QED
        BY <2>1, <2>3
<1> HIDE DEF A, off
<1>7. /\ W \in Cells
      /\ \A k \in 1 .. size \div 4 : W[Off(off, 4 * (k - 1)) \div 4] = src[k]
      /\ \A x \in 0 .. Size - 1 :
            x >= A => W[Off(off, x) \div 4] = mem[Off(off, x) \div 4]
    BY <1>3, <1>4, WriteDataFacts DEF A
<1> HIDE DEF W
<1>8. ASSUME NEW e \in Nat, e < d
      PROVE  W[Off(h, e) \div 4] = mem[Off(h, e) \div 4]
    <2>1. e + Size - d \in 0 .. Size - 1 /\ e + Size - d >= A
        BY <1>1, <1>2, <1>3, <1>8 DEF A
    <2>2. e <= d /\ d < Size /\ e # d
        BY <1>1, <1>3, <1>8
    <2>3. Off(off, e + Size - d) = Off(h, e)
        BY <2>2, OffLap DEF off
    <2> QED
        BY <1>7, <2>1, <2>3
<1>9. ASSUME NEW k \in 1 .. size \div 4
      PROVE  W[Off(h, d + 4 * (k - 1)) \div 4] = src[k]
    <2>1. 4 * (k - 1) \in Nat /\ d + 4 * (k - 1) < Size
        BY <1>1, <1>2, <1>3 DEF A
    <2>2. Off(off, 4 * (k - 1)) = Off(h, d + 4 * (k - 1))
        BY <2>1, OffOff DEF off
    <2> QED
        BY <1>7, <2>2
<1> QED
    BY <1>5, <1>6, <1>7, <1>8, <1>9 DEF W, off, A

\* What a sequence holds.
LEMMA SeqElement ==
    ASSUME NEW S, NEW s \in Seq(S), NEW j \in 1 .. Len(s)
    PROVE  s[j] \in S
    OBVIOUS

Sent == [mail : Mails, at : Nat]

\* The stream position after the i-th mail written.
End(i) == sent[i].at + Span(sent[i].mail)

\* What the type of `sent' says of one of its elements.
LEMMA SentFacts ==
    ASSUME sent \in Seq(Sent), NEW i \in 1 .. Len(sent)
    PROVE  /\ sent[i].mail \in Mails /\ sent[i].at \in Nat
           /\ End(i) \in Nat /\ End(i) >= sent[i].at + 4
           /\ sent[i].mail.size \div 4 \in Nat
           /\ sent[i].at + 4 * (sent[i].mail.size \div 4) <= End(i) - 4
<1>1. sent[i] \in Sent
    BY SeqElement
<1>2. sent[i].mail \in Mails /\ sent[i].at \in Nat
    BY <1>1 DEF Sent
<1> DEFINE a == sent[i].at
           m == sent[i].mail
<1>3. /\ Span(m) \in Nat /\ Span(m) >= 4
      /\ Span(m) = 4 + AlignUp(m.size)
      /\ 4 * (m.size \div 4) <= AlignUp(m.size)
      /\ AlignUp(m.size) \in Nat
      /\ m.size \div 4 \in Nat
    BY <1>2, MailFacts
<1>4. a \in Nat /\ End(i) = a + Span(m)
    BY <1>2 DEF End
<1> HIDE DEF a, m
<1>5. End(i) \in Nat /\ End(i) >= a + 4 /\ a + 4 * (m.size \div 4) <= End(i) - 4
    <2> DEFINE q == m.size \div 4
               A == AlignUp(m.size)
    <2>1. q \in Nat /\ A \in Nat /\ 4 * q <= A /\ Span(m) = 4 + A
        BY <1>3
    <2> HIDE DEF q, A
    <2>2. End(i) = a + (4 + A)
        BY <1>4, <2>1
    <2>3. End(i) \in Nat /\ End(i) >= a + 4 /\ a + 4 * q <= End(i) - 4
        BY <1>4, <2>1, <2>2
    <2> QED
        BY <2>3 DEF q
<1> QED
    BY <1>2, <1>3, <1>5 DEF a, m

\* Every mail written ends at or before the bytes written.
LEMMA EndBound ==
    ASSUME RingInv, NEW i \in 1 .. Len(sent)
    PROVE  End(i) \in Nat /\ End(i) <= wr
<1> DEFINE l == Len(sent)
           al == sent[l].at
<1>1. sent \in Seq(Sent) /\ Len(sent) \in Nat /\ wr \in Nat
    BY DEF RingInv, TypeOK, Sent
<1>2. l \in 1 .. Len(sent)
    BY <1>1
<1>3. End(i) \in Nat /\ al \in Nat /\ End(l) >= al + 4
    BY <1>1, <1>2, SentFacts
<1>4. End(l) = wr /\ (i < l => End(i) <= al)
    BY <1>2 DEF RingInv, StreamInv, End
<1> HIDE DEF l, al
<1>5. CASE i = l
    BY <1>1, <1>3, <1>4, <1>5
<1>6. CASE i # l
    <2>1. i < l
        BY <1>1, <1>6 DEF l
    <2> QED
        BY <1>1, <1>3, <1>4, <2>1
<1> QED
    BY <1>5, <1>6

\* Where an unread mail is in the stream.
LEMMA UnreadWindow ==
    ASSUME RingInv, NEW i \in Len(inbox) + 1 .. Len(sent)
    PROVE  /\ i \in 1 .. Len(sent)
           /\ sent[i].mail \in Mails /\ sent[i].at \in Nat
           /\ End(i) <= wr
           /\ sent[i].at + 4 <= wr
           /\ (rpc = "idle" \/ i > Len(inbox) + 1) => rd <= sent[i].at
           /\ rd <= sent[i].at + 4
           /\ \A k \in 1 .. sent[i].mail.size \div 4 :
                 /\ sent[i].at + 4 * k \in Nat
                 /\ rd <= sent[i].at + 4 * k
                 /\ sent[i].at + 4 * k < wr
<1> DEFINE f == Len(inbox) + 1
           l == Len(sent)
<1>1. /\ sent \in Seq(Sent) /\ Len(sent) \in Nat /\ Len(inbox) \in Nat
      /\ wr \in Nat /\ rd \in Nat /\ rpc \in {"idle", "body"}
    BY DEF RingInv, TypeOK, Sent
<1>2. i \in 1 .. Len(sent) /\ f \in 1 .. Len(sent) /\ l \in 1 .. Len(sent)
    BY <1>1
<1>3. \A j \in 1 .. Len(sent) :
         /\ sent[j].mail \in Mails /\ sent[j].at \in Nat
         /\ End(j) \in Nat /\ End(j) >= sent[j].at + 4
    BY <1>1, SentFacts
<1>4. /\ End(l) = wr
      /\ \A j \in 1 .. Len(sent) : i < j => End(i) <= sent[j].at
      /\ f < i => End(f) <= sent[i].at
    BY <1>2 DEF RingInv, StreamInv, End
<1>5. /\ rpc = "idle" => rd = sent[f].at
      /\ rpc = "body" => rd = sent[f].at + 4
    <2>1. Len(inbox) # Len(sent)
        BY <1>1
    <2> QED
        BY <1>1, <2>1 DEF RingInv, ReaderInv, header_size
<1> HIDE DEF l, f
<1> DEFINE af == sent[f].at
           ai == sent[i].at
           al == sent[l].at
<1>6. /\ af \in Nat /\ ai \in Nat /\ al \in Nat
      /\ End(i) \in Nat /\ End(f) \in Nat /\ End(l) \in Nat
      /\ End(i) >= ai + 4 /\ End(f) >= af + 4 /\ End(l) >= al + 4
    BY <1>2, <1>3
<1>7. End(i) <= wr
    BY <1>2, EndBound
<1>8. rd <= ai + 4 /\ ((rpc = "idle" \/ i > f) => rd <= ai)
    <2>1. rd <= af + 4 /\ (rpc = "idle" => rd <= af)
        <3>1. (rpc = "idle" => rd = af) /\ (rpc = "body" => rd = af + 4)
            BY <1>5
        <3> HIDE DEF af
        <3> QED
            BY <1>1, <1>6, <3>1
    <2>2. CASE i = f
        BY <1>1, <2>1, <2>2 DEF f
    <2>3. CASE i # f
        <3>1. f < i
            BY <1>1, <1>2, <2>3 DEF f
        <3>2. End(f) <= ai
            BY <1>4, <3>1
        <3> HIDE DEF ai, af
        <3> QED
            BY <1>1, <1>6, <2>1, <3>1, <3>2
    <2> QED
        BY <2>2, <2>3
<1>9. ASSUME NEW k \in 1 .. sent[i].mail.size \div 4
      PROVE  ai + 4 * k \in Nat /\ rd <= ai + 4 * k /\ ai + 4 * k < wr
    <2> DEFINE q == sent[i].mail.size \div 4
    <2>1. q \in Nat /\ ai + 4 * q <= End(i) - 4
        BY <1>1, <1>2, SentFacts
    <2>2. k \in 1 .. q
        OBVIOUS
    <2> HIDE DEF q, ai
    <2> QED
        BY <1>1, <1>6, <1>7, <1>8, <2>1, <2>2
<1>10. ai + 4 <= wr
    <2> HIDE DEF ai
    <2> QED
        BY <1>1, <1>6, <1>7
<1> QED
    BY <1>2, <1>3, <1>7, <1>8, <1>9, <1>10 DEF f

\* A write beyond the published bytes leaves the unread mails as they are.
LEMMA UnreadKept ==
    ASSUME RingInv, head' = head, rd' = rd, sent' = sent, inbox' = inbox,
           rpc' = rpc,
           \A e \in Nat : e < wr - rd =>
               data'[Off(head, e) \div 4] = data[Off(head, e) \div 4]
    PROVE  UnreadStored'
<1>1. wr \in Nat /\ rd \in Nat
    BY DEF RingInv, TypeOK
<1>2. ASSUME NEW p \in Nat, rd <= p, p < wr
      PROVE  data'[Off(head, p - rd) \div 4] = data[Off(head, p - rd) \div 4]
    <2>1. p - rd \in Nat /\ p - rd < wr - rd
        BY <1>1, <1>2
    <2> QED
        BY <2>1
<1> SUFFICES ASSUME NEW i \in Len(inbox) + 1 .. Len(sent)
             PROVE  /\ \A k \in 1 .. sent[i].mail.size \div 4 :
                          data'[Off(head, (sent[i].at + 4 * k) - rd) \div 4]
                              = sent[i].mail.words[k]
                    /\ (rpc = "idle" \/ i > Len(inbox) + 1) =>
                          data'[Off(head, sent[i].at - rd) \div 4]
                              = serialize_header(sent[i].mail.uid, sent[i].mail.size)
    BY DEF UnreadStored, BodyStored, HeaderStored, Pos, Off
<1>3. ASSUME NEW k \in 1 .. sent[i].mail.size \div 4
      PROVE  data'[Off(head, (sent[i].at + 4 * k) - rd) \div 4]
                 = sent[i].mail.words[k]
    <2>1. data[Off(head, (sent[i].at + 4 * k) - rd) \div 4] = sent[i].mail.words[k]
        BY DEF RingInv, UnreadStored, BodyStored, Pos
    <2>2. /\ sent[i].at + 4 * k \in Nat
          /\ rd <= sent[i].at + 4 * k /\ sent[i].at + 4 * k < wr
        BY UnreadWindow
    <2> QED
        BY <1>2, <2>1, <2>2
<1>4. ASSUME rpc = "idle" \/ i > Len(inbox) + 1
      PROVE  data'[Off(head, sent[i].at - rd) \div 4]
                 = serialize_header(sent[i].mail.uid, sent[i].mail.size)
    <2>1. data[Off(head, sent[i].at - rd) \div 4]
              = serialize_header(sent[i].mail.uid, sent[i].mail.size)
        BY <1>4 DEF RingInv, UnreadStored, HeaderStored, Pos
    <2>2. sent[i].at \in Nat /\ rd <= sent[i].at /\ sent[i].at + 4 <= wr
        BY <1>4, UnreadWindow
    <2>3. sent[i].at < wr
        BY <1>1, <2>2
    <2> QED
        BY <1>2, <2>1, <2>2, <2>3
<1> QED
    BY <1>3, <1>4

\* What the invariant says of a writer that is past the check.
LEMMA WriterFacts ==
    ASSUME RingInv, wpc \in {"header", "body", "push"}
    PROVE  /\ mail \in Mails
           /\ head \in Offsets /\ head % 4 = 0 /\ data \in Cells
           /\ wr \in Nat /\ rd \in Nat /\ rd <= wr
           /\ wr - rd \in Nat /\ (wr - rd) % 4 = 0
           /\ (wr - rd) + (4 + AlignUp(mail.size)) <= Size - 4
           /\ Size \in Nat
           /\ AlignUp(mail.size) \in Nat /\ AlignUp(mail.size) % 4 = 0
<1>1. mail \in Mails
    BY DEF RingInv, TypeOK, LockInv
<1>2. /\ mail.size \in Nat /\ Span(mail) = 4 + AlignUp(mail.size)
      /\ AlignUp(mail.size) \in Nat /\ AlignUp(mail.size) % 4 = 0
    BY <1>1, MailFacts, AlignUpFacts
<1>3. /\ head \in Offsets /\ head % 4 = 0 /\ data \in Cells
      /\ wr \in Nat /\ rd \in Nat /\ rd <= wr /\ wr % 4 = 0 /\ rd % 4 = 0
    BY DEF RingInv, TypeOK, RegisterInv, Cells
<1>4. wr + Span(mail) - rd <= Size - 4
    BY DEF RingInv, WriterInv
<1>5. wr - rd \in Nat /\ (wr - rd) % 4 = 0
    BY <1>3
<1>6. (wr - rd) + (4 + AlignUp(mail.size)) <= Size - 4
    <2> DEFINE A == AlignUp(mail.size)
    <2>1. A \in Nat /\ Span(mail) = 4 + A
        BY <1>2
    <2> HIDE DEF A
    <2>2. (wr - rd) + (4 + A) <= Size - 4
        BY <1>3, <1>4, <2>1, SizeAssumption
    <2> QED
        BY <2>2 DEF A
<1> QED
    BY <1>1, <1>2, <1>3, <1>5, <1>6, SizeAssumption

\* Writing the header of a mail keeps the invariant (write_data).
LEMMA WriteHeaderInv ==
    ASSUME RingInv, WriteHeader
    PROVE  RingInv'
<1> DEFINE d == wr - rd
           h == serialize_header(mail.uid, mail.size)
           src == <<h>>
           A == AlignUp(mail.size)
<1>1. /\ mail \in Mails
      /\ head \in Offsets /\ head % 4 = 0 /\ data \in Cells
      /\ wr \in Nat /\ rd \in Nat /\ rd <= wr
      /\ d \in Nat /\ d % 4 = 0 /\ d + (4 + A) <= Size - 4 /\ Size \in Nat
      /\ A \in Nat
    BY WriterFacts DEF WriteHeader
<1>2. h \in Word
    BY <1>1, MailFacts, HeaderRoundTrip
<1>3. local_tail = Off(head, d)
    BY DEF RingInv, WriterInv, WriteHeader, LocalWr, Pos
<1>4. AlignUp(4) = 4 /\ 4 \div 4 = 1
    BY DEF AlignUp
<1>5. d + AlignUp(4) <= Size - 4 /\ \A k \in 1 .. 4 \div 4 : src[k] \in Word
    BY <1>1, <1>2, <1>4
<1>6. data' = write_data(data, Off(head, d), src, 4) /\ local_tail' = advance(Off(head, d), 4)
    BY <1>3 DEF WriteHeader, header_size
<1> HIDE DEF d, src, A
<1>7. /\ data' \in Cells
      /\ \A e \in Nat : e < d => data'[Off(head, e) \div 4] = data[Off(head, e) \div 4]
      /\ \A k \in 1 .. 4 \div 4 : data'[Off(head, d + 4 * (k - 1)) \div 4] = src[k]
      /\ local_tail' = Off(head, d + AlignUp(4))
      /\ local_tail' \in Offsets /\ local_tail' % 4 = 0
    BY <1>1, <1>5, <1>6, WriteKeeps
<1>8. data'[Off(head, d) \div 4] = h
    <2>1. 1 \in 1 .. 4 \div 4 /\ d + 4 * (1 - 1) = d
        BY <1>1, <1>4
    <2>2. src[1] = h
        BY DEF src
    <2> QED
        BY <1>7, <2>1, <2>2
<1>9. TypeOK'
    BY <1>7 DEF RingInv, TypeOK, WriteHeader, Cells
<1>10. LockInv'
    BY DEF RingInv, LockInv, WriteHeader
<1>11. RegisterInv'
    BY <1>7 DEF RingInv, RegisterInv, WriteHeader, Pos
<1>12. WriterInv'
    <2>1. LocalWr' = wr + 4
        BY DEF WriteHeader, LocalWr, header_size
    <2>2. wr + 4 - rd = d + AlignUp(4)
        BY <1>1, <1>4 DEF d
    <2>3. local_tail' = Pos(LocalWr)'
        <3>1. Pos(LocalWr)' = Off(head, LocalWr' - rd)
            BY DEF WriteHeader, Pos, Off
        <3>2. LocalWr' - rd = d + AlignUp(4)
            BY <1>1, <2>1, <2>2
        <3> QED
            BY <1>7, <3>1, <3>2, Zenon
    <2>4. HeaderStored(mail, wr)'
        BY <1>8 DEF WriteHeader, HeaderStored, Pos, Off, d
    <2>5. (wr + Span(mail) - rd <= Size - 4)'
        BY DEF RingInv, WriterInv, WriteHeader, Span
    <2> QED
        BY <2>3, <2>4, <2>5 DEF WriterInv, WriteHeader
<1>13. StreamInv'
    BY DEF RingInv, StreamInv, WriteHeader
<1>14. ReaderInv'
    BY DEF RingInv, ReaderInv, WriteHeader
<1>15. UnreadStored'
    BY <1>7, UnreadKept DEF WriteHeader, d
<1>16. InOrderIntact'
    BY DEF RingInv, InOrderIntact, WriteHeader
<1> QED
    BY <1>9, <1>10, <1>11, <1>12, <1>13, <1>14, <1>15, <1>16 DEF RingInv

\* Writing the body of a mail keeps the invariant (write_data).
LEMMA WriteBodyInv ==
    ASSUME RingInv, WriteBody
    PROVE  RingInv'
<1> DEFINE d == wr - rd
           d4 == d + 4
           A == AlignUp(mail.size)
<1>1. /\ mail \in Mails
      /\ head \in Offsets /\ head % 4 = 0 /\ data \in Cells
      /\ wr \in Nat /\ rd \in Nat /\ rd <= wr
      /\ d \in Nat /\ d % 4 = 0 /\ d + (4 + A) <= Size - 4 /\ Size \in Nat
      /\ A \in Nat
    BY WriterFacts DEF WriteBody
<1>2. /\ mail.size \in Nat /\ mail.size \div 4 \in Nat
      /\ \A k \in 1 .. mail.size \div 4 : mail.words[k] \in Word
    BY <1>1, MailFacts
<1>3. wr + 4 - rd = d4
    BY <1>1
<1>4. local_tail = Off(head, d4)
    <2>1. LocalWr = wr + 4
        BY DEF WriteBody, LocalWr, header_size
    <2>2. local_tail = Off(head, LocalWr - rd)
        BY DEF RingInv, WriterInv, WriteBody, Pos
    <2>3. LocalWr - rd = d4
        BY <1>1, <1>3, <2>1
    <2> QED
        BY <2>2, <2>3, Zenon
<1>5. d4 \in Nat /\ d4 % 4 = 0 /\ d4 + A <= Size - 4
    BY <1>1
<1>6. /\ data' = write_data(data, Off(head, d4), mail.words, mail.size)
      /\ local_tail' = advance(Off(head, d4), mail.size)
    BY <1>4 DEF WriteBody
<1> HIDE DEF d4, d
<1>7. /\ data' \in Cells
      /\ \A e \in Nat : e < d4 => data'[Off(head, e) \div 4] = data[Off(head, e) \div 4]
      /\ \A k \in 1 .. mail.size \div 4 :
            data'[Off(head, d4 + 4 * (k - 1)) \div 4] = mail.words[k]
      /\ local_tail' = Off(head, d4 + A)
      /\ local_tail' \in Offsets /\ local_tail' % 4 = 0
    BY <1>1, <1>2, <1>5, <1>6, WriteKeeps
<1>8. \A e \in Nat : e < d => data'[Off(head, e) \div 4] = data[Off(head, e) \div 4]
    BY <1>1, <1>7 DEF d4
<1>9. TypeOK'
    BY <1>7 DEF RingInv, TypeOK, WriteBody, Cells
<1>10. LockInv'
    BY DEF RingInv, LockInv, WriteBody
<1>11. RegisterInv'
    BY <1>7 DEF RingInv, RegisterInv, WriteBody, Pos
<1>12. WriterInv'
    <2>1. LocalWr' = wr + Span(mail) /\ Span(mail) = 4 + A
        BY <1>1, MailFacts DEF WriteBody, LocalWr, Span
    <2>2. (wr + (4 + A)) - rd = d4 + A
        <3> HIDE DEF A
        <3> QED
            BY <1>1 DEF d4, d
    <2>3. local_tail' = Pos(LocalWr)'
        <3>1. Pos(LocalWr)' = Off(head, LocalWr' - rd)
            BY DEF WriteBody, Pos, Off
        <3>2. LocalWr' - rd = d4 + A
            BY <1>1, <2>1, <2>2
        <3> QED
            BY <1>7, <3>1, <3>2, Zenon
    <2>4. HeaderStored(mail, wr)'
        <3>1. d \in Nat /\ d < d4
            BY <1>1 DEF d4
        <3>2. data'[Off(head, d) \div 4] = data[Off(head, d) \div 4]
            BY <1>7, <3>1
        <3>3. data[Off(head, d) \div 4] = serialize_header(mail.uid, mail.size)
            BY DEF RingInv, WriterInv, WriteBody, HeaderStored, Pos, d
        <3> QED
            BY <3>2, <3>3 DEF WriteBody, HeaderStored, Pos, Off, d
    <2>5. BodyStored(mail, wr)'
        <3> SUFFICES ASSUME NEW k \in 1 .. mail.size \div 4
                     PROVE  data'[Off(head, (wr + 4 * k) - rd) \div 4] = mail.words[k]
            BY DEF WriteBody, BodyStored, Pos, Off
        <3>1. (wr + 4 * k) - rd = d4 + 4 * (k - 1)
            BY <1>1, <1>2 DEF d4, d
        <3> QED
            BY <1>7, <3>1
    <2>6. (wr + Span(mail) - rd <= Size - 4)'
        BY DEF RingInv, WriterInv, WriteBody, Span
    <2> QED
        BY <2>3, <2>4, <2>5, <2>6 DEF WriterInv, WriteBody
<1>13. StreamInv'
    BY DEF RingInv, StreamInv, WriteBody
<1>14. ReaderInv'
    BY DEF RingInv, ReaderInv, WriteBody
<1>15. UnreadStored'
    BY <1>8, UnreadKept DEF WriteBody, d
<1>16. InOrderIntact'
    BY DEF RingInv, InOrderIntact, WriteBody
<1> QED
    BY <1>9, <1>10, <1>11, <1>12, <1>13, <1>14, <1>15, <1>16 DEF RingInv

\* push_tail: the mail joins the stream where the last one ended.
LEMMA PushTailInv ==
    ASSUME RingInv, PushTail
    PROVE  RingInv'
<1> DEFINE n == Len(sent)
           new == [mail |-> mail, at |-> wr]
<1>1. /\ mail \in Mails /\ wr \in Nat /\ rd \in Nat /\ rd <= wr
      /\ Size \in Nat
    BY WriterFacts DEF PushTail
<1>2. /\ Span(mail) \in Nat /\ Span(mail) % 4 = 0 /\ Span(mail) >= 4
      /\ wr' = wr + Span(mail)
    <2>1. /\ Span(mail) \in Nat /\ Span(mail) % 4 = 0 /\ Span(mail) >= 4
          /\ Span(mail) = 4 + AlignUp(mail.size) /\ AlignUp(mail.size) \in Nat
        BY <1>1, MailFacts
    <2>2. wr' = wr + 4 + AlignUp(mail.size)
        BY DEF PushTail, header_size
    <2> QED
        BY <1>1, <2>1, <2>2
<1>3. /\ sent \in Seq(Sent) /\ n \in Nat /\ Len(inbox) \in Nat
      /\ new \in Sent
    BY <1>1 DEF RingInv, TypeOK, Sent
<1>4. /\ sent' \in Seq(Sent) /\ Len(sent') = n + 1
      /\ \A i \in 1 .. n : sent'[i] = sent[i]
      /\ sent'[n + 1] = new
    <2>1. sent' = Append(sent, new)
        BY DEF PushTail
    <2> HIDE DEF new
    <2> QED
        BY <1>3, <2>1
<1>5. new.mail = mail /\ new.at = wr
    OBVIOUS
<1> HIDE DEF new
<1>6. wr % 4 = 0 /\ wr + Span(mail) - rd <= Size - 4
    BY DEF RingInv, RegisterInv, WriterInv, PushTail
<1>7. TypeOK'
    <2>1. wr' \in Nat
        BY <1>1, <1>2
    <2> QED
        BY <1>4, <2>1 DEF RingInv, TypeOK, PushTail, Leave, Sent
<1>8. LockInv'
    BY DEF LockInv, PushTail, Leave
<1>9. RegisterInv'
    <2>1. LocalWr = wr'
        BY <1>2 DEF PushTail, LocalWr
    <2>2. tail' = Off(head, wr' - rd)
        BY <2>1 DEF RingInv, WriterInv, PushTail, Pos
    <2>3. tail' = Pos(wr)'
        BY <2>2 DEF PushTail, Pos, Off
    <2>4. wr' % 4 = 0 /\ rd <= wr' /\ wr' - rd <= Size - 4
        BY <1>1, <1>2, <1>6
    <2> QED
        BY <2>3, <2>4 DEF RingInv, RegisterInv, PushTail
<1>10. WriterInv'
    BY DEF WriterInv, PushTail, Leave
<1>11. StreamInv'
    <2>1. ASSUME NEW i \in 1 .. n + 1 PROVE sent'[i].at % 4 = 0
        <3>1. CASE i = n + 1
            BY <1>4, <1>5, <1>6, <3>1
        <3>2. CASE i # n + 1
            <4>1. i \in 1 .. n
                BY <1>3, <3>2
            <4> QED
                BY <1>4, <4>1 DEF RingInv, StreamInv
        <3> QED
            BY <3>1, <3>2
    <2>2. ASSUME NEW i \in 1 .. n + 1
          PROVE  sent'[i].at + Span(sent'[i].mail) =
                     IF i = n + 1 THEN wr' ELSE sent'[i + 1].at
        <3>1. CASE i = n + 1
            BY <1>2, <1>4, <1>5, <3>1
        <3>2. CASE i = n /\ i # n + 1
            <4>1. i \in 1 .. n
                BY <1>3, <3>2
            <4>2. sent[i].at + Span(sent[i].mail) = wr
                BY <3>2, <4>1 DEF RingInv, StreamInv
            <4> QED
                BY <1>4, <1>5, <3>2, <4>1, <4>2
        <3>3. CASE i # n /\ i # n + 1
            <4>1. i \in 1 .. n /\ i + 1 \in 1 .. n
                BY <1>3, <3>3
            <4>2. sent[i].at + Span(sent[i].mail) = sent[i + 1].at
                BY <3>3, <4>1 DEF RingInv, StreamInv
            <4> QED
                BY <1>4, <3>3, <4>1, <4>2
        <3> QED
            BY <3>1, <3>2, <3>3
    <2>3. ASSUME NEW i \in 1 .. n + 1, NEW j \in 1 .. n + 1, i < j
          PROVE  sent'[i].at + Span(sent'[i].mail) <= sent'[j].at
        <3>1. i \in 1 .. n
            BY <1>3, <2>3
        <3>2. CASE j = n + 1
            <4>1. sent[i].at + Span(sent[i].mail) <= wr
                BY <3>1, EndBound DEF End
            <4> QED
                BY <1>4, <1>5, <3>1, <3>2, <4>1
        <3>3. CASE j # n + 1
            <4>1. j \in 1 .. n
                BY <1>3, <3>3
            <4>2. sent[i].at + Span(sent[i].mail) <= sent[j].at
                BY <2>3, <3>1, <4>1 DEF RingInv, StreamInv
            <4> QED
                BY <1>4, <3>1, <4>1, <4>2
        <3> QED
            BY <3>2, <3>3
    <2> HIDE DEF n
    <2> QED
        BY <1>4, <2>1, <2>2, <2>3 DEF StreamInv, Span
<1>12. ReaderInv'
    <2> DEFINE f == Len(inbox) + 1
    <2>1. Len(inbox) <= n
        BY DEF RingInv, ReaderInv
    <2>2. f \in 1 .. n + 1 /\ Len(inbox) # n + 1 /\ Len(inbox) <= n + 1 /\ Len(inbox) < n + 1
        BY <1>3, <2>1
    <2>3. rpc = "idle" => rd = sent'[f].at
        <3>1. CASE f = n + 1
            <4>1. Len(inbox) = n
                BY <1>3, <3>1
            <4> QED
                BY <1>4, <1>5, <3>1, <4>1 DEF RingInv, ReaderInv
        <3>2. CASE f # n + 1
            <4>1. f \in 1 .. n /\ Len(inbox) # n
                BY <1>3, <2>2, <3>2
            <4> QED
                BY <1>4, <4>1 DEF RingInv, ReaderInv
        <3> QED
            BY <3>1, <3>2
    <2>4. rpc = "body" =>
              /\ rd = sent'[f].at + header_size
              /\ rheader = serialize_header(sent'[f].mail.uid, sent'[f].mail.size)
        <3> SUFFICES ASSUME rpc = "body"
                     PROVE  /\ rd = sent'[f].at + header_size
                            /\ rheader = serialize_header(sent'[f].mail.uid, sent'[f].mail.size)
            OBVIOUS
        <3>1. Len(inbox) < n
            BY DEF RingInv, ReaderInv
        <3>2. f \in 1 .. n
            BY <1>3, <3>1
        <3> QED
            BY <1>4, <3>2 DEF RingInv, ReaderInv
    <2> QED
        BY <1>4, <2>2, <2>3, <2>4 DEF ReaderInv, PushTail
<1>13. UnreadStored'
    <2>1. data' = data /\ head' = head /\ rd' = rd /\ inbox' = inbox /\ rpc' = rpc
        BY DEF PushTail
    <2> SUFFICES ASSUME NEW i \in Len(inbox) + 1 .. n + 1
                 PROVE  /\ \A k \in 1 .. sent'[i].mail.size \div 4 :
                              data[Off(head, (sent'[i].at + 4 * k) - rd) \div 4]
                                  = sent'[i].mail.words[k]
                        /\ (rpc = "idle" \/ i > Len(inbox) + 1) =>
                              data[Off(head, sent'[i].at - rd) \div 4]
                                  = serialize_header(sent'[i].mail.uid, sent'[i].mail.size)
        BY <1>4, <2>1 DEF UnreadStored, BodyStored, HeaderStored, Pos, Off
    <2>2. CASE i = n + 1
        <3>1. BodyStored(mail, wr) /\ HeaderStored(mail, wr)
            BY DEF RingInv, WriterInv, PushTail
        <3>2. sent'[i].mail = mail /\ sent'[i].at = wr
            BY <1>4, <1>5, <2>2
        <3> QED
            BY <3>1, <3>2 DEF BodyStored, HeaderStored, Pos
    <2>3. CASE i # n + 1
        <3>1. i \in Len(inbox) + 1 .. n /\ i \in 1 .. n
            BY <1>3, <2>3
        <3>2. /\ BodyStored(sent[i].mail, sent[i].at)
              /\ (rpc = "idle" \/ i > Len(inbox) + 1) =>
                    HeaderStored(sent[i].mail, sent[i].at)
            BY <3>1 DEF RingInv, UnreadStored
        <3>3. sent'[i] = sent[i]
            BY <1>4, <3>1
        <3> QED
            BY <3>2, <3>3 DEF BodyStored, HeaderStored, Pos
    <2> QED
        BY <2>2, <2>3
<1>14. InOrderIntact'
    <2>1. Len(inbox) <= n /\ \A i \in 1 .. Len(inbox) : inbox[i] = AsDelivered(sent[i].mail)
        BY DEF RingInv, InOrderIntact
    <2>2. Len(inbox) <= n + 1 /\ \A i \in 1 .. Len(inbox) : i \in 1 .. n
        BY <1>3, <2>1
    <2>3. ASSUME NEW i \in 1 .. Len(inbox)
          PROVE  inbox[i] = AsDelivered(sent'[i].mail)
        <3>1. sent'[i] = sent[i]
            BY <1>4, <2>2
        <3> QED
            BY <2>1, <3>1
    <2>4. inbox' = inbox
        BY DEF PushTail
    <2> QED
        BY <1>4, <2>2, <2>3, <2>4, Zenon DEF InOrderIntact
<1> QED
    BY <1>7, <1>8, <1>9, <1>10, <1>11, <1>12, <1>13, <1>14 DEF RingInv

-----------------------------------------------------------------------------
\* The reader.

\* The state the reader's moves leave alone.
ReaderFrame ==
    UNCHANGED <<tail, data, local_tail, write_lock, wpc, mail, sent, wr>>

\* When the reader releases n bytes it has read, the registers, the writer's
\* progress and every later position keep their meaning.
LEMMA ReaderMoves ==
    ASSUME RingInv, ReaderFrame, NEW n \in Nat, n % 4 = 0, rd + n <= wr,
           head' = Off(head, n), rd' = rd + n
    PROVE  /\ head' \in Offsets /\ rd' \in Nat
           /\ \A p \in Nat : rd + n <= p /\ p < rd + Size => Pos(p)' = Pos(p)
           /\ RegisterInv'
           /\ WriterInv'
<1>1. /\ head \in Offsets /\ head % 4 = 0 /\ wr \in Nat /\ rd \in Nat
      /\ wr % 4 = 0 /\ rd % 4 = 0 /\ wr - rd <= Size - 4
      /\ Size \in Nat /\ Size >= 8
    BY SizeAssumption DEF RingInv, TypeOK, RegisterInv
<1>2. n \in 0 .. Size - 1
    BY <1>1
<1>3. head' \in Offsets /\ head' % 4 = 0
    BY <1>1, <1>2, OffFacts
<1>4. \A p \in Nat : rd + n <= p /\ p < rd + Size => Pos(p)' = Pos(p)
    BY <1>1, PosStable
<1>5. RegisterInv'
    <2>1. wr < rd + Size
        BY <1>1
    <2>2. Pos(wr)' = Pos(wr)
        <3>1. ASSUME NEW p \in Nat, p = wr PROVE Off(head', p - rd') = Off(head, p - rd)
            BY <1>4, <2>1, <3>1 DEF Pos
        <3>2. Off(head', wr - rd') = Off(head, wr - rd)
            BY <1>1, <3>1
        <3> QED
            BY <3>2 DEF ReaderFrame, Pos, Off
    <2>3. rd' % 4 = 0 /\ rd' <= wr /\ wr - rd' <= Size - 4
        BY <1>1
    <2> QED
        BY <1>3, <2>2, <2>3 DEF RingInv, RegisterInv, ReaderFrame
<1>6. WriterInv'
    <2> SUFFICES ASSUME wpc \in {"header", "body", "push"}
                 PROVE  /\ wr + Span(mail) - rd' <= Size - 4
                        /\ local_tail = Off(head', LocalWr - rd')
                        /\ wpc # "header" =>
                              data[Off(head', wr - rd') \div 4]
                                  = serialize_header(mail.uid, mail.size)
                        /\ wpc = "push" =>
                              \A k \in 1 .. mail.size \div 4 :
                                  data[Off(head', (wr + 4 * k) - rd') \div 4]
                                      = mail.words[k]
        BY DEF WriterInv, ReaderFrame, HeaderStored, BodyStored, Pos, Off, LocalWr, Span
    <2>1. mail \in Mails
        BY DEF RingInv, TypeOK, LockInv
    <2>2. /\ Span(mail) \in Nat /\ Span(mail) >= 4
          /\ Span(mail) = 4 + AlignUp(mail.size) /\ AlignUp(mail.size) \in Nat
          /\ 4 * (mail.size \div 4) <= AlignUp(mail.size)
          /\ mail.size \div 4 \in Nat
        BY <2>1, MailFacts
    <2>3. wr + Span(mail) - rd <= Size - 4
        BY DEF RingInv, WriterInv
    <2>4. wr + Span(mail) - rd' <= Size - 4
        BY <1>1, <2>2, <2>3
    <2>5. \A p \in Nat : wr <= p /\ p <= wr + Span(mail) =>
              Off(head', p - rd') = Off(head, p - rd)
        <3> SUFFICES ASSUME NEW p \in Nat, wr <= p, p <= wr + Span(mail)
                     PROVE  Off(head', p - rd') = Off(head, p - rd)
            OBVIOUS
        <3>1. rd + n <= p /\ p < rd + Size
            BY <1>1, <2>2, <2>3
        <3> QED
            BY <1>4, <3>1 DEF Pos
    <2>6. LocalWr \in Nat /\ wr <= LocalWr /\ LocalWr <= wr + Span(mail)
        <3>1. wr + 4 \in Nat /\ wr + Span(mail) \in Nat /\ wr <= wr + 4
              /\ wr + 4 <= wr + Span(mail) /\ wr <= wr + Span(mail)
            BY <1>1, <2>2
        <3> QED
            BY <1>1, <3>1 DEF LocalWr, header_size
    <2>7. local_tail = Off(head', LocalWr - rd')
        <3>1. local_tail = Off(head, LocalWr - rd)
            BY DEF RingInv, WriterInv, Pos
        <3> QED
            BY <2>5, <2>6, <3>1
    <2>8. wpc # "header" =>
              data[Off(head', wr - rd') \div 4] = serialize_header(mail.uid, mail.size)
        <3>1. Off(head', wr - rd') = Off(head, wr - rd)
            BY <1>1, <2>2, <2>5
        <3> QED
            BY <3>1 DEF RingInv, WriterInv, HeaderStored, Pos
    <2>9. ASSUME wpc = "push", NEW k \in 1 .. mail.size \div 4
          PROVE  data[Off(head', (wr + 4 * k) - rd') \div 4] = mail.words[k]
        <3> DEFINE q == mail.size \div 4
                   A == AlignUp(mail.size)
        <3>1. q \in Nat /\ A \in Nat /\ 4 * q <= A /\ Span(mail) = 4 + A /\ k \in 1 .. q
            BY <2>2
        <3> HIDE DEF q, A
        <3>2. wr + 4 * k \in Nat /\ wr <= wr + 4 * k /\ wr + 4 * k <= wr + Span(mail)
            BY <1>1, <3>1
        <3>3. Off(head', (wr + 4 * k) - rd') = Off(head, (wr + 4 * k) - rd)
            BY <2>5, <3>2
        <3> QED
            BY <2>9, <3>3 DEF RingInv, WriterInv, BodyStored, Pos
    <2> QED
        BY <2>4, <2>7, <2>8, <2>9
<1> QED
    BY <1>1, <1>3, <1>4, <1>5, <1>6

\* An unread mail stays intact when the reader moves on to or before it.
LEMMA StoredKept ==
    ASSUME RingInv, ReaderFrame, NEW n \in Nat, rd + n <= wr,
           head' = Off(head, n), rd' = rd + n,
           NEW i \in Len(inbox) + 1 .. Len(sent)
    PROVE  /\ rd + n <= sent[i].at + 4 => BodyStored(sent[i].mail, sent[i].at)'
           /\ rd + n <= sent[i].at /\ (rpc = "idle" \/ i > Len(inbox) + 1) =>
                 HeaderStored(sent[i].mail, sent[i].at)'
<1>1. /\ head \in Offsets /\ wr \in Nat /\ rd \in Nat /\ wr - rd <= Size - 4
      /\ Size \in Nat
    BY SizeAssumption DEF RingInv, TypeOK, RegisterInv
<1>2. /\ sent[i].at \in Nat /\ sent[i].at + 4 <= wr
      /\ \A k \in 1 .. sent[i].mail.size \div 4 :
            sent[i].at + 4 * k \in Nat /\ sent[i].at + 4 * k < wr
    BY UnreadWindow
<1>3. \A p \in Nat : rd + n <= p /\ p < wr =>
          Off(head', p - rd') = Off(head, p - rd)
    <2> SUFFICES ASSUME NEW p \in Nat, rd + n <= p, p < wr
                 PROVE  Off(head', p - rd') = Off(head, p - rd)
        OBVIOUS
    <2>1. p < rd + Size
        BY <1>1
    <2> QED
        BY <1>1, <2>1, PosStable DEF Pos
<1>4. ASSUME rd + n <= sent[i].at + 4
      PROVE  BodyStored(sent[i].mail, sent[i].at)'
    <2> SUFFICES ASSUME NEW k \in 1 .. sent[i].mail.size \div 4
                 PROVE  data[Off(head', (sent[i].at + 4 * k) - rd') \div 4]
                            = sent[i].mail.words[k]
        BY DEF ReaderFrame, BodyStored, Pos, Off
    <2> DEFINE a == sent[i].at
               q == sent[i].mail.size \div 4
    <2>1. q \in Nat
        <3>1. i \in 1 .. Len(sent) /\ sent \in Seq(Sent)
            BY UnreadWindow DEF RingInv, TypeOK, Sent
        <3> QED
            BY <3>1, SentFacts
    <2>2. a \in Nat /\ a + 4 * k \in Nat /\ a + 4 * k < wr /\ k \in 1 .. q /\ rd + n <= a + 4
        BY <1>2, <1>4
    <2>3. data[Off(head, (a + 4 * k) - rd) \div 4] = sent[i].mail.words[k]
        BY DEF RingInv, UnreadStored, BodyStored, Pos
    <2> HIDE DEF a, q
    <2>4. rd + n <= a + 4 * k
        BY <1>1, <2>1, <2>2
    <2>5. Off(head', (a + 4 * k) - rd') = Off(head, (a + 4 * k) - rd)
        BY <1>3, <2>2, <2>4
    <2>6. data[Off(head', (a + 4 * k) - rd') \div 4] = sent[i].mail.words[k]
        BY <2>3, <2>5
    <2> QED
        BY <2>6 DEF a
<1>5. ASSUME rd + n <= sent[i].at, rpc = "idle" \/ i > Len(inbox) + 1
      PROVE  HeaderStored(sent[i].mail, sent[i].at)'
    <2>1. data[Off(head, sent[i].at - rd) \div 4]
              = serialize_header(sent[i].mail.uid, sent[i].mail.size)
        BY <1>5 DEF RingInv, UnreadStored, HeaderStored, Pos
    <2>2. sent[i].at < wr
        BY <1>1, <1>2
    <2>3. Off(head', sent[i].at - rd') = Off(head, sent[i].at - rd)
        BY <1>2, <1>3, <1>5, <2>2
    <2> QED
        BY <2>1, <2>3 DEF ReaderFrame, HeaderStored, Pos, Off
<1> QED
    BY <1>4, <1>5

\* The reader finds the header of the next unread mail at head.
LEMMA ReadHeaderInv ==
    ASSUME RingInv, ReadHeader
    PROVE  RingInv'
<1> DEFINE f == Len(inbox) + 1
           m == sent[f].mail
<1>1. /\ head \in Offsets /\ head % 4 = 0 /\ data \in Cells
      /\ wr \in Nat /\ rd \in Nat /\ rd <= wr /\ wr - rd <= Size - 4
      /\ Size \in Nat /\ Size >= 8 /\ Size % 4 = 0
      /\ Len(inbox) \in Nat /\ Len(sent) \in Nat /\ sent \in Seq(Sent)
      /\ inbox \in Seq(Mail)
    BY SizeAssumption DEF RingInv, TypeOK, RegisterInv, Cells, Sent
<1>2. rd # wr
    <2>1. tail = Off(head, wr - rd) /\ head # tail
        BY DEF RingInv, RegisterInv, Pos, ReadHeader, al5_mcu_is_empty
    <2>2. Off(head, 0) = head
        BY <1>1 DEF Off, Offsets
    <2> QED
        BY <1>1, <2>1, <2>2
<1>3. Len(inbox) # Len(sent) /\ Len(inbox) <= Len(sent)
    BY <1>2 DEF RingInv, ReaderInv, ReadHeader
<1>4. f \in Len(inbox) + 1 .. Len(sent) /\ f \in 1 .. Len(sent) /\ Len(inbox) < Len(sent)
    BY <1>1, <1>3
<1>5. rd = sent[f].at
    BY <1>3 DEF RingInv, ReaderInv, ReadHeader
<1>6. sent[f].at + 4 <= wr /\ m \in Mails
    BY <1>4, UnreadWindow
<1>7. AlignUp(4) = 4 /\ 4 \div 4 = 1 /\ WordsIn(4) = 1
    BY DEF AlignUp, WordsIn
<1>8. head' = Off(head, 4)
    <2>1. AlignUp(4) <= Size - 4
        BY <1>1, <1>7
    <2>2. advance(head, 4) = Off(head, AlignUp(4))
        BY <1>1, <2>1, AdvanceIsOff
    <2> QED
        BY <1>7, <2>2 DEF ReadHeader, header_size
<1>9. rd' = rd + 4 /\ rd + 4 <= wr /\ ReaderFrame
    BY <1>5, <1>6 DEF ReadHeader, header_size, ReaderFrame
<1>10. rheader' = serialize_header(m.uid, m.size)
    <2>1. AlignUp(4) <= Size - 4
        BY <1>1, <1>7
    <2>2. read_data(data, head, 4) =
              [k \in 1 .. WordsIn(4) |->
                  IF k <= 4 \div 4 THEN data[Off(head, 4 * (k - 1)) \div 4]
                  ELSE ZeroWord]
        BY <1>1, <2>1, ReadDataFacts
    <2>3. read_data(data, head, 4)[1] = data[Off(head, 0) \div 4]
        BY <1>7, <2>2
    <2>4. data[Off(head, sent[f].at - rd) \div 4] = serialize_header(m.uid, m.size)
        BY <1>4 DEF RingInv, UnreadStored, HeaderStored, Pos, ReadHeader
    <2>5. sent[f].at - rd = 0
        BY <1>1, <1>5
    <2> QED
        BY <2>3, <2>4, <2>5 DEF ReadHeader, header_size
<1>11. /\ head' \in Offsets /\ rd' \in Nat /\ RegisterInv' /\ WriterInv'
    <2>1. 4 \in Nat /\ 4 % 4 = 0
        OBVIOUS
    <2> QED
        BY <1>8, <1>9, <2>1, ReaderMoves
<1>12. TypeOK'
    <2>1. rheader' \in Word
        BY <1>6, <1>10, MailFacts, HeaderRoundTrip
    <2> QED
        BY <1>11, <2>1 DEF RingInv, TypeOK, ReadHeader
<1>13. LockInv'
    BY DEF RingInv, LockInv, ReadHeader
<1>14. StreamInv'
    BY DEF RingInv, StreamInv, ReadHeader
<1>15. ReaderInv'
    <2>1. rd' = sent[f].at + header_size
        BY <1>5, <1>9 DEF header_size
    <2> QED
        BY <1>3, <1>4, <1>10, <2>1 DEF ReaderInv, ReadHeader
<1>16. UnreadStored'
    <2> SUFFICES ASSUME NEW i \in Len(inbox) + 1 .. Len(sent)
                 PROVE  /\ BodyStored(sent[i].mail, sent[i].at)'
                        /\ i > Len(inbox) + 1 => HeaderStored(sent[i].mail, sent[i].at)'
        <3>1. sent' = sent /\ inbox' = inbox /\ rpc' = "body"
            BY DEF ReadHeader
        <3> QED
            BY <3>1 DEF UnreadStored
    <2>1. rd <= sent[i].at /\ sent[i].at \in Nat
        BY UnreadWindow DEF ReadHeader
    <2>2. BodyStored(sent[i].mail, sent[i].at)'
        <3>1. rd + 4 <= sent[i].at + 4
            BY <1>1, <2>1
        <3> QED
            BY <1>8, <1>9, <3>1, StoredKept
    <2>3. ASSUME i > Len(inbox) + 1
          PROVE  HeaderStored(sent[i].mail, sent[i].at)'
        <3>1. i \in 1 .. Len(sent) /\ f < i
            BY <1>1, <2>3
        <3>2. End(f) <= sent[i].at
            BY <1>4, <3>1 DEF RingInv, StreamInv, End
        <3>3. End(f) \in Nat /\ End(f) >= sent[f].at + 4
            BY <1>1, <1>4, SentFacts
        <3>4. rd + 4 <= sent[i].at
            BY <1>1, <1>5, <2>1, <3>2, <3>3
        <3> QED
            BY <1>8, <1>9, <2>3, <3>4, StoredKept
    <2> QED
        BY <2>2, <2>3
<1>17. InOrderIntact'
    BY DEF RingInv, InOrderIntact, ReadHeader
<1> QED
    BY <1>11, <1>12, <1>13, <1>14, <1>15, <1>16, <1>17 DEF RingInv

\* What the reader makes of a body: the mail that was written.
LEMMA ReadBodyDelivers ==
    ASSUME RingInv, ReadBody
    PROVE  LET f == Len(inbox) + 1
               m == sent[f].mail
           IN  /\ f \in Len(inbox) + 1 .. Len(sent) /\ f \in 1 .. Len(sent)
               /\ m \in Mails
               /\ AsDelivered(m) \in Mail
               /\ inbox' = Append(inbox, AsDelivered(m))
               /\ head' = Off(head, AlignUp(m.size))
               /\ rd' = rd + AlignUp(m.size)
               /\ rd' = End(f)
               /\ rd' <= wr
<1> DEFINE f == Len(inbox) + 1
           m == sent[f].mail
           A == AlignUp(m.size)
<1>1. /\ head \in Offsets /\ head % 4 = 0 /\ data \in Cells
      /\ wr \in Nat /\ rd \in Nat /\ rd <= wr /\ wr - rd <= Size - 4
      /\ Size \in Nat
      /\ Len(inbox) \in Nat /\ Len(sent) \in Nat /\ sent \in Seq(Sent)
    BY SizeAssumption DEF RingInv, TypeOK, RegisterInv, Cells, Sent
<1>2. Len(inbox) < Len(sent) /\ rd = sent[f].at + 4
      /\ rheader = serialize_header(m.uid, m.size)
    BY DEF RingInv, ReaderInv, ReadBody, header_size
<1>3. f \in Len(inbox) + 1 .. Len(sent) /\ f \in 1 .. Len(sent)
    BY <1>1, <1>2
<1>4. m \in Mails /\ sent[f].at \in Nat
    BY <1>3, UnreadWindow
<1>5. /\ m \in Mail /\ m.uid \in U16 /\ m.size \in U16 /\ m.size \in Nat
      /\ A \in Nat /\ A % 4 = 0 /\ Span(m) = 4 + A
    BY <1>4, MailFacts, AlignUpFacts
<1>6. unserialize_body_size(rheader) = m.size /\ unserialize_msg_uid(rheader) = m.uid
    BY <1>2, <1>5, HeaderRoundTrip
<1>7. End(f) = rd + A
    <2>1. End(f) = sent[f].at + (4 + A)
        BY <1>5 DEF End
    <2> DEFINE a == sent[f].at
    <2>2. a \in Nat /\ rd = a + 4 /\ End(f) = a + (4 + A)
        BY <1>2, <1>4, <2>1
    <2> HIDE DEF a, A
    <2> QED
        BY <1>5, <2>2
<1>8. End(f) <= wr
    BY <1>3, EndBound
<1>9. A <= Size - 4
    <2> HIDE DEF A
    <2> QED
        BY <1>1, <1>5, <1>7, <1>8
<1>10. head' = Off(head, A)
    <2>1. advance(head, m.size) = Off(head, A)
        BY <1>1, <1>5, <1>9, AdvanceIsOff
    <2> QED
        BY <1>6, <2>1 DEF ReadBody
<1>11. rd' = rd + A
    BY <1>6 DEF ReadBody
<1>12. read_data(data, head, m.size) \in Seq(Word)
       /\ read_data(data, head, m.size) =
              [k \in 1 .. WordsIn(m.size) |->
                  IF k <= m.size \div 4 THEN m.words[k] ELSE ZeroWord]
    <2>1. /\ read_data(data, head, m.size) \in Seq(Word)
          /\ read_data(data, head, m.size) =
                [k \in 1 .. WordsIn(m.size) |->
                    IF k <= m.size \div 4 THEN data[Off(head, 4 * (k - 1)) \div 4]
                    ELSE ZeroWord]
        BY <1>1, <1>5, <1>9, ReadDataFacts
    <2>2. ASSUME NEW k \in 1 .. WordsIn(m.size)
          PROVE  (IF k <= m.size \div 4 THEN data[Off(head, 4 * (k - 1)) \div 4]
                  ELSE ZeroWord)
                     = IF k <= m.size \div 4 THEN m.words[k] ELSE ZeroWord
        <3> SUFFICES ASSUME k <= m.size \div 4
                     PROVE  data[Off(head, 4 * (k - 1)) \div 4] = m.words[k]
            OBVIOUS
        <3>1. WordsIn(m.size) \in Nat /\ m.size \div 4 \in Nat
            BY <1>5, AlignUpFacts
        <3>2. k \in 1 .. m.size \div 4
            BY <3>1
        <3>3. data[Off(head, (sent[f].at + 4 * k) - rd) \div 4] = m.words[k]
            BY <1>3, <3>2 DEF RingInv, UnreadStored, BodyStored, Pos
        <3> DEFINE a == sent[f].at
        <3>4. a \in Nat /\ rd = a + 4 /\ k \in Int
            BY <1>2, <1>4, <3>1
        <3> HIDE DEF a
        <3>5. (a + 4 * k) - rd = 4 * (k - 1)
            BY <3>4
        <3> QED
            BY <3>3, <3>5 DEF a
    <2> QED
        BY <2>1, <2>2, Zenon
<1>13. [uid |-> m.uid, size |-> m.size, words |-> read_data(data, head, m.size)]
           = AsDelivered(m)
    <2> DEFINE w == [k \in 1 .. WordsIn(m.size) |->
                        IF k <= m.size \div 4 THEN m.words[k] ELSE ZeroWord]
    <2>1. AsDelivered(m) = [m EXCEPT !.words = w]
        BY DEF AsDelivered
    <2>2. read_data(data, head, m.size) = w
        BY <1>12
    <2> HIDE DEF w, m
    <2>3. [m EXCEPT !.words = w] = [uid |-> m.uid, size |-> m.size, words |-> w]
        BY <1>5 DEF Mail
    <2> QED
        BY <2>1, <2>2, <2>3
<1>14. AsDelivered(m) \in Mail
    <2> DEFINE w == read_data(data, head, m.size)
    <2>1. w \in Seq(Word) /\ AsDelivered(m) = [uid |-> m.uid, size |-> m.size, words |-> w]
        BY <1>12, <1>13
    <2> HIDE DEF w
    <2> QED
        BY <1>5, <2>1 DEF Mail
<1>15. inbox' = Append(inbox, AsDelivered(m))
    BY <1>6, <1>13 DEF ReadBody
<1> QED
    BY <1>3, <1>4, <1>7, <1>8, <1>10, <1>11, <1>14, <1>15

\* Reading the body of a mail keeps the invariant (read_data).
LEMMA ReadBodyInv ==
    ASSUME RingInv, ReadBody
    PROVE  RingInv'
<1> DEFINE f == Len(inbox) + 1
           m == sent[f].mail
           A == AlignUp(m.size)
<1>1. /\ f \in Len(inbox) + 1 .. Len(sent) /\ f \in 1 .. Len(sent)
      /\ m \in Mails /\ AsDelivered(m) \in Mail
      /\ inbox' = Append(inbox, AsDelivered(m))
      /\ head' = Off(head, A) /\ rd' = rd + A /\ rd' = End(f) /\ rd' <= wr
    BY ReadBodyDelivers
<1>2. /\ rd \in Nat /\ wr \in Nat
      /\ Len(inbox) \in Nat /\ Len(sent) \in Nat /\ sent \in Seq(Sent)
      /\ inbox \in Seq(Mail)
    BY DEF RingInv, TypeOK, Sent
<1>3. A \in Nat /\ A % 4 = 0
    BY <1>1, MailFacts, AlignUpFacts
<1>4. ReaderFrame /\ rd + A <= wr
    BY <1>1 DEF ReadBody, ReaderFrame
<1>5. /\ inbox' \in Seq(Mail) /\ Len(inbox') = f
      /\ \A i \in 1 .. Len(inbox) : inbox'[i] = inbox[i]
      /\ inbox'[f] = AsDelivered(m)
    <2> HIDE DEF m
    <2> QED
        BY <1>1, <1>2
<1>6. head' \in Offsets /\ rd' \in Nat /\ RegisterInv' /\ WriterInv'
    BY <1>1, <1>3, <1>4, ReaderMoves
<1>7. TypeOK'
    <2>1. ZeroWord \in Word
        BY DEF ZeroWord, Word, Byte
    <2> QED
        BY <1>5, <1>6, <2>1 DEF RingInv, TypeOK, ReadBody
<1>8. LockInv'
    BY DEF RingInv, LockInv, ReadBody
<1>9. StreamInv'
    BY DEF RingInv, StreamInv, ReadBody
<1>10. ReaderInv'
    <2>1. Len(inbox') <= Len(sent)
        BY <1>1, <1>2, <1>5
    <2>2. rd' = IF Len(inbox') = Len(sent) THEN wr ELSE sent[Len(inbox') + 1].at
        BY <1>1, <1>5 DEF RingInv, StreamInv, End
    <2> QED
        BY <2>1, <2>2 DEF ReaderInv, ReadBody
<1>11. UnreadStored'
    <2> SUFFICES ASSUME NEW i \in f + 1 .. Len(sent)
                 PROVE  /\ BodyStored(sent[i].mail, sent[i].at)'
                        /\ HeaderStored(sent[i].mail, sent[i].at)'
        <3>1. sent' = sent /\ Len(inbox') = f
            BY <1>5 DEF ReadBody
        <3> HIDE DEF f
        <3> QED
            BY <3>1 DEF UnreadStored
    <2>1. /\ i \in Len(inbox) + 1 .. Len(sent) /\ i \in 1 .. Len(sent)
          /\ f < i /\ i > Len(inbox) + 1
        BY <1>2
    <2>2. rd + A <= sent[i].at
        BY <1>1, <2>1 DEF RingInv, StreamInv, End
    <2>3. rd + A <= sent[i].at + 4
        <3>1. sent[i].at \in Nat
            BY <1>2, <2>1, SentFacts
        <3> QED
            BY <1>2, <1>3, <2>2, <3>1
    <2> QED
        BY <1>1, <1>3, <1>4, <2>1, <2>2, <2>3, StoredKept
<1>12. InOrderIntact'
    <2>1. \A i \in 1 .. Len(inbox) : inbox[i] = AsDelivered(sent[i].mail)
        BY DEF RingInv, InOrderIntact
    <2>2. ASSUME NEW i \in 1 .. f
          PROVE  inbox'[i] = AsDelivered(sent[i].mail)
        <3>1. CASE i = f
            BY <1>5, <3>1
        <3>2. CASE i # f
            <4>1. i \in 1 .. Len(inbox)
                BY <1>2, <3>2
            <4> QED
                BY <1>5, <2>1, <4>1
        <3> QED
            BY <3>1, <3>2
    <2>3. Len(inbox') <= Len(sent) /\ Len(inbox') = f
        BY <1>1, <1>2, <1>5
    <2>4. sent' = sent
        BY DEF ReadBody
    <2> HIDE DEF f
    <2> QED
        BY <2>2, <2>3, <2>4 DEF InOrderIntact
<1> QED
    BY <1>6, <1>7, <1>8, <1>9, <1>10, <1>11, <1>12 DEF RingInv

\* Steps that change nothing keep the invariant.
LEMMA StutterInv == RingInv /\ UNCHANGED vars => RingInv'
<1> SUFFICES ASSUME RingInv, UNCHANGED vars PROVE RingInv'
    OBVIOUS
<1> USE DEF RingInv, vars
<1>1. TypeOK'
    BY DEF TypeOK
<1>2. LockInv'
    BY DEF LockInv
<1>3. RegisterInv'
    BY DEF RegisterInv, Pos
<1>4. WriterInv'
    BY DEF WriterInv, LocalWr, BodyStored, HeaderStored, Pos
<1>5. StreamInv'
    BY DEF StreamInv
<1>6. ReaderInv'
    BY DEF ReaderInv
<1>7. UnreadStored'
    BY DEF UnreadStored, BodyStored, HeaderStored, Pos
<1>8. InOrderIntact'
    BY DEF InOrderIntact
<1> QED
    BY <1>1, <1>2, <1>3, <1>4, <1>5, <1>6, <1>7, <1>8

\* Every step of the writers and the reader keeps the invariant.
LEMMA NextInv == RingInv /\ [Next]_vars => RingInv'
<1> SUFFICES ASSUME RingInv, [Next]_vars PROVE RingInv'
    OBVIOUS
<1>1. CASE \E w \in Writers, m \in Mails : SendBegin(w, m)
    BY <1>1, SendBeginInv
<1>2. CASE WriteRefused
    BY <1>2, WriteRefusedInv
<1>3. CASE WriteAdmitted
    BY <1>3, WriteAdmittedInv
<1>4. CASE WriteHeader
    BY <1>4, WriteHeaderInv
<1>5. CASE WriteBody
    BY <1>5, WriteBodyInv
<1>6. CASE PushTail
    BY <1>6, PushTailInv
<1>7. CASE ReadHeader
    BY <1>7, ReadHeaderInv
<1>8. CASE ReadBody
    BY <1>8, ReadBodyInv
<1>9. CASE UNCHANGED vars
    BY <1>9, StutterInv
<1> QED
    BY <1>1, <1>2, <1>3, <1>4, <1>5, <1>6, <1>7, <1>8, <1>9
    DEF Next, WriterStep, ReaderStep

-----------------------------------------------------------------------------
\* The theorems.

(***************************************************************************)
(* In every reachable state of every mailbox, also in the middle of a      *)
(* write or a read, each accepted and unread mail is intact in the ring    *)
(* where al5_mailbox_read will look for it, and what a writer past the     *)
(* check of al5_mailbox_write still has to copy fits into free bytes.      *)
(***************************************************************************)
THEOREM RingInvariant == Spec => []RingInv
<1>1. Init => RingInv
    BY InitInv
<1>2. RingInv /\ [Next]_vars => RingInv'
    BY NextInv
<1> QED
    BY <1>1, <1>2, PTL DEF Spec

(***************************************************************************)
(* The registers never leave the ring, no copy reads or writes outside of  *)
(* it, and the reader only ever builds mails from headers a writer wrote:  *)
(* the type invariant needs all of RingInv, because the size of a read is  *)
(* taken from the bytes in the ring.                                       *)
(***************************************************************************)
THEOREM TypeCorrect == Spec => []TypeOK
<1>1. RingInv => TypeOK
    BY DEF RingInv
<1> QED
    BY <1>1, RingInvariant, PTL

(***************************************************************************)
(* The comment of not_enough_space_in_mailbox is right for every ring size *)
(* and all mails: head and tail are multiples of 4, and equal only if the  *)
(* mailbox is empty, so al5_mcu_is_empty can tell full from empty.         *)
(***************************************************************************)
THEOREM HeadTailCorrect == Spec => []HeadTail
<1>1. RingInv => HeadTail
    <2> SUFFICES ASSUME RingInv PROVE HeadTail
        OBVIOUS
    <2>1. /\ head \in Offsets /\ wr \in Nat /\ rd \in Nat
          /\ rd <= wr /\ wr - rd <= Size - 4 /\ tail = Off(head, wr - rd)
          /\ head % 4 = 0 /\ tail % 4 = 0
        BY DEF RingInv, TypeOK, RegisterInv, Pos
    <2>2. (head = tail) <=> (rd = wr)
        BY <2>1, SizeAssumption DEF Off, Offsets
    <2> QED
        BY <2>1, <2>2 DEF HeadTail
<1> QED
    BY <1>1, RingInvariant, PTL

(***************************************************************************)
(* The mails al5_mailbox_read returns are, in order and intact, the mails  *)
(* al5_mailbox_write accepted.                                             *)
(***************************************************************************)
THEOREM DeliveryCorrect == Spec => []InOrderIntact
<1>1. RingInv => InOrderIntact
    BY DEF RingInv
<1> QED
    BY <1>1, RingInvariant, PTL

-----------------------------------------------------------------------------
\* The ring implements the first-in first-out channel.

\* A step that changes neither `sent' nor `inbox' is no step of the channel.
LEMMA FifoStutter ==
    ASSUME sent' = sent, inbox' = inbox
    PROVE  UNCHANGED Fifo!fifoVars
    BY DEF Fifo!fifoVars, Pending, AsDelivered

\* A sequence with one element more, and one without its first, as functions.
LEMMA AppendFunction ==
    ASSUME NEW S, NEW s \in Seq(S), NEW e \in S
    PROVE  Append(s, e) =
               [i \in 1 .. Len(s) + 1 |-> IF i <= Len(s) THEN s[i] ELSE e]
<1> DEFINE a == Append(s, e)
           F == [i \in 1 .. Len(s) + 1 |-> IF i <= Len(s) THEN s[i] ELSE e]
<1>1. /\ a \in Seq(S) /\ Len(s) \in Nat /\ Len(a) = Len(s) + 1
      /\ \A i \in 1 .. Len(s) : a[i] = s[i]
      /\ a[Len(s) + 1] = e
    BY AppendProperties, LenProperties
<1>2. a = [i \in 1 .. Len(s) + 1 |-> a[i]]
    <2> HIDE DEF a
    <2> QED
        BY <1>1, LenProperties
<1> HIDE DEF a
<1>3. ASSUME NEW i \in 1 .. Len(s) + 1
      PROVE  a[i] = IF i <= Len(s) THEN s[i] ELSE e
    <2>1. CASE i <= Len(s)
        BY <1>1, <2>1
    <2>2. CASE ~(i <= Len(s))
        <3>1. i = Len(s) + 1
            BY <1>1, <2>2
        <3> QED
            BY <1>1, <2>2, <3>1
    <2> QED
        BY <2>1, <2>2
<1>4. a = F
    BY <1>2, <1>3, Zenon
<1> QED
    BY <1>4 DEF a

\* The tail of a sequence, position by position.
LEMMA TailFunction ==
    ASSUME NEW S, NEW s \in Seq(S), s # <<>>
    PROVE  Tail(s) = [i \in 1 .. Len(s) - 1 |-> s[i + 1]]
<1> DEFINE t == Tail(s)
<1>1. /\ t \in Seq(S) /\ Len(t) = Len(s) - 1
      /\ \A i \in 1 .. Len(t) : t[i] = s[i + 1]
    BY HeadTailProperties
<1>2. t = [i \in 1 .. Len(s) - 1 |-> t[i]]
    <2> HIDE DEF t
    <2> QED
        BY <1>1, LenProperties
<1> HIDE DEF t
<1>3. t = [i \in 1 .. Len(s) - 1 |-> s[i + 1]]
    BY <1>1, <1>2, Zenon
<1> QED
    BY <1>3 DEF t

\* push_tail is the channel's Send.
LEMMA PushTailSends ==
    ASSUME RingInv, PushTail
    PROVE  Fifo!Next
<1> DEFINE n == Len(sent) - Len(inbox)
           x == AsDelivered(mail)
<1>1. /\ mail \in Mails /\ sent \in Seq(Sent) /\ Len(sent) \in Nat
      /\ Len(inbox) \in Nat /\ Len(inbox) <= Len(sent) /\ wr \in Nat
    BY WriterFacts DEF RingInv, TypeOK, PushTail, Sent, ReaderInv
<1>2. /\ sent' = Append(sent, [mail |-> mail, at |-> wr]) /\ inbox' = inbox
    BY DEF PushTail
<1>3. /\ Len(sent') = Len(sent) + 1
      /\ \A i \in 1 .. Len(sent) : sent'[i] = sent[i]
      /\ sent'[Len(sent) + 1].mail = mail
    <2> DEFINE new == [mail |-> mail, at |-> wr]
    <2>1. new \in Sent /\ new.mail = mail
        BY <1>1 DEF Sent
    <2>2. sent' = Append(sent, new)
        BY <1>2
    <2> HIDE DEF new
    <2> QED
        BY <1>1, <2>1, <2>2
<1>4. n \in Nat /\ Len(sent') - Len(inbox') = n + 1
    BY <1>1, <1>2, <1>3
<1>5. Pending' = [i \in 1 .. n + 1 |-> AsDelivered(sent'[Len(inbox) + i].mail)]
    BY <1>2, <1>4 DEF Pending, AsDelivered
<1>6. Pending = [i \in 1 .. n |-> AsDelivered(sent[Len(inbox) + i].mail)]
    BY DEF Pending
<1>7. ASSUME NEW i \in 1 .. n
      PROVE  sent'[Len(inbox) + i] = sent[Len(inbox) + i]
    <2>1. Len(inbox) + i \in 1 .. Len(sent)
        BY <1>1, <1>4
    <2> QED
        BY <1>3, <2>1
<1>8. sent'[Len(inbox) + (n + 1)].mail = mail
    <2>1. Len(inbox) + (n + 1) = Len(sent) + 1
        BY <1>1
    <2> QED
        BY <1>3, <2>1
<1> HIDE DEF n
<1>9. Pending' = [i \in 1 .. n + 1 |-> IF i <= n THEN Pending[i] ELSE x]
    <2> SUFFICES ASSUME NEW i \in 1 .. n + 1
                 PROVE  AsDelivered(sent'[Len(inbox) + i].mail)
                            = IF i <= n THEN Pending[i] ELSE x
        BY <1>5, Zenon
    <2>1. CASE i <= n
        <3>1. i \in 1 .. n
            BY <1>4, <2>1
        <3> QED
            BY <1>6, <1>7, <2>1, <3>1
    <2>2. CASE ~(i <= n)
        <3>1. i = n + 1
            BY <1>4, <2>2
        <3> QED
            BY <1>8, <2>2, <3>1
    <2> QED
        BY <2>1, <2>2
<1>10. Pending \in Seq({AsDelivered(m) : m \in Mails}) /\ Len(Pending) = n
    <2>1. ASSUME NEW i \in 1 .. n
          PROVE  AsDelivered(sent[Len(inbox) + i].mail) \in {AsDelivered(m) : m \in Mails}
        <3>1. Len(inbox) + i \in 1 .. Len(sent)
            BY <1>1, <1>4 DEF n
        <3>2. sent[Len(inbox) + i].mail \in Mails
            BY <1>1, <3>1, SentFacts
        <3> QED
            BY <3>2
    <2> DEFINE S == {AsDelivered(m) : m \in Mails}
               D(i) == AsDelivered(sent[Len(inbox) + i].mail)
    <2>2. \A i \in 1 .. n : D(i) \in S
        BY <2>1
    <2>3. Pending = [i \in 1 .. n |-> D(i)]
        BY <1>6
    <2> HIDE DEF S, D
    <2>4. Pending \in Seq(S) /\ Len(Pending) = n
        BY <1>4, <2>2, <2>3
    <2> QED
        BY <2>4 DEF S
<1>11. Pending' = Append(Pending, x)
    <2> DEFINE S == {AsDelivered(m) : m \in Mails}
    <2>1. Pending \in Seq(S) /\ Len(Pending) = n
        BY <1>10
    <2>2. x \in S
        BY <1>1
    <2> HIDE DEF S, x
    <2>3. Append(Pending, x) = [i \in 1 .. n + 1 |-> IF i <= n THEN Pending[i] ELSE x]
        BY <2>1, <2>2, AppendFunction
    <2> QED
        BY <1>9, <2>3
<1>12. x \in {AsDelivered(m) : m \in Mails}
    BY <1>1
<1>13. Fifo!Send(x)
    BY <1>2, <1>11 DEF Fifo!Send
<1> QED
    BY <1>12, <1>13 DEF Fifo!Next

\* Reading a body is the channel's Recv.
LEMMA ReadBodyReceives ==
    ASSUME RingInv, ReadBody
    PROVE  Fifo!Next
<1> DEFINE f == Len(inbox) + 1
           n == Len(sent) - Len(inbox)
           x == AsDelivered(sent[f].mail)
<1>1. /\ sent \in Seq(Sent) /\ Len(sent) \in Nat
      /\ inbox \in Seq(Mail) /\ Len(inbox) \in Nat
    BY DEF RingInv, TypeOK, Sent
<1>2. f \in 1 .. Len(sent) /\ x \in Mail /\ inbox' = Append(inbox, x) /\ sent' = sent
    BY ReadBodyDelivers DEF ReadBody
<1>3. Len(inbox') = f
    <2> HIDE DEF x
    <2> QED
        BY <1>1, <1>2
<1>4. n \in Nat /\ n >= 1 /\ Len(sent') - Len(inbox') = n - 1
    BY <1>1, <1>2, <1>3
<1>5. Pending = [i \in 1 .. n |-> AsDelivered(sent[Len(inbox) + i].mail)]
    BY DEF Pending
<1>6. Pending' = [i \in 1 .. n - 1 |-> AsDelivered(sent[f + i].mail)]
    BY <1>2, <1>3, <1>4 DEF Pending, AsDelivered
<1>7. ASSUME NEW i \in 1 .. n - 1
      PROVE  AsDelivered(sent[f + i].mail) = Pending[i + 1]
    <2>1. i + 1 \in 1 .. n /\ Len(inbox) + (i + 1) = f + i
        BY <1>1, <1>4
    <2> QED
        BY <1>5, <2>1
<1>8. Pending[1] = x
    <2>1. 1 \in 1 .. n
        BY <1>4
    <2> QED
        BY <1>5, <2>1
<1>9. Pending' = [i \in 1 .. n - 1 |-> Pending[i + 1]]
    BY <1>6, <1>7, Zenon
<1>10. ASSUME NEW i \in 1 .. n
       PROVE  AsDelivered(sent[Len(inbox) + i].mail) \in {AsDelivered(m) : m \in Mails}
    <2>1. Len(inbox) + i \in 1 .. Len(sent)
        BY <1>1, <1>4
    <2>2. sent[Len(inbox) + i].mail \in Mails
        BY <1>1, <2>1, SentFacts
    <2> QED
        BY <2>2
<1> HIDE DEF n, x, f
<1>11. \E S : Pending \in Seq(S) /\ Len(Pending) = n
    <2> DEFINE S == {AsDelivered(m) : m \in Mails}
               D(i) == AsDelivered(sent[Len(inbox) + i].mail)
    <2>1. \A i \in 1 .. n : D(i) \in S
        BY <1>10
    <2>2. Pending = [i \in 1 .. n |-> D(i)]
        BY <1>5
    <2> HIDE DEF S, D
    <2>3. Pending \in Seq(S) /\ Len(Pending) = n
        BY <1>4, <2>1, <2>2
    <2> QED
        BY <2>3
<1>12. Pending # <<>> /\ Head(Pending) = x /\ Tail(Pending) = [i \in 1 .. n - 1 |-> Pending[i + 1]]
    <2>1. PICK S : Pending \in Seq(S) /\ Len(Pending) = n
        BY <1>11
    <2>2. Pending # <<>>
        BY <1>4, <2>1
    <2>3. Head(Pending) = x
        BY <1>8, <2>1, <2>2
    <2>4. Tail(Pending) = [i \in 1 .. n - 1 |-> Pending[i + 1]]
        BY <2>1, <2>2, TailFunction
    <2> QED
        BY <2>2, <2>3, <2>4
<1>13. Fifo!Recv
    BY <1>2, <1>9, <1>12 DEF Fifo!Recv
<1> QED
    BY <1>13 DEF Fifo!Next

(***************************************************************************)
(* Refinement: whatever the ring size, the mails and the writers, and      *)
(* however the writers and the reader interleave, the mailbox is a         *)
(* first-in first-out channel of mails.                                    *)
(***************************************************************************)
THEOREM Refinement == Spec => ImplementsFifo
<1>1. Init => Fifo!Init
    BY DEF Init, Fifo!Init, Pending
<1>2. RingInv /\ [Next]_vars => [Fifo!Next]_(Fifo!fifoVars)
    <2> SUFFICES ASSUME RingInv, [Next]_vars
                 PROVE  Fifo!Next \/ UNCHANGED Fifo!fifoVars
        OBVIOUS
    <2>1. CASE \E w \in Writers, m \in Mails : SendBegin(w, m)
        BY <2>1, FifoStutter DEF SendBegin
    <2>2. CASE WriteRefused \/ WriteAdmitted \/ WriteHeader \/ WriteBody
        BY <2>2, FifoStutter DEF WriteRefused, WriteAdmitted, WriteHeader, WriteBody
    <2>3. CASE PushTail
        BY <2>3, PushTailSends
    <2>4. CASE ReadHeader
        BY <2>4, FifoStutter DEF ReadHeader
    <2>5. CASE ReadBody
        BY <2>5, ReadBodyReceives
    <2>6. CASE UNCHANGED vars
        BY <2>6, FifoStutter DEF vars
    <2> QED
        BY <2>1, <2>2, <2>3, <2>4, <2>5, <2>6 DEF Next, WriterStep, ReaderStep
<1> QED
    BY <1>1, <1>2, RingInvariant, PTL DEF Spec, ImplementsFifo, Fifo!Spec

=============================================================================
