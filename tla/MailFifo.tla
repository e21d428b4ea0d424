------------------------------ MODULE MailFifo ------------------------------
(***************************************************************************)
(* What a mailbox promises: a first-in first-out channel of mails.  A      *)
(* writer's mail is either queued as a whole or refused as a whole         *)
(* (-EAGAIN, nothing changes); the reader gets the queued mails one at a   *)
(* time, in the order in which they were queued.  Module Mailbox, the ring *)
(* in shared memory, is shown to implement this module.                    *)
(***************************************************************************)
EXTENDS Sequences

CONSTANT Mails         \* the mails a reader can be handed

VARIABLES
    fifo,              \* mails queued and not yet read
    delivered          \* mails read so far

fifoVars == <<fifo, delivered>>

Init ==
    /\ fifo = <<>>
    /\ delivered = <<>>

Send(m) ==
    /\ fifo' = Append(fifo, m)
    /\ UNCHANGED delivered

Recv ==
    /\ fifo # <<>>
    /\ delivered' = Append(delivered, Head(fifo))
    /\ fifo' = Tail(fifo)

Next == (\E m \in Mails : Send(m)) \/ Recv

Spec == Init /\ [][Next]_fifoVars

=============================================================================
