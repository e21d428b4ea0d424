----------------------------- MODULE MCMailbox ------------------------------
(***************************************************************************)
(* Mailbox on a ring of five words.  The mails have no body, one that is   *)
(* not a multiple of four bytes, one of two words, and one that never fits *)
(* (its eight bytes of overhead and the reserved word exceed the ring).    *)
(***************************************************************************)
EXTENDS Mailbox

MCSize == 20

MCResidue == <<255, 255, 255, 255>>

MCWord(n) == <<n, 0, 0, n>>

MCMails == {
    [uid |-> 10,  size |-> 0,  words |-> <<>>],
    [uid |-> 7,   size |-> 6,  words |-> <<MCWord(1), MCWord(2)>>],
    [uid |-> 256, size |-> 8,  words |-> <<MCWord(3), MCWord(4)>>],
    [uid |-> 5,   size |-> 16, words |-> <<MCWord(5), MCWord(6), MCWord(7), MCWord(8)>>] }

=============================================================================
