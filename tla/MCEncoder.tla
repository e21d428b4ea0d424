----------------------------- MODULE MCEncoder ------------------------------
(***************************************************************************)
(* Encoder for TLC.  Every run names its threads, the file each works on   *)
(* and the calls each makes.                                               *)
(***************************************************************************)
EXTENDS Encoder, TLC

CONSTANTS f1, f2, a, b, c

\* One file: a control thread, a thread that feeds frames and stream
\* buffers, and a thread that waits for statuses and pictures.
OneFile == [t \in Threads |-> f1]

Team == (a :> {"CREATE", "DESTROY", "CLOSE"}) @@ (b :> {"ENCODE", "PUT"})
        @@ (c :> {"STATUS", "REC"})

\* The same, and the file stays open.
Workers == (a :> {"CREATE", "DESTROY"}) @@ (b :> {"ENCODE", "PUT"}) @@ (c :> {"STATUS", "REC"})

\* The same client with two threads, for the runs with signals.
Pair == (a :> {"CREATE", "DESTROY", "ENCODE", "CLOSE"}) @@ (b :> {"STATUS"})

\* Two threads that do not know of each other.
Rivals == (a :> {"CREATE", "ENCODE"}) @@ (b :> {"CREATE", "DESTROY"})

\* Two files with a thread each.
TwoFiles == (a :> f1) @@ (b :> f2)

Neighbours == (a :> {"CREATE", "DESTROY"}) @@ (b :> {"CREATE", "ENCODE", "EXIT"})

\* Channel ids are interchangeable.
ChanSymmetry == Permutations(Chans)

=============================================================================
