----------------------------- MODULE MCDecoder ------------------------------
(***************************************************************************)
(* Decoder for TLC: one file, with a control thread, a thread that feeds   *)
(* frames, slices and searches, and a thread that waits for statuses and   *)
(* start codes.                                                            *)
(***************************************************************************)
EXTENDS Decoder, TLC

CONSTANTS f1, a, b, c

OneFile == [t \in Threads |-> f1]

Team == (a :> {"CREATE", "DESTROY", "CLOSE"}) @@ (b :> {"DECODE", "SLICE", "SEARCH"})
        @@ (c :> {"STATUS", "SC"})

=============================================================================
