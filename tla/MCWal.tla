-------------------------------- MODULE MCWal --------------------------------
(***************************************************************************)
(* Instances of Wal for TLC.                                               *)
(***************************************************************************)
EXTENDS Wal, TLC

Of(terms) == [i \in DOMAIN terms |-> [term |-> terms[i]]]

(* The leader of term 2 had one more entry than the node; the leader of    *)
(* term 3 never saw it; that of term 4 did, and not those of term 3.       *)
Leaders == 1 :> Of(<<1>>) @@ 2 :> Of(<<1, 2>>) @@ 3 :> Of(<<1, 3, 3>>) @@ 4 :> Of(<<1, 2, 4>>)

(* The node is at term 2 and holds the first entry. *)
File == [slots |-> (0 :> [seq |-> 2, term |-> 2, vote |-> None]
                    @@ 1 :> [seq |-> 1, term |-> 1, vote |-> None]),
         cells |-> Of(<<1>>)]

Device(lose, tear, reorder, rejects, inFlight, crashed) ==
    [lose |-> lose, tear |-> tear, reorder |-> reorder, maxErrors |-> rejects,
     maxInFlight |-> inFlight, maxCrashes |-> crashed, crashes |-> 0]

(* A crash applies every write that was issued, in order. *)
Ordered == Device(FALSE, FALSE, FALSE, 0, 3, 2)

(* One operation is rejected, and the node hears of it later. *)
Rejecting == Device(FALSE, FALSE, FALSE, 1, 2, 1)

(* Writes no sync has covered are lost, torn and reordered; the node waits *)
(* for each batch.                                                         *)
Hostile == Device(TRUE, TRUE, TRUE, 0, 1, 2)

(* Writes are torn, and two batches are in flight. *)
Tearing == Device(FALSE, TRUE, FALSE, 0, 2, 1)

AllButTearing == {Ordered, Rejecting, Hostile}
OnlyTearing == {Tearing}
=============================================================================
