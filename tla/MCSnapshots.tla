----------------------------- MODULE MCSnapshots -----------------------------
(***************************************************************************)
(* Instances of Snapshots for TLC.                                         *)
(***************************************************************************)
EXTENDS Snapshots, TLC

(* One leader, all of whose log is committed in the end; the node takes    *)
(* snapshots of its own while batches are in flight.                       *)
Compaction == [leaderLog |-> 1 :> <<1, 1, 1, 1>>, leaderCommit |-> 1 :> 4,
               threshold |-> 2, mayLose |-> TRUE, maxInFlight |-> 2,
               maxSnapshots |-> 3, maxCrashes |-> 1, crashes |-> 0]

(* A leader that committed its first entry only, and one that replaced the *)
(* rest, committed its own, and sends its snapshot.                        *)
Install == [Compaction EXCEPT
    !.leaderLog = 1 :> <<1, 1, 1, 1>> @@ 2 :> <<1, 2, 2, 2>>,
    !.leaderCommit = 1 :> 1 @@ 2 :> 3,
    !.maxInFlight = 1, !.maxCrashes = 2]

(* The same, with a second batch in flight when the snapshot arrives. *)
InstallAmongBatches == [Install EXCEPT !.maxInFlight = 2, !.maxSnapshots = 2, !.maxCrashes = 1]

Both == {Compaction, Install}
OnlyAmongBatches == {InstallAmongBatches}
=============================================================================
