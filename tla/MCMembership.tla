---------------------------- MODULE MCMembership ----------------------------
(***************************************************************************)
(* An instance of ReadIndex for TLC, in three settings.                    *)
(***************************************************************************)
EXTENDS ReadIndex, TLC

CONSTANTS s1, s2, s3, s4

Alike == {p \in Permutations({s1, s2, s3, s4}) : p[s1] \in {s1, s2} /\ p[s2] \in {s1, s2}}

(* Two rivals, three terms: each may change the members behind the other.  *)
Changes == [server |-> {s1, s2, s3, s4}, initialMembers |-> {s1, s2, s3, s4},
            firstLeader |-> s1, minMembers |-> 3, mayCampaign |-> {s1, s2},
            maxTerm |-> 3, maxLog |-> 3, maxReads |-> 0, maxRestarts |-> 0, restarts |-> 0]

(* A read is pending while members leave and come back and a rival wins.   *)
Reads == [Changes EXCEPT !.server = {s1, s2, s3}, !.initialMembers = {s1, s2, s3},
                         !.minMembers = 2, !.maxTerm = 2, !.maxLog = 4, !.maxReads = 1]

(* The same, shorter, with a restart. *)
ReadsAndRestart == [Reads EXCEPT !.firstLeader = Nobody, !.maxLog = 3, !.maxRestarts = 1]

AllSettings == {Changes, Reads, ReadsAndRestart}
=============================================================================
