------------------------------- MODULE MCWorld -------------------------------
(***************************************************************************)
(* Small worlds for TLC, in four settings.                                 *)
(***************************************************************************)
EXTENDS World, Integers, TLC

CONSTANTS s1, s2, s3, s4, k1

(* Fuel that no run of these settings can use up: all delays are at least  *)
(* 1, so the few things that can be queued at a time come round at most    *)
(* once in each of the at most 8 instants.  What is left of such fuel does *)
(* not matter to what happens next.                                        *)
Plenty == 1000

(* Ids matter by their order only, and only while what they name is queued. *)
Rank(id) == Cardinality({e \in sched.queue : e.id < id})
Ranked == <<sched.now,
            {<<e.time, Rank(e.id), e.id \in sched.cancelled, e.event>> : e \in sched.queue},
            [n \in Server |-> IF deadline[n] = Unset THEN -1 ELSE Rank(deadline[n])],
            [n \in Server |-> {Rank(id) : id \in waits[n]}],
            up, blocked, slow, views, recovered, reaped, finished, incomplete,
            IF MaxEvents < Plenty THEN events ELSE 0, env>>

(* Servers crash, their disks fail, and each resets its timer as it likes. *)
Crashes == [server |-> {s1, s2, s3}, client |-> {}, firstMembers |-> {s1, s2, s3},
            fault |-> {"crashes"}, allowQuorumLoss |-> FALSE,
            windowStart |-> 1, windowEnd |-> 3, stopAt |-> 7, maxEvents |-> Plenty,
            tickDelay |-> {1, 2}, healDelay |-> {1, 2}, restartDelay |-> {1, 2},
            timerDelay |-> {2, 3}, diskDelay |-> {1}, netDelay |-> {1},
            slowFactor |-> 2, copies |-> {1}, maxWrites |-> 2, maxErrors |-> 2,
            maxSends |-> 0, writes |-> 0, errors |-> 0, sends |-> 0]

(* Links are cut, slowed and healed while messages are under way. *)
Links == [Crashes EXCEPT !.client = {k1}, !.fault = {"crashes", "partitions", "slow_links"},
                         !.stopAt = 5, !.tickDelay = {1}, !.timerDelay = {3},
                         !.copies = {0, 1, 2}, !.maxWrites = 0, !.maxErrors = 0,
                         !.maxSends = 2]

(* The membership changes, and with it how many servers may be down; the   *)
(* leader's write of the change may fail.                                  *)
Members == [Crashes EXCEPT !.server = {s1, s2, s3, s4},
                           !.fault = {"crashes", "reconfig", "clock_skew"},
                           !.windowEnd = 4, !.stopAt = 5, !.tickDelay = {1}, !.timerDelay = {4},
                           !.maxWrites = 1, !.maxErrors = 1]

(* The fuel runs out: before the window, in it or in the tail. *)
Starved == [Crashes EXCEPT !.maxEvents = 8, !.timerDelay = {2}, !.maxWrites = 1, !.maxErrors = 1]

AllSettings == {Crashes, Links, Members, Starved}
=============================================================================
