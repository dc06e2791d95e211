------------------------------ MODULE ReadIndex ------------------------------
(***************************************************************************)
(* Reads that do not go through the log (`kvstore/raft.rs`): a leader      *)
(* notes its commit index, asks the members whether it still leads, and    *)
(* answers once a majority has said so and it has applied that much.  The  *)
(* membership may change, and the leader be replaced, at any point.        *)
(*                                                                         *)
(* A probe is read where it is received, and answered there; an answer     *)
(* counts for the reads that were pending when the probe was sent, which   *)
(* their sequence number tells.                                            *)
(***************************************************************************)
EXTENDS Membership

VARIABLES
    reads,              \* the reads pending, by leader, and, as the driver
                        \* notes them: floor, how much had been committed
                        \* anywhere, and led, the highest term that had had a
                        \* leader, when it arrived
    ledTerm             \* Cluster::max_leader_term

MaxReads == env.maxReads            \* bound: reads pending at once

readVars == <<vars, reads, ledTerm>>

(* `check_invariants`, after every event *)
Leaders == ledTerm' = Max({ledTerm} \cup {term'[l] : l \in {s \in Server : role'[s] = "Leader"}})

(* `take_failed_reads`: reads are dropped with the leadership. *)
Pending(rs) == {r \in rs : role'[r.leader] = "Leader" /\ term'[r.leader] = term[r.leader]}

(* `on_read_probe_resp`: members only, and the leader if it is one.        *)
IsConfirmed(l, acks) == IsMajority(acks \cup {l}, Members(l))

(* Mutant of NeedsNoProbe: the leader takes its own word for it. *)
TakesItsOwnWord(l) == TRUE

(* Alone in its cluster, a leader has no one to ask. *)
NeedsNoProbe(l) == Cardinality(Members(l)) = 1

(* `request_read` *)
RequestRead(l) ==
    /\ role[l] = "Leader"
    /\ TermIsSettled(l)
    /\ \A r \in reads : r.id < MaxReads
    /\ MaxReads > 0
    /\ reads' = reads \cup
         {[id |-> 1 + Max({0} \cup {r.id : r \in reads}), leader |-> l,
           index |-> commitIndex[l], floor |-> Max({0} \cup {c.index : c \in chosen}),
           led |-> ledTerm, acks |-> {}, confirmed |-> NeedsNoProbe(l)]}
    /\ UNCHANGED <<vars, ledTerm>>

(* `on_read_probe` at f in the leader's own term: a candidate concedes.    *)
(* Every answer, a repeated one too, has the read weighed again, by the    *)
(* membership of that moment (`on_read_probe_resp`).                       *)
AnswerProbe(r, f) ==
    LET l == r.leader
        acks == r.acks \cup {f}
    IN /\ f \in Members(l) \ {l}
       /\ term[f] = term[l] /\ role[f] # "Leader"
       /\ role' = [role EXCEPT ![f] = "Follower"]
       /\ votes' = [votes EXCEPT ![f] = IF role[f] = "Candidate" THEN {} ELSE @]
       /\ reads' = (reads \ {r}) \cup
            {[r EXCEPT !.acks = acks, !.confirmed = @ \/ IsConfirmed(l, acks)]}
       /\ UNCHANGED <<term, votedFor, log, matchIndex, commitIndex, chosen, env, ledTerm>>

(* `take_ready_reads` *)
ServeRead(r) ==
    /\ r.confirmed
    /\ reads' = reads \ {r}
    /\ UNCHANGED <<vars, ledTerm>>

Next ==
    \/ MemberStep /\ reads' = Pending(reads) /\ Leaders
    \/ \E l \in Server : RequestRead(l)
    \/ \E r \in reads : ServeRead(r) \/ \E f \in Server : AnswerProbe(r, f)

ReadInit ==
    /\ Init
    /\ reads = {}
    /\ ledTerm = IF env.firstLeader = Nobody THEN 0 ELSE 1

ReadSpec == ReadInit /\ [][Next]_readVars

-----------------------------------------------------------------------------
(* A read that may be answered misses nothing that was committed, anywhere, *)
(* before it arrived, even if its leader has been replaced, is being        *)
(* removed, or counts by a membership that others have left behind.         *)
ReadsAreFresh == \A r \in reads : r.confirmed => r.index >= r.floor

(* A leader that a later term had already replaced when the read arrived   *)
(* answers nothing (`check_reads`, read_by_deposed_leader): the driver's   *)
(* rule raises no false alarm, although nothing need have been written     *)
(* since.                                                                  *)
DeposedAnswerNothing == \A r \in reads : r.confirmed => r.led <= term[r.leader]
=============================================================================
