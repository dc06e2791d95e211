----------------------------- MODULE Membership -----------------------------
(***************************************************************************)
(* Membership changes (`kvstore/raft.rs`): entries that name the members,  *)
(* in force on a server from the moment they are in its log until they are *)
(* truncated away, and the elections and commitments counted by them.      *)
(*                                                                         *)
(* A message is read where it is received: a vote request from a server    *)
(* that is still campaigning, an append from one that still leads.  Late   *)
(* and repeated messages, and what is on disk when, are the subject of     *)
(* Raft; here every entry, term and vote is durable at once.               *)
(***************************************************************************)
EXTENDS Integers, Sequences, FiniteSets, FiniteSetsExt, RaftLog

CONSTANTS
    Nobody,             \* no vote
    Settings            \* the clusters and bounds a run starts from

VARIABLES
    term, votedFor, role, votes,
    log,                \* entries name the members, or no one: a no-op
    matchIndex,         \* by leader: what each server has acknowledged
    commitIndex,
    chosen,             \* history: what was declared committed, with its index
    env                 \* the setting, and what is spent of it

ballotVars == <<term, votedFor, role, votes>>
vars == <<ballotVars, log, matchIndex, commitIndex, chosen, env>>

Server == env.server
InitialMembers == env.initialMembers
MinMembers == env.minMembers        \* bound: the smallest membership anyone asks for
MayCampaign == env.mayCampaign      \* bound: the servers whose election timer fires
MaxTerm == env.maxTerm              \* bound: terms
MaxLog == env.maxLog                \* bound: entries
MaxRestarts == env.maxRestarts      \* bound: restarts, all servers together

ASSUME MembershipAssumption == \A e \in Settings :
    /\ DOMAIN e = {"server", "initialMembers", "firstLeader", "minMembers", "mayCampaign",
                   "maxTerm", "maxLog", "maxReads", "maxRestarts", "restarts"}
    /\ IsFiniteSet(e.server) /\ Nobody \notin e.server
    /\ e.firstLeader \in e.server \cup {Nobody}
    /\ e.initialMembers \in (SUBSET e.server) \ {{}}
    /\ e.minMembers \in Nat \ {0}
    /\ {e.maxTerm, e.maxLog, e.maxRestarts} \subseteq Nat

-----------------------------------------------------------------------------
(* `config_at`: the latest membership entry in the log, committed or not.  *)
ConfigIndex(s) == Max({0} \cup {i \in DOMAIN log[s] : log[s][i].members # {}})
Members(s) == IF ConfigIndex(s) = 0 THEN InitialMembers ELSE log[s][ConfigIndex(s)].members

(* Mutant of IsMajority: half of the members will do. *)
IsHalfOf(set, members) == 2 * Cardinality(set \cap members) >= Cardinality(members)

(* `quorum`, `member_votes`: only members count. *)
IsMajority(set, members) == 2 * Cardinality(set \cap members) > Cardinality(members)

(* `step_down`, with the hard state written at once. *)
AdoptTerm(s, t) ==
    /\ term' = [term EXCEPT ![s] = t]
    /\ votedFor' = [votedFor EXCEPT ![s] = IF t > term[s] THEN Nobody ELSE @]
    /\ role' = [role EXCEPT ![s] = "Follower"]
    /\ votes' = [votes EXCEPT ![s] = {}]

(* `on_timer(TIMER_ELECTION)`, `become_candidate`: a server that is not a  *)
(* member never campaigns.                                                 *)
Campaign(s) ==
    /\ s \in MayCampaign
    /\ role[s] # "Leader"
    /\ s \in Members(s)
    /\ term[s] < MaxTerm
    /\ term' = [term EXCEPT ![s] = @ + 1]
    /\ votedFor' = [votedFor EXCEPT ![s] = s]
    /\ role' = [role EXCEPT ![s] = "Candidate"]
    /\ votes' = [votes EXCEPT ![s] = {s}]
    /\ UNCHANGED <<log, matchIndex, commitIndex, chosen, env>>

(* `on_request_vote` at v, and `on_vote_resp` at the candidate c.          *)
RequestVote(v, c) ==
    LET grants == /\ term[v] < term[c] \/ (role[v] # "Leader" /\ votedFor[v] \in {Nobody, c})
                  /\ IsUpToDate(log[v], Len(log[c]), LastTerm(log[c]))
    IN /\ role[c] = "Candidate" /\ v \in Members(c) \ {c}
       /\ term[v] < term[c] \/ (term[v] = term[c] /\ grants /\ v \notin votes[c])
       /\ term' = [term EXCEPT ![v] = term[c]]
       /\ votedFor' = [votedFor EXCEPT ![v] = IF grants THEN c
                                              ELSE IF term[v] < term[c] THEN Nobody ELSE @]
       /\ role' = [role EXCEPT ![v] = IF term[v] < term[c] THEN "Follower" ELSE @]
       /\ votes' = [s \in Server |->
                      IF s = c /\ grants THEN votes[c] \cup {v}
                      ELSE IF s = v /\ term[v] < term[c] THEN {} ELSE votes[s]]
       /\ UNCHANGED <<log, matchIndex, commitIndex, chosen, env>>

(* `become_leader`, with its no-op. *)
Win(s) ==
    /\ role[s] = "Candidate"
    /\ IsMajority(votes[s], Members(s))
    /\ Len(log[s]) < MaxLog
    /\ role' = [role EXCEPT ![s] = "Leader"]
    /\ log' = [log EXCEPT ![s] = Append(@, [term |-> term[s], members |-> {}])]
    /\ matchIndex' = [matchIndex EXCEPT ![s] = [p \in Server |-> 0]]
    /\ UNCHANGED <<term, votedFor, votes, commitIndex, chosen, env>>

FollowCommit(l, n) == Min({commitIndex[l], n})

(* `on_append_entries` at f with the leader's entries up to n, and         *)
(* `on_append_resp` at the leader.                                         *)
AppendEntries(l, f, n) ==
    LET sent == SubSeq(log[l], 1, n)
        held == Len(log[f]) >= n /\ SubSeq(log[f], 1, n) = sent
    IN /\ role[l] = "Leader" /\ f \in Members(l) \ {l}
       /\ term[f] <= term[l]
       /\ AdoptTerm(f, term[l])
       /\ log' = IF held THEN log ELSE [log EXCEPT ![f] = sent]
       /\ matchIndex' = [matchIndex EXCEPT ![l][f] = Max({@, n})]
       /\ commitIndex' = [commitIndex EXCEPT ![f] = Max({@, FollowCommit(l, n)})]
       /\ UNCHANGED <<chosen, env>>

(* Any message, or answer, from a later term. *)
HearOfTerm(s, p) ==
    /\ term[p] > term[s]
    /\ AdoptTerm(s, term[p])
    /\ UNCHANGED <<log, matchIndex, commitIndex, chosen, env>>

-----------------------------------------------------------------------------
(* `sync_peer_maps`: what a server that is no member acknowledged is       *)
(* forgotten, and it starts over when it comes back.                       *)
Acknowledged(l, s, members) ==
    IF s = l THEN Len(log[l]) ELSE IF s \in members THEN matchIndex[l][s] ELSE 0

(* `maybe_commit`, and `step_aside_if_removed`. *)
MaybeCommit(l) ==
    LET held(k) == {s \in Members(l) : Acknowledged(l, s, Members(l)) >= k}
        k == Max({0} \cup {i \in DOMAIN log[l] : IsMajority(held(i), Members(l))})
    IN /\ role[l] = "Leader"
       /\ k > commitIndex[l]
       /\ log[l][k].term = term[l]
       /\ commitIndex' = [commitIndex EXCEPT ![l] = k]
       /\ chosen' = chosen \cup {[index |-> i, entry |-> log[l][i]] : i \in 1..k}
       /\ role' = [role EXCEPT ![l] = IF l \notin Members(l) /\ ConfigIndex(l) <= k
                                      THEN "Follower" ELSE @]
       /\ UNCHANGED <<term, votedFor, votes, log, matchIndex, env>>

(* Mutant of TermIsSettled: a new leader reads and changes members at once. *)
TermIsUnsettled(l) == TRUE

(* An entry of this leader's own term is committed. *)
TermIsSettled(l) == TermAt(log[l], commitIndex[l]) = term[l]

(* The membership in force is committed. *)
NoChangePending(l) == ConfigIndex(l) <= commitIndex[l]

(* `propose_membership`: exactly one server is added or removed.           *)
ProposeMembership(l, members) ==
    /\ role[l] = "Leader"
    /\ TermIsSettled(l)
    /\ NoChangePending(l)
    /\ members # {} /\ Cardinality(members) >= MinMembers
    /\ Cardinality((members \ Members(l)) \cup (Members(l) \ members)) = 1
    /\ Len(log[l]) < MaxLog
    /\ log' = [log EXCEPT ![l] = Append(@, [term |-> term[l], members |-> members])]
    /\ matchIndex' = [matchIndex EXCEPT ![l] =
                         [s \in Server |-> IF s \in members THEN @[s] ELSE 0]]
    /\ UNCHANGED <<ballotVars, commitIndex, chosen, env>>

(* `recover`: the membership is in the log. *)
Restart(s) ==
    /\ env.restarts < MaxRestarts
    /\ env' = [env EXCEPT !.restarts = @ + 1]
    /\ role' = [role EXCEPT ![s] = "Follower"]
    /\ votes' = [votes EXCEPT ![s] = {}]
    /\ commitIndex' = [commitIndex EXCEPT ![s] = 0]
    /\ UNCHANGED <<term, votedFor, log, matchIndex, chosen>>

(* A new cluster, or one whose first leader has just been elected by all.  *)
Init ==
    /\ env \in Settings
    /\ LET first == env.firstLeader
           fresh == first = Nobody
       IN /\ term = [s \in Server |-> IF fresh THEN 0 ELSE 1]
          /\ votedFor = [s \in Server |-> first]
          /\ role = [s \in Server |-> IF s = first THEN "Leader" ELSE "Follower"]
          /\ votes = [s \in Server |-> IF s = first THEN Server ELSE {}]
          /\ log = [s \in Server |-> IF s = first THEN <<[term |-> 1, members |-> {}]>>
                                                 ELSE <<>>]
    /\ matchIndex = [s \in Server |-> [p \in Server |-> 0]]
    /\ commitIndex = [s \in Server |-> 0]
    /\ chosen = {}

MemberStep ==
    \E s \in Server :
      \/ Campaign(s) \/ Win(s) \/ MaybeCommit(s) \/ Restart(s)
      \/ \E members \in SUBSET Server : ProposeMembership(s, members)
      \/ \E p \in Server : \/ RequestVote(s, p) \/ HearOfTerm(s, p)
                           \/ \E n \in 0..Len(log[s]) : AppendEntries(s, p, n)

-----------------------------------------------------------------------------
(* Whichever members each of them counts, no two servers lead one term.    *)
OneLeaderPerTerm == \A s, p \in Server :
    role[s] = "Leader" /\ role[p] = "Leader" /\ term[s] = term[p] => s = p

(* What was committed under one membership is never replaced under another *)
(* (`propose_membership`: one change at a time, and only once an entry of  *)
(* the leader's own term is committed).                                    *)
CommitsAgree == \A c, e \in chosen : c.index = e.index => c = e
=============================================================================
