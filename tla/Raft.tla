-------------------------------- MODULE Raft --------------------------------
(***************************************************************************)
(* The consensus node of `kvstore/raft.rs`: elections with and without     *)
(* pre-vote, log replication, commitment, and the rule that nothing is     *)
(* said before it is on disk, with pipelined writes whose syncs complete   *)
(* in any order and nodes that crash between any two of them.              *)
(*                                                                         *)
(* The configuration modelled is `snapshot_threshold: 0`, `read_mode: Log` *)
(* and a fixed membership, so `members` is the constant Server.            *)
(*                                                                         *)
(* The write-ahead file is a pair [hard, log].  Every handler that changes *)
(* the term, the vote or the log writes what it changed, so the bytes a    *)
(* batch leaves in the file's cache are the node's memory at the end of    *)
(* the handler; a batch carries that image.  A sync puts every write       *)
(* issued up to its batch on the platter, and a crash keeps some prefix of *)
(* the later ones.  Disks that reorder or corrupt unsynced writes, and     *)
(* disks that fail, are not the business of this module.                   *)
(***************************************************************************)
EXTENDS RaftLog, DurableClaim, FiniteSets

CONSTANTS
    Server,             \* the members of the cluster
    None,               \* no vote, no leader, nobody to answer
    Cmd,                \* client commands
    Noop,               \* the command a new leader appends
    PreVoteEnabled,     \* RaftConfig.pre_vote
    LeaderStickiness,   \* RaftConfig.leader_stickiness
    MaxBatch,           \* RaftConfig.max_batch
    StartDisks,         \* what the disks may hold when the cluster starts
    Links,              \* bound: the pairs of nodes the network connects
    MaxTerm,            \* bound, by node: the last term it campaigns for
    MaxLog,             \* bound: no entry beyond this index
    MaxInFlight,        \* bound, by node: write batches it has in flight
    MaxRestarts         \* bound, by node: how often it crashes

VARIABLES
    role, term, votedFor, leader, votes, preVotes,
    log, commitIndex, nextIndex, matchIndex,
    durableIndex, parked, durableTerm, durableHard,
    batches,            \* Persister.batches, in the order they were issued
    disk,               \* what a node finds if it restarts now, at the least
    msgs,               \* every message ever sent: any may be lost or repeated
    committed,          \* history: what was ever declared committed
    restarts

electionVars == <<role, term, votedFor, leader, votes, preVotes>>
logVars == <<log, commitIndex, committed>>
leaderVars == <<nextIndex, matchIndex>>
durableVars == <<durableIndex, parked, durableTerm, durableHard>>
vars == <<electionVars, logVars, leaderVars, durableVars,
          batches, disk, msgs, restarts>>

Entry == [term : Nat, cmd : Cmd \cup {Noop}]
HardState == [term : Nat, vote : Server \cup {None}]
Image == [hard : HardState, log : Seq(Entry)]

ASSUME ServerAssumption ==
    /\ IsFiniteSet(Server)
    /\ Server # {}
    /\ None \notin Server

ASSUME ConfigAssumption ==
    /\ PreVoteEnabled \in BOOLEAN
    /\ LeaderStickiness \in BOOLEAN
    /\ MaxBatch \in Nat \ {0}
    /\ MaxLog \in Nat
    /\ {MaxTerm, MaxInFlight, MaxRestarts} \subseteq [Server -> Nat]

ASSUME StartAssumption == StartDisks \subseteq [Server -> Image]

-----------------------------------------------------------------------------
(* Small helpers. *)

MinOf(a, b) == IF a <= b THEN a ELSE b
MaxOf(a, b) == IF a >= b THEN a ELSE b

(* Mutant of IsQuorum: half of the members is enough. *)
IsHalf(Q) == Cardinality(Q) >= Cardinality(Server) \div 2

(* `quorum`, `peers` *)
IsQuorum(Q) == Cardinality(Q) >= (Cardinality(Server) \div 2) + 1
Peers(n) == Server \ {n}

(* `hard_state`: what `write_hard_state` would write now. *)
Hard(n) == [term |-> term[n], vote |-> votedFor[n]]

(* Every hard-state write raises the term, or casts the vote of the term,  *)
(* so the order of their `seq` numbers is the order below.                 *)
Le(h, k) ==
    \/ h.term < k.term
    \/ h.term = k.term /\ h.vote \in {None, k.vote}

(* Mutant of Send: without the guard of `send`. *)
SendUnguarded(n, ms) == msgs' = msgs \cup ms

(* `send`: a message is withheld while its term is not on stable storage.  *)
Send(n, ms) == msgs' = msgs \cup {m \in ms : m.term <= durableTerm'[n]}

-----------------------------------------------------------------------------
(* Messages.  The `candidate` and `leader` fields repeat the sender.       *)

RequestVoteMsg(n, p) ==
    [type |-> "RequestVote", from |-> n, to |-> p, term |-> term[n],
     lastIndex |-> Len(log[n]), lastTerm |-> LastTerm(log[n])]

PreVoteMsg(n, p) == [RequestVoteMsg(n, p) EXCEPT !.type = "PreVote"]

VoteResp(n, p, t, granted) ==
    [type |-> "RequestVoteResp", from |-> n, to |-> p, term |-> t, granted |-> granted]

PreVoteRespMsg(n, p, round, granted) ==
    [type |-> "PreVoteResp", from |-> n, to |-> p, term |-> term[n],
     round |-> round, granted |-> granted]

AppendResp(n, p, t, success, match, hint) ==
    [type |-> "AppendEntriesResp", from |-> n, to |-> p, term |-> t,
     success |-> success, match |-> match, hint |-> hint]

(* `send_append_to`, for a leader whose log is lg and whose next index for *)
(* p is next.  Nothing is sent if the log does not reach next - 1.         *)
AppendTo(n, p, lg, next, commit) ==
    IF TermAt(lg, next - 1) = NoTerm THEN {}
    ELSE {[type |-> "AppendEntries", from |-> n, to |-> p, term |-> term[n],
           prev |-> next - 1, prevTerm |-> TermAt(lg, next - 1),
           entries |-> SliceFrom(lg, next, MaxBatch), commit |-> commit]}

(* `broadcast_append` *)
AppendToAll(n, lg, next, commit) ==
    UNION {AppendTo(n, p, lg, next[p], commit) : p \in Peers(n)}

Received(n, m, type) ==
    m.to = n /\ m.type = type /\ m \in msgs /\ <<m.from, n>> \in Links

-----------------------------------------------------------------------------
(* Persistence. *)

Campaign(t) == [kind |-> "Campaign", term |-> t]
Reply(m) == [kind |-> "Reply", msg |-> m]
Quiet == [kind |-> "Quiet"]
LogDurable(from, index, verified, to, t) ==
    [kind |-> "LogDurable", from |-> from, index |-> index,
     verified |-> verified, replyTo |-> to, replyTerm |-> t]

(* `Persister::start`, `write_hard_state` and `write_log_from`: the batch  *)
(* a handler issues as it ends.  from is the first index it writes, one    *)
(* past the log if it writes no entry.                                     *)
NewBatch(n, act, writesHard, from) ==
    [act |-> act, writesHard |-> writesHard, hard |-> Hard(n)',
     log |-> log'[n], from |-> from, synced |-> FALSE]

Issue(n, queue, act, writesHard, from) ==
    /\ Len(queue) < MaxInFlight[n]
    /\ batches' = [batches EXCEPT ![n] =
                     Append(queue, NewBatch(n, act, writesHard, from))]

(* `Persister::clamp_all` *)
Clamp(b, cap) ==
    IF b.act.kind = "LogDurable"
    THEN [b EXCEPT !.act.index = MinOf(@, cap)]
    ELSE b

ClampAll(queue, cap) == [i \in 1..Len(queue) |-> Clamp(queue[i], cap)]

(* The queue once the sync of batch k is confirmed: the batches before it  *)
(* are on the platter too, and still wait for a sync of their own.         *)
QueueWithout(queue, k) ==
    [i \in 1..(Len(queue) - 1) |->
        IF i < k THEN [queue[i] EXCEPT !.synced = TRUE] ELSE queue[i + 1]]

(* What a crash may leave in the file: all that was synced, or any prefix  *)
(* of the writes issued since: the hard state of a batch, then its         *)
(* `set_len`, then its entries one after the other.                        *)
Remains(n) ==
    LET queue == batches[n]
        before(k) == IF k = 1 \/ queue[k - 1].synced THEN disk[n].log
                     ELSE queue[k - 1].log
    IN {disk[n]} \cup
       UNION {LET b == queue[k] IN
                {[hard |-> b.hard, log |-> before(k)]} \cup
                {[hard |-> b.hard, log |-> SubSeq(b.log, 1, i)] :
                    i \in (b.from - 1)..Len(b.log)} :
              k \in {j \in 1..Len(queue) : ~queue[j].synced}}

(* `recover` discards the entries whose term is ahead of the hard state.   *)
Recovered(image) ==
    [image EXCEPT !.log =
        SubSeq(@, 1, LastIndexWithTermAtMost(@, image.hard.term))]

(* The disks a cluster starts from have a history.  A vote was asked for   *)
(* by a candidate whose term was on disk.  The leader of a term, the only  *)
(* one to write an entry of that term, was elected by a majority that      *)
(* wrote its votes down, has its own term on disk, and only ever added to  *)
(* its log: a log with an entry of the term has every earlier one.         *)
WasElected(p, t, start) ==
    /\ t <= start[p].hard.term
    /\ IsQuorum({v \in Server : Le([term |-> t, vote |-> p], start[v].hard)})

HasHistory(start) ==
    /\ \A n \in Server : start[n].hard.vote \in Peers(n)
         => start[n].hard.term <= start[start[n].hard.vote].hard.term
    /\ \A n, p \in Server : \A i \in DOMAIN start[n].log : \A j \in DOMAIN start[p].log :
         i <= j /\ start[n].log[i].term = start[p].log[j].term
           => /\ start[n].log[i] = start[p].log[i]
              /\ TermAt(start[n].log, i - 1) = TermAt(start[p].log, i - 1)
    /\ \A n \in Server : \A i \in DOMAIN start[n].log :
         /\ \E p \in Server : WasElected(p, start[n].log[i].term, start)
         /\ TermAt(start[n].log, i - 1) <= start[n].log[i].term

ASSUME HistoryAssumption ==
    \A d \in StartDisks : HasHistory([n \in Server |-> Recovered(d[n])])

-----------------------------------------------------------------------------
(* Every node starts by recovering whatever is on its disk.                *)
Init ==
    /\ disk \in {[n \in Server |-> Recovered(d[n])] : d \in StartDisks}
    /\ role = [n \in Server |-> "Follower"]
    /\ term = [n \in Server |-> disk[n].hard.term]
    /\ votedFor = [n \in Server |-> disk[n].hard.vote]
    /\ leader = [n \in Server |-> None]
    /\ votes = [n \in Server |-> {}]
    /\ preVotes = [n \in Server |-> {}]
    /\ log = [n \in Server |-> disk[n].log]
    /\ commitIndex = [n \in Server |-> 0]
    /\ nextIndex = [n \in Server |-> [p \in Server |-> 1]]
    /\ matchIndex = [n \in Server |-> [p \in Server |-> 0]]
    /\ durableIndex = [n \in Server |-> Len(disk[n].log)]
    /\ parked = [n \in Server |-> {}]
    /\ durableTerm = [n \in Server |-> disk[n].hard.term]
    /\ durableHard = [n \in Server |-> disk[n].hard]
    /\ batches = [n \in Server |-> <<>>]
    /\ msgs = {}
    /\ committed = {}
    /\ restarts = [n \in Server |-> 0]

(* A crash at any moment, and the restart that follows it.                 *)
Restart(n) ==
    /\ restarts[n] < MaxRestarts[n]
    /\ restarts' = [restarts EXCEPT ![n] = @ + 1]
    /\ \E image \in Remains(n) :
        LET kept == Recovered(image) IN
        /\ disk' = [disk EXCEPT ![n] = kept]
        /\ term' = [term EXCEPT ![n] = kept.hard.term]
        /\ votedFor' = [votedFor EXCEPT ![n] = kept.hard.vote]
        /\ log' = [log EXCEPT ![n] = kept.log]
        /\ durableIndex' = [durableIndex EXCEPT ![n] = Len(kept.log)]
        /\ durableTerm' = [durableTerm EXCEPT ![n] = kept.hard.term]
        /\ durableHard' = [durableHard EXCEPT ![n] = kept.hard]
    /\ role' = [role EXCEPT ![n] = "Follower"]
    /\ leader' = [leader EXCEPT ![n] = None]
    /\ votes' = [votes EXCEPT ![n] = {}]
    /\ preVotes' = [preVotes EXCEPT ![n] = {}]
    /\ commitIndex' = [commitIndex EXCEPT ![n] = 0]
    /\ nextIndex' = [nextIndex EXCEPT ![n] = [p \in Server |-> 1]]
    /\ matchIndex' = [matchIndex EXCEPT ![n] = [p \in Server |-> 0]]
    /\ parked' = [parked EXCEPT ![n] = {}]
    /\ batches' = [batches EXCEPT ![n] = <<>>]
    /\ UNCHANGED <<msgs, committed>>

-----------------------------------------------------------------------------
(* Elections. *)

(* `become_candidate` *)
BecomeCandidate(n) ==
    /\ term[n] < MaxTerm[n]
    /\ term' = [term EXCEPT ![n] = @ + 1]
    /\ votedFor' = [votedFor EXCEPT ![n] = n]
    /\ role' = [role EXCEPT ![n] = "Candidate"]
    /\ leader' = [leader EXCEPT ![n] = None]
    /\ votes' = [votes EXCEPT ![n] = {n}]
    /\ preVotes' = [preVotes EXCEPT ![n] = {}]
    /\ UNCHANGED <<logVars, leaderVars, durableVars, disk, msgs, restarts>>
    /\ Issue(n, batches[n], Campaign(term'[n]), TRUE, Len(log[n]) + 1)

(* `start_pre_vote` in a cluster of more than one. *)
StartPreVote(n) ==
    /\ ~IsQuorum({n})
    /\ role' = [role EXCEPT ![n] = "Follower"]
    /\ leader' = [leader EXCEPT ![n] = None]
    /\ votes' = [votes EXCEPT ![n] = {}]
    /\ preVotes' = [preVotes EXCEPT ![n] = {n}]
    /\ UNCHANGED <<durableVars, term, votedFor>>
    /\ Send(n, {PreVoteMsg(n, p) : p \in Peers(n)})
    /\ UNCHANGED <<logVars, leaderVars, batches, disk, restarts>>

(* `on_timer(TIMER_ELECTION)` *)
ElectionTimeout(n) ==
    /\ role[n] # "Leader"
    /\ term[n] < MaxTerm[n]
    /\ IF PreVoteEnabled /\ ~IsQuorum({n}) THEN StartPreVote(n)
       ELSE BecomeCandidate(n)

(* `become_leader`: the queue is what the caller has left of batches[n].   *)
BecomeLeader(n, queue) ==
    /\ Len(log[n]) < MaxLog
    /\ role' = [role EXCEPT ![n] = "Leader"]
    /\ leader' = [leader EXCEPT ![n] = n]
    /\ nextIndex' = [nextIndex EXCEPT ![n] = [p \in Server |-> Len(log[n]) + 1]]
    /\ matchIndex' = [matchIndex EXCEPT ![n] = [p \in Server |-> 0]]
    /\ log' = [log EXCEPT ![n] = Append(@, [term |-> term[n], cmd |-> Noop])]
    /\ UNCHANGED <<term, votedFor>>
    /\ Issue(n, queue, LogDurable(Len(log[n]) + 1, Len(log[n]) + 1, 0, None, 0),
             FALSE, Len(log[n]) + 1)

(* What a new leader sends. *)
LeaderGreeting(n) == AppendToAll(n, log'[n], nextIndex'[n], commitIndex[n])

(* `on_vote_resp` in the current term. *)
HandleVoteResp(n, m) ==
    /\ Received(n, m, "RequestVoteResp")
    /\ m.term = term[n] /\ role[n] = "Candidate" /\ m.granted
    /\ votes' = [votes EXCEPT ![n] = @ \cup {m.from}]
    /\ UNCHANGED <<preVotes, commitIndex, committed, durableVars, disk, restarts>>
    /\ \/ /\ IsQuorum(votes'[n])
          /\ BecomeLeader(n, batches[n])
          /\ Send(n, LeaderGreeting(n))
       \/ /\ ~IsQuorum(votes'[n])
          /\ UNCHANGED <<role, term, votedFor, leader, log, leaderVars, batches, msgs>>

(* `step_down`; votedFor and leader are left to the caller, which assigns  *)
(* them again.  With the current term it is how a candidate concedes; a    *)
(* follower has no votes to clear.                                         *)
StepDownTo(n, t) ==
    /\ term' = [term EXCEPT ![n] = t]
    /\ role' = [role EXCEPT ![n] = "Follower"]
    /\ votes' = [votes EXCEPT ![n] = {}]

(* A request from a past term is refused by `on_request_vote` and by       *)
(* `on_append_entries`; the term of the answer is what informs the sender. *)
RefuseStale(n, m) ==
    /\ m.term < term[n]
    /\ UNCHANGED durableVars
    /\ \/ Received(n, m, "RequestVote") /\ Send(n, {VoteResp(n, m.from, term[n], FALSE)})
       \/ Received(n, m, "AppendEntries")
          /\ Send(n, {AppendResp(n, m.from, term[n], FALSE, NO_INDEX, NO_INDEX)})
    /\ UNCHANGED <<electionVars, logVars, leaderVars, batches, disk, restarts>>

(* An answer of a later term ends whatever this node was doing, in         *)
(* `on_vote_resp`, `on_append_resp` and `on_pre_vote_resp`.                *)
HandleNewerTermResp(n, m) ==
    /\ m.term > term[n]
    /\ \/ Received(n, m, "RequestVoteResp") /\ UNCHANGED preVotes
       \/ Received(n, m, "AppendEntriesResp") /\ UNCHANGED preVotes
       \/ Received(n, m, "PreVoteResp") /\ preVotes' = [preVotes EXCEPT ![n] = {}]
    /\ StepDownTo(n, m.term)
    /\ votedFor' = [votedFor EXCEPT ![n] = None]
    /\ leader' = [leader EXCEPT ![n] = None]
    /\ UNCHANGED <<logVars, leaderVars, durableVars, disk, msgs, restarts>>
    /\ Issue(n, batches[n], Quiet, TRUE, Len(log[n]) + 1)

(* `on_request_vote` for a current or a later term.  A leader that is      *)
(* sticky ignores later terms; a follower may, depending on the clock.     *)
VoteFree(n, m) == m.term > term[n] \/ votedFor[n] \in {None, m.from}

GrantsVote(n, m) ==
    VoteFree(n, m) /\ IsUpToDate(log[n], m.lastIndex, m.lastTerm)

(* The term or the vote changes: the answer waits for the disk.            *)
HandleVoteRequest(n, m) ==
    /\ Received(n, m, "RequestVote")
    /\ m.term >= term[n]
    /\ m.term > term[n] => ~(LeaderStickiness /\ role[n] = "Leader")
    /\ \/ m.term > term[n]
       \/ GrantsVote(n, m) /\ votedFor[n] # m.from
    /\ IF m.term > term[n]
       THEN StepDownTo(n, m.term) /\ leader' = [leader EXCEPT ![n] = None]
       ELSE UNCHANGED <<term, role, votes, leader>>
    /\ votedFor' = [votedFor EXCEPT ![n] =
                      IF GrantsVote(n, m) THEN m.from
                      ELSE IF m.term > term[n] THEN None ELSE @]
    /\ UNCHANGED <<preVotes, logVars, leaderVars, durableVars, disk, msgs, restarts>>
    /\ Issue(n, batches[n], Reply(VoteResp(n, m.from, m.term, GrantsVote(n, m))),
             TRUE, Len(log[n]) + 1)

(* Mutant of RepeatVoteAnswer: a vote in memory is repeated at once. *)
RepeatVoteAtOnce(n, m) ==
    /\ Received(n, m, "RequestVote")
    /\ m.term = term[n]
    /\ GrantsVote(n, m) => votedFor[n] = m.from
    /\ UNCHANGED durableVars
    /\ Send(n, {VoteResp(n, m.from, m.term, GrantsVote(n, m))})
    /\ UNCHANGED <<electionVars, logVars, leaderVars, batches, disk, restarts>>

(* Nothing changes: the answer is immediate, unless it would repeat a vote *)
(* that is still on its way to disk.                                       *)
RepeatVoteAnswer(n, m) ==
    /\ Received(n, m, "RequestVote")
    /\ m.term = term[n]
    /\ GrantsVote(n, m) => /\ votedFor[n] = m.from
                           /\ durableHard[n] = [term |-> m.term, vote |-> m.from]
    /\ UNCHANGED durableVars
    /\ Send(n, {VoteResp(n, m.from, m.term, GrantsVote(n, m))})
    /\ UNCHANGED <<electionVars, logVars, leaderVars, batches, disk, restarts>>

(* `leader_is_live`: contact within the minimum election timeout is a      *)
(* matter of the clock.                                                    *)
LeaderMayBeLive(n) ==
    IF role[n] = "Leader" THEN {TRUE}
    ELSE IF leader[n] = None THEN {FALSE} ELSE BOOLEAN

(* `on_pre_vote` *)
HandlePreVote(n, m) ==
    /\ Received(n, m, "PreVote")
    /\ UNCHANGED durableVars
    /\ \E live \in LeaderMayBeLive(n) :
         Send(n, {PreVoteRespMsg(n, m.from, m.term,
                    /\ m.term >= term[n]
                    /\ IsUpToDate(log[n], m.lastIndex, m.lastTerm)
                    /\ ~live)})
    /\ UNCHANGED <<electionVars, logVars, leaderVars, batches, disk, restarts>>

(* Mutant of HandlePreVoteResp: the answer may be to an earlier round. *)
PreVoteOfAnyRound(n, m) ==
    /\ Received(n, m, "PreVoteResp")
    /\ m.term <= term[n] /\ preVotes[n] # {} /\ leader[n] = None /\ m.granted
    /\ IF IsQuorum(preVotes[n] \cup {m.from}) THEN BecomeCandidate(n)
       ELSE /\ preVotes' = [preVotes EXCEPT ![n] = @ \cup {m.from}]
            /\ UNCHANGED <<role, term, votedFor, leader, votes, logVars, leaderVars,
                           durableVars, batches, disk, msgs, restarts>>

(* `on_pre_vote_resp`: an answer counts for the round it names.            *)
HandlePreVoteResp(n, m) ==
    /\ Received(n, m, "PreVoteResp")
    /\ m.term <= term[n]
    /\ preVotes[n] # {}
    /\ \/ /\ leader[n] # None
          /\ preVotes' = [preVotes EXCEPT ![n] = {}]
          /\ UNCHANGED <<role, term, votedFor, leader, votes, logVars, leaderVars,
                         durableVars, batches, disk, msgs, restarts>>
       \/ /\ leader[n] = None /\ m.round = term[n] /\ m.granted
          /\ IF IsQuorum(preVotes[n] \cup {m.from}) THEN BecomeCandidate(n)
             ELSE /\ preVotes' = [preVotes EXCEPT ![n] = @ \cup {m.from}]
                  /\ UNCHANGED <<role, term, votedFor, leader, votes, logVars, leaderVars,
                                 durableVars, batches, disk, msgs, restarts>>

-----------------------------------------------------------------------------
(* Replication: the leader's side. *)

(* `broadcast_append` of the heartbeat timer.                              *)
Heartbeat(n) ==
    /\ role[n] = "Leader"
    /\ UNCHANGED durableVars
    /\ Send(n, AppendToAll(n, log[n], nextIndex[n], commitIndex[n]))
    /\ UNCHANGED <<electionVars, logVars, leaderVars, batches, disk, restarts>>

(* `propose` *)
Propose(n, c) ==
    /\ role[n] = "Leader"
    /\ Len(log[n]) < MaxLog
    /\ log' = [log EXCEPT ![n] = Append(@, [term |-> term[n], cmd |-> c])]
    /\ UNCHANGED <<electionVars, durableVars>>
    /\ Issue(n, batches[n], LogDurable(Len(log[n]) + 1, Len(log[n]) + 1, 0, None, 0),
             FALSE, Len(log[n]) + 1)
    /\ Send(n, AppendToAll(n, log'[n], nextIndex[n], commitIndex[n]))
    /\ UNCHANGED <<commitIndex, committed, leaderVars, disk, restarts>>

(* Mutant of QuorumIndex: the leader counts what it has only in memory. *)
QuorumIndexInMemory(n, match, durable) ==
    LET held(s) == IF s = n THEN Len(log[n]) ELSE match[s]
    IN Max({i \in {held(s) : s \in Server} : IsQuorum({s \in Server : held(s) >= i})})

(* `maybe_commit`: the highest index that a quorum holds, by what this     *)
(* leader has on its own disk and what the others acknowledged, and only   *)
(* if that entry is of the leader's own term.                              *)
QuorumIndex(n, match, durable) ==
    LET held(s) == IF s = n THEN durable ELSE match[s]
    IN Max({i \in {held(s) : s \in Server} : IsQuorum({s \in Server : held(s) >= i})})

(* Mutant of CommitAfter: replicas of any term are counted. *)
CommitAnyTerm(n, match, durable) == MaxOf(commitIndex[n], QuorumIndex(n, match, durable))

CommitAfter(n, match, durable) ==
    LET i == QuorumIndex(n, match, durable)
    IN IF i > commitIndex[n] /\ TermAt(log[n], i) = term[n] THEN i ELSE commitIndex[n]

(* Sets the commit index, and remembers for ever what it declares.         *)
CommitTo(n, i) ==
    /\ commitIndex' = [commitIndex EXCEPT ![n] = i]
    /\ committed' = committed \cup
         {[index |-> j, entry |-> log'[n][j], at |-> term'[n]] : j \in (commitIndex[n] + 1)..i}

(* `on_append_resp`, success                                               *)
HandleAppendAck(n, m) ==
    /\ Received(n, m, "AppendEntriesResp")
    /\ m.term = term[n] /\ role[n] = "Leader" /\ m.success
    /\ UNCHANGED <<electionVars, log, durableVars, batches, disk, restarts>>
    /\ LET held == MaxOf(matchIndex[n][m.from], m.match) IN
       /\ matchIndex' = [matchIndex EXCEPT ![n][m.from] = held]
       /\ nextIndex' = [nextIndex EXCEPT ![n][m.from] = held + 1]
       /\ CommitTo(n, CommitAfter(n, matchIndex'[n], durableIndex[n]))
       /\ Send(n, IF held < Len(log[n])
                  THEN AppendTo(n, m.from, log[n], held + 1, commitIndex'[n])
                  ELSE {})

(* Mutant of HandleAppendNack: the leader backs up past the first entry. *)
NackPastTheStart(n, m) ==
    /\ Received(n, m, "AppendEntriesResp")
    /\ m.term = term[n] /\ role[n] = "Leader" /\ ~m.success
    /\ UNCHANGED <<electionVars, logVars, durableVars, batches, disk, matchIndex, restarts>>
    /\ LET next == MinOf(MaxOf(m.hint, 1), nextIndex[n][m.from] - 1) IN
       /\ nextIndex' = [nextIndex EXCEPT ![n][m.from] = next]
       /\ Send(n, AppendTo(n, m.from, log[n], MaxOf(next, 1), commitIndex[n]))

(* Mutant of HandleAppendNack: the leader does not back up. *)
NackWithoutBackup(n, m) ==
    /\ Received(n, m, "AppendEntriesResp")
    /\ m.term = term[n] /\ role[n] = "Leader" /\ ~m.success
    /\ UNCHANGED <<electionVars, logVars, durableVars, batches, disk, leaderVars, restarts>>
    /\ Send(n, AppendTo(n, m.from, log[n], nextIndex[n][m.from], commitIndex[n]))

(* `on_append_resp`, failure: back up to the follower's hint, always by at *)
(* least one, never below the start of the log.                            *)
HandleAppendNack(n, m) ==
    /\ Received(n, m, "AppendEntriesResp")
    /\ m.term = term[n] /\ role[n] = "Leader" /\ ~m.success
    /\ UNCHANGED <<electionVars, logVars, durableVars, batches, disk, matchIndex, restarts>>
    /\ LET next == MaxOf(1, MinOf(MaxOf(m.hint, 1), nextIndex[n][m.from] - 1)) IN
       /\ nextIndex' = [nextIndex EXCEPT ![n][m.from] = next]
       /\ Send(n, AppendTo(n, m.from, log[n], next, commitIndex[n]))

-----------------------------------------------------------------------------
(* Replication: the follower's side.                                       *)

(* What every append of a current or later term does first.                *)
FollowLeader(n, m) ==
    /\ Received(n, m, "AppendEntries")
    /\ m.term >= term[n]
    /\ StepDownTo(n, m.term)
    /\ votedFor' = [votedFor EXCEPT ![n] = IF m.term > term[n] THEN None ELSE @]
    /\ leader' = [leader EXCEPT ![n] = m.from]
    /\ UNCHANGED <<preVotes, leaderVars, disk, restarts>>

(* An answer that announces a new term waits for the term to be on disk.   *)
AnswerAfterTerm(n, m, act, answer) ==
    IF m.term > term[n]
    THEN Issue(n, batches[n], act, TRUE, Len(log[n]) + 1) /\ UNCHANGED msgs
    ELSE Send(n, {answer}) /\ UNCHANGED batches

(* The previous entry does not match: refuse, with a hint.                 *)
RejectAppend(n, m) ==
    /\ FollowLeader(n, m)
    /\ ~Matches(log[n], m.prev, m.prevTerm)
    /\ UNCHANGED <<logVars, durableVars>>
    /\ LET answer == AppendResp(n, m.from, m.term, FALSE, durableIndex[n],
                               ConflictHint(log[n], m.prev))
       IN AnswerAfterTerm(n, m, Reply(answer), answer)

(* Mutant of ReplaceFrom: the durable claim survives the truncation. *)
ReplaceWithoutClamp(n, m, start) ==
    /\ log' = [log EXCEPT ![n] = TruncateFrom(@, start)
                   \o SubSeq(m.entries, start - m.prev, Len(m.entries))]
    /\ UNCHANGED durableVars

(* `truncate` and `append`: the log from start on is replaced by the rest  *)
(* of the append; what was claimed or is in flight above start is clamped. *)
(* When nothing is discarded, start is one past the log and every clamp    *)
(* below leaves its argument as it is.                                     *)
ReplaceFrom(n, m, start) ==
    /\ log' = [log EXCEPT ![n] = TruncateFrom(@, start)
                   \o SubSeq(m.entries, start - m.prev, Len(m.entries))]
    /\ durableIndex' = [durableIndex EXCEPT ![n] = MinOf(@, start - 1)]
    /\ parked' = [parked EXCEPT ![n] = ClampParked(@, start - 1)]
    /\ UNCHANGED <<durableTerm, durableHard>>

(* Mutant of FollowCommit: the whole log is taken to agree with the leader's. *)
FollowCommitUnverified(n, m) ==
    CommitTo(n, MaxOf(commitIndex[n], MinOf(m.commit, Len(log'[n]))))

(* The commit index follows the leader's, as far as the append reached.    *)
FollowCommit(n, m) ==
    CommitTo(n, MaxOf(commitIndex[n],
                      MinOf(m.commit, MinOf(m.prev + Len(m.entries), Len(log'[n])))))

(* Some entry is new: write it, and answer when it is durable.             *)
AcceptAppend(n, m) ==
    /\ FollowLeader(n, m)
    /\ Matches(log[n], m.prev, m.prevTerm)
    /\ LET start == FirstNew(log[n], m.prev, m.entries)
           last == m.prev + Len(m.entries)
       IN /\ start <= last
          /\ ReplaceFrom(n, m, start)
          /\ Issue(n, ClampAll(batches[n], start - 1),
                   LogDurable(start, last, last, m.from, m.term),
                   m.term > term[n], start)
    /\ FollowCommit(n, m)
    /\ UNCHANGED msgs

(* Mutant of ConfirmAppend: acknowledges all that is durable, compared or not. *)
ConfirmUnverified(n, m) ==
    /\ FollowLeader(n, m)
    /\ Matches(log[n], m.prev, m.prevTerm)
    /\ UNCHANGED <<log, durableVars>>
    /\ FirstNew(log[n], m.prev, m.entries) > m.prev + Len(m.entries)
    /\ AnswerAfterTerm(n, m,
         LogDurable(durableIndex[n] + 1, durableIndex[n], Len(log[n]), m.from, m.term),
         AppendResp(n, m.from, m.term, TRUE, durableIndex[n], NO_INDEX))
    /\ FollowCommit(n, m)

(* Every entry is already held: answer with what is durable, as far as     *)
(* this append has shown the logs to agree.                                *)
ConfirmAppend(n, m) ==
    /\ FollowLeader(n, m)
    /\ Matches(log[n], m.prev, m.prevTerm)
    /\ UNCHANGED <<log, durableVars>>
    /\ LET last == m.prev + Len(m.entries)
       IN /\ FirstNew(log[n], m.prev, m.entries) > last
          /\ AnswerAfterTerm(n, m,
                LogDurable(durableIndex[n] + 1, durableIndex[n], last, m.from, m.term),
                AppendResp(n, m.from, m.term, TRUE, MinOf(durableIndex[n], last), NO_INDEX))
    /\ FollowCommit(n, m)

-----------------------------------------------------------------------------
(* `on_storage` with `BatchEvent::Done`: the sync of batch k is confirmed, *)
(* in any order among the batches in flight.                               *)
SyncDone(n, k) ==
    LET b == batches[n][k] IN
    /\ disk' = IF b.synced THEN disk
               ELSE [disk EXCEPT ![n] = [hard |-> b.hard, log |-> b.log]]
    /\ durableHard' = [durableHard EXCEPT ![n] =
                          IF b.writesHard /\ Le(@, b.hard) THEN b.hard ELSE @]
    /\ durableTerm' = [durableTerm EXCEPT ![n] =
                          IF b.writesHard THEN MaxOf(@, b.hard.term) ELSE @]
    /\ UNCHANGED restarts

(* `advance_durable`: the claim, from at, over the ranges that are parked.  *)
Claim(n, at, ranges) ==
    AdvanceDurable(at, ranges, LastIndexWithTermAtMost(log[n], durableTerm'[n]))

(* The claim, and what stays parked, once the term of the batch is durable. *)
TermAdvances(n) == durableTerm'[n] > durableTerm[n]

ClaimAfterTerm(n) ==
    IF TermAdvances(n) THEN Claim(n, durableIndex[n], parked[n]) ELSE durableIndex[n]

ParkedAfterTerm(n) ==
    IF TermAdvances(n) THEN StillParked(ClaimAfterTerm(n), parked[n]) ELSE parked[n]

KeepClaim(n) ==
    /\ durableIndex' = [durableIndex EXCEPT ![n] = ClaimAfterTerm(n)]
    /\ parked' = [parked EXCEPT ![n] = ParkedAfterTerm(n)]

(* `on_durable(Campaign)`: the vote for itself is down, so ask for others. *)
CampaignDurable(n, k) ==
    /\ k \in 1..Len(batches[n])
    /\ batches[n][k].act.kind = "Campaign"
    /\ SyncDone(n, k)
    /\ KeepClaim(n)
    /\ UNCHANGED <<votes, preVotes, commitIndex, committed>>
    /\ LET queue == QueueWithout(batches[n], k)
           asks == {RequestVoteMsg(n, p) : p \in Peers(n)}
           standing == role[n] = "Candidate" /\ batches[n][k].act.term = term[n]
       IN \/ /\ standing /\ IsQuorum(votes[n])
             /\ BecomeLeader(n, queue)
             /\ Send(n, asks \cup LeaderGreeting(n))
          \/ /\ ~(standing /\ IsQuorum(votes[n]))
             /\ batches' = [batches EXCEPT ![n] = queue]
             /\ Send(n, IF standing THEN asks ELSE {})
             /\ UNCHANGED <<role, term, votedFor, leader, log, leaderVars>>

(* `on_durable` for VoteReply, Reply and Quiet.                            *)
ReplyDurable(n, k) ==
    /\ k \in 1..Len(batches[n])
    /\ batches[n][k].act.kind \in {"Reply", "Quiet"}
    /\ SyncDone(n, k)
    /\ KeepClaim(n)
    /\ batches' = [batches EXCEPT ![n] = QueueWithout(@, k)]
    /\ LET act == batches[n][k].act
       IN Send(n, IF act.kind = "Reply" THEN {act.msg} ELSE {})
    /\ UNCHANGED <<electionVars, logVars, leaderVars>>

(* `on_durable(LogDurable)`: park the range, claim what is contiguous,     *)
(* answer the leader, and commit if this node is the leader.               *)
LogIsDurable(n, k) ==
    /\ k \in 1..Len(batches[n])
    /\ batches[n][k].act.kind = "LogDurable"
    /\ SyncDone(n, k)
    /\ batches' = [batches EXCEPT ![n] = QueueWithout(@, k)]
    /\ UNCHANGED <<electionVars, log, leaderVars>>
    /\ LET act == batches[n][k].act
           index == MinOf(act.index, Len(log[n]))
           isNews == index > ClaimAfterTerm(n)
           ranges == ParkedAfterTerm(n) \cup {[from |-> act.from, to |-> index]}
           claim == IF isNews THEN Claim(n, ClaimAfterTerm(n), ranges) ELSE ClaimAfterTerm(n)
       IN /\ durableIndex' = [durableIndex EXCEPT ![n] = claim]
          /\ parked' = [parked EXCEPT ![n] =
                           IF isNews THEN StillParked(claim, ranges) ELSE ParkedAfterTerm(n)]
          /\ Send(n, IF act.replyTo = None THEN {}
                     ELSE {AppendResp(n, act.replyTo, act.replyTerm, TRUE,
                                      MinOf(claim, act.verified), NO_INDEX)})
    /\ CommitTo(n, IF role[n] = "Leader"
                   THEN CommitAfter(n, matchIndex[n], durableIndex'[n])
                   ELSE commitIndex[n])

-----------------------------------------------------------------------------
Next ==
    \E n \in Server :
        \/ ElectionTimeout(n)
        \/ Heartbeat(n)
        \/ \E c \in Cmd : Propose(n, c)
        \/ Restart(n)
        \/ \E k \in 1..Len(batches[n]) :
              \/ CampaignDurable(n, k)
              \/ ReplyDurable(n, k)
              \/ LogIsDurable(n, k)
        \/ \E m \in msgs :
              \/ RefuseStale(n, m)
              \/ HandleNewerTermResp(n, m)
              \/ HandleVoteRequest(n, m)
              \/ RepeatVoteAnswer(n, m)
              \/ HandleVoteResp(n, m)
              \/ HandlePreVote(n, m)
              \/ HandlePreVoteResp(n, m)
              \/ RejectAppend(n, m)
              \/ AcceptAppend(n, m)
              \/ ConfirmAppend(n, m)
              \/ HandleAppendAck(n, m)
              \/ HandleAppendNack(n, m)

Spec == Init /\ [][Next]_vars

(* The answers to appends that p gave for index i. *)
AnswersFrom(p, i) ==
    {m \in msgs : m.type = "AppendEntriesResp" /\ m.from = p /\ m.match = i}

(* Timers keep firing, disks finish what they are given, and the network   *)
(* delivers: a heartbeat repeats what was lost, so a link that is not dead *)
(* cannot go on delivering one answer and never another.  Which request a  *)
(* node serves next is the network's choice.                               *)
Fairness == \A n \in Server :
    /\ WF_vars(ElectionTimeout(n))
    /\ SF_vars(Heartbeat(n))
    /\ WF_vars(\E k \in 1..Len(batches[n]) : CampaignDurable(n, k))
    /\ WF_vars(\E k \in 1..Len(batches[n]) : ReplyDurable(n, k))
    /\ WF_vars(\E k \in 1..Len(batches[n]) : LogIsDurable(n, k))
    /\ WF_vars(\E m \in msgs : HandleVoteRequest(n, m))
    /\ WF_vars(\E m \in msgs : RepeatVoteAnswer(n, m))
    /\ WF_vars(\E m \in msgs : HandleVoteResp(n, m))
    /\ WF_vars(\E m \in msgs : HandlePreVote(n, m))
    /\ WF_vars(\E m \in msgs : HandlePreVoteResp(n, m))
    /\ WF_vars(\E m \in msgs : HandleNewerTermResp(n, m))
    /\ WF_vars(\E m \in msgs : RejectAppend(n, m))
    /\ WF_vars(\E m \in msgs : AcceptAppend(n, m))
    /\ WF_vars(\E m \in msgs : ConfirmAppend(n, m))
    /\ \A p \in {q \in Peers(n) : <<q, n>> \in Links} : \A i \in 0..MaxLog :
         /\ WF_vars(\E m \in AnswersFrom(p, i) : HandleAppendAck(n, m))
         /\ WF_vars(\E m \in AnswersFrom(p, i) : HandleAppendNack(n, m))

FairSpec == Spec /\ Fairness

-----------------------------------------------------------------------------
(* Properties. *)

VoteMsgs == [type : {"RequestVote", "PreVote"}, from : Server, to : Server,
             term : Nat, lastIndex : Nat, lastTerm : Nat]
VoteRespMsgs == [type : {"RequestVoteResp"}, from : Server, to : Server,
                 term : Nat, granted : BOOLEAN]
PreVoteRespMsgs == [type : {"PreVoteResp"}, from : Server, to : Server,
                    term : Nat, round : Nat, granted : BOOLEAN]
AppendMsgs == [type : {"AppendEntries"}, from : Server, to : Server, term : Nat,
               prev : Nat, prevTerm : Nat, entries : Seq(Entry), commit : Nat]
AppendRespMsgs == [type : {"AppendEntriesResp"}, from : Server, to : Server,
                   term : Nat, success : BOOLEAN, match : Nat, hint : Nat]
Message == VoteMsgs \cup VoteRespMsgs \cup PreVoteRespMsgs \cup AppendMsgs \cup AppendRespMsgs

Act == [kind : {"Campaign"}, term : Nat]
       \cup [kind : {"Reply"}, msg : VoteRespMsgs \cup AppendRespMsgs]
       \cup [kind : {"Quiet"}]
       \cup [kind : {"LogDurable"}, from : Nat, index : Nat, verified : Nat,
             replyTo : Server \cup {None}, replyTerm : Nat]
Batch == [act : Act, writesHard : BOOLEAN, hard : HardState, log : Seq(Entry),
          from : Nat \ {0}, synced : BOOLEAN]

(* Type correctness of a node's fields, of its write queue and of the      *)
(* network: the shapes declared in `struct Raft`, `Batch` and `RaftMsg`.   *)
TypeOK ==
    /\ role \in [Server -> {"Follower", "Candidate", "Leader"}]
    /\ term \in [Server -> Nat]
    /\ votedFor \in [Server -> Server \cup {None}]
    /\ leader \in [Server -> Server \cup {None}]
    /\ votes \in [Server -> SUBSET Server]
    /\ preVotes \in [Server -> SUBSET Server]
    /\ log \in [Server -> Seq(Entry)]
    /\ commitIndex \in [Server -> Nat]
    /\ nextIndex \in [Server -> [Server -> Nat \ {0}]]
    /\ matchIndex \in [Server -> [Server -> Nat]]
    /\ durableIndex \in [Server -> Nat]
    /\ parked \in [Server -> SUBSET [from : Nat, to : Nat]]
    /\ durableTerm \in [Server -> Nat]
    /\ durableHard \in [Server -> HardState]
    /\ batches \in [Server -> Seq(Batch)]
    /\ disk \in [Server -> Image]
    /\ msgs \subseteq Message
    /\ restarts \in [Server -> Nat]

Granted(v, c, t) == VoteResp(v, c, t, TRUE) \in msgs

(* The nodes that led term t: those that lead it now, and those that have  *)
(* ever sent an append in it, crashed since or not.                        *)
LeadersOf(t) ==
    {n \in Server : role[n] = "Leader" /\ term[n] = t}
    \cup {m.from : m \in {a \in msgs : a.type = "AppendEntries" /\ a.term = t}}

(* At most one node ever leads a term, whatever crashed and forgot what    *)
(* between two votes: the promise of `become_leader`.                      *)
ElectionSafety == \A t \in {m.term : m \in msgs} \cup {term[n] : n \in Server} :
    \A p, q \in LeadersOf(t) : p = q

(* A vote that was announced is on the voter's disk, or the disk is past   *)
(* that term: no crash can make `on_request_vote` grant a second one.      *)
VotesAreDurable == \A m \in msgs :
    m.type = "RequestVoteResp" /\ m.granted
        => Le([term |-> m.term, vote |-> m.to], disk[m.from].hard)

(* No node has spoken in a term its disk has not heard of (`send`).        *)
TermsAreDurable == \A m \in msgs : m.term <= disk[m.from].hard.term

(* `durable_index` never claims more than the platter holds, and what it   *)
(* claims recovery keeps: the term that authorised it is there too.        *)
DurableClaimIsTrue == \A n \in Server :
    LET d == durableIndex[n] IN
    /\ d <= Len(log[n]) /\ d <= Len(disk[n].log)
    /\ \A i \in 1..d : /\ disk[n].log[i] = log[n][i]
                       /\ log[n][i].term <= disk[n].hard.term

(* Two logs, in memory or on disk, that agree on the term of an index      *)
(* agree on everything up to it (`matches`, checked by `on_append_entries`). *)
LogMatching ==
    LET logs == {log[n] : n \in Server} \cup {disk[n].log : n \in Server}
    IN \A a, b \in logs : \A i \in DOMAIN a \cap DOMAIN b :
         a[i].term = b[i].term => SubSeq(a, 1, i) = SubSeq(b, 1, i)

(* While a follower is still in the term it acknowledged, its disk holds   *)
(* the leader's log as far as the acknowledgement went (`on_durable`).     *)
AcksAreBacked == \A m \in msgs :
    (m.type = "AppendEntriesResp" /\ m.success /\ term[m.from] = m.term
        /\ role[m.to] = "Leader" /\ term[m.to] = m.term)
    => \A i \in 1..m.match : /\ i \in DOMAIN disk[m.from].log
                            /\ i \in DOMAIN log[m.to]
                            /\ disk[m.from].log[i] = log[m.to][i]

(* Nodes never apply different entries at one index, before or after any   *)
(* crash (`take_applied` follows the commit index).                        *)
StateMachineSafety == \A c, d \in committed : c.index = d.index => c.entry = d.entry

(* Every leader from the committing term on holds what was committed, the  *)
(* election restriction of `is_up_to_date` and the own-term rule of        *)
(* `maybe_commit` together.                                                *)
LeaderCompleteness == \A c \in committed : \A n \in Server :
    role[n] = "Leader" /\ term[n] >= c.at
        => c.index \in DOMAIN log[n] /\ log[n][c.index] = c.entry

(* What was committed is on the disks of a majority, now and after any     *)
(* crash: the durability a client's acknowledgement stands for.            *)
CommittedIsDurable == \A c \in committed :
    IsQuorum({s \in Server : c.index \in DOMAIN disk[s].log
                              /\ disk[s].log[c.index] = c.entry})

(* Under pre-vote, a node stands for a term only after a majority answered *)
(* that an election was warranted in the term it comes from, and in no     *)
(* other round (`on_pre_vote_resp`).                                       *)
ElectionsAreWarranted == \A n \in Server : PreVoteEnabled /\ role[n] = "Candidate" =>
    IsQuorum({n} \cup {m.from : m \in {a \in msgs :
        a.type = "PreVoteResp" /\ a.to = n /\ a.granted /\ a.round = term[n] - 1}})

(* The nodes that some other node can reach. *)
Reached == {n \in Server : \E p \in Peers(n) : <<p, n>> \in Links}

(* Once the elections are over, every node that can be reached comes to    *)
(* hold and to have committed one and the same log: no answer is withheld  *)
(* for ever for want of a durable term (`send`), and no repair of a log    *)
(* goes round in circles (`conflict_hint`, `on_append_resp`).              *)
Converges == <>[](\A n \in Reached :
    log[n] # <<>> /\ commitIndex[n] = Len(log[n]) /\ \A p \in Reached : log[p] = log[n])

(* A running node never truncates what it has committed: `truncate` counts *)
(* `truncated_committed`, which "must stay zero".                          *)
NoCommittedTruncation == [][
    \A n \in Server : restarts'[n] = restarts[n] =>
        \A i \in 1..commitIndex[n] : i \in DOMAIN log'[n] /\ log'[n][i] = log[n][i]]_vars
=============================================================================
