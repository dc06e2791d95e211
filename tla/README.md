# simkv: a TLA+ development of the key-value store and its simulator

`simkv` is a replicated key-value store written to be run inside a deterministic
simulator: every source of nondeterminism (network, disk, clock, faults) is a simulated
one, and checkers watch the run. This directory models the store, from the Raft node of
`kvstore/raft.rs` up to its clients, the simulated world it runs in and two of the checkers
that judge it; model-checks the models on small instances with TLC; and proves theorems
about the Raft node, membership changes, reads, snapshots, the key-value server and the
simulated world, for clusters of any size, with TLAPS.

## Inventory

| Part | State it keeps | Operations | Hard because |
| --- | --- | --- | --- |
| Raft node, `kvstore/raft.rs` | role, term, vote, leader, votes, log, commit index, next and match index, durable claims, write batches in flight | `on_message`, `on_timer`, `on_storage`, `propose`, `recover` | nothing may be said before it is on disk; syncs complete in any order; a crash falls between any two steps |
| Log, `kvstore/log.rs` | entries, snapshot boundary, byte offsets | append, truncate, compact, match, compare | election restriction and repair rest on it |
| Write-ahead file, `kvstore/log.rs`, `raft.rs` | two hard-state slots, then records | slot write, `set_len`, record write, recovery scan | writes are lost, torn, reordered or rejected |
| Snapshots, `raft.rs` | two snapshot files, the blob to send, the in-flight flag | take, install, adopt | compaction may only follow durability; installs race local snapshots and batches |
| Membership, `raft.rs` | configuration in force and the entry it comes from | propose a change, revert on truncation, step aside | a change is in force before it is committed |
| ReadIndex, `raft.rs` | pending reads, probe acknowledgements | request, probe, confirm, serve | a deposed leader must not serve |
| Server, `kvstore/server.rs` | map, sessions, waiting requests and reads | request, apply, reply, adopt a snapshot, recover | retries, replies to the wrong request |
| Client, `harness/workload.rs` | operation in flight, timers, believed values | begin, attempt, reply, timeout, retry, give up, stop | outcomes may stay unknown; late replies |
| Simulator, `simcore/`, `sim-io/` | disk caches, links, event heap, timers | write, sync, crash, send, deliver, fire | it is the environment of all of the above |
| Driver, `harness/cluster.rs`, `simcore/faults.rs` | who is up, pending restarts and heals, the fault window | tick, inject, crash, restart, reap, recover, stop | delayed events of one fault meet the next |
| Linearizability checker, `checker/linearizability.rs` | list, memo, stack, budget | lift, undo, accept, reject, give up | a wrong oracle hides a wrong program, or accuses a right one |
| Invariant checker, `checker/invariants.rs` | watermarks, entries and leaders on record | a sweep after every event | what watermarks skip must have been seen |
| Durability checkers, sweep, shrink, replay | reports, seeds, candidates | run once, after the fact | drivers only |

Interaction: the driver pops an event from the simulator's queue and calls a node's handler
with a message, a timer or a storage completion; the handler runs to its end, changes the
node, issues writes and sends messages, and never waits. What must wait for the disk is put
in a `Batch` with the action to take once its sync is confirmed (`Persist`). That is why a
handler is one TLA+ action, and why a batch's completion is another. The server wraps a
Raft node: after every event it drains what was committed into its state machine and
answers whoever waits there. After every event the driver shows all servers to the
invariant checker, and at the end the clients' history to the linearizability checker.

What makes each part correct: at most one leader per term and no entry lost once committed
(Raft); a recovered node holds all it ever announced (write-ahead file); a snapshot that
survives stands for all that was compacted away (snapshots); any two majorities that may be
in force together meet (membership); a read misses nothing committed before it arrived
(ReadIndex); clients see one atomic map (server and client); the queue holds what living
servers asked for, and every run ends healed or says that it gave up (world); the oracles
report what is wrong and nothing else (checkers).

## Modules

| Module | Models | Kind |
| --- | --- | --- |
| `RaftLog` | the questions asked of a log: `term_at`, `matches`, `is_up_to_date`, `slice_from`, `truncate_from`, `last_index_with_term_at_most`, the scan for the first new entry, `conflict_hint` | operators |
| `DurableClaim` | `advance_durable` and what `truncate` does to parked ranges | operators |
| `Raft` | the node, the network and the ordered disk | state machine |
| `AgreedLog` | what the rest of the store relies on: one sequence of chosen entries, leaders that hold it, commit indices that move along it | abstract specification |
| `RaftAgreed` | `Raft` implements `AgreedLog` | refinement |
| `Wal` | the write-ahead file of one node on the hostile disk of `simcore/disk.rs` | state machine |
| `Snapshots` | snapshots, compaction, installs and recovery of one node | state machine |
| `Membership` | elections, replication and commitment by changing memberships | state machine |
| `ReadIndex` | reads on top of `Membership` | state machine, composed |
| `KvData` | operations, outcomes, the map | operators |
| `Workload` | the client | state machine |
| `Kv` | the server, on `AgreedLog`, with the clients of `Workload` | state machine, composed |
| `AtomicStore` | what a client is promised; `Kv` implements it | abstract specification |
| `Scheduler` | the event heap | operators |
| `World` | event loop, timers, disks' completions, links, crashes, faults, the driver | state machine, composed |
| `Linearizability` | the search, against the definition | state machine |
| `Observer` | the invariant checker over servers that may do anything | state machine |
| `MCRaft`, `MCWal`, `MCSnapshots`, `MCMembership`, `MCKv`, `MCWorld`, `MCLinearizability`, `MCObserver` | instances and bounds for TLC | instances |
| `RaftElection` | facts about the operators and quorums; `Spec => []TypeOK`; the invariant `VoteInv`, what a step may do for it to hold (`Step`); durable votes and terms, election safety | theorems |
| `RaftClaims` | the invariant `ClaimInv` and `Spec => []DurableClaimIsTrue` | theorems |
| `RaftMatching` | the invariant `MatchInv` and `Spec => []LogMatching`; the invariant `LineInv`: where appends, requests and acknowledgements stand on the lines of history that logs follow | theorems |
| `RaftCommit` | the invariant `CommitInv`; leader completeness, state machine safety, durable commits, no committed truncation; `Spec => ImplementsAgreedLog`, for clusters of more than one node; the invariant `AckInv` and `Spec => []AcksAreBacked` | theorems |
| `MembershipSafety` | the invariant `Explained`; one leader per term, agreed commitments and fresh reads while memberships change | theorems |
| `KvAtomicity` | what `Kv` and `Workload` promise, up to `Spec => IsLinearizable` | theorems |
| `SnapshotsSafety` | the invariants `FilesInv` and `LogInv`; what the log drops is covered, and no synced range is forgotten | theorems |
| `WorldSafety` | the invariants `WorldInv` and `LoopInv`; the queue matches the servers, nobody is forgotten, the tail is quiet and is reached | theorems |

The chain from disk to client: `Wal` and `Snapshots` are about what one node's files give
back, on hostile disks; `Raft` is about a cluster on disks that give back a prefix of what
was issued; `RaftAgreed` shows that it implements `AgreedLog`; `Kv` runs servers on
`AgreedLog` (its consensus steps are `AgreedLog`'s actions, by `INSTANCE`) and shows that
they and the clients implement `AtomicStore`.

Where a question needs several configurations or several sets of bounds, they are records
in a CONSTANT (`Settings`, `Scenarios`, `Profiles`, `Devices`), one of which is picked in
`Init` and kept in a variable (`env`, `profile`, `device`) with what has been spent of it.
A run then covers all of its settings at once. In what follows a setting is named by its
definition in the MC module.

### How `Raft` corresponds to the code

State: `role`, `term`, `votedFor`, `leader`, `votes`, `preVotes` (empty for the code's
`None`), `log`, `commitIndex`, `nextIndex`, `matchIndex`, `durableIndex`, `parked`,
`durableTerm`, `durableHard` are the fields of `struct Raft`. `batches[n]` is
`Persister.batches` in issue order; a batch keeps the action it defers, whether it writes
the hard state, and the image of the file once all of its writes are applied. `disk[n]` is
what a crash leaves at the least. `msgs` holds every message ever sent, so a message may be
delivered never, late, or many times. `committed` remembers all that was ever declared
committed; `restarts` counts crashes.

Actions: one per branch of a handler. `on_timer` is `ElectionTimeout` and `Heartbeat`;
`propose` is `Propose`; `on_request_vote` is `RefuseStale`, `HandleVoteRequest` and
`RepeatVoteAnswer`; `on_vote_resp` is `HandleNewerTermResp` and `HandleVoteResp`; the
pre-vote pair is `HandlePreVote` and `HandlePreVoteResp`; `on_append_entries` is
`RefuseStale`, `RejectAppend`, `AcceptAppend` and `ConfirmAppend`; `on_append_resp` is
`HandleNewerTermResp`, `HandleAppendAck` and `HandleAppendNack`; `on_storage` with a
confirmed sync is `CampaignDurable`, `ReplyDurable` and `LogIsDurable`; a crash followed by
`recover` is `Restart`. `send` withholds a message whose term is not durable, and so does
`Send`.

The file: every handler that changes the term, the vote or the log writes just what it
changed, so the file's cache equals the node's memory whenever a handler has ended, and a
batch's image is that memory. A sync covers everything issued before it; a crash keeps what
was synced and any prefix of the writes issued since (hard state, then `set_len`, then
records). Data is abstract: a command is a model value, a record is its entry.

Left out of `Raft`: the injected defects (`InjectedBug`), statistics, traces and
observations; snapshots, membership changes and ReadIndex, which have modules of their own;
disks that lose, reorder or reject writes, which are the subject of `Wal` and `Snapshots`.

### `AgreedLog` and `RaftAgreed`

`AgreedLog` says what one may rely on above Raft: a leader newer than all before it holds
everything chosen; a leader chooses only by landing on an entry of its own term; whoever
does not lead may replace what it had not committed; a crash forgets. `RaftAgreed` maps
`committed` to the one sequence `chosen`, and role and term to the term led.

### How `Wal` corresponds to the code

One node's file: `file.slots` are the two hard-state slots, `file.cells` the records after
`LOG_REGION`, one cell per index (records are taken to be of one size). `pending` is
`SimFile.pending`; the cache is the file with `pending` applied. `batches` is the
persister's list; a batch that had an operation rejected (`ok` false) will make the node
fail when it hears of it. `WriteHardState` is every path that writes term and vote,
`TakeAppend` an accepted append with `write_log_from`, `IssueSync` and `SyncDone` the two
halves of `on_storage`, `PowerLoss`, `Settle` and `Restart` the crash: the power goes, the
disk settles each unsynced write (landed, lost, torn, in any order), the node recovers.
`Recovered` is `recover`: the newest valid slot, the scan, and the records ahead of the
term left out of the log but not of the file. The other nodes are the constant
`LeaderLog`, the log each term's leader has; the node's own appends as a leader are not
part of this module.

### How `Snapshots` corresponds to the code

One node again, with `m` its memory (log above `snap`, commit index, claim, parked ranges,
batches, which of the two files is next, the in-flight flag) and `d` its files (cells,
pending writes, snapshot files A and B). `OnAppendEntries`, `OnInstallSnapshot`,
`IssueSync` and `SyncDone` are handlers, each ending in `drain`, which takes a local
snapshot when the threshold is reached (`Drain`, `WriteSnapshot`). `SyncDone` covers
`LogDurable`, `SnapshotTaken` and `SnapshotInstalled` of `on_durable`, the last with its
cases: stale, tail kept, everything replaced and the log region reset. `PowerLoss` and
`Restart` are crash and recovery. Hard state is durable at once and nothing is rejected
here; a torn snapshot file fails its CRC and counts as absent.

### How `Membership` and `ReadIndex` correspond to the code

`ConfigIndex` and `Members` are `config_at`: the latest membership entry in the log, or the
initial one; so truncation reverts a change by itself. `Campaign`, `RequestVote`, `Win`,
`AppendEntries`, `HearOfTerm`, `MaybeCommit` are the handlers of `Raft` counted by
membership, `ProposeMembership` is `propose_membership` with its two guards, and a leader
that has committed its own removal steps aside. A message is read where it is received
from a sender that still stands; late messages and deferred persistence are in `Raft`.
`ReadIndex` adds `RequestRead`, `AnswerProbe` and `ServeRead`, drops reads with leadership,
and keeps for each read what the driver notes in `check_reads`: how much was committed
anywhere and which term had a leader when it arrived.

### How `Kv`, `Workload` and `AtomicStore` correspond to the code

`Workload` is `Client`: `Begin`, `RequestTimeout`, `RetryTimer`, `OnReply`, `Stop`, with
`Attempt`, `BackOff`, `GiveUp`, `Finish`, `Think` and `Remember` as what they call. Its
three timers are variables because losing one would silence the client. `Kv` is `KvServer`:
`OnRequest` with its branches (redirect, answer from the session, read by index, join the
waiting, propose), and the Raft events after each of which `Drain` applies, answers those
whose own command came up and releases the others. `InstallSnapshot` and `CrashAndRecover`
rebuild the machine, sessions included; after a crash the image loaded may be one a leader
sent, with more in it than its index says (`OnDisk`). Requests and replies are sets that only grow.
`AtomicStore` promises that an operation takes effect at most once between call and
return; an operation given up on may still take effect later. The refinement mapping is
`Store` in `Kv`: an effect is the first application of a command.

### How `World` corresponds to the code

A step is one turn of `Cluster::run`: pop the earliest live event (`Pops`, `Head1`), count
it against the fuel `max_events`, dispatch it, reap what failed. The turn that finds no fuel
left (`OutOfFuel`) loses its event, sets `incomplete` and breaks the loop, whatever state
the cluster is in; the other ends are an empty queue and the stop event. `OnTimer`,
`OnStorage`, `OnDeliver`, `OnHeal`, `OnRestart`, `OnStop` are the event kinds; `OnTick` is
the injector's tick: one fault of the menu, or none, or, past the window, `Recover`. What a
handler does is abstract (`Handles`): it may reset or disarm its `Deadline`, write, and
send; what it may not do is what the modules above are about. A reconfiguration is a turn of
the leader's handler within the tick, with its writes, sends and timer
(`InjectReconfigure`). `reaped` is history: who went down by a failed disk since the
recovery. The menu's limits, `reap_failed`, the heal and restart events, duplicate and lost
messages, slow links and message latency are as in the code.

### How the checkers' modules correspond to the code

`Linearizability`: a state is a state of the loop in `check_partition`; `Begin` builds the
sorted entries and the linked list, `Linearize`, `PassOver`, `Backtrack` and `Reject` are
the branches of the loop, `GiveUp` its budget. `Init` takes every history of a profile.
Operations of no duration are left out: the network's latency is positive.

`Observer`: the servers append, replace, commit, compact, install, lead, crash and recover
as they like, right or wrong, and `CheckNode` is `check_node`, run over all servers after
every event. `seen`, `settled` and `crimes` record what really happened, against which the
reports are judged. The durable index is left out, the applied index is the commit index,
and it looks after every event (`check_every` 1). `cut` is history too: the lowest index a
leader has replaced in its own log.

## Runs

| Run | Instance | What it shows |
| --- | --- | --- |
| `figure8` | three nodes; s1 and s2 only see s3; terms up to 5 | `TypeOK`, `ElectionSafety`, `LogMatching`, `LeaderCompleteness`, `NoCommittedTruncation`, and `Raft` implements `AgreedLog` (`ImplementsAgreedLog`) |
| `replication` | a leader, a majority that commits, a third node with two batches in flight whose log is stale, or empty as the others'; both members of the majority may crash | `VotesAreDurable`, `TermsAreDurable`, `DurableClaimIsTrue`, `AcksAreBacked`, `CommittedIsDurable`, `StateMachineSafety` |
| `progress` | three nodes of which the third is cut off; the other two have diverged logs; pre-vote and stickiness on, fair | `ElectionsAreWarranted`, `Converges` |
| `power` | one file on three disks: `Ordered`, `Rejecting`, `Hostile` | `NoSplice`, `HardStateSurvives`, `ClaimSurvives` |
| `snapshots` | one node in two settings: `Compaction`, `Install` | `CommitIsInTheLog`, `CompactedIsCovered`, `ClaimCatchesUp`, `ClaimSurvives` |
| `membership` | `Changes` (four servers, three terms), `Reads`, `ReadsAndRestart` (three servers, two terms) | `OneLeaderPerTerm`, `CommitsAgree`, `ReadsAreFresh`, `DeposedAnswerNothing` |
| `kv` | two servers, two clients, five scenarios | `NeverStuck`, `AnswersAreToTheirQuestion`, `WaitingIsOwn`, `MachineIsItsPrefix`, and `Kv` implements `AtomicStore` (`IsLinearizable`) |
| `world` | three servers or four, four settings | `QueueMatchesServers`, `NobodyIsForgotten`, `QuietTail`, `RunEndsHealed` |
| `linearizability` | all histories of five profiles | `VerdictIsRight` |
| `observer` | one or two servers, five settings | `MatchingIsChecked`, `CommittedIsChecked`, `NoFalseAlarms`, `ChangesAreChecked`, `LeadersAreChecked` |
| `slots` | one file, torn writes, two batches in flight | `HardStateSurvives` does not hold |
| `claim` | an install among two batches in flight | `ClaimSurvives` does not hold |

Why the bounds are enough for the cases to happen. Losing a committed entry of an earlier
term needs three nodes and four terms; `figure8` starts after the first two of them, with
the disks those leave behind. A false claim needs two batches of one follower that complete
out of order and a truncation between them (`replication`). Two memberships whose majorities
do not meet need four servers and three leaders in turn (`Changes`, where s1 is the first
leader already). A stale read needs a rival elected while the read is pending, by a
membership the reader has not heard of (`Reads`). A command applied twice needs a retry and
a change of leader (`Retry`), one that arrives late needs a second operation of its client
(`Sessions`), an answer to the wrong client needs two writers and one index (`Rivals`). An
undo in the search that goes wrong needs three overlapping operations, a memo that is too
coarse two values or four operations; `ASmallBudget` makes the search stop in the middle.
A fault's delayed event meets the next fault when delays are as long as two ticks
(`Crashes`, `Links`); a change of membership changes how many may be down with four
slots, and the write of the change may fail (`Members`). In `Starved` the fuel runs out before
the window, in it or after it; the other settings have more than they can use. `Cuts` lets
leaders commit, be verified and then replace what was verified.

Reductions. `kv` and `membership` use symmetry among servers that the settings treat alike,
`observer` among commands, which are only compared. `kv` has a view that forgets replies
their client would ignore; `world` one that replaces event ids by their ranks in the queue,
since only their order matters, and counts events only where the fuel can run out. None of
these runs checks liveness. Deadlock is checked where nothing but the system ends a run; the
other configurations say that their bounds do.

Fairness is assumed in `progress` only: a timer that stays armed fires; a disk answers what
it was given; a message that keeps being sent is delivered in the end. The last is what the
simulated network gives between faults: it drops with a fixed probability, and heartbeats
repeat. Heartbeats need strong fairness only because one that repeats what was already sent
leaves the state of the model as it is, and so is enabled now and again rather than all the
time. Fairness is asked per handler and, for the answers a leader counts, per sender and
value, never for a chosen message. `world` needs none: its runs are finite, so that what
must have happened by the end (`RunEndsHealed`) is an invariant.

What the last two runs show:

- `slots`. The slots take turns by sequence number, whether or not the previous write was
  confirmed. With seq 2 confirmed, seq 3 and seq 4 in flight, seq 4 goes where seq 2 is; a
  crash that tears both leaves nothing newer than seq 1. The comment on `slot_offset`
  promises that only the slot that is not authoritative can be damaged. `Hostile` in
  `power` shows the promise true when writes wait for one another.
- `claim`. A snapshot that replaces the log forgets the parked ranges, not the batches in
  flight; the sync of one of these later raises the claim over entries that are gone.
  With one batch at a time (`Install` in `snapshots`) the claim is kept.

### Where the code differs from its comments

Met while modelling, and kept outside the bounds, or allowed for in the statement, of the
properties above:

- `raft.rs:2404`: `set_len` and the record writes after it are unsynced and may be lost
  separately, so that a crash can leave new records of an older term before old ones of a
  newer term, which the scan accepts. The comment above the call says a crash "cannot leave
  a longer, half-overwritten log behind". `NoSplice` is stated of a disk that keeps what it
  is given.
- `raft.rs:976`: `recover` leaves what it discards in the file; `log.rs:14` says "the file
  is truncated back".
- `raft.rs:2663`: `take_snapshot` replaces the blob at once and the index when the file is
  durable; in between a leader announces the one with the other, while `log.rs:555` calls the
  index the "last log index this image includes". `raft.rs:2603` then takes the image for
  "exactly the snapshot" (`raft.rs:2600`). `MachineIsItsPrefix` allows such an image
  (scenario `Ahead`), and `IsLinearizable` holds in spite of it, because sessions
  recognise the commands that come twice.
- `raft.rs:944`: after a crash between a durable snapshot and the reset of the log region,
  recovery takes records above the snapshot without comparing terms; `log.rs:417` says
  "Terms along a log never decrease".
- `raft.rs:1508`: with one member a read needs no probe, even if the member is somebody else:
  a leader that has appended its own removal from a cluster of two. `raft.rs:1496` says "A
  majority confirms it is still leader". `MinMembers` keeps memberships at two or more.
- `raft.rs:2578`: an installed snapshot replaces the log without counting a truncation, which
  `invariants.rs:19` calls "the only way already-verified entries can change".
  `MatchingIsChecked` leaves installs out.
- `invariants.rs:344`: the completeness rule goes through the committed entries once per leader
  and term (`leader_verified`), and a truncation does not send it back; `invariants.rs:19` says of
  the watermark that it is "reset whenever that node reports a truncation". And
  `invariants.rs:324`: the append-only rule compares lengths; `invariants.rs:10` says it catches
  "overwriting". So a leader that replaces an entry it was found to have is reported by neither.
  `LeadersAreChecked` speaks of what the leader has not cut; setting `Cuts` has leaders that do.
  It also leaves out installs, after which an entry may be recorded below the mark.
- `faults.rs:328`: only crashed members count towards the limit; `faults.rs:12` says "no more
  than a minority is unavailable at once". Cuts come on top.
- `cluster.rs:490`: a heal left over from one partition ends the next one; `faults.rs:75` says
  how long "a partition lasts".
- `durability.rs:335`: `check_convergence` compares every replica with the first only;
  `durability.rs:326` says every two that have applied as much must agree.

## Proofs

`RaftElection` proves `Spec => []TypeOK` for every cluster, bound and configuration that meets
`ServerAssumption`, `ConfigAssumption` and `StartAssumption`. The type invariant is
inductive as it stands; the proof has one lemma per action. It rests on lemmas about the
least and greatest elements of sets of naturals, what the log operators return, and that
the quorum index exists (`QuorumIndexType`). Not mere bookkeeping: it includes that
`nextIndex` never falls to 0 and that `FirstNew` never leaves a gap in the log
(`StartIsInReach`).

The module goes on to prove three of the properties that `figure8` and `replication` check:
`VotesDurable` (`Spec => []VotesAreDurable`), `TermsDurable` (`Spec => []TermsAreDurable`)
and `OneLeaderPerTerm` (`Spec => []ElectionSafety`), from the same assumptions. None of the
three is inductive: that a vote is on the disk says nothing of the batches that may still
overwrite it, and that leaders are unique says nothing of how they came to be. The
strengthening is `VoteInv`, in five parts:

- `Chain`: the hard state on a node's disk, those of its batches in issue order, and the
  one in memory are ordered by `Le` (a later term, or the same term and no vote taken
  back). So a crash, which leaves the disk or an unsynced batch, never takes the disk back.
- `Standing`: a candidate or leader has voted for itself, in every image of its term.
- `Replies`: a grant that waits in the queue is the vote its own batch writes.
- `Spoken`: what was said is at or below the sender's disk, agrees with every batch of its
  term, and a node's grants and appends of one term all name one candidate.
- `Counted`: a counted vote was granted, and a leader, past or present, had a quorum.

Two leaders of a term have a voter in common (`QuorumsIntersect`), who by `Spoken` named
one candidate. The proof is in two halves. The first describes what a step of a node may
do (`Step`: it leaves the others alone; it writes, syncs or crashes; it gives up, stands or
goes on; it says only what is durable) and shows that such a step keeps `VoteInv`;
the second shows, one lemma per action, that the actions of `Raft` are such steps.

The module also proves `CandidatesAreWarranted` (`Spec => []ElectionsAreWarranted`), of
`progress`, with its own invariant, `PreVoteInv`. A tally of pre-votes is not cleared when a
node changes its term, so it may hold grants of an earlier round, and the claim that it only
holds grants of the current one is false. It is true once the node has asked in this round, for
asking clears the tally; and no grant of the round exists before that.

`RaftClaims` proves `ClaimsTrue` (`Spec => []DurableClaimIsTrue`), of `replication`. The
property only speaks of the disk as it is. `ClaimInv` speaks of every image that may yet
replace it, in four parts:

- `Claimed`: an index at or below `durable_index` is `Written`: the disk and every unsynced
  batch hold there the entry that memory holds, and its term is durable.
- `Waiting`: so is an index in a parked range, but for its term.
- `InFlight`: an index in the range of a `LogDurable` batch agrees with that batch and every
  later one; if the batch is on the platter already, synced along with a later one, with
  the disk.
- `Fences`: an unsynced batch begins its writes above every index that is claimed or parked,
  and above those that an earlier batch covers. So a crash between two of its writes, which
  leaves a shorter file, leaves no less than what is claimed.

So a batch whose sync is confirmed makes its range `Written`, in whatever order the
confirmations come, and `truncate` clamps exactly the claims that it makes false. A step is
a `Rewrites`, a `Confirms` or a `Reboots`, each of which keeps `ClaimInv`; one lemma per
action shows that the actions are such steps.

`RaftMatching` proves `LogsMatch` (`Spec => []LogMatching`), of `figure8`. Call an entry at
an index, together with the term of its predecessor, `Known` if some log, some image in a
queue or on a disk, or some append ever sent has it. `MatchInv`:

- `Unique`: what is known at one index in one term is one entry with one predecessor.
- `Authors`: a known entry's term has an author, a node elected by a quorum each of whose
  members is `Bound` (has that vote on disk or is past the term, and can say nothing else),
  and which does not stand for that term any more.
- `LeadersHold`: a leader's log holds all that is known of its term.
- `LeadersAreDurable`, `Asked`, `GrantsAreAsked`: a leader's term, and that of any candidate
  who was voted for, is on its own disk, so that a crash cannot make it stand for the term
  a second time.

Only a leader adds to what is known, one past a log that holds all of its term
(`LeadersHold`); a candidate that becomes leader finds nothing known of its term, because an
author of it would share a voter with it (`Authors`). Matching logs follow (`LogMatchingFollows`): below an
index where two logs have the same term, the highest difference would be between two
predecessors of one known entry.

It then proves `LinesAreKept` (`Spec => []LineInv`), which is about messages rather than a
property of a run. A log is `Coherent` if each of its entries is known to follow the one
before it. All logs are, wherever they are, and two coherent logs that have the same term at
an index are the same up to it. `LineInv` says that terms do not decrease along a log; that
an append ends where its leader's log has the same term; that a candidate asks for votes with
the log it has; that an acknowledgement, sent or still waiting for a sync, answers an append
of its term that reaches as far; and that a leader counts only what was acknowledged to it in
its own term.

`RaftCommit` proves four properties of `figure8` and `replication`: `LeadersAreComplete`
(`Spec => []LeaderCompleteness`), `StateMachinesAgree` (`Spec => []StateMachineSafety`),
`CommitsAreDurable` (`Spec => []CommittedIsDurable`) and `CommitsAreNotTruncated` (`Spec =>
NoCommittedTruncation`). The usual argument, by induction on the terms between the committing
leader and a later one, would be about a history of elections that the state does not keep.
`CommitInv` says the same of one state. It
calls an entry of term t at index i `Closed` when nothing at i or beyond was declared
committed by the leader of t, and a majority has left term t, on disk, without having
acknowledged i and without owing such an answer: then nobody can commit it any more. Whatever
is not closed is `Open`, and of an open entry:

- `Binds`: no coherent log goes past it without it. "Past it" is by the order that
  `is_up_to_date` compares logs by.
- `Tails`: the appends of its term and of later terms agree with it.
- `Holders`: whoever acknowledged it has it, below its `durable_index`; whoever owes an
  acknowledgement has it in memory.
- `Ballots`: if a node that stands for its commitment (`Pledged`) votes for a candidate of a
  later term, that candidate has it.

What is committed is tied to open entries: `Anchors` finds, for each declared entry, one that
a leader declared of its own term and that lies at or above it on every line; `Majorities`,
that a quorum has that one on disk; `Commitments` and `Announced`, that commit indices, in
memory and in appends, stay within what was declared. An entry can be open for a long time
after its term, but it closes before a log without it can be elected past it: a candidate
that wins and lacks it has a quorum of voters, each of whom has left the term and none of whom
was pledged (`ElectionHas`). A crash cannot reopen it, because what makes a node `Past` a term
is on its disk (`ClosedIsKept`).

It also proves `RaftAgrees`: `Spec => ImplementsAgreedLog`, the refinement that
`figure8` checks of a cluster without crashes, here with any number of them. What was declared
committed spells one sequence, without gaps (`Listed`, proved in `CommitsAreListed`) and
without a second opinion (`StateMachineSafety`); that sequence is `Chosen`
(`ChosenSpells`, `OneSpelling`). A follower that commits repeats what was declared
(`FollowerRepeats`), so only a leader's commit changes it. Each kind of step then has a lemma:
a restart is a `Crash`, any other step that does not end in leadership a `Follow`, an election
an `Elect`, a proposal an `Accept`, a leader's commit a `Choose`, and whatever else a leader
does changes nothing that `AgreedLog` shows. The theorem assumes `Cardinality(Server) > 1`. The
mapping remembers the newest term that was led by the appends of its leader, and a node that is
alone sends none, so that the term it led would be forgotten in a crash. That a leader of
others has sent one takes an invariant of its own, `SayInv`: `send` withholds messages until
the term is on disk, but nobody votes for a candidate whose term is not.

Last in `RaftCommit` is `AcksBacked`: `Spec => []AcksAreBacked`, of every acknowledgement to the
leader of a term, also of entries that `CommitInv` says nothing of because they are closed. The
property is about a follower that is in the term it answered in, and is not inductive: it may
have answered from a queue whose later batches are of a later term and replace the entry, and a
crash takes it back to whichever image reached the disk. `AckInv`, proved in
`AcksAreKeptForATerm`, follows the images. What was acknowledged (`Backed`) is in the leader's
log, and as far as each is of the leader's term, in the follower's memory below its
`durable_index`, on its disk, and in every image in flight, none of which starts at or below it.
What will be acknowledged when batch j is durable (`Due`) is in the memory, in the images from j
on and, once a later sync has covered j, on the disk. `QueueStep` says what a step does to a queue
(one batch more, one durable, or a crash), with a lemma per action; `AcksAreKept` has the step. A
new leader has been answered by nobody yet (`FreshLeader`), and one that stays never truncates.

From `RaftMatching` on, the theorems also use `HistoryAssumption`: the disks a cluster starts
from are ones that the code could have left. Every vote on them was asked for by a candidate
whose term was on its own disk (`become_candidate` asks once its batch is durable); terms do
not decrease along a log; a log with an entry of a term has every earlier entry of that term
that any log has, with the same predecessor; and the term of every entry has a node that a
quorum voted for, by what is on their disks. An empty disk satisfies it; so do the disks of
all three runs, on which TLC evaluates it. Without it `LogMatching` may fail in the first
state. Nothing is assumed of what the disks hold beyond that, and nothing counts as committed
at the start: what a cluster declares committed is what its own leaders count.

`MembershipSafety` proves the four safety properties of `membership`, of `ReadSpec`:
`TermsHaveOneLeader` (`OneLeaderPerTerm`), `CommitmentsAgree` (`CommitsAgree`),
`ConfirmedReadsAreFresh` (`ReadsAreFresh`) and `DeposedConfirmNothing` (`DeposedAnswerNothing`),
for any servers and initial membership, from `MembershipAssumption`; the bounds on terms, logs,
reads and restarts are not used. With memberships that change, two majorities need not meet, and
whether they do depends on what was committed when each change was proposed, by leaders and with
logs that may be gone. `Raft` keeps its messages, in which that can be read; `Membership` does
not. So the invariant is `Explained`: there is a history h, with the terms that were led, the
leader, the log and the voters of each, the log with which every vote was cast, and every
commitment with the quorum that acknowledged it, such that

- `HistoryOK(h)`, which speaks of h alone. Every log lies on the lines of leaders (`LinesOK`);
  a majority of the membership in force at its election, none with a better log, voted for each
  leader (`BallotsOK`); each change is one server away from the membership before it, and rests
  on a commitment of its own term after which nothing changed (`ChangesOK`): the guards of
  `propose_membership`; a commitment has a majority of the membership in force (`CommitsOK`); every
  later leader has what was committed (`Complete`).
- `ServersOK(h)` ties the servers to h. Not inductive without `RivalsOK`, that no vote is counted
  twice in a term (a voter that moves on no longer shows whom it voted for), and `Holds`: who
  acknowledged an entry has it, and had it at each later vote, unless a leader in between had not.
- `ReadsOK(h)` does the same for the pending reads.

A candidate that wins has every earlier commitment (`WinnerIsComplete`): suppose not, and take the
first that it lacks. It has what that commitment and the changes before it rest on, so the
memberships that the two sides count are equal or one server apart (`Near`) and their majorities
meet (`Overlap`); a common voter has the entry, by `Holds`, and voted for no log behind its own.
What is committed now, the later leaders there are already have (`CommitIsComplete`): the first
that had not was elected by one who acknowledged it. And two winners of one term, each of which has
every earlier commitment, share a voter (`WinnersOverlap`). For reads: the first leader after a
deposed one was elected with a log that has nothing of a later term than the deposed leader's
(`FirstLater`), so its voters meet every majority of the membership that the deposed leader counts
(`ReadersOverlap`), and they do not acknowledge the probe (`Refuses`).
The two theorems on reads assume `AtLeastTwo`, that nobody
asks for a membership of one: `raft.rs:1508` answers without a probe then, and the property is
false (see the disagreements above). The instances of `membership` satisfy it.

`KvAtomicity` proves the five properties of `kv`, for any servers, clients, keys and scenarios:
`ClientsAreNeverStuck`, `AnswersMatchQuestions`, `WaitersAreServed`, `MachinesArePrefixes` and
`StoreIsAtomic` (`Spec => IsLinearizable`), from `KvTypesKept`. Assumed is only that the markers
`None` and `Noop` are not values of the sets they stand beside (`KvAssumption`, `NoneAssumption`)
and that a scenario's settings have their types; no bound on operations, elections, crashes or
snapshots is used, and no server or client need exist. `Replay`, `EffectsOf` and `MapAt` are
recursive functions, and what they compute is proved by taking a least counterexample (`Least`,
from the well-foundedness of the numbers). The argument for `StoreIsAtomic`:

- A step is one of a few kinds. `ClientMoves` (begins, retries, idles, gives up, finishes) and
  `ServerMoves` (answers at once, reads, proposes, joins, confirms, moves its log, resets) hide
  timers and branches; one lemma per action shows that it is of such a kind.
- `ImageAt(j)`, the machine after j chosen entries, and `Took(j)`, the effects among them, go
  together: the map is the store's version after those effects (`ImagesAreVersions`), and what a
  session remembers was the outcome of an entry that took effect (`SessionsAreDone`). Entries that
  an image already has change nothing when they are applied again (`RepeatsAreHarmless`).
- `ClientInv`, `LogInv`: numbers only grow, one operation per number; what a log holds was asked
  for. `BeganInv`: an entry of an operation that is still open was chosen after it began.
- `TermInv`, `NewestInv`: the newest leader's log has all that is chosen, and an entry of its own
  term is chosen only once it has committed it. So a leader that has committed an entry of its
  term, and is not deposed, has committed all there is (`ReadIndexIsNew`): the condition of
  `request_read` makes a read's index new enough.
- `WaitInv`, `ReadInv`, `ReplyInv`: slots, reads and replies belong to requests; a read that may
  still be served has an index no older than its operation; a definite reply to an attempt that
  is still awaited is one the store may give. `drain` keeps this, for its results
  (`DrainedResult`), its reads (`DrainedReading`) and those it releases.

These make `AtomicInv`; then beginning is `Invoke`, giving up `Abandon`, an answer `Return`, and a
server's step is `TakeEffect` if a chosen entry is new to its session and nothing otherwise. That
a probe is not confirmed for a deposed leader is what `Kv` takes from `ReadIndex`, where it is
proved (`DeposedConfirmNothing`); that the log below is agreed is `RaftAgrees`.

`SnapshotsSafety` proves two of the properties of `snapshots`, for any leaders' logs, thresholds
and bounds that meet `SnapshotsAssumption`, on the disk that loses unsynced writes and on the one
that does not:

- `DroppedIsCovered` (`Spec => []CompactedIsCovered`) from `NewestIsSpared`, the invariant
  `FilesInv`: the file the node knows as the newest holds a snapshot that covers what the log
  dropped; at most one snapshot is under way, and it goes to the other file; once it is synced it
  is in that file, at an index no lower than where the log starts. So a crash can only spoil the
  older file, and what `pick_snapshot_with_source` returns is no older than the newest.
- `NothingIsForgotten` (`ClaimCatchesUp`) from `LogInv`: each entry that is not claimed is in a
  parked range or in a batch in flight, and the first of them is in no parked range. A truncation
  clamps all three alike (`CutFacts`); a synced batch is parked and the claim advances to the next
  gap (`ClaimedFacts`); an installed snapshot either keeps the ranges above it or ends the log at
  its own index (`FreshFacts`). The theorem has `[]CommitIsInTheLog` as a hypothesis: a snapshot
  taken at the commit index would otherwise end a log that was cut below it meanwhile. Nothing in
  `Settings` says that leaders agree on what is committed, which is Raft's to give
  (`CommitsAreNotTruncated` in `RaftCommit`), so this one is checked by TLC on the run's leaders.

`WorldSafety` proves the four properties of `world`: `QueueMatches` (`QueueMatchesServers`),
`DownAreRemembered` (`NobodyIsForgotten`), `TailIsQuiet` (`QuietTail`) and `LoopEndsHealed`
(`RunEndsHealed`), for any settings, from `WorldAssumption` (delays and times are numbers, servers
finitely many) and `UnsetAssumption` (an unarmed deadline is no handle); the bounds on writes,
errors and messages are not used. `WorldInv`:

- `SchedOK`: ids are unique and below `nextId`, and only timers are ever cancelled. So there is a
  first entry, popping it loses nothing but tombstones of timers (`PoppedFacts`), and whatever the
  driver has queued comes.
- `ServersOK`: of each server, the live timers are the one its `Deadline` holds, the queued
  completions are those it waits for, and one that is down has neither. `Asked` says this of any
  scheduler, so that a handler, which resets a timer, then writes, then sends, is followed from
  one to the next (`HandlerStep`).
- `TickOK`: one tick is queued until the recovery and none after it; then whoever is down has a
  restart queued. The recovery brings back everyone, and only a failed disk operation takes one
  down later, with its restart (`Reaped`).
- `StopOK`: the stop event stays queued, at its time, until it ends the run.
- `QuietTail` itself: after the recovery no link is cut or slow, and whoever is down is in `reaped`,
  which only `Reaped` adds to; the recovery leaves nobody down.

All of this holds as long as there is fuel. `LoopInv` says so, and that the loop has given up
exactly when more events than `max_events` were popped, unfinished: the event that found no fuel is
lost, so of what is queued nothing is claimed any more.

`LoopEndsHealed` assumes `Settles`: the window opens before the stop, and from its end the longest
tick leads no further than the stop. The tick that closes the window then comes first, and a loop
that ends has either used up its fuel and says `incomplete`, or finished after the recovery.
`SimConfig` takes the settling and the draining time as they are given, without a check; with its
presets, of seconds against ticks of at most 400 ms, and in the settings of `world`, the assumption
holds. The other three need none.

Model-checked only: liveness (`Converges`), `CommitIsInTheLog` and `ClaimSurvives` of `Snapshots`,
and the properties of `Wal`, `Linearizability` and `Observer`. Liveness and ENABLED are outside the
prover. `CommitIsInTheLog` depends on what leaders agree on, as said above. The other three modules
each do in one step what takes an induction over data to follow, which the prover cannot do: a sync
applies all pending writes in turn (`ApplyAll`), a sweep folds over the servers (`CheckNode`), and a
verdict of the checker is about all orders of a history and a search of any depth.

## Not modelled

- Sweep, shrink, replay and the command line: drivers around `run`, outside the system
  under test. Sweep's threads and shrink's search are next in the plan.
- Durability checkers: single passes over parsed files after the run; what they look for is
  stated of the models in `Raft`, `Wal` and `Snapshots`.
- Wire codec: bytes in, value out, guarded by a CRC that turns corruption into loss.
- Random numbers, traces, determinism: every random choice is a nondeterministic one.
- In `World`: clients (`Workload` has them) and reconfigurations timed to fresh leaders. In
  `Wal`: a leader's own appends, records of several sizes. In `Membership` and `ReadIndex`:
  deferred persistence, late messages.
- `advance_durable` throws its parked ranges away when there are more than 4096
  (`raft.rs:2855`); `DurableClaim` does not. `NothingIsForgotten` and `ClaimCatchesUp` are
  meant below that number.
- In `Workload`, a pause of zero between operations, after which the code begins the next one
  in the same call (`workload.rs:360`): the pause is never shorter than a millisecond in the
  repository's configurations.
- In `Snapshots`, appends that only lead to an answer (`raft.rs:2014`, `raft.rs:2046`), and what
  a leader does with answers to a snapshot (`on_install_snapshot_resp`); `Raft` has the former
  for a log without snapshots.
- In `Observer`, leaders that change the membership and cut their logs: a change proposed again
  at an index that `config_checked` has passed is not looked at.

## Plan

1. `Snapshots` under leaders that agree on what is committed: `CommitIsInTheLog`.
2. Sweep's threads and shrink's search as modules.
3. A leader's own appends, and records of several sizes, in `Wal`.
