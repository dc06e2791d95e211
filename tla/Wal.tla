--------------------------------- MODULE Wal ---------------------------------
(***************************************************************************)
(* The write-ahead file of one node (`kvstore/raft.rs`, `kvstore/log.rs`)  *)
(* on the disk of `simcore/disk.rs`: two alternating hard-state slots and  *)
(* then the log's records, written in place through a cache; batches that  *)
(* are written, confirmed, synced and confirmed again; and recovery.  The  *)
(* disk may reject an operation when it is issued and say so later, and a  *)
(* crash may lose, tear and reorder the writes no sync has covered.        *)
(*                                                                         *)
(* The rest of the cluster is the constant LeaderLog: what the leader of   *)
(* each term has in its log.  The node moves to later terms, votes, and    *)
(* takes appends from those leaders.  Records are of one size, as those of *)
(* no-ops are, so a record is a cell and the cell of an index never moves. *)
(* Compaction is off, as in Raft.                                          *)
(***************************************************************************)
EXTENDS RaftLog, DurableClaim, FiniteSets

CONSTANTS
    Candidate,      \* whom the node may vote for
    None,           \* no vote
    LeaderLog,      \* term -> the log of that term's leader
    StartFile,      \* what is in the file at first
    Devices,        \* the disks the node may run on, each with its bounds
    MaxTerm         \* bound: the last term the node moves to

VARIABLES
    up,             \* FALSE from the crash until recovery
    term, votedFor, log,
    stateSeq,       \* the number of the next hard-state write
    durableIndex, parked, durableTerm, durableHard,
    batches,        \* Persister.batches
    pending,        \* SimFile.pending: writes no sync has covered
    file,           \* SimFile.durable
    errors,         \* operations the disk has rejected
    device          \* DiskConfig and bounds of this run, and its crashes so far

hardVars == <<term, votedFor, stateSeq>>
claimVars == <<durableIndex, parked>>
durableVars == <<durableTerm, durableHard>>
diskVars == <<pending, file>>
vars == <<up, hardVars, log, claimVars, durableVars, batches, diskVars, errors, device>>

(* DiskConfig: lost_write_ppm, torn_write_ppm, reorder_unsynced. *)
MayLose == device.lose
MayTear == device.tear
MayReorder == device.reorder

(* Bounds: operations the disk rejects (0 for io_error_ppm = 0), batches   *)
(* in flight, and crashes, those that follow a rejection included.         *)
MaxErrors == device.maxErrors
MaxInFlight == device.maxInFlight
MaxCrashes == device.maxCrashes
crashes == device.crashes

(* What is not a record or a slot that checks out: zeros, or half a write. *)
Damaged == [term |-> -1]
NoSlot == [seq |-> -1]

ASSUME WalAssumption ==
    /\ None \notin Candidate
    /\ Devices \subseteq [lose : BOOLEAN, tear : BOOLEAN, reorder : BOOLEAN,
                          maxErrors : Nat, maxInFlight : Nat, maxCrashes : Nat,
                          crashes : {0}]
    /\ MaxTerm \in Nat
    /\ DOMAIN LeaderLog \subseteq Nat
    /\ \A t \in DOMAIN LeaderLog : LeaderLog[t] \in Seq([term : 0..t])

-----------------------------------------------------------------------------
(* The file. *)

(* Mutant of SlotWrite: the hard state has one place. *)
OneSlot(hs) == [op |-> "slot", at |-> 0, hard |-> hs]

(* `HardState::slot_offset`: the two slots take turns. *)
SlotWrite(hs) == [op |-> "slot", at |-> hs.seq % 2, hard |-> hs]
SetLen(len) == [op |-> "setLen", len |-> len]
Data(from, entries) == [op |-> "data", from |-> from, entries |-> entries]
Rejected == [op |-> "rejected"]

(* `apply`: a file that grows is filled with zeros. *)
Resize(cells, len) ==
    [i \in 1..len |-> IF i \in DOMAIN cells THEN cells[i] ELSE Damaged]

Overwrite(cells, from, entries) ==
    LET end == from + Len(entries) - 1
        len == IF end > Len(cells) THEN end ELSE Len(cells)
    IN [i \in 1..len |-> IF i \in from..end THEN entries[i - from + 1]
                         ELSE Resize(cells, len)[i]]

Apply(f, w) ==
    CASE w.op = "slot"   -> [f EXCEPT !.slots[w.at] = w.hard]
      [] w.op = "setLen" -> [f EXCEPT !.cells = Resize(@, w.len)]
      [] w.op = "data"   -> [f EXCEPT !.cells = Overwrite(@, w.from, w.entries)]

ApplyAll(f, ws) ==
    LET after[i \in 0..Len(ws)] == IF i = 0 THEN f ELSE Apply(after[i - 1], ws[i])
    IN after[Len(ws)]

(* `crash`, one pending write: what a torn one may leave.  Of a slot,      *)
(* nothing or half; of the records, some, and then perhaps half of one.    *)
Torn(f, w) ==
    CASE w.op = "slot" -> {f, [f EXCEPT !.slots[w.at] = NoSlot]}
      [] w.op = "data" ->
           UNION {{Apply(f, Data(w.from, whole)),
                   Apply(f, Data(w.from, Append(whole, Damaged)))} :
                     whole \in {SubSeq(w.entries, 1, k) : k \in 0..(Len(w.entries) - 1)}}
      [] OTHER -> {}

Outcomes(f, w) ==
    {Apply(f, w)} \cup (IF MayLose THEN {f} ELSE {}) \cup (IF MayTear THEN Torn(f, w) ELSE {})

(* `recover_hard_state`: the valid slot with the highest number. *)
RecoverHardState(slots) ==
    LET valid == {slots[i] : i \in {0, 1}} \ {NoSlot}
        initial == [seq |-> 0, term |-> 0, vote |-> None]
    IN CHOOSE hs \in valid \cup {initial} : \A other \in valid : other.seq <= hs.seq

(* `recover_log_from`: records up to the first that does not check out or  *)
(* whose term goes back.                                                   *)
RecoverLog(cells) ==
    SubSeq(cells, 1, Max({0} \cup {i \in DOMAIN cells :
        \A j \in 1..i : /\ cells[j] # Damaged
                        /\ j > 1 => cells[j - 1].term <= cells[j].term}))

-----------------------------------------------------------------------------
(* `recover`: the newest hard state, and the log without the records that *)
(* are ahead of its term.  What is left out stays in the file.             *)
Recovered(f) ==
    LET hs == RecoverHardState(f.slots)
        found == RecoverLog(f.cells)
    IN [hard |-> hs,
        log |-> SubSeq(found, 1, LastIndexWithTermAtMost(found, hs.term))]

Init ==
    LET found == Recovered(StartFile) IN
    /\ up = TRUE
    /\ term = found.hard.term
    /\ votedFor = found.hard.vote
    /\ stateSeq = found.hard.seq + 1
    /\ log = found.log
    /\ durableIndex = Len(found.log)
    /\ parked = {}
    /\ durableTerm = found.hard.term
    /\ durableHard = found.hard
    /\ batches = <<>>
    /\ pending = <<>>
    /\ file = StartFile
    /\ errors = 0
    /\ device \in Devices

-----------------------------------------------------------------------------
(* Writing. *)

(* `Disk::issue`, for each write of a batch: those the disk rejects never  *)
(* reach the cache, and the batch will hear of it.                         *)
Issue(queue, writes, batch) ==
    /\ Len(queue) < MaxInFlight
    /\ \E rejected \in SUBSET DOMAIN writes :
         /\ errors + Cardinality(rejected) <= MaxErrors
         /\ errors' = errors + Cardinality(rejected)
         /\ LET reached == [i \in DOMAIN writes |->
                               IF i \in rejected THEN Rejected ELSE writes[i]]
            IN pending' = pending \o SelectSeq(reached, LAMBDA w : w # Rejected)
         /\ batches' = Append(queue, [batch EXCEPT !.ok = (rejected = {})])
    /\ UNCHANGED <<up, file, device>>

NoHard == [seq |-> -1]

(* A batch: what it writes, the range it will claim, whether its sync was  *)
(* issued, and whether the disk has accepted all of it so far.             *)
NewBatch(hs, from, to) ==
    [hard |-> hs, from |-> from, to |-> to, syncing |-> FALSE, ok |-> TRUE]

NextHard(t, v) == [seq |-> stateSeq, term |-> t, vote |-> v]

(* `write_hard_state`: a later term, or the vote of this one. *)
WriteHardState(t, v) ==
    /\ up
    /\ t <= MaxTerm
    /\ t > term \/ (t = term /\ votedFor = None /\ v # None)
    /\ term' = t
    /\ votedFor' = v
    /\ stateSeq' = stateSeq + 1
    /\ Issue(batches, <<SlotWrite(NextHard(t, v))>>, NewBatch(NextHard(t, v), 1, 0))
    /\ UNCHANGED <<log, claimVars, durableVars>>

(* `Persister::clamp_all`, after entries were replaced. *)
ClampBatches(cap) ==
    [i \in DOMAIN batches |->
        [batches[i] EXCEPT !.to = IF @ > cap THEN cap ELSE @]]

(* Mutant of LogWrites: the old records are overwritten, not cut off. *)
LogWritesUncut(start, conflict, entries) == <<Data(start, entries)>>

(* `write_log_from`: where entries are replaced, the file is cut first. *)
LogWrites(start, conflict, entries) ==
    (IF conflict THEN <<SetLen(start - 1)>> ELSE <<>>) \o <<Data(start, entries)>>

(* `on_append_entries` with something new: the entries prev + 1 to last of *)
(* the leader of term t.  A new term goes into the same batch.             *)
TakeAppend(t, prev, last) ==
    LET entries == SubSeq(LeaderLog[t], prev + 1, last)
        start == FirstNew(log, prev, entries)
        dirty == t > term
        conflict == start <= Len(log)
        new == TruncateFrom(log, start) \o SubSeq(LeaderLog[t], start, last)
    IN /\ up
       /\ t >= term /\ t <= MaxTerm
       /\ Matches(log, prev, TermAt(LeaderLog[t], prev))
       /\ start <= last
       /\ term' = t
       /\ votedFor' = IF dirty THEN None ELSE votedFor
       /\ stateSeq' = IF dirty THEN stateSeq + 1 ELSE stateSeq
       /\ log' = new
       /\ durableIndex' = IF durableIndex < start THEN durableIndex ELSE start - 1
       /\ parked' = ClampParked(parked, start - 1)
       /\ Issue(ClampBatches(start - 1),
                (IF dirty THEN <<SlotWrite(NextHard(t, None))>> ELSE <<>>)
                  \o LogWrites(start, conflict, SubSeq(new, start, last)),
                NewBatch(IF dirty THEN NextHard(t, None) ELSE NoHard, start, last))
       /\ UNCHANGED durableVars

(* `on_complete` of the last write of batch k: its sync is issued, and the *)
(* disk rejects it, or puts all that is pending on the platter at once.    *)
IssueSync(k) ==
    /\ up
    /\ batches[k].ok /\ ~batches[k].syncing
    /\ \/ /\ file' = ApplyAll(file, pending)
          /\ pending' = <<>>
          /\ batches' = [batches EXCEPT ![k].syncing = TRUE]
          /\ UNCHANGED errors
       \/ /\ errors < MaxErrors
          /\ errors' = errors + 1
          /\ batches' = [batches EXCEPT ![k].syncing = TRUE, ![k].ok = FALSE]
          /\ UNCHANGED diskVars
    /\ UNCHANGED <<up, hardVars, log, claimVars, durableVars, device>>

Without(queue, k) ==
    [i \in 1..(Len(queue) - 1) |-> IF i < k THEN queue[i] ELSE queue[i + 1]]

(* `on_storage` and `on_durable` for the confirmed sync of batch k.        *)
SyncDone(k) ==
    LET b == batches[k]
        cap == LastIndexWithTermAtMost(log, durableTerm')
        claimed == IF durableTerm' > durableTerm
                   THEN AdvanceDurable(durableIndex, parked, cap) ELSE durableIndex
        left == IF durableTerm' > durableTerm THEN StillParked(claimed, parked) ELSE parked
        ranges == left \cup {[from |-> b.from, to |-> b.to]}
        claim == IF b.to > claimed THEN AdvanceDurable(claimed, ranges, cap) ELSE claimed
    IN /\ up
       /\ b.ok /\ b.syncing
       /\ durableHard' = IF b.hard.seq >= durableHard.seq THEN b.hard ELSE durableHard
       /\ durableTerm' = IF b.hard # NoHard /\ b.hard.term > durableTerm
                         THEN b.hard.term ELSE durableTerm
       /\ durableIndex' = claim
       /\ parked' = IF b.to > claimed THEN StillParked(claim, ranges) ELSE left
       /\ batches' = Without(batches, k)
       /\ UNCHANGED <<up, hardVars, log, diskVars, errors, device>>

-----------------------------------------------------------------------------
(* Crashing. *)

(* The power goes, at any moment. *)
PowerLoss ==
    /\ up
    /\ crashes < MaxCrashes
    /\ up' = FALSE
    /\ device' = [device EXCEPT !.crashes = @ + 1]
    /\ UNCHANGED <<hardVars, log, claimVars, durableVars, batches, diskVars, errors>>

(* `on_complete` with an error: the node takes itself down, and is brought *)
(* back through a crash (`reap_failed`).                                   *)
Fail(k) ==
    /\ ~batches[k].ok
    /\ PowerLoss

(* `Disk::crash`, one pending write after the other, in the order they     *)
(* were issued or in any.                                                  *)
Settle(k) ==
    /\ ~up
    /\ k = 1 \/ MayReorder
    /\ file' \in Outcomes(file, pending[k])
    /\ pending' = Without(pending, k)
    /\ UNCHANGED <<up, hardVars, log, claimVars, durableVars, batches, errors, device>>

(* `restart`: the node recovers from what is left, and claims all of it.   *)
Restart ==
    /\ ~up
    /\ pending = <<>>
    /\ up' = TRUE
    /\ LET found == Recovered(file) IN
         /\ term' = found.hard.term
         /\ votedFor' = found.hard.vote
         /\ stateSeq' = found.hard.seq + 1
         /\ log' = found.log
         /\ durableIndex' = Len(found.log)
         /\ parked' = {}
         /\ durableTerm' = found.hard.term
         /\ durableHard' = found.hard
    /\ batches' = <<>>
    /\ UNCHANGED <<diskVars, errors, device>>

Next ==
    \/ \E t \in 0..MaxTerm, v \in Candidate \cup {None} : WriteHardState(t, v)
    \/ \E t \in DOMAIN LeaderLog :
         \E prev \in 0..Len(LeaderLog[t]) : \E last \in (prev + 1)..Len(LeaderLog[t]) :
            TakeAppend(t, prev, last)
    \/ \E k \in DOMAIN batches : IssueSync(k) \/ SyncDone(k) \/ Fail(k)
    \/ PowerLoss
    \/ \E k \in DOMAIN pending : Settle(k)
    \/ Restart

Spec == Init /\ [][Next]_vars

-----------------------------------------------------------------------------
(* Properties. *)

Recovers == ~up /\ up'

(* The hard state that was confirmed, and so may have been announced,      *)
(* comes back, or a later one (`durable_hard_state`, `recover_hard_state`). *)
HardStateSurvives == [][Recovers =>
    \/ term' > durableHard.term
    \/ term' = durableHard.term /\ durableHard.vote \in {None, votedFor'}]_vars

(* What the node claimed to be durable comes back unchanged, whichever     *)
(* writes below and above it failed (`check_recovery`).                    *)
ClaimSurvives == [][Recovers =>
    \A i \in 1..durableIndex : i \in DOMAIN log' /\ log'[i] = log[i]]_vars

(* A node's log agrees, up to any entry, with the log of the leader that   *)
(* created that entry: recovery never joins the records of two leaders, on *)
(* a disk that takes what it is given and loses none of it (`set_len` and  *)
(* the records after it, `recover_log_from`).                              *)
NoSplice == up /\ ~MayLose /\ MaxErrors = 0 =>
    \A i \in DOMAIN log : log[i].term \in DOMAIN LeaderLog =>
        SubSeq(log, 1, i) = SubSeq(LeaderLog[log[i].term], 1, i)
=============================================================================
