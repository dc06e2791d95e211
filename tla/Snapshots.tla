------------------------------ MODULE Snapshots ------------------------------
(***************************************************************************)
(* Snapshots and compaction on one node (`kvstore/raft.rs`,                *)
(* `kvstore/log.rs`): local snapshots taken by `drain`, snapshots received *)
(* from a leader, the two files they alternate between, the records that   *)
(* stay in the write-ahead file, and recovery from whatever a crash left.  *)
(*                                                                         *)
(* The rest of the cluster is a constant: what the leader of each term has *)
(* in its log, and how much of it is committed while it leads.  The hard   *)
(* state is on disk as soon as it changes and no operation is rejected;    *)
(* Wal is about those.  An entry is its term; records are of one size.     *)
(***************************************************************************)
EXTENDS Integers, Sequences, FiniteSetsExt, DurableClaim

CONSTANT Settings   \* the configurations and bounds a run starts from

VARIABLES
    term,           \* the node's term
    up,
    m,              \* what is in memory
    d,              \* what is in the files, and on its way there
    env             \* the setting, and what is spent of it

vars == <<term, up, m, d, env>>

LeaderLog == env.leaderLog          \* term -> the terms in the log of its leader
LeaderCommit == env.leaderCommit    \* term -> the commit index that leader reaches
Threshold == env.threshold          \* RaftConfig.snapshot_threshold
MayLose == env.mayLose              \* DiskConfig.lost_write_ppm > 0
MaxInFlight == env.maxInFlight      \* bound: log batches in flight
MaxSnapshots == env.maxSnapshots    \* bound: snapshots written
MaxCrashes == env.maxCrashes        \* bound: crashes

ASSUME SnapshotsAssumption == \A e \in Settings :
    /\ DOMAIN e = {"leaderLog", "leaderCommit", "threshold", "mayLose", "maxInFlight",
                   "maxSnapshots", "maxCrashes", "crashes"}
    /\ DOMAIN e.leaderLog \subseteq Nat
    /\ \A t \in DOMAIN e.leaderLog : /\ e.leaderLog[t] \in Seq(1..t)
                                     /\ e.leaderCommit[t] \in 0..Len(e.leaderLog[t])
    /\ {e.threshold, e.maxInFlight, e.maxSnapshots, e.maxCrashes} \subseteq Nat

Nothing == [index |-> 0]            \* no snapshot, or a damaged one
Damaged == [index |-> 0]            \* a cell that does not hold a record
Files == {"A", "B"}

-----------------------------------------------------------------------------
(* The log in memory: `snapshot_index`, `snapshot_term`, and the entries   *)
(* above, the first of which is in the file at index - base.               *)
LastIndex(n) == n.snap + Len(n.ents)

TermAt(n, i) ==
    IF i = 0 THEN 0
    ELSE IF i = n.snap THEN n.snapTerm
    ELSE IF i \in (n.snap + 1)..LastIndex(n) THEN n.ents[i - n.snap]
    ELSE -1

(* `compact_to`: the file is left as it is. *)
CompactTo(n, i, t) ==
    [n EXCEPT !.ents = SubSeq(@, i - n.snap + 1, Len(@)), !.snap = i, !.snapTerm = t]

Claimed(n) ==
    LET at == AdvanceDurable(n.durable, n.parked, LastIndex(n))
    IN [n EXCEPT !.durable = at, !.parked = StillParked(at, @)]

-----------------------------------------------------------------------------
(* The files. *)

Apply(cells, w) ==
    IF w.op = "setLen"
    THEN [i \in 1..w.len |-> IF i \in DOMAIN cells THEN cells[i] ELSE Damaged]
    ELSE LET end == w.at + Len(w.recs) - 1
         IN [i \in 1..Max({end, Len(cells)}) |->
                IF i \in w.at..end THEN w.recs[i - w.at + 1]
                ELSE IF i \in DOMAIN cells THEN cells[i] ELSE Damaged]

(* The writes ws in order, those at the positions in kept. *)
ApplySome(cells, ws, kept) ==
    LET after[i \in 0..Len(ws)] ==
            IF i = 0 THEN cells
            ELSE IF i \in kept THEN Apply(after[i - 1], ws[i]) ELSE after[i - 1]
    IN after[Len(ws)]

ApplyAll(cells, ws) == ApplySome(cells, ws, DOMAIN ws)

Sync(disk) == [disk EXCEPT !.cells = ApplyAll(disk.cells, disk.pending), !.pending = <<>>]

(* What a crash may leave of the writes that no sync has covered.          *)
CellsAfterCrash(disk) ==
    IF MayLose
    THEN {ApplySome(disk.cells, disk.pending, kept) : kept \in SUBSET DOMAIN disk.pending}
    ELSE {ApplyAll(disk.cells, disk.pending)}

FilesAfterCrash(disk) ==
    IF disk.writing.index = 0 THEN {disk.files}
    ELSE {[disk.files EXCEPT ![disk.writing.file] = left] :
            left \in (IF MayLose THEN {disk.files[disk.writing.file], Nothing} ELSE {})
                     \cup {disk.writing}}

(* `pick_snapshot_with_source`: by index, and by write order among equals. *)
Newer(x, y) == x.index > y.index \/ (x.index = y.index /\ (x.index = 0 \/ x.seq >= y.seq))

Pick(files) == IF Newer(files["A"], files["B"]) THEN files["A"] ELSE files["B"]

(* `recover_log_any_start`: the records that follow one another from the   *)
(* first, whatever its index.                                              *)
ReadRecords(cells) ==
    SubSeq(cells, 1, Max({0} \cup {i \in DOMAIN cells :
        \A j \in 1..i : /\ cells[j] # Damaged
                        /\ cells[j].index = cells[1].index + j - 1
                        /\ j > 1 => cells[j - 1].term <= cells[j].term}))

(* The records above index i, which go on from it or count for nothing.    *)
Continues(found, i) ==
    LET above == {k \in DOMAIN found : found[k].index > i}
    IN IF above # {} /\ found[Min(above)].index = i + 1
       THEN SubSeq(found, Min(above), Len(found)) ELSE <<>>

(* `recover`: the better snapshot, and the records that continue it.       *)
Recovered(cells, files) ==
    LET best == Pick(files)
        found == ReadRecords(cells)
        usable == Continues(found, best.index)
    IN [snap |-> best.index,
        snapTerm |-> IF best.index = 0 THEN 0 ELSE best.term,
        ents |-> [i \in DOMAIN usable |-> usable[i].term],
        base |-> IF usable = <<>> THEN best.index ELSE found[1].index - 1,
        commit |-> best.index,
        durable |-> best.index + Len(usable),
        parked |-> {},
        batches |-> <<>>,
        seq |-> IF best.index = 0 THEN 1 ELSE best.seq + 1,
        highest |-> best.index,
        inFlight |-> FALSE,
        file |-> IF best.index = 0 THEN "none" ELSE best.file]

Init ==
    /\ term = 0
    /\ up = TRUE
    /\ d = [cells |-> <<>>, pending |-> <<>>, files |-> [f \in Files |-> Nothing],
            writing |-> Nothing]
    /\ m = Recovered(<<>>, [f \in Files |-> Nothing])
    /\ env \in Settings

-----------------------------------------------------------------------------
(* Writing a snapshot. *)

(* Mutant of NextSnapshotFile: there is one file. *)
SameSnapshotFile(n) == "A"

(* `next_snapshot_file`: the one that does not hold the newest. *)
NextSnapshotFile(n) == IF n.file = "A" THEN "B" ELSE "A"

(* The shared part of `take_snapshot` and `on_install_snapshot`: truncate  *)
(* the file and write it, as a batch of its own.                           *)
WriteSnapshot(s, kind, index, t) ==
    LET snap == [seq |-> s.m.seq, index |-> index, term |-> t,
                 file |-> NextSnapshotFile(s.m)]
    IN [m |-> [s.m EXCEPT !.seq = @ + 1, !.highest = Max({@, index}), !.inFlight = TRUE,
                          !.batches = Append(@, [kind |-> kind, snap |-> snap, syncing |-> FALSE])],
        d |-> [s.d EXCEPT !.writing = snap]]

(* One snapshot is written at a time. *)
MayWrite(n) == ~n.inFlight /\ n.seq <= MaxSnapshots

(* `wants_snapshot` *)
WantsSnapshot(n) == n.commit - n.snap >= Threshold /\ n.commit > n.snap /\ MayWrite(n)

(* The end of `drain`: all that is committed is applied, and a snapshot is *)
(* taken when enough is.                                                   *)
Drain(s) ==
    IF ~WantsSnapshot(s.m) THEN s
    ELSE WriteSnapshot(s, "taken", s.m.commit, TermAt(s.m, s.m.commit))

Handle(s) ==
    /\ m' = Drain(s).m
    /\ d' = Drain(s).d
    /\ UNCHANGED <<up, env>>

-----------------------------------------------------------------------------
(* The batches in flight vouch for nothing from index at on. *)
CutQueue(queue, at) ==
    [k \in DOMAIN queue |-> IF queue[k].kind = "log"
                            THEN [queue[k] EXCEPT !.to = Min({@, at - 1})] ELSE queue[k]]

(* `truncate` *)
Cut(n, at) ==
    [n EXCEPT !.ents = SubSeq(@, 1, at - n.snap - 1),
              !.durable = Min({@, at - 1}),
              !.parked = ClampParked(@, at - 1),
              !.batches = CutQueue(@, at)]

(* `on_append_entries` from the leader of term t, with its entries prev+1  *)
(* to last and the commit index c: what the snapshot covers is skipped.    *)
(* An append that only leads to an answer, because nothing is left of it   *)
(* or its previous entry is not held, changes nothing kept here but the    *)
(* term.                                                                   *)
OnAppendEntries(t, prev, last, c) ==
    LET from == Max({prev, m.snap})
        start == Min({last + 1} \cup {i \in (from + 1)..last : TermAt(m, i) # LeaderLog[t][i]})
        conflict == start <= LastIndex(m)
        kept == IF conflict THEN Cut(m, start) ELSE m
        grown == [kept EXCEPT !.ents = @ \o SubSeq(LeaderLog[t], start, last),
                              !.batches = Append(@, [kind |-> "log", from |-> start,
                                                     to |-> last, syncing |-> FALSE])]
        n == IF start <= last THEN grown ELSE m
        writes == (IF conflict THEN <<[op |-> "setLen", len |-> start - 1 - m.base]>> ELSE <<>>)
                  \o <<[op |-> "data", at |-> start - m.base,
                        recs |-> [i \in 1..(last + 1 - start) |->
                                    [index |-> start + i - 1,
                                     term |-> LeaderLog[t][start + i - 1]]]]>>
    IN /\ up /\ t >= term
       /\ term' = t
       /\ last > m.snap \/ prev >= m.snap
       /\ prev < m.snap \/ TermAt(m, prev) = (IF prev = 0 THEN 0 ELSE LeaderLog[t][prev])
       /\ start <= last => Len(SelectSeq(m.batches, LAMBDA b : b.kind = "log")) < MaxInFlight
       /\ Handle([m |-> [n EXCEPT !.commit = Max({@, Min({c, last, LastIndex(n)})})],
                  d |-> IF start <= last THEN [d EXCEPT !.pending = @ \o writes] ELSE d])

(* `on_install_snapshot` from the leader of term t. *)
OnInstallSnapshot(t, index) ==
    /\ up /\ t >= term
    /\ term' = t
    /\ index > m.highest /\ index > m.commit
    /\ MayWrite(m)
    /\ Handle(WriteSnapshot([m |-> m, d |-> d], "installed", index, LeaderLog[t][index]))

-----------------------------------------------------------------------------
Without(queue, k) ==
    [i \in 1..(Len(queue) - 1) |-> IF i < k THEN queue[i] ELSE queue[i + 1]]

(* `on_complete` of the last write of batch k: the sync of its file.       *)
IssueSync(k) ==
    LET b == m.batches[k] IN
    /\ up /\ ~b.syncing
    /\ m' = [m EXCEPT !.batches[k].syncing = TRUE]
    /\ d' = IF b.kind = "log" THEN Sync(d)
            ELSE [d EXCEPT !.files[b.snap.file] = b.snap, !.writing = Nothing]
    /\ UNCHANGED <<term, up, env>>

(* `on_durable(LogDurable)` *)
LogDurable(n, b) ==
    LET to == Min({b.to, LastIndex(n)})
    IN IF to <= n.durable THEN n
       ELSE Claimed([n EXCEPT !.parked = @ \cup {[from |-> b.from, to |-> to]}])

(* `on_durable(SnapshotTaken)`: only now are the entries dropped. *)
SnapshotTaken(n, snap) ==
    CompactTo([n EXCEPT !.inFlight = FALSE, !.file = snap.file], snap.index, snap.term)

(* The node committed past the snapshot while it was written. *)
IsStale(n, snap) == TermAt(n, snap.index) # snap.term /\ snap.index < n.commit

(* Mutant of KeepsTail: a snapshot replaces the log, whatever is in it. *)
KeepsNothing(n, snap) == FALSE

(* The entries above the snapshot stay valid if its last one is in the log. *)
KeepsTail(n, snap) == TermAt(n, snap.index) = snap.term

(* Mutant of ParkedAfterInstall: every range that waits is forgotten. *)
NoneParked(n, snap) == {}

ParkedAfterInstall(n, snap) ==
    IF KeepsTail(n, snap) THEN {r \in n.parked : r.to > snap.index} ELSE {}

(* Mutant of RegionBase: new records go where they went before. *)
RegionBaseKept(n, snap) == n.base

(* The log region starts over, after the snapshot. *)
RegionBase(n, snap) == snap.index

ResetRegion(disk) == Sync([disk EXCEPT !.pending = Append(@, [op |-> "setLen", len |-> 0])])

(* `on_durable(SnapshotInstalled)`: the entries above are kept if the log  *)
(* holds the snapshot's last; else the log and its region are reset.       *)
SnapshotInstalled(n, disk, snap) ==
    LET done == [n EXCEPT !.inFlight = FALSE, !.file = snap.file]
        reset == [done EXCEPT !.ents = <<>>, !.snap = snap.index, !.snapTerm = snap.term,
                              !.base = RegionBase(n, snap)]
        log == IF KeepsTail(n, snap) THEN CompactTo(done, snap.index, snap.term) ELSE reset
    IN IF IsStale(n, snap) THEN [m |-> done, d |-> disk]
       ELSE [m |-> Claimed([log EXCEPT
                     !.parked = ParkedAfterInstall(n, snap),
                     !.durable = Min({Max({@, snap.index}), LastIndex(log)}),
                     !.commit = Max({@, snap.index})]),
             d |-> IF KeepsTail(n, snap) THEN disk ELSE ResetRegion(disk)]

(* `on_storage` for the confirmed sync of batch k, and `drain`. *)
SyncDone(k) ==
    LET b == m.batches[k]
        n == [m EXCEPT !.batches = Without(@, k)]
    IN /\ up /\ b.syncing
       /\ UNCHANGED term
       /\ Handle(CASE b.kind = "log" -> [m |-> LogDurable(n, b), d |-> d]
                   [] b.kind = "taken" -> [m |-> SnapshotTaken(n, b.snap), d |-> d]
                   [] b.kind = "installed" -> SnapshotInstalled(n, d, b.snap))

-----------------------------------------------------------------------------
PowerLoss ==
    /\ up /\ env.crashes < MaxCrashes
    /\ up' = FALSE
    /\ env' = [env EXCEPT !.crashes = @ + 1]
    /\ UNCHANGED <<term, m, d>>

Restart ==
    /\ ~up /\ up' = TRUE
    /\ \E cells \in CellsAfterCrash(d) : \E files \in FilesAfterCrash(d) :
         /\ m' = Recovered(cells, files)
         /\ d' = [cells |-> cells, pending |-> <<>>, files |-> files, writing |-> Nothing]
    /\ UNCHANGED <<term, env>>

Next ==
    \/ \E t \in DOMAIN LeaderLog :
         \/ \E prev \in 0..Len(LeaderLog[t]) : \E last \in prev..Len(LeaderLog[t]) :
              \E c \in {0, LeaderCommit[t]} : OnAppendEntries(t, prev, last, c)
         \/ \E index \in 1..LeaderCommit[t] : OnInstallSnapshot(t, index)
    \/ \E k \in DOMAIN m.batches : IssueSync(k) \/ SyncDone(k)
    \/ PowerLoss
    \/ Restart

Spec == Init /\ [][Next]_vars

-----------------------------------------------------------------------------
(* The log never ends below what is committed, and never begins above what *)
(* is applied (`on_install_snapshot`, `SnapshotInstalled`).                *)
CommitIsInTheLog == m.snap <= m.commit /\ m.commit <= LastIndex(m)

(* Whenever the power goes, a snapshot comes back that covers everything   *)
(* the log has dropped (`take_snapshot`, `next_snapshot_file`).            *)
CompactedIsCovered == \A files \in FilesAfterCrash(d) : Pick(files).index >= m.snap

(* With nothing in flight, the node claims all that it wrote: no range is  *)
(* forgotten, or its leader would resend forever (`SnapshotInstalled`), as *)
(* long as no more than 4096 are parked (`advance_durable`).               *)
ClaimCatchesUp == up /\ m.batches = <<>> => m.durable = LastIndex(m)

(* Everything the node claimed to be durable comes back, in the log or     *)
(* under the snapshot (`check_recovery`; `durable_index`: "Highest log     *)
(* index this node knows to be on stable storage").                        *)
ClaimSurvives == [][~up /\ up' =>
    \A i \in 1..m.durable : i <= m'.snap \/ TermAt(m', i) = TermAt(m, i)]_vars
=============================================================================
