------------------------------- MODULE RaftLog -------------------------------
(***************************************************************************)
(* The questions `kvstore/log.rs` answers about a replicated log, and the  *)
(* two scans `kvstore/raft.rs` makes over one.                             *)
(*                                                                         *)
(* A log is a sequence of entries; index i of the code is position i of    *)
(* the sequence, and index 0 (NO_INDEX) is the empty position of term 0.   *)
(* The modules that use these operators model a node with compaction       *)
(* disabled (`snapshot_threshold: 0`), so `snapshot_index` is always 0.    *)
(***************************************************************************)
EXTENDS Integers, Sequences, FiniteSetsExt

NO_INDEX == 0

(* `term_at`: None of the code is -1, which no entry's term equals.        *)
NoTerm == -1

TermAt(log, i) ==
    IF i = NO_INDEX THEN 0
    ELSE IF i \in DOMAIN log THEN log[i].term ELSE NoTerm

LastTerm(log) == TermAt(log, Len(log))

(* Mutant of Matches: any entry at that index will do. *)
HasIndex(log, i, t) == i <= Len(log)

(* `matches`: do I have this entry, with this term?                        *)
Matches(log, i, t) == TermAt(log, i) = t

(* `is_up_to_date`: the election restriction.                              *)
IsUpToDate(log, candLastIndex, candLastTerm) ==
    \/ candLastTerm > LastTerm(log)
    \/ candLastTerm = LastTerm(log) /\ candLastIndex >= Len(log)

(* `slice_from`: up to max entries starting at index i.                    *)
SliceFrom(log, i, max) ==
    SubSeq(log, i, IF i + max - 1 < Len(log) THEN i + max - 1 ELSE Len(log))

(* `truncate_from`: discard index i and everything after it.               *)
TruncateFrom(log, i) == SubSeq(log, 1, i - 1)

(* `last_index_with_term_at_most`: the partition point of `term <= t`,     *)
(* the terms of a log being non-decreasing.                                *)
LastIndexWithTermAtMost(log, t) ==
    Max({0} \cup {i \in DOMAIN log : \A j \in 1..i : log[j].term <= t})

(* Mutant of FirstNew: the append is taken to be all news. *)
AllIsNew(log, prev, entries) == prev + 1

(* The first index above prev at which the entries of an append are not    *)
(* already held, in `on_append_entries`; one past the append if all are.   *)
FirstNew(log, prev, entries) ==
    Min({prev + Len(entries) + 1} \cup
        {i \in (prev + 1)..(prev + Len(entries)) :
            TermAt(log, i) # entries[i - prev].term})

(* `conflict_hint`: skip the whole conflicting term at once.               *)
ConflictHint(log, prev) ==
    IF TermAt(log, prev) = NoTerm THEN Len(log) + 1
    ELSE Min({prev} \cup
             {i \in 1..prev : \A j \in i..prev : log[j].term = log[prev].term})
=============================================================================
