---------------------------- MODULE DurableClaim ----------------------------
(***************************************************************************)
(* What a node may claim to be on stable storage.  Log writes are          *)
(* pipelined and a later batch may finish first, so a synced range waits   *)
(* in `parked` until the gap below it closes (`kvstore/raft.rs`).          *)
(* A range is a record [from, to] of log indices.                          *)
(***************************************************************************)
EXTENDS Integers, FiniteSetsExt

(* Mutant of AdvanceDurable: a synced range proves all that is below it. *)
AdvanceAcrossGaps(at, parked, cap) ==
    Max({at} \cup {d \in (at + 1)..cap : \E r \in parked : d <= r.to})

(* The loop of `advance_durable`: from `at`, the claim grows while some    *)
(* parked range covers the next index, and never beyond `cap`, the last    *)
(* entry whose term is itself durable.  That more than 4096 parked ranges  *)
(* are thrown away is left out: no bound here comes near it.               *)
AdvanceDurable(at, parked, cap) ==
    Max({at} \cup {d \in (at + 1)..cap :
            \A i \in (at + 1)..d : \E r \in parked : r.from <= i /\ i <= r.to})

(* What the loop leaves parked: the ranges the claim does not cover.       *)
StillParked(at, parked) == {r \in parked : r.to > at}

(* `truncate`: parked ranges describe bytes that have just been replaced.  *)
ClampParked(parked, cap) ==
    {[from |-> r.from, to |-> Min({r.to, cap})] : r \in {q \in parked : q.from <= cap}}
=============================================================================
