------------------------------ MODULE Scheduler ------------------------------
(***************************************************************************)
(* The event queue of `simcore/scheduler.rs`, as operators on a record     *)
(* [now, nextId, queue, cancelled].  Entries fire by (time, id), so events *)
(* of one instant fire in the order they were scheduled; a cancelled entry *)
(* stays in the queue as a tombstone until it reaches the head.            *)
(***************************************************************************)
EXTENDS Naturals, FiniteSets

NewScheduler == [now |-> 0, nextId |-> 0, queue |-> {}, cancelled |-> {}]

(* `Scheduler::at`; its assertion is the precondition time >= now. *)
At(s, time, event) ==
    [s EXCEPT !.nextId = @ + 1,
              !.queue = @ \cup {[time |-> time, id |-> s.nextId, event |-> event]}]

After(s, delay, event) == At(s, s.now + delay, event)

Cancel(s, id) == [s EXCEPT !.cancelled = @ \cup {id}]

Live(s) == {e \in s.queue : e.id \notin s.cancelled}

Before(a, b) == a.time < b.time \/ (a.time = b.time /\ a.id < b.id)

(* The entry `Scheduler::next` returns; there is one when Live(s) # {}. *)
Head1(s) == CHOOSE e \in Live(s) : \A f \in Live(s) \ {e} : Before(e, f)

(* `Scheduler::next` has discarded the tombstones in front of that entry,  *)
(* and time is that entry's.                                               *)
Popped(s) ==
    LET e == Head1(s)
        front == {f \in s.queue : Before(f, e)}
    IN  [s EXCEPT !.now = e.time,
                  !.queue = @ \ (front \cup {e}),
                  !.cancelled = @ \ {f.id : f \in front}]

(* `Scheduler::retain`, told what to drop. *)
Drop(s, gone) == [s EXCEPT !.queue = @ \ gone]
=============================================================================
