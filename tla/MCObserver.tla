----------------------------- MODULE MCObserver -----------------------------
(***************************************************************************)
(* An instance of Observer for TLC, in five settings.                      *)
(***************************************************************************)
EXTENDS Observer, TLC

CONSTANTS a, b

(* Commands are compared and nothing else. *)
Alike == Permutations({a, b})

(* Servers replace, commit, compact and lose what they like. *)
Rewrites == [n |-> 2, term |-> {1, 2}, cmd |-> {a, b}, config |-> {},
             does |-> {"append", "replace", "commit", "compact", "crash"},
             maxLog |-> 2, maxEvents |-> 5, events |-> 0]

(* Leaders come and go, and are heard of late; entries differ by term. *)
Leaders == [Rewrites EXCEPT !.cmd = {a}, !.maxEvents = 6,
                            !.does = {"append", "commit", "compact", "lead", "speak", "crash"}]

(* A leader changes the membership, in order or not. *)
Changes == [Rewrites EXCEPT !.n = 1, !.config = {b}, !.maxLog = 4, !.maxEvents = 7,
                            !.does = {"append", "commit", "compact", "lead"}]

(* A snapshot replaces the log. *)
Snapshots == [Rewrites EXCEPT !.term = {1}, !.maxEvents = 6,
                              !.does = {"append", "replace", "commit", "compact", "install"}]

(* A leader cuts its own log, and what it was already found to have. *)
Cuts == [Rewrites EXCEPT !.does = {"append", "replace", "commit", "lead"}]

AllSettings == {Rewrites, Leaders, Changes, Snapshots, Cuts}
=============================================================================
