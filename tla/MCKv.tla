-------------------------------- MODULE MCKv --------------------------------
(***************************************************************************)
(* An instance of Kv for TLC: two servers, one key, one or two clients, in *)
(* five scenarios.                                                         *)
(***************************************************************************)
EXTENDS Kv

CONSTANTS c1, c2

(* A reply to an attempt that is over is ignored, so it tells no states    *)
(* apart.                                                                  *)
Distinct == <<clientVars, requests, {m \in replies : IsCurrent(m.client, m)},
              raftVars, serverVars, began, env>>

Symmetric == Permutations(Server)

By(a, b) == [c \in Client |-> IF c = c1 THEN a ELSE b]

Base == [opKinds |-> By({"Cas"}, {"Put"}), maxAttempts |-> 1, maxOps |-> By(1, 0),
         stoppable |-> {}, maxRetryTimers |-> 1, readIndexMode |-> FALSE,
         maxTerm |-> 2, maxLog |-> 3, maxInstalls |-> 0, maxAhead |-> 0,
         maxCrashes |-> 0, installs |-> 0, crashes |-> 0]

(* One operation is retried while the leadership changes. *)
Retry == [Base EXCEPT !.maxAttempts = 2, !.maxLog = 4, !.stoppable = {c1}]
(* The second operation overtakes the one that was given up. *)
Sessions == [Base EXCEPT !.maxOps = By(2, 0), !.maxLog = 4]
(* Two writers want the same slot of the log. *)
Rivals == [Base EXCEPT !.maxOps = By(1, 1)]
(* A read is confirmed, or not, while another client writes. *)
Reads == [Base EXCEPT !.opKinds = By({"Put"}, {"Get"}), !.maxOps = By(1, 1),
                      !.readIndexMode = TRUE]
(* An image, which may include an entry past its index, is installed, and  *)
(* after a crash loaded once more and replayed upon.                       *)
Ahead == [Base EXCEPT !.maxAttempts = 2, !.maxInstalls = 1, !.maxAhead = 1, !.maxCrashes = 1]

AllScenarios == {Retry, Sessions, Rivals, Reads, Ahead}
=============================================================================
