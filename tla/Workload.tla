------------------------------ MODULE Workload ------------------------------
(***************************************************************************)
(* The client of `harness/workload.rs`: one operation at a time, retried   *)
(* under one sequence number until a definite answer arrives or the client *)
(* gives up, and the timers that move it along.                            *)
(*                                                                         *)
(* Requests and replies are sets that only grow: a message may be lost,    *)
(* repeated and overtaken.  Which server an attempt goes to is chosen at   *)
(* random (`rotate_target`) or by a hint any server may give, so it is a   *)
(* free choice here.                                                       *)
(***************************************************************************)
EXTENDS KvData

CONSTANTS
    Server,
    None,
    Scenarios           \* the configurations and bounds a run starts from

VARIABLES
    env,                \* the scenario being played, and what is spent of it
    seq,                \* the last sequence number used
    inflight,           \* None, or the operation being attempted
    backingOff,
    known,              \* the value each key is believed to have
    nextReq,
    stopped,
    reqTimer,           \* the timeout of the current attempt is pending
    retryTimers,        \* TIMER_RETRY timers pending
    thinkTimers,        \* TIMER_THINK timers pending
    requests,           \* every request sent
    replies,            \* every reply sent
    answer              \* the last operation the history holds an answer for

clientTimers == <<reqTimer, retryTimers, thinkTimers>>
clientVars == <<seq, inflight, backingOff, known, nextReq, stopped, clientTimers, answer>>

OpKinds == env.opKinds                  \* operations with a weight above zero, by client
MaxAttempts == env.maxAttempts          \* WorkloadConfig.max_attempts
MaxOps == env.maxOps                    \* bound, by client: operations it begins
Stoppable == env.stoppable              \* bound: the clients that are told to stop
MaxRetryTimers == env.maxRetryTimers    \* bound: retry timers pending at once

ASSUME WorkloadAssumption == \A e \in Scenarios :
    /\ e.opKinds \in [Client -> SUBSET {"Get", "Put", "Delete", "Cas"}]
    /\ e.maxAttempts \in Nat \ {0}
    /\ e.maxOps \in [Client -> Nat]
    /\ e.maxRetryTimers \in Nat

InFlight == [seq : Nat, op : Op, req : Nat, attempts : Nat]
Answer == [seq : Nat, req : Nat, outcome : Outcome]

ASSUME NoneAssumption == None \notin InFlight /\ None \notin Answer

ClientInit ==
    /\ env \in Scenarios
    /\ seq = [c \in Client |-> 0]
    /\ inflight = [c \in Client |-> None]
    /\ backingOff = [c \in Client |-> FALSE]
    /\ known = [c \in Client |-> EmptyMap]
    /\ nextReq = [c \in Client |-> 1]
    /\ stopped = [c \in Client |-> FALSE]
    /\ reqTimer = [c \in Client |-> FALSE]
    /\ retryTimers = [c \in Client |-> 0]
    /\ thinkTimers = [c \in Client |-> 1]
    /\ requests = {}
    /\ replies = {}
    /\ answer = [c \in Client |-> None]

-----------------------------------------------------------------------------
(* `pick_op`: a compare-and-set expects what the client last saw.          *)
PickOp(c) == {IF kind = "Cas" THEN [kind |-> "Cas", key |-> k, expect |-> known[c][k]]
                              ELSE [kind |-> kind, key |-> k] :
              kind \in OpKinds[c], k \in Key}

(* `attempt`: send f, under a request id of its own, and set the timeout.  *)
Attempt(c, f) ==
    /\ nextReq' = [nextReq EXCEPT ![c] = @ + 1]
    /\ inflight' = [inflight EXCEPT ![c] =
                       [seq |-> f.seq, op |-> f.op, req |-> nextReq'[c],
                        attempts |-> f.attempts + 1]]
    /\ reqTimer' = [reqTimer EXCEPT ![c] = TRUE]
    /\ \E s \in Server :
         requests' = requests \cup
           {[client |-> c, to |-> s, req |-> nextReq'[c], seq |-> f.seq, op |-> f.op]}

(* `on_timer(TIMER_THINK)`, `begin`: start the next operation.             *)
Begin(c) ==
    /\ thinkTimers[c] > 0
    /\ thinkTimers' = [thinkTimers EXCEPT ![c] = @ - 1]
    /\ UNCHANGED <<known, stopped, retryTimers, replies, answer>>
    /\ \/ /\ stopped[c] \/ inflight[c] # None
          /\ UNCHANGED <<seq, inflight, backingOff, nextReq, reqTimer, requests>>
       \/ /\ ~stopped[c] /\ inflight[c] = None
          /\ seq[c] < MaxOps[c]
          /\ seq' = [seq EXCEPT ![c] = @ + 1]
          /\ backingOff' = [backingOff EXCEPT ![c] = FALSE]
          /\ \E op \in PickOp(c) :
               Attempt(c, [seq |-> seq'[c], op |-> op, req |-> 0, attempts |-> 0])

(* `think`: the pause before the next operation.  It is at least a         *)
(* millisecond in every configuration (`WorkloadConfig::default`); a pause *)
(* of zero, which the code answers by beginning at once, is left out.      *)
Think(c) == thinkTimers' = [thinkTimers EXCEPT ![c] = IF stopped[c] THEN @ ELSE @ + 1]

Exhausted(c) == inflight[c].attempts >= MaxAttempts

(* `retry` once the attempts are used up: the operation stays in the       *)
(* history without an answer.                                              *)
GiveUp(c) ==
    /\ Exhausted(c)
    /\ inflight' = [inflight EXCEPT ![c] = None]
    /\ reqTimer' = [reqTimer EXCEPT ![c] = FALSE]
    /\ Think(c)
    /\ UNCHANGED <<seq, backingOff, known, nextReq, stopped, retryTimers, requests, answer>>

(* Mutant of BackOff: the pause has no timer to end it. *)
BackOffForever(c) ==
    /\ ~Exhausted(c)
    /\ backingOff' = [backingOff EXCEPT ![c] = TRUE]
    /\ reqTimer' = [reqTimer EXCEPT ![c] = FALSE]
    /\ UNCHANGED <<seq, inflight, known, nextReq, stopped, retryTimers, thinkTimers, requests, answer>>

(* `retry` after a pause. *)
BackOff(c) ==
    /\ ~Exhausted(c)
    /\ retryTimers[c] < MaxRetryTimers
    /\ backingOff' = [backingOff EXCEPT ![c] = TRUE]
    /\ reqTimer' = [reqTimer EXCEPT ![c] = FALSE]
    /\ retryTimers' = [retryTimers EXCEPT ![c] = @ + 1]
    /\ UNCHANGED <<seq, inflight, known, nextReq, stopped, thinkTimers, requests, answer>>

(* `on_timer(TIMER_REQUEST)`: the attempt timed out; try another server at *)
(* once.  Nothing happens if the client is backing off.                    *)
RequestTimeout(c) ==
    /\ reqTimer[c]
    /\ UNCHANGED replies
    /\ \/ /\ inflight[c] # None /\ ~backingOff[c]
          /\ \/ GiveUp(c)
             \/ /\ ~Exhausted(c)
                /\ Attempt(c, inflight[c])
                /\ UNCHANGED <<seq, backingOff, known, stopped, retryTimers, thinkTimers, answer>>
       \/ /\ inflight[c] = None \/ backingOff[c]
          /\ reqTimer' = [reqTimer EXCEPT ![c] = FALSE]
          /\ UNCHANGED <<seq, inflight, backingOff, known, nextReq, stopped, retryTimers,
                         thinkTimers, requests, answer>>

(* `on_timer(TIMER_RETRY)`: a stray one, left over from an earlier pause,  *)
(* is ignored unless the client happens to be in another pause.            *)
RetryTimer(c) ==
    /\ retryTimers[c] > 0
    /\ retryTimers' = [retryTimers EXCEPT ![c] = @ - 1]
    /\ UNCHANGED <<seq, known, stopped, thinkTimers, replies, answer>>
    /\ \/ /\ backingOff[c] /\ inflight[c] # None
          /\ backingOff' = [backingOff EXCEPT ![c] = FALSE]
          /\ Attempt(c, inflight[c])
       \/ /\ ~(backingOff[c] /\ inflight[c] # None)
          /\ UNCHANGED <<inflight, backingOff, nextReq, reqTimer, requests>>

(* `remember`: what an answer says about the key. *)
Remember(c, op, outcome) ==
    LET own == <<c, inflight[c].seq>>
        value == CASE op.kind = "Get" /\ outcome.kind = "Value" -> outcome.value
                   [] op.kind = "Put" /\ outcome = Written -> own
                   [] op.kind = "Delete" /\ outcome = Written -> Absent
                   [] op.kind = "Cas" /\ outcome = CasIs(TRUE) -> own
                   [] op.kind = "Cas" /\ outcome = CasIs(FALSE) -> Absent
                   [] OTHER -> known[c][op.key]
    IN known' = [known EXCEPT ![c][op.key] = value]

(* `finish`: the history learns the answer. *)
Finish(c, m) ==
    /\ IsDefinite(m.outcome)
    /\ answer' = [answer EXCEPT ![c] =
                     [seq |-> inflight[c].seq, req |-> m.req, outcome |-> m.outcome]]
    /\ Remember(c, inflight[c].op, m.outcome)
    /\ inflight' = [inflight EXCEPT ![c] = None]
    /\ backingOff' = [backingOff EXCEPT ![c] = FALSE]
    /\ reqTimer' = [reqTimer EXCEPT ![c] = FALSE]
    /\ Think(c)
    /\ UNCHANGED <<seq, nextReq, stopped, retryTimers, requests>>

(* Mutant of IsCurrent: any reply to this client will do. *)
IsAnyReply(c, m) == m \in replies /\ m.client = c /\ inflight[c] # None

(* A reply to an attempt the client has moved on from is ignored. *)
IsCurrent(c, m) ==
    m \in replies /\ m.client = c /\ inflight[c] # None /\ m.req = inflight[c].req

(* `on_bytes`: an answer, or a reason to try elsewhere after a pause.      *)
OnReply(c, m) ==
    /\ IsCurrent(c, m)
    /\ \/ Finish(c, m)
       \/ ~IsDefinite(m.outcome) /\ (GiveUp(c) \/ BackOff(c))
    /\ UNCHANGED replies

(* `stop`: no new operations; the one in flight may finish.                *)
Stop(c) ==
    /\ c \in Stoppable /\ ~stopped[c]
    /\ stopped' = [stopped EXCEPT ![c] = TRUE]
    /\ UNCHANGED <<seq, inflight, backingOff, known, nextReq, clientTimers,
                   requests, replies, answer>>

ClientStep(c) ==
    \/ Begin(c) \/ RequestTimeout(c) \/ RetryTimer(c) \/ Stop(c)
    \/ \E m \in replies : OnReply(c, m)

-----------------------------------------------------------------------------
(* A client is never left without a timer that will move it on: not while  *)
(* it waits, not while it pauses, not between operations (`retry`,         *)
(* `attempt`, `think` each cancel and set one).                            *)
NeverStuck == \A c \in Client :
    /\ inflight[c] # None => IF backingOff[c] THEN retryTimers[c] > 0 ELSE reqTimer[c]
    /\ inflight[c] = None /\ ~stopped[c] => thinkTimers[c] > 0

(* The answer the history holds for an operation was given to one of that  *)
(* operation's own attempts, however late and repeated replies are.        *)
AnswersAreToTheirQuestion == \A c \in Client : answer[c] # None =>
    \E r \in requests : r.client = c /\ r.req = answer[c].req /\ r.seq = answer[c].seq
=============================================================================
