--------------------------------- MODULE Kv ---------------------------------
(***************************************************************************)
(* The server of `kvstore/server.rs` on top of the agreed log, with the    *)
(* clients of Workload: the state machine and its sessions, the requests   *)
(* that wait at an index, the reads that wait for a confirmation, and what *)
(* is told to whom when leadership, the log or the process is lost.        *)
(*                                                                         *)
(* Every event a server handles ends in `drain`.  The consensus below is   *)
(* AgreedLog, which Raft implements; a confirmed read is one that Raft's   *)
(* probes have shown to be accepted before any later leader was elected.   *)
(***************************************************************************)
EXTENDS Workload

CONSTANT Noop           \* the command of an entry no client asked for

VARIABLES
    log, commit, lead, newest, chosen,      \* the agreed log
    sm,                 \* by server: the state machine
    waiting,            \* by server: index -> the request that waits there
    reads,              \* by server: the reads not yet served
    began               \* history, by client: effects when its operation began

raftVars == <<log, commit, lead, newest, chosen>>
serverVars == <<sm, waiting, reads>>
vars == <<clientVars, requests, replies, raftVars, serverVars, began, env>>

ReadIndexMode == env.readIndexMode      \* RaftConfig.read_mode is ReadIndex
MaxTerm == env.maxTerm                  \* bound: elections
MaxLog == env.maxLog                    \* bound: entries
MaxInstalls == env.maxInstalls          \* bound: snapshots received
MaxAhead == env.maxAhead                \* bound: entries an image holds past its index
MaxCrashes == env.maxCrashes            \* bound: crashes

ASSUME KvAssumption ==
    /\ Scenarios \subseteq
         [opKinds : [Client -> SUBSET {"Get", "Put", "Delete", "Cas"}], maxAttempts : Nat \ {0},
          maxOps : [Client -> Nat], stoppable : SUBSET Client, maxRetryTimers : Nat,
          readIndexMode : BOOLEAN, maxTerm : Nat, maxLog : Nat, maxInstalls : Nat,
          maxAhead : Nat, maxCrashes : Nat, installs : {0}, crashes : {0}]
    /\ Noop \notin Command
    /\ None \notin [cmd : Command, from : Nat]
    /\ None \notin [seq : Nat, outcome : Outcome]

KvEntry == [term : Nat, cmd : Command \cup {Noop}]

Raft == INSTANCE AgreedLog WITH Entry <- KvEntry

-----------------------------------------------------------------------------
(* `StateMachine` *)

NewMachine == [map |-> EmptyMap, sessions |-> [c \in Client |-> [seq |-> 0, outcome |-> None]]]

(* Mutant of IsRepeat: a retry is applied again. *)
NeverRepeats(machine, cmd) == FALSE

(* A command of this session, or a later one, has been applied already.    *)
IsRepeat(machine, cmd) == machine.sessions[cmd.client].seq >= cmd.seq

(* `apply`: the answer, and the machine it leaves.                         *)
ResultOf(machine, cmd) ==
    IF cmd = Noop THEN Written
    ELSE IF IsRepeat(machine, cmd) THEN machine.sessions[cmd.client].outcome
    ELSE OutcomeOf(machine.map, cmd)

ApplyTo(machine, entry) ==
    LET cmd == entry.cmd IN
    IF cmd = Noop \/ IsRepeat(machine, cmd) THEN machine
    ELSE [map |-> MapAfter(machine.map, cmd),
          sessions |-> [machine.sessions EXCEPT ![cmd.client] =
                           [seq |-> cmd.seq, outcome |-> ResultOf(machine, cmd)]]]

Replay(machine, entries) ==
    LET after[i \in 0..Len(entries)] ==
          IF i = 0 THEN machine ELSE ApplyTo(after[i - 1], entries[i])
    IN after[Len(entries)]

(* The image a snapshot of the first j entries holds.                      *)
ImageAt(j) == Replay(NewMachine, SubSeq(chosen, 1, j))

-----------------------------------------------------------------------------
ReplyTo(w, outcome) == [client |-> w.client, req |-> w.req, outcome |-> outcome]

(* The slot may have been filled by another command, of a later leader.    *)
IsOwn(w, cmd) == cmd # Noop /\ w.client = cmd.client /\ w.seq = cmd.seq

(* Mutant of IsOver: losing the leadership releases no one. *)
IsApplied(s, i) == i <= commit'[s]

(* Applied, or past what a node that no longer leads can answer for.       *)
IsOver(s, i) == i <= commit'[s] \/ lead'[s] = 0

(* `drain`: with the machine base, which reflects the first from entries,  *)
(* apply what is committed now, answer those who waited for it and the     *)
(* reads it makes ready, and release those this node can no longer answer. *)
Drain(s, base, from, waits, rds) ==
    LET applied == commit'[s]
        machine(i) == Replay(base, SubSeq(log'[s], from + 1, i))
        leads == lead'[s] # 0
        over == {i \in DOMAIN waits : IsOver(s, i)}
        verdict(i) == IF i \in (from + 1)..applied /\ IsOwn(waits[i], log'[s][i].cmd)
                      THEN ResultOf(machine(i - 1), log'[s][i].cmd)
                      ELSE Dropped
        ready == {r \in rds : leads /\ r.confirmed /\ r.index <= applied}
        failed == {r \in rds : ~leads}
    IN /\ sm' = [sm EXCEPT ![s] = machine(applied)]
       /\ waiting' = [waiting EXCEPT ![s] = [i \in DOMAIN waits \ over |-> waits[i]]]
       /\ reads' = [reads EXCEPT ![s] = rds \ (ready \cup failed)]
       /\ replies' = replies
            \cup {ReplyTo(waits[i], verdict(i)) : i \in over}
            \cup {ReplyTo(r, ValueIs(sm'[s].map[r.key])) : r \in ready}
            \cup {ReplyTo(r, Dropped) : r \in failed}

DrainAll(s) == Drain(s, sm[s], commit[s], waiting[s], reads[s])

-----------------------------------------------------------------------------
(* `on_request`, one action for each way out of it.                        *)

Arrives(s, r) == r \in requests /\ r.to = s

Respond(r, outcome) ==
    /\ replies' = replies \cup {ReplyTo(r, outcome)}
    /\ UNCHANGED <<raftVars, serverVars>>

Redirect(s, r) == Arrives(s, r) /\ lead[s] = 0 /\ Respond(r, NotLeader)

(* `cached`: this very request has been applied.                           *)
IsCached(s, r) == sm[s].sessions[r.client].seq = r.seq

AnswerFromSession(s, r) ==
    /\ Arrives(s, r) /\ lead[s] # 0
    /\ IsCached(s, r)
    /\ Respond(r, sm[s].sessions[r.client].outcome)

(* `request_read` accepts once an entry of the leader's term is committed. *)
TermIsCommitted(s) == commit[s] > 0 /\ log[s][commit[s]].term = lead[s]
ReadsByIndex(s, r) == ReadIndexMode /\ r.op.kind = "Get" /\ TermIsCommitted(s)

AcceptRead(s, r) ==
    /\ Arrives(s, r) /\ lead[s] # 0 /\ ~IsCached(s, r)
    /\ ReadsByIndex(s, r)
    /\ UNCHANGED raftVars
    /\ Drain(s, sm[s], commit[s], waiting[s], reads[s] \cup
         {[client |-> r.client, req |-> r.req, key |-> r.op.key, index |-> commit[s],
           term |-> lead[s], deposed |-> lead[s] < newest, confirmed |-> FALSE]})

(* A copy of a request that already waits takes its place.                 *)
JoinWaiting(s, r) ==
    /\ Arrives(s, r) /\ lead[s] # 0 /\ ~IsCached(s, r) /\ ~ReadsByIndex(s, r)
    /\ \E i \in DOMAIN waiting[s] :
         /\ waiting[s][i].client = r.client /\ waiting[s][i].seq = r.seq
         /\ waiting' = [waiting EXCEPT ![s][i].req = r.req]
    /\ UNCHANGED <<raftVars, sm, reads, replies>>

Propose(s, r) ==
    /\ Arrives(s, r) /\ lead[s] # 0 /\ ~IsCached(s, r) /\ ~ReadsByIndex(s, r)
    /\ \A i \in DOMAIN waiting[s] : waiting[s][i].client # r.client \/ waiting[s][i].seq # r.seq
    /\ Len(log[s]) < MaxLog
    /\ Raft!Accept(s, [term |-> lead[s],
                       cmd |-> [client |-> r.client, seq |-> r.seq, op |-> r.op]])
    /\ LET index == Len(log[s]) + 1
           slot == [client |-> r.client, req |-> r.req, seq |-> r.seq]
       IN Drain(s, sm[s], commit[s],
                [i \in DOMAIN waiting[s] \cup {index} |->
                    IF i = index THEN slot ELSE waiting[s][i]],
                reads[s])

OnRequest(s, r) ==
    /\ \/ Redirect(s, r) \/ AnswerFromSession(s, r) \/ AcceptRead(s, r)
       \/ JoinWaiting(s, r) \/ Propose(s, r)
    /\ UNCHANGED <<clientVars, requests, began, env>>

-----------------------------------------------------------------------------
(* What the consensus does to a server: `on_raft`, `on_timer`,             *)
(* `on_storage`, each followed by `drain`.                                 *)

Elected(s) ==
    /\ newest < MaxTerm /\ Len(log[s]) < MaxLog
    /\ Raft!Elect(s, newest + 1, [term |-> newest + 1, cmd |-> Noop])
    /\ DrainAll(s)
    /\ UNCHANGED <<clientVars, requests, began, env>>

Commits(s) ==
    /\ \E k \in 1..Len(log[s]) : Raft!Choose(s, k)
    /\ DrainAll(s)
    /\ UNCHANGED <<clientVars, requests, began, env>>

(* An append from the leader p, with the commit index it carried.          *)
Follows(s, p) ==
    /\ lead[p] > lead[s]
    /\ \E n \in 0..Len(log[p]) : \E k \in commit[s]..Min({n, commit[p]}) :
         Raft!Follow(s, SubSeq(log[p], 1, n), k)
    /\ DrainAll(s)
    /\ UNCHANGED <<clientVars, requests, began, env>>

StepsDown(s) ==
    /\ lead[s] # 0
    /\ Raft!Follow(s, log[s], commit[s])
    /\ DrainAll(s)
    /\ UNCHANGED <<clientVars, requests, began, env>>

(* A probe of this term was answered by a majority: had a later leader     *)
(* been elected before the read arrived, it could not have been.           *)
ReadConfirmed(s) ==
    /\ UNCHANGED <<clientVars, requests, raftVars, began, env>>
    /\ \E r \in reads[s] :
         /\ ~r.confirmed /\ ~r.deposed
         /\ Drain(s, sm[s], commit[s], waiting[s],
                  (reads[s] \ {r}) \cup {[r EXCEPT !.confirmed = TRUE]})

(* `adopt_snapshot`: a leader's image replaces the machine, and all who    *)
(* wait are released.  The image may include entries past the index it is  *)
(* announced for (`take_snapshot` replaces the blob first); those are then *)
(* applied to it once more.                                                *)
InstallSnapshot(s, k, j) ==
    /\ env.installs < MaxInstalls
    /\ env' = [env EXCEPT !.installs = @ + 1]
    /\ k > commit[s] /\ j \in k..(k + MaxAhead)
    /\ LET prefix == SubSeq(chosen, 1, k)
       IN Raft!Follow(s, IF Raft!Extends(log[s], prefix) THEN log[s] ELSE prefix, k)
    /\ sm' = [sm EXCEPT ![s] = ImageAt(j)]
    /\ waiting' = [waiting EXCEPT ![s] = <<>>]
    /\ reads' = [reads EXCEPT ![s] = {}]
    /\ replies' = replies \cup
         {ReplyTo(waiting[s][i], Dropped) : i \in DOMAIN waiting[s]} \cup
         {ReplyTo(r, Dropped) : r \in reads[s]}
    /\ UNCHANGED <<clientVars, requests, began>>

(* What the snapshot of index k on disk may hold: just that much, or more  *)
(* if a leader sent it.                                                    *)
OnDisk(k) == {j \in k..(k + MaxAhead) : j <= Len(chosen) /\ (j > k => k > 0 /\ env.installs > 0)}

(* Mutant of RecoveredMachine: the machine outlives the process. *)
SurvivingMachine(s, j) == sm[s]

RecoveredMachine(s, j) == ImageAt(j)

(* `KvServer::recover`: everything volatile is gone, and the machine is    *)
(* empty, or the image of the snapshot on disk.                            *)
CrashAndRecover(s) ==
    /\ env.crashes < MaxCrashes
    /\ env' = [env EXCEPT !.crashes = @ + 1]
    /\ \E k \in (IF MaxInstalls = 0 THEN {0} ELSE 0..commit[s]) :
       \E n \in {Max({k, commit[s]}), Len(log[s])}, j \in OnDisk(k) :
         /\ Raft!Crash(s, SubSeq(log[s], 1, n), k)
         /\ sm' = [sm EXCEPT ![s] = RecoveredMachine(s, j)]
    /\ waiting' = [waiting EXCEPT ![s] = <<>>]
    /\ reads' = [reads EXCEPT ![s] = {}]
    /\ UNCHANGED <<clientVars, requests, replies, began>>

-----------------------------------------------------------------------------
(* The commands that took effect: of every session, the ones that are not  *)
(* behind a later one, and each once.                                      *)
TakeEffect(acc, entry) ==
    LET cmd == entry.cmd IN
    IF cmd = Noop \/ acc.last[cmd.client] >= cmd.seq THEN acc
    ELSE [order |-> IF cmd.op.kind = "Get" THEN acc.order ELSE Append(acc.order, cmd),
          last |-> [acc.last EXCEPT ![cmd.client] = cmd.seq]]

EffectsOf(entries) ==
    LET after[i \in 0..Len(entries)] ==
          IF i = 0 THEN [order |-> <<>>, last |-> [c \in Client |-> 0]]
          ELSE TakeEffect(after[i - 1], entries[i])
    IN after[Len(entries)]

Effects == EffectsOf(chosen).order

Init ==
    /\ ClientInit
    /\ log = [s \in Server |-> <<>>]
    /\ commit = [s \in Server |-> 0]
    /\ lead = [s \in Server |-> 0]
    /\ newest = 0
    /\ chosen = <<>>
    /\ sm = [s \in Server |-> NewMachine]
    /\ waiting = [s \in Server |-> <<>>]
    /\ reads = [s \in Server |-> {}]
    /\ began = [c \in Client |-> 0]

ClientActs(c) ==
    /\ ClientStep(c)
    /\ began' = [began EXCEPT ![c] = IF seq'[c] > seq[c] THEN Len(Effects) ELSE @]
    /\ UNCHANGED <<raftVars, serverVars, env>>

Next ==
    \/ \E c \in Client : ClientActs(c)
    \/ \E s \in Server :
         \/ \E r \in requests : OnRequest(s, r)
         \/ Elected(s) \/ Commits(s) \/ StepsDown(s) \/ ReadConfirmed(s)
         \/ \E p \in Server : Follows(s, p)
         \/ \E k, j \in 1..Len(chosen) : InstallSnapshot(s, k, j)
         \/ CrashAndRecover(s)

Spec == Init /\ [][Next]_vars

-----------------------------------------------------------------------------
Store == INSTANCE AtomicStore WITH
    order <- Effects,
    open <- [c \in Client |->
               IF inflight[c] = None THEN None
               ELSE [cmd |-> [client |-> c, seq |-> inflight[c].seq, op |-> inflight[c].op],
                     from |-> began[c]]],
    invoked <- {[client |-> r.client, seq |-> r.seq, op |-> r.op] : r \in requests},
    answer <- [c \in Client |->
                 IF answer[c] = None THEN None
                 ELSE [seq |-> answer[c].seq, outcome |-> answer[c].outcome]]

(* The clients see an atomic store: whatever is retried, repeated,         *)
(* redirected, dropped or replayed after a crash, every operation takes    *)
(* effect at most once, between its invocation and its answer, and the     *)
(* answer is what it did (`apply`, `cached`, `drain`, `take_ready_reads`). *)
IsLinearizable == Store!StoreSpec

(* A request waits only where this leader put its command, and above what  *)
(* is applied, so that `drain` will answer or release it.                  *)
WaitingIsOwn == \A s \in Server : \A i \in DOMAIN waiting[s] :
    /\ lead[s] # 0 /\ i > commit[s] /\ i \in DOMAIN log[s]
    /\ IsOwn(waiting[s][i], log[s][i].cmd)

(* The machine is what a prefix of the chosen entries makes it, whether it *)
(* applied them, loaded an image of them or replayed them after a crash:   *)
(* the prefix that is applied, or, until the node catches up, the longer   *)
(* one of an image that ran ahead of its index; so servers that have       *)
(* applied everything hold the same data (`check_convergence`).            *)
MachineIsItsPrefix == \A s \in Server :
    \E j \in commit[s]..Min({commit[s] + MaxAhead, Len(chosen)}) : sm[s] = ImageAt(j)
=============================================================================
