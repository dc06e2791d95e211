-------------------------------- MODULE World --------------------------------
(***************************************************************************)
(* The simulated world (`simcore/lib.rs`, `simcore/net.rs`,                *)
(* `simcore/faults.rs`, `sim-io/`) under the driver that runs it           *)
(* (`harness/cluster.rs`): one queue of events; servers that crash and     *)
(* restart; links that are cut, slowed and healed; the injector's ticks;   *)
(* and the driver's own delayed events.  A step is one turn of the loop in *)
(* `Cluster::run`: pop an event, count it against the budget, dispatch it, *)
(* reap what failed.                                                       *)
(*                                                                         *)
(* What a server does with an event is in Raft and Kv; here a handler may  *)
(* reset or disarm its timers, write to its disk and send a message.       *)
(* Clients are endpoints of the network: Workload models them.  Times are  *)
(* small numbers, a random delay any member of a set.  Clock jumps change  *)
(* what a server reads from its clock and nothing that is kept here.       *)
(***************************************************************************)
EXTENDS Scheduler

CONSTANTS
    Unset,              \* a deadline that is not armed
    Settings            \* the configurations and bounds a run starts from

VARIABLES
    sched,              \* World.sched
    up,                 \* World.up of the servers
    deadline,           \* the handle in each server's Deadline
    waits,              \* the disk operations each server waits for
    blocked, slow,      \* Network.blocked, Network.slow
    views,              \* the memberships the driver may find in use
    recovered,          \* FaultInjector.recovered
    reaped,             \* who was reaped since the recovery: a history, read by nobody
    finished,           \* Cluster.finished
    events, incomplete, \* Cluster.events, Cluster.incomplete
    env                 \* the setting, and what is spent of it

netVars == <<blocked, slow>>
tailVars == <<recovered, reaped>>
vars == <<sched, up, deadline, waits, netVars, views, tailVars, finished, events, incomplete, env>>

Server == env.server                \* every slot, the spares included
Client == env.client
FirstMembers == env.firstMembers    \* SimConfig.servers of them
Fault == env.fault                  \* the kinds that FaultConfig enables
AllowQuorumLoss == env.allowQuorumLoss
WindowStart == env.windowStart
WindowEnd == env.windowEnd
StopAt == env.stopAt
MaxEvents == env.maxEvents          \* SimConfig.max_events, the fuel of a run
TickDelay == env.tickDelay
HealDelay == env.healDelay
RestartDelay == env.restartDelay
TimerDelay == env.timerDelay
DiskDelay == env.diskDelay
NetDelay == env.netDelay
SlowFactor == env.slowFactor        \* NetConfig.slow_factor
Copies == env.copies                \* of a message, that the network may make; 0 is a loss
MaxWrites == env.maxWrites          \* bound: disk operations issued
MaxErrors == env.maxErrors          \* bound: disk operations that fail
MaxSends == env.maxSends            \* bound: messages sent

Node == Server \cup Client
FaultKind == {"crashes", "partitions", "slow_links", "clock_skew", "reconfig"}

ASSUME UnsetAssumption == Unset \notin Nat

ASSUME WorldAssumption == \A e \in Settings :
    /\ DOMAIN e = {"server", "client", "firstMembers", "fault", "allowQuorumLoss", "windowStart",
                   "windowEnd", "stopAt", "maxEvents", "tickDelay", "healDelay", "restartDelay", "timerDelay",
                   "diskDelay", "netDelay", "slowFactor", "copies", "maxWrites", "maxErrors",
                   "maxSends", "writes", "errors", "sends"}
    /\ e.writes = 0 /\ e.errors = 0 /\ e.sends = 0
    /\ IsFiniteSet(e.server)
    /\ e.firstMembers \subseteq e.server
    /\ e.server \cap e.client = {}
    /\ e.fault \subseteq FaultKind
    /\ e.allowQuorumLoss \in BOOLEAN
    /\ {e.windowStart, e.windowEnd, e.stopAt, e.maxEvents, e.slowFactor} \subseteq Nat
    /\ {e.maxWrites, e.maxErrors, e.maxSends} \subseteq Nat
    /\ UNION {e.tickDelay, e.healDelay, e.restartDelay, e.timerDelay, e.diskDelay, e.netDelay}
         \subseteq Nat \ {0}
    /\ {} \notin {e.tickDelay, e.healDelay, e.restartDelay, e.timerDelay}
    /\ e.copies \subseteq 0..2

-----------------------------------------------------------------------------
(* Events. *)

TimerEvent(n) == [kind |-> "timer", node |-> n]
StorageEvent(n, ok) == [kind |-> "storage", node |-> n, ok |-> ok]
DeliverEvent(from, to) == [kind |-> "deliver", from |-> from, to |-> to]
TickEvent == [kind |-> "tick"]
HealEvent == [kind |-> "heal"]
RestartEvent(n) == [kind |-> "restart", node |-> n]
StopEvent == [kind |-> "stop"]

OfKind(s, kind) == {e \in s.queue : e.event.kind = kind}
OfNode(s, kind, n) == {e \in OfKind(s, kind) : e.event.node = n}

-----------------------------------------------------------------------------
(* What a server asks of its Io during one event.                          *)

(* `Deadline::disarm`: the previous handle is cancelled. *)
Disarmed(s, handle) == IF handle = Unset THEN s ELSE Cancel(s, handle)

(* `Deadline::reset`: disarm, then set the timer; the handle is the id the *)
(* scheduler gives, which is the `nextId` of s.                            *)
Rearmed(s, handle, n, d) == After(Disarmed(s, handle), d, TimerEvent(n))

(* `World::send`: nothing across a cut link; otherwise copies, each with   *)
(* its own delay, longer on a slow link.                                   *)
Latency(from, to) ==
    IF <<from, to>> \in slow THEN {d * SlowFactor : d \in NetDelay} ELSE NetDelay

Sent(s, from, to, c, d1, d2) ==
    LET m == DeliverEvent(from, to)
    IN  IF <<from, to>> \in blocked \/ c = 0 THEN s
        ELSE IF c = 1 THEN After(s, d1, m)
        ELSE After(After(s, d1, m), d2, m)

(* What one handler of server n may leave of its timer, whose handle was h *)
(* when it began, of its disk and of the network.                          *)
TimerOutcomes(s, n, h) ==
    {[sched |-> s, handle |-> h], [sched |-> Disarmed(s, h), handle |-> Unset]}
        \cup {[sched |-> Rearmed(s, h, n, d), handle |-> s.nextId] : d \in TimerDelay}

(* `World::disk_write_at`, `disk_sync` and the others: the result is       *)
(* decided when the operation is issued and told when it completes.        *)
DiskOutcomes(s, n) ==
    {[sched |-> s, op |-> {}, failed |-> 0]}
        \cup {[sched |-> After(s, d, StorageEvent(n, ok)), op |-> {s.nextId},
               failed |-> IF ok THEN 0 ELSE 1] : d \in DiskDelay, ok \in BOOLEAN}

NetOutcomes(s, n) ==
    {[sched |-> s, sent |-> 0]}
        \cup UNION {{[sched |-> Sent(s, n, m, c, d1, d2), sent |-> 1] :
                        c \in Copies, d1 \in Latency(n, m), d2 \in Latency(n, m)} :
                    m \in Node \ {n}}

(* What server n, with the operations w still awaited, has after such a    *)
(* handler, and what that spends.                                          *)
Leaves(n, w, t, u, v) ==
    /\ deadline' = [deadline EXCEPT ![n] = t.handle]
    /\ waits' = [waits EXCEPT ![n] = w \cup u.op]
    /\ env' = [env EXCEPT !.writes = @ + Cardinality(u.op),
                          !.errors = @ + u.failed,
                          !.sends = @ + v.sent]
    /\ env'.writes <= MaxWrites
    /\ env'.errors <= MaxErrors
    /\ env'.sends <= MaxSends

(* The handler of server n, begun with scheduler s, handle h and the       *)
(* operations w still awaited.                                             *)
Handles(s, n, h, w) ==
    \E t \in TimerOutcomes(s, n, h) :
    \E u \in DiskOutcomes(t.sched, n) :
    \E v \in NetOutcomes(u.sched, n) :
        sched' = v.sched /\ Leaves(n, w, t, u, v)

-----------------------------------------------------------------------------
(* A server's life.                                                        *)

(* Mutant of Crashed: completions outlive the server that asked for them. *)
CrashedOnlyTimers(s, n) == Drop(s, OfNode(s, "timer", n))

(* `World::crash_node`: the timers and the completions of a crashed server *)
(* leave the queue, tombstones among them; messages stay.                  *)
Crashed(s, n) == Drop(s, OfNode(s, "timer", n) \cup OfNode(s, "storage", n))

(* The handles that the servers in ns get, one after the other. *)
NewHandles(s, ns) ==
    CHOOSE f \in [ns -> s.nextId..(s.nextId + Cardinality(ns) - 1)] :
        \A a, b \in ns : f[a] = f[b] => a = b

(* `Cluster::restart` of every server in ns, each arming its deadline in   *)
(* `KvServer::recover` after the delay ds gives it.                        *)
Restarted(s, ns, ds) ==
    [s EXCEPT !.nextId = @ + Cardinality(ns),
              !.queue = @ \cup {[time |-> s.now + ds[n], id |-> NewHandles(s, ns)[n],
                                 event |-> TimerEvent(n)] : n \in ns}]

Restart(s, ns) ==
    /\ \E ds \in [ns -> TimerDelay] : sched' = Restarted(s, ns, ds)
    /\ up' = [n \in Server |-> up[n] \/ n \in ns]
    /\ deadline' = [n \in Server |-> IF n \in ns THEN NewHandles(s, ns)[n] ELSE deadline[n]]
    /\ UNCHANGED waits

(* What a crash takes from the server itself. *)
Lose(n) ==
    /\ up' = [up EXCEPT ![n] = FALSE]
    /\ deadline' = [deadline EXCEPT ![n] = Unset]
    /\ waits' = [waits EXCEPT ![n] = {}]

Down == {n \in Server : ~up[n]}

-----------------------------------------------------------------------------
(* Links.                                                                  *)

Across(A, B) == {<<a, b>> : a \in A, b \in B}

(* `Network::partition`, of two groups: every directed link between them.  *)
Severed(A, B) == Across(A, B) \cup Across(B, A)

HealAll == blocked' = {} /\ slow' = {}

-----------------------------------------------------------------------------
Init ==
    /\ env \in Settings
    /\ \E ds \in [Server -> TimerDelay] :
         sched = At(At(Restarted(NewScheduler, Server, ds), WindowStart, TickEvent),
                    StopAt, StopEvent)
    /\ up = [n \in Server |-> TRUE]
    /\ deadline = NewHandles(NewScheduler, Server)
    /\ waits = [n \in Server |-> {}]
    /\ blocked = {} /\ slow = {}
    /\ views = {FirstMembers}
    /\ recovered = FALSE /\ reaped = {}
    /\ finished = FALSE
    /\ events = 0 /\ incomplete = FALSE

(* The loop goes round: `while !self.finished`, and there is an event. *)
Running == ~finished /\ ~incomplete /\ Live(sched) # {}

(* The turn of the loop that pops an event of this kind, and has the fuel  *)
(* to dispatch it.                                                         *)
Pops(kind) ==
    /\ Running
    /\ events + 1 <= MaxEvents
    /\ Head1(sched).event.kind = kind
    /\ events' = events + 1
    /\ UNCHANGED incomplete

(* Mutant of OutOfFuel: the run that gave up passes for a finished one. *)
OutOfFuelUntold ==
    /\ Running
    /\ events + 1 > MaxEvents
    /\ events' = events + 1
    /\ finished' = TRUE
    /\ sched' = Popped(sched)
    /\ UNCHANGED <<up, deadline, waits, netVars, views, tailVars, incomplete, env>>

(* The turn that finds no fuel: the event is lost and the loop breaks. *)
OutOfFuel ==
    /\ Running
    /\ events + 1 > MaxEvents
    /\ events' = events + 1
    /\ incomplete' = TRUE
    /\ sched' = Popped(sched)
    /\ UNCHANGED <<up, deadline, waits, netVars, views, tailVars, finished, env>>

Fired == Head1(sched).event

(* `Cluster::on_timer`.  A tombstone never gets here; `Deadline::fired`    *)
(* takes the handle.  A server that is down is told nothing.               *)
OnTimer ==
    LET n == Fired.node
    IN  /\ Pops("timer")
        /\ IF up[n] /\ deadline[n] # Unset
             THEN Handles(Popped(sched), n, Unset, waits[n])
             ELSE /\ sched' = Popped(sched)
                  /\ UNCHANGED <<deadline, waits, env>>
        /\ UNCHANGED <<up, netVars, views, tailVars, finished>>

(* Mutant of Reaped: the supervisor never brings a failed server back. *)
ReapedForGood(s, n) == {Crashed(s, n)}

(* `Event::Storage`.  On an error the server declares itself failed, and   *)
(* `reap_failed` crashes it and schedules its restart.                     *)
Reaped(s, n) == {After(Crashed(s, n), d, RestartEvent(n)) : d \in RestartDelay}

OnStorage ==
    LET n == Fired.node
    IN  /\ Pops("storage")
        /\ CASE ~up[n] ->
                  /\ sched' = Popped(sched)
                  /\ UNCHANGED <<up, deadline, waits, reaped, env>>
             [] up[n] /\ Fired.ok ->
                  /\ Handles(Popped(sched), n, deadline[n], waits[n] \ {Head1(sched).id})
                  /\ UNCHANGED <<up, reaped>>
             [] OTHER ->
                  /\ sched' \in Reaped(Popped(sched), n)
                  /\ Lose(n)
                  /\ reaped' = IF recovered THEN reaped \cup {n} ELSE reaped
                  /\ UNCHANGED env
        /\ UNCHANGED <<netVars, views, recovered, finished>>

(* `Cluster::on_deliver`: what arrives over a link that is cut by now, or  *)
(* at a server that is down, is dropped.                                   *)
OnDeliver ==
    LET n == Fired.to
    IN  /\ Pops("deliver")
        /\ IF n \in Server /\ <<Fired.from, n>> \notin blocked /\ up[n]
             THEN Handles(Popped(sched), n, deadline[n], waits[n])
             ELSE /\ sched' = Popped(sched)
                  /\ UNCHANGED <<deadline, waits, env>>
        /\ UNCHANGED <<up, netVars, views, tailVars, finished>>

OnHeal ==
    /\ Pops("heal")
    /\ sched' = Popped(sched)
    /\ HealAll
    /\ UNCHANGED <<up, deadline, waits, views, tailVars, finished, env>>

(* `APP_RESTART`; `restart` returns when the server is already up. *)
OnRestart ==
    /\ Pops("restart")
    /\ Restart(Popped(sched), {Fired.node} \cap Down)
    /\ UNCHANGED <<netVars, views, tailVars, finished, env>>

OnStop ==
    /\ Pops("stop")
    /\ sched' = Popped(sched)
    /\ finished' = TRUE
    /\ UNCHANGED <<up, deadline, waits, netVars, views, tailVars, env>>

-----------------------------------------------------------------------------
(* The injector's tick: `FaultInjector::decide`, then `apply_fault`, then  *)
(* the next tick.  `decide` is given the time of the tick.                 *)

Tick == Head1(sched).time

(* The fault window; `any_enabled` is that Fault is not empty. *)
InWindow == WindowStart <= Tick /\ Tick < WindowEnd

MaxDown(m) == IF AllowQuorumLoss THEN m - 1 ELSE (m - 1) \div 2

(* Counted among the members, by a membership the driver takes as current. *)
MayCrash(members) ==
    /\ Cardinality(Down \cap members) < MaxDown(Cardinality(members))
    /\ Down # Server

(* Mutant of TickAgain: the last tick of the window is the last tick. *)
TickInWindow(s, over) ==
    IF over \/ Tick + 1 >= WindowEnd THEN {s} ELSE {After(s, d, TickEvent) : d \in TickDelay}

(* The tick goes on from scheduler s: another one unless that was the end. *)
TickAgain(s, over) ==
    IF over THEN {s} ELSE {After(s, d, TickEvent) : d \in TickDelay}

(* `schedule_heal`. *)
HealLater(s) == {After(s, d, HealEvent) : d \in HealDelay}

InjectCrash ==
    /\ InWindow /\ "crashes" \in Fault
    /\ \E members \in views : MayCrash(members)
    /\ \E n \in Server \ Down :
         /\ sched' \in TickAgain(Crashed(Popped(sched), n), FALSE)
         /\ Lose(n)
    /\ UNCHANGED <<netVars, views, recovered>>

InjectRestart ==
    /\ InWindow /\ "crashes" \in Fault
    /\ \E n \in Down, d \in TimerDelay :
         /\ sched' \in TickAgain(After(Popped(sched), d, TimerEvent(n)), FALSE)
         /\ up' = [up EXCEPT ![n] = TRUE]
         /\ deadline' = [deadline EXCEPT ![n] = Popped(sched).nextId]
    /\ UNCHANGED <<waits, netVars, views, recovered>>

(* Each client is put on one side or the other. *)
InjectPartition ==
    /\ InWindow /\ "partitions" \in Fault
    /\ \E A \in SUBSET Node :
         /\ A \cap Server \notin {{}, Server}
         /\ blocked' = Severed(A, Node \ A)
    /\ slow' = {}
    /\ \E s \in HealLater(Popped(sched)) : sched' \in TickAgain(s, FALSE)
    /\ UNCHANGED <<up, deadline, waits, views, recovered>>

(* `Isolate`: from everyone; `IsolateFromPeers`: from the servers only. *)
InjectIsolation ==
    /\ InWindow /\ "partitions" \in Fault
    /\ \E n \in Server, from \in {Node, Server} :
         blocked' = blocked \cup Severed({n}, from \ {n})
    /\ \E s \in HealLater(Popped(sched)) : sched' \in TickAgain(s, FALSE)
    /\ UNCHANGED <<up, deadline, waits, slow, views, recovered>>

InjectHeal ==
    /\ InWindow /\ "partitions" \in Fault
    /\ HealAll
    /\ sched' \in TickAgain(Popped(sched), FALSE)
    /\ UNCHANGED <<up, deadline, waits, views, recovered>>

InjectSlowLink ==
    /\ InWindow /\ "slow_links" \in Fault
    /\ \E a, b \in Server : a # b /\ slow' = slow \cup {<<a, b>>}
    /\ sched' \in TickAgain(Popped(sched), FALSE)
    /\ UNCHANGED <<up, deadline, waits, blocked, views, recovered>>

(* `reconfigure`: whoever leads is asked to add a spare or, with more than *)
(* three members, to remove one; it may refuse, and there may be no leader.*)
CanRemove(members) == Cardinality(members) > 3

Changes(members) ==
    {members \cup {n} : n \in Server \ members}
        \cup (IF CanRemove(members) THEN {members \ {n} : n \in members} ELSE {})

(* A leader that takes the proposal writes it to its disk and sends it on  *)
(* in this turn, as any handler may.                                       *)
InjectReconfigure ==
    /\ InWindow /\ "reconfig" \in Fault
    /\ \E members \in views : \E next \in Changes(members) : views' = views \cup {next}
    /\ \E n \in Server \ Down :
       \E t \in TimerOutcomes(Popped(sched), n, deadline[n]) :
       \E u \in DiskOutcomes(t.sched, n) :
       \E v \in NetOutcomes(u.sched, n) :
         /\ sched' \in TickAgain(v.sched, FALSE)
         /\ Leaves(n, waits[n], t, u, v)
    /\ UNCHANGED <<up, netVars, recovered>>

(* Before the window, with nothing on the menu, for a clock jump and for a *)
(* change that is refused, the tick leaves all of this as it was.          *)
InjectNothing ==
    /\ Tick < WindowEnd
    /\ sched' \in TickAgain(Popped(sched), FALSE)
    /\ UNCHANGED <<up, deadline, waits, netVars, views, recovered>>

(* Mutant of Recover: the links heal and the servers stay as they are. *)
RecoverLinks ==
    /\ Tick >= WindowEnd
    /\ recovered' = TRUE
    /\ HealAll
    /\ sched' = Popped(sched)
    /\ UNCHANGED <<up, deadline, waits, views>>

(* At the end of the window: heal, bring everyone back, tick no more.  The *)
(* ticks stop with this one, so `decide` never finds `recovered` set.      *)
Recover ==
    /\ Tick >= WindowEnd
    /\ recovered' = TRUE
    /\ HealAll
    /\ Restart(Popped(sched), Down)
    /\ UNCHANGED views

OnTick ==
    /\ Pops("tick")
    /\ \/ InjectReconfigure
       \/ /\ \/ InjectCrash \/ InjectRestart \/ InjectPartition \/ InjectIsolation
             \/ InjectHeal \/ InjectSlowLink \/ InjectNothing
             \/ Recover
          /\ UNCHANGED env
    /\ UNCHANGED <<reaped, finished>>

(* The loop has ended: finished, out of fuel, or nothing is queued. *)
Ended ==
    /\ ~Running
    /\ UNCHANGED vars

Next ==
    \/ OnTimer \/ OnStorage \/ OnDeliver
    \/ OnTick \/ OnHeal \/ OnRestart \/ OnStop
    \/ OutOfFuel \/ Ended

Spec == Init /\ [][Next]_vars

-----------------------------------------------------------------------------
(* What is queued for a server is exactly what the server that runs now    *)
(* has asked for: the one timer its Deadline holds, and the completions it *)
(* waits for.  So no timer fires twice or never, nobody waits for an       *)
(* answer that cannot come, and nothing of an earlier life reaches a       *)
(* restarted server, whatever the order of resets, crashes and restarts.   *)
(* Only the event with which the loop runs out of fuel is taken and told   *)
(* to nobody; by then no one runs any more.                                *)
QueueMatchesServers ==
    ~incomplete => \A n \in Server :
        /\ {e.id : e \in OfNode(sched, "timer", n) \cap Live(sched)} = {deadline[n]} \ {Unset}
        /\ {e.id : e \in OfNode(sched, "storage", n)} = waits[n]

(* A server that is down will be looked at again: its own restart is       *)
(* queued, or the injector will tick and at the latest bring it back when  *)
(* the window closes.  A run that is out of fuel looks at nobody.          *)
NobodyIsForgotten ==
    ~incomplete => \A n \in Down : OfNode(sched, "restart", n) # {} \/ OfKind(sched, "tick") # {}

(* "After it closes the world heals and every node comes back"             *)
(* (`faults.rs`, the head comment): after the recovery every link stays    *)
(* whole, and a server that is down is one that `reap_failed` took down    *)
(* since, for a disk operation that failed.                                *)
QuietTail ==
    recovered => /\ blocked = {} /\ slow = {}
                 /\ Down \subseteq reaped

(* The loop of `Cluster::run` never runs dry, and within its fuel it never *)
(* stops early: when it ends, the stop event has come and the recovery     *)
(* before it, so that the tail in which the cluster must converge exists   *)
(* in every run whose settling time exceeds the longest tick.  The one     *)
(* exception is a run whose events exceed max_events: it may end anywhere, *)
(* and it is always marked incomplete, so that `finalize` does not judge   *)
(* the progress of a cluster that had no tail.                             *)
RunEndsHealed ==
    ~Running => IF events > MaxEvents
                  THEN incomplete /\ ~finished
                  ELSE finished /\ ~incomplete /\ recovered /\ blocked = {}
=============================================================================
