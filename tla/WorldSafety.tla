----------------------------- MODULE WorldSafety -----------------------------
(***************************************************************************)
(* Proofs about World: the queue holds what the servers that run have      *)
(* asked for, nobody who is down is forgotten, the tail after the fault    *)
(* window is quiet, and the loop does not end before it.                   *)
(***************************************************************************)
EXTENDS World, FiniteSetTheorems, WellFoundedInduction, TLAPS

-----------------------------------------------------------------------------
(* The scheduler.                                                          *)

(* Every nonempty set of natural numbers has a least element. *)
LEMMA Least ==
    ASSUME NEW T \in SUBSET Nat, T # {}
    PROVE  \E n \in T : \A m \in T : n <= m
<1> DEFINE R == OpToRel(<, Nat)
<1>1. R = {ss \in Nat \X Nat : ss[1] < ss[2]}
  BY DEF OpToRel
<1>2. \A m, n \in Nat : m < n => <<m, n>> \in R
  BY <1>1
<1>3. IsWellFoundedOn(R, Nat)
  BY NatLessThanWellFounded
<1> HIDE DEF R
<1>4. PICK n \in T : \A m \in T : ~ <<m, n>> \in R
  BY <1>3, WFMin
<1>5. ASSUME NEW m \in T PROVE n <= m
  <2>1. m \in Nat /\ n \in Nat
    OBVIOUS
  <2>2. ~(m < n)
    BY <2>1, <1>2, <1>4
  <2> QED
    BY <2>1, <2>2
<1> QED
  BY <1>5

(* Events that are for a server name one. *)
EventOK(e) == e.kind \in {"timer", "storage", "restart"} => e.node \in Server

(* Ids are given once, in order; only timers are cancelled. *)
SchedOK(s) ==
    /\ s = [now |-> s.now, nextId |-> s.nextId, queue |-> s.queue, cancelled |-> s.cancelled]
    /\ s.now \in Nat /\ s.nextId \in Nat
    /\ IsFiniteSet(s.queue)
    /\ \A e \in s.queue :
         /\ e.time \in Nat /\ e.id \in Nat /\ e.id < s.nextId /\ EventOK(e.event)
         /\ e.id \in s.cancelled => e.event.kind = "timer"
    /\ \A e, f \in s.queue : e.id = f.id => e = f
    /\ \A i \in s.cancelled : i \in Nat /\ i < s.nextId

(* There is a first live entry. *)
LEMMA HeadFacts ==
    ASSUME NEW s, SchedOK(s), Live(s) # {}
    PROVE  /\ Head1(s) \in Live(s)
           /\ \A f \in Live(s) \ {Head1(s)} : Before(Head1(s), f)
<1> DEFINE L == Live(s)
           T == {e.time : e \in L}
<1>1. \A e \in L : e.time \in Nat /\ e.id \in Nat
  BY DEF SchedOK, Live
<1>2. T \in SUBSET Nat /\ T # {}
  BY <1>1
<1>3. PICK t \in T : \A u \in T : t <= u
  <2> HIDE DEF T
  <2> QED
    BY <1>2, Least
<1> DEFINE I == {e.id : e \in {f \in L : f.time = t}}
<1>4. I \in SUBSET Nat /\ I # {}
  BY <1>1, <1>3
<1>5. PICK i \in I : \A j \in I : i <= j
  <2> HIDE DEF I
  <2> QED
    BY <1>4, Least
<1>6. PICK e \in L : e.time = t /\ e.id = i
  BY <1>5
<1>7. \A f \in L \ {e} : Before(e, f)
  <2>1. SUFFICES ASSUME NEW f \in L \ {e} PROVE Before(e, f)
    OBVIOUS
  <2>2. t <= f.time /\ t \in Nat /\ f.time \in Nat
    BY <1>1, <1>2, <1>3, <2>1
  <2>3. f.time = t => i <= f.id
    BY <1>5, <2>1
  <2>4. f.id # i
    BY <1>6, <2>1 DEF SchedOK, Live
  <2>5. i \in Nat /\ f.id \in Nat
    BY <1>1, <1>6, <2>1
  <2> QED
    BY <1>6, <2>2, <2>3, <2>4, <2>5 DEF Before
<1> HIDE DEF T, I
<1>8. \E g \in Live(s) : \A f \in Live(s) \ {g} : Before(g, f)
  BY <1>6, <1>7
<1> QED
  BY <1>8 DEF Head1

(* Taking it leaves the other live entries, and drops tombstones only.     *)
LEMMA PoppedFacts ==
    ASSUME NEW s, SchedOK(s), Live(s) # {}, NEW h, h = Head1(s)
    PROVE  /\ h \in s.queue /\ h.id \notin s.cancelled /\ h.time \in Nat /\ EventOK(h.event)
           /\ SchedOK(Popped(s))
           /\ Popped(s).nextId = s.nextId /\ Popped(s).now = h.time
           /\ h \notin Popped(s).queue /\ Popped(s).queue \subseteq s.queue
           /\ \A e \in s.queue : e = h \/ e \in Popped(s).queue \/ e.event.kind = "timer"
           /\ Live(Popped(s)) = Live(s) \ {h}
<1> DEFINE p == Popped(s)
           front == {f \in s.queue : Before(f, h)}
<1>1. h \in Live(s) /\ \A f \in Live(s) \ {h} : Before(h, f)
  BY HeadFacts
<1>2. h \in s.queue /\ h.id \notin s.cancelled /\ h.time \in Nat /\ h.id \in Nat /\ EventOK(h.event)
  BY <1>1 DEF Live, SchedOK
<1>3. /\ p.now = h.time /\ p.queue = s.queue \ (front \cup {h}) /\ p.nextId = s.nextId
      /\ p.cancelled = s.cancelled \ {f.id : f \in front}
      /\ p = [now |-> p.now, nextId |-> p.nextId, queue |-> p.queue, cancelled |-> p.cancelled]
  <2>1. Popped(s) = [s EXCEPT !.now = h.time, !.queue = @ \ (front \cup {h}),
                              !.cancelled = @ \ {f.id : f \in front}]
    BY DEF Popped
  <2>2. s = [now |-> s.now, nextId |-> s.nextId, queue |-> s.queue, cancelled |-> s.cancelled]
    BY DEF SchedOK
  <2> HIDE DEF front
  <2>3. Popped(s) = [now |-> h.time, nextId |-> s.nextId, queue |-> s.queue \ (front \cup {h}),
                     cancelled |-> s.cancelled \ {f.id : f \in front}]
    BY <2>1, <2>2
  <2> QED
    BY <2>3
<1>4. \A f \in front : f \in s.queue /\ f.id \in s.cancelled /\ f.event.kind = "timer"
  <2>1. SUFFICES ASSUME NEW f \in front, f.id \notin s.cancelled PROVE FALSE
    BY DEF SchedOK
  <2>2. f \in Live(s) /\ Before(f, h) /\ f.time \in Nat /\ f.id \in Nat
    BY <2>1 DEF Live, SchedOK
  <2>3. ~Before(h, f) /\ f # h
    BY <1>2, <2>2 DEF Before
  <2> QED
    BY <1>1, <2>2, <2>3
<1>5. \A e \in p.queue : e \in s.queue /\ (e.id \in p.cancelled <=> e.id \in s.cancelled)
  <2>1. SUFFICES ASSUME NEW e \in p.queue, NEW f \in front, e.id = f.id PROVE FALSE
    BY <1>3
  <2>2. e \in s.queue /\ e \notin front
    BY <1>3, <2>1
  <2> QED
    BY <2>1, <2>2 DEF SchedOK
<1>6. IsFiniteSet(p.queue)
  BY <1>3, FS_Subset DEF SchedOK
<1> HIDE DEF front, p
<1>7. SchedOK(p)
  BY <1>2, <1>3, <1>5, <1>6 DEF SchedOK
<1>8. Live(p) = Live(s) \ {h}
  BY <1>1, <1>3, <1>4, <1>5 DEF Live
<1>9. \A e \in s.queue : e = h \/ e \in p.queue \/ e.event.kind = "timer"
  BY <1>3, <1>4
<1> QED
  BY <1>2, <1>3, <1>7, <1>8, <1>9 DEF p

LEMMA AtFacts ==
    ASSUME NEW s, SchedOK(s), NEW t \in Nat, NEW v, EventOK(v),
           NEW x, x = [time |-> t, id |-> s.nextId, event |-> v],
           NEW u, u = At(s, t, v)
    PROVE  /\ SchedOK(u) /\ u.now = s.now /\ u.nextId = s.nextId + 1
           /\ u.queue = s.queue \cup {x} /\ x \notin s.queue /\ x.id \notin s.cancelled
           /\ Live(u) = Live(s) \cup {x}
<1>1. s = [now |-> s.now, nextId |-> s.nextId, queue |-> s.queue, cancelled |-> s.cancelled]
  BY DEF SchedOK
<1>2. u = [now |-> s.now, nextId |-> s.nextId + 1, queue |-> s.queue \cup {x},
           cancelled |-> s.cancelled]
  BY <1>1 DEF At
<1>3. x.time = t /\ x.id = s.nextId /\ x.event = v
  OBVIOUS
<1>4. s.nextId \in Nat /\ x \notin s.queue /\ x.id \notin s.cancelled
  BY <1>3 DEF SchedOK
<1>5. IsFiniteSet(u.queue)
  BY <1>2, FS_AddElement DEF SchedOK
<1>6. \A e \in u.queue : /\ e.time \in Nat /\ e.id \in Nat /\ e.id < u.nextId /\ EventOK(e.event)
                         /\ e.id \in u.cancelled => e.event.kind = "timer"
  BY <1>2, <1>3, <1>4 DEF SchedOK
<1>7. \A e, f \in u.queue : e.id = f.id => e = f
  BY <1>2, <1>3, <1>4 DEF SchedOK
<1>8. \A i \in u.cancelled : i \in Nat /\ i < u.nextId
  BY <1>2, <1>4 DEF SchedOK
<1>9. SchedOK(u)
  BY <1>2, <1>4, <1>5, <1>6, <1>7, <1>8 DEF SchedOK
<1> QED
  BY <1>2, <1>3, <1>4, <1>9 DEF Live

LEMMA AfterFacts ==
    ASSUME NEW s, SchedOK(s), NEW d \in Nat, NEW v, EventOK(v),
           NEW x, x = [time |-> s.now + d, id |-> s.nextId, event |-> v],
           NEW u, u = After(s, d, v)
    PROVE  /\ SchedOK(u) /\ u.now = s.now /\ u.nextId = s.nextId + 1
           /\ u.queue = s.queue \cup {x} /\ x \notin s.queue /\ x.id \notin s.cancelled
           /\ Live(u) = Live(s) \cup {x}
<1>1. s.now + d \in Nat /\ u = At(s, s.now + d, v)
  BY DEF After, SchedOK
<1> QED
  BY <1>1, AtFacts

LEMMA CancelFacts ==
    ASSUME NEW s, SchedOK(s), NEW i \in Nat, i < s.nextId,
           \A e \in s.queue : e.id = i => e.event.kind = "timer",
           NEW u, u = Cancel(s, i)
    PROVE  /\ SchedOK(u) /\ u.now = s.now /\ u.nextId = s.nextId /\ u.queue = s.queue
           /\ Live(u) = {e \in Live(s) : e.id # i}
<1>1. s = [now |-> s.now, nextId |-> s.nextId, queue |-> s.queue, cancelled |-> s.cancelled]
  BY DEF SchedOK
<1>2. u = [now |-> s.now, nextId |-> s.nextId, queue |-> s.queue, cancelled |-> s.cancelled \cup {i}]
  BY <1>1 DEF Cancel
<1> QED
  BY <1>2 DEF SchedOK, Live

LEMMA DropFacts ==
    ASSUME NEW s, SchedOK(s), NEW gone, NEW u, u = Drop(s, gone)
    PROVE  /\ SchedOK(u) /\ u.now = s.now /\ u.nextId = s.nextId /\ u.queue = s.queue \ gone
           /\ Live(u) = Live(s) \ gone
<1>1. s = [now |-> s.now, nextId |-> s.nextId, queue |-> s.queue, cancelled |-> s.cancelled]
  BY DEF SchedOK
<1>2. u = [now |-> s.now, nextId |-> s.nextId, queue |-> s.queue \ gone, cancelled |-> s.cancelled]
  BY <1>1 DEF Drop
<1>3. IsFiniteSet(u.queue)
  BY <1>2, FS_Subset DEF SchedOK
<1> QED
  BY <1>2, <1>3 DEF SchedOK, Live

-----------------------------------------------------------------------------
(* What is queued for a server.                                            *)

IsTimer(e, n) == e.event.kind = "timer" /\ e.event.node = n
IsStorage(e, n) == e.event.kind = "storage" /\ e.event.node = n

(* Its one live timer has the handle h; there is none if that is unset.    *)
TimerOK(s, n, h) ==
    /\ h \in Nat \cup {Unset}
    /\ \A e \in Live(s) : IsTimer(e, n) => e.id = h
    /\ h # Unset => \E e \in Live(s) : IsTimer(e, n) /\ e.id = h

(* The completions that are queued for it are those in w. *)
StorageOK(s, n, w) ==
    /\ \A e \in s.queue : IsStorage(e, n) => e.id \in w
    /\ \A i \in w : \E e \in s.queue : IsStorage(e, n) /\ e.id = i

SameTimers(s, u, n) == \A e : IsTimer(e, n) => (e \in Live(s) <=> e \in Live(u))
SameStorage(s, u, n) == \A e : IsStorage(e, n) => (e \in s.queue <=> e \in u.queue)

(* The entries of the driver, but for heals. *)
IsDriver(e) == e.event.kind \in {"tick", "restart", "stop"}
SameDriver(s, u) == \A e : IsDriver(e) => (e \in s.queue <=> e \in u.queue)

LEMMA KeepsTimer ==
    ASSUME NEW s, NEW u, NEW n, NEW h, TimerOK(s, n, h), SameTimers(s, u, n)
    PROVE  TimerOK(u, n, h)
  BY DEF TimerOK, SameTimers

LEMMA KeepsStorage ==
    ASSUME NEW s, NEW u, NEW n, NEW w, StorageOK(s, n, w), SameStorage(s, u, n)
    PROVE  StorageOK(u, n, w)
  BY DEF StorageOK, SameStorage

(* What is queued for n is what it has asked for. *)
Asked(s, n, h, w) == TimerOK(s, n, h) /\ StorageOK(s, n, w)

LEMMA KeepsAsked ==
    ASSUME NEW s, NEW u, NEW n, NEW h, NEW w, Asked(s, n, h, w),
           SameTimers(s, u, n), SameStorage(s, u, n)
    PROVE  Asked(u, n, h, w)
  BY KeepsTimer, KeepsStorage DEF Asked

(* Disarming takes n's timer out of play, and nobody else's. *)
LEMMA DisarmedFacts ==
    ASSUME NEW s, SchedOK(s), NEW n \in Server, NEW h, TimerOK(s, n, h), NEW u, u = Disarmed(s, h)
    PROVE  /\ SchedOK(u) /\ u.now = s.now /\ u.nextId = s.nextId /\ u.queue = s.queue
           /\ TimerOK(u, n, Unset) /\ \A k \in Server \ {n} : SameTimers(s, u, k)
<1>1. CASE h = Unset
  BY <1>1 DEF Disarmed, SameTimers
<1>2. CASE h # Unset
  <2>1. PICK x \in Live(s) : IsTimer(x, n) /\ x.id = h
    BY <1>2 DEF TimerOK
  <2>2. x \in s.queue /\ h \in Nat /\ h < s.nextId
    BY <2>1 DEF Live, SchedOK
  <2>3. \A e \in s.queue : e.id = h => e = x
    BY <2>1, <2>2 DEF SchedOK
  <2>4. \A e \in s.queue : e.id = h => e.event.kind = "timer"
    BY <2>1, <2>3 DEF IsTimer
  <2>5. u = Cancel(s, h)
    BY <1>2 DEF Disarmed
  <2>6. /\ SchedOK(u) /\ u.now = s.now /\ u.nextId = s.nextId /\ u.queue = s.queue
        /\ Live(u) = {e \in Live(s) : e.id # h}
    BY <2>2, <2>4, <2>5, CancelFacts
  <2>7. TimerOK(u, n, Unset)
    BY <2>6 DEF TimerOK
  <2>8. ASSUME NEW k \in Server \ {n} PROVE SameTimers(s, u, k)
    <3>1. \A e \in Live(s) : IsTimer(e, k) => e.id # h
      BY <2>1, <2>3, <2>8 DEF IsTimer, Live
    <3> QED
      BY <2>6, <3>1 DEF SameTimers
  <2> QED
    BY <2>6, <2>7, <2>8
<1> QED
  BY <1>1, <1>2

(* A new entry is of one kind, and for at most one server. *)
LEMMA Added ==
    ASSUME NEW s, NEW u, NEW x, u.queue = s.queue \cup {x}, Live(u) = Live(s) \cup {x}
    PROVE  /\ \A n : ~IsTimer(x, n) => SameTimers(s, u, n)
           /\ \A n : ~IsStorage(x, n) => SameStorage(s, u, n)
           /\ ~IsDriver(x) => SameDriver(s, u)
  BY DEF SameTimers, SameStorage, SameDriver

LEMMA RearmedFacts ==
    ASSUME NEW s, SchedOK(s), NEW n \in Server, NEW h, TimerOK(s, n, h), NEW d \in Nat,
           NEW u, u = Rearmed(s, h, n, d)
    PROVE  /\ SchedOK(u) /\ u.now = s.now /\ TimerOK(u, n, s.nextId)
           /\ \A k \in Server \ {n} : SameTimers(s, u, k)
           /\ \A e : e.event.kind # "timer" => (e \in s.queue <=> e \in u.queue)
<1> DEFINE v == Disarmed(s, h)
<1>1. /\ SchedOK(v) /\ v.now = s.now /\ v.nextId = s.nextId /\ v.queue = s.queue
      /\ TimerOK(v, n, Unset) /\ \A k \in Server \ {n} : SameTimers(s, v, k)
  BY DisarmedFacts
<1>2. EventOK(TimerEvent(n)) /\ TimerEvent(n).kind = "timer" /\ TimerEvent(n).node = n
  BY DEF EventOK, TimerEvent
<1>3. u = After(v, d, TimerEvent(n))
  BY DEF Rearmed
<1> HIDE DEF v
<1>x. PICK x : x = [time |-> v.now + d, id |-> v.nextId, event |-> TimerEvent(n)]
  OBVIOUS
<1>4. /\ SchedOK(u) /\ u.now = v.now /\ u.queue = v.queue \cup {x} /\ Live(u) = Live(v) \cup {x}
  BY <1>1, <1>2, <1>3, <1>x, AfterFacts
<1>5. x.id = s.nextId /\ x.event = TimerEvent(n)
  BY <1>1, <1>x
<1>6. IsTimer(x, n) /\ \A k : IsTimer(x, k) => k = n
  BY <1>2, <1>5 DEF IsTimer
<1>7. TimerOK(u, n, s.nextId)
  <2>1. \A e \in Live(v) : ~IsTimer(e, n)
    BY <1>1, UnsetAssumption DEF TimerOK, Live, SchedOK
  <2>2. s.nextId \in Nat
    BY DEF SchedOK
  <2> QED
    BY <1>4, <1>5, <1>6, <2>1, <2>2 DEF TimerOK
<1>8. \A k \in Server \ {n} : SameTimers(s, u, k)
  BY <1>1, <1>4, <1>6 DEF SameTimers
<1>9. \A e : e.event.kind # "timer" => (e \in s.queue <=> e \in u.queue)
  BY <1>1, <1>4, <1>6 DEF IsTimer
<1> QED
  BY <1>1, <1>4, <1>7, <1>8, <1>9

-----------------------------------------------------------------------------
(* What a handler does to the queue.                                       *)

EnvOK ==
    /\ {"server", "client", "firstMembers", "fault", "allowQuorumLoss", "windowStart",
        "windowEnd", "stopAt", "maxEvents", "tickDelay", "healDelay", "restartDelay",
        "timerDelay", "diskDelay", "netDelay", "slowFactor", "copies", "maxWrites",
        "maxErrors", "maxSends", "writes", "errors", "sends"} \subseteq DOMAIN env
    /\ IsFiniteSet(Server)
    /\ MaxEvents \in Nat
    /\ WindowStart \in Nat /\ WindowEnd \in Nat /\ StopAt \in Nat /\ SlowFactor \in Nat
    /\ TickDelay \subseteq Nat /\ HealDelay \subseteq Nat /\ RestartDelay \subseteq Nat
    /\ TimerDelay \subseteq Nat /\ DiskDelay \subseteq Nat /\ NetDelay \subseteq Nat

(* u differs from s by messages at most. *)
SameButMessages(s, u) ==
    /\ SchedOK(u) /\ u.now = s.now /\ SameDriver(s, u)
    /\ \A n : SameTimers(s, u, n) /\ SameStorage(s, u, n)

LEMMA AddsMessage ==
    ASSUME NEW s, SchedOK(s), NEW a, NEW b, NEW d \in Nat, NEW u, u = After(s, d, DeliverEvent(a, b))
    PROVE  SameButMessages(s, u)
<1>1. EventOK(DeliverEvent(a, b)) /\ DeliverEvent(a, b).kind = "deliver"
  BY DEF EventOK, DeliverEvent
<1>2. PICK x : x = [time |-> s.now + d, id |-> s.nextId, event |-> DeliverEvent(a, b)]
  OBVIOUS
<1>3. /\ SchedOK(u) /\ u.now = s.now /\ u.queue = s.queue \cup {x} /\ Live(u) = Live(s) \cup {x}
  BY <1>1, <1>2, AfterFacts
<1>4. x.event.kind = "deliver"
  BY <1>1, <1>2
<1>5. ~IsDriver(x) /\ \A n : ~IsTimer(x, n) /\ ~IsStorage(x, n)
  BY <1>4 DEF IsDriver, IsTimer, IsStorage
<1> QED
  BY <1>3, <1>5, Added DEF SameButMessages

LEMMA NetFacts ==
    ASSUME NEW s, SchedOK(s), EnvOK, NEW n, NEW v \in NetOutcomes(s, n)
    PROVE  SameButMessages(s, v.sched)
<1>0. SameButMessages(s, s)
  BY DEF SameButMessages, SameDriver, SameTimers, SameStorage
<1>1. CASE v = [sched |-> s, sent |-> 0]
  BY <1>0, <1>1
<1>2. ASSUME NEW m, NEW c, NEW d1 \in Latency(n, m), NEW d2 \in Latency(n, m),
             v = [sched |-> Sent(s, n, m, c, d1, d2), sent |-> 1]
      PROVE  SameButMessages(s, v.sched)
  <2>1. d1 \in Nat /\ d2 \in Nat
    <3>1. \A x, y \in Nat : x * y \in Nat
      OBVIOUS
    <3>2. NetDelay \subseteq Nat /\ SlowFactor \in Nat
      BY DEF EnvOK
    <3>3. Latency(n, m) \subseteq Nat
      BY <3>1, <3>2 DEF Latency
    <3> QED
      BY <1>2, <3>3
  <2> DEFINE u == After(s, d1, DeliverEvent(n, m))
             w == After(u, d2, DeliverEvent(n, m))
  <2>2. v.sched = s \/ v.sched = u \/ v.sched = w
    BY <1>2 DEF Sent
  <2>3. SameButMessages(s, u)
    BY <2>1, AddsMessage
  <2>4. SameButMessages(u, w)
    <3> HIDE DEF u
    <3> QED
      BY <2>1, <2>3, AddsMessage DEF SameButMessages
  <2> HIDE DEF u, w
  <2>5. SameButMessages(s, w)
    BY <2>3, <2>4 DEF SameButMessages, SameDriver, SameTimers, SameStorage
  <2> QED
    BY <1>0, <2>2, <2>3, <2>5
<1> QED
  BY <1>1, <1>2 DEF NetOutcomes

LEMMA DiskFacts ==
    ASSUME NEW s, SchedOK(s), EnvOK, NEW n \in Server, NEW w, StorageOK(s, n, w),
           NEW u \in DiskOutcomes(s, n)
    PROVE  /\ SchedOK(u.sched) /\ u.sched.now = s.now /\ SameDriver(s, u.sched)
           /\ \A k : SameTimers(s, u.sched, k) /\ (k # n => SameStorage(s, u.sched, k))
           /\ StorageOK(u.sched, n, w \cup u.op)
<1>1. CASE u = [sched |-> s, op |-> {}, failed |-> 0]
  <2>1. u.sched = s /\ u.op = {} /\ u.failed = 0
    BY <1>1
  <2>2. w \cup u.op = w
    BY <2>1
  <2> QED
    BY <2>1, <2>2 DEF SameDriver, SameTimers, SameStorage
<1>2. ASSUME NEW d \in DiskDelay, NEW ok \in BOOLEAN,
             u = [sched |-> After(s, d, StorageEvent(n, ok)), op |-> {s.nextId},
                  failed |-> IF ok THEN 0 ELSE 1]
      PROVE  /\ SchedOK(u.sched) /\ u.sched.now = s.now /\ SameDriver(s, u.sched)
             /\ \A k : SameTimers(s, u.sched, k) /\ (k # n => SameStorage(s, u.sched, k))
             /\ StorageOK(u.sched, n, w \cup u.op)
  <2>0. PICK e : e = StorageEvent(n, ok)
    OBVIOUS
  <2>1. e.kind = "storage" /\ e.node = n /\ e.ok = ok /\ EventOK(e)
    BY <2>0 DEF StorageEvent, EventOK
  <2>2. PICK x : x = [time |-> s.now + d, id |-> s.nextId, event |-> e]
    OBVIOUS
  <2>3. PICK t : t = After(s, d, e)
    OBVIOUS
  <2>4. d \in Nat
    BY DEF EnvOK
  <2>5. SchedOK(t) /\ t.now = s.now /\ t.queue = s.queue \cup {x} /\ x \notin s.queue /\ Live(t) = Live(s) \cup {x}
    BY <2>1, <2>2, <2>3, <2>4, AfterFacts
  <2>6. u.sched = t /\ u.op = {s.nextId} /\ u.failed = IF ok THEN 0 ELSE 1
    BY <1>2, <2>0, <2>3
  <2>7. x.event = e /\ x.id = s.nextId
    BY <2>2
  <2>8. ~IsDriver(x) /\ IsStorage(x, n) /\ \A k : ~IsTimer(x, k) /\ (k # n => ~IsStorage(x, k))
    BY <2>1, <2>7 DEF IsDriver, IsTimer, IsStorage
  <2>9. SameDriver(s, t) /\ \A k : SameTimers(s, t, k) /\ (k # n => SameStorage(s, t, k))
    BY <2>5, <2>8, Added
  <2>10. StorageOK(t, n, w \cup {s.nextId})
    BY <2>5, <2>7, <2>8 DEF StorageOK
  <2> QED
    BY <2>5, <2>6, <2>9, <2>10
<1> QED
  BY <1>1, <1>2 DEF DiskOutcomes

LEMMA TimerFacts ==
    ASSUME NEW s, SchedOK(s), EnvOK, NEW n \in Server, NEW h, TimerOK(s, n, h),
           NEW t \in TimerOutcomes(s, n, h)
    PROVE  /\ SchedOK(t.sched) /\ t.sched.now = s.now /\ TimerOK(t.sched, n, t.handle)
           /\ \A k \in Server \ {n} : SameTimers(s, t.sched, k)
           /\ \A e : e.event.kind # "timer" => (e \in s.queue <=> e \in t.sched.queue)
<1>1. CASE t = [sched |-> s, handle |-> h]
  BY <1>1 DEF SameTimers
<1>2. CASE t = [sched |-> Disarmed(s, h), handle |-> Unset]
  <2>1. t.sched = Disarmed(s, h) /\ t.handle = Unset
    BY <1>2
  <2> QED
    BY <2>1, DisarmedFacts
<1>3. ASSUME NEW d \in TimerDelay, t = [sched |-> Rearmed(s, h, n, d), handle |-> s.nextId]
      PROVE  /\ SchedOK(t.sched) /\ t.sched.now = s.now /\ TimerOK(t.sched, n, t.handle)
             /\ \A k \in Server \ {n} : SameTimers(s, t.sched, k)
             /\ \A e : e.event.kind # "timer" => (e \in s.queue <=> e \in t.sched.queue)
  <2>1. t.sched = Rearmed(s, h, n, d) /\ t.handle = s.nextId /\ d \in Nat
    BY <1>3 DEF EnvOK
  <2> QED
    BY <2>1, RearmedFacts
<1> QED
  BY <1>1, <1>2, <1>3 DEF TimerOutcomes

(* The settings stay as they are. *)
SameEnv ==
    /\ Server' = Server /\ Client' = Client /\ WindowStart' = WindowStart
    /\ WindowEnd' = WindowEnd /\ StopAt' = StopAt /\ MaxEvents' = MaxEvents
    /\ SlowFactor' = SlowFactor
    /\ TickDelay' = TickDelay /\ HealDelay' = HealDelay /\ RestartDelay' = RestartDelay
    /\ TimerDelay' = TimerDelay /\ DiskDelay' = DiskDelay /\ NetDelay' = NetDelay

(* The deadlines and the operations awaited are functions of the servers.  *)
FunctionsOK == /\ deadline = [n \in Server |-> deadline[n]]
               /\ waits = [n \in Server |-> waits[n]]
               /\ up \in [Server -> BOOLEAN]

(* A handler leaves what is queued and what was asked for in step, for its *)
(* own server and the others, and touches nothing of the driver.           *)
LEMMA HandlerStep ==
    ASSUME NEW s, SchedOK(s), EnvOK, FunctionsOK, NEW n \in Server, NEW h, NEW w, Asked(s, n, h, w),
           \A k \in Server \ {n} : Asked(s, k, deadline[k], waits[k]),
           NEW t \in TimerOutcomes(s, n, h), NEW u \in DiskOutcomes(t.sched, n),
           NEW v \in NetOutcomes(u.sched, n), Leaves(n, w, t, u, v), NEW q, q = v.sched
    PROVE  /\ SchedOK(q) /\ q.now = s.now /\ SameDriver(s, q)
           /\ \A k \in Server : Asked(q, k, deadline'[k], waits'[k])
           /\ \A k \in Server \ {n} : deadline'[k] = deadline[k] /\ waits'[k] = waits[k]
           /\ deadline' = [k \in Server |-> deadline'[k]]
           /\ waits' = [k \in Server |-> waits'[k]]
           /\ SameEnv /\ EnvOK'
<1>1. /\ deadline' = [deadline EXCEPT ![n] = t.handle]
      /\ waits' = [waits EXCEPT ![n] = w \cup u.op]
      /\ env' = [env EXCEPT !.writes = @ + Cardinality(u.op),
                            !.errors = @ + u.failed,
                            !.sends = @ + v.sent]
  BY DEF Leaves
<1>2. /\ SchedOK(t.sched) /\ t.sched.now = s.now /\ TimerOK(t.sched, n, t.handle)
      /\ \A k \in Server \ {n} : SameTimers(s, t.sched, k)
      /\ \A e : e.event.kind # "timer" => (e \in s.queue <=> e \in t.sched.queue)
  BY TimerFacts DEF Asked
<1>3. SameDriver(s, t.sched) /\ \A k : SameStorage(s, t.sched, k)
  BY <1>2 DEF SameDriver, SameStorage, IsDriver, IsStorage
<1>4. StorageOK(t.sched, n, w)
  BY <1>3, KeepsStorage DEF Asked
<1>5. /\ SchedOK(u.sched) /\ u.sched.now = s.now /\ SameDriver(t.sched, u.sched)
      /\ \A k : SameTimers(t.sched, u.sched, k) /\ (k # n => SameStorage(t.sched, u.sched, k))
      /\ StorageOK(u.sched, n, w \cup u.op)
  BY <1>2, <1>4, DiskFacts
<1>6. /\ SchedOK(q) /\ q.now = s.now /\ SameDriver(u.sched, q)
      /\ \A k : SameTimers(u.sched, q, k) /\ SameStorage(u.sched, q, k)
  <2>1. SameButMessages(u.sched, q)
    BY <1>5, NetFacts
  <2> QED
    BY <1>5, <2>1 DEF SameButMessages
<1>7. SameDriver(s, q)
  BY <1>3, <1>5, <1>6 DEF SameDriver
<1>9. \A k \in Server \ {n} : Asked(q, k, deadline[k], waits[k])
  <2>1. \A k \in Server \ {n} : SameTimers(s, q, k)
    BY <1>2, <1>5, <1>6 DEF SameTimers
  <2>2. \A k \in Server \ {n} : SameStorage(s, q, k)
    BY <1>3, <1>5, <1>6 DEF SameStorage
  <2> QED
    BY <2>1, <2>2, KeepsAsked
<1>10. Asked(q, n, t.handle, w \cup u.op)
  <2>1. SameTimers(t.sched, q, n) /\ SameStorage(u.sched, q, n)
    BY <1>5, <1>6 DEF SameTimers
  <2>2. TimerOK(q, n, t.handle)
    BY <1>2, <2>1, KeepsTimer
  <2>3. StorageOK(q, n, w \cup u.op)
    BY <1>5, <2>1, KeepsStorage
  <2> QED
    BY <2>2, <2>3 DEF Asked
<1>11. /\ deadline' = [k \in Server |-> IF k = n THEN t.handle ELSE deadline[k]]
       /\ waits' = [k \in Server |-> IF k = n THEN w \cup u.op ELSE waits[k]]
  BY <1>1 DEF FunctionsOK
<1>12. \A k \in Server : Asked(q, k, deadline'[k], waits'[k])
  <2>1. SUFFICES ASSUME NEW k \in Server PROVE Asked(q, k, deadline'[k], waits'[k])
    OBVIOUS
  <2>2. CASE k = n
    <3>1. deadline'[k] = t.handle /\ waits'[k] = w \cup u.op
      BY <1>11, <2>2
    <3> QED
      BY <1>10, <2>2, <3>1
  <2>3. CASE k # n
    <3>1. deadline'[k] = deadline[k] /\ waits'[k] = waits[k]
      BY <1>11, <2>3
    <3> QED
      BY <1>9, <2>3, <3>1
  <2> QED
    BY <2>2, <2>3
<1>13. /\ deadline' = [k \in Server |-> deadline'[k]]
       /\ waits' = [k \in Server |-> waits'[k]]
  BY <1>11
<1>14. SameEnv /\ DOMAIN env' = DOMAIN env
  <2>1. SameEnv
    BY <1>1 DEF SameEnv, EnvOK, Server, Client, WindowStart, WindowEnd, StopAt, MaxEvents, SlowFactor, TickDelay,
                HealDelay, RestartDelay, TimerDelay, DiskDelay, NetDelay
  <2> QED
    BY <1>1, <2>1 DEF EnvOK
<1>15. EnvOK'
  BY <1>14 DEF EnvOK, SameEnv
<1>17. \A k \in Server \ {n} : deadline'[k] = deadline[k] /\ waits'[k] = waits[k]
  BY <1>11
<1> QED
  BY <1>6, <1>7, <1>12, <1>13, <1>14, <1>15, <1>17

-----------------------------------------------------------------------------
(* The invariant.                                                          *)

(* The window opens before the run stops, and closes so long before it     *)
(* that there is a tick in between.                                        *)
Settles == \A e \in Settings :
    e.windowStart < e.stopAt /\ \A d \in e.tickDelay : e.windowEnd + d <= e.stopAt

SettlesOK == Settles =>
    WindowStart < StopAt /\ \A d \in TickDelay : WindowEnd + d <= StopAt

ServersOK == \A n \in Server :
    /\ Asked(sched, n, deadline[n], waits[n])
    /\ ~up[n] => deadline[n] = Unset /\ waits[n] = {}

(* There is one tick, until the recovery; then who is down is restarted.   *)
TickOK ==
    IF recovered
    THEN /\ \A e \in sched.queue : e.event.kind # "tick"
         /\ \A n \in Server : ~up[n] =>
              \E e \in sched.queue : e.event.kind = "restart" /\ e.event.node = n
    ELSE \E t \in sched.queue : /\ t.event.kind = "tick"
                                /\ \A e \in sched.queue : e.event.kind = "tick" => e = t
                                /\ Settles => t.time < StopAt

StopOK ==
    /\ finished \/ \E e \in sched.queue : e.event.kind = "stop"
    /\ \A e \in sched.queue : e.event.kind = "stop" => e.time = StopAt
    /\ finished /\ Settles => recovered

WorldInv == /\ EnvOK /\ SettlesOK /\ FunctionsOK /\ SchedOK(sched)
            /\ ServersOK /\ TickOK /\ StopOK /\ QuietTail
            /\ recovered \in BOOLEAN /\ finished \in BOOLEAN

(* That holds while the loop has fuel; the event with which it runs out is *)
(* lost.                                                                   *)
LoopInv == /\ events \in Nat /\ MaxEvents \in Nat /\ incomplete \in BOOLEAN
           /\ incomplete <=> events > MaxEvents
           /\ incomplete => ~finished /\ QuietTail
           /\ ~incomplete => WorldInv

(* What the turn of the loop takes off the queue. *)
LEMMA PopFacts ==
    ASSUME WorldInv, NEW kind, Pops(kind), NEW h, h = Head1(sched), NEW p, p = Popped(sched)
    PROVE  /\ h \in sched.queue /\ h.event.kind = kind /\ h.time \in Nat /\ EventOK(h.event)
           /\ h.id \notin sched.cancelled /\ h.id \in Nat
           /\ Fired = h.event
           /\ SchedOK(p) /\ p.now = h.time /\ p.nextId = sched.nextId /\ p.nextId \in Nat
           /\ \A n : (~IsTimer(h, n) => SameTimers(sched, p, n))
                     /\ (~IsStorage(h, n) => SameStorage(sched, p, n))
           /\ ~IsDriver(h) => SameDriver(sched, p)
           /\ \A e : IsDriver(e) /\ e # h => (e \in sched.queue <=> e \in p.queue)
           /\ h \notin p.queue
           /\ Live(p) = Live(sched) \ {h} /\ h \in Live(sched)
           /\ \A f \in Live(sched) \ {h} : Before(h, f)
<1>1. SchedOK(sched) /\ Live(sched) # {} /\ h.event.kind = kind /\ Fired = h.event
  BY DEF WorldInv, Pops, Running, Fired
<1>2. h \in Live(sched) /\ \A f \in Live(sched) \ {h} : Before(h, f)
  BY <1>1, HeadFacts
<1>3. /\ h \in sched.queue /\ h.id \notin sched.cancelled /\ h.time \in Nat /\ EventOK(h.event)
      /\ SchedOK(p)
      /\ p.nextId = sched.nextId /\ p.now = h.time
      /\ h \notin p.queue /\ p.queue \subseteq sched.queue
      /\ \A e \in sched.queue : e = h \/ e \in p.queue \/ e.event.kind = "timer"
      /\ Live(p) = Live(sched) \ {h}
  BY <1>1, PoppedFacts
<1>4. h.id \in Nat /\ p.nextId \in Nat
  BY <1>1, <1>3 DEF SchedOK
<1>5. \A n : (~IsTimer(h, n) => SameTimers(sched, p, n))
             /\ (~IsStorage(h, n) => SameStorage(sched, p, n))
  <2>1. \A n : ~IsTimer(h, n) => SameTimers(sched, p, n)
    BY <1>3 DEF SameTimers
  <2>2. \A n : ~IsStorage(h, n) => SameStorage(sched, p, n)
    <3>1. SUFFICES ASSUME NEW n, NEW e, IsStorage(e, n), ~IsStorage(h, n)
                   PROVE  e \in sched.queue <=> e \in p.queue
      BY DEF SameStorage
    <3>2. e # h /\ e.event.kind = "storage"
      BY <3>1 DEF IsStorage
    <3> QED
      BY <1>3, <3>2
  <2> QED
    BY <2>1, <2>2
<1>6. \A e : IsDriver(e) /\ e # h => (e \in sched.queue <=> e \in p.queue)
  BY <1>3 DEF IsDriver
<1>7. ~IsDriver(h) => SameDriver(sched, p)
  BY <1>6 DEF SameDriver
<1> QED
  BY <1>1, <1>2, <1>3, <1>4, <1>5, <1>6, <1>7

(* A step that does nothing to the driver's entries keeps the invariant,   *)
(* if it keeps the servers' and the quiet of the tail.                     *)
LEMMA Assemble ==
    ASSUME SameEnv, EnvOK', SettlesOK, SchedOK(sched'),
           deadline' = [k \in Server |-> deadline'[k]],
           waits' = [k \in Server |-> waits'[k]],
           up' \in [Server -> BOOLEAN],
           \A k \in Server : Asked(sched', k, deadline'[k], waits'[k]),
           \A k \in Server : ~up'[k] => deadline'[k] = Unset /\ waits'[k] = {},
           TickOK', StopOK', QuietTail', recovered' \in BOOLEAN, finished' \in BOOLEAN
    PROVE  WorldInv'
<1>1. Server' = Server
  BY DEF SameEnv
<1>2. SchedOK(sched)'
  BY <1>1 DEF SchedOK, EventOK
<1>3. FunctionsOK'
  BY <1>1 DEF FunctionsOK
<1>4. ServersOK'
  BY <1>1 DEF ServersOK, Asked, TimerOK, StorageOK, Live
<1>5. SettlesOK'
  BY DEF SettlesOK, SameEnv
<1> QED
  BY <1>2, <1>3, <1>4, <1>5 DEF WorldInv

LEMMA SameDriverKeeps ==
    ASSUME WorldInv, SameEnv, SameDriver(sched, sched'), recovered' = recovered, finished' = finished,
           \A n \in Server : up[n] => up'[n]
    PROVE  TickOK' /\ StopOK'
<1>1. \A e : e.event.kind \in {"tick", "restart", "stop"} => (e \in sched.queue <=> e \in sched'.queue)
  BY DEF SameDriver, IsDriver
<1>2. TickOK /\ StopOK /\ Server' = Server /\ StopAt' = StopAt
  BY DEF WorldInv, SameEnv
<1>3. TickOK'
  <2>1. CASE recovered
    <3>1. ASSUME NEW n \in Server, ~up'[n]
          PROVE  \E e \in sched'.queue : e.event.kind = "restart" /\ e.event.node = n
      <4>1. PICK e \in sched.queue : e.event.kind = "restart" /\ e.event.node = n
        BY <1>2, <2>1, <3>1 DEF TickOK
      <4> QED
        BY <1>1, <4>1
    <3>2. \A e \in sched'.queue : e.event.kind # "tick"
      BY <1>1, <1>2, <2>1 DEF TickOK
    <3> QED
      BY <1>2, <2>1, <3>1, <3>2 DEF TickOK
  <2>2. CASE ~recovered
    <3>1. PICK t \in sched.queue : /\ t.event.kind = "tick"
                                   /\ \A e \in sched.queue : e.event.kind = "tick" => e = t
                                   /\ Settles => t.time < StopAt
      BY <1>2, <2>2 DEF TickOK
    <3>2. t \in sched'.queue /\ \A e \in sched'.queue : e.event.kind = "tick" => e = t
      BY <1>1, <3>1
    <3> QED
      BY <1>2, <2>2, <3>1, <3>2 DEF TickOK
  <2> QED
    BY <2>1, <2>2
<1>4. StopOK'
  <2>1. finished' \/ \E e \in sched'.queue : e.event.kind = "stop"
    BY <1>1, <1>2 DEF StopOK
  <2>2. \A e \in sched'.queue : e.event.kind = "stop" => e.time = StopAt'
    BY <1>1, <1>2 DEF StopOK
  <2> QED
    BY <1>2, <2>1, <2>2 DEF StopOK
<1> QED
  BY <1>3, <1>4

(* A turn that ends in the handler of a server that is up. *)
LEMMA HandlerKeeps ==
    ASSUME WorldInv, NEW kind, Pops(kind), kind \notin {"tick", "restart", "stop"},
           NEW p, p = Popped(sched), NEW n \in Server, up[n], NEW h, NEW w, Asked(p, n, h, w),
           \A k \in Server \ {n} : Asked(p, k, deadline[k], waits[k]),
           Handles(p, n, h, w), UNCHANGED <<up, netVars, tailVars, finished>>
    PROVE  WorldInv'
<1>0. PICK x : x = Head1(sched)
  OBVIOUS
<1>1. SchedOK(p) /\ x.event.kind = kind /\ (~IsDriver(x) => SameDriver(sched, p))
  BY <1>0, PopFacts
<1>2. SameDriver(sched, p)
  BY <1>1 DEF IsDriver
<1>3. EnvOK /\ FunctionsOK
  BY DEF WorldInv
<1>4. /\ SchedOK(sched') /\ SameDriver(p, sched')
      /\ \A k \in Server : Asked(sched', k, deadline'[k], waits'[k])
      /\ \A k \in Server \ {n} : deadline'[k] = deadline[k] /\ waits'[k] = waits[k]
      /\ deadline' = [k \in Server |-> deadline'[k]]
      /\ waits' = [k \in Server |-> waits'[k]]
      /\ SameEnv /\ EnvOK'
  <2>1. PICK t \in TimerOutcomes(p, n, h) : \E u \in DiskOutcomes(t.sched, n) :
          \E v \in NetOutcomes(u.sched, n) : sched' = v.sched /\ Leaves(n, w, t, u, v)
    BY DEF Handles
  <2>2. PICK u \in DiskOutcomes(t.sched, n) :
          \E v \in NetOutcomes(u.sched, n) : sched' = v.sched /\ Leaves(n, w, t, u, v)
    BY <2>1
  <2>3. PICK v \in NetOutcomes(u.sched, n) : sched' = v.sched /\ Leaves(n, w, t, u, v)
    BY <2>2
  <2> QED
    BY <1>1, <1>3, <2>3, HandlerStep
<1>5. SameDriver(sched, sched')
  BY <1>2, <1>4 DEF SameDriver
<1>6. TickOK' /\ StopOK'
  BY <1>4, <1>5, SameDriverKeeps DEF tailVars
<1>7. QuietTail'
  BY <1>4 DEF WorldInv, QuietTail, Down, SameEnv, netVars, tailVars
<1>9. \A k \in Server : ~up'[k] => deadline'[k] = Unset /\ waits'[k] = {}
  BY <1>4 DEF WorldInv, ServersOK
<1> QED
  BY <1>4, <1>6, <1>7, <1>9, Assemble DEF WorldInv, FunctionsOK, tailVars

(* A turn that only takes something off the queue. *)
LEMMA PopKeeps ==
    ASSUME WorldInv, NEW kind, Pops(kind), kind \notin {"tick", "restart", "stop"},
           sched' = Popped(sched), \A k \in Server : Asked(sched', k, deadline[k], waits[k]),
           UNCHANGED <<up, deadline, waits, tailVars, finished, env>>,
           UNCHANGED netVars \/ HealAll
    PROVE  WorldInv'
<1>0. PICK x : x = Head1(sched)
  OBVIOUS
<1>1. /\ SchedOK(sched') /\ x.event.kind = kind /\ (~IsDriver(x) => SameDriver(sched, sched'))
  BY <1>0, PopFacts
<1>2. SameDriver(sched, sched')
  BY <1>1 DEF IsDriver
<1>3. EnvOK /\ EnvOK' /\ FunctionsOK /\ SameEnv
  BY DEF WorldInv, EnvOK, SameEnv, Server, Client, WindowStart, WindowEnd, StopAt, MaxEvents, SlowFactor, TickDelay,
         HealDelay, RestartDelay, TimerDelay, DiskDelay, NetDelay
<1>6. TickOK' /\ StopOK'
  BY <1>2, <1>3, SameDriverKeeps DEF tailVars
<1>7. QuietTail'
  BY <1>3 DEF WorldInv, QuietTail, Down, SameEnv, netVars, tailVars, HealAll
<1>9. \A k \in Server : ~up'[k] => deadline'[k] = Unset /\ waits'[k] = {}
  BY DEF WorldInv, ServersOK
<1> QED
  BY <1>1, <1>3, <1>6, <1>7, <1>9, Assemble DEF WorldInv, FunctionsOK, tailVars

LEMMA OnTimerStep ==
    ASSUME WorldInv, OnTimer
    PROVE  WorldInv'
<1>0. PICK x : x = Head1(sched)
  OBVIOUS
<1>1. PICK p : p = Popped(sched)
  OBVIOUS
<1>2. PICK n : n = Fired.node
  OBVIOUS
<1>3. Pops("timer")
  BY DEF OnTimer
<1>4. /\ x \in Live(sched) /\ x.event.kind = "timer" /\ x.event = Fired /\ EventOK(x.event)
      /\ x.id \in Nat /\ Live(p) = Live(sched) \ {x}
      /\ \A k : (~IsTimer(x, k) => SameTimers(sched, p, k))
                /\ (~IsStorage(x, k) => SameStorage(sched, p, k))
  BY <1>0, <1>1, <1>3, PopFacts
<1>5. n \in Server /\ IsTimer(x, n) /\ \A k : (IsTimer(x, k) => k = n) /\ ~IsStorage(x, k)
  BY <1>2, <1>4 DEF EventOK, IsTimer, IsStorage
<1>6. Asked(sched, n, deadline[n], waits[n]) /\ deadline[n] = x.id /\ up[n]
  <2>1. Asked(sched, n, deadline[n], waits[n])
    BY <1>5 DEF WorldInv, ServersOK
  <2>2. deadline[n] = x.id
    BY <1>4, <1>5, <2>1 DEF Asked, TimerOK
  <2>3. up[n]
    BY <1>4, <1>5, <2>2, UnsetAssumption DEF WorldInv, ServersOK
  <2> QED
    BY <2>1, <2>2, <2>3
<1>7. \A k \in Server \ {n} : Asked(p, k, deadline[k], waits[k])
  BY <1>4, <1>5, KeepsAsked DEF WorldInv, ServersOK
<1>8. Asked(p, n, Unset, waits[n])
  <2>1. StorageOK(p, n, waits[n])
    BY <1>4, <1>5, <1>6, KeepsStorage DEF Asked
  <2>2. \A e \in Live(p) : ~IsTimer(e, n)
    <3>1. ASSUME NEW e \in Live(p), IsTimer(e, n) PROVE FALSE
      <4>1. e \in Live(sched) /\ e # x /\ e.id = x.id
        BY <1>4, <1>6, <3>1 DEF Asked, TimerOK
      <4> QED
        BY <1>4, <4>1 DEF WorldInv, SchedOK, Live
    <3> QED
      BY <3>1
  <2> QED
    BY <2>1, <2>2 DEF Asked, TimerOK
<1>9. Handles(p, n, Unset, waits[n]) /\ UNCHANGED <<up, netVars, tailVars, finished>>
  BY <1>1, <1>2, <1>4, <1>6, UnsetAssumption DEF OnTimer
<1> QED
  BY <1>1, <1>3, <1>5, <1>6, <1>7, <1>8, <1>9, HandlerKeeps

LEMMA OnDeliverStep ==
    ASSUME WorldInv, OnDeliver
    PROVE  WorldInv'
<1>0. PICK x : x = Head1(sched)
  OBVIOUS
<1>1. PICK p : p = Popped(sched)
  OBVIOUS
<1>2. PICK n : n = Fired.to
  OBVIOUS
<1>3. Pops("deliver")
  BY DEF OnDeliver
<1>4. /\ x.event.kind = "deliver"
      /\ \A k : (~IsTimer(x, k) => SameTimers(sched, p, k))
                /\ (~IsStorage(x, k) => SameStorage(sched, p, k))
  BY <1>0, <1>1, <1>3, PopFacts
<1>5. \A k \in Server : Asked(p, k, deadline[k], waits[k])
  <2>1. \A k : ~IsTimer(x, k) /\ ~IsStorage(x, k)
    BY <1>4 DEF IsTimer, IsStorage
  <2> QED
    BY <1>4, <2>1, KeepsAsked DEF WorldInv, ServersOK
<1>6. UNCHANGED <<up, netVars, tailVars, finished>>
  BY DEF OnDeliver
<1>7. CASE n \in Server /\ <<Fired.from, n>> \notin blocked /\ up[n]
  <2>1. Handles(p, n, deadline[n], waits[n])
    BY <1>1, <1>2, <1>7 DEF OnDeliver
  <2> QED
    BY <1>1, <1>3, <1>5, <1>6, <1>7, <2>1, HandlerKeeps
<1>8. CASE ~(n \in Server /\ <<Fired.from, n>> \notin blocked /\ up[n])
  <2>1. sched' = p /\ UNCHANGED <<deadline, waits, env>>
    BY <1>1, <1>2, <1>8 DEF OnDeliver
  <2> QED
    BY <1>1, <1>3, <1>5, <1>6, <2>1, PopKeeps
<1> QED
  BY <1>7, <1>8

LEMMA OnHealStep ==
    ASSUME WorldInv, OnHeal
    PROVE  WorldInv'
<1>0. PICK x : x = Head1(sched)
  OBVIOUS
<1>1. Pops("heal") /\ sched' = Popped(sched) /\ HealAll
      /\ UNCHANGED <<up, deadline, waits, tailVars, finished, env>>
  BY DEF OnHeal
<1>2. /\ x.event.kind = "heal"
      /\ \A k : (~IsTimer(x, k) => SameTimers(sched, sched', k))
                /\ (~IsStorage(x, k) => SameStorage(sched, sched', k))
  BY <1>0, <1>1, PopFacts
<1>3. \A k \in Server : Asked(sched', k, deadline[k], waits[k])
  <2>1. \A k : ~IsTimer(x, k) /\ ~IsStorage(x, k)
    BY <1>2 DEF IsTimer, IsStorage
  <2> QED
    BY <1>2, <2>1, KeepsAsked DEF WorldInv, ServersOK
<1> QED
  BY <1>1, <1>3, PopKeeps

(* A crash takes what is queued for the server, and nothing else. *)
LEMMA CrashedFacts ==
    ASSUME NEW s, SchedOK(s), NEW n, NEW u, u = Crashed(s, n)
    PROVE  /\ SchedOK(u) /\ u.now = s.now /\ u.nextId = s.nextId
           /\ Asked(u, n, Unset, {})
           /\ \A k : k # n => SameTimers(s, u, k) /\ SameStorage(s, u, k)
           /\ SameDriver(s, u)
<1>1. PICK gone : gone = OfNode(s, "timer", n) \cup OfNode(s, "storage", n)
  OBVIOUS
<1>2. u = Drop(s, gone)
  BY <1>1 DEF Crashed
<1>3. /\ SchedOK(u) /\ u.now = s.now /\ u.nextId = s.nextId /\ u.queue = s.queue \ gone
      /\ Live(u) = Live(s) \ gone
  BY <1>2, DropFacts
<1>4. \A e \in s.queue : e \in gone <=> IsTimer(e, n) \/ IsStorage(e, n)
  BY <1>1 DEF OfNode, OfKind, IsTimer, IsStorage
<1>5. \A e \in Live(s) : e \in s.queue
  BY DEF Live
<1>6. TimerOK(u, n, Unset) /\ StorageOK(u, n, {})
  BY <1>3, <1>4, <1>5 DEF TimerOK, StorageOK
<1>7. \A k : k # n => SameTimers(s, u, k)
  <2>1. \A e, k : IsTimer(e, k) /\ k # n => ~IsTimer(e, n) /\ ~IsStorage(e, n)
    BY DEF IsTimer, IsStorage
  <2> QED
    BY <1>3, <1>4, <1>5, <2>1 DEF SameTimers
<1>8. \A k : k # n => SameStorage(s, u, k)
  <2>1. \A e, k : IsStorage(e, k) /\ k # n => ~IsTimer(e, n) /\ ~IsStorage(e, n)
    BY DEF IsTimer, IsStorage
  <2> QED
    BY <1>3, <1>4, <2>1 DEF SameStorage
<1>9. SameDriver(s, u)
  <2>1. \A e : IsDriver(e) => ~IsTimer(e, n) /\ ~IsStorage(e, n)
    BY DEF IsDriver, IsTimer, IsStorage
  <2> QED
    BY <1>3, <1>4, <2>1 DEF SameDriver
<1> QED
  BY <1>3, <1>6, <1>7, <1>8, <1>9 DEF Asked

(* An entry of the driver is for no server's ears. *)
LEMMA AddsDriver ==
    ASSUME NEW s, SchedOK(s), NEW d \in Nat, NEW v, EventOK(v), v.kind \notin {"timer", "storage"},
           NEW u, u = After(s, d, v), NEW x, x = [time |-> s.now + d, id |-> s.nextId, event |-> v]
    PROVE  /\ SchedOK(u) /\ u.now = s.now /\ u.queue = s.queue \cup {x} /\ x \notin s.queue
           /\ \A n : SameTimers(s, u, n) /\ SameStorage(s, u, n)
           /\ x.event = v /\ x.time = s.now + d
           /\ v.kind \notin {"tick", "restart", "stop"} => SameDriver(s, u)
<1>1. /\ SchedOK(u) /\ u.now = s.now /\ u.queue = s.queue \cup {x} /\ x \notin s.queue
      /\ Live(u) = Live(s) \cup {x}
  BY AfterFacts
<1>2. x.event = v /\ x.time = s.now + d
  OBVIOUS
<1>3. \A n : ~IsTimer(x, n) /\ ~IsStorage(x, n)
  BY <1>2 DEF IsTimer, IsStorage
<1>4. \A n : SameTimers(s, u, n) /\ SameStorage(s, u, n)
  BY <1>1, <1>3, Added
<1>5. v.kind \notin {"tick", "restart", "stop"} => SameDriver(s, u)
  BY <1>1, <1>2, Added DEF IsDriver
<1> QED
  BY <1>1, <1>2, <1>4, <1>5

(* The servers after n is lost, in a queue s from which its own is gone.   *)
LEMMA LoseKeeps ==
    ASSUME WorldInv, NEW n \in Server, NEW p, NEW s,
           \A k \in Server \ {n} : Asked(p, k, deadline[k], waits[k]),
           Asked(s, n, Unset, {}),
           \A k : k # n => SameTimers(p, s, k) /\ SameStorage(p, s, k),
           \A k : SameTimers(s, sched', k) /\ SameStorage(s, sched', k),
           Lose(n)
    PROVE  /\ deadline' = [k \in Server |-> deadline'[k]]
           /\ waits' = [k \in Server |-> waits'[k]]
           /\ up' \in [Server -> BOOLEAN]
           /\ \A k \in Server : up'[k] = IF k = n THEN FALSE ELSE up[k]
           /\ \A k \in Server : Asked(sched', k, deadline'[k], waits'[k])
           /\ \A k \in Server : ~up'[k] => deadline'[k] = Unset /\ waits'[k] = {}
<1>1. FunctionsOK
  BY DEF WorldInv
<1>2. /\ up' = [k \in Server |-> IF k = n THEN FALSE ELSE up[k]]
      /\ deadline' = [k \in Server |-> IF k = n THEN Unset ELSE deadline[k]]
      /\ waits' = [k \in Server |-> IF k = n THEN {} ELSE waits[k]]
  BY <1>1 DEF Lose, FunctionsOK
<1>3. ASSUME NEW k \in Server PROVE Asked(sched', k, deadline'[k], waits'[k])
  <2>1. CASE k = n
    <3>1. deadline'[k] = Unset /\ waits'[k] = {}
      BY <1>2, <2>1
    <3> QED
      BY <2>1, <3>1, KeepsAsked
  <2>2. CASE k # n
    <3>1. deadline'[k] = deadline[k] /\ waits'[k] = waits[k]
      BY <1>2, <2>2
    <3>2. Asked(s, k, deadline[k], waits[k])
      BY <2>2, KeepsAsked
    <3> QED
      BY <3>1, <3>2, KeepsAsked
  <2> QED
    BY <2>1, <2>2
<1>4. \A k \in Server : ~up'[k] => deadline'[k] = Unset /\ waits'[k] = {}
  BY <1>2 DEF WorldInv, ServersOK
<1>5. /\ deadline' = [k \in Server |-> deadline'[k]]
      /\ waits' = [k \in Server |-> waits'[k]]
      /\ up' \in [Server -> BOOLEAN]
      /\ \A k \in Server : up'[k] = IF k = n THEN FALSE ELSE up[k]
  BY <1>1, <1>2 DEF FunctionsOK
<1> QED
  BY <1>3, <1>4, <1>5

LEMMA SameEnvs ==
    ASSUME WorldInv, UNCHANGED env
    PROVE  SameEnv /\ EnvOK /\ EnvOK'
  BY DEF WorldInv, EnvOK, SameEnv, Server, Client, WindowStart, WindowEnd, StopAt, MaxEvents, SlowFactor,
         TickDelay, HealDelay, RestartDelay, TimerDelay, DiskDelay, NetDelay

LEMMA OnStorageStep ==
    ASSUME WorldInv, OnStorage
    PROVE  WorldInv'
<1>0. PICK x : x = Head1(sched)
  OBVIOUS
<1>1. PICK p : p = Popped(sched)
  OBVIOUS
<1>2. PICK n : n = Fired.node
  OBVIOUS
<1>3. Pops("storage") /\ UNCHANGED <<netVars, recovered, finished>>
  BY DEF OnStorage
<1>4. /\ x \in sched.queue /\ x.event.kind = "storage" /\ x.event = Fired /\ EventOK(x.event)
      /\ x.id \in Nat /\ SchedOK(p) /\ x \notin p.queue
      /\ \A k : (~IsTimer(x, k) => SameTimers(sched, p, k))
                /\ (~IsStorage(x, k) => SameStorage(sched, p, k))
      /\ (~IsDriver(x) => SameDriver(sched, p))
  BY <1>0, <1>1, <1>3, PopFacts
<1>5. /\ n \in Server /\ IsStorage(x, n) /\ SameDriver(sched, p)
      /\ \A k : (IsStorage(x, k) => k = n) /\ ~IsTimer(x, k)
  BY <1>2, <1>4 DEF EventOK, IsTimer, IsStorage, IsDriver
<1>6. Asked(sched, n, deadline[n], waits[n]) /\ x.id \in waits[n] /\ up[n]
  <2>1. Asked(sched, n, deadline[n], waits[n])
    BY <1>5 DEF WorldInv, ServersOK
  <2>2. x.id \in waits[n]
    BY <1>4, <1>5, <2>1 DEF Asked, StorageOK
  <2>3. up[n]
    BY <1>5, <2>2 DEF WorldInv, ServersOK
  <2> QED
    BY <2>1, <2>2, <2>3
<1>7. \A k \in Server \ {n} : Asked(p, k, deadline[k], waits[k])
  BY <1>4, <1>5, KeepsAsked DEF WorldInv, ServersOK
<1>8. CASE Fired.ok
  <2>1. Asked(p, n, deadline[n], waits[n] \ {x.id})
    <3>1. TimerOK(p, n, deadline[n])
      BY <1>4, <1>5, <1>6, KeepsTimer DEF Asked
    <3>2. \A e \in p.queue : IsStorage(e, n) => e \in sched.queue /\ e.id \in waits[n] /\ e.id # x.id
      <4>1. p.queue \subseteq sched.queue
        BY <1>0, <1>1, <1>3, PoppedFacts DEF WorldInv, Pops, Running
      <4>2. \A e \in sched.queue : e.id = x.id => e = x
        BY <1>4 DEF WorldInv, SchedOK
      <4> QED
        BY <1>4, <1>6, <4>1, <4>2 DEF Asked, StorageOK
    <3>3. ASSUME NEW i \in waits[n] \ {x.id} PROVE \E e \in p.queue : IsStorage(e, n) /\ e.id = i
      <4>1. PICK e \in sched.queue : IsStorage(e, n) /\ e.id = i
        BY <1>6, <3>3 DEF Asked, StorageOK
      <4>2. e # x
        BY <3>3, <4>1
      <4>3. e \in p.queue
        <5>1. e = x \/ e \in p.queue \/ e.event.kind = "timer"
          BY <1>0, <1>1, <1>3, <4>1, PoppedFacts DEF WorldInv, Pops, Running
        <5> QED
          BY <4>1, <4>2, <5>1 DEF IsStorage
      <4> QED
        BY <4>1, <4>3
    <3> QED
      BY <3>1, <3>2, <3>3 DEF Asked, StorageOK
  <2>2. Handles(p, n, deadline[n], waits[n] \ {x.id}) /\ UNCHANGED <<up, tailVars>>
    BY <1>0, <1>1, <1>2, <1>3, <1>6, <1>8 DEF OnStorage, tailVars
  <2> QED
    BY <1>1, <1>3, <1>5, <1>6, <1>7, <2>1, <2>2, HandlerKeeps
<1>9. CASE ~Fired.ok
  <2>1. /\ sched' \in Reaped(p, n) /\ Lose(n) /\ UNCHANGED env
        /\ reaped' = IF recovered THEN reaped \cup {n} ELSE reaped
    BY <1>1, <1>2, <1>6, <1>9 DEF OnStorage
  <2>2. SameEnv /\ EnvOK /\ EnvOK'
    BY <2>1, SameEnvs
  <2>3. PICK s : s = Crashed(p, n)
    OBVIOUS
  <2>4. PICK d \in RestartDelay : sched' = After(s, d, RestartEvent(n))
    BY <2>1, <2>3 DEF Reaped
  <2>5. /\ SchedOK(s) /\ Asked(s, n, Unset, {}) /\ SameDriver(p, s)
        /\ \A k : k # n => SameTimers(p, s, k) /\ SameStorage(p, s, k)
    BY <1>4, <2>3, CrashedFacts
  <2>6. PICK v : v = RestartEvent(n)
    OBVIOUS
  <2>7. v.kind = "restart" /\ v.node = n /\ EventOK(v)
    BY <1>5, <2>6 DEF RestartEvent, EventOK
  <2>8. PICK y : y = [time |-> s.now + d, id |-> s.nextId, event |-> v]
    OBVIOUS
  <2>9. d \in Nat
    BY <2>2 DEF EnvOK
  <2>10. /\ SchedOK(sched') /\ sched'.queue = s.queue \cup {y} /\ y.event = v
         /\ \A k : SameTimers(s, sched', k) /\ SameStorage(s, sched', k)
    BY <2>4, <2>5, <2>6, <2>7, <2>8, <2>9, AddsDriver
  <2>11. /\ deadline' = [k \in Server |-> deadline'[k]]
         /\ waits' = [k \in Server |-> waits'[k]]
         /\ up' \in [Server -> BOOLEAN]
         /\ \A k \in Server : up'[k] = IF k = n THEN FALSE ELSE up[k]
         /\ \A k \in Server : Asked(sched', k, deadline'[k], waits'[k])
         /\ \A k \in Server : ~up'[k] => deadline'[k] = Unset /\ waits'[k] = {}
    BY <1>5, <1>7, <2>1, <2>5, <2>10, LoseKeeps
  <2>12. \A e : e.event.kind \in {"tick", "restart", "stop"} =>
                  (e \in sched'.queue <=> e \in sched.queue \/ e = y)
    BY <1>5, <2>5, <2>10 DEF SameDriver, IsDriver
  <2>13. TickOK' /\ StopOK'
    <3>1. TickOK /\ StopOK /\ Server' = Server /\ StopAt' = StopAt
      BY <2>2 DEF WorldInv, SameEnv
    <3>2. y \in sched'.queue /\ y.event.kind = "restart" /\ y.event.node = n
      BY <2>7, <2>10
    <3>3. \A e : e.event.kind \in {"tick", "stop"} => (e \in sched'.queue <=> e \in sched.queue)
      BY <2>12, <3>2
    <3>4. \A e \in sched.queue : e.event.kind = "restart" => e \in sched'.queue
      BY <2>12
    <3>5. CASE recovered
      <4>1. ASSUME NEW k \in Server, ~up'[k]
            PROVE  \E e \in sched'.queue : e.event.kind = "restart" /\ e.event.node = k
        <5>1. CASE k = n
          BY <3>2, <5>1
        <5>2. CASE k # n
          BY <2>11, <3>1, <3>4, <3>5, <4>1, <5>2 DEF TickOK
        <5> QED
          BY <5>1, <5>2
      <4>2. \A e \in sched'.queue : e.event.kind # "tick"
        BY <3>1, <3>3, <3>5 DEF TickOK
      <4>3. TickOK'
        BY <1>3, <3>1, <3>5, <4>1, <4>2 DEF TickOK
      <4>4. StopOK'
        BY <1>3, <3>1, <3>3 DEF StopOK
      <4> QED
        BY <4>3, <4>4
    <3>6. CASE ~recovered
      <4>1. PICK t \in sched.queue : /\ t.event.kind = "tick"
                                     /\ \A e \in sched.queue : e.event.kind = "tick" => e = t
                                     /\ Settles => t.time < StopAt
        BY <3>1, <3>6 DEF TickOK
      <4>2. t \in sched'.queue /\ \A e \in sched'.queue : e.event.kind = "tick" => e = t
        BY <3>3, <4>1
      <4>3. TickOK'
        BY <1>3, <3>1, <3>6, <4>1, <4>2 DEF TickOK
      <4>4. StopOK'
        BY <1>3, <3>1, <3>3 DEF StopOK
      <4> QED
        BY <4>3, <4>4
    <3> QED
      BY <3>5, <3>6
  <2>14. QuietTail'
    BY <1>3, <2>1, <2>2, <2>11 DEF WorldInv, QuietTail, Down, SameEnv, netVars
  <2> QED
    BY <1>3, <2>2, <2>10, <2>11, <2>13, <2>14, Assemble DEF WorldInv
<1> QED
  BY <1>8, <1>9

-----------------------------------------------------------------------------
(* Restarts.                                                               *)

LEMMA HandlesExist ==
    ASSUME NEW s, s.nextId \in Nat, NEW ns, IsFiniteSet(ns), NEW f, f = NewHandles(s, ns)
    PROVE  /\ f \in [ns -> s.nextId..(s.nextId + Cardinality(ns) - 1)]
           /\ \A a, b \in ns : f[a] = f[b] => a = b
           /\ Cardinality(ns) \in Nat
<1>1. PICK c : c = Cardinality(ns)
  OBVIOUS
<1>2. c \in Nat /\ ExistsBijection(1..c, ns)
  BY <1>1, FS_CardinalityType
<1>3. PICK g : g \in [1..c -> ns] /\ \A n \in ns : \E i \in 1..c : g[i] = n
  BY <1>2 DEF ExistsBijection, Bijection, Surjection
<1> DEFINE at(n) == CHOOSE i \in 1..c : g[i] = n
           F == [n \in ns |-> s.nextId + at(n) - 1]
<1>4. \A n \in ns : at(n) \in 1..c /\ g[at(n)] = n
  BY <1>3
<1> HIDE DEF at
<1>5. \A n \in ns : F[n] \in s.nextId..(s.nextId + c - 1)
  BY <1>2, <1>4
<1>6. F \in [ns -> s.nextId..(s.nextId + c - 1)]
  BY <1>5
<1>7. \A a, b \in ns : F[a] = F[b] => a = b
  <2>1. SUFFICES ASSUME NEW a \in ns, NEW b \in ns, F[a] = F[b] PROVE a = b
    OBVIOUS
  <2>2. s.nextId + at(a) - 1 = s.nextId + at(b) - 1 /\ at(a) \in Int /\ at(b) \in Int
    BY <1>4, <2>1
  <2>3. at(a) = at(b)
    BY <2>2
  <2> QED
    BY <1>4, <2>3
<1> HIDE DEF F
<1>8. \E h \in [ns -> s.nextId..(s.nextId + c - 1)] : \A a, b \in ns : h[a] = h[b] => a = b
  BY <1>6, <1>7
<1> QED
  BY <1>1, <1>2, <1>8 DEF NewHandles

(* Every server in ns gets one timer, the others keep theirs. *)
LEMMA RestartedFacts ==
    ASSUME NEW s, SchedOK(s), EnvOK, NEW ns \in SUBSET Server, NEW ds \in [ns -> TimerDelay],
           NEW u, u = Restarted(s, ns, ds), NEW f, f = NewHandles(s, ns)
    PROVE  /\ SchedOK(u) /\ u.now = s.now
           /\ \A n \in ns : TimerOK(s, n, Unset) => TimerOK(u, n, f[n])
           /\ \A n : n \notin ns => SameTimers(s, u, n)
           /\ \A e : e.event.kind # "timer" => (e \in s.queue <=> e \in u.queue)
<1> DEFINE x(n) == [time |-> s.now + ds[n], id |-> f[n], event |-> TimerEvent(n)]
<1>1. IsFiniteSet(ns) /\ s.nextId \in Nat /\ s.now \in Nat
  BY FS_Subset DEF EnvOK, SchedOK
<1>2. /\ f \in [ns -> s.nextId..(s.nextId + Cardinality(ns) - 1)]
      /\ \A a, b \in ns : f[a] = f[b] => a = b
      /\ Cardinality(ns) \in Nat
  BY <1>1, HandlesExist
<1>3. PICK c : c = Cardinality(ns)
  OBVIOUS
<1>4. PICK new : new = {x(n) : n \in ns}
  OBVIOUS
<1>5. u = [now |-> s.now, nextId |-> s.nextId + c, queue |-> s.queue \cup new, cancelled |-> s.cancelled]
  BY <1>3, <1>4 DEF Restarted, SchedOK
<1>6. ASSUME NEW n \in ns
      PROVE  /\ x(n).time \in Nat /\ x(n).id = f[n] /\ x(n).event.kind = "timer" /\ x(n).event.node = n
             /\ f[n] \in Nat /\ f[n] < s.nextId + c /\ s.nextId <= f[n] /\ EventOK(x(n).event)
  <2>1. ds[n] \in Nat
    BY <1>6 DEF EnvOK
  <2>2. f[n] \in Nat /\ f[n] < s.nextId + c /\ s.nextId <= f[n]
    BY <1>1, <1>2, <1>3, <1>6
  <2> QED
    BY <1>1, <1>6, <2>1, <2>2 DEF TimerEvent, EventOK
<1>7. IsFiniteSet(new)
  <2> HIDE DEF x
  <2> DEFINE g == [n \in ns |-> x(n)]
  <2>1. g \in Surjection(ns, new)
    BY <1>4 DEF Surjection
  <2> HIDE DEF g
  <2> QED
    BY <1>1, <2>1, FS_Surjection
<1> HIDE DEF x
<1>8. \A e \in new : \E n \in ns : e = x(n)
  BY <1>4
<1>9. \A e \in new : e.id \notin s.cancelled /\ \A g \in s.queue : g.id # e.id
  BY <1>1, <1>6, <1>8 DEF SchedOK
<1>10. SchedOK(u)
  <2>1. IsFiniteSet(u.queue)
    <3>1. IsFiniteSet(s.queue) /\ u.queue = s.queue \cup new
      BY <1>5 DEF SchedOK
    <3> QED
      BY <1>7, <3>1, FS_Union
  <2>2. u.nextId = s.nextId + c /\ u.nextId \in Nat /\ c \in Nat
    BY <1>1, <1>2, <1>3, <1>5
  <2>3. \A e \in u.queue : /\ e.time \in Nat /\ e.id \in Nat /\ e.id < u.nextId /\ EventOK(e.event)
                           /\ e.id \in u.cancelled => e.event.kind = "timer"
    <3>1. SUFFICES ASSUME NEW e \in u.queue
                   PROVE  /\ e.time \in Nat /\ e.id \in Nat /\ e.id < u.nextId /\ EventOK(e.event)
                          /\ e.id \in u.cancelled => e.event.kind = "timer"
      OBVIOUS
    <3>2. CASE e \in s.queue
      BY <1>1, <1>5, <2>2, <3>2 DEF SchedOK
    <3>3. CASE e \in new
      BY <1>5, <1>6, <1>8, <2>2, <3>3
    <3> QED
      BY <1>5, <3>1, <3>2, <3>3
  <2>4. \A e, g \in u.queue : e.id = g.id => e = g
    <3>1. \A e, g \in new : e.id = g.id => e = g
      BY <1>2, <1>6, <1>8
    <3> QED
      BY <1>5, <1>9, <3>1 DEF SchedOK
  <2>5. \A i \in u.cancelled : i \in Nat /\ i < u.nextId
    BY <1>1, <1>5, <2>2 DEF SchedOK
  <2> QED
    BY <1>1, <1>5, <2>1, <2>2, <2>3, <2>4, <2>5 DEF SchedOK
<1>11. Live(u) = Live(s) \cup new
  BY <1>5, <1>9 DEF Live
<1>12. ASSUME NEW n \in ns, TimerOK(s, n, Unset) PROVE TimerOK(u, n, f[n])
  <2>1. \A e \in Live(s) : ~IsTimer(e, n)
    BY <1>12, UnsetAssumption DEF TimerOK, Live, SchedOK
  <2>2. \A e \in new : IsTimer(e, n) => e = x(n)
    BY <1>6, <1>8 DEF IsTimer
  <2>3. x(n) \in new /\ IsTimer(x(n), n) /\ x(n).id = f[n]
    BY <1>4, <1>6 DEF IsTimer
  <2> QED
    BY <1>6, <1>11, <2>1, <2>2, <2>3 DEF TimerOK
<1>13. ASSUME NEW n, n \notin ns PROVE SameTimers(s, u, n)
  <2>1. \A e \in new : ~IsTimer(e, n)
    BY <1>6, <1>8, <1>13 DEF IsTimer
  <2> QED
    BY <1>11, <2>1 DEF SameTimers
<1>14. \A e : e.event.kind # "timer" => (e \in s.queue <=> e \in u.queue)
  BY <1>5, <1>6, <1>8
<1>15. u.now = s.now
  BY <1>5
<1> QED
  BY <1>10, <1>12, <1>13, <1>14, <1>15

(* The servers after those in ns, which were down, are restarted. *)
LEMMA RestartKeeps ==
    ASSUME WorldInv, NEW p, SchedOK(p), \A k \in Server : Asked(p, k, deadline[k], waits[k]),
           NEW ns, ns \subseteq Down, Restart(p, ns)
    PROVE  /\ SchedOK(sched') /\ sched'.now = p.now
           /\ deadline' = [k \in Server |-> deadline'[k]]
           /\ waits' = [k \in Server |-> waits'[k]]
           /\ up' \in [Server -> BOOLEAN]
           /\ \A k \in Server : up'[k] = (up[k] \/ k \in ns)
           /\ \A k \in Server : Asked(sched', k, deadline'[k], waits'[k])
           /\ \A k \in Server : ~up'[k] => deadline'[k] = Unset /\ waits'[k] = {}
           /\ \A e : e.event.kind # "timer" => (e \in p.queue <=> e \in sched'.queue)
<1>1. EnvOK /\ FunctionsOK /\ ServersOK /\ ns \in SUBSET Server
  BY DEF WorldInv, Down
<1>2. PICK f : f = NewHandles(p, ns)
  OBVIOUS
<1>3. PICK ds \in [ns -> TimerDelay] : sched' = Restarted(p, ns, ds)
  BY DEF Restart
<1>4. /\ SchedOK(sched') /\ sched'.now = p.now
      /\ \A n \in ns : TimerOK(p, n, Unset) => TimerOK(sched', n, f[n])
      /\ \A n : n \notin ns => SameTimers(p, sched', n)
      /\ \A e : e.event.kind # "timer" => (e \in p.queue <=> e \in sched'.queue)
  BY <1>1, <1>2, <1>3, RestartedFacts
<1>5. /\ up' = [n \in Server |-> up[n] \/ n \in ns]
      /\ deadline' = [n \in Server |-> IF n \in ns THEN f[n] ELSE deadline[n]]
      /\ waits' = waits
  BY <1>2 DEF Restart
<1>6. \A k : SameStorage(p, sched', k)
  BY <1>4 DEF SameStorage, IsStorage
<1>7. ASSUME NEW k \in Server PROVE Asked(sched', k, deadline'[k], waits'[k])
  <2>1. StorageOK(sched', k, waits'[k])
    BY <1>5, <1>6, KeepsStorage DEF Asked
  <2>2. CASE k \in ns
    <3>1. deadline[k] = Unset
      BY <1>1, <2>2 DEF ServersOK, Down
    <3>2. deadline'[k] = f[k]
      BY <1>5, <2>2
    <3>3. TimerOK(p, k, Unset)
      BY <3>1 DEF Asked
    <3>4. TimerOK(sched', k, deadline'[k])
      BY <1>4, <2>2, <3>2, <3>3
    <3> QED
      BY <2>1, <3>4 DEF Asked
  <2>3. CASE k \notin ns
    <3>1. deadline'[k] = deadline[k]
      BY <1>5, <2>3
    <3>2. TimerOK(sched', k, deadline'[k])
      BY <1>4, <2>3, <3>1, KeepsTimer DEF Asked
    <3> QED
      BY <2>1, <3>2 DEF Asked
  <2> QED
    BY <2>2, <2>3
<1>8. \A k \in Server : ~up'[k] => deadline'[k] = Unset /\ waits'[k] = {}
  BY <1>1, <1>5 DEF ServersOK
<1>10. /\ deadline' = [k \in Server |-> deadline'[k]]
       /\ waits' = [k \in Server |-> waits'[k]]
  BY <1>1, <1>5 DEF FunctionsOK
<1>11. up' \in [Server -> BOOLEAN] /\ \A k \in Server : up'[k] = (up[k] \/ k \in ns)
  BY <1>5
<1> QED
  BY <1>4, <1>7, <1>8, <1>10, <1>11

(* The tail, when nobody more is down and no link is touched. *)
LEMMA TailKeeps ==
    ASSUME WorldInv, SameEnv, UNCHANGED <<netVars, tailVars>>, \A n \in Server : up[n] => up'[n]
    PROVE  QuietTail'
  BY DEF WorldInv, QuietTail, Down, SameEnv, netVars, tailVars

LEMMA OnRestartStep ==
    ASSUME WorldInv, OnRestart
    PROVE  WorldInv'
<1>0. PICK x : x = Head1(sched)
  OBVIOUS
<1>1. PICK p : p = Popped(sched)
  OBVIOUS
<1>2. PICK n : n = Fired.node
  OBVIOUS
<1>3. /\ Pops("restart") /\ Restart(p, {n} \cap Down)
      /\ UNCHANGED <<netVars, tailVars, finished, env>>
  BY <1>1, <1>2 DEF OnRestart
<1>4. /\ x \in sched.queue /\ x.event.kind = "restart" /\ x.event = Fired /\ EventOK(x.event)
      /\ SchedOK(p) /\ x \notin p.queue
      /\ \A k : (~IsTimer(x, k) => SameTimers(sched, p, k))
                /\ (~IsStorage(x, k) => SameStorage(sched, p, k))
      /\ \A e : IsDriver(e) /\ e # x => (e \in sched.queue <=> e \in p.queue)
  BY <1>0, <1>1, <1>3, PopFacts
<1>5. n \in Server /\ x.event.node = n /\ \A k : ~IsStorage(x, k) /\ ~IsTimer(x, k)
  BY <1>2, <1>4 DEF EventOK, IsTimer, IsStorage
<1>6. \A k \in Server : Asked(p, k, deadline[k], waits[k])
  BY <1>4, <1>5, KeepsAsked DEF WorldInv, ServersOK
<1>7. /\ SchedOK(sched')
      /\ deadline' = [k \in Server |-> deadline'[k]]
      /\ waits' = [k \in Server |-> waits'[k]]
      /\ up' \in [Server -> BOOLEAN]
      /\ \A k \in Server : up'[k] = (up[k] \/ k \in {n} \cap Down)
      /\ \A k \in Server : Asked(sched', k, deadline'[k], waits'[k])
      /\ \A k \in Server : ~up'[k] => deadline'[k] = Unset /\ waits'[k] = {}
      /\ \A e : e.event.kind # "timer" => (e \in p.queue <=> e \in sched'.queue)
  BY <1>3, <1>4, <1>6, RestartKeeps
<1>8. SameEnv /\ EnvOK /\ EnvOK'
  BY <1>3, SameEnvs
<1>9. \A e : e.event.kind \in {"tick", "restart", "stop"} /\ e # x => (e \in sched.queue <=> e \in sched'.queue)
  BY <1>4, <1>7 DEF IsDriver
<1>10. x \notin sched'.queue
  BY <1>4, <1>7
<1>11. \A k \in Server : ~up'[k] => ~up[k] /\ k # n
  BY <1>7 DEF Down
<1>12. TickOK /\ StopOK /\ Server' = Server /\ StopAt' = StopAt
  BY <1>8 DEF WorldInv, SameEnv
<1>13. \A e : e.event.kind \in {"tick", "stop"} => (e \in sched.queue <=> e \in sched'.queue)
  BY <1>4, <1>9
<1>14. StopOK'
  BY <1>3, <1>12, <1>13 DEF StopOK, tailVars
<1>15. TickOK'
  <2>1. CASE recovered
    <3>1. ASSUME NEW k \in Server, ~up'[k]
          PROVE  \E e \in sched'.queue : e.event.kind = "restart" /\ e.event.node = k
      <4>1. PICK e \in sched.queue : e.event.kind = "restart" /\ e.event.node = k
        BY <1>11, <1>12, <2>1, <3>1 DEF TickOK
      <4>2. e # x
        BY <1>5, <1>11, <3>1, <4>1
      <4> QED
        BY <1>9, <4>1, <4>2
    <3>2. \A e \in sched'.queue : e.event.kind # "tick"
      BY <1>12, <1>13, <2>1 DEF TickOK
    <3> QED
      BY <1>3, <1>12, <2>1, <3>1, <3>2 DEF TickOK, tailVars
  <2>2. CASE ~recovered
    <3>1. PICK t \in sched.queue : /\ t.event.kind = "tick"
                                   /\ \A e \in sched.queue : e.event.kind = "tick" => e = t
                                   /\ Settles => t.time < StopAt
      BY <1>12, <2>2 DEF TickOK
    <3>2. t \in sched'.queue /\ \A e \in sched'.queue : e.event.kind = "tick" => e = t
      BY <1>13, <3>1
    <3> QED
      BY <1>3, <1>12, <2>2, <3>1, <3>2 DEF TickOK, tailVars
  <2> QED
    BY <2>1, <2>2
<1>16. QuietTail'
  BY <1>3, <1>7, <1>8, TailKeeps
<1> QED
  BY <1>3, <1>7, <1>8, <1>14, <1>15, <1>16, Assemble DEF WorldInv, tailVars

(* The stop comes after the last tick. *)
LEMMA OnStopStep ==
    ASSUME WorldInv, OnStop
    PROVE  WorldInv'
<1>0. PICK x : x = Head1(sched)
  OBVIOUS
<1>1. /\ Pops("stop") /\ sched' = Popped(sched) /\ finished' = TRUE
      /\ UNCHANGED <<up, deadline, waits, netVars, tailVars, env>>
  BY DEF OnStop
<1>2. /\ x \in sched.queue /\ x.event.kind = "stop" /\ x.time \in Nat
      /\ SchedOK(sched') /\ x \notin sched'.queue
      /\ \A k : (~IsTimer(x, k) => SameTimers(sched, sched', k))
                /\ (~IsStorage(x, k) => SameStorage(sched, sched', k))
      /\ \A e : IsDriver(e) /\ e # x => (e \in sched.queue <=> e \in sched'.queue)
      /\ \A f \in Live(sched) \ {x} : Before(x, f)
  BY <1>0, <1>1, PopFacts
<1>3. \A k : ~IsStorage(x, k) /\ ~IsTimer(x, k)
  BY <1>2 DEF IsTimer, IsStorage
<1>4. \A k \in Server : Asked(sched', k, deadline'[k], waits'[k])
  BY <1>1, <1>2, <1>3, KeepsAsked DEF WorldInv, ServersOK
<1>5. SameEnv /\ EnvOK /\ EnvOK'
  BY <1>1, SameEnvs
<1>6. TickOK /\ StopOK /\ Server' = Server /\ StopAt' = StopAt /\ StopAt \in Nat
  BY <1>5 DEF WorldInv, SameEnv, EnvOK
<1>7. \A e : e.event.kind \in {"tick", "restart"} => (e \in sched.queue <=> e \in sched'.queue)
  BY <1>2 DEF IsDriver
<1>8. TickOK'
  <2>1. CASE recovered
    BY <1>1, <1>6, <1>7, <2>1 DEF TickOK, tailVars
  <2>2. CASE ~recovered
    <3>1. PICK t \in sched.queue : /\ t.event.kind = "tick"
                                   /\ \A e \in sched.queue : e.event.kind = "tick" => e = t
                                   /\ Settles => t.time < StopAt
      BY <1>6, <2>2 DEF TickOK
    <3>2. t \in sched'.queue /\ \A e \in sched'.queue : e.event.kind = "tick" => e = t
      BY <1>7, <3>1
    <3> QED
      BY <1>1, <1>6, <2>2, <3>1, <3>2 DEF TickOK, tailVars
  <2> QED
    BY <2>1, <2>2
<1>9. ASSUME Settles, ~recovered PROVE FALSE
  <2>1. PICK t \in sched.queue : t.event.kind = "tick" /\ t.time < StopAt
    BY <1>6, <1>9 DEF TickOK
  <2>2. t \in Live(sched) /\ t # x /\ t.time \in Nat
    BY <1>2, <2>1 DEF WorldInv, SchedOK, Live
  <2>3. x.time = StopAt
    BY <1>2, <1>6 DEF StopOK
  <2> QED
    BY <1>2, <1>6, <2>1, <2>2, <2>3 DEF Before
<1>10. StopOK'
  <2>1. \A e \in sched'.queue : e.event.kind = "stop" => e.time = StopAt
    <3>1. \A e \in sched'.queue : e.event.kind = "stop" => e \in sched.queue
      BY <1>2 DEF IsDriver
    <3> QED
      BY <1>6, <3>1 DEF StopOK
  <2> QED
    BY <1>1, <1>6, <1>9, <2>1 DEF StopOK, tailVars
<1>11. QuietTail'
  BY <1>1, <1>5, TailKeeps
<1>13. /\ deadline' = [k \in Server |-> deadline'[k]]
       /\ waits' = [k \in Server |-> waits'[k]]
       /\ up' \in [Server -> BOOLEAN]
       /\ \A k \in Server : ~up'[k] => deadline'[k] = Unset /\ waits'[k] = {}
  BY <1>1 DEF WorldInv, FunctionsOK, ServersOK
<1> QED
  BY <1>1, <1>2, <1>4, <1>5, <1>8, <1>10, <1>11, <1>13, Assemble DEF WorldInv, tailVars

-----------------------------------------------------------------------------
(* Ticks.                                                                  *)

(* What a tick finds: it is the only one, so the recovery is to come.      *)
LEMMA TickFacts ==
    ASSUME WorldInv, Pops("tick"), NEW p, p = Popped(sched)
    PROVE  /\ ~recovered /\ SchedOK(p) /\ p.now = Tick /\ p.nextId \in Nat /\ Tick \in Nat
           /\ \A k \in Server : Asked(p, k, deadline[k], waits[k])
           /\ \A e \in p.queue : e.event.kind # "tick"
           /\ \A e : e.event.kind \in {"restart", "stop"} => (e \in sched.queue <=> e \in p.queue)
<1>0. PICK x : x = Head1(sched)
  OBVIOUS
<1>1. /\ x \in sched.queue /\ x.event.kind = "tick" /\ x.time \in Nat
      /\ SchedOK(p) /\ x \notin p.queue /\ p.now = x.time /\ p.nextId \in Nat
      /\ \A k : (~IsTimer(x, k) => SameTimers(sched, p, k))
                /\ (~IsStorage(x, k) => SameStorage(sched, p, k))
      /\ \A e : IsDriver(e) /\ e # x => (e \in sched.queue <=> e \in p.queue)
  BY <1>0, PopFacts
<1>2. \A k : ~IsStorage(x, k) /\ ~IsTimer(x, k)
  BY <1>1 DEF IsTimer, IsStorage
<1>3. \A k \in Server : Asked(p, k, deadline[k], waits[k])
  BY <1>1, <1>2, KeepsAsked DEF WorldInv, ServersOK
<1>4. ~recovered /\ \A e \in sched.queue : e.event.kind = "tick" => e = x
  BY <1>1 DEF WorldInv, TickOK
<1>5. \A e \in p.queue : e.event.kind # "tick"
  BY <1>1, <1>4 DEF IsDriver
<1>6. \A e : e.event.kind \in {"restart", "stop"} => (e \in sched.queue <=> e \in p.queue)
  BY <1>1 DEF IsDriver
<1>7. Tick = x.time
  BY <1>0 DEF Tick
<1> QED
  BY <1>1, <1>3, <1>4, <1>5, <1>6, <1>7

(* A tick of the window is followed by another one. *)
LEMMA TickKeeps ==
    ASSUME WorldInv, Pops("tick"), Tick < WindowEnd, NEW p, p = Popped(sched),
           NEW s, SchedOK(s), s.now = p.now, SameDriver(p, s),
           sched' \in TickAgain(s, FALSE), UNCHANGED <<recovered, finished>>, SameEnv, EnvOK',
           deadline' = [k \in Server |-> deadline'[k]],
           waits' = [k \in Server |-> waits'[k]],
           up' \in [Server -> BOOLEAN],
           \A k \in Server : Asked(s, k, deadline'[k], waits'[k]),
           \A k \in Server : ~up'[k] => deadline'[k] = Unset /\ waits'[k] = {}
    PROVE  WorldInv'
<1>1. /\ ~recovered /\ SchedOK(p) /\ p.now = Tick /\ Tick \in Nat
      /\ \A e \in p.queue : e.event.kind # "tick"
      /\ \A e : e.event.kind \in {"restart", "stop"} => (e \in sched.queue <=> e \in p.queue)
  BY TickFacts
<1>2. EnvOK
  BY DEF WorldInv
<1>3. PICK d \in TickDelay : sched' = After(s, d, TickEvent)
  BY DEF TickAgain
<1>4. d \in Nat /\ WindowEnd \in Nat /\ StopAt \in Nat
  BY <1>2 DEF EnvOK
<1>5. PICK v : v = TickEvent
  OBVIOUS
<1>6. v.kind = "tick" /\ EventOK(v)
  BY <1>5 DEF TickEvent, EventOK
<1>7. PICK y : y = [time |-> s.now + d, id |-> s.nextId, event |-> v]
  OBVIOUS
<1>8. /\ SchedOK(sched') /\ sched'.queue = s.queue \cup {y} /\ y.event = v /\ y.time = s.now + d
      /\ \A k : SameTimers(s, sched', k) /\ SameStorage(s, sched', k)
  BY <1>3, <1>4, <1>5, <1>6, <1>7, AddsDriver
<1>9. \A k \in Server : Asked(sched', k, deadline'[k], waits'[k])
  BY <1>8, KeepsAsked
<1>10. TickOK /\ StopOK /\ SettlesOK /\ Server' = Server /\ StopAt' = StopAt
  BY <1>2 DEF WorldInv, SameEnv
<1>11. TickOK'
  <2>1. \A e \in sched'.queue : e.event.kind = "tick" => e = y
    BY <1>1, <1>8 DEF SameDriver, IsDriver
  <2>2. Settles => y.time < StopAt
    <3>1. SUFFICES ASSUME Settles PROVE y.time < StopAt
      OBVIOUS
    <3>2. WindowEnd + d <= StopAt
      BY <1>10, <3>1 DEF SettlesOK
    <3> QED
      BY <1>1, <1>4, <1>8, <3>2
  <2> QED
    BY <1>1, <1>6, <1>8, <1>10, <2>1, <2>2 DEF TickOK
<1>12. StopOK'
  <2>1. \A e : e.event.kind = "stop" => (e \in sched.queue <=> e \in sched'.queue)
    BY <1>1, <1>6, <1>8 DEF SameDriver, IsDriver
  <2> QED
    BY <1>10, <2>1 DEF StopOK
<1>13. QuietTail'
  BY <1>1 DEF QuietTail
<1> QED
  BY <1>2, <1>8, <1>9, <1>10, <1>11, <1>12, <1>13, Assemble DEF WorldInv

LEMMA InjectCrashStep ==
    ASSUME WorldInv, Pops("tick"), InjectCrash, UNCHANGED <<finished, env>>
    PROVE  WorldInv'
<1>1. PICK p : p = Popped(sched)
  OBVIOUS
<1>2. PICK n \in Server \ Down : sched' \in TickAgain(Crashed(p, n), FALSE) /\ Lose(n)
  BY <1>1 DEF InjectCrash
<1>3. Tick < WindowEnd /\ UNCHANGED recovered
  BY DEF InjectCrash, InWindow
<1>4. SchedOK(p) /\ \A k \in Server : Asked(p, k, deadline[k], waits[k])
  BY <1>1, TickFacts
<1>5. PICK s : s = Crashed(p, n)
  OBVIOUS
<1>6. /\ SchedOK(s) /\ s.now = p.now /\ Asked(s, n, Unset, {}) /\ SameDriver(p, s)
     
      /\ \A k : k # n => SameTimers(p, s, k) /\ SameStorage(p, s, k)
  BY <1>4, <1>5, CrashedFacts
<1>7. FunctionsOK /\ ServersOK
  BY DEF WorldInv
<1>8. /\ up' = [k \in Server |-> IF k = n THEN FALSE ELSE up[k]]
      /\ deadline' = [k \in Server |-> IF k = n THEN Unset ELSE deadline[k]]
      /\ waits' = [k \in Server |-> IF k = n THEN {} ELSE waits[k]]
  BY <1>2, <1>7 DEF Lose, FunctionsOK
<1>9. ASSUME NEW k \in Server PROVE Asked(s, k, deadline'[k], waits'[k])
  <2>1. CASE k = n
    BY <1>6, <1>8, <2>1
  <2>2. CASE k # n
    <3>1. deadline'[k] = deadline[k] /\ waits'[k] = waits[k]
      BY <1>8, <2>2
    <3> QED
      BY <1>4, <1>6, <2>2, <3>1, KeepsAsked
  <2> QED
    BY <2>1, <2>2
<1>10. \A k \in Server : ~up'[k] => deadline'[k] = Unset /\ waits'[k] = {}
  BY <1>7, <1>8 DEF ServersOK
<1>11. /\ deadline' = [k \in Server |-> deadline'[k]]
       /\ waits' = [k \in Server |-> waits'[k]]
       /\ up' \in [Server -> BOOLEAN]
  BY <1>7, <1>8 DEF FunctionsOK
<1> QED
  BY <1>1, <1>2, <1>3, <1>5, <1>6, <1>9, <1>10, <1>11, TickKeeps, SameEnvs

LEMMA InjectRestartStep ==
    ASSUME WorldInv, Pops("tick"), InjectRestart, UNCHANGED <<finished, env>>
    PROVE  WorldInv'
<1>1. PICK p : p = Popped(sched)
  OBVIOUS
<1>2. PICK n \in Down, d \in TimerDelay :
        /\ sched' \in TickAgain(After(p, d, TimerEvent(n)), FALSE)
        /\ up' = [up EXCEPT ![n] = TRUE]
        /\ deadline' = [deadline EXCEPT ![n] = p.nextId]
  BY <1>1 DEF InjectRestart
<1>3. Tick < WindowEnd /\ UNCHANGED <<recovered, waits>>
  BY DEF InjectRestart, InWindow
<1>4. SchedOK(p) /\ p.nextId \in Nat /\ \A k \in Server : Asked(p, k, deadline[k], waits[k])
  BY <1>1, TickFacts
<1>5. PICK s : s = After(p, d, TimerEvent(n))
  OBVIOUS
<1>6. FunctionsOK /\ ServersOK /\ EnvOK /\ n \in Server /\ ~up[n]
  BY <1>2 DEF WorldInv, Down
<1>7. deadline[n] = Unset /\ TimerOK(p, n, Unset)
  BY <1>4, <1>6 DEF ServersOK, Asked
<1>8. s = Rearmed(p, Unset, n, d) /\ d \in Nat
  BY <1>2, <1>5, <1>6 DEF Rearmed, Disarmed, EnvOK
<1>9. /\ SchedOK(s) /\ s.now = p.now /\ TimerOK(s, n, p.nextId)
      /\ \A k \in Server \ {n} : SameTimers(p, s, k)
      /\ \A e : e.event.kind # "timer" => (e \in p.queue <=> e \in s.queue)
  BY <1>4, <1>6, <1>7, <1>8, RearmedFacts
<1>10. SameDriver(p, s) /\ \A k : SameStorage(p, s, k)
  BY <1>9 DEF SameDriver, IsDriver, SameStorage, IsStorage
<1>12. /\ up' = [k \in Server |-> IF k = n THEN TRUE ELSE up[k]]
       /\ deadline' = [k \in Server |-> IF k = n THEN p.nextId ELSE deadline[k]]
  BY <1>2, <1>6 DEF FunctionsOK
<1>13. ASSUME NEW k \in Server PROVE Asked(s, k, deadline'[k], waits'[k])
  <2>1. StorageOK(s, k, waits'[k])
    BY <1>3, <1>4, <1>10, KeepsStorage DEF Asked
  <2>2. CASE k = n
    BY <1>9, <1>12, <2>1, <2>2 DEF Asked
  <2>3. CASE k # n
    <3>1. deadline'[k] = deadline[k]
      BY <1>12, <2>3
    <3>2. TimerOK(s, k, deadline'[k])
      BY <1>4, <1>9, <2>3, <3>1, KeepsTimer DEF Asked
    <3> QED
      BY <2>1, <3>2 DEF Asked
  <2> QED
    BY <2>2, <2>3
<1>14. \A k \in Server : ~up'[k] => deadline'[k] = Unset /\ waits'[k] = {}
  BY <1>3, <1>6, <1>12 DEF ServersOK
<1>15. /\ deadline' = [k \in Server |-> deadline'[k]]
       /\ waits' = [k \in Server |-> waits'[k]]
       /\ up' \in [Server -> BOOLEAN]
  BY <1>3, <1>6, <1>12 DEF FunctionsOK
<1> QED
  BY <1>1, <1>2, <1>3, <1>5, <1>9, <1>10, <1>13, <1>14, <1>15, TickKeeps, SameEnvs

(* Faults of the links and of the membership, and none at all. *)
LEMMA OtherFaultStep ==
    ASSUME WorldInv, Pops("tick"), Tick < WindowEnd, UNCHANGED <<up, deadline, waits, recovered, finished, env>>,
           NEW s, s = Popped(sched) \/ s \in HealLater(Popped(sched)), sched' \in TickAgain(s, FALSE)
    PROVE  WorldInv'
<1>1. PICK p : p = Popped(sched)
  OBVIOUS
<1>2. SchedOK(p) /\ \A k \in Server : Asked(p, k, deadline[k], waits[k])
  BY <1>1, TickFacts
<1>3. /\ SchedOK(s) /\ s.now = p.now /\ SameDriver(p, s)
      /\ \A k \in Server : Asked(s, k, deadline[k], waits[k])
  <2>1. CASE s = p
    BY <1>2, <2>1 DEF SameDriver
  <2>2. ASSUME NEW d \in HealDelay, s = After(p, d, HealEvent)
        PROVE  /\ SchedOK(s) /\ s.now = p.now /\ SameDriver(p, s)
               /\ \A k \in Server : Asked(s, k, deadline[k], waits[k])
    <3>1. PICK v : v = HealEvent
      OBVIOUS
    <3>2. v.kind = "heal" /\ EventOK(v) /\ d \in Nat
      BY <3>1 DEF HealEvent, EventOK, WorldInv, EnvOK
    <3>3. PICK y : y = [time |-> p.now + d, id |-> p.nextId, event |-> v]
      OBVIOUS
    <3>4. /\ SchedOK(s) /\ s.now = p.now /\ SameDriver(p, s)
          /\ \A k : SameTimers(p, s, k) /\ SameStorage(p, s, k)
      BY <1>2, <2>2, <3>1, <3>2, <3>3, AddsDriver
    <3> QED
      BY <1>2, <3>4, KeepsAsked
  <2> QED
    BY <1>1, <2>1, <2>2 DEF HealLater
<1>4. /\ deadline' = [k \in Server |-> deadline'[k]]
      /\ waits' = [k \in Server |-> waits'[k]]
      /\ up' \in [Server -> BOOLEAN]
      /\ \A k \in Server : ~up'[k] => deadline'[k] = Unset /\ waits'[k] = {}
  BY DEF WorldInv, FunctionsOK, ServersOK
<1> QED
  BY <1>1, <1>3, <1>4, TickKeeps, SameEnvs

(* The leader that takes a change handles it, then the next tick is set.   *)
LEMMA InjectReconfigureStep ==
    ASSUME WorldInv, Pops("tick"), InjectReconfigure, UNCHANGED finished
    PROVE  WorldInv'
<1>1. PICK p : p = Popped(sched)
  OBVIOUS
<1>2. Tick < WindowEnd /\ UNCHANGED <<up, recovered>>
  BY DEF InjectReconfigure, InWindow
<1>3. PICK n \in Server \ Down : \E t \in TimerOutcomes(p, n, deadline[n]) :
        \E u \in DiskOutcomes(t.sched, n) : \E v \in NetOutcomes(u.sched, n) :
          sched' \in TickAgain(v.sched, FALSE) /\ Leaves(n, waits[n], t, u, v)
  BY <1>1 DEF InjectReconfigure
<1>4. PICK t \in TimerOutcomes(p, n, deadline[n]) :
        \E u \in DiskOutcomes(t.sched, n) : \E v \in NetOutcomes(u.sched, n) :
          sched' \in TickAgain(v.sched, FALSE) /\ Leaves(n, waits[n], t, u, v)
  BY <1>3
<1>5. PICK u \in DiskOutcomes(t.sched, n) : \E v \in NetOutcomes(u.sched, n) :
          sched' \in TickAgain(v.sched, FALSE) /\ Leaves(n, waits[n], t, u, v)
  BY <1>4
<1>6. PICK v \in NetOutcomes(u.sched, n) :
          sched' \in TickAgain(v.sched, FALSE) /\ Leaves(n, waits[n], t, u, v)
  BY <1>5
<1>7. SchedOK(p) /\ \A k \in Server : Asked(p, k, deadline[k], waits[k])
  BY <1>1, TickFacts
<1>8. EnvOK /\ FunctionsOK /\ ServersOK /\ n \in Server /\ up[n]
  BY <1>3 DEF WorldInv, Down
<1>9. PICK s : s = v.sched
  OBVIOUS
<1>10. /\ SchedOK(s) /\ s.now = p.now /\ SameDriver(p, s)
       /\ \A k \in Server : Asked(s, k, deadline'[k], waits'[k])
       /\ \A k \in Server \ {n} : deadline'[k] = deadline[k] /\ waits'[k] = waits[k]
       /\ deadline' = [k \in Server |-> deadline'[k]]
       /\ waits' = [k \in Server |-> waits'[k]]
       /\ SameEnv /\ EnvOK'
  BY <1>6, <1>7, <1>8, <1>9, HandlerStep
<1>11. \A k \in Server : ~up'[k] => deadline'[k] = Unset /\ waits'[k] = {}
  BY <1>2, <1>8, <1>10 DEF ServersOK
<1>12. up' \in [Server -> BOOLEAN]
  BY <1>2, <1>8 DEF FunctionsOK
<1> QED
  BY <1>1, <1>2, <1>6, <1>9, <1>10, <1>11, <1>12, TickKeeps

(* The recovery: nobody is down any more, and no tick is left. *)
LEMMA RecoverStep ==
    ASSUME WorldInv, Pops("tick"), Recover, UNCHANGED <<finished, env>>
    PROVE  WorldInv'
<1>1. PICK p : p = Popped(sched)
  OBVIOUS
<1>2. /\ SchedOK(p) /\ \A k \in Server : Asked(p, k, deadline[k], waits[k])
      /\ \A e \in p.queue : e.event.kind # "tick"
      /\ \A e : e.event.kind \in {"restart", "stop"} => (e \in sched.queue <=> e \in p.queue)
  BY <1>1, TickFacts
<1>3. Restart(p, Down) /\ recovered' = TRUE /\ HealAll
  BY <1>1 DEF Recover
<1>4. /\ SchedOK(sched')
      /\ deadline' = [k \in Server |-> deadline'[k]]
      /\ waits' = [k \in Server |-> waits'[k]]
      /\ up' \in [Server -> BOOLEAN]
      /\ \A k \in Server : up'[k] = (up[k] \/ k \in Down)
      /\ \A k \in Server : Asked(sched', k, deadline'[k], waits'[k])
      /\ \A k \in Server : ~up'[k] => deadline'[k] = Unset /\ waits'[k] = {}
      /\ \A e : e.event.kind # "timer" => (e \in p.queue <=> e \in sched'.queue)
  BY <1>2, <1>3, RestartKeeps
<1>5. SameEnv /\ EnvOK /\ EnvOK'
  BY SameEnvs
<1>6. \A k \in Server : up'[k]
  BY <1>4 DEF Down, WorldInv, FunctionsOK
<1>7. StopOK /\ Server' = Server /\ StopAt' = StopAt /\ ~recovered
  BY <1>1, <1>5, TickFacts DEF WorldInv, SameEnv, EnvOK
<1>8. TickOK'
  <2>1. \A e \in sched'.queue : e.event.kind # "tick"
    BY <1>2, <1>4
  <2> QED
    BY <1>3, <1>6, <1>7, <2>1 DEF TickOK
<1>9. StopOK'
  <2>1. \A e : e.event.kind = "stop" => (e \in sched.queue <=> e \in sched'.queue)
    BY <1>2, <1>4
  <2> QED
    BY <1>3, <1>7, <2>1 DEF StopOK
<1>10. QuietTail'
  BY <1>3, <1>6, <1>7 DEF QuietTail, Down, HealAll
<1> QED
  BY <1>3, <1>4, <1>5, <1>8, <1>9, <1>10, Assemble DEF WorldInv

LEMMA OnTickStep ==
    ASSUME WorldInv, OnTick
    PROVE  WorldInv'
<1>1. /\ Pops("tick") /\ UNCHANGED finished
      /\ ~InjectReconfigure => UNCHANGED env
  BY DEF OnTick
<1>a. CASE InjectReconfigure
  BY <1>1, <1>a, InjectReconfigureStep
<1>b. CASE ~InjectReconfigure
  <2>2. CASE InjectCrash
    BY <1>1, <1>b, <2>2, InjectCrashStep
  <2>3. CASE InjectRestart
    BY <1>1, <1>b, <2>3, InjectRestartStep
  <2>4. CASE InjectPartition
    <3>1. PICK s \in HealLater(Popped(sched)) : sched' \in TickAgain(s, FALSE)
      BY <2>4 DEF InjectPartition
    <3> QED
      BY <1>1, <1>b, <2>4, <3>1, OtherFaultStep DEF InjectPartition, InWindow
  <2>5. CASE InjectIsolation
    <3>1. PICK s \in HealLater(Popped(sched)) : sched' \in TickAgain(s, FALSE)
      BY <2>5 DEF InjectIsolation
    <3> QED
      BY <1>1, <1>b, <2>5, <3>1, OtherFaultStep DEF InjectIsolation, InWindow
  <2>6. CASE InjectHeal
    BY <1>1, <1>b, <2>6, OtherFaultStep DEF InjectHeal, InWindow
  <2>7. CASE InjectSlowLink
    BY <1>1, <1>b, <2>7, OtherFaultStep DEF InjectSlowLink, InWindow
  <2>9. CASE InjectNothing
    BY <1>1, <1>b, <2>9, OtherFaultStep DEF InjectNothing
  <2>10. CASE Recover
    BY <1>1, <1>b, <2>10, RecoverStep
  <2> QED
    BY <1>b, <2>2, <2>3, <2>4, <2>5, <2>6, <2>7, <2>9, <2>10 DEF OnTick
<1> QED
  BY <1>a, <1>b

-----------------------------------------------------------------------------
(* The run begins in the invariant. *)

LEMMA SettingFacts ==
    ASSUME env \in Settings
    PROVE  EnvOK /\ SettlesOK
  <1>1. EnvOK
    <2>1. /\ {WindowStart, WindowEnd, StopAt, MaxEvents, SlowFactor} \subseteq Nat
          /\ UNION {TickDelay, HealDelay, RestartDelay, TimerDelay, DiskDelay, NetDelay}
               \subseteq Nat \ {0}
          /\ IsFiniteSet(Server)
          /\ DOMAIN env = {"server", "client", "firstMembers", "fault", "allowQuorumLoss",
                   "windowStart", "windowEnd", "stopAt", "maxEvents", "tickDelay", "healDelay",
                   "restartDelay", "timerDelay", "diskDelay", "netDelay", "slowFactor",
                   "copies", "maxWrites", "maxErrors", "maxSends", "writes", "errors", "sends"}
      BY WorldAssumption, Zenon DEF WindowStart, WindowEnd, StopAt, MaxEvents, SlowFactor, TickDelay,
           HealDelay, RestartDelay, TimerDelay, DiskDelay, NetDelay, Server
    <2>2. /\ WindowStart \in Nat /\ WindowEnd \in Nat /\ StopAt \in Nat
          /\ MaxEvents \in Nat /\ SlowFactor \in Nat
      BY <2>1
    <2>3. /\ TickDelay \subseteq Nat /\ HealDelay \subseteq Nat /\ RestartDelay \subseteq Nat
          /\ TimerDelay \subseteq Nat /\ DiskDelay \subseteq Nat /\ NetDelay \subseteq Nat
      BY <2>1
    <2> QED BY <2>1, <2>2, <2>3 DEF EnvOK
  <1>2. SettlesOK
    BY DEF SettlesOK, Settles, WindowStart, WindowEnd, StopAt, TickDelay
  <1> QED BY <1>1, <1>2

LEMMA NewFacts ==
    ASSUME NEW s, s = NewScheduler
    PROVE  /\ SchedOK(s) /\ s.now = 0 /\ s.queue = {} /\ Live(s) = {}
           /\ \A n : TimerOK(s, n, Unset)
  <1>1. s.now = 0 /\ s.nextId = 0 /\ s.queue = {} /\ s.cancelled = {}
    BY DEF NewScheduler
  <1>2. IsFiniteSet(s.queue)
    BY <1>1, FS_EmptySet
  <1>3. SchedOK(s)
    BY <1>1, <1>2 DEF SchedOK, NewScheduler
  <1> QED BY <1>1, <1>3 DEF Live, TimerOK

LEMMA InitWorld ==
    ASSUME Init
    PROVE  LoopInv
  <1>1. EnvOK /\ SettlesOK /\ IsFiniteSet(Server)
    BY SettingFacts DEF Init, EnvOK
  <1>2. PICK ds \in [Server -> TimerDelay] :
          sched = At(At(Restarted(NewScheduler, Server, ds), WindowStart, TickEvent),
                     StopAt, StopEvent)
    BY DEF Init
  <1>3. PICK z : z = NewScheduler
    OBVIOUS
  <1>4. PICK r : r = Restarted(z, Server, ds)
    OBVIOUS
  <1>5. PICK f : f = NewHandles(z, Server)
    OBVIOUS
  <1>6. PICK a : a = At(r, WindowStart, TickEvent)
    OBVIOUS
  <1>7. PICK x : x = [time |-> WindowStart, id |-> r.nextId, event |-> TickEvent]
    OBVIOUS
  <1>8. PICK y : y = [time |-> StopAt, id |-> a.nextId, event |-> StopEvent]
    OBVIOUS
  <1>9. sched = At(a, StopAt, StopEvent)
    BY <1>2, <1>3, <1>4, <1>6
  <1>10. /\ SchedOK(z) /\ z.now = 0 /\ z.queue = {} /\ Live(z) = {} /\ z.nextId \in Nat
         /\ \A n : TimerOK(z, n, Unset)
    BY <1>3, NewFacts DEF SchedOK
  <1>11. /\ SchedOK(r)
         /\ \A n \in Server : TimerOK(r, n, f[n])
         /\ \A e : e.event.kind # "timer" => e \notin r.queue
    BY <1>1, <1>4, <1>5, <1>10, RestartedFacts
  <1>12. EventOK(TickEvent) /\ TickEvent.kind = "tick" /\ EventOK(StopEvent) /\ StopEvent.kind = "stop"
    BY DEF EventOK, TickEvent, StopEvent
  <1>13. SchedOK(a) /\ a.queue = r.queue \cup {x} /\ Live(a) = Live(r) \cup {x}
    BY <1>1, <1>6, <1>7, <1>11, <1>12, AtFacts DEF EnvOK
  <1>14. SchedOK(sched) /\ sched.queue = a.queue \cup {y} /\ Live(sched) = Live(a) \cup {y}
    BY <1>1, <1>8, <1>9, <1>12, <1>13, AtFacts DEF EnvOK
  <1>15. x.event.kind = "tick" /\ x.time = WindowStart /\ y.event.kind = "stop" /\ y.time = StopAt
    BY <1>7, <1>8, <1>12
  <1>16. \A n \in Server : TimerOK(sched, n, f[n])
    <2> SUFFICES ASSUME NEW n \in Server PROVE TimerOK(sched, n, f[n])
      OBVIOUS
    <2>1. SameTimers(r, sched, n)
      BY <1>13, <1>14, <1>15 DEF SameTimers, IsTimer
    <2> QED BY <2>1, <1>11, KeepsTimer
  <1>17. \A e \in sched.queue : e.event.kind = "timer" \/ e = x \/ e = y
    BY <1>11, <1>13, <1>14
  <1>18. \A n \in Server : StorageOK(sched, n, {})
    BY <1>15, <1>17 DEF StorageOK, IsStorage
  <1>19. deadline = f /\ waits = [n \in Server |-> {}] /\ up = [n \in Server |-> TRUE]
    BY <1>3, <1>5 DEF Init
  <1>20. f \in [Server -> z.nextId..(z.nextId + Cardinality(Server) - 1)]
    BY <1>1, <1>5, <1>10, HandlesExist
  <1>21. FunctionsOK
    BY <1>19, <1>20 DEF FunctionsOK
  <1>22. ServersOK
    BY <1>16, <1>18, <1>19 DEF ServersOK, Asked
  <1>23. recovered = FALSE /\ finished = FALSE
    BY DEF Init
  <1>24. x \in sched.queue /\ y \in sched.queue
    BY <1>13, <1>14
  <1>25. TickOK
    BY <1>1, <1>15, <1>17, <1>23, <1>24 DEF TickOK, SettlesOK
  <1>26. StopOK
    BY <1>15, <1>17, <1>23, <1>24 DEF StopOK
  <1>27. WorldInv
    BY <1>1, <1>14, <1>21, <1>22, <1>23, <1>25, <1>26 DEF WorldInv, QuietTail
  <1>28. events = 0 /\ incomplete = FALSE /\ MaxEvents \in Nat
    BY <1>1 DEF Init, EnvOK
  <1>29. events \in Nat /\ ~(events > MaxEvents)
    BY <1>28
  <1> QED BY <1>27, <1>28, <1>29, Zenon DEF LoopInv

-----------------------------------------------------------------------------
(* The theorems. *)

LEMMA StutterWorld ==
    ASSUME WorldInv, UNCHANGED vars
    PROVE  WorldInv'
  <1>1. /\ sched' = sched /\ up' = up /\ deadline' = deadline /\ waits' = waits
        /\ blocked' = blocked /\ slow' = slow /\ recovered' = recovered /\ reaped' = reaped
        /\ finished' = finished /\ env' = env
    BY DEF vars, netVars, tailVars
  <1>2. SameEnv /\ EnvOK'
    BY <1>1, SameEnvs
  <1>3. SettlesOK /\ SchedOK(sched')
    BY <1>1, <1>2 DEF WorldInv, SchedOK, EventOK, SameEnv
  <1>4. TickOK' /\ StopOK'
    BY <1>1, <1>2, SameDriverKeeps DEF SameDriver
  <1>5. QuietTail'
    BY <1>1, <1>2 DEF WorldInv, QuietTail, Down, SameEnv
  <1>6. \A k \in Server : Asked(sched', k, deadline'[k], waits'[k])
    BY <1>1 DEF WorldInv, ServersOK
  <1>7. \A k \in Server : ~up'[k] => deadline'[k] = Unset /\ waits'[k] = {}
    BY <1>1 DEF WorldInv, ServersOK
  <1>8. /\ deadline' = [k \in Server |-> deadline'[k]]
        /\ waits' = [k \in Server |-> waits'[k]]
        /\ up' \in [Server -> BOOLEAN]
    BY <1>1 DEF WorldInv, FunctionsOK
  <1>9. recovered' \in BOOLEAN /\ finished' \in BOOLEAN
    BY <1>1 DEF WorldInv
  <1> QED BY <1>2, <1>3, <1>4, <1>5, <1>6, <1>7, <1>8, <1>9, Assemble

(* No step changes the fuel a run was given. *)
LEMMA FuelStays ==
    ASSUME WorldInv, [Next]_vars
    PROVE  MaxEvents' = MaxEvents
  <1>1. ASSUME NEW n, NEW w, NEW t, NEW u, NEW v, Leaves(n, w, t, u, v)
        PROVE  env'.maxEvents = env.maxEvents
    BY <1>1 DEF Leaves, WorldInv, EnvOK
  <1>2. ASSUME NEW s, NEW n, NEW h, NEW w, Handles(s, n, h, w)
        PROVE  env'.maxEvents = env.maxEvents
    BY <1>1, <1>2 DEF Handles
  <1>3. CASE OnTimer
    BY <1>2, <1>3 DEF OnTimer, MaxEvents
  <1>4. CASE OnStorage
    <2>1. UNCHANGED env \/ Handles(Popped(sched), Fired.node, deadline[Fired.node],
                                   waits[Fired.node] \ {Head1(sched).id})
      BY <1>4, Zenon DEF OnStorage
    <2> QED BY <1>2, <2>1 DEF MaxEvents
  <1>5. CASE OnDeliver
    BY <1>2, <1>5 DEF OnDeliver, MaxEvents
  <1>6. CASE OnTick
    <2>1. CASE InjectReconfigure
      BY <1>1, <2>1 DEF InjectReconfigure, MaxEvents
    <2>2. CASE ~InjectReconfigure
      BY <1>6, <2>2 DEF OnTick, MaxEvents
    <2> QED BY <2>1, <2>2
  <1>7. CASE OnHeal \/ OnRestart \/ OnStop \/ OutOfFuel
    BY <1>7 DEF OnHeal, OnRestart, OnStop, OutOfFuel, MaxEvents
  <1>8. CASE Ended \/ UNCHANGED vars
    BY <1>8 DEF Ended, vars, MaxEvents
  <1> QED BY <1>3, <1>4, <1>5, <1>6, <1>7, <1>8 DEF Next

(* A turn of the loop that has the fuel for its event. *)
LEMMA WorldStep ==
    ASSUME WorldInv,
           OnTimer \/ OnStorage \/ OnDeliver \/ OnTick \/ OnHeal \/ OnRestart \/ OnStop
    PROVE  WorldInv' /\ \E kind : Pops(kind)
  <1>1. CASE OnTimer
    BY <1>1, OnTimerStep DEF OnTimer
  <1>2. CASE OnStorage
    BY <1>2, OnStorageStep DEF OnStorage
  <1>3. CASE OnDeliver
    BY <1>3, OnDeliverStep DEF OnDeliver
  <1>4. CASE OnTick
    BY <1>4, OnTickStep DEF OnTick
  <1>5. CASE OnHeal
    BY <1>5, OnHealStep DEF OnHeal
  <1>6. CASE OnRestart
    BY <1>6, OnRestartStep DEF OnRestart
  <1>7. CASE OnStop
    BY <1>7, OnStopStep DEF OnStop
  <1> QED BY <1>1, <1>2, <1>3, <1>4, <1>5, <1>6, <1>7

LEMMA LoopStep ==
    ASSUME LoopInv, [Next]_vars
    PROVE  LoopInv'
  <1>1. CASE OnTimer \/ OnStorage \/ OnDeliver \/ OnTick \/ OnHeal \/ OnRestart \/ OnStop
    <2>1. ~incomplete /\ \E kind : Pops(kind)
      BY <1>1 DEF OnTimer, OnStorage, OnDeliver, OnTick, OnHeal, OnRestart, OnStop, Pops, Running
    <2>2. WorldInv
      BY <2>1 DEF LoopInv
    <2>3. WorldInv' /\ MaxEvents' = MaxEvents
      BY <1>1, <2>2, WorldStep, FuelStays
    <2>4. events' = events + 1 /\ events + 1 <= MaxEvents /\ incomplete' = incomplete
      BY <2>1 DEF Pops
    <2> QED BY <2>1, <2>3, <2>4 DEF LoopInv
  <1>2. CASE OutOfFuel
    <2>1. /\ ~incomplete /\ ~finished /\ events' = events + 1 /\ events + 1 > MaxEvents
          /\ incomplete' = TRUE /\ UNCHANGED <<up, netVars, tailVars, finished, env>>
      BY <1>2 DEF OutOfFuel, Running
    <2>2. WorldInv
      BY <2>1 DEF LoopInv
    <2>3. SameEnv /\ MaxEvents' = MaxEvents
      BY <2>1, <2>2, SameEnvs DEF SameEnv
    <2>4. QuietTail'
      BY <2>1, <2>2, <2>3, TailKeeps
    <2> QED BY <2>1, <2>3, <2>4 DEF LoopInv
  <1>3. CASE UNCHANGED vars
    <2>1. /\ UNCHANGED <<events, incomplete, finished, env, recovered, reaped, blocked, slow, up>>
          /\ MaxEvents' = MaxEvents
      BY <1>3 DEF vars, netVars, tailVars, MaxEvents
    <2>2. CASE incomplete
      <3>1. QuietTail'
        BY <2>1, <2>2 DEF LoopInv, QuietTail, Down, Server
      <3> QED BY <2>1, <2>2, <3>1 DEF LoopInv
    <2>3. CASE ~incomplete
      <3>1. WorldInv'
        BY <1>3, <2>3, StutterWorld DEF LoopInv
      <3> QED BY <2>1, <2>3, <3>1 DEF LoopInv
    <2> QED BY <2>2, <2>3
  <1> QED BY <1>1, <1>2, <1>3 DEF Next, Ended

(* The queue of `Scheduler`, the servers' handles and pending operations,  *)
(* the injector's tick and the stop event stay as `WorldInv` relates them, *)
(* through every turn of the loop of `Cluster::run` that has fuel; the one *)
(* that has none marks the run incomplete.                                 *)
THEOREM WorldExplained == Spec => []LoopInv
  <1>1. Init => LoopInv
    BY InitWorld
  <1>2. LoopInv /\ [Next]_vars => LoopInv'
    BY LoopStep
  <1> QED BY <1>1, <1>2, PTL DEF Spec

LEMMA InvMatches ==
    ASSUME LoopInv
    PROVE  QueueMatchesServers
  <1> SUFFICES ASSUME WorldInv, NEW n \in Server
               PROVE  /\ {e.id : e \in OfNode(sched, "timer", n) \cap Live(sched)}
                            = {deadline[n]} \ {Unset}
                      /\ {e.id : e \in OfNode(sched, "storage", n)} = waits[n]
    BY DEF LoopInv, QueueMatchesServers
  <1>1. TimerOK(sched, n, deadline[n]) /\ StorageOK(sched, n, waits[n]) /\ SchedOK(sched)
    BY DEF WorldInv, ServersOK, Asked
  <1>2. \A e : e \in OfNode(sched, "timer", n) \cap Live(sched)
                 <=> e \in Live(sched) /\ IsTimer(e, n)
    BY DEF OfNode, OfKind, IsTimer, Live
  <1>3. \A e : e \in OfNode(sched, "storage", n) <=> e \in sched.queue /\ IsStorage(e, n)
    BY DEF OfNode, OfKind, IsStorage
  <1>4. \A e \in Live(sched) : e.id \in Nat
    BY <1>1 DEF SchedOK, Live
  <1>5. {e.id : e \in OfNode(sched, "timer", n) \cap Live(sched)} = {deadline[n]} \ {Unset}
    BY <1>1, <1>2, <1>4, UnsetAssumption DEF TimerOK
  <1>6. {e.id : e \in OfNode(sched, "storage", n)} = waits[n]
    BY <1>1, <1>3 DEF StorageOK
  <1> QED BY <1>5, <1>6

(* In every reachable state of the loop of `Cluster::run`, the live timer  *)
(* of each server is the one its `Deadline` holds and its queued           *)
(* completions are the disk operations it waits for: `Scheduler::cancel`,  *)
(* `World::crash_node` and `Cluster::restart` never lose or leave one, in  *)
(* any order, for any number of servers, writes and messages, until the    *)
(* loop runs out of fuel.                                                  *)
THEOREM QueueMatches == Spec => []QueueMatchesServers
  <1>1. LoopInv => QueueMatchesServers
    BY InvMatches
  <1> QED BY <1>1, WorldExplained, PTL

LEMMA InvRemembers ==
    ASSUME LoopInv
    PROVE  NobodyIsForgotten
  <1> SUFFICES ASSUME WorldInv, NEW n \in Down
               PROVE  OfNode(sched, "restart", n) # {} \/ OfKind(sched, "tick") # {}
    BY DEF LoopInv, NobodyIsForgotten
  <1>1. n \in Server /\ ~up[n] /\ TickOK /\ recovered \in BOOLEAN
    BY DEF Down, WorldInv
  <1>2. CASE recovered
    BY <1>1, <1>2 DEF TickOK, OfNode, OfKind
  <1>3. CASE ~recovered
    BY <1>1, <1>3 DEF TickOK, OfKind
  <1> QED BY <1>2, <1>3

(* A server that `crash_node` or `reap_failed` took down always has its    *)
(* `APP_RESTART` queued, or the injector's next tick: the one that closes  *)
(* the window brings back everyone.                                        *)
THEOREM DownAreRemembered == Spec => []NobodyIsForgotten
  <1>1. LoopInv => NobodyIsForgotten
    BY InvRemembers
  <1> QED BY <1>1, WorldExplained, PTL

(* After the recovery of `FaultInjector::decide` no link is cut or slowed  *)
(* again, and only a server that `reap_failed` took down since is down: no *)
(* fault of the window reaches into the settling time.                     *)
THEOREM TailIsQuiet == Spec => []QuietTail
  <1>1. LoopInv => QuietTail
    BY DEF LoopInv, WorldInv
  <1> QED BY <1>1, WorldExplained, PTL

LEMMA InvEndsHealed ==
    ASSUME LoopInv, Settles
    PROVE  RunEndsHealed
  <1> SUFFICES ASSUME ~Running
               PROVE  IF events > MaxEvents
                        THEN incomplete /\ ~finished
                        ELSE finished /\ ~incomplete /\ recovered /\ blocked = {}
    BY DEF RunEndsHealed
  <1>1. CASE incomplete
    BY <1>1 DEF LoopInv
  <1>2. CASE ~incomplete
    <2>1. /\ StopOK /\ SchedOK(sched) /\ QuietTail /\ recovered \in BOOLEAN /\ finished \in BOOLEAN
          /\ ~(events > MaxEvents)
      BY <1>2 DEF LoopInv, WorldInv
    <2>2. finished
      <3>1. SUFFICES ASSUME ~finished PROVE FALSE
        BY <2>1
      <3>2. PICK e \in sched.queue : e.event.kind = "stop"
        BY <3>1, <2>1 DEF StopOK
      <3>3. e.id \notin sched.cancelled
        BY <3>2, <2>1 DEF SchedOK
      <3> QED BY <1>2, <3>1, <3>3 DEF Live, Running
    <2>3. recovered
      BY <2>1, <2>2 DEF StopOK
    <2> QED BY <1>2, <2>1, <2>2, <2>3 DEF QuietTail
  <1> QED BY <1>1, <1>2 DEF LoopInv

(* When the settling time of every setting exceeds its longest tick, the   *)
(* loop of `Cluster::run` ends in one of two ways: at the stop event,      *)
(* after the injector has recovered the world and with no link cut; or     *)
(* with more events than max_events, and then marked incomplete and never  *)
(* finished.  The queue cannot run dry, for the tick and the stop are      *)
(* never cancelled.                                                        *)
THEOREM LoopEndsHealed ==
    ASSUME Settles
    PROVE  Spec => []RunEndsHealed
  <1>1. LoopInv => RunEndsHealed
    BY InvEndsHealed
  <1> QED BY <1>1, WorldExplained, PTL
===============================================================================
