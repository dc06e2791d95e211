----------------------------- MODULE KvAtomicity -----------------------------
(***************************************************************************)
(* What the servers and the clients of Kv do, for every cluster, every     *)
(* scenario and any number of operations, elections and crashes: clients   *)
(* are never stuck, requests wait where their command is, machines are     *)
(* prefixes, and the clients see the atomic store of AtomicStore.          *)
(*                                                                         *)
(* In order: folds over a sequence of entries (Replay, EffectsOf) and what *)
(* they compute; types, and what a step of a client or a server may do     *)
(* (ClientMoves, ServerMoves); the invariants of each side; terms and the  *)
(* read index; effects and versions; what the servers owe the clients; the *)
(* refinement.                                                             *)
(***************************************************************************)
EXTENDS Kv, WellFoundedInduction, TLAPS

(* Every nonempty set of natural numbers has a least element: what is      *)
(* proved below by induction is proved from this.                          *)
LEMMA Least ==
    ASSUME NEW T \in SUBSET Nat, T # {}
    PROVE  \E n \in T : \A m \in T : n <= m
<1> DEFINE R == OpToRel(<, Nat)
<1>1. R = {ss \in Nat \X Nat : ss[1] < ss[2]}
  BY DEF OpToRel
<1>2. \A m, n \in Nat : m < n => <<m, n>> \in R
  BY <1>1
<1>3. IsWellFoundedOn(R, Nat)
  BY NatLessThanWellFounded
<1> HIDE DEF R
<1>4. PICK n \in T : \A m \in T : ~ <<m, n>> \in R
  BY <1>3, WFMin
<1>5. ASSUME NEW m \in T PROVE n <= m
  <2>1. m \in Nat /\ n \in Nat
    OBVIOUS
  <2>2. ~(m < n)
    BY <2>1, <1>2, <1>4
  <2> QED
    BY <2>1, <2>2
<1> QED
  BY <1>5

(* The part of a sequence from a to b. *)
LEMMA Slice ==
    ASSUME NEW S, NEW q \in Seq(S), NEW a \in Nat \ {0}, NEW b \in Nat, a - 1 <= b, b <= Len(q)
    PROVE  /\ SubSeq(q, a, b) \in Seq(S)
           /\ Len(SubSeq(q, a, b)) = b - a + 1
           /\ \A i \in 1..(b - a + 1) : SubSeq(q, a, b)[i] = q[a + i - 1]
OBVIOUS

LEMMA Prefix ==
    ASSUME NEW S, NEW q \in Seq(S), NEW b \in Nat, b <= Len(q)
    PROVE  /\ SubSeq(q, 1, b) \in Seq(S)
           /\ Len(SubSeq(q, 1, b)) = b
           /\ \A i \in 1..b : SubSeq(q, 1, b)[i] = q[i]
OBVIOUS

-----------------------------------------------------------------------------
(* Types. *)

LoggedCommand == [client : Client, seq : Nat \ {0}, op : Op]
LoggedEntry == [term : Nat, cmd : LoggedCommand \cup {Noop}]
Definite == {o \in Outcome : IsDefinite(o)}
Session == [seq : {0}, outcome : {None}] \cup [seq : Nat \ {0}, outcome : Definite]
Machine == [map : [Key -> Value], sessions : [Client -> Session]]

LEMMA OutcomesAreDefinite ==
    ASSUME NEW map \in [Key -> Value], NEW cmd \in LoggedCommand
    PROVE  OutcomeOf(map, cmd) \in Definite
<1>1. cmd.op \in Op /\ cmd.op.key \in Key
  BY DEF LoggedCommand, Op
<1>2. /\ ValueIs(map[cmd.op.key]) \in Definite /\ CasIs(map[cmd.op.key] = cmd.op.expect) \in Definite
      /\ Written \in Definite
  BY <1>1 DEF ValueIs, CasIs, Written, NotLeader, Dropped, Definite, IsDefinite, Outcome
<1> QED
  BY <1>1, <1>2 DEF OutcomeOf

LEMMA MapsAreMaps ==
    ASSUME NEW map \in [Key -> Value], NEW cmd \in LoggedCommand
    PROVE  MapAfter(map, cmd) \in [Key -> Value]
<1>1. cmd.op \in Op /\ cmd.op.key \in Key
  BY DEF LoggedCommand, Op
<1>2. <<cmd.client, cmd.seq>> \in Value /\ Absent \in Value
  BY DEF LoggedCommand, Value
<1> QED
  BY <1>1, <1>2 DEF MapAfter

LEMMA MachinesAreMachines ==
    ASSUME NEW machine \in Machine, NEW entry \in LoggedEntry
    PROVE  ApplyTo(machine, entry) \in Machine
<1>1. CASE entry.cmd = Noop \/ IsRepeat(machine, entry.cmd)
  BY <1>1 DEF ApplyTo
<1>2. CASE ~(entry.cmd = Noop \/ IsRepeat(machine, entry.cmd))
  <2> DEFINE cmd == entry.cmd
  <2>1. cmd \in LoggedCommand /\ cmd.client \in Client /\ cmd.seq \in Nat \ {0}
    BY <1>2 DEF LoggedEntry, LoggedCommand
  <2>2. ResultOf(machine, cmd) = OutcomeOf(machine.map, cmd)
    BY <1>2 DEF ResultOf
  <2> DEFINE session == [seq |-> cmd.seq, outcome |-> ResultOf(machine, cmd)]
  <2>3. machine.map \in [Key -> Value] /\ machine.sessions \in [Client -> Session]
    BY DEF Machine
  <2>4. session \in Session
    BY <2>1, <2>2, <2>3, OutcomesAreDefinite DEF Session
  <2>5. MapAfter(machine.map, cmd) \in [Key -> Value]
    BY <2>1, <2>3, MapsAreMaps
  <2>6. [machine.sessions EXCEPT ![cmd.client] = session] \in [Client -> Session]
    BY <2>1, <2>3, <2>4
  <2>7. ApplyTo(machine, entry) =
          [map |-> MapAfter(machine.map, cmd),
           sessions |-> [machine.sessions EXCEPT ![cmd.client] = session]]
    BY <1>2 DEF ApplyTo
  <2> HIDE DEF session
  <2> QED
    BY <2>5, <2>6, <2>7 DEF Machine
<1> QED
  BY <1>1, <1>2

-----------------------------------------------------------------------------
(* What replaying entries one by one comes to. *)

Replays(g, machine, entries, n) ==
    g = [i \in 0..n |-> IF i = 0 THEN machine ELSE ApplyTo(g[i - 1], entries[i])]

LEMMA ReplayExists ==
    ASSUME NEW machine, NEW entries, NEW n \in Nat
    PROVE  \E g : Replays(g, machine, entries, n)
<1> DEFINE T == {k \in Nat : ~ \E g : Replays(g, machine, entries, k)}
<1> SUFFICES ASSUME T # {} PROVE FALSE
  OBVIOUS
<1>1. PICK k \in T : \A j \in T : k <= j
  BY Least
<1>2. k # 0
  <2> DEFINE h == [i \in 0..0 |-> machine]
  <2>1. h = [i \in 0..0 |-> IF i = 0 THEN machine ELSE ApplyTo(h[i - 1], entries[i])]
    OBVIOUS
  <2>2. Replays(h, machine, entries, 0)
    BY <2>1 DEF Replays
  <2> QED
    BY <2>2
<1>3. k - 1 \in Nat /\ k - 1 \notin T
  BY <1>1, <1>2
<1>4. PICK g : Replays(g, machine, entries, k - 1)
  BY <1>3
<1> DEFINE h == [i \in 0..k |-> IF i = k THEN ApplyTo(g[k - 1], entries[k]) ELSE g[i]]
<1>5. \A i \in 0..k : h[i] = IF i = 0 THEN machine ELSE ApplyTo(h[i - 1], entries[i])
  BY <1>2, <1>3, <1>4 DEF Replays
<1>6. h = [i \in 0..k |-> IF i = 0 THEN machine ELSE ApplyTo(h[i - 1], entries[i])]
  BY <1>5
<1>7. Replays(h, machine, entries, k)
  BY <1>6 DEF Replays
<1> QED
  BY <1>7

LEMMA ReplayIs ==
    ASSUME NEW machine, NEW entries, Len(entries) \in Nat
    PROVE  \E g : /\ Replays(g, machine, entries, Len(entries))
                  /\ Replay(machine, entries) = g[Len(entries)]
<1> DEFINE a == CHOOSE g : Replays(g, machine, entries, Len(entries))
<1>1. Replays(a, machine, entries, Len(entries))
  BY ReplayExists
<1>2. Replay(machine, entries) = a[Len(entries)]
  BY DEF Replay, Replays
<1> QED
  BY <1>1, <1>2

(* Two runs over entries that agree up to n agree up to n. *)
LEMMA ReplaysAgree ==
    ASSUME NEW machine, NEW p, NEW q, NEW n \in Nat, NEW m \in Nat, NEW l \in Nat, l <= n, l <= m,
           NEW g, NEW h, Replays(g, machine, p, n), Replays(h, machine, q, m),
           \A i \in 1..l : p[i] = q[i]
    PROVE  g[l] = h[l]
<1> DEFINE T == {k \in Nat : k <= l /\ g[k] # h[k]}
<1> SUFFICES ASSUME T # {} PROVE FALSE
  OBVIOUS
<1>1. PICK k \in T : \A j \in T : k <= j
  BY Least
<1>2. k # 0
  BY DEF Replays
<1>3. k - 1 \in Nat /\ k - 1 \notin T /\ k \in 1..l /\ k \in 0..n /\ k \in 0..m
  BY <1>1, <1>2
<1>4. g[k - 1] = h[k - 1]
  BY <1>3
<1>5. g[k] = ApplyTo(g[k - 1], p[k]) /\ h[k] = ApplyTo(h[k - 1], q[k])
  BY <1>2, <1>3 DEF Replays
<1> QED
  BY <1>3, <1>4, <1>5

LEMMA ReplayNothing ==
    ASSUME NEW machine, NEW entries, Len(entries) = 0
    PROVE  Replay(machine, entries) = machine
BY ReplayIs DEF Replays

LEMMA ReplayOneMore ==
    ASSUME NEW machine, NEW S, NEW entries \in Seq(S), Len(entries) > 0
    PROVE  Replay(machine, entries) =
             ApplyTo(Replay(machine, SubSeq(entries, 1, Len(entries) - 1)), entries[Len(entries)])
<1> DEFINE n == Len(entries)
           front == SubSeq(entries, 1, n - 1)
<1>1. /\ n \in Nat /\ n - 1 \in Nat /\ Len(front) = n - 1
      /\ \A i \in 1..(n - 1) : front[i] = entries[i]
  <2>1. n \in Nat /\ n - 1 \in Nat /\ n - 1 <= n
    OBVIOUS
  <2> QED
    BY <2>1, Prefix
<1>2. PICK g : Replays(g, machine, entries, n) /\ Replay(machine, entries) = g[n]
  BY <1>1, ReplayIs
<1>3. PICK h : Replays(h, machine, front, n - 1) /\ Replay(machine, front) = h[n - 1]
  BY <1>1, ReplayIs
<1>4. g[n - 1] = h[n - 1]
  <2> HIDE DEF n, front
  <2> QED
    BY <1>1, <1>2, <1>3, ReplaysAgree
<1>5. g[n] = ApplyTo(g[n - 1], entries[n])
  BY <1>1, <1>2 DEF Replays
<1> QED
  BY <1>2, <1>3, <1>4, <1>5

LEMMA ReplayIsAMachine ==
    ASSUME NEW machine \in Machine, NEW entries \in Seq(LoggedEntry)
    PROVE  Replay(machine, entries) \in Machine
<1> DEFINE T == {k \in Nat : \E e \in Seq(LoggedEntry) :
                     Len(e) = k /\ Replay(machine, e) \notin Machine}
<1> SUFFICES ASSUME T # {} PROVE FALSE
  OBVIOUS
<1>1. PICK k \in T : \A j \in T : k <= j
  BY Least
<1>2. PICK e \in Seq(LoggedEntry) : Len(e) = k /\ Replay(machine, e) \notin Machine
  OBVIOUS
<1>3. k # 0
  BY <1>2, ReplayNothing
<1> DEFINE front == SubSeq(e, 1, k - 1)
<1>4. front \in Seq(LoggedEntry) /\ Len(front) = k - 1 /\ k - 1 \in Nat /\ e[k] \in LoggedEntry
  BY <1>2, <1>3
<1>5. Replay(machine, front) \in Machine
  <2>1. k - 1 \notin T
    BY <1>1, <1>4
  <2> HIDE DEF front
  <2> QED
    BY <2>1, <1>4
<1>6. Replay(machine, e) = ApplyTo(Replay(machine, front), e[k])
  <2>1. Len(e) > 0
    BY <1>2, <1>3
  <2> QED
    BY <1>2, <2>1, ReplayOneMore
<1> QED
  BY <1>2, <1>4, <1>5, <1>6, MachinesAreMachines

-----------------------------------------------------------------------------
(* The commands that took effect, one entry after another. *)

NoEffects == [order |-> <<>>, last |-> [c \in Client |-> 0]]
Tallies(g, entries, n) ==
    g = [i \in 0..n |-> IF i = 0 THEN NoEffects ELSE TakeEffect(g[i - 1], entries[i])]

LEMMA EffectsExist ==
    ASSUME NEW entries, NEW n \in Nat
    PROVE  \E g : Tallies(g, entries, n)
<1> DEFINE T == {k \in Nat : ~ \E g : Tallies(g, entries, k)}
<1> SUFFICES ASSUME T # {} PROVE FALSE
  OBVIOUS
<1>1. PICK k \in T : \A j \in T : k <= j
  BY Least
<1>2. k # 0
  <2> DEFINE h == [i \in 0..0 |-> NoEffects]
  <2>1. h = [i \in 0..0 |-> IF i = 0 THEN NoEffects ELSE TakeEffect(h[i - 1], entries[i])]
    OBVIOUS
  <2>2. Tallies(h, entries, 0)
    BY <2>1 DEF Tallies
  <2> QED
    BY <2>2
<1>3. k - 1 \in Nat /\ k - 1 \notin T
  BY <1>1, <1>2
<1>4. PICK g : Tallies(g, entries, k - 1)
  BY <1>3
<1> DEFINE h == [i \in 0..k |-> IF i = k THEN TakeEffect(g[k - 1], entries[k]) ELSE g[i]]
<1>5. \A i \in 0..k : h[i] = IF i = 0 THEN NoEffects ELSE TakeEffect(h[i - 1], entries[i])
  BY <1>2, <1>3, <1>4 DEF Tallies
<1>6. h = [i \in 0..k |-> IF i = 0 THEN NoEffects ELSE TakeEffect(h[i - 1], entries[i])]
  BY <1>5
<1>7. Tallies(h, entries, k)
  BY <1>6 DEF Tallies
<1> QED
  BY <1>7

LEMMA EffectsAre ==
    ASSUME NEW entries, Len(entries) \in Nat
    PROVE  \E g : /\ Tallies(g, entries, Len(entries))
                  /\ EffectsOf(entries) = g[Len(entries)]
<1> DEFINE a == CHOOSE g : Tallies(g, entries, Len(entries))
<1>1. Tallies(a, entries, Len(entries))
  BY EffectsExist
<1>2. EffectsOf(entries) = a[Len(entries)]
  BY DEF EffectsOf, Tallies, NoEffects
<1> QED
  BY <1>1, <1>2

(* Two runs over entries that agree up to n agree up to n. *)
LEMMA TalliesAgree ==
    ASSUME NEW p, NEW q, NEW n \in Nat, NEW m \in Nat, NEW l \in Nat, l <= n, l <= m,
           NEW g, NEW h, Tallies(g, p, n), Tallies(h, q, m),
           \A i \in 1..l : p[i] = q[i]
    PROVE  g[l] = h[l]
<1> DEFINE T == {k \in Nat : k <= l /\ g[k] # h[k]}
<1> SUFFICES ASSUME T # {} PROVE FALSE
  OBVIOUS
<1>1. PICK k \in T : \A j \in T : k <= j
  BY Least
<1>2. k # 0
  BY DEF Tallies
<1>3. k - 1 \in Nat /\ k - 1 \notin T /\ k \in 1..l /\ k \in 0..n /\ k \in 0..m
  BY <1>1, <1>2
<1>4. g[k - 1] = h[k - 1]
  BY <1>3
<1>5. g[k] = TakeEffect(g[k - 1], p[k]) /\ h[k] = TakeEffect(h[k - 1], q[k])
  BY <1>2, <1>3 DEF Tallies
<1> QED
  BY <1>3, <1>4, <1>5

LEMMA EffectsOfNothing ==
    ASSUME NEW entries, Len(entries) = 0
    PROVE  EffectsOf(entries) = NoEffects
BY EffectsAre DEF Tallies

LEMMA EffectsOfOneMore ==
    ASSUME NEW S, NEW entries \in Seq(S), Len(entries) > 0
    PROVE  EffectsOf(entries) =
             TakeEffect(EffectsOf(SubSeq(entries, 1, Len(entries) - 1)), entries[Len(entries)])
<1> DEFINE n == Len(entries)
           front == SubSeq(entries, 1, n - 1)
<1>1. /\ n \in Nat /\ n - 1 \in Nat /\ Len(front) = n - 1
      /\ \A i \in 1..(n - 1) : front[i] = entries[i]
  <2>1. n \in Nat /\ n - 1 \in Nat /\ n - 1 <= n
    OBVIOUS
  <2> QED
    BY <2>1, Prefix
<1>2. PICK g : Tallies(g, entries, n) /\ EffectsOf(entries) = g[n]
  BY <1>1, EffectsAre
<1>3. PICK h : Tallies(h, front, n - 1) /\ EffectsOf(front) = h[n - 1]
  BY <1>1, EffectsAre
<1>4. g[n - 1] = h[n - 1]
  <2> HIDE DEF n, front
  <2> QED
    BY <1>1, <1>2, <1>3, TalliesAgree, SMTT(30)
<1>5. g[n] = TakeEffect(g[n - 1], entries[n])
  BY <1>1, <1>2 DEF Tallies
<1> QED
  BY <1>2, <1>3, <1>4, <1>5

Tally == [order : Seq(LoggedCommand), last : [Client -> Nat]]

LEMMA TalliesAreTallies ==
    ASSUME NEW acc \in Tally, NEW entry \in LoggedEntry
    PROVE  TakeEffect(acc, entry) \in Tally
<1> DEFINE cmd == entry.cmd
<1>1. CASE cmd = Noop \/ acc.last[cmd.client] >= cmd.seq
  BY <1>1 DEF TakeEffect
<1>2. CASE ~(cmd = Noop \/ acc.last[cmd.client] >= cmd.seq)
  <2>1. cmd \in LoggedCommand
    BY <1>2 DEF LoggedEntry
  <2>2. cmd.seq \in Nat /\ cmd.client \in Client
    BY <2>1 DEF LoggedCommand
  <2> DEFINE o == IF cmd.op.kind = "Get" THEN acc.order ELSE Append(acc.order, cmd)
             l == [acc.last EXCEPT ![cmd.client] = cmd.seq]
  <2>3. TakeEffect(acc, entry) = [order |-> o, last |-> l]
    BY <1>2 DEF TakeEffect
  <2> HIDE DEF cmd
  <2>4. o \in Seq(LoggedCommand) /\ l \in [Client -> Nat]
    BY <2>1, <2>2 DEF Tally
  <2> HIDE DEF o, l
  <2> QED
    BY <2>3, <2>4 DEF Tally
<1> QED
  BY <1>1, <1>2

LEMMA NoEffectsIsATally == NoEffects \in Tally
BY DEF NoEffects, Tally

LEMMA EffectsAreATally ==
    ASSUME NEW entries \in Seq(LoggedEntry)
    PROVE  EffectsOf(entries) \in Tally
<1> DEFINE T == {k \in Nat : \E e \in Seq(LoggedEntry) :
                     Len(e) = k /\ EffectsOf(e) \notin Tally}
<1> SUFFICES ASSUME T # {} PROVE FALSE
  OBVIOUS
<1>1. PICK k \in T : \A j \in T : k <= j
  BY Least
<1>2. PICK e \in Seq(LoggedEntry) : Len(e) = k /\ EffectsOf(e) \notin Tally
  OBVIOUS
<1>3. k # 0
  BY <1>2, EffectsOfNothing, NoEffectsIsATally
<1> DEFINE front == SubSeq(e, 1, k - 1)
<1>4. front \in Seq(LoggedEntry) /\ Len(front) = k - 1 /\ k - 1 \in Nat /\ e[k] \in LoggedEntry
  BY <1>2, <1>3
<1>5. EffectsOf(front) \in Tally
  <2>1. k - 1 \notin T
    BY <1>1, <1>4
  <2> HIDE DEF front
  <2> QED
    BY <2>1, <1>4
<1>6. EffectsOf(e) = TakeEffect(EffectsOf(front), e[k])
  <2>1. Len(e) > 0
    BY <1>2, <1>3
  <2> QED
    BY <1>2, <2>1, EffectsOfOneMore
<1> QED
  BY <1>2, <1>4, <1>5, <1>6, TalliesAreTallies

-----------------------------------------------------------------------------
(* The type invariant. *)

Scenario ==
    [opKinds : [Client -> SUBSET {"Get", "Put", "Delete", "Cas"}], maxAttempts : Nat \ {0},
     maxOps : [Client -> Nat], stoppable : SUBSET Client, maxRetryTimers : Nat,
     readIndexMode : BOOLEAN, maxTerm : Nat, maxLog : Nat, maxInstalls : Nat,
     maxAhead : Nat, maxCrashes : Nat, installs : Nat, crashes : Nat]

Pending == [seq : Nat \ {0}, op : Op, req : Nat, attempts : Nat]
Request == [client : Client, to : Server, req : Nat, seq : Nat \ {0}, op : Op]
Reply == [client : Client, req : Nat, outcome : Outcome]
Slot == [client : Client, req : Nat, seq : Nat]
Slots == UNION {[I -> Slot] : I \in SUBSET Nat}
Read == [client : Client, req : Nat, key : Key, index : Nat, term : Nat,
         deposed : BOOLEAN, confirmed : BOOLEAN]

ClientTypeOK ==
    /\ env \in Scenario
    /\ seq \in [Client -> Nat]
    /\ inflight \in [Client -> Pending \cup {None}]
    /\ backingOff \in [Client -> BOOLEAN]
    /\ known \in [Client -> [Key -> Value]]
    /\ nextReq \in [Client -> Nat]
    /\ stopped \in [Client -> BOOLEAN]
    /\ reqTimer \in [Client -> BOOLEAN]
    /\ retryTimers \in [Client -> Nat]
    /\ thinkTimers \in [Client -> Nat]
    /\ requests \subseteq Request
    /\ replies \subseteq Reply
    /\ answer \in [Client -> Answer \cup {None}]

ServerTypeOK ==
    /\ log \in [Server -> Seq(LoggedEntry)]
    /\ commit \in [Server -> Nat]
    /\ lead \in [Server -> Nat]
    /\ newest \in Nat
    /\ chosen \in Seq(LoggedEntry)
    /\ sm \in [Server -> Machine]
    /\ waiting \in [Server -> Slots]
    /\ reads \in [Server -> SUBSET Read]
    /\ began \in [Client -> Nat]

KvTypeOK == ClientTypeOK /\ ServerTypeOK

LEMMA NoneIsNone ==
    None \notin Pending /\ None \notin Answer
BY NoneAssumption DEF Pending, InFlight

LEMMA AttemptTypes ==
    ASSUME ClientTypeOK, NEW c \in Client, NEW f \in Pending, Attempt(c, f)
    PROVE  /\ nextReq' \in [Client -> Nat] /\ nextReq'[c] = nextReq[c] + 1
           /\ inflight' \in [Client -> Pending \cup {None}]
           /\ inflight'[c] \in Pending
           /\ inflight'[c].seq = f.seq /\ inflight'[c].op = f.op /\ inflight'[c].req = nextReq'[c]
           /\ \A d \in Client \ {c} : inflight'[d] = inflight[d] /\ nextReq'[d] = nextReq[d]
           /\ reqTimer' \in [Client -> BOOLEAN] /\ reqTimer'[c]
           /\ requests' \subseteq Request
           /\ \E s \in Server : requests' = requests \cup
                {[client |-> c, to |-> s, req |-> nextReq'[c], seq |-> f.seq, op |-> f.op]}
<1>1. /\ inflight \in [Client -> Pending \cup {None}] /\ nextReq \in [Client -> Nat]
      /\ reqTimer \in [Client -> BOOLEAN] /\ requests \subseteq Request
  BY DEF ClientTypeOK
<1>2. nextReq' \in [Client -> Nat] /\ nextReq'[c] = nextReq[c] + 1
      /\ \A d \in Client \ {c} : nextReq'[d] = nextReq[d]
  BY <1>1 DEF Attempt
<1> DEFINE g == [seq |-> f.seq, op |-> f.op, req |-> nextReq'[c], attempts |-> f.attempts + 1]
<1>3. g \in Pending /\ g.seq = f.seq /\ g.op = f.op /\ g.req = nextReq'[c]
  BY <1>2 DEF Pending
<1>4. inflight' = [inflight EXCEPT ![c] = g]
  BY DEF Attempt
<1> HIDE DEF g
<1>5. PICK s \in Server : requests' = requests \cup
        {[client |-> c, to |-> s, req |-> nextReq'[c], seq |-> f.seq, op |-> f.op]}
  BY DEF Attempt
<1>6. [client |-> c, to |-> s, req |-> nextReq'[c], seq |-> f.seq, op |-> f.op] \in Request
  BY <1>2 DEF Request, Pending
<1>7. reqTimer' \in [Client -> BOOLEAN] /\ reqTimer'[c]
  BY <1>1 DEF Attempt
<1>8. /\ inflight' \in [Client -> Pending \cup {None}] /\ inflight'[c] = g
      /\ \A d \in Client \ {c} : inflight'[d] = inflight[d]
  BY <1>1, <1>3, <1>4
<1>9. requests' \subseteq Request
  BY <1>1, <1>5, <1>6
<1> QED
  BY <1>2, <1>3, <1>5, <1>7, <1>8, <1>9

-----------------------------------------------------------------------------
(* What a step of client c may do to its operation: begin one, try it      *)
(* again, leave it, give it up, or finish it with a reply that is current. *)

Sends(c) ==
    /\ inflight'[c] \in Pending
    /\ nextReq'[c] = nextReq[c] + 1 /\ inflight'[c].req = nextReq'[c]
    /\ \E s \in Server : requests' = requests \cup
         {[client |-> c, to |-> s, req |-> nextReq'[c],
           seq |-> inflight'[c].seq, op |-> inflight'[c].op]}
    /\ answer' = answer

Begins(c) ==
    /\ inflight[c] = None
    /\ seq'[c] = seq[c] + 1 /\ inflight'[c].seq = seq'[c]
    /\ Sends(c)

Retries(c) ==
    /\ inflight[c] \in Pending
    /\ seq'[c] = seq[c] /\ inflight'[c].seq = inflight[c].seq /\ inflight'[c].op = inflight[c].op
    /\ Sends(c)

Rests(c) ==
    /\ seq'[c] = seq[c] /\ nextReq'[c] = nextReq[c] /\ requests' = requests

Idles(c) == inflight'[c] = inflight[c] /\ answer' = answer /\ Rests(c)

GivesUp(c) == inflight[c] \in Pending /\ inflight'[c] = None /\ answer' = answer /\ Rests(c)

Finishes(c) ==
    /\ inflight[c] \in Pending /\ inflight'[c] = None /\ Rests(c)
    /\ \E m \in replies :
         /\ m.client = c /\ m.req = inflight[c].req /\ IsDefinite(m.outcome)
         /\ answer' = [answer EXCEPT ![c] =
                          [seq |-> inflight[c].seq, req |-> m.req, outcome |-> m.outcome]]

ClientMoves(c) ==
    /\ \A d \in Client \ {c} :
         inflight'[d] = inflight[d] /\ seq'[d] = seq[d] /\ nextReq'[d] = nextReq[d]
    /\ replies' = replies /\ env' = env
    /\ Begins(c) \/ Retries(c) \/ Idles(c) \/ GivesUp(c) \/ Finishes(c)

LEMMA PickedIsAnOp ==
    ASSUME ClientTypeOK, NEW c \in Client, NEW op \in PickOp(c)
    PROVE  op \in Op
<1>1. env.opKinds[c] \subseteq {"Get", "Put", "Delete", "Cas"}
  BY DEF ClientTypeOK, Scenario
<1>2. known[c] \in [Key -> Value]
  BY DEF ClientTypeOK
<1>3. PICK kind \in OpKinds[c], k \in Key :
        op = IF kind = "Cas" THEN [kind |-> "Cas", key |-> k, expect |-> known[c][k]]
                             ELSE [kind |-> kind, key |-> k]
  BY DEF PickOp
<1>4. kind \in {"Get", "Put", "Delete", "Cas"}
  BY <1>1 DEF OpKinds
<1> QED
  BY <1>2, <1>3, <1>4 DEF Op

LEMMA BeginMoves ==
    ASSUME ClientTypeOK, NEW c \in Client, Begin(c), env' = env
    PROVE  ClientTypeOK' /\ ClientMoves(c)
<1>1. CASE stopped[c] \/ inflight[c] # None
  <2>1. UNCHANGED <<known, stopped, retryTimers, replies, answer,
                    seq, inflight, backingOff, nextReq, reqTimer, requests>>
    BY <1>1 DEF Begin
  <2>2. thinkTimers' \in [Client -> Nat]
    BY DEF Begin, ClientTypeOK
  <2>3. ClientTypeOK'
    BY <2>1, <2>2 DEF ClientTypeOK
  <2> QED
    BY <2>1, <2>3 DEF ClientMoves, Idles, Rests
<1>2. CASE ~(stopped[c] \/ inflight[c] # None)
  <2>1. PICK op \in PickOp(c) :
          Attempt(c, [seq |-> seq'[c], op |-> op, req |-> 0, attempts |-> 0])
    BY <1>2 DEF Begin
  <2>2. seq' = [seq EXCEPT ![c] = @ + 1] /\ backingOff' = [backingOff EXCEPT ![c] = FALSE]
    BY <1>2 DEF Begin
  <2>3. /\ seq' \in [Client -> Nat] /\ seq'[c] = seq[c] + 1 /\ seq'[c] \in Nat \ {0}
        /\ \A d \in Client \ {c} : seq'[d] = seq[d]
    BY <2>2 DEF ClientTypeOK
  <2> DEFINE f == [seq |-> seq'[c], op |-> op, req |-> 0, attempts |-> 0]
  <2>4. f \in Pending /\ f.seq = seq'[c]
    BY <2>3, PickedIsAnOp DEF Pending
  <2> HIDE DEF f
  <2>5. Attempt(c, f)
    BY <2>1 DEF f
  <2>6. UNCHANGED <<known, stopped, retryTimers, replies, answer>>
    BY DEF Begin
  <2>7. thinkTimers' \in [Client -> Nat] /\ backingOff' \in [Client -> BOOLEAN]
    BY <2>2 DEF Begin, ClientTypeOK
  <2>8. ClientTypeOK'
    BY <2>3, <2>4, <2>5, <2>6, <2>7, AttemptTypes DEF ClientTypeOK
  <2>9. Sends(c) /\ inflight'[c].seq = seq'[c]
    BY <2>4, <2>5, <2>6, AttemptTypes DEF Sends
  <2>10. \A d \in Client \ {c} : inflight'[d] = inflight[d] /\ nextReq'[d] = nextReq[d]
    BY <2>4, <2>5, AttemptTypes
  <2> QED
    BY <1>2, <2>3, <2>6, <2>8, <2>9, <2>10 DEF ClientMoves, Begins
<1> QED
  BY <1>1, <1>2

LEMMA GiveUpMoves ==
    ASSUME ClientTypeOK, NEW c \in Client, GiveUp(c), inflight[c] # None, replies' = replies, env' = env
    PROVE  ClientTypeOK' /\ ClientMoves(c)
<1>1. /\ inflight' \in [Client -> Pending \cup {None}] /\ inflight'[c] = None
      /\ \A d \in Client \ {c} : inflight'[d] = inflight[d]
      /\ inflight[c] \in Pending
  BY DEF ClientTypeOK, GiveUp
<1>2. reqTimer' \in [Client -> BOOLEAN] /\ thinkTimers' \in [Client -> Nat]
  BY DEF ClientTypeOK, GiveUp, Think
<1>3. UNCHANGED <<seq, backingOff, known, nextReq, stopped, retryTimers, requests, answer>>
  BY DEF GiveUp
<1>4. ClientTypeOK'
  BY <1>1, <1>2, <1>3 DEF ClientTypeOK
<1> QED
  BY <1>1, <1>3, <1>4 DEF ClientMoves, GivesUp, Rests

LEMMA RetryingMoves ==
    ASSUME ClientTypeOK, NEW c \in Client, inflight[c] # None, Attempt(c, inflight[c]),
           UNCHANGED <<seq, known, stopped, thinkTimers, replies, answer, env>>,
           backingOff' \in [Client -> BOOLEAN], retryTimers' \in [Client -> Nat]
    PROVE  ClientTypeOK' /\ ClientMoves(c)
<1>1. inflight[c] \in Pending
  BY DEF ClientTypeOK
<1> DEFINE f == inflight[c]
<1>2. f \in Pending /\ Attempt(c, f)
  BY <1>1
<1> HIDE DEF f
<1>3. ClientTypeOK'
  BY <1>2, AttemptTypes DEF ClientTypeOK
<1>4. Sends(c) /\ inflight'[c].seq = f.seq /\ inflight'[c].op = f.op
  BY <1>2, AttemptTypes DEF Sends
<1>5. \A d \in Client \ {c} : inflight'[d] = inflight[d] /\ nextReq'[d] = nextReq[d]
  BY <1>2, AttemptTypes
<1> QED
  BY <1>1, <1>3, <1>4, <1>5 DEF ClientMoves, Retries, f

LEMMA RequestTimeoutMoves ==
    ASSUME ClientTypeOK, NEW c \in Client, RequestTimeout(c), env' = env
    PROVE  ClientTypeOK' /\ ClientMoves(c)
<1>1. replies' = replies
  BY DEF RequestTimeout
<1>2. CASE inflight[c] # None /\ GiveUp(c)
  BY <1>1, <1>2, GiveUpMoves
<1>3. CASE /\ inflight[c] # None /\ Attempt(c, inflight[c])
           /\ UNCHANGED <<seq, backingOff, known, stopped, retryTimers, thinkTimers, answer>>
  <2>1. backingOff' \in [Client -> BOOLEAN] /\ retryTimers' \in [Client -> Nat]
    BY <1>3 DEF ClientTypeOK
  <2> QED
    BY <1>1, <1>3, <2>1, RetryingMoves
<1>4. CASE /\ reqTimer' = [reqTimer EXCEPT ![c] = FALSE]
           /\ UNCHANGED <<seq, inflight, backingOff, known, nextReq, stopped, retryTimers,
                          thinkTimers, requests, answer>>
  <2>1. ClientTypeOK'
    BY <1>1, <1>4 DEF ClientTypeOK
  <2> QED
    BY <1>1, <1>4, <2>1 DEF ClientMoves, Idles, Rests
<1> QED
  BY <1>2, <1>3, <1>4 DEF RequestTimeout

LEMMA RetryTimerMoves ==
    ASSUME ClientTypeOK, NEW c \in Client, RetryTimer(c), env' = env
    PROVE  ClientTypeOK' /\ ClientMoves(c)
<1>1. /\ retryTimers' \in [Client -> Nat]
      /\ UNCHANGED <<seq, known, stopped, thinkTimers, replies, answer>>
  BY DEF RetryTimer, ClientTypeOK
<1>2. CASE /\ inflight[c] # None /\ Attempt(c, inflight[c])
           /\ backingOff' = [backingOff EXCEPT ![c] = FALSE]
  <2>1. backingOff' \in [Client -> BOOLEAN]
    BY <1>2 DEF ClientTypeOK
  <2> QED
    BY <1>1, <1>2, <2>1, RetryingMoves
<1>3. CASE UNCHANGED <<inflight, backingOff, nextReq, reqTimer, requests>>
  <2>1. ClientTypeOK'
    BY <1>1, <1>3 DEF ClientTypeOK
  <2> QED
    BY <1>1, <1>3, <2>1 DEF ClientMoves, Idles, Rests
<1> QED
  BY <1>2, <1>3 DEF RetryTimer

LEMMA StopMoves ==
    ASSUME ClientTypeOK, NEW c \in Client, Stop(c), env' = env
    PROVE  ClientTypeOK' /\ ClientMoves(c)
<1>1. UNCHANGED <<seq, inflight, backingOff, known, nextReq, reqTimer, retryTimers, thinkTimers,
                  requests, replies, answer>>
  BY DEF Stop, clientTimers
<1>2. stopped' \in [Client -> BOOLEAN]
  BY DEF Stop, ClientTypeOK
<1>3. ClientTypeOK'
  BY <1>1, <1>2 DEF ClientTypeOK
<1> QED
  BY <1>1, <1>3 DEF ClientMoves, Idles, Rests

LEMMA RememberTypes ==
    ASSUME ClientTypeOK, NEW c \in Client, inflight[c] \in Pending, NEW o \in Outcome,
           Remember(c, inflight[c].op, o)
    PROVE  known' \in [Client -> [Key -> Value]]
<1> DEFINE op == inflight[c].op
           own == <<c, inflight[c].seq>>
           value == CASE op.kind = "Get" /\ o.kind = "Value" -> o.value
                      [] op.kind = "Put" /\ o = Written -> own
                      [] op.kind = "Delete" /\ o = Written -> Absent
                      [] op.kind = "Cas" /\ o = CasIs(TRUE) -> own
                      [] op.kind = "Cas" /\ o = CasIs(FALSE) -> Absent
                      [] OTHER -> known[c][op.key]
<1>1. known' = [known EXCEPT ![c][op.key] = value]
  BY DEF Remember
<1>2. op \in Op /\ op.key \in Key /\ own \in Value /\ Absent \in Value
  BY DEF Pending, Op, Value
<1>3. known \in [Client -> [Key -> Value]] /\ known[c][op.key] \in Value
  BY <1>2 DEF ClientTypeOK
<1>4. o.kind = "Value" => o.value \in Value
  BY DEF Outcome, Written, NotLeader, Dropped
<1> HIDE DEF op, own
<1>5. value \in Value
  BY <1>2, <1>3, <1>4
<1> HIDE DEF value
<1> QED
  BY <1>1, <1>2, <1>3, <1>5

LEMMA OnReplyMoves ==
    ASSUME ClientTypeOK, NEW c \in Client, NEW m \in replies, OnReply(c, m), env' = env
    PROVE  ClientTypeOK' /\ ClientMoves(c)
<1>1. /\ m.client = c /\ inflight[c] # None /\ m.req = inflight[c].req /\ replies' = replies
      /\ inflight[c] \in Pending
  BY DEF OnReply, IsCurrent, ClientTypeOK
<1>2. CASE GiveUp(c)
  BY <1>1, <1>2, GiveUpMoves
<1>3. CASE BackOff(c)
  <2>1. UNCHANGED <<seq, inflight, known, nextReq, stopped, thinkTimers, requests, answer>>
    BY <1>3 DEF BackOff
  <2>2. /\ backingOff' \in [Client -> BOOLEAN] /\ reqTimer' \in [Client -> BOOLEAN]
        /\ retryTimers' \in [Client -> Nat]
    BY <1>3 DEF BackOff, ClientTypeOK
  <2>3. ClientTypeOK'
    BY <1>1, <2>1, <2>2 DEF ClientTypeOK
  <2> QED
    BY <1>1, <2>1, <2>3 DEF ClientMoves, Idles, Rests
<1>4. CASE Finish(c, m)
  <2> DEFINE a == [seq |-> inflight[c].seq, req |-> m.req, outcome |-> m.outcome]
  <2>1. m.outcome \in Outcome /\ m.req \in Nat
    BY DEF ClientTypeOK, Reply
  <2>2. a \in Answer
    BY <1>1, <2>1 DEF Answer, Pending
  <2>3. answer' = [answer EXCEPT ![c] = a] /\ IsDefinite(m.outcome)
    BY <1>4 DEF Finish
  <2>4. answer' \in [Client -> Answer \cup {None}]
    <3> HIDE DEF a
    <3> QED
      BY <2>2, <2>3 DEF ClientTypeOK
  <2>5. known' \in [Client -> [Key -> Value]]
    BY <1>1, <1>4, <2>1, RememberTypes DEF Finish
  <2>6. /\ inflight' \in [Client -> Pending \cup {None}] /\ inflight'[c] = None
        /\ \A d \in Client \ {c} : inflight'[d] = inflight[d]
    BY <1>4 DEF Finish, ClientTypeOK
  <2>7. /\ backingOff' \in [Client -> BOOLEAN] /\ reqTimer' \in [Client -> BOOLEAN]
        /\ thinkTimers' \in [Client -> Nat]
    BY <1>4 DEF Finish, ClientTypeOK, Think
  <2>8. UNCHANGED <<seq, nextReq, stopped, retryTimers, requests>>
    BY <1>4 DEF Finish
  <2>9. ClientTypeOK'
    BY <1>1, <2>4, <2>5, <2>6, <2>7, <2>8 DEF ClientTypeOK
  <2>10. Finishes(c)
    BY <1>1, <2>3, <2>6, <2>8 DEF Finishes, Rests
  <2> QED
    BY <1>1, <2>6, <2>8, <2>9, <2>10 DEF ClientMoves
<1> QED
  BY <1>2, <1>3, <1>4 DEF OnReply

LEMMA ClientStepMoves ==
    ASSUME ClientTypeOK, NEW c \in Client, ClientStep(c), env' = env
    PROVE  ClientTypeOK' /\ ClientMoves(c)
BY BeginMoves, RequestTimeoutMoves, RetryTimerMoves, StopMoves, OnReplyMoves DEF ClientStep

-----------------------------------------------------------------------------
(* The clients' timers. *)

(* NeverStuck, of one client. *)
OnItsWay(c) ==
    /\ inflight[c] # None => IF backingOff[c] THEN retryTimers[c] > 0 ELSE reqTimer[c]
    /\ inflight[c] = None /\ ~stopped[c] => thinkTimers[c] > 0

(* Whatever else a client does, it leaves the others' timers alone, and    *)
(* one of its own that is pending when it must be.                         *)
LEMMA MovesOn ==
    ASSUME ClientTypeOK, NEW c \in Client, ClientStep(c), env' = env, OnItsWay(c)
    PROVE  /\ OnItsWay(c)'
           /\ \A d \in Client \ {c} :
                /\ backingOff'[d] = backingOff[d] /\ retryTimers'[d] = retryTimers[d]
                /\ reqTimer'[d] = reqTimer[d] /\ thinkTimers'[d] = thinkTimers[d]
                /\ stopped'[d] = stopped[d] /\ inflight'[d] = inflight[d]
<1>1. /\ inflight \in [Client -> Pending \cup {None}] /\ backingOff \in [Client -> BOOLEAN]
      /\ stopped \in [Client -> BOOLEAN] /\ reqTimer \in [Client -> BOOLEAN]
      /\ retryTimers \in [Client -> Nat] /\ thinkTimers \in [Client -> Nat]
  BY DEF ClientTypeOK
<1>2. CASE Begin(c)
  <2>1. CASE stopped[c] \/ inflight[c] # None
    BY <1>1, <1>2, <2>1 DEF Begin, OnItsWay
  <2>2. CASE ~(stopped[c] \/ inflight[c] # None)
    <3>1. /\ UNCHANGED <<stopped, retryTimers>> /\ backingOff' = [backingOff EXCEPT ![c] = FALSE]
          /\ thinkTimers' = [thinkTimers EXCEPT ![c] = @ - 1]
      BY <1>2, <2>2 DEF Begin
    <3>2. PICK f : Attempt(c, f)
      BY <1>2, <2>2 DEF Begin
    <3>3. reqTimer' = [reqTimer EXCEPT ![c] = TRUE]
      BY <3>2 DEF Attempt
    <3>4. ClientMoves(c)
      BY <1>2, BeginMoves
    <3>5. inflight'[c] # None /\ \A d \in Client \ {c} : inflight'[d] = inflight[d]
      BY <1>1, <1>2, <2>2, <3>1, <3>2, <3>4, NoneIsNone
         DEF ClientMoves, Begins, Retries, Idles, GivesUp, Finishes, Sends, Rests, Begin, ClientTypeOK
    <3> QED
      BY <1>1, <3>1, <3>3, <3>5 DEF OnItsWay
  <2> QED
    BY <2>1, <2>2
<1>3. CASE inflight[c] # None /\ GiveUp(c)
  BY <1>1, <1>3 DEF GiveUp, Think, OnItsWay
<1>4. CASE inflight[c] # None /\ BackOff(c)
  BY <1>1, <1>4 DEF BackOff, OnItsWay
<1>5. CASE RequestTimeout(c)
  <2>1. CASE inflight[c] # None /\ ~backingOff[c] /\ ~GiveUp(c)
    <3>1. /\ UNCHANGED <<backingOff, stopped, retryTimers, thinkTimers>>
          /\ Attempt(c, inflight[c])
      BY <1>5, <2>1 DEF RequestTimeout
    <3>2. reqTimer' = [reqTimer EXCEPT ![c] = TRUE]
      BY <3>1 DEF Attempt
    <3>3. inflight[c] \in Pending
      BY <1>1, <2>1
    <3>4. inflight'[c] # None /\ \A d \in Client \ {c} : inflight'[d] = inflight[d]
      BY <3>1, <3>3, AttemptTypes, NoneIsNone
    <3> QED
      BY <1>1, <2>1, <3>1, <3>2, <3>4 DEF OnItsWay
  <2>2. CASE ~(inflight[c] # None /\ ~backingOff[c])
    BY <1>1, <1>5, <2>2 DEF RequestTimeout, OnItsWay
  <2> QED
    BY <1>3, <2>1, <2>2
<1>6. CASE RetryTimer(c)
  <2>1. CASE backingOff[c] /\ inflight[c] # None
    <3>1. /\ UNCHANGED <<stopped, thinkTimers>> /\ backingOff' = [backingOff EXCEPT ![c] = FALSE]
          /\ retryTimers' = [retryTimers EXCEPT ![c] = @ - 1]
          /\ Attempt(c, inflight[c])
      BY <1>6, <2>1 DEF RetryTimer
    <3>2. reqTimer' = [reqTimer EXCEPT ![c] = TRUE]
      BY <3>1 DEF Attempt
    <3>3. inflight[c] \in Pending
      BY <1>1, <2>1
    <3>4. inflight'[c] # None /\ \A d \in Client \ {c} : inflight'[d] = inflight[d]
      BY <3>1, <3>3, AttemptTypes, NoneIsNone
    <3> QED
      BY <1>1, <3>1, <3>2, <3>4 DEF OnItsWay
  <2>2. CASE ~(backingOff[c] /\ inflight[c] # None)
    BY <1>1, <1>6, <2>2 DEF RetryTimer, OnItsWay
  <2> QED
    BY <2>1, <2>2
<1>7. CASE Stop(c)
  BY <1>1, <1>7 DEF Stop, clientTimers, OnItsWay
<1>8. ASSUME NEW m \in replies, Finish(c, m)
      PROVE  /\ OnItsWay(c)'
             /\ \A d \in Client \ {c} :
                /\ backingOff'[d] = backingOff[d] /\ retryTimers'[d] = retryTimers[d]
                /\ reqTimer'[d] = reqTimer[d] /\ thinkTimers'[d] = thinkTimers[d]
                /\ stopped'[d] = stopped[d] /\ inflight'[d] = inflight[d]
  BY <1>1, <1>8 DEF Finish, Think, OnItsWay
<1>9. \A m \in replies : OnReply(c, m) => inflight[c] # None
  BY DEF OnReply, IsCurrent
<1> QED
  BY <1>2, <1>3, <1>4, <1>5, <1>6, <1>7, <1>8, <1>9 DEF ClientStep, OnReply

-----------------------------------------------------------------------------
(* What `drain` does to the replies, the waiting and the machine. *)

(* The reply to the one who waits at i, when its command is there. *)
IsResult(m, s, base, from, waits, i) ==
    /\ i \in DOMAIN waits /\ i \in (from + 1)..commit'[s]
    /\ IsOwn(waits[i], log'[s][i].cmd)
    /\ m.client = waits[i].client /\ m.req = waits[i].req
    /\ m.outcome = ResultOf(Replay(base, SubSeq(log'[s], from + 1, i - 1)), log'[s][i].cmd)

(* The reply to a read. *)
IsReading(m, s, r) ==
    /\ lead'[s] # 0 /\ r.confirmed /\ r.index <= commit'[s]
    /\ m.client = r.client /\ m.req = r.req
    /\ m.outcome = ValueIs(sm'[s].map[r.key])

(* The reply to someone who waits no longer. *)
IsRelease(m, waits, rds) ==
    /\ m.outcome = Dropped
    /\ \/ \E i \in DOMAIN waits : m.client = waits[i].client /\ m.req = waits[i].req
       \/ \E r \in rds : m.client = r.client /\ m.req = r.req

LEMMA SlotsAre ==
    ASSUME NEW w \in Slots
    PROVE  /\ DOMAIN w \subseteq Nat
           /\ \A i \in DOMAIN w : w[i] \in Slot
           /\ w = [i \in DOMAIN w |-> w[i]]
BY DEF Slots

LEMMA AreSlots ==
    ASSUME NEW I \in SUBSET Nat, NEW w, \A i \in I : w[i] \in Slot
    PROVE  [i \in I |-> w[i]] \in Slots
<1>1. [i \in I |-> w[i]] \in [I -> Slot]
  OBVIOUS
<1> QED
  BY <1>1 DEF Slots

CaughtUp(s, base, from) == Replay(base, SubSeq(log'[s], from + 1, commit'[s]))
StillWaits(s, waits) == [i \in {i \in DOMAIN waits : ~IsOver(s, i)} |-> waits[i]]
StillReads(s, rds) == {r \in rds : lead'[s] # 0 /\ ~(r.confirmed /\ r.index <= commit'[s])}

LEMMA DrainSets ==
    ASSUME NEW s, NEW base, NEW from, NEW waits, NEW rds, Drain(s, base, from, waits, rds)
    PROVE  /\ sm' = [sm EXCEPT ![s] = CaughtUp(s, base, from)]
           /\ waiting' = [waiting EXCEPT ![s] = StillWaits(s, waits)]
           /\ reads' = [reads EXCEPT ![s] = StillReads(s, rds)]
<1> DEFINE over == {i \in DOMAIN waits : IsOver(s, i)}
           ready == {r \in rds : lead'[s] # 0 /\ r.confirmed /\ r.index <= commit'[s]}
           failed == {r \in rds : ~(lead'[s] # 0)}
<1>1. sm' = [sm EXCEPT ![s] = Replay(base, SubSeq(log'[s], from + 1, commit'[s]))]
  BY DEF Drain
<1>2. waiting' = [waiting EXCEPT ![s] = [i \in DOMAIN waits \ over |-> waits[i]]]
  BY DEF Drain
<1>3. reads' = [reads EXCEPT ![s] = rds \ (ready \cup failed)]
  BY DEF Drain
<1>4. DOMAIN waits \ over = {i \in DOMAIN waits : ~IsOver(s, i)}
  OBVIOUS
<1>5. rds \ (ready \cup failed) = StillReads(s, rds)
  BY DEF StillReads
<1> QED
  BY <1>1, <1>2, <1>3, <1>4, <1>5 DEF CaughtUp, StillWaits

LEMMA DrainReplies ==
    ASSUME ServerTypeOK, NEW s \in Server, NEW base, NEW from, NEW waits \in Slots, NEW rds,
           Drain(s, base, from, waits, rds)
    PROVE  /\ replies \subseteq replies'
           /\ \A m \in replies' \ replies :
                /\ m = [client |-> m.client, req |-> m.req, outcome |-> m.outcome]
                /\ \/ \E i \in DOMAIN waits : IsResult(m, s, base, from, waits, i)
                   \/ \E r \in rds : IsReading(m, s, r)
                   \/ IsRelease(m, waits, rds)
<1> DEFINE applied == commit'[s]
           machine(i) == Replay(base, SubSeq(log'[s], from + 1, i))
           leads == lead'[s] # 0
           over == {i \in DOMAIN waits : IsOver(s, i)}
           verdict(i) == IF i \in (from + 1)..applied /\ IsOwn(waits[i], log'[s][i].cmd)
                         THEN ResultOf(machine(i - 1), log'[s][i].cmd)
                         ELSE Dropped
           ready == {r \in rds : leads /\ r.confirmed /\ r.index <= applied}
           failed == {r \in rds : ~leads}
<1>1. replies' = replies
            \cup {ReplyTo(waits[i], verdict(i)) : i \in over}
            \cup {ReplyTo(r, ValueIs(sm'[s].map[r.key])) : r \in ready}
            \cup {ReplyTo(r, Dropped) : r \in failed}
  BY DEF Drain
<1>4. ASSUME NEW i \in over
      PROVE  LET m == ReplyTo(waits[i], verdict(i)) IN
             /\ m = [client |-> m.client, req |-> m.req, outcome |-> m.outcome]
             /\ \/ IsResult(m, s, base, from, waits, i)
                \/ IsRelease(m, waits, rds)
  BY DEF ReplyTo, IsResult, IsRelease
<1>5. ASSUME NEW r \in ready
      PROVE  LET m == ReplyTo(r, ValueIs(sm'[s].map[r.key])) IN
             /\ m = [client |-> m.client, req |-> m.req, outcome |-> m.outcome]
             /\ IsReading(m, s, r)
  BY DEF ReplyTo, IsReading
<1>6. ASSUME NEW r \in failed
      PROVE  LET m == ReplyTo(r, Dropped) IN
             /\ m = [client |-> m.client, req |-> m.req, outcome |-> m.outcome]
             /\ IsRelease(m, waits, rds)
  BY DEF ReplyTo, IsRelease
<1>7. ASSUME NEW m \in replies' \ replies
      PROVE  /\ m = [client |-> m.client, req |-> m.req, outcome |-> m.outcome]
             /\ \/ \E i \in DOMAIN waits : IsResult(m, s, base, from, waits, i)
                \/ \E r \in rds : IsReading(m, s, r)
                \/ IsRelease(m, waits, rds)
  <2>1. CASE \E i \in over : m = ReplyTo(waits[i], verdict(i))
    <3>1. PICK i \in over : m = ReplyTo(waits[i], verdict(i))
      BY <2>1
    <3> HIDE DEF verdict
    <3> QED
      BY <3>1, <1>4
  <2>2. CASE \E r \in ready : m = ReplyTo(r, ValueIs(sm'[s].map[r.key]))
    BY <2>2, <1>5
  <2>3. CASE \E r \in failed : m = ReplyTo(r, Dropped)
    BY <2>3, <1>6
  <2> HIDE DEF verdict, over, ready, failed
  <2> QED
    BY <1>1, <2>1, <2>2, <2>3
<1>8. replies \subseteq replies'
  BY <1>1
<1> HIDE DEF verdict, over, ready, failed
<1> QED
  BY <1>7, <1>8

LEMMA ResultsAreDefinite ==
    ASSUME NEW machine \in Machine, NEW cmd \in LoggedCommand
    PROVE  ResultOf(machine, cmd) \in Definite
<1>1. /\ cmd # Noop /\ cmd.client \in Client /\ cmd.seq \in Nat \ {0}
  BY KvAssumption DEF LoggedCommand, Command
<1>2. machine.map \in [Key -> Value] /\ machine.sessions[cmd.client] \in Session
  BY <1>1 DEF Machine
<1>3. IsRepeat(machine, cmd) => machine.sessions[cmd.client].outcome \in Definite
  BY <1>1, <1>2 DEF IsRepeat, Session
<1>4. OutcomeOf(machine.map, cmd) \in Definite
  BY <1>2, OutcomesAreDefinite
<1> QED
  BY <1>1, <1>3, <1>4 DEF ResultOf

LEMMA DrainTypes ==
    ASSUME ServerTypeOK, replies \subseteq Reply, NEW s \in Server, NEW base \in Machine,
           NEW from \in Nat, NEW waits \in Slots, NEW rds \in SUBSET Read,
           Drain(s, base, from, waits, rds), log'[s] \in Seq(LoggedEntry),
           commit'[s] \in Nat, from <= commit'[s], commit'[s] <= Len(log'[s])
    PROVE  /\ sm' \in [Server -> Machine]
           /\ waiting' \in [Server -> Slots]
           /\ reads' \in [Server -> SUBSET Read]
           /\ replies' \subseteq Reply
<1>1. SubSeq(log'[s], from + 1, commit'[s]) \in Seq(LoggedEntry)
  BY Slice
<1>2. CaughtUp(s, base, from) \in Machine
  BY <1>1, ReplayIsAMachine DEF CaughtUp
<1>3. StillWaits(s, waits) \in Slots
  <2> DEFINE left == {i \in DOMAIN waits : ~IsOver(s, i)}
  <2>1. left \in SUBSET Nat /\ \A i \in left : waits[i] \in Slot
    BY SlotsAre
  <2> HIDE DEF left
  <2>2. [i \in left |-> waits[i]] \in Slots
    BY <2>1, AreSlots
  <2> QED
    BY <2>2 DEF StillWaits, left
<1>4. StillReads(s, rds) \in SUBSET Read
  BY DEF StillReads
<1>5. sm' \in [Server -> Machine] /\ sm'[s] \in Machine
  <2>1. sm' = [sm EXCEPT ![s] = CaughtUp(s, base, from)]
    BY DrainSets
  <2> QED
    BY <1>2, <2>1 DEF ServerTypeOK
<1>6. waiting' \in [Server -> Slots] /\ reads' \in [Server -> SUBSET Read]
  <2>1. /\ waiting' = [waiting EXCEPT ![s] = StillWaits(s, waits)]
        /\ reads' = [reads EXCEPT ![s] = StillReads(s, rds)]
    BY DrainSets
  <2> QED
    BY <1>3, <1>4, <2>1 DEF ServerTypeOK
<1>7. ASSUME NEW m \in replies' \ replies
      PROVE  m \in Reply
  <2>1. m = [client |-> m.client, req |-> m.req, outcome |-> m.outcome]
    BY DrainReplies
  <2>2. CASE \E i \in DOMAIN waits : IsResult(m, s, base, from, waits, i)
    <3>1. PICK i \in DOMAIN waits : IsResult(m, s, base, from, waits, i)
      BY <2>2
    <3>2. waits[i] \in Slot /\ i \in Nat \ {0} /\ i <= Len(log'[s]) /\ i - 1 \in Nat /\ from <= i - 1
      BY <3>1, SlotsAre DEF IsResult
    <3>3. log'[s][i] \in LoggedEntry
      BY <3>2
    <3>4. log'[s][i].cmd \in LoggedCommand
      BY <3>1, <3>3 DEF IsResult, IsOwn, LoggedEntry
    <3>5. SubSeq(log'[s], from + 1, i - 1) \in Seq(LoggedEntry)
      BY <3>2, Slice
    <3>6. m.outcome \in Definite
      BY <3>1, <3>4, <3>5, ReplayIsAMachine, ResultsAreDefinite DEF IsResult
    <3> QED
      BY <2>1, <3>1, <3>2, <3>6 DEF IsResult, Reply, Slot, Definite
  <2>3. CASE \E r \in rds : IsReading(m, s, r)
    <3>1. PICK r \in rds : IsReading(m, s, r)
      BY <2>3
    <3>2. r.client \in Client /\ r.req \in Nat /\ r.key \in Key
      BY DEF Read
    <3>3. sm'[s].map[r.key] \in Value
      BY <1>5, <3>2 DEF Machine
    <3>4. m.outcome \in Outcome
      BY <3>1, <3>3 DEF IsReading, ValueIs, Outcome
    <3> QED
      BY <2>1, <3>1, <3>2, <3>4 DEF IsReading, Reply
  <2>4. CASE IsRelease(m, waits, rds)
    <3>1. m.client \in Client /\ m.req \in Nat
      BY <2>4, SlotsAre DEF IsRelease, Slot, Read
    <3> QED
      BY <2>1, <2>4, <3>1 DEF IsRelease, Reply, Outcome
  <2> QED
    BY <2>2, <2>3, <2>4, DrainReplies
<1> QED
  BY <1>5, <1>6, <1>7

-----------------------------------------------------------------------------
(* The agreed log. *)

Agrees(lg, k) ==
    k <= Len(lg) /\ k <= Len(chosen) /\ \A i \in 1..k : lg[i] = chosen[i]

(* What a server has applied is chosen. *)
Agreement == \A s \in Server : Agrees(log[s], commit[s])

(* A log taken over from someone, or from the chosen entries. *)
IsPart(lg) ==
    \E q \in {log[p] : p \in Server} \cup {chosen} :
        Len(lg) <= Len(q) /\ \A i \in 1..Len(lg) : lg[i] = q[i]

Wins(s) ==
    /\ lead[s] = 0
    /\ Len(chosen) <= Len(log[s]) /\ \A i \in 1..Len(chosen) : log[s][i] = chosen[i]
    /\ lead' = [lead EXCEPT ![s] = newest + 1] /\ newest' = newest + 1
    /\ log' = [log EXCEPT ![s] = Append(@, [term |-> newest + 1, cmd |-> Noop])]
    /\ UNCHANGED <<commit, chosen>>

Logs(s, cmd) ==
    /\ lead[s] # 0
    /\ log' = [log EXCEPT ![s] = Append(@, [term |-> lead[s], cmd |-> cmd])]
    /\ UNCHANGED <<commit, lead, newest, chosen>>

(* What a leader chooses, entry by entry. *)
Declares(s, k) ==
    /\ lead[s] # 0 /\ k > commit[s] /\ k <= Len(log[s])
    /\ log[s][k].term = lead[s]
    /\ \A i \in 1..Len(chosen) : i <= k => log[s][i] = chosen[i]
    /\ chosen' \in Seq(LoggedEntry)
    /\ Len(chosen') = IF k > Len(chosen) THEN k ELSE Len(chosen)
    /\ \A i \in 1..Len(chosen) : chosen'[i] = chosen[i]
    /\ \A i \in 1..k : chosen'[i] = log[s][i]
    /\ \A p \in Server : lead[p] > lead[s] =>
         k <= Len(log[p]) /\ \A i \in 1..k : log[p][i] = log[s][i]
    /\ commit' = [commit EXCEPT ![s] = k]
    /\ UNCHANGED <<log, lead, newest>>

Adopts(s, lg, k) ==
    /\ lg \in Seq(LoggedEntry) /\ k \in Nat /\ IsPart(lg) /\ Agrees(lg, k)
    /\ log' = [log EXCEPT ![s] = lg]
    /\ commit' = [commit EXCEPT ![s] = k]
    /\ lead' = [lead EXCEPT ![s] = 0]
    /\ UNCHANGED <<newest, chosen>>

LEMMA ExtendsPrefix ==
    ASSUME NEW lg \in Seq(LoggedEntry), NEW q \in Seq(LoggedEntry), NEW k \in Nat, k <= Len(q),
           Raft!Extends(lg, SubSeq(q, 1, k))
    PROVE  k <= Len(lg) /\ \A i \in 1..k : lg[i] = q[i]
<1>1. Len(SubSeq(q, 1, k)) = k /\ \A i \in 1..k : SubSeq(q, 1, k)[i] = q[i]
  BY Prefix
<1>2. k <= Len(lg) /\ SubSeq(lg, 1, k) = SubSeq(q, 1, k)
  BY <1>1 DEF Raft!Extends
<1>3. \A i \in 1..k : SubSeq(lg, 1, k)[i] = lg[i]
  BY <1>2, Prefix
<1> QED
  BY <1>1, <1>2, <1>3

LEMMA ExtendsAll ==
    ASSUME NEW lg \in Seq(LoggedEntry), NEW q \in Seq(LoggedEntry), Raft!Extends(lg, q)
    PROVE  Len(q) <= Len(lg) /\ \A i \in 1..Len(q) : lg[i] = q[i]
<1>1. Len(q) <= Len(lg) /\ SubSeq(lg, 1, Len(q)) = q /\ Len(q) \in Nat
  BY DEF Raft!Extends
<1>2. \A i \in 1..Len(q) : SubSeq(lg, 1, Len(q))[i] = lg[i]
  BY <1>1, Prefix
<1> QED
  BY <1>1, <1>2

LEMMA ChooseDeclares ==
    ASSUME ServerTypeOK, NEW s \in Server, NEW k \in 1..Len(log[s]), Raft!Choose(s, k)
    PROVE  Declares(s, k)
<1> DEFINE upto == SubSeq(log[s], 1, k)
<1>1. /\ log[s] \in Seq(LoggedEntry) /\ chosen \in Seq(LoggedEntry) /\ k \in Nat
      /\ Len(chosen) \in Nat
  BY DEF ServerTypeOK
<1>2. upto \in Seq(LoggedEntry) /\ Len(upto) = k /\ \A i \in 1..k : upto[i] = log[s][i]
  BY <1>1, Prefix
<1>3. /\ lead[s] # 0 /\ k > commit[s] /\ k <= Len(log[s]) /\ log[s][k].term = lead[s]
      /\ Raft!Extends(upto, chosen) \/ Raft!Extends(chosen, upto)
      /\ chosen' = IF k > Len(chosen) THEN upto ELSE chosen
      /\ commit' = [commit EXCEPT ![s] = k] /\ UNCHANGED <<log, lead, newest>>
  BY DEF Raft!Choose
<1> HIDE DEF upto
<1>6. ASSUME NEW p \in Server, lead[p] > lead[s]
      PROVE  k <= Len(log[p]) /\ \A i \in 1..k : log[p][i] = log[s][i]
  <2>1. Raft!Extends(log[p], upto) /\ log[p] \in Seq(LoggedEntry)
    BY <1>6 DEF Raft!Choose, upto, ServerTypeOK
  <2>2. Len(upto) <= Len(log[p]) /\ \A i \in 1..Len(upto) : log[p][i] = upto[i]
    BY <1>2, <2>1, ExtendsAll
  <2> QED
    BY <1>2, <2>2
<1>4. CASE k > Len(chosen)
  <2>1. ~Raft!Extends(chosen, upto)
    BY <1>1, <1>2, <1>4, ExtendsAll
  <2>2. \A i \in 1..Len(chosen) : upto[i] = chosen[i]
    BY <1>1, <1>2, <1>3, <2>1, ExtendsAll
  <2>3. \A i \in 1..Len(chosen) : i \in 1..k
    BY <1>1, <1>4
  <2>4. \A i \in 1..Len(chosen) : log[s][i] = chosen[i]
    BY <1>2, <2>2, <2>3
  <2> QED
    BY <1>1, <1>2, <1>3, <1>4, <1>6, <2>2, <2>4 DEF Declares
<1>5. CASE k <= Len(chosen)
  <2>1. \A i \in 1..k : upto[i] = chosen[i]
    <3>1. CASE Raft!Extends(chosen, upto)
      BY <1>1, <1>2, <3>1, ExtendsAll
    <3>2. CASE Raft!Extends(upto, chosen)
      <4>1. Len(chosen) <= k /\ \A i \in 1..Len(chosen) : upto[i] = chosen[i]
        BY <1>1, <1>2, <3>2, ExtendsAll
      <4> QED
        BY <1>1, <1>5, <4>1
    <3> QED
      BY <1>3, <3>1, <3>2
  <2>2. chosen' = chosen
    BY <1>1, <1>3, <1>5
  <2> QED
    BY <1>1, <1>2, <1>3, <1>5, <1>6, <2>1, <2>2 DEF Declares
<1> QED
  BY <1>1, <1>4, <1>5

LEMMA MinOfTwo ==
    ASSUME NEW a \in Nat, NEW b \in Nat
    PROVE  Min({a, b}) = IF a <= b THEN a ELSE b
<1> DEFINE m == IF a <= b THEN a ELSE b
<1>1. m \in {a, b} /\ \A y \in {a, b} : m =< y
  OBVIOUS
<1>2. \A x \in {a, b} : (\A y \in {a, b} : x =< y) => x = m
  OBVIOUS
<1> HIDE DEF m
<1>3. Min({a, b}) = m
  BY <1>1, <1>2 DEF Min
<1> QED
  BY <1>3 DEF m

LEMMA MaxOfTwo ==
    ASSUME NEW a \in Nat, NEW b \in Nat
    PROVE  Max({a, b}) = IF a >= b THEN a ELSE b
<1> DEFINE m == IF a >= b THEN a ELSE b
<1>1. m \in {a, b} /\ \A y \in {a, b} : m >= y
  OBVIOUS
<1>2. \A x \in {a, b} : (\A y \in {a, b} : x >= y) => x = m
  OBVIOUS
<1> HIDE DEF m
<1>3. Max({a, b}) = m
  BY <1>1, <1>2 DEF Max
<1> QED
  BY <1>3 DEF m

LEMMA PrefixIsPart ==
    ASSUME ServerTypeOK, NEW q \in {log[p] : p \in Server} \cup {chosen},
           NEW n \in Nat, n <= Len(q)
    PROVE  SubSeq(q, 1, n) \in Seq(LoggedEntry) /\ IsPart(SubSeq(q, 1, n))
<1>1. q \in Seq(LoggedEntry)
  BY DEF ServerTypeOK
<1>2. /\ SubSeq(q, 1, n) \in Seq(LoggedEntry) /\ Len(SubSeq(q, 1, n)) = n
      /\ \A i \in 1..n : SubSeq(q, 1, n)[i] = q[i]
  BY <1>1, Prefix
<1> QED
  BY <1>2 DEF IsPart

LEMMA FollowAdopts ==
    ASSUME ServerTypeOK, NEW s \in Server, NEW lg \in Seq(LoggedEntry), IsPart(lg), NEW k \in Nat,
           Raft!Follow(s, lg, k)
    PROVE  Adopts(s, lg, k) /\ k >= commit[s]
<1>1. /\ k >= commit[s] /\ k <= Len(chosen) /\ Raft!Extends(lg, SubSeq(chosen, 1, k))
      /\ log' = [log EXCEPT ![s] = lg] /\ commit' = [commit EXCEPT ![s] = k]
      /\ lead' = [lead EXCEPT ![s] = 0] /\ UNCHANGED <<newest, chosen>>
  BY DEF Raft!Follow
<1>2. k <= Len(lg) /\ \A i \in 1..k : lg[i] = chosen[i]
  BY <1>1, ExtendsPrefix DEF ServerTypeOK
<1> QED
  BY <1>1, <1>2 DEF Adopts, Agrees

LEMMA CrashAdopts ==
    ASSUME ServerTypeOK, NEW s \in Server, NEW lg \in Seq(LoggedEntry), IsPart(lg), NEW k \in Nat,
           Raft!Crash(s, lg, k)
    PROVE  Adopts(s, lg, k)
<1>1. /\ k <= Len(chosen) /\ Raft!Extends(lg, SubSeq(chosen, 1, k))
      /\ log' = [log EXCEPT ![s] = lg] /\ commit' = [commit EXCEPT ![s] = k]
      /\ lead' = [lead EXCEPT ![s] = 0] /\ UNCHANGED <<newest, chosen>>
  BY DEF Raft!Crash
<1>2. k <= Len(lg) /\ \A i \in 1..k : lg[i] = chosen[i]
  BY <1>1, ExtendsPrefix DEF ServerTypeOK
<1> QED
  BY <1>1, <1>2 DEF Adopts, Agrees

(* Logs, and what is applied and chosen, after each of these. *)
LEMMA WinsTypes ==
    ASSUME ServerTypeOK, Agreement, NEW s \in Server, Wins(s)
    PROVE  /\ log' \in [Server -> Seq(LoggedEntry)] /\ commit' \in [Server -> Nat]
           /\ lead' \in [Server -> Nat] /\ newest' \in Nat /\ chosen' \in Seq(LoggedEntry)
           /\ Agreement'
<1> DEFINE e == [term |-> newest + 1, cmd |-> Noop]
<1>1. e \in LoggedEntry /\ log[s] \in Seq(LoggedEntry)
  <2>1. newest + 1 \in Nat /\ log[s] \in Seq(LoggedEntry)
    BY DEF ServerTypeOK
  <2>2. e \in LoggedEntry
    BY <2>1 DEF LoggedEntry
  <2> QED
    BY <2>1, <2>2
<1>2. /\ Append(log[s], e) \in Seq(LoggedEntry) /\ Len(Append(log[s], e)) = Len(log[s]) + 1
      /\ \A i \in 1..Len(log[s]) : Append(log[s], e)[i] = log[s][i]
  BY <1>1
<1>3. log' = [log EXCEPT ![s] = Append(log[s], e)]
  BY DEF Wins
<1> HIDE DEF e
<1>4. log' \in [Server -> Seq(LoggedEntry)]
  BY <1>2, <1>3 DEF ServerTypeOK
<1>5. \A p \in Server : Len(log[p]) <= Len(log'[p]) /\ \A i \in 1..Len(log[p]) : log'[p][i] = log[p][i]
  BY <1>2, <1>3 DEF ServerTypeOK
<1>6. Agreement'
  BY <1>4, <1>5 DEF Agreement, Agrees, Wins, ServerTypeOK
<1> QED
  BY <1>4, <1>6 DEF Wins, ServerTypeOK

LEMMA LogsTypes ==
    ASSUME ServerTypeOK, Agreement, NEW s \in Server, NEW cmd \in LoggedCommand, Logs(s, cmd)
    PROVE  /\ log' \in [Server -> Seq(LoggedEntry)] /\ commit' \in [Server -> Nat]
           /\ lead' \in [Server -> Nat] /\ newest' \in Nat /\ chosen' \in Seq(LoggedEntry)
           /\ Agreement'
<1> DEFINE e == [term |-> lead[s], cmd |-> cmd]
<1>1. e \in LoggedEntry /\ log[s] \in Seq(LoggedEntry)
  BY DEF LoggedEntry, ServerTypeOK
<1>2. /\ Append(log[s], e) \in Seq(LoggedEntry) /\ Len(Append(log[s], e)) = Len(log[s]) + 1
      /\ \A i \in 1..Len(log[s]) : Append(log[s], e)[i] = log[s][i]
  BY <1>1
<1>3. log' = [log EXCEPT ![s] = Append(log[s], e)]
  BY DEF Logs
<1> HIDE DEF e
<1>4. log' \in [Server -> Seq(LoggedEntry)]
  BY <1>2, <1>3 DEF ServerTypeOK
<1>5. \A p \in Server : Len(log[p]) <= Len(log'[p]) /\ \A i \in 1..Len(log[p]) : log'[p][i] = log[p][i]
  BY <1>2, <1>3 DEF ServerTypeOK
<1>6. Agreement'
  BY <1>4, <1>5 DEF Agreement, Agrees, Logs, ServerTypeOK
<1> QED
  BY <1>4, <1>6 DEF Logs, ServerTypeOK

LEMMA DeclaresTypes ==
    ASSUME ServerTypeOK, Agreement, NEW s \in Server, NEW k \in Nat, Declares(s, k)
    PROVE  /\ log' \in [Server -> Seq(LoggedEntry)] /\ commit' \in [Server -> Nat]
           /\ lead' \in [Server -> Nat] /\ newest' \in Nat /\ chosen' \in Seq(LoggedEntry)
           /\ Agreement' /\ Len(chosen) <= Len(chosen')
<1>1. Len(chosen) \in Nat /\ Len(chosen') \in Nat /\ \A p \in Server : Len(log[p]) \in Nat
  BY DEF ServerTypeOK, Declares
<1>2. k <= Len(chosen') /\ Len(chosen) <= Len(chosen')
  BY <1>1 DEF Declares
<1>3. ASSUME NEW p \in Server PROVE Agrees(log[p], commit[p])'
  <2>1. Agrees(log[p], commit[p]) /\ commit[p] \in Nat /\ log'[p] = log[p]
    BY DEF Agreement, Declares, ServerTypeOK
  <2>2. CASE p = s
    <3>1. commit'[p] = k /\ k <= Len(log[p]) /\ \A i \in 1..k : chosen'[i] = log[p][i]
      BY <2>2 DEF Declares, ServerTypeOK
    <3> QED
      BY <1>1, <1>2, <2>1, <3>1 DEF Agrees
  <2>3. CASE p # s
    <3>1. commit'[p] = commit[p] /\ \A i \in 1..Len(chosen) : chosen'[i] = chosen[i]
      BY <2>3 DEF Declares, ServerTypeOK
    <3> QED
      BY <1>1, <1>2, <2>1, <3>1 DEF Agrees
  <2> QED
    BY <2>2, <2>3
<1> QED
  BY <1>2, <1>3 DEF Agreement, Declares, ServerTypeOK

LEMMA AdoptsTypes ==
    ASSUME ServerTypeOK, Agreement, NEW s \in Server, NEW lg, NEW k, Adopts(s, lg, k)
    PROVE  /\ log' \in [Server -> Seq(LoggedEntry)] /\ commit' \in [Server -> Nat]
           /\ lead' \in [Server -> Nat] /\ newest' \in Nat /\ chosen' \in Seq(LoggedEntry)
           /\ Agreement'
<1>1. log' \in [Server -> Seq(LoggedEntry)] /\ commit' \in [Server -> Nat]
  BY DEF Adopts, ServerTypeOK
<1>2. ASSUME NEW p \in Server PROVE Agrees(log[p], commit[p])'
  BY <1>1 DEF Agreement, Agrees, Adopts, ServerTypeOK
<1> QED
  BY <1>1, <1>2 DEF Agreement, Adopts, ServerTypeOK

-----------------------------------------------------------------------------
(* What each handler of a server does.                                     *)

Quiet == UNCHANGED <<clientVars, requests, began>>

(* What happens to the log under a handler that ends in `drain`. *)
LogMoves(s) ==
    \/ UNCHANGED raftVars
    \/ Wins(s)
    \/ \E cmd \in LoggedCommand : Logs(s, cmd)
    \/ \E k \in Nat : Declares(s, k)
    \/ \E lg \in Seq(LoggedEntry), k \in Nat : Adopts(s, lg, k) /\ k >= commit[s]

LEMMA LogMovesTypes ==
    ASSUME ServerTypeOK, Agreement, NEW s \in Server, LogMoves(s)
    PROVE  /\ log' \in [Server -> Seq(LoggedEntry)] /\ commit' \in [Server -> Nat]
           /\ lead' \in [Server -> Nat] /\ newest' \in Nat /\ chosen' \in Seq(LoggedEntry)
           /\ Agreement'
           /\ commit'[s] >= commit[s] /\ commit'[s] <= Len(log'[s]) /\ commit'[s] <= Len(chosen')
<1>1. /\ log' \in [Server -> Seq(LoggedEntry)] /\ commit' \in [Server -> Nat]
      /\ lead' \in [Server -> Nat] /\ newest' \in Nat /\ chosen' \in Seq(LoggedEntry)
      /\ Agreement'
  <2>1. CASE UNCHANGED raftVars
    BY <2>1 DEF raftVars, Agreement, Agrees, ServerTypeOK
  <2> QED
    BY <2>1, WinsTypes, LogsTypes, DeclaresTypes, AdoptsTypes DEF LogMoves
<1>2. commit'[s] >= commit[s]
  <2>1. CASE UNCHANGED commit
    BY <2>1 DEF ServerTypeOK
  <2>2. CASE \E k \in Nat : k >= commit[s] /\ commit' = [commit EXCEPT ![s] = k]
    BY <2>2 DEF ServerTypeOK
  <2>3. ASSUME NEW k \in Nat, Declares(s, k)
        PROVE  k >= commit[s] /\ commit' = [commit EXCEPT ![s] = k]
    BY <2>3 DEF Declares, ServerTypeOK
  <2> QED
    BY <2>1, <2>2, <2>3 DEF LogMoves, raftVars, Wins, Logs, Adopts
<1>3. Agrees(log[s], commit[s])'
  BY <1>1 DEF Agreement
<1> QED
  BY <1>1, <1>2, <1>3 DEF Agrees

(* A handler that ends in `drain`. *)
Drains(s, waits, rds) ==
    /\ LogMoves(s)
    /\ waits \in Slots /\ rds \in SUBSET Read
    /\ Drain(s, sm[s], commit[s], waits, rds)
    /\ Quiet /\ env' = env

LEMMA DrainsTypes ==
    ASSUME KvTypeOK, Agreement, NEW s \in Server, NEW waits, NEW rds, Drains(s, waits, rds)
    PROVE  KvTypeOK' /\ Agreement'
<1>1. /\ LogMoves(s) /\ waits \in Slots /\ rds \in SUBSET Read
      /\ Drain(s, sm[s], commit[s], waits, rds) /\ Quiet /\ env' = env
  BY DEF Drains
<1>2. /\ log' \in [Server -> Seq(LoggedEntry)] /\ commit' \in [Server -> Nat]
      /\ lead' \in [Server -> Nat] /\ newest' \in Nat /\ chosen' \in Seq(LoggedEntry)
      /\ Agreement'
      /\ commit[s] <= commit'[s] /\ commit'[s] <= Len(log'[s])
  BY <1>1, LogMovesTypes DEF KvTypeOK, ServerTypeOK
<1>3. sm[s] \in Machine /\ commit[s] \in Nat /\ replies \subseteq Reply
  BY DEF KvTypeOK, ServerTypeOK, ClientTypeOK
<1>4. /\ sm' \in [Server -> Machine] /\ waiting' \in [Server -> Slots]
      /\ reads' \in [Server -> SUBSET Read] /\ replies' \subseteq Reply
  BY <1>1, <1>2, <1>3, DrainTypes DEF KvTypeOK
<1>5. ServerTypeOK'
  BY <1>1, <1>2, <1>4 DEF Quiet, KvTypeOK, ServerTypeOK
<1>6. ClientTypeOK'
  BY <1>1, <1>4 DEF Quiet, clientVars, clientTimers, KvTypeOK, ClientTypeOK
<1> QED
  BY <1>2, <1>5, <1>6 DEF KvTypeOK

NewRead(s, r) ==
    [client |-> r.client, req |-> r.req, key |-> r.op.key, index |-> commit[s],
     term |-> lead[s], deposed |-> lead[s] < newest, confirmed |-> FALSE]

LEMMA AcceptReadDrains ==
    ASSUME KvTypeOK, NEW s \in Server, NEW r \in requests, AcceptRead(s, r), Quiet, env' = env
    PROVE  /\ UNCHANGED raftVars /\ lead[s] # 0 /\ TermIsCommitted(s) /\ r.op.kind = "Get"
           /\ NewRead(s, r) \in Read
           /\ Drains(s, waiting[s], reads[s] \cup {NewRead(s, r)})
<1>1. /\ UNCHANGED raftVars /\ lead[s] # 0 /\ TermIsCommitted(s) /\ r.op.kind = "Get"
      /\ Drain(s, sm[s], commit[s], waiting[s], reads[s] \cup {NewRead(s, r)})
  BY DEF AcceptRead, ReadsByIndex, NewRead
<1>2. /\ r \in Request /\ commit[s] \in Nat /\ lead[s] \in Nat /\ waiting[s] \in Slots
      /\ reads[s] \in SUBSET Read
  BY DEF KvTypeOK, ClientTypeOK, ServerTypeOK
<1>3. r.client \in Client /\ r.req \in Nat /\ r.op \in Op
  BY <1>2 DEF Request
<1>4. NewRead(s, r) \in Read
  BY <1>2, <1>3 DEF NewRead, Read, Op
<1> QED
  BY <1>1, <1>2, <1>4 DEF Drains, LogMoves

NewSlot(r) == [client |-> r.client, req |-> r.req, seq |-> r.seq]
NewCommand(r) == [client |-> r.client, seq |-> r.seq, op |-> r.op]
AlsoWaits(s, r) ==
    [i \in DOMAIN waiting[s] \cup {Len(log[s]) + 1} |->
        IF i = Len(log[s]) + 1 THEN NewSlot(r) ELSE waiting[s][i]]

LEMMA ProposeDrains ==
    ASSUME KvTypeOK, NEW s \in Server, NEW r \in requests, Propose(s, r), Quiet, env' = env
    PROVE  /\ NewCommand(r) \in LoggedCommand /\ Logs(s, NewCommand(r))
           /\ Drains(s, AlsoWaits(s, r), reads[s])
<1>1. r \in Request /\ waiting[s] \in Slots /\ reads[s] \in SUBSET Read /\ log[s] \in Seq(LoggedEntry)
  BY DEF KvTypeOK, ClientTypeOK, ServerTypeOK
<1>2. NewCommand(r) \in LoggedCommand /\ NewSlot(r) \in Slot
  BY <1>1 DEF Request, NewCommand, LoggedCommand, NewSlot, Slot
<1>3. Logs(s, NewCommand(r))
  BY DEF Propose, Raft!Accept, Logs, NewCommand
<1>4. Drain(s, sm[s], commit[s], AlsoWaits(s, r), reads[s])
  BY DEF Propose, AlsoWaits, NewSlot
<1>5. AlsoWaits(s, r) \in Slots
  <2> DEFINE I == DOMAIN waiting[s] \cup {Len(log[s]) + 1}
             w == [i \in I |-> IF i = Len(log[s]) + 1 THEN NewSlot(r) ELSE waiting[s][i]]
  <2>1. I \in SUBSET Nat /\ \A i \in I : w[i] \in Slot
    BY <1>1, <1>2, SlotsAre
  <2>2. w \in [I -> Slot]
    BY <2>1
  <2> QED
    BY <2>1, <2>2 DEF AlsoWaits, Slots
<1> QED
  BY <1>1, <1>2, <1>3, <1>4, <1>5 DEF Drains, LogMoves

LEMMA ElectedDrains ==
    ASSUME KvTypeOK, NEW s \in Server, Elected(s)
    PROVE  Wins(s) /\ Drains(s, waiting[s], reads[s])
<1>1. newest \in Nat /\ waiting[s] \in Slots /\ reads[s] \in SUBSET Read
  BY DEF KvTypeOK, ServerTypeOK
<1>2. Wins(s)
  <2>1. Raft!Extends(log[s], chosen)
    BY <1>1 DEF Elected, Raft!Elect
  <2>2. Len(chosen) <= Len(log[s]) /\ \A i \in 1..Len(chosen) : log[s][i] = chosen[i]
    BY <2>1, ExtendsAll DEF KvTypeOK, ServerTypeOK
  <2> QED
    BY <1>1, <2>2 DEF Elected, Raft!Elect, Wins
<1> QED
  BY <1>1, <1>2 DEF Drains, LogMoves, Elected, DrainAll, Quiet

LEMMA CommitsDrains ==
    ASSUME KvTypeOK, NEW s \in Server, Commits(s)
    PROVE  (\E k \in Nat : Declares(s, k)) /\ Drains(s, waiting[s], reads[s])
<1>1. waiting[s] \in Slots /\ reads[s] \in SUBSET Read /\ Len(log[s]) \in Nat
  BY DEF KvTypeOK, ServerTypeOK
<1>2. \E k \in Nat : Declares(s, k)
  BY <1>1, ChooseDeclares DEF Commits, KvTypeOK
<1> QED
  BY <1>1, <1>2 DEF Drains, LogMoves, Commits, DrainAll, Quiet

LEMMA FollowsDrains ==
    ASSUME KvTypeOK, NEW s \in Server, NEW p \in Server, Follows(s, p)
    PROVE  /\ \E lg \in Seq(LoggedEntry), k \in Nat : Adopts(s, lg, k) /\ k >= commit[s]
           /\ Drains(s, waiting[s], reads[s])
<1>1. /\ waiting[s] \in Slots /\ reads[s] \in SUBSET Read /\ log[p] \in Seq(LoggedEntry)
      /\ commit[s] \in Nat /\ commit[p] \in Nat /\ Len(log[p]) \in Nat
  BY DEF KvTypeOK, ServerTypeOK
<1>2. PICK n \in 0..Len(log[p]) : \E k \in commit[s]..Min({n, commit[p]}) :
        Raft!Follow(s, SubSeq(log[p], 1, n), k)
  BY DEF Follows
<1> PICK k \in commit[s]..Min({n, commit[p]}) : Raft!Follow(s, SubSeq(log[p], 1, n), k)
  BY <1>2
<1>3. n \in Nat /\ n <= Len(log[p]) /\ k \in Nat
  <2>1. n \in Nat /\ n <= Len(log[p])
    BY <1>1
  <2>2. Min({n, commit[p]}) \in Nat
    BY <1>1, <2>1, MinOfTwo
  <2> QED
    BY <1>1, <2>1, <2>2
<1>4. SubSeq(log[p], 1, n) \in Seq(LoggedEntry) /\ IsPart(SubSeq(log[p], 1, n))
  BY <1>3, PrefixIsPart DEF KvTypeOK
<1>5. Adopts(s, SubSeq(log[p], 1, n), k) /\ k >= commit[s]
  BY <1>2, <1>3, <1>4, FollowAdopts DEF KvTypeOK
<1>6. \E lg \in Seq(LoggedEntry), j \in Nat : Adopts(s, lg, j) /\ j >= commit[s]
  BY <1>3, <1>4, <1>5
<1> QED
  BY <1>1, <1>6 DEF Drains, LogMoves, Follows, DrainAll, Quiet

LEMMA StepsDownDrains ==
    ASSUME KvTypeOK, NEW s \in Server, StepsDown(s)
    PROVE  /\ \E lg \in Seq(LoggedEntry), k \in Nat : Adopts(s, lg, k) /\ k >= commit[s]
           /\ Drains(s, waiting[s], reads[s])
<1>1. /\ waiting[s] \in Slots /\ reads[s] \in SUBSET Read /\ log[s] \in Seq(LoggedEntry)
      /\ commit[s] \in Nat
  BY DEF KvTypeOK, ServerTypeOK
<1>2. IsPart(log[s])
  BY <1>1 DEF IsPart
<1>3. Adopts(s, log[s], commit[s]) /\ commit[s] >= commit[s]
  BY <1>1, <1>2, FollowAdopts DEF StepsDown, KvTypeOK
<1> QED
  BY <1>1, <1>3 DEF Drains, LogMoves, StepsDown, DrainAll, Quiet

LEMMA ReadConfirmedDrains ==
    ASSUME KvTypeOK, NEW s \in Server, ReadConfirmed(s)
    PROVE  /\ UNCHANGED raftVars
           /\ \E r \in reads[s] :
                /\ ~r.deposed
                /\ [r EXCEPT !.confirmed = TRUE] \in Read
                /\ Drains(s, waiting[s], (reads[s] \ {r}) \cup {[r EXCEPT !.confirmed = TRUE]})
<1>1. waiting[s] \in Slots /\ reads[s] \in SUBSET Read
  BY DEF KvTypeOK, ServerTypeOK
<1>2. PICK r \in reads[s] :
        /\ ~r.deposed
        /\ Drain(s, sm[s], commit[s], waiting[s], (reads[s] \ {r}) \cup {[r EXCEPT !.confirmed = TRUE]})
  BY DEF ReadConfirmed
<1>3. [r EXCEPT !.confirmed = TRUE] \in Read
  BY <1>1 DEF Read
<1>4. UNCHANGED raftVars /\ Quiet /\ env' = env
  BY DEF ReadConfirmed, Quiet
<1> QED
  BY <1>1, <1>2, <1>3, <1>4 DEF Drains, LogMoves

(* A reply at once; nothing else changes. *)
Replies(s, r, outcome) ==
    /\ replies' = replies \cup {ReplyTo(r, outcome)}
    /\ UNCHANGED <<raftVars, serverVars>>
    /\ Quiet /\ env' = env

LEMMA RepliesTypes ==
    ASSUME KvTypeOK, Agreement, NEW s \in Server, NEW r \in requests, NEW outcome \in Outcome,
           Replies(s, r, outcome)
    PROVE  KvTypeOK' /\ Agreement'
<1>1. ReplyTo(r, outcome) \in Reply
  BY DEF KvTypeOK, ClientTypeOK, ReplyTo, Reply, Request
<1>2. ClientTypeOK'
  BY <1>1 DEF Replies, Quiet, clientVars, clientTimers, KvTypeOK, ClientTypeOK
<1>3. ServerTypeOK'
  BY DEF Replies, Quiet, raftVars, serverVars, KvTypeOK, ServerTypeOK
<1>4. Agreement'
  BY DEF Replies, raftVars, Agreement, Agrees
<1> QED
  BY <1>2, <1>3, <1>4 DEF KvTypeOK

LEMMA SessionsAnswer ==
    ASSUME KvTypeOK, NEW s \in Server, NEW r \in requests, IsCached(s, r)
    PROVE  sm[s].sessions[r.client].outcome \in Definite
<1>1. r.client \in Client /\ r.seq \in Nat \ {0} /\ sm[s] \in Machine
  BY DEF KvTypeOK, ClientTypeOK, ServerTypeOK, Request
<1>2. sm[s].sessions[r.client] \in Session
  BY <1>1 DEF Machine
<1> QED
  BY <1>1, <1>2 DEF IsCached, Session

Joins(s, r, i) ==
    /\ i \in DOMAIN waiting[s]
    /\ waiting[s][i].client = r.client /\ waiting[s][i].seq = r.seq
    /\ waiting' \in [Server -> Slots] /\ waiting'[s] = [waiting[s] EXCEPT ![i] = NewSlot(r)]
    /\ \A p \in Server \ {s} : waiting'[p] = waiting[p]
    /\ UNCHANGED <<raftVars, sm, reads, replies>>
    /\ Quiet /\ env' = env

LEMMA JoinWaitingJoins ==
    ASSUME KvTypeOK, Agreement, NEW s \in Server, NEW r \in requests, JoinWaiting(s, r),
           Quiet, env' = env
    PROVE  \E i \in DOMAIN waiting[s] : Joins(s, r, i)
<1>1. PICK i \in DOMAIN waiting[s] :
         /\ waiting[s][i].client = r.client /\ waiting[s][i].seq = r.seq
         /\ waiting' = [waiting EXCEPT ![s][i].req = r.req]
  BY DEF JoinWaiting
<1>2. /\ UNCHANGED <<raftVars, sm, reads, replies>>
  BY DEF JoinWaiting
<1>3. waiting[s] \in Slots /\ r \in Request /\ waiting \in [Server -> Slots]
  BY DEF KvTypeOK, ClientTypeOK, ServerTypeOK
<1>4. /\ waiting[s][i] \in Slot /\ DOMAIN waiting[s] \subseteq Nat
      /\ waiting[s] = [j \in DOMAIN waiting[s] |-> waiting[s][j]]
      /\ \A j \in DOMAIN waiting[s] : waiting[s][j] \in Slot
  BY <1>3, SlotsAre
<1>5. [waiting[s][i] EXCEPT !.req = r.req] = NewSlot(r) /\ NewSlot(r) \in Slot
  BY <1>1, <1>3, <1>4 DEF Slot, NewSlot, Request
<1> DEFINE w == [waiting[s] EXCEPT ![i] = NewSlot(r)]
<1>6. waiting' = [waiting EXCEPT ![s] = w]
  BY <1>1, <1>5
<1>7. w \in [DOMAIN waiting[s] -> Slot]
  BY <1>4, <1>5
<1>8. w \in Slots
  BY <1>4, <1>7 DEF Slots
<1>9. waiting' \in [Server -> Slots] /\ waiting'[s] = w /\ \A p \in Server \ {s} : waiting'[p] = waiting[p]
  <2> HIDE DEF w
  <2> QED
    BY <1>3, <1>6, <1>8
<1>10. Joins(s, r, i)
  BY <1>1, <1>2, <1>9 DEF Joins
<1> QED
  BY <1>10

LEMMA JoinsTypes ==
    ASSUME KvTypeOK, Agreement, NEW s \in Server, NEW r \in requests, NEW i, Joins(s, r, i)
    PROVE  KvTypeOK' /\ Agreement'
<1>1. UNCHANGED <<raftVars, sm, reads, replies>> /\ Quiet /\ env' = env /\ waiting' \in [Server -> Slots]
  BY DEF Joins
<1>2. ClientTypeOK'
  BY <1>1 DEF Quiet, clientVars, clientTimers, KvTypeOK, ClientTypeOK
<1>3. ServerTypeOK'
  BY <1>1 DEF Quiet, raftVars, KvTypeOK, ServerTypeOK
<1>4. Agreement'
  BY <1>1 DEF raftVars, Agreement, Agrees
<1> QED
  BY <1>2, <1>3, <1>4 DEF KvTypeOK

LEMMA NewMachineIsOne == NewMachine \in Machine
<1>1. EmptyMap \in [Key -> Value]
  BY DEF EmptyMap, Value
<1>2. [c \in Client |-> [seq |-> 0, outcome |-> None]] \in [Client -> Session]
  BY DEF Session
<1> QED
  BY <1>1, <1>2 DEF NewMachine, Machine

LEMMA ImagesAreMachines ==
    ASSUME ServerTypeOK, NEW j \in Nat, j <= Len(chosen)
    PROVE  ImageAt(j) \in Machine
<1>1. SubSeq(chosen, 1, j) \in Seq(LoggedEntry)
  BY Prefix DEF ServerTypeOK
<1> QED
  BY <1>1, NewMachineIsOne, ReplayIsAMachine DEF ImageAt

(* A server that starts over from an image of the first j entries, k of    *)
(* which it counts as applied; whoever waited may be told so.              *)
Resets(s, lg, k, j) ==
    /\ lg \in Seq(LoggedEntry) /\ k \in Nat /\ Adopts(s, lg, k)
    /\ j \in k..(k + MaxAhead) /\ j <= Len(chosen)
    /\ sm' = [sm EXCEPT ![s] = ImageAt(j)]
    /\ waiting' = [waiting EXCEPT ![s] = <<>>]
    /\ reads' = [reads EXCEPT ![s] = {}]
    /\ replies \subseteq replies'
    /\ \A m \in replies' \ replies :
         /\ m = [client |-> m.client, req |-> m.req, outcome |-> m.outcome]
         /\ IsRelease(m, waiting[s], reads[s])
    /\ Quiet
    /\ env' \in Scenario /\ env'.maxAhead = env.maxAhead /\ env'.opKinds = env.opKinds

LEMMA EmptySlots == <<>> \in Slots /\ DOMAIN <<>> = {}
<1>1. <<>> \in [{} -> Slot] /\ DOMAIN <<>> = {}
  OBVIOUS
<1> QED
  BY <1>1 DEF Slots

LEMMA ResetsTypes ==
    ASSUME KvTypeOK, Agreement, NEW s \in Server, NEW lg, NEW k, NEW j, Resets(s, lg, k, j)
    PROVE  KvTypeOK' /\ Agreement'
<1>1. k \in Nat /\ env.maxAhead \in Nat
  BY DEF Resets, KvTypeOK, ClientTypeOK, Scenario
<1>2. j \in Nat /\ j <= Len(chosen)
  BY <1>1 DEF Resets, MaxAhead
<1>3. ImageAt(j) \in Machine
  BY <1>2, ImagesAreMachines DEF KvTypeOK
<1>4. /\ sm' \in [Server -> Machine] /\ waiting' \in [Server -> Slots]
      /\ reads' \in [Server -> SUBSET Read]
  BY <1>3, EmptySlots DEF Resets, KvTypeOK, ServerTypeOK
<1>5. ASSUME NEW m \in replies' \ replies PROVE m \in Reply
  <2>1. waiting[s] \in Slots /\ reads[s] \in SUBSET Read
    BY DEF KvTypeOK, ServerTypeOK
  <2>2. /\ m = [client |-> m.client, req |-> m.req, outcome |-> m.outcome]
        /\ IsRelease(m, waiting[s], reads[s])
    BY DEF Resets
  <2>3. m.client \in Client /\ m.req \in Nat /\ m.outcome \in Outcome
    BY <2>1, <2>2, SlotsAre DEF IsRelease, Slot, Read, Outcome
  <2> QED
    BY <2>2, <2>3 DEF Reply
<1>6. replies' \subseteq Reply
  BY <1>5 DEF KvTypeOK, ClientTypeOK
<1>7. ClientTypeOK'
  BY <1>6 DEF Resets, Quiet, clientVars, clientTimers, KvTypeOK, ClientTypeOK
<1>8. ServerTypeOK' /\ Agreement'
  BY <1>4, AdoptsTypes DEF Resets, Quiet, KvTypeOK, ServerTypeOK
<1> QED
  BY <1>7, <1>8 DEF KvTypeOK

LEMMA SpentIsAScenario ==
    ASSUME NEW e \in Scenario
    PROVE  /\ [e EXCEPT !.installs = @ + 1] \in Scenario
           /\ [e EXCEPT !.installs = @ + 1].maxAhead = e.maxAhead
           /\ [e EXCEPT !.installs = @ + 1].opKinds = e.opKinds
           /\ [e EXCEPT !.crashes = @ + 1] \in Scenario
           /\ [e EXCEPT !.crashes = @ + 1].maxAhead = e.maxAhead
           /\ [e EXCEPT !.crashes = @ + 1].opKinds = e.opKinds
<1>1. e.installs + 1 \in Nat /\ e.crashes + 1 \in Nat
  BY DEF Scenario
<1>2. [e EXCEPT !.installs = @ + 1] \in Scenario
  BY <1>1 DEF Scenario
<1>3. [e EXCEPT !.crashes = @ + 1] \in Scenario
  BY <1>1 DEF Scenario
<1>4. [e EXCEPT !.installs = @ + 1].maxAhead = e.maxAhead /\ [e EXCEPT !.installs = @ + 1].opKinds = e.opKinds
  BY DEF Scenario
<1>5. [e EXCEPT !.crashes = @ + 1].maxAhead = e.maxAhead /\ [e EXCEPT !.crashes = @ + 1].opKinds = e.opKinds
  BY DEF Scenario
<1> QED
  BY <1>2, <1>3, <1>4, <1>5

LEMMA InstallSnapshotResets ==
    ASSUME KvTypeOK, NEW s \in Server, NEW k \in 1..Len(chosen), NEW j \in 1..Len(chosen),
           InstallSnapshot(s, k, j)
    PROVE  \E lg : Resets(s, lg, k, j)
<1> DEFINE prefix == SubSeq(chosen, 1, k)
           lg == IF Raft!Extends(log[s], prefix) THEN log[s] ELSE prefix
<1>1. /\ k \in Nat /\ k <= Len(chosen) /\ j <= Len(chosen) /\ log[s] \in Seq(LoggedEntry)
      /\ Len(log[s]) \in Nat
  BY DEF KvTypeOK, ServerTypeOK
<1>2. prefix \in Seq(LoggedEntry) /\ IsPart(prefix)
  BY <1>1, PrefixIsPart DEF KvTypeOK
<1>3. IsPart(log[s])
  BY <1>1 DEF IsPart
<1>4. Raft!Follow(s, lg, k)
  BY DEF InstallSnapshot
<1>5. lg \in Seq(LoggedEntry) /\ IsPart(lg)
  BY <1>1, <1>2, <1>3
<1> HIDE DEF lg, prefix
<1>6. Adopts(s, lg, k)
  BY <1>1, <1>4, <1>5, FollowAdopts DEF KvTypeOK
<1>7. env' \in Scenario /\ env'.maxAhead = env.maxAhead /\ env'.opKinds = env.opKinds
  <2>1. env' = [env EXCEPT !.installs = @ + 1] /\ env \in Scenario
    BY DEF InstallSnapshot, KvTypeOK, ClientTypeOK
  <2> QED
    BY <2>1, SpentIsAScenario
<1>8. /\ replies' = replies \cup
           {ReplyTo(waiting[s][i], Dropped) : i \in DOMAIN waiting[s]} \cup
           {ReplyTo(r, Dropped) : r \in reads[s]}
      /\ sm' = [sm EXCEPT ![s] = ImageAt(j)]
      /\ waiting' = [waiting EXCEPT ![s] = <<>>]
      /\ reads' = [reads EXCEPT ![s] = {}]
      /\ j \in k..(k + MaxAhead) /\ Quiet
  BY DEF InstallSnapshot, Quiet
<1>9. ASSUME NEW m \in replies' \ replies
      PROVE  /\ m = [client |-> m.client, req |-> m.req, outcome |-> m.outcome]
             /\ IsRelease(m, waiting[s], reads[s])
  BY <1>8 DEF ReplyTo, IsRelease
<1>10. Resets(s, lg, k, j)
  BY <1>1, <1>5, <1>6, <1>7, <1>8, <1>9 DEF Resets
<1> QED
  BY <1>10

LEMMA CrashAndRecoverResets ==
    ASSUME KvTypeOK, Agreement, NEW s \in Server, CrashAndRecover(s)
    PROVE  replies' = replies /\ \E lg, k, j : Resets(s, lg, k, j)
<1>1. /\ commit[s] \in Nat /\ log[s] \in Seq(LoggedEntry) /\ Len(log[s]) \in Nat
      /\ commit[s] <= Len(log[s]) /\ commit[s] <= Len(chosen) /\ Len(chosen) \in Nat
      /\ env.maxAhead \in Nat
  BY DEF KvTypeOK, ServerTypeOK, ClientTypeOK, Scenario, Agreement, Agrees
<1>2. PICK k \in 0..commit[s] : \E n \in {Max({k, commit[s]}), Len(log[s])}, j \in OnDisk(k) :
         /\ Raft!Crash(s, SubSeq(log[s], 1, n), k)
         /\ sm' = [sm EXCEPT ![s] = RecoveredMachine(s, j)]
  <2> DEFINE K == IF MaxInstalls = 0 THEN {0} ELSE 0..commit[s]
  <2>1. PICK k \in K : \E n \in {Max({k, commit[s]}), Len(log[s])}, j \in OnDisk(k) :
         /\ Raft!Crash(s, SubSeq(log[s], 1, n), k)
         /\ sm' = [sm EXCEPT ![s] = RecoveredMachine(s, j)]
    BY DEF CrashAndRecover
  <2>2. k \in 0..commit[s]
    BY <1>1
  <2> QED
    BY <2>1, <2>2
<1>3. PICK n \in {Max({k, commit[s]}), Len(log[s])}, j \in OnDisk(k) :
         /\ Raft!Crash(s, SubSeq(log[s], 1, n), k)
         /\ sm' = [sm EXCEPT ![s] = RecoveredMachine(s, j)]
  BY <1>2
<1>4. /\ k \in Nat /\ n \in Nat /\ n <= Len(log[s]) /\ k <= Len(chosen)
      /\ j \in k..(k + MaxAhead) /\ j <= Len(chosen)
  <2>1. k \in Nat /\ k <= commit[s]
    BY <1>1
  <2>2. Max({k, commit[s]}) = commit[s]
    BY <1>1, <2>1, MaxOfTwo
  <2> QED
    BY <1>1, <2>1, <2>2 DEF MaxAhead, OnDisk
<1>5. SubSeq(log[s], 1, n) \in Seq(LoggedEntry) /\ IsPart(SubSeq(log[s], 1, n))
  BY <1>4, PrefixIsPart DEF KvTypeOK
<1>6. Adopts(s, SubSeq(log[s], 1, n), k)
  BY <1>3, <1>4, <1>5, CrashAdopts DEF KvTypeOK
<1>7. env' \in Scenario /\ env'.maxAhead = env.maxAhead /\ env'.opKinds = env.opKinds
  <2>1. env' = [env EXCEPT !.crashes = @ + 1] /\ env \in Scenario
    BY DEF CrashAndRecover, KvTypeOK, ClientTypeOK
  <2> QED
    BY <2>1, SpentIsAScenario
<1>8. /\ replies' = replies /\ sm' = [sm EXCEPT ![s] = ImageAt(j)]
      /\ waiting' = [waiting EXCEPT ![s] = <<>>]
      /\ reads' = [reads EXCEPT ![s] = {}] /\ Quiet
  BY <1>3 DEF CrashAndRecover, RecoveredMachine, Quiet
<1>9. Resets(s, SubSeq(log[s], 1, n), k, j)
  BY <1>4, <1>5, <1>6, <1>7, <1>8 DEF Resets
<1> QED
  BY <1>8, <1>9

-----------------------------------------------------------------------------
(* The steps of Kv, by what they do to a server. *)

AnswersAtOnce(s, r) ==
    \/ Replies(s, r, NotLeader)
    \/ IsCached(s, r) /\ Replies(s, r, sm[s].sessions[r.client].outcome)
Reading(s, r) ==
    /\ UNCHANGED raftVars /\ lead[s] # 0 /\ TermIsCommitted(s) /\ r.op.kind = "Get"
    /\ NewRead(s, r) \in Read
    /\ Drains(s, waiting[s], reads[s] \cup {NewRead(s, r)})
Proposing(s, r) ==
    /\ NewCommand(r) \in LoggedCommand /\ Logs(s, NewCommand(r))
    /\ Drains(s, AlsoWaits(s, r), reads[s])
Confirming(s, r) ==
    /\ UNCHANGED raftVars /\ ~r.deposed
    /\ [r EXCEPT !.confirmed = TRUE] \in Read
    /\ Drains(s, waiting[s], (reads[s] \ {r}) \cup {[r EXCEPT !.confirmed = TRUE]})
LogMoving(s) ==
    /\ \/ Wins(s)
       \/ \E k \in Nat : Declares(s, k)
       \/ \E lg \in Seq(LoggedEntry), k \in Nat : Adopts(s, lg, k) /\ k >= commit[s]
    /\ Drains(s, waiting[s], reads[s])

ServerMoves(s) ==
    \/ \E r \in requests :
         \/ AnswersAtOnce(s, r) \/ Reading(s, r) \/ Proposing(s, r)
         \/ \E i \in DOMAIN waiting[s] : Joins(s, r, i)
    \/ \E r \in reads[s] : Confirming(s, r)
    \/ LogMoving(s)
    \/ \E lg, k, j : Resets(s, lg, k, j)

LEMMA OnRequestMoves ==
    ASSUME KvTypeOK, Agreement, NEW s \in Server, NEW r \in requests, OnRequest(s, r)
    PROVE  ServerMoves(s)
<1>1. Quiet /\ env' = env
  BY DEF OnRequest, Quiet
<1>2. CASE Redirect(s, r)
  <2>1. Replies(s, r, NotLeader)
    BY <1>1, <1>2 DEF Redirect, Respond, Replies
  <2> QED
    BY <2>1 DEF ServerMoves, AnswersAtOnce
<1>3. CASE AnswerFromSession(s, r)
  <2>1. IsCached(s, r) /\ Replies(s, r, sm[s].sessions[r.client].outcome)
    BY <1>1, <1>3 DEF AnswerFromSession, Respond, Replies
  <2> QED
    BY <2>1 DEF ServerMoves, AnswersAtOnce
<1>4. CASE AcceptRead(s, r)
  BY <1>1, <1>4, AcceptReadDrains DEF ServerMoves, Reading
<1>5. CASE JoinWaiting(s, r)
  BY <1>1, <1>5, JoinWaitingJoins DEF ServerMoves
<1>6. CASE Propose(s, r)
  BY <1>1, <1>6, ProposeDrains DEF ServerMoves, Proposing
<1> QED
  BY <1>2, <1>3, <1>4, <1>5, <1>6 DEF OnRequest

LEMMA StepMoves ==
    ASSUME KvTypeOK, Agreement, Next
    PROVE  (\E c \in Client : ClientActs(c)) \/ (\E s \in Server : ServerMoves(s))
<1>1. ASSUME NEW s \in Server, Elected(s) \/ Commits(s) \/ StepsDown(s) \/ \E p \in Server : Follows(s, p)
      PROVE  ServerMoves(s)
  <2>1. LogMoving(s)
    BY <1>1, ElectedDrains, CommitsDrains, StepsDownDrains, FollowsDrains DEF LogMoving
  <2> QED
    BY <2>1 DEF ServerMoves
<1>2. ASSUME NEW s \in Server, ReadConfirmed(s) PROVE ServerMoves(s)
  BY <1>2, ReadConfirmedDrains DEF ServerMoves, Confirming
<1>3. ASSUME NEW s \in Server, CrashAndRecover(s) PROVE ServerMoves(s)
  BY <1>3, CrashAndRecoverResets DEF ServerMoves
<1>4. ASSUME NEW s \in Server, NEW k \in 1..Len(chosen), NEW j \in 1..Len(chosen), InstallSnapshot(s, k, j)
      PROVE  ServerMoves(s)
  BY <1>4, InstallSnapshotResets DEF ServerMoves
<1> QED
  BY <1>1, <1>2, <1>3, <1>4, OnRequestMoves DEF Next

(* What any of them leaves alone. *)
LEMMA ServerMovesTypes ==
    ASSUME KvTypeOK, Agreement, NEW s \in Server, ServerMoves(s)
    PROVE  KvTypeOK' /\ Agreement' /\ Quiet /\ replies \subseteq replies'
<1>1. ASSUME NEW r \in requests, AnswersAtOnce(s, r)
      PROVE  KvTypeOK' /\ Agreement' /\ Quiet /\ replies \subseteq replies'
  <2>1. PICK outcome \in Outcome : Replies(s, r, outcome)
    <3>1. NotLeader \in Outcome
      BY DEF Outcome
    <3>2. ASSUME IsCached(s, r) PROVE sm[s].sessions[r.client].outcome \in Outcome
      BY <3>2, SessionsAnswer DEF Definite
    <3> QED
      BY <1>1, <3>1, <3>2 DEF AnswersAtOnce
  <2>2. KvTypeOK' /\ Agreement'
    BY <2>1, RepliesTypes
  <2> QED
    BY <2>1, <2>2 DEF Replies
<1>2. ASSUME NEW waits, NEW rds, Drains(s, waits, rds)
      PROVE  KvTypeOK' /\ Agreement' /\ Quiet /\ replies \subseteq replies'
  <2>1. KvTypeOK' /\ Agreement'
    BY <1>2, DrainsTypes
  <2>2. replies \subseteq replies'
    BY <1>2, DrainReplies DEF Drains, KvTypeOK
  <2> QED
    BY <1>2, <2>1, <2>2 DEF Drains
<1>3. ASSUME NEW r \in requests, NEW i \in DOMAIN waiting[s], Joins(s, r, i)
      PROVE  KvTypeOK' /\ Agreement' /\ Quiet /\ replies \subseteq replies'
  BY <1>3, JoinsTypes DEF Joins
<1>4. ASSUME NEW lg, NEW k, NEW j, Resets(s, lg, k, j)
      PROVE  KvTypeOK' /\ Agreement' /\ Quiet /\ replies \subseteq replies'
  BY <1>4, ResetsTypes DEF Resets
<1> QED
  BY <1>1, <1>2, <1>3, <1>4 DEF ServerMoves, Reading, Proposing, Confirming, LogMoving

LEMMA EffectsAreSome ==
    ASSUME ServerTypeOK
    PROVE  Effects \in Seq(LoggedCommand) /\ Len(Effects) \in Nat
<1>1. EffectsOf(chosen) \in Tally
  BY EffectsAreATally DEF ServerTypeOK
<1> QED
  BY <1>1 DEF Tally, Effects

LEMMA ClientActsTypes ==
    ASSUME KvTypeOK, Agreement, NEW c \in Client, ClientActs(c)
    PROVE  /\ KvTypeOK' /\ Agreement' /\ ClientMoves(c)
           /\ UNCHANGED <<raftVars, serverVars, env>>
<1>1. ClientStep(c) /\ env' = env /\ UNCHANGED <<raftVars, serverVars, env>>
  BY DEF ClientActs
<1>2. ClientTypeOK' /\ ClientMoves(c)
  BY <1>1, ClientStepMoves DEF KvTypeOK
<1>3. began' \in [Client -> Nat]
  <2>1. Len(Effects) \in Nat
    BY EffectsAreSome DEF KvTypeOK
  <2> QED
    BY <2>1 DEF ClientActs, KvTypeOK, ServerTypeOK
<1>4. ServerTypeOK'
  BY <1>1, <1>3 DEF KvTypeOK, ServerTypeOK, raftVars, serverVars
<1>5. Agreement'
  BY <1>1 DEF raftVars, Agreement, Agrees
<1> QED
  BY <1>1, <1>2, <1>4, <1>5 DEF KvTypeOK

LEMMA InitTypes == Init => KvTypeOK /\ Agreement
<1> SUFFICES ASSUME Init PROVE KvTypeOK /\ Agreement
  OBVIOUS
<1>1. env \in Scenario
  BY KvAssumption DEF Init, ClientInit, Scenario
<1>2. EmptyMap \in [Key -> Value]
  BY DEF EmptyMap, Value
<1>3. ClientTypeOK
  BY <1>1, <1>2 DEF Init, ClientInit, ClientTypeOK
<1>4. ServerTypeOK
  <2>1. waiting \in [Server -> Slots] /\ sm \in [Server -> Machine]
    BY EmptySlots, NewMachineIsOne DEF Init
  <2>2. log \in [Server -> Seq(LoggedEntry)] /\ chosen \in Seq(LoggedEntry)
    BY DEF Init
  <2> QED
    BY <2>1, <2>2 DEF Init, ServerTypeOK
<1>5. Agreement
  BY DEF Init, Agreement, Agrees
<1> QED
  BY <1>3, <1>4, <1>5 DEF KvTypeOK

LEMMA StutterTypes ==
    ASSUME KvTypeOK, Agreement, UNCHANGED vars
    PROVE  KvTypeOK' /\ Agreement'
<1>1. ClientTypeOK'
  BY DEF KvTypeOK, ClientTypeOK, vars, clientVars, clientTimers
<1>2. ServerTypeOK' /\ Agreement'
  BY DEF KvTypeOK, ServerTypeOK, Agreement, Agrees, vars, raftVars, serverVars
<1> QED
  BY <1>1, <1>2 DEF KvTypeOK

(* Every variable of the clients and the servers keeps its type, and what  *)
(* a server has applied is a prefix of the one sequence of chosen entries. *)
THEOREM KvTypesKept == Spec => [](KvTypeOK /\ Agreement)
<1>1. KvTypeOK /\ Agreement /\ [Next]_vars => (KvTypeOK /\ Agreement)'
  BY StepMoves, ServerMovesTypes, ClientActsTypes, StutterTypes
<1> QED
  BY <1>1, InitTypes, PTL DEF Spec

-----------------------------------------------------------------------------
(* The clients. *)

(* NeverStuck, for every configuration of the workload: whatever replies   *)
(* come, late, repeated or never, `retry`, `attempt` and `think` leave the *)
(* client a timer that will move it on.                                    *)
THEOREM ClientsAreNeverStuck == Spec => []NeverStuck
<1>1. NeverStuck <=> \A c \in Client : OnItsWay(c)
  BY DEF NeverStuck, OnItsWay
<1>2. Init => NeverStuck
  <2> SUFFICES ASSUME Init, NEW c \in Client PROVE OnItsWay(c)
    BY <1>1
  <2> QED
    BY DEF Init, ClientInit, OnItsWay
<1>3. ASSUME KvTypeOK, Agreement, NeverStuck, [Next]_vars PROVE NeverStuck'
  <2>1. CASE clientVars' = clientVars
    BY <1>3, <2>1 DEF NeverStuck, clientVars, clientTimers
  <2>2. ASSUME NEW c \in Client, ClientActs(c) PROVE NeverStuck'
    <3>1. ClientStep(c) /\ env' = env /\ OnItsWay(c)
      BY <2>2, <1>1, <1>3 DEF ClientActs
    <3>2. /\ OnItsWay(c)'
          /\ \A d \in Client \ {c} :
               /\ backingOff'[d] = backingOff[d] /\ retryTimers'[d] = retryTimers[d]
               /\ reqTimer'[d] = reqTimer[d] /\ thinkTimers'[d] = thinkTimers[d]
               /\ stopped'[d] = stopped[d] /\ inflight'[d] = inflight[d]
      BY <3>1, <1>3, MovesOn DEF KvTypeOK
    <3>3. \A d \in Client \ {c} : OnItsWay(d)'
      BY <3>2, <1>1, <1>3 DEF OnItsWay
    <3>4. \A d \in Client : OnItsWay(d)'
      BY <3>2, <3>3
    <3> QED
      BY <3>4 DEF NeverStuck, OnItsWay
  <2>3. ASSUME NEW s \in Server, ServerMoves(s) PROVE NeverStuck'
    <3>1. clientVars' = clientVars
      BY <1>3, <2>3, ServerMovesTypes DEF Quiet
    <3> QED
      BY <3>1, <2>1
  <2>4. CASE UNCHANGED vars
    BY <2>1, <2>4 DEF vars
  <2> QED
    BY <1>3, <2>2, <2>3, <2>4, StepMoves
<1> QED
  BY <1>2, <1>3, KvTypesKept, PTL DEF Spec

(* What a client waits for, it has asked. *)
Asked == \A c \in Client : inflight[c] # None =>
    \E r \in requests : r.client = c /\ r.req = inflight[c].req /\ r.seq = inflight[c].seq

(* AnswersAreToTheirQuestion, for every configuration of the workload: an  *)
(* answer is taken from a reply to one of the operation's own attempts     *)
(* (`on_bytes` compares the request id, and `attempt` takes a new one).    *)
THEOREM AnswersMatchQuestions == Spec => []AnswersAreToTheirQuestion
<1> DEFINE IInv == Asked /\ AnswersAreToTheirQuestion
<1>1. Init => IInv
  BY DEF Init, ClientInit, Asked, AnswersAreToTheirQuestion
<1>2. ASSUME KvTypeOK, Agreement, IInv, [Next]_vars PROVE IInv'
  <2>1. CASE UNCHANGED <<clientVars, requests>>
    BY <1>2, <2>1 DEF Asked, AnswersAreToTheirQuestion, clientVars
  <2>2. ASSUME NEW c \in Client, ClientActs(c) PROVE IInv'
    <3>1. ClientMoves(c) /\ KvTypeOK'
      BY <1>2, <2>2, ClientActsTypes
    <3>2. answer \in [Client -> Answer \cup {None}] /\ inflight \in [Client -> Pending \cup {None}]
      BY <1>2 DEF KvTypeOK, ClientTypeOK
    <3>3. requests \subseteq requests'
      <4>1. ASSUME Sends(c) PROVE requests \subseteq requests'
        BY <4>1 DEF Sends
      <4>2. ASSUME Rests(c) PROVE requests \subseteq requests'
        BY <4>2 DEF Rests
      <4> QED
        BY <3>1, <4>1, <4>2 DEF ClientMoves, Begins, Retries, Idles, GivesUp, Finishes
    <3>4. inflight'[c] # None =>
            \E r \in requests' : r.client = c /\ r.req = inflight'[c].req /\ r.seq = inflight'[c].seq
      <4>1. ASSUME Sends(c)
            PROVE \E r \in requests' : r.client = c /\ r.req = inflight'[c].req /\ r.seq = inflight'[c].seq
        <5>1. PICK s \in Server : requests' = requests \cup
                {[client |-> c, to |-> s, req |-> nextReq'[c],
                  seq |-> inflight'[c].seq, op |-> inflight'[c].op]}
          BY <4>1 DEF Sends
        <5> DEFINE r == [client |-> c, to |-> s, req |-> nextReq'[c],
                         seq |-> inflight'[c].seq, op |-> inflight'[c].op]
        <5>2. r \in requests' /\ r.client = c /\ r.req = inflight'[c].req /\ r.seq = inflight'[c].seq
          BY <4>1, <5>1 DEF Sends
        <5> QED
          BY <5>2
      <4>2. CASE Idles(c)
        BY <4>2, <1>2 DEF Idles, Rests, Asked
      <4> QED
        BY <3>1, <4>1, <4>2 DEF ClientMoves, Begins, Retries, GivesUp, Finishes
    <3>5. Asked'
      BY <3>1, <3>3, <3>4, <1>2 DEF ClientMoves, Asked
    <3>6. ASSUME Finishes(c) PROVE AnswersAreToTheirQuestion'
      <4>1. PICK m \in replies : m.req = inflight[c].req /\ answer' = [answer EXCEPT ![c] =
                          [seq |-> inflight[c].seq, req |-> m.req, outcome |-> m.outcome]]
        BY <3>6 DEF Finishes
      <4>2. inflight[c] # None
        BY <3>6, NoneIsNone DEF Finishes
      <4>3. PICK r \in requests : r.client = c /\ r.req = inflight[c].req /\ r.seq = inflight[c].seq
        BY <1>2, <4>2 DEF Asked
      <4> QED
        BY <1>2, <3>2, <3>3, <4>1, <4>3 DEF AnswersAreToTheirQuestion
    <3>7. ASSUME answer' = answer PROVE AnswersAreToTheirQuestion'
      BY <1>2, <3>3, <3>7 DEF AnswersAreToTheirQuestion
    <3> QED
      BY <3>1, <3>5, <3>6, <3>7 DEF ClientMoves, Begins, Retries, Sends, Idles, GivesUp
  <2>3. ASSUME NEW s \in Server, ServerMoves(s) PROVE IInv'
    <3>1. UNCHANGED <<clientVars, requests>>
      BY <1>2, <2>3, ServerMovesTypes DEF Quiet
    <3> QED
      BY <3>1, <2>1
  <2>4. CASE UNCHANGED vars
    BY <2>1, <2>4 DEF vars
  <2> QED
    BY <1>2, <2>2, <2>3, <2>4, StepMoves
<1>3. IInv => AnswersAreToTheirQuestion
  OBVIOUS
<1> QED
  BY <1>1, <1>2, <1>3, KvTypesKept, PTL DEF Spec

-----------------------------------------------------------------------------
(* The requests that wait. *)

(* A step of s changes no other server, and while s leads its log grows.   *)
LEMMA LogKeeps ==
    ASSUME ServerTypeOK, NEW s \in Server, LogMoves(s)
    PROVE  /\ \A p \in Server \ {s} : log'[p] = log[p] /\ commit'[p] = commit[p] /\ lead'[p] = lead[p]
           /\ lead'[s] # 0 =>
                /\ Len(log[s]) <= Len(log'[s])
                /\ \A i \in 1..Len(log[s]) : log'[s][i] = log[s][i]
<1> DEFINE P == /\ \A p \in Server \ {s} : log'[p] = log[p] /\ commit'[p] = commit[p] /\ lead'[p] = lead[p]
                /\ lead'[s] # 0 =>
                     /\ Len(log[s]) <= Len(log'[s])
                     /\ \A i \in 1..Len(log[s]) : log'[s][i] = log[s][i]
<1>0. /\ log \in [Server -> Seq(LoggedEntry)] /\ commit \in [Server -> Nat] /\ lead \in [Server -> Nat]
      /\ log[s] \in Seq(LoggedEntry) /\ Len(log[s]) \in Nat
  BY DEF ServerTypeOK
<1>1. ASSUME NEW e, log' = [log EXCEPT ![s] = Append(@, e)]
      PROVE  /\ \A p \in Server \ {s} : log'[p] = log[p]
             /\ Len(log[s]) <= Len(log'[s])
             /\ \A i \in 1..Len(log[s]) : log'[s][i] = log[s][i]
  <2>1. log'[s] = Append(log[s], e)
    BY <1>0, <1>1
  <2> QED
    BY <1>0, <1>1, <2>1
<1>2. CASE UNCHANGED raftVars
  BY <1>0, <1>2 DEF raftVars
<1>3. CASE Wins(s)
  BY <1>0, <1>1, <1>3 DEF Wins
<1>4. CASE \E cmd \in LoggedCommand : Logs(s, cmd)
  BY <1>0, <1>1, <1>4 DEF Logs
<1>5. CASE \E k \in Nat : Declares(s, k)
  BY <1>0, <1>5 DEF Declares
<1>6. CASE \E lg \in Seq(LoggedEntry), k \in Nat : Adopts(s, lg, k) /\ k >= commit[s]
  BY <1>0, <1>6 DEF Adopts
<1> QED
  BY <1>2, <1>3, <1>4, <1>5, <1>6 DEF LogMoves

WaitsFor(s, w, i) ==
    /\ lead[s] # 0 /\ i > commit[s] /\ i \in DOMAIN log[s]
    /\ IsOwn(w, log[s][i].cmd)

LEMMA DrainsKeepOwn ==
    ASSUME KvTypeOK, Agreement, WaitingIsOwn, NEW s \in Server, NEW waits, NEW rds,
           Drains(s, waits, rds),
           \A i \in DOMAIN waits : lead'[s] # 0 =>
              i \in DOMAIN log'[s] /\ IsOwn(waits[i], log'[s][i].cmd)
    PROVE  WaitingIsOwn'
<1>1. /\ waiting' = [waiting EXCEPT ![s] = StillWaits(s, waits)] /\ waiting \in [Server -> Slots]
      /\ KvTypeOK'
  <2>1. KvTypeOK'
    BY DrainsTypes
  <2>2. waiting' = [waiting EXCEPT ![s] = StillWaits(s, waits)]
    BY DrainSets DEF Drains
  <2> QED
    BY <2>1, <2>2 DEF KvTypeOK, ServerTypeOK
<1>2. \A p \in Server \ {s} : log'[p] = log[p] /\ commit'[p] = commit[p] /\ lead'[p] = lead[p]
  BY LogKeeps DEF Drains, KvTypeOK
<1>3. ASSUME NEW i \in DOMAIN waiting'[s] PROVE WaitsFor(s, waiting[s][i], i)'
  <2>1. waiting'[s] = StillWaits(s, waits)
    BY <1>1
  <2>2. i \in DOMAIN waits /\ ~IsOver(s, i) /\ waiting'[s][i] = waits[i]
    BY <2>1, <1>3 DEF StillWaits
  <2>3. i \in Nat /\ commit'[s] \in Nat
    BY <1>1, <2>2, SlotsAre DEF Drains, KvTypeOK, ServerTypeOK
  <2>4. lead'[s] # 0 /\ i > commit'[s]
    BY <2>2, <2>3 DEF IsOver
  <2> QED
    BY <2>2, <2>4 DEF WaitsFor
<1>4. ASSUME NEW p \in Server \ {s}, NEW i \in DOMAIN waiting'[p] PROVE WaitsFor(p, waiting[p][i], i)'
  <2>1. waiting'[p] = waiting[p]
    BY <1>1
  <2>2. WaitsFor(p, waiting[p][i], i)
    BY <2>1, <1>4 DEF WaitingIsOwn, WaitsFor
  <2> QED
    BY <1>2, <2>1, <2>2 DEF WaitsFor
<1>5. \A p \in Server : \A i \in DOMAIN waiting'[p] : WaitsFor(p, waiting[p][i], i)'
  BY <1>3, <1>4
<1> QED
  BY <1>5 DEF WaitingIsOwn, WaitsFor

LEMMA StillOwn ==
    ASSUME KvTypeOK, Agreement, WaitingIsOwn, NEW s \in Server, LogMoves(s),
           NEW i \in DOMAIN waiting[s], lead'[s] # 0
    PROVE  i \in DOMAIN log'[s] /\ IsOwn(waiting[s][i], log'[s][i].cmd)
<1>1. i \in DOMAIN log[s] /\ IsOwn(waiting[s][i], log[s][i].cmd)
  BY DEF WaitingIsOwn
<1>2. log[s] \in Seq(LoggedEntry) /\ log'[s] \in Seq(LoggedEntry)
  BY LogMovesTypes DEF KvTypeOK, ServerTypeOK
<1> QED
  BY <1>1, <1>2, LogKeeps DEF KvTypeOK

LEMMA ProposingKeepsOwn ==
    ASSUME KvTypeOK, Agreement, WaitingIsOwn, NEW s \in Server, NEW r \in requests, Proposing(s, r)
    PROVE  WaitingIsOwn'
<1> DEFINE n == Len(log[s]) + 1
<1>1. /\ log[s] \in Seq(LoggedEntry) /\ r \in Request
      /\ log'[s] = Append(log[s], [term |-> lead[s], cmd |-> NewCommand(r)])
      /\ NewCommand(r) \in LoggedCommand
  BY DEF Proposing, Logs, KvTypeOK, ClientTypeOK, ServerTypeOK
<1>2. n \in DOMAIN log'[s] /\ log'[s][n].cmd = NewCommand(r)
  BY <1>1
<1>3. NewCommand(r) # Noop
  BY <1>1, KvAssumption DEF LoggedCommand, Command
<1>4. IsOwn(NewSlot(r), log'[s][n].cmd)
  BY <1>2, <1>3 DEF IsOwn, NewSlot, NewCommand
<1>5. LogMoves(s) /\ Drains(s, AlsoWaits(s, r), reads[s])
  BY DEF Proposing, Drains
<1>6. ASSUME NEW i \in DOMAIN AlsoWaits(s, r), lead'[s] # 0
      PROVE  i \in DOMAIN log'[s] /\ IsOwn(AlsoWaits(s, r)[i], log'[s][i].cmd)
  <2>1. CASE i = n
    BY <2>1, <1>2, <1>4 DEF AlsoWaits
  <2>2. CASE i # n
    <3>1. i \in DOMAIN waiting[s] /\ AlsoWaits(s, r)[i] = waiting[s][i]
      BY <2>2, <1>6 DEF AlsoWaits
    <3> QED
      BY <3>1, <1>5, <1>6, StillOwn
  <2> QED
    BY <2>1, <2>2
<1> QED
  BY <1>5, <1>6, DrainsKeepOwn

(* WaitingIsOwn, for every cluster: neither elections, truncations,        *)
(* snapshots nor crashes leave a request waiting at an index that is       *)
(* applied already or holds a command that is not its own.                 *)
THEOREM WaitersAreServed == Spec => []WaitingIsOwn
<1>1. Init => WaitingIsOwn
  BY EmptySlots DEF Init, WaitingIsOwn
<1>2. ASSUME KvTypeOK, Agreement, WaitingIsOwn, [Next]_vars PROVE WaitingIsOwn'
  <2>1. CASE UNCHANGED <<raftVars, waiting>>
    BY <1>2, <2>1 DEF WaitingIsOwn, raftVars, IsOwn
  <2>2. ASSUME NEW c \in Client, ClientActs(c) PROVE WaitingIsOwn'
    BY <2>1, <2>2 DEF ClientActs, serverVars
  <2>3. ASSUME NEW s \in Server, NEW rds, Drains(s, waiting[s], rds) PROVE WaitingIsOwn'
    BY <1>2, <2>3, StillOwn, DrainsKeepOwn DEF Drains
  <2>4. ASSUME NEW s \in Server, NEW r \in requests, NEW i, Joins(s, r, i) PROVE WaitingIsOwn'
    <3>1. /\ i \in DOMAIN waiting[s] /\ waiting[s][i].client = r.client /\ waiting[s][i].seq = r.seq
          /\ waiting'[s] = [waiting[s] EXCEPT ![i] = NewSlot(r)]
          /\ \A p \in Server \ {s} : waiting'[p] = waiting[p]
          /\ UNCHANGED raftVars
      BY <2>4 DEF Joins
    <3>2. \A p \in Server : DOMAIN waiting'[p] = DOMAIN waiting[p]
      BY <3>1
    <3>3. ASSUME NEW p \in Server, NEW j \in DOMAIN waiting[p]
          PROVE  waiting'[p][j].client = waiting[p][j].client /\ waiting'[p][j].seq = waiting[p][j].seq
      <4>1. CASE p # s
        BY <3>1, <4>1
      <4>2. CASE p = s /\ j # i
        BY <3>1, <3>3, <4>2
      <4>3. CASE p = s /\ j = i
        BY <3>1, <4>3 DEF NewSlot
      <4> QED
        BY <4>1, <4>2, <4>3
    <3> QED
      BY <1>2, <3>1, <3>2, <3>3 DEF WaitingIsOwn, IsOwn, raftVars
  <2>5. ASSUME NEW s \in Server, NEW lg, NEW k, NEW j, Resets(s, lg, k, j) PROVE WaitingIsOwn'
    <3>1. /\ waiting' = [waiting EXCEPT ![s] = <<>>] /\ waiting \in [Server -> Slots]
          /\ log \in [Server -> Seq(LoggedEntry)] /\ commit \in [Server -> Nat] /\ lead \in [Server -> Nat]
      BY <1>2, <2>5 DEF Resets, KvTypeOK, ServerTypeOK
    <3>2. \A p \in Server \ {s} : log'[p] = log[p] /\ commit'[p] = commit[p] /\ lead'[p] = lead[p]
      BY <2>5, <3>1 DEF Resets, Adopts
    <3>3. DOMAIN waiting'[s] = {} /\ \A p \in Server \ {s} : waiting'[p] = waiting[p]
      BY <3>1, EmptySlots
    <3> QED
      BY <1>2, <3>2, <3>3 DEF WaitingIsOwn, IsOwn
  <2>6. ASSUME NEW s \in Server, ServerMoves(s) PROVE WaitingIsOwn'
    <3>1. ASSUME NEW r \in requests, AnswersAtOnce(s, r) PROVE WaitingIsOwn'
      BY <2>1, <3>1 DEF AnswersAtOnce, Replies, serverVars
    <3>2. ASSUME NEW r \in requests, Proposing(s, r) PROVE WaitingIsOwn'
      BY <1>2, <3>2, ProposingKeepsOwn
    <3> QED
      BY <2>3, <2>4, <2>5, <2>6, <3>1, <3>2 DEF ServerMoves, Reading, Confirming, LogMoving
  <2>7. CASE UNCHANGED vars
    BY <2>1, <2>7 DEF vars, serverVars
  <2> QED
    BY <1>2, <2>2, <2>6, <2>7, StepMoves
<1> QED
  BY <1>1, <1>2, KvTypesKept, PTL DEF Spec

-----------------------------------------------------------------------------
(* The images of the prefixes of the chosen entries. *)

LEMMA ImageStart ==
    ASSUME ServerTypeOK
    PROVE  ImageAt(0) = NewMachine
<1>1. Len(SubSeq(chosen, 1, 0)) = 0
  BY Prefix DEF ServerTypeOK
<1> QED
  BY <1>1, ReplayNothing DEF ImageAt

LEMMA PrefixOfPrefix ==
    ASSUME NEW S, NEW q \in Seq(S), NEW j \in 1..Len(q)
    PROVE  /\ SubSeq(q, 1, j) \in Seq(S) /\ Len(SubSeq(q, 1, j)) = j /\ SubSeq(q, 1, j)[j] = q[j]
           /\ SubSeq(SubSeq(q, 1, j), 1, j - 1) = SubSeq(q, 1, j - 1)
<1> DEFINE a == SubSeq(q, 1, j)
           b == SubSeq(q, 1, j - 1)
           d == SubSeq(a, 1, j - 1)
<1>1. j \in Nat /\ j - 1 \in Nat /\ j <= Len(q) /\ j - 1 <= Len(q) /\ j >= 1
  OBVIOUS
<1>2. a \in Seq(S) /\ Len(a) = j /\ \A i \in 1..j : a[i] = q[i]
  BY <1>1, Prefix
<1>3. b \in Seq(S) /\ Len(b) = j - 1 /\ \A i \in 1..(j - 1) : b[i] = q[i]
  BY <1>1, Prefix
<1> HIDE DEF a, b
<1>4. d \in Seq(S) /\ Len(d) = j - 1 /\ \A i \in 1..(j - 1) : d[i] = a[i]
  BY <1>1, <1>2, Prefix
<1> HIDE DEF d
<1>5. d = b
  <2>1. \A i \in 1..(j - 1) : d[i] = b[i]
    BY <1>1, <1>2, <1>3, <1>4
  <2> QED
    BY <1>1, <1>3, <1>4, <2>1
<1> QED
  BY <1>1, <1>2, <1>5 DEF a, b, d

LEMMA ImageNext ==
    ASSUME ServerTypeOK, NEW j \in 1..Len(chosen)
    PROVE  ImageAt(j) = ApplyTo(ImageAt(j - 1), chosen[j])
<1> DEFINE a == SubSeq(chosen, 1, j)
<1>1. /\ a \in Seq(LoggedEntry) /\ Len(a) = j /\ a[j] = chosen[j]
      /\ SubSeq(a, 1, j - 1) = SubSeq(chosen, 1, j - 1)
  BY PrefixOfPrefix DEF ServerTypeOK
<1> HIDE DEF a
<1>2. Len(a) > 0
  BY <1>1
<1>3. Replay(NewMachine, a) = ApplyTo(Replay(NewMachine, SubSeq(a, 1, Len(a) - 1)), a[Len(a)])
  BY <1>1, <1>2, ReplayOneMore
<1> QED
  BY <1>1, <1>3 DEF ImageAt, a

LEMMA SameSeq ==
    ASSUME NEW S, NEW p \in Seq(S), NEW q \in Seq(S), Len(p) = Len(q), \A i \in 1..Len(p) : p[i] = q[i]
    PROVE  p = q
OBVIOUS

LEMMA SamePrefix ==
    ASSUME NEW S, NEW p \in Seq(S), NEW q \in Seq(S), NEW j \in Nat, j <= Len(p), j <= Len(q),
           \A i \in 1..j : p[i] = q[i]
    PROVE  SubSeq(p, 1, j) = SubSeq(q, 1, j)
<1> DEFINE a == SubSeq(p, 1, j)
           b == SubSeq(q, 1, j)
<1>1. a \in Seq(S) /\ Len(a) = j /\ \A i \in 1..j : a[i] = p[i]
  BY Prefix
<1>2. b \in Seq(S) /\ Len(b) = j /\ \A i \in 1..j : b[i] = q[i]
  BY Prefix
<1> HIDE DEF a, b
<1>3. a = b
  BY <1>1, <1>2
<1> QED
  BY <1>3 DEF a, b

(* The chosen entries only grow. *)
Grows ==
    /\ chosen \in Seq(LoggedEntry) /\ chosen' \in Seq(LoggedEntry)
    /\ Len(chosen) <= Len(chosen')
    /\ \A i \in 1..Len(chosen) : chosen'[i] = chosen[i]

LEMMA ImageKept ==
    ASSUME Grows, NEW j \in Nat, j <= Len(chosen)
    PROVE  ImageAt(j)' = ImageAt(j)
<1>1. SubSeq(chosen', 1, j) = SubSeq(chosen, 1, j)
  <2>1. j <= Len(chosen') /\ \A i \in 1..j : chosen'[i] = chosen[i]
    BY DEF Grows
  <2> QED
    BY <2>1, SamePrefix DEF Grows
<1> QED
  BY <1>1 DEF ImageAt

(* A session's number never falls, and an applied command is a repeat.     *)
LEMMA ApplyGrows ==
    ASSUME NEW machine \in Machine, NEW entry \in LoggedEntry
    PROVE  /\ \A c \in Client : ApplyTo(machine, entry).sessions[c].seq >= machine.sessions[c].seq
           /\ entry.cmd # Noop => IsRepeat(ApplyTo(machine, entry), entry.cmd)
<1> DEFINE cmd == entry.cmd
           after == ApplyTo(machine, entry)
<1>0. \A c \in Client : machine.sessions[c].seq \in Nat
  BY DEF Machine, Session
<1>1. CASE cmd = Noop \/ IsRepeat(machine, cmd)
  <2>1. after = machine
    BY <1>1 DEF ApplyTo
  <2> QED
    BY <1>0, <1>1, <2>1
<1>2. CASE ~(cmd = Noop \/ IsRepeat(machine, cmd))
  <2>1. cmd \in LoggedCommand
    BY <1>2 DEF LoggedEntry
  <2>2. cmd.client \in Client /\ cmd.seq \in Nat
    BY <2>1 DEF LoggedCommand
  <2> DEFINE news == [machine.sessions EXCEPT ![cmd.client] = [seq |-> cmd.seq, outcome |-> ResultOf(machine, cmd)]]
  <2>3. after.sessions = news
    BY <1>2 DEF ApplyTo
  <2>4. machine.sessions \in [Client -> Session]
    BY DEF Machine
  <2>5. news[cmd.client].seq = cmd.seq /\ \A c \in Client : c # cmd.client => news[c] = machine.sessions[c]
    BY <2>2, <2>4
  <2>6. cmd.seq > machine.sessions[cmd.client].seq
    BY <1>0, <1>2, <2>2 DEF IsRepeat
  <2> HIDE DEF news, cmd, after
  <2> QED
    BY <1>0, <2>2, <2>3, <2>5, <2>6 DEF IsRepeat, after, cmd
<1> QED
  BY <1>1, <1>2

LEMMA AppliedIsRepeat ==
    ASSUME ServerTypeOK, NEW i \in 1..Len(chosen), NEW j \in i..Len(chosen), chosen[i].cmd # Noop
    PROVE  IsRepeat(ImageAt(j), chosen[i].cmd)
<1> DEFINE T == {k \in Nat : k >= i /\ k <= Len(chosen) /\ ~IsRepeat(ImageAt(k), chosen[i].cmd)}
<1>0. i \in Nat /\ i >= 1 /\ i <= Len(chosen) /\ Len(chosen) \in Nat /\ j \in Nat /\ j >= i /\ j <= Len(chosen)
  BY DEF ServerTypeOK
<1> SUFFICES ASSUME T # {} PROVE FALSE
  BY <1>0
<1>1. PICK k \in T : \A m \in T : k <= m
  BY Least
<1>2. k \in 1..Len(chosen) /\ chosen[k] \in LoggedEntry /\ chosen[i] \in LoggedEntry /\ k - 1 \in Nat /\ k - 1 <= Len(chosen)
  BY <1>0 DEF ServerTypeOK
<1>3. ImageAt(k) = ApplyTo(ImageAt(k - 1), chosen[k]) /\ ImageAt(k - 1) \in Machine /\ ImageAt(k) \in Machine
  BY <1>2, ImageNext, ImagesAreMachines
<1>4. k # i
  BY <1>2, <1>3, ApplyGrows
<1>5. IsRepeat(ImageAt(k - 1), chosen[i].cmd)
  <2>1. k - 1 \notin T
    BY <1>1, <1>2
  <2> QED
    BY <1>0, <1>2, <1>4, <2>1
<1>6. chosen[i].cmd \in LoggedCommand
  BY <1>2 DEF LoggedEntry
<1>7. chosen[i].cmd.client \in Client /\ chosen[i].cmd.seq \in Nat
  BY <1>6 DEF LoggedCommand
<1>8. /\ ImageAt(k).sessions[chosen[i].cmd.client].seq \in Nat
      /\ ImageAt(k - 1).sessions[chosen[i].cmd.client].seq \in Nat
  BY <1>3, <1>7 DEF Machine, Session
<1>9. ImageAt(k).sessions[chosen[i].cmd.client].seq >= ImageAt(k - 1).sessions[chosen[i].cmd.client].seq
  <2>1. \A c \in Client :
          ApplyTo(ImageAt(k - 1), chosen[k]).sessions[c].seq >= ImageAt(k - 1).sessions[c].seq
    BY <1>2, <1>3, ApplyGrows
  <2> QED
    BY <1>3, <1>7, <2>1
<1>10. IsRepeat(ImageAt(k), chosen[i].cmd)
  BY <1>5, <1>7, <1>8, <1>9, SMTT(30) DEF IsRepeat
<1> QED
  BY <1>10

Later(i, j) == IF i <= j THEN j ELSE i

(* Entries an image includes already change nothing when they are applied  *)
(* to it once more.                                                        *)
LEMMA ReplayAhead ==
    ASSUME ServerTypeOK, NEW from \in Nat, NEW j \in Nat, from <= j, j <= Len(chosen),
           NEW to \in Nat, from <= to, to <= Len(chosen)
    PROVE  Replay(ImageAt(j), SubSeq(chosen, from + 1, to)) = ImageAt(Later(to, j))
<1> DEFINE Part(k) == SubSeq(chosen, from + 1, k)
           T == {k \in Nat : k >= from /\ k <= Len(chosen) /\ Replay(ImageAt(j), Part(k)) # ImageAt(Later(k, j))}
<1>0. Len(chosen) \in Nat /\ chosen \in Seq(LoggedEntry)
  BY DEF ServerTypeOK
<1> SUFFICES ASSUME T # {} PROVE FALSE
  OBVIOUS
<1>1. PICK k \in T : \A m \in T : k <= m
  BY Least
<1>2. k \in Nat /\ k >= from /\ k <= Len(chosen)
  OBVIOUS
<1>3. /\ Part(k) \in Seq(LoggedEntry) /\ Len(Part(k)) = k - from
      /\ \A i \in 1..(k - from) : Part(k)[i] = chosen[from + i]
  <2>1. from + 1 \in Nat \ {0} /\ (from + 1) - 1 <= k
    BY <1>2
  <2> HIDE DEF T
  <2>2. /\ SubSeq(chosen, from + 1, k) \in Seq(LoggedEntry)
        /\ Len(SubSeq(chosen, from + 1, k)) = k - (from + 1) + 1
        /\ \A i \in 1..(k - (from + 1) + 1) : SubSeq(chosen, from + 1, k)[i] = chosen[(from + 1) + i - 1]
    BY <1>0, <1>2, <2>1, Slice
  <2>3. k - (from + 1) + 1 = k - from /\ \A i \in 1..(k - from) : (from + 1) + i - 1 = from + i
    BY <1>2
  <2> QED
    BY <2>2, <2>3
<1>4. k # from
  <2> SUFFICES ASSUME k = from PROVE FALSE
    OBVIOUS
  <2>1. Len(Part(k)) = 0 /\ Later(k, j) = j
    BY <1>2, <1>3 DEF Later
  <2> QED
    BY <2>1, ReplayNothing
<1>5. k - 1 \in Nat /\ k - 1 >= from /\ k \in 1..Len(chosen) /\ chosen[k] \in LoggedEntry /\ Len(Part(k)) > 0
  BY <1>0, <1>2, <1>3, <1>4
<1>6. SubSeq(Part(k), 1, Len(Part(k)) - 1) = Part(k - 1) /\ Part(k)[Len(Part(k))] = chosen[k]
  <2> DEFINE b == Part(k - 1)
             d == SubSeq(Part(k), 1, Len(Part(k)) - 1)
  <2>1. /\ b \in Seq(LoggedEntry) /\ Len(b) = k - 1 - from
        /\ \A i \in 1..(k - 1 - from) : b[i] = chosen[from + i]
    <3>1. from + 1 \in Nat \ {0} /\ (from + 1) - 1 <= k - 1 /\ k - 1 <= Len(chosen)
      BY <1>2, <1>5
    <3> HIDE DEF T
    <3>2. /\ SubSeq(chosen, from + 1, k - 1) \in Seq(LoggedEntry)
          /\ Len(SubSeq(chosen, from + 1, k - 1)) = (k - 1) - (from + 1) + 1
          /\ \A i \in 1..((k - 1) - (from + 1) + 1) :
                SubSeq(chosen, from + 1, k - 1)[i] = chosen[(from + 1) + i - 1]
      BY <1>0, <1>5, <3>1, Slice
    <3>3. (k - 1) - (from + 1) + 1 = k - 1 - from /\ \A i \in 1..(k - 1 - from) : (from + 1) + i - 1 = from + i
      BY <1>2
    <3> QED
      BY <3>2, <3>3
  <2>2. d \in Seq(LoggedEntry) /\ Len(d) = k - from - 1 /\ \A i \in 1..(k - from - 1) : d[i] = Part(k)[i]
    <3>1. Len(Part(k)) - 1 \in Nat /\ Len(Part(k)) - 1 <= Len(Part(k)) /\ Len(Part(k)) - 1 = k - from - 1
      BY <1>2, <1>3, <1>5
    <3> HIDE DEF Part, T
    <3> QED
      BY <1>3, <3>1, Prefix
  <2> HIDE DEF b, d, Part, T
  <2>3. d = b
    <3>1. \A i \in 1..(k - from - 1) : d[i] = b[i]
      BY <1>2, <1>3, <2>1, <2>2
    <3>2. Len(d) = Len(b) /\ Len(d) = k - from - 1 /\ d \in Seq(LoggedEntry) /\ b \in Seq(LoggedEntry)
      BY <1>2, <2>1, <2>2
    <3>3. \A i \in 1..Len(d) : d[i] = b[i]
      BY <3>1, <3>2
    <3> HIDE DEF b, d
    <3> QED
      BY <3>2, <3>3, SameSeq
  <2>4. Part(k)[Len(Part(k))] = chosen[k]
    BY <1>2, <1>3, <1>5
  <2> QED
    BY <2>3, <2>4 DEF b, d
<1>7. Replay(ImageAt(j), Part(k)) = ApplyTo(Replay(ImageAt(j), Part(k - 1)), chosen[k])
  <2>1. Replay(ImageAt(j), Part(k)) =
          ApplyTo(Replay(ImageAt(j), SubSeq(Part(k), 1, Len(Part(k)) - 1)), Part(k)[Len(Part(k))])
    <3> HIDE DEF Part, T
    <3> QED
      BY <1>3, <1>5, ReplayOneMore
  <2> QED
    BY <1>6, <2>1
<1>8. Replay(ImageAt(j), Part(k - 1)) = ImageAt(Later(k - 1, j))
  <2>1. k - 1 \notin T
    BY <1>1, <1>5
  <2> QED
    BY <1>2, <1>5, <2>1
<1>9. CASE k <= j
  <2>1. Later(k - 1, j) = j /\ Later(k, j) = j
    BY <1>2, <1>9 DEF Later
  <2>2. ApplyTo(ImageAt(j), chosen[k]) = ImageAt(j)
    <3>1. chosen[k].cmd # Noop => IsRepeat(ImageAt(j), chosen[k].cmd)
      BY <1>0, <1>5, <1>9, AppliedIsRepeat
    <3> QED
      BY <3>1 DEF ApplyTo
  <2> QED
    BY <1>7, <1>8, <2>1, <2>2
<1>10. CASE k > j
  <2>1. Later(k - 1, j) = k - 1 /\ Later(k, j) = k
    BY <1>2, <1>5, <1>10 DEF Later
  <2> QED
    BY <1>5, <1>7, <1>8, <2>1, ImageNext
<1> QED
  BY <1>2, <1>9, <1>10

RepeatsAreHarmless ==
    ServerTypeOK => \A from, j, to \in Nat :
        from <= j /\ j <= Len(chosen) /\ from <= to /\ to <= Len(chosen) =>
            Replay(ImageAt(j), SubSeq(chosen, from + 1, to)) = ImageAt(Later(to, j))

LEMMA RepeatsAreHarmlessNext == RepeatsAreHarmless'
<1>1. RepeatsAreHarmless
  BY ReplayAhead DEF RepeatsAreHarmless
<1> QED
  BY <1>1, PTL

LEMMA LogMovesGrows ==
    ASSUME ServerTypeOK, Agreement, NEW s \in Server, LogMoves(s)
    PROVE  Grows
<1>1. chosen \in Seq(LoggedEntry) /\ chosen' \in Seq(LoggedEntry) /\ Len(chosen) \in Nat
  BY LogMovesTypes DEF ServerTypeOK
<1>2. CASE chosen' = chosen
  BY <1>1, <1>2 DEF Grows
<1>3. ASSUME NEW k \in Nat, Declares(s, k) PROVE Grows
  BY <1>1, <1>3 DEF Grows, Declares
<1> QED
  BY <1>2, <1>3 DEF LogMoves, raftVars, Wins, Logs, Adopts

LEMMA SameSlice ==
    ASSUME NEW S, NEW p \in Seq(S), NEW q \in Seq(S), NEW from \in Nat, NEW to \in Nat, from <= to,
           to <= Len(p), to <= Len(q), \A i \in 1..to : p[i] = q[i]
    PROVE  SubSeq(p, from + 1, to) = SubSeq(q, from + 1, to)
<1> DEFINE a == SubSeq(p, from + 1, to)
           b == SubSeq(q, from + 1, to)
           n == to - (from + 1) + 1
<1>1. from + 1 \in Nat \ {0} /\ (from + 1) - 1 <= to
  OBVIOUS
<1>2. a \in Seq(S) /\ Len(a) = n /\ \A i \in 1..n : a[i] = p[(from + 1) + i - 1]
  BY <1>1, Slice
<1>3. b \in Seq(S) /\ Len(b) = n /\ \A i \in 1..n : b[i] = q[(from + 1) + i - 1]
  BY <1>1, Slice
<1> HIDE DEF a, b
<1>4. \A i \in 1..n : (from + 1) + i - 1 \in 1..to
  BY <1>1
<1>5. \A i \in 1..Len(a) : a[i] = b[i]
  <2> HIDE DEF n
  <2> QED
    BY <1>2, <1>3, <1>4
<1>6. a = b
  BY <1>2, <1>3, <1>5, SameSeq
<1> QED
  BY <1>6 DEF a, b

(* The machine of s is the image of the first j entries. *)
Holds(s, j) ==
    /\ j \in Nat /\ commit[s] <= j /\ j <= commit[s] + MaxAhead /\ j <= Len(chosen)
    /\ sm[s] = ImageAt(j)

LEMMA MachineIsHeld ==
    ASSUME KvTypeOK
    PROVE  MachineIsItsPrefix <=> \A s \in Server : \E j \in Nat : Holds(s, j)
<1>1. ASSUME NEW s \in Server
      PROVE  (\E j \in commit[s]..Min({commit[s] + MaxAhead, Len(chosen)}) : sm[s] = ImageAt(j))
             <=> \E j \in Nat : Holds(s, j)
  <2>1. commit[s] \in Nat /\ commit[s] + MaxAhead \in Nat /\ Len(chosen) \in Nat
    BY DEF KvTypeOK, ClientTypeOK, ServerTypeOK, Scenario, MaxAhead
  <2>2. Min({commit[s] + MaxAhead, Len(chosen)}) =
          IF commit[s] + MaxAhead <= Len(chosen) THEN commit[s] + MaxAhead ELSE Len(chosen)
    BY <2>1, MinOfTwo
  <2>3. \A j : j \in commit[s]..Min({commit[s] + MaxAhead, Len(chosen)}) <=>
               /\ j \in Nat /\ commit[s] <= j /\ j <= commit[s] + MaxAhead /\ j <= Len(chosen)
    BY <2>1, <2>2
  <2> QED
    BY <2>3 DEF Holds
<1> QED
  BY <1>1 DEF MachineIsItsPrefix

(* What `drain` has made of the machine when it comes to entry i + 1.      *)
LEMMA MachineWhileDraining ==
    ASSUME KvTypeOK, Agreement, NEW s \in Server, NEW waits, NEW rds, Drains(s, waits, rds),
           NEW j \in Nat, Holds(s, j), NEW i \in Nat, commit[s] <= i, i <= commit'[s]
    PROVE  Replay(sm[s], SubSeq(log'[s], commit[s] + 1, i)) = ImageAt(Later(i, j))'
<1>1. /\ KvTypeOK' /\ Agreement' /\ Grows /\ commit[s] \in Nat /\ commit'[s] \in Nat
      /\ commit'[s] <= Len(log'[s]) /\ commit'[s] <= Len(chosen')
      /\ log'[s] \in Seq(LoggedEntry) /\ chosen' \in Seq(LoggedEntry)
  <2>1. KvTypeOK' /\ Agreement'
    BY DrainsTypes
  <2>2. Grows
    BY LogMovesGrows DEF KvTypeOK, Drains
  <2> QED
    BY <2>1, <2>2 DEF KvTypeOK, ServerTypeOK, Agreement, Agrees
<1>2. Len(log'[s]) \in Nat /\ Len(chosen') \in Nat /\ Len(chosen) \in Nat /\ i <= Len(log'[s]) /\ i <= Len(chosen')
  BY <1>1 DEF Grows
<1>3. SubSeq(log'[s], commit[s] + 1, i) = SubSeq(chosen', commit[s] + 1, i)
  <2>1. \A m \in 1..commit'[s] : log'[s][m] = chosen'[m]
    BY <1>1 DEF Agreement, Agrees
  <2>2. \A m \in 1..i : log'[s][m] = chosen'[m]
    BY <1>1, <2>1
  <2> QED
    <3> DEFINE p == log'[s]
               q == chosen'
    <3>1. p \in Seq(LoggedEntry) /\ q \in Seq(LoggedEntry) /\ commit[s] \in Nat /\ i <= Len(p) /\ i <= Len(q)
      BY <1>1, <1>2
    <3>2. \A m \in 1..i : p[m] = q[m]
      BY <2>2
    <3> HIDE DEF p, q
    <3>3. \A from, to \in Nat :
             from <= to /\ to <= Len(p) /\ to <= Len(q) /\ (\A m \in 1..to : p[m] = q[m])
                => SubSeq(p, from + 1, to) = SubSeq(q, from + 1, to)
      <4> SUFFICES ASSUME NEW from \in Nat, NEW to \in Nat, from <= to, to <= Len(p), to <= Len(q),
                          \A m \in 1..to : p[m] = q[m]
                   PROVE  SubSeq(p, from + 1, to) = SubSeq(q, from + 1, to)
        OBVIOUS
      <4>1. p \in Seq(LoggedEntry) /\ q \in Seq(LoggedEntry)
        BY <3>1
      <4> QED
        BY <4>1, SameSlice
    <3>4. SubSeq(p, commit[s] + 1, i) = SubSeq(q, commit[s] + 1, i)
      BY <3>1, <3>2, <3>3
    <3> QED
      BY <3>4 DEF p, q
<1>4. sm[s] = ImageAt(j)' /\ j <= Len(chosen') /\ commit[s] <= j
  BY <1>1, <1>2, ImageKept DEF Holds, Grows
<1>5. Replay(ImageAt(j)', SubSeq(chosen', commit[s] + 1, i)) = ImageAt(Later(i, j))'
  BY <1>1, <1>2, <1>4, RepeatsAreHarmlessNext DEF RepeatsAreHarmless, KvTypeOK
<1> QED
  BY <1>3, <1>4, <1>5

LEMMA HoldsStill ==
    ASSUME KvTypeOK, Grows, NEW s \in Server, NEW j \in Nat, Holds(s, j),
           sm'[s] = sm[s], commit'[s] = commit[s], env'.maxAhead = env.maxAhead
    PROVE  Holds(s, j)'
<1>1. Len(chosen) \in Nat /\ Len(chosen') \in Nat
  BY DEF Grows
<1>2. j <= Len(chosen') /\ ImageAt(j)' = ImageAt(j)
  BY <1>1, ImageKept DEF Holds, Grows
<1> QED
  BY <1>2 DEF Holds, MaxAhead

LEMMA DrainsHold ==
    ASSUME KvTypeOK, Agreement, NEW s \in Server, NEW waits, NEW rds, Drains(s, waits, rds),
           \A p \in Server : \E j \in Nat : Holds(p, j)
    PROVE  \A p \in Server : \E j \in Nat : Holds(p, j)'
<1>1. PICK j \in Nat : Holds(s, j)
  OBVIOUS
<1>2. sm' = [sm EXCEPT ![s] = CaughtUp(s, sm[s], commit[s])] /\ sm \in [Server -> Machine]
  BY DrainSets DEF Drains, KvTypeOK, ServerTypeOK
<1>3. /\ commit[s] \in Nat /\ commit'[s] \in Nat /\ commit[s] <= commit'[s] /\ commit'[s] <= Len(chosen')
      /\ env.maxAhead \in Nat /\ env' = env /\ Grows
  BY LogMovesTypes, LogMovesGrows DEF KvTypeOK, ServerTypeOK, ClientTypeOK, Scenario, Drains
<1>4. PICK l \in Nat : l = Later(commit'[s], j)
  BY <1>3 DEF Later
<1>5. sm'[s] = ImageAt(l)'
  <2>1. PICK n \in Nat : n = commit'[s]
    BY <1>3
  <2>2. Replay(sm[s], SubSeq(log'[s], commit[s] + 1, n)) = ImageAt(Later(n, j))'
    BY <1>1, <1>3, <2>1, MachineWhileDraining
  <2>3. CaughtUp(s, sm[s], commit[s]) = ImageAt(Later(n, j))'
    BY <2>1, <2>2 DEF CaughtUp
  <2> QED
    BY <1>2, <1>4, <2>1, <2>3
<1>6. Holds(s, l)'
  <2>1. Len(chosen) \in Nat /\ Len(chosen') \in Nat /\ Len(chosen) <= Len(chosen')
    BY <1>3 DEF Grows
  <2>2. commit'[s] <= l /\ l <= commit'[s] + env.maxAhead /\ l <= Len(chosen')
    BY <1>1, <1>3, <1>4, <2>1 DEF Later, Holds, MaxAhead
  <2> QED
    BY <1>3, <1>5, <2>2 DEF Holds, MaxAhead
<1>7. ASSUME NEW p \in Server \ {s} PROVE \E i \in Nat : Holds(p, i)'
  <2>1. sm'[p] = sm[p] /\ commit'[p] = commit[p]
    BY <1>2, LogKeeps DEF Drains, KvTypeOK
  <2>2. PICK i \in Nat : Holds(p, i)
    OBVIOUS
  <2> QED
    BY <1>3, <2>1, <2>2, HoldsStill
<1> QED
  BY <1>6, <1>7

LEMMA ResetsHold ==
    ASSUME KvTypeOK, Agreement, NEW s \in Server, NEW lg, NEW k, NEW j, Resets(s, lg, k, j),
           \A p \in Server : \E i \in Nat : Holds(p, i)
    PROVE  \A p \in Server : \E i \in Nat : Holds(p, i)'
<1>1. /\ sm' = [sm EXCEPT ![s] = ImageAt(j)] /\ sm \in [Server -> Machine] /\ k \in Nat
      /\ j \in k..(k + env.maxAhead) /\ j <= Len(chosen) /\ env'.maxAhead = env.maxAhead /\ env.maxAhead \in Nat
      /\ commit' = [commit EXCEPT ![s] = k] /\ chosen' = chosen /\ commit \in [Server -> Nat]
      /\ chosen \in Seq(LoggedEntry)
  BY DEF Resets, Adopts, KvTypeOK, ClientTypeOK, ServerTypeOK, Scenario, MaxAhead
<1>2. Grows /\ j \in Nat
  BY <1>1 DEF Grows
<1>3. ImageAt(j)' = ImageAt(j)
  BY <1>1, <1>2, ImageKept
<1>4. Holds(s, j)'
  BY <1>1, <1>2, <1>3 DEF Holds, MaxAhead
<1>5. ASSUME NEW p \in Server \ {s} PROVE \E i \in Nat : Holds(p, i)'
  <2>1. sm'[p] = sm[p] /\ commit'[p] = commit[p]
    BY <1>1
  <2>2. PICK i \in Nat : Holds(p, i)
    OBVIOUS
  <2> QED
    BY <1>1, <1>2, <2>1, <2>2, HoldsStill
<1> QED
  BY <1>2, <1>4, <1>5

(* MachineIsItsPrefix, for every cluster: the data of a server is what     *)
(* some prefix of the agreed entries makes it, however often a snapshot    *)
(* that ran ahead of its index makes `drain` apply entries once more, so   *)
(* that `check_convergence` compares like with like.                       *)
THEOREM MachinesArePrefixes == Spec => []MachineIsItsPrefix
<1> DEFINE Held == \A s \in Server : \E j \in Nat : Holds(s, j)
<1>1. Init => Held
  <2> SUFFICES ASSUME Init, NEW s \in Server PROVE Holds(s, 0)
    OBVIOUS
  <2>1. KvTypeOK
    BY InitTypes
  <2>2. ImageAt(0) = NewMachine
    BY <2>1, ImageStart DEF KvTypeOK
  <2> QED
    BY <2>1, <2>2 DEF Init, Holds, MaxAhead, KvTypeOK, ClientTypeOK, Scenario
<1>2. ASSUME KvTypeOK, Agreement, Held, [Next]_vars PROVE Held'
  <2>1. CASE UNCHANGED <<commit, chosen, sm, env>>
    <3>1. Grows
      BY <1>2, <2>1 DEF Grows, KvTypeOK, ServerTypeOK
    <3>2. ASSUME NEW s \in Server PROVE \E j \in Nat : Holds(s, j)'
      <4>1. PICK j \in Nat : Holds(s, j)
        BY <1>2
      <4> QED
        BY <1>2, <2>1, <3>1, <4>1, HoldsStill
    <3> QED
      BY <3>2
  <2>2. ASSUME NEW c \in Client, ClientActs(c) PROVE Held'
    BY <2>1, <2>2 DEF ClientActs, raftVars, serverVars
  <2>3. ASSUME NEW s \in Server, ServerMoves(s) PROVE Held'
    <3>1. ASSUME NEW r \in requests, AnswersAtOnce(s, r) PROVE Held'
      BY <2>1, <3>1 DEF AnswersAtOnce, Replies, raftVars, serverVars
    <3>2. ASSUME NEW r \in requests, NEW i, Joins(s, r, i) PROVE Held'
      BY <2>1, <3>2 DEF Joins, raftVars
    <3>3. ASSUME NEW waits, NEW rds, Drains(s, waits, rds) PROVE Held'
      BY <1>2, <3>3, DrainsHold
    <3>4. ASSUME NEW lg, NEW k, NEW j, Resets(s, lg, k, j) PROVE Held'
      BY <1>2, <3>4, ResetsHold
    <3> HIDE DEF Held
    <3> QED
      BY <2>3, <3>1, <3>2, <3>3, <3>4 DEF ServerMoves, Reading, Proposing, Confirming, LogMoving
  <2>4. CASE UNCHANGED vars
    BY <2>1, <2>4 DEF vars, raftVars, serverVars
  <2> HIDE DEF Held
  <2> QED
    BY <1>2, <2>2, <2>3, <2>4, StepMoves
<1>3. KvTypeOK /\ Held => MachineIsItsPrefix
  BY MachineIsHeld
<1> QED
  BY <1>1, <1>2, <1>3, KvTypesKept, PTL DEF Spec

-----------------------------------------------------------------------------
(* Terms and leaders: why a read that `request_read` accepts sees all that *)
(* was chosen before, as long as no later leader has been elected.         *)

Sorted(lg, t) == \A i \in 1..Len(lg) : lg[i].term <= t /\ \A j \in 1..i : lg[j].term <= lg[i].term

TermInv ==
    /\ \A s \in Server : lead[s] <= newest
    /\ \A s, p \in Server : lead[s] = lead[p] /\ lead[s] # 0 => s = p
    /\ \A s \in Server : Sorted(log[s], newest) /\ (lead[s] # 0 => Sorted(log[s], lead[s]))
    /\ Sorted(chosen, newest)

(* The newest leader holds all that is chosen, and has itself committed    *)
(* what is chosen of its own term.                                         *)
IsAhead(s) ==
    /\ Len(chosen) <= Len(log[s])
    /\ \A i \in 1..Len(chosen) : log[s][i] = chosen[i]
    /\ \A i \in 1..Len(chosen) : chosen[i].term = newest => i <= commit[s]
NewestInv == \A s \in Server : lead[s] = newest /\ newest # 0 => IsAhead(s)

LEMMA TermsAreNumbers ==
    ASSUME NEW lg \in Seq(LoggedEntry), NEW i \in 1..Len(lg)
    PROVE  lg[i].term \in Nat
<1>1. lg[i] \in LoggedEntry
  OBVIOUS
<1> QED
  BY <1>1 DEF LoggedEntry

LEMMA SortedAppend ==
    ASSUME NEW lg \in Seq(LoggedEntry), NEW b \in Nat, NEW t \in Nat, b <= t, Sorted(lg, b),
           NEW e \in LoggedEntry, e.term = t
    PROVE  Sorted(Append(lg, e), t)
<1>0. \A i \in 1..Len(lg) : lg[i].term \in Nat
  BY TermsAreNumbers
<1>1. Len(lg) \in Nat /\ Len(Append(lg, e)) = Len(lg) + 1 /\ Append(lg, e)[Len(lg) + 1] = e
  OBVIOUS
<1>2. \A i \in 1..Len(lg) : Append(lg, e)[i] = lg[i]
  OBVIOUS
<1> DEFINE q == Append(lg, e)
<1> HIDE DEF q
<1>3. ASSUME NEW i \in 1..Len(q) PROVE q[i].term <= t /\ \A j \in 1..i : q[j].term <= q[i].term
  <2>1. CASE i \in 1..Len(lg)
    BY <1>0, <1>1, <1>2, <2>1 DEF q, Sorted
  <2>2. CASE i = Len(lg) + 1
    <3>1. \A j \in 1..Len(lg) : q[j].term <= t
      BY <1>0, <1>2 DEF q, Sorted
    <3>2. \A j \in 1..i : j \in 1..Len(lg) \/ j = i
      BY <1>1, <2>2
    <3> QED
      BY <1>1, <2>2, <3>1, <3>2 DEF q
  <2> QED
    BY <1>1, <2>1, <2>2 DEF q
<1> QED
  BY <1>3 DEF q, Sorted

LEMMA SortedWeaker ==
    ASSUME NEW lg \in Seq(LoggedEntry), NEW b \in Nat, NEW t \in Nat, b <= t, Sorted(lg, b)
    PROVE  Sorted(lg, t)
<1>0. \A i \in 1..Len(lg) : lg[i].term \in Nat
  BY TermsAreNumbers
<1> QED
  BY <1>0 DEF Sorted

LEMMA SortedPart ==
    ASSUME NEW lg \in Seq(LoggedEntry), NEW q \in Seq(LoggedEntry), NEW t \in Nat, Sorted(q, t),
           Len(lg) <= Len(q), \A i \in 1..Len(lg) : lg[i] = q[i]
    PROVE  Sorted(lg, t)
<1>1. \A i \in 1..Len(lg) : i \in 1..Len(q) /\ \A j \in 1..i : j \in 1..Len(lg)
  OBVIOUS
<1> QED
  BY <1>1 DEF Sorted

LEMMA WinsTerms ==
    ASSUME ServerTypeOK, TermInv, NewestInv, NEW s \in Server, Wins(s)
    PROVE  TermInv' /\ NewestInv'
<1> DEFINE e == [term |-> newest + 1, cmd |-> Noop]
<1>1. /\ newest \in Nat /\ lead \in [Server -> Nat] /\ log \in [Server -> Seq(LoggedEntry)]
      /\ chosen \in Seq(LoggedEntry) /\ log[s] \in Seq(LoggedEntry) /\ Len(chosen) \in Nat
      /\ Len(log[s]) \in Nat
  BY DEF ServerTypeOK
<1>2. e \in LoggedEntry /\ newest + 1 \in Nat /\ e.term = newest + 1
  BY <1>1 DEF LoggedEntry
<1>3. /\ newest' = newest + 1 /\ lead'[s] = newest + 1 /\ log'[s] = Append(log[s], e) /\ chosen' = chosen
      /\ commit' = commit
      /\ \A p \in Server \ {s} : lead'[p] = lead[p] /\ log'[p] = log[p]
  BY <1>1 DEF Wins
<1> HIDE DEF e
<1>4. Sorted(log'[s], newest')
  BY <1>1, <1>2, <1>3, SortedAppend DEF TermInv
<1>5. \A p \in Server \ {s} : Sorted(log'[p], newest') /\ (lead'[p] # 0 => Sorted(log'[p], lead'[p]))
  <2>1. ASSUME NEW p \in Server \ {s}
        PROVE  Sorted(log'[p], newest') /\ (lead'[p] # 0 => Sorted(log'[p], lead'[p]))
    <3>1. log[p] \in Seq(LoggedEntry) /\ newest \in Nat /\ newest <= newest + 1
      BY <1>1
    <3>2. Sorted(log[p], newest) /\ (lead[p] # 0 => Sorted(log[p], lead[p]))
      BY DEF TermInv
    <3>3. Sorted(log[p], newest + 1)
      BY <1>2, <3>1, <3>2, SortedWeaker
    <3> QED
      BY <1>3, <3>2, <3>3
  <2> QED
    BY <2>1
<1>6. Sorted(chosen', newest')
  <2>1. Sorted(chosen, newest) /\ newest \in Nat /\ newest <= newest + 1
    BY <1>1 DEF TermInv
  <2>2. Sorted(chosen, newest + 1)
    BY <1>1, <1>2, <2>1, SortedWeaker
  <2> QED
    BY <1>3, <2>2
<1>7. \A p \in Server : lead'[p] <= newest'
  BY <1>1, <1>2, <1>3, SMTT(30) DEF TermInv
<1>8. \A p \in Server \ {s} : lead'[p] # newest'
  BY <1>1, <1>2, <1>3 DEF TermInv
<1>9. \A p, q \in Server : lead'[p] = lead'[q] /\ lead'[p] # 0 => p = q
  BY <1>3, <1>8 DEF TermInv
<1>10. TermInv'
  BY <1>3, <1>4, <1>5, <1>6, <1>7, <1>9 DEF TermInv
<1>11. IsAhead(s)'
  <2>1. \A i \in 1..Len(log[s]) : log'[s][i] = log[s][i]
    BY <1>1, <1>3
  <2>2. Len(log'[s]) = Len(log[s]) + 1
    BY <1>1, <1>3
  <2>3. \A i \in 1..Len(chosen) : log'[s][i] = chosen[i]
    BY <1>1, <2>1 DEF Wins
  <2>4. \A i \in 1..Len(chosen) : chosen[i].term # newest'
    <3>1. \A i \in 1..Len(chosen) : chosen[i].term \in Nat /\ chosen[i].term <= newest
      BY <1>1, TermsAreNumbers DEF TermInv, Sorted
    <3> QED
      BY <1>1, <1>3, <3>1
  <2>5. Len(chosen) <= Len(log'[s])
    BY <1>1, <2>2 DEF Wins
  <2> QED
    BY <1>3, <2>3, <2>4, <2>5 DEF IsAhead
<1> QED
  BY <1>8, <1>10, <1>11 DEF NewestInv

LEMMA LogsTerms ==
    ASSUME ServerTypeOK, TermInv, NewestInv, NEW s \in Server, NEW cmd \in LoggedCommand, Logs(s, cmd)
    PROVE  TermInv' /\ NewestInv'
<1> DEFINE e == [term |-> lead[s], cmd |-> cmd]
<1>1. /\ newest \in Nat /\ lead \in [Server -> Nat] /\ log \in [Server -> Seq(LoggedEntry)]
      /\ chosen \in Seq(LoggedEntry) /\ log[s] \in Seq(LoggedEntry) /\ Len(chosen) \in Nat
      /\ Len(log[s]) \in Nat /\ lead[s] \in Nat
  BY DEF ServerTypeOK
<1>2. e \in LoggedEntry /\ e.term = lead[s]
  BY <1>1 DEF LoggedEntry
<1>3. /\ UNCHANGED <<commit, lead, newest, chosen>> /\ log'[s] = Append(log[s], e) /\ lead[s] # 0
      /\ \A p \in Server \ {s} : log'[p] = log[p]
  BY <1>1 DEF Logs
<1> HIDE DEF e
<1>4. Sorted(log'[s], lead[s]) /\ log'[s] \in Seq(LoggedEntry)
  BY <1>1, <1>2, <1>3, SortedAppend DEF TermInv
<1>5. Sorted(log'[s], newest)
  BY <1>1, <1>4, SortedWeaker DEF TermInv
<1>6. TermInv'
  BY <1>3, <1>4, <1>5 DEF TermInv
<1>7. ASSUME NEW p \in Server, lead'[p] = newest', newest' # 0 PROVE IsAhead(p)'
  <2>1. IsAhead(p)
    BY <1>3, <1>7 DEF NewestInv
  <2>2. CASE p # s
    BY <1>3, <2>1, <2>2 DEF IsAhead
  <2>3. CASE p = s
    <3>1. Len(log'[s]) = Len(log[s]) + 1 /\ \A i \in 1..Len(log[s]) : log'[s][i] = log[s][i]
      BY <1>1, <1>3
    <3>2. Len(chosen) <= Len(log'[s]) /\ \A i \in 1..Len(chosen) : log'[s][i] = chosen[i]
      BY <1>1, <2>1, <2>3, <3>1 DEF IsAhead
    <3> QED
      BY <1>3, <2>1, <2>3, <3>2 DEF IsAhead
  <2> QED
    BY <2>2, <2>3
<1> QED
  BY <1>6, <1>7 DEF NewestInv

LEMMA DeclaresTerms ==
    ASSUME ServerTypeOK, TermInv, NewestInv, NEW s \in Server, NEW k \in Nat, Declares(s, k)
    PROVE  TermInv' /\ NewestInv'
<1>1. /\ newest \in Nat /\ lead \in [Server -> Nat] /\ log \in [Server -> Seq(LoggedEntry)]
      /\ chosen \in Seq(LoggedEntry) /\ log[s] \in Seq(LoggedEntry) /\ Len(chosen) \in Nat
      /\ Len(log[s]) \in Nat /\ lead[s] \in Nat /\ commit \in [Server -> Nat]
  BY DEF ServerTypeOK
<1>2. /\ UNCHANGED <<log, lead, newest>> /\ commit'[s] = k /\ lead[s] # 0 /\ k > commit[s] /\ k <= Len(log[s])
      /\ chosen' \in Seq(LoggedEntry) /\ Len(chosen') = (IF k > Len(chosen) THEN k ELSE Len(chosen))
      /\ \A i \in 1..Len(chosen) : chosen'[i] = chosen[i]
      /\ \A i \in 1..k : chosen'[i] = log[s][i]
      /\ \A p \in Server : lead[p] > lead[s] =>
           k <= Len(log[p]) /\ \A i \in 1..k : log[p][i] = log[s][i]
      /\ \A p \in Server \ {s} : commit'[p] = commit[p]
  BY <1>1 DEF Declares
<1>3. Sorted(chosen', newest)
  <2>1. CASE k > Len(chosen)
    BY <1>1, <1>2, <2>1, SortedPart DEF TermInv
  <2>2. CASE k <= Len(chosen)
    BY <1>1, <1>2, <2>2, SortedPart DEF TermInv
  <2> QED
    BY <1>1, <2>1, <2>2
<1>4. TermInv'
  BY <1>2, <1>3 DEF TermInv
<1>5. ASSUME NEW p \in Server, lead'[p] = newest', newest' # 0 PROVE IsAhead(p)'
  <2>1. IsAhead(p) /\ Len(log[p]) \in Nat
    BY <1>1, <1>2, <1>5 DEF NewestInv
  <2>2. k <= Len(log[p]) /\ \A i \in 1..k : log[p][i] = log[s][i]
    <3>1. CASE p = s
      BY <1>2, <3>1
    <3>2. CASE p # s
      <4>1. lead[p] > lead[s]
        BY <1>1, <1>2, <1>5, <3>2 DEF TermInv
      <4> QED
        BY <1>2, <4>1
    <3> QED
      BY <3>1, <3>2
  <2>3. Len(chosen') <= Len(log'[p]) /\ \A i \in 1..Len(chosen') : log'[p][i] = chosen'[i]
    <3>1. \A i \in 1..Len(chosen') : i \in 1..k \/ i \in 1..Len(chosen)
      BY <1>1, <1>2
    <3>2. Len(chosen') <= Len(log'[p])
      BY <1>1, <1>2, <2>1, <2>2 DEF IsAhead
    <3>3. ASSUME NEW i \in 1..Len(chosen') PROVE log'[p][i] = chosen'[i]
      BY <1>2, <2>1, <2>2, <3>1 DEF IsAhead
    <3> QED
      BY <3>2, <3>3
  <2>4. ASSUME NEW i \in 1..Len(chosen'), chosen'[i].term = newest PROVE i <= commit'[p]
    <3>1. CASE p = s
      <4>1. CASE i <= k
        BY <1>2, <3>1, <4>1
      <4>2. CASE i > k
        <5>1. i \in 1..Len(chosen) /\ chosen[i].term = newest
          BY <1>1, <1>2, <2>4, <4>2
        <5>2. i <= commit[s]
          BY <2>1, <3>1, <5>1 DEF IsAhead
        <5> QED
          BY <1>1, <1>2, <4>2, <5>2
      <4> QED
        BY <1>1, <4>1, <4>2
    <3>2. CASE p # s
      <4>1. lead[s] < newest
        BY <1>1, <1>2, <1>5, <3>2 DEF TermInv
      <4>2. CASE i \in 1..Len(chosen)
        BY <1>2, <2>1, <2>4, <3>2, <4>2 DEF IsAhead
      <4>3. CASE i \notin 1..Len(chosen)
        <5>1. i \in 1..k /\ i \in 1..Len(log[s])
          BY <1>1, <1>2, <4>3
        <5>2. chosen'[i].term <= lead[s] /\ chosen'[i].term \in Nat
          BY <1>1, <1>2, <5>1, TermsAreNumbers DEF TermInv, Sorted
        <5> QED
          BY <1>1, <2>4, <4>1, <5>2
      <4> QED
        BY <4>2, <4>3
    <3> QED
      BY <3>1, <3>2
  <2> QED
    BY <1>2, <2>3, <2>4 DEF IsAhead
<1> QED
  BY <1>4, <1>5 DEF NewestInv

LEMMA AdoptsTerms ==
    ASSUME ServerTypeOK, TermInv, NewestInv, NEW s \in Server, NEW lg, NEW k, Adopts(s, lg, k)
    PROVE  TermInv' /\ NewestInv'
<1>1. /\ newest \in Nat /\ lead \in [Server -> Nat] /\ log \in [Server -> Seq(LoggedEntry)]
      /\ chosen \in Seq(LoggedEntry) /\ commit \in [Server -> Nat]
  BY DEF ServerTypeOK
<1>2. /\ UNCHANGED <<newest, chosen>> /\ log'[s] = lg /\ lead'[s] = 0 /\ lg \in Seq(LoggedEntry)
      /\ \A p \in Server \ {s} : log'[p] = log[p] /\ lead'[p] = lead[p] /\ commit'[p] = commit[p]
  BY <1>1 DEF Adopts
<1>3. Sorted(lg, newest)
  <2>1. PICK q \in {log[p] : p \in Server} \cup {chosen} :
          Len(lg) <= Len(q) /\ \A i \in 1..Len(lg) : lg[i] = q[i]
    BY DEF Adopts, IsPart
  <2>2. q \in Seq(LoggedEntry) /\ Sorted(q, newest)
    BY <1>1, <2>1 DEF TermInv
  <2> QED
    BY <1>1, <1>2, <2>1, <2>2, SortedPart
<1>4. TermInv'
  <2>1. \A p \in Server : Sorted(log'[p], newest) /\ (lead'[p] # 0 => Sorted(log'[p], lead'[p]))
    BY <1>2, <1>3 DEF TermInv
  <2>2. ASSUME NEW p \in Server PROVE lead'[p] <= newest
    <3>1. CASE p = s
      BY <1>1, <1>2, <3>1
    <3>2. CASE p # s
      BY <1>2, <3>2 DEF TermInv
    <3> QED
      BY <3>1, <3>2
  <2>3. ASSUME NEW p \in Server, NEW q \in Server, lead'[p] = lead'[q], lead'[p] # 0 PROVE p = q
    <3>1. p # s /\ q # s
      BY <1>2, <2>3
    <3> QED
      BY <1>2, <2>3, <3>1 DEF TermInv
  <2>4. Sorted(chosen', newest')
    BY <1>2 DEF TermInv
  <2> QED
    BY <1>2, <2>1, <2>2, <2>3, <2>4 DEF TermInv
<1>5. NewestInv'
  BY <1>2 DEF NewestInv, IsAhead
<1> QED
  BY <1>4, <1>5

LEMMA LogMovesTerms ==
    ASSUME ServerTypeOK, TermInv, NewestInv, NEW s \in Server, LogMoves(s)
    PROVE  TermInv' /\ NewestInv'
<1>1. CASE UNCHANGED raftVars
  BY <1>1 DEF raftVars, TermInv, NewestInv, IsAhead
<1> QED
  BY <1>1, WinsTerms, LogsTerms, DeclaresTerms, AdoptsTerms DEF LogMoves

(* A leader that has committed an entry of its term, and is not deposed,   *)
(* has committed all that is chosen.                                       *)
LEMMA ReadIndexIsNew ==
    ASSUME ServerTypeOK, Agreement, TermInv, NewestInv, NEW s \in Server,
           lead[s] # 0, ~(lead[s] < newest), TermIsCommitted(s)
    PROVE  commit[s] = Len(chosen)
<1>1. /\ newest \in Nat /\ lead[s] \in Nat /\ commit[s] \in Nat /\ log[s] \in Seq(LoggedEntry)
      /\ chosen \in Seq(LoggedEntry) /\ Len(chosen) \in Nat /\ Len(log[s]) \in Nat
      /\ commit[s] <= Len(chosen) /\ commit[s] <= Len(log[s])
  BY DEF ServerTypeOK, Agreement, Agrees
<1>2. lead[s] = newest
  BY <1>1 DEF TermInv
<1>3. IsAhead(s)
  BY <1>2 DEF NewestInv
<1>4. commit[s] \in 1..Len(log[s]) /\ log[s][commit[s]].term = newest
  BY <1>1, <1>2 DEF TermIsCommitted
<1> SUFFICES ASSUME commit[s] < Len(chosen) PROVE FALSE
  BY <1>1
<1>5. Len(chosen) \in 1..Len(log[s]) /\ commit[s] \in 1..Len(chosen) /\ Len(chosen) \in 1..Len(chosen)
  BY <1>1, <1>3, <1>4 DEF IsAhead
<1>6. log[s][Len(chosen)].term >= newest /\ log[s][Len(chosen)].term <= newest /\ log[s][Len(chosen)].term \in Nat
  <2>1. log[s][Len(chosen)] \in LoggedEntry
    BY <1>1, <1>5
  <2>2. log[s][Len(chosen)].term \in Nat
    BY <2>1 DEF LoggedEntry
  <2> QED
    BY <1>1, <1>4, <1>5, <2>2 DEF TermInv, Sorted
<1>7. chosen[Len(chosen)].term = newest
  BY <1>1, <1>3, <1>5, <1>6 DEF IsAhead
<1> QED
  BY <1>1, <1>3, <1>5, <1>7 DEF IsAhead

-----------------------------------------------------------------------------
(* What names an operation: its session and sequence number, and for each  *)
(* attempt a request id.                                                   *)

Invoked == {NewCommand(r) : r \in requests}
OpenCommand(c) == [client |-> c, seq |-> inflight[c].seq, op |-> inflight[c].op]
Awaits(c, req) == inflight[c] # None /\ inflight[c].req = req

ClientInv ==
    /\ \A r \in requests : r.req <= nextReq[r.client] /\ r.seq <= seq[r.client]
    /\ \A c \in Client : inflight[c] # None =>
         inflight[c].req = nextReq[c] /\ inflight[c].seq = seq[c] /\ OpenCommand(c) \in Invoked
    /\ \A r \in requests : inflight[r.client] # None =>
         /\ r.req = inflight[r.client].req => r.seq = inflight[r.client].seq
         /\ r.seq = inflight[r.client].seq => r.op = inflight[r.client].op

(* The request an attempt of c sends. *)
Attempted(c, s) == [client |-> c, to |-> s, req |-> nextReq'[c],
                    seq |-> inflight'[c].seq, op |-> inflight'[c].op]

LEMMA SendsAsks ==
    ASSUME NEW c, Sends(c)
    PROVE  \E s \in Server :
             /\ requests' = requests \cup {Attempted(c, s)}
             /\ Attempted(c, s).client = c /\ Attempted(c, s).req = nextReq'[c]
             /\ Attempted(c, s).seq = inflight'[c].seq /\ Attempted(c, s).op = inflight'[c].op
             /\ NewCommand(Attempted(c, s)) = OpenCommand(c)'
<1>1. PICK s \in Server : requests' = requests \cup {Attempted(c, s)}
  BY DEF Sends, Attempted
<1>2. /\ Attempted(c, s).client = c /\ Attempted(c, s).req = nextReq'[c]
      /\ Attempted(c, s).seq = inflight'[c].seq /\ Attempted(c, s).op = inflight'[c].op
  BY DEF Attempted
<1>3. NewCommand(Attempted(c, s)) = OpenCommand(c)'
  BY <1>2 DEF NewCommand, OpenCommand
<1> QED
  BY <1>1, <1>2, <1>3

LEMMA SendsNumbers ==
    ASSUME ClientTypeOK, ClientTypeOK', ClientInv, NEW c \in Client, ClientMoves(c), Sends(c),
           \/ Begins(c)
           \/ Retries(c)
    PROVE  ClientInv'
<1>0. /\ \A r \in requests : r.client \in Client /\ r.req \in Nat /\ r.seq \in Nat
      /\ \A d \in Client : seq[d] \in Nat /\ nextReq[d] \in Nat /\ seq'[d] \in Nat
  BY DEF ClientTypeOK, Request
<1>1. PICK s \in Server :
             /\ requests' = requests \cup {Attempted(c, s)}
             /\ Attempted(c, s).client = c /\ Attempted(c, s).req = nextReq'[c]
             /\ Attempted(c, s).seq = inflight'[c].seq /\ Attempted(c, s).op = inflight'[c].op
             /\ NewCommand(Attempted(c, s)) = OpenCommand(c)'
  BY SendsAsks
<1>2. \A d \in Client \ {c} : inflight'[d] = inflight[d] /\ seq'[d] = seq[d] /\ nextReq'[d] = nextReq[d]
  BY DEF ClientMoves
<1>3. /\ nextReq'[c] = nextReq[c] + 1 /\ inflight'[c].req = nextReq'[c] /\ inflight'[c].seq = seq'[c]
      /\ seq'[c] >= seq[c] /\ inflight'[c] # None
  <2>1. inflight'[c] # None
    BY NoneIsNone DEF Sends
  <2>2. CASE Begins(c)
    BY <1>0, <2>1, <2>2 DEF Begins, Sends
  <2>3. CASE Retries(c)
    <3>1. inflight[c].seq = seq[c]
      BY <2>3, NoneIsNone DEF Retries, ClientInv
    <3> QED
      BY <1>0, <2>1, <2>3, <3>1 DEF Retries, Sends
  <2> QED
    BY <2>2, <2>3
<1>4. ASSUME NEW r \in requests PROVE r.req <= nextReq'[r.client] /\ r.seq <= seq'[r.client]
  <2>1. r.req <= nextReq[r.client] /\ r.seq <= seq[r.client] /\ r.client \in Client
    BY <1>0 DEF ClientInv
  <2>2. CASE r.client = c
    BY <1>0, <1>3, <2>1, <2>2
  <2>3. CASE r.client # c
    BY <1>2, <2>1, <2>3
  <2> QED
    BY <2>2, <2>3
<1>5. \A r \in requests' : r.req <= nextReq'[r.client] /\ r.seq <= seq'[r.client]
  <2>1. nextReq'[c] <= nextReq'[c] /\ seq'[c] <= seq'[c]
    BY <1>0, <1>3
  <2> QED
    BY <1>1, <1>3, <1>4, <2>1
<1>6. OpenCommand(c)' \in Invoked'
  <2>1. Attempted(c, s) \in requests'
    BY <1>1
  <2>2. NewCommand(Attempted(c, s)) \in {NewCommand(r) : r \in requests'}
    BY <2>1
  <2> QED
    BY <1>1, <2>2 DEF Invoked
<1>7. ASSUME NEW d \in Client, inflight'[d] # None
      PROVE  inflight'[d].req = nextReq'[d] /\ inflight'[d].seq = seq'[d] /\ OpenCommand(d)' \in Invoked'
  <2>1. CASE d = c
    BY <1>3, <1>6, <2>1
  <2>2. CASE d # c
    <3>1. inflight[d].req = nextReq[d] /\ inflight[d].seq = seq[d] /\ OpenCommand(d) \in Invoked
      BY <1>2, <1>7, <2>2 DEF ClientInv
    <3>2. Invoked \subseteq Invoked'
      BY <1>1 DEF Invoked
    <3>3. OpenCommand(d)' = OpenCommand(d)
      BY <1>2, <2>2 DEF OpenCommand
    <3> QED
      BY <1>2, <2>2, <3>1, <3>2, <3>3
  <2> QED
    BY <2>1, <2>2
<1>8. ASSUME NEW r \in requests', inflight'[r.client] # None
      PROVE  /\ r.req = inflight'[r.client].req => r.seq = inflight'[r.client].seq
             /\ r.seq = inflight'[r.client].seq => r.op = inflight'[r.client].op
  <2>1. CASE r = Attempted(c, s)
    BY <1>1, <2>1
  <2>2. CASE r \in requests /\ r.client # c
    <3>1. r.client \in Client
      BY <1>0, <2>2
    <3> QED
      BY <1>2, <1>8, <2>2, <3>1 DEF ClientInv
  <2>3. CASE r \in requests /\ r.client = c
    <3>1. r.req # inflight'[c].req
      BY <1>0, <1>3, <2>3 DEF ClientInv
    <3>2. CASE Begins(c)
      <4>1. r.seq # inflight'[c].seq
        BY <1>0, <1>3, <2>3, <3>2 DEF ClientInv, Begins
      <4> QED
        BY <2>3, <3>1, <4>1
    <3>3. CASE Retries(c)
      <4>1. inflight[c] # None /\ inflight'[c].seq = inflight[c].seq /\ inflight'[c].op = inflight[c].op
        BY <3>3, NoneIsNone DEF Retries
      <4> QED
        BY <2>3, <3>1, <4>1 DEF ClientInv
    <3> QED
      BY <3>2, <3>3
  <2> QED
    BY <1>1, <2>1, <2>2, <2>3
<1> QED
  BY <1>5, <1>7, <1>8 DEF ClientInv

LEMMA ClientNumbers ==
    ASSUME ClientTypeOK, ClientTypeOK', ClientInv, NEW c \in Client, ClientMoves(c)
    PROVE  ClientInv'
<1>1. ASSUME Rests(c), inflight'[c] = inflight[c] \/ inflight'[c] = None PROVE ClientInv'
  <2>1. /\ requests' = requests /\ \A d \in Client : seq'[d] = seq[d] /\ nextReq'[d] = nextReq[d]
        /\ \A d \in Client : inflight'[d] = inflight[d] \/ inflight'[d] = None
    BY <1>1 DEF ClientMoves, Rests
  <2>2. \A r \in requests : r.client \in Client
    BY DEF ClientTypeOK, Request
  <2>3. \A r \in requests' : r.req <= nextReq'[r.client] /\ r.seq <= seq'[r.client]
    BY <2>1, <2>2 DEF ClientInv
  <2>4. ASSUME NEW d \in Client, inflight'[d] # None
        PROVE  inflight'[d].req = nextReq'[d] /\ inflight'[d].seq = seq'[d] /\ OpenCommand(d)' \in Invoked'
    <3>1. inflight'[d] = inflight[d]
      BY <2>1, <2>4
    <3>2. OpenCommand(d)' = OpenCommand(d) /\ Invoked' = Invoked
      BY <2>1, <3>1 DEF OpenCommand, Invoked
    <3> QED
      BY <2>1, <2>4, <3>1, <3>2 DEF ClientInv
  <2>5. ASSUME NEW r \in requests', inflight'[r.client] # None
        PROVE  /\ r.req = inflight'[r.client].req => r.seq = inflight'[r.client].seq
               /\ r.seq = inflight'[r.client].seq => r.op = inflight'[r.client].op
    BY <2>1, <2>2, <2>5 DEF ClientInv
  <2> QED
    BY <2>3, <2>4, <2>5 DEF ClientInv
<1>2. CASE Begins(c) \/ Retries(c)
  BY <1>2, SendsNumbers DEF Begins, Retries
<1> QED
  BY <1>1, <1>2 DEF ClientMoves, Idles, GivesUp, Finishes

-----------------------------------------------------------------------------
(* The effects of the prefixes of the chosen entries. *)

Took(j) == EffectsOf(SubSeq(chosen, 1, j))

LEMMA TookStart ==
    ASSUME ServerTypeOK
    PROVE  Took(0) = NoEffects
<1>1. Len(SubSeq(chosen, 1, 0)) = 0
  BY Prefix DEF ServerTypeOK
<1> QED
  BY <1>1, EffectsOfNothing DEF Took

LEMMA TookNext ==
    ASSUME ServerTypeOK, NEW j \in 1..Len(chosen)
    PROVE  Took(j) = TakeEffect(Took(j - 1), chosen[j])
<1> DEFINE a == SubSeq(chosen, 1, j)
<1>1. /\ a \in Seq(LoggedEntry) /\ Len(a) = j /\ a[j] = chosen[j]
      /\ SubSeq(a, 1, j - 1) = SubSeq(chosen, 1, j - 1)
  BY PrefixOfPrefix DEF ServerTypeOK
<1> HIDE DEF a
<1>2. Len(a) > 0
  BY <1>1
<1>3. EffectsOf(a) = TakeEffect(EffectsOf(SubSeq(a, 1, Len(a) - 1)), a[Len(a)])
  BY <1>1, <1>2, EffectsOfOneMore
<1> QED
  BY <1>1, <1>3 DEF Took, a

LEMMA TookKept ==
    ASSUME Grows, NEW j \in Nat, j <= Len(chosen)
    PROVE  Took(j)' = Took(j)
<1>1. SubSeq(chosen', 1, j) = SubSeq(chosen, 1, j)
  <2>1. j <= Len(chosen') /\ \A i \in 1..j : chosen'[i] = chosen[i]
    BY DEF Grows
  <2> QED
    BY <2>1, SamePrefix DEF Grows
<1> QED
  BY <1>1 DEF Took

LEMMA TookIsATally ==
    ASSUME ServerTypeOK, NEW j \in Nat, j <= Len(chosen)
    PROVE  /\ Took(j) \in Tally
           /\ Took(j).order \in Seq(LoggedCommand) /\ Len(Took(j).order) \in Nat
           /\ \A c \in Client : Took(j).last[c] \in Nat
<1>1. SubSeq(chosen, 1, j) \in Seq(LoggedEntry)
  BY Prefix DEF ServerTypeOK
<1>2. Took(j) \in Tally
  BY <1>1, EffectsAreATally DEF Took
<1> QED
  BY <1>2 DEF Tally

LEMMA EffectsAreTaken ==
    ASSUME ServerTypeOK
    PROVE  Effects = Took(Len(chosen)).order
<1> DEFINE a == SubSeq(chosen, 1, Len(chosen))
<1>1. chosen \in Seq(LoggedEntry) /\ Len(chosen) \in Nat
  BY DEF ServerTypeOK
<1>2. a \in Seq(LoggedEntry) /\ Len(a) = Len(chosen) /\ \A i \in 1..Len(chosen) : a[i] = chosen[i]
  BY <1>1, Prefix
<1> HIDE DEF a
<1>3. a = chosen
  BY <1>1, <1>2, SameSeq
<1> QED
  BY <1>3 DEF a, Took, Effects

(* An entry that is new to the session takes effect; others change nothing.*)
IsNew(acc, cmd) == cmd # Noop /\ ~(acc.last[cmd.client] >= cmd.seq)

LEMMA TakeEffectIs ==
    ASSUME NEW acc \in Tally, NEW entry \in LoggedEntry
    PROVE  /\ ~IsNew(acc, entry.cmd) => TakeEffect(acc, entry) = acc
           /\ IsNew(acc, entry.cmd) =>
                /\ entry.cmd \in LoggedCommand
                /\ entry.cmd.client \in Client /\ entry.cmd.seq \in Nat
                /\ acc.last[entry.cmd.client] < entry.cmd.seq
                /\ TakeEffect(acc, entry).last[entry.cmd.client] = entry.cmd.seq
                /\ \A c \in Client \ {entry.cmd.client} : TakeEffect(acc, entry).last[c] = acc.last[c]
                /\ TakeEffect(acc, entry).order =
                     IF entry.cmd.op.kind = "Get" THEN acc.order ELSE Append(acc.order, entry.cmd)
<1> DEFINE cmd == entry.cmd
<1>1. CASE ~IsNew(acc, cmd)
  <2>1. cmd = Noop \/ acc.last[cmd.client] >= cmd.seq
    BY <1>1 DEF IsNew
  <2>2. TakeEffect(acc, entry) = acc
    BY <2>1 DEF TakeEffect
  <2> QED
    BY <1>1, <2>2
<1>2. CASE IsNew(acc, cmd)
  <2>1. cmd \in LoggedCommand
    BY <1>2 DEF IsNew, LoggedEntry
  <2>2. cmd.seq \in Nat /\ cmd.client \in Client
    BY <2>1 DEF LoggedCommand
  <2>3. acc.last \in [Client -> Nat]
    BY DEF Tally
  <2> DEFINE o == IF cmd.op.kind = "Get" THEN acc.order ELSE Append(acc.order, cmd)
             l == [acc.last EXCEPT ![cmd.client] = cmd.seq]
  <2>4. TakeEffect(acc, entry) = [order |-> o, last |-> l]
    BY <1>2 DEF TakeEffect, IsNew
  <2> HIDE DEF cmd
  <2>5. l[cmd.client] = cmd.seq /\ \A c \in Client \ {cmd.client} : l[c] = acc.last[c]
    BY <2>2, <2>3
  <2>6. acc.last[cmd.client] < cmd.seq
    BY <1>2, <2>2, <2>3 DEF IsNew
  <2> HIDE DEF l
  <2>7. TakeEffect(acc, entry).last = l /\ TakeEffect(acc, entry).order = o
    BY <2>4
  <2> QED
    BY <1>2, <2>1, <2>2, <2>5, <2>6, <2>7 DEF cmd
<1> QED
  BY <1>1, <1>2

LEMMA ApplyIs ==
    ASSUME NEW machine \in Machine, NEW entry \in LoggedEntry
    PROVE  LET cmd == entry.cmd
               after == ApplyTo(machine, entry)
           IN /\ (cmd = Noop \/ IsRepeat(machine, cmd)) => after = machine
              /\ ~(cmd = Noop \/ IsRepeat(machine, cmd)) =>
                   /\ after.map = MapAfter(machine.map, cmd)
                   /\ after.sessions[cmd.client] = [seq |-> cmd.seq, outcome |-> OutcomeOf(machine.map, cmd)]
                   /\ \A c \in Client \ {cmd.client} : after.sessions[c] = machine.sessions[c]
<1> DEFINE cmd == entry.cmd
<1>1. CASE cmd = Noop \/ IsRepeat(machine, cmd)
  BY <1>1 DEF ApplyTo
<1>2. CASE ~(cmd = Noop \/ IsRepeat(machine, cmd))
  <2>1. cmd \in LoggedCommand
    BY <1>2 DEF LoggedEntry
  <2>2. cmd.client \in Client
    BY <2>1 DEF LoggedCommand
  <2> DEFINE new == [seq |-> cmd.seq, outcome |-> OutcomeOf(machine.map, cmd)]
             news == [machine.sessions EXCEPT ![cmd.client] = new]
  <2>3. ResultOf(machine, cmd) = OutcomeOf(machine.map, cmd)
    BY <1>2 DEF ResultOf
  <2>4. ApplyTo(machine, entry) = [map |-> MapAfter(machine.map, cmd), sessions |-> news]
    BY <1>2, <2>3 DEF ApplyTo
  <2>5. machine.sessions \in [Client -> Session]
    BY DEF Machine
  <2> HIDE DEF cmd, new
  <2>6. news[cmd.client] = new /\ \A c \in Client \ {cmd.client} : news[c] = machine.sessions[c]
    BY <2>2, <2>5
  <2> HIDE DEF news
  <2>7. ApplyTo(machine, entry).map = MapAfter(machine.map, cmd) /\ ApplyTo(machine, entry).sessions = news
    BY <2>4
  <2> QED
    BY <1>2, <2>6, <2>7 DEF cmd, new
<1> QED
  BY <1>1, <1>2

LEMMA OneEntry ==
    ASSUME ServerTypeOK, NEW k \in 1..Len(chosen)
    PROVE  /\ k \in Nat /\ k - 1 \in Nat /\ k <= Len(chosen) /\ k - 1 <= Len(chosen)
           /\ chosen[k] \in LoggedEntry
           /\ ImageAt(k) = ApplyTo(ImageAt(k - 1), chosen[k])
           /\ ImageAt(k - 1) \in Machine /\ ImageAt(k) \in Machine
           /\ Took(k) = TakeEffect(Took(k - 1), chosen[k])
           /\ Took(k - 1) \in Tally /\ Took(k) \in Tally
<1>1. k \in Nat /\ k - 1 \in Nat /\ k <= Len(chosen) /\ k - 1 <= Len(chosen) /\ chosen[k] \in LoggedEntry
  BY DEF ServerTypeOK
<1>2. ImageAt(k) = ApplyTo(ImageAt(k - 1), chosen[k]) /\ Took(k) = TakeEffect(Took(k - 1), chosen[k])
  BY ImageNext, TookNext
<1>3. ImageAt(k - 1) \in Machine /\ ImageAt(k) \in Machine
  BY <1>1, ImagesAreMachines
<1>4. Took(k - 1) \in Tally /\ Took(k) \in Tally
  BY <1>1, TookIsATally
<1> QED
  BY <1>1, <1>2, <1>3, <1>4

(* What makes a command a repeat for the machine makes it take no effect.  *)
LEMMA SessionsAreLast ==
    ASSUME ServerTypeOK, NEW j \in Nat, j <= Len(chosen)
    PROVE  \A c \in Client : Took(j).last[c] = ImageAt(j).sessions[c].seq
<1> DEFINE Same(k) == \A c \in Client : Took(k).last[c] = ImageAt(k).sessions[c].seq
           T == {k \in Nat : k <= Len(chosen) /\ ~Same(k)}
<1> SUFFICES ASSUME T # {} PROVE FALSE
  OBVIOUS
<1>0. Len(chosen) \in Nat
  BY DEF ServerTypeOK
<1>1. PICK k \in T : \A m \in T : k <= m
  BY Least
<1>2. k # 0
  <2>1. Same(0)
    BY TookStart, ImageStart DEF NoEffects, NewMachine
  <2> QED
    BY <2>1
<1>3. k \in 1..Len(chosen) /\ k - 1 \in Nat /\ k - 1 <= Len(chosen) /\ k - 1 \notin T
  BY <1>0, <1>1, <1>2
<1>4. Same(k - 1)
  BY <1>3
<1> DEFINE cmd == chosen[k].cmd
           acc == Took(k - 1)
           machine == ImageAt(k - 1)
<1>5. /\ chosen[k] \in LoggedEntry /\ ImageAt(k) = ApplyTo(machine, chosen[k]) /\ machine \in Machine
      /\ Took(k) = TakeEffect(acc, chosen[k]) /\ acc \in Tally
  BY <1>3, OneEntry
<1> HIDE DEF T
<1>6. CASE IsNew(acc, cmd)
  <2> HIDE DEF acc, machine
  <2>1. /\ cmd.client \in Client /\ Took(k).last[cmd.client] = cmd.seq
        /\ \A c \in Client \ {cmd.client} : Took(k).last[c] = acc.last[c]
    BY <1>5, <1>6, TakeEffectIs
  <2>2. ~(cmd = Noop \/ IsRepeat(machine, cmd))
    BY <1>4, <1>6, <2>1 DEF IsNew, IsRepeat, acc, machine
  <2>5. /\ ImageAt(k).sessions[cmd.client] = [seq |-> cmd.seq, outcome |-> OutcomeOf(machine.map, cmd)]
        /\ \A c \in Client \ {cmd.client} : ImageAt(k).sessions[c] = machine.sessions[c]
    BY <1>5, <2>2, ApplyIs
  <2>3. /\ ImageAt(k).sessions[cmd.client].seq = cmd.seq
        /\ \A c \in Client \ {cmd.client} : ImageAt(k).sessions[c] = machine.sessions[c]
    BY <2>5
  <2>4. Same(k)
    BY <1>4, <2>1, <2>3 DEF acc, machine
  <2> QED
    BY <2>4 DEF T
<1>7. CASE ~IsNew(acc, cmd)
  <2> HIDE DEF acc, machine
  <2>1. Took(k) = acc
    BY <1>5, <1>7, TakeEffectIs
  <2>2. cmd = Noop \/ IsRepeat(machine, cmd)
    <3>1. cmd # Noop => cmd \in LoggedCommand
      BY <1>5 DEF LoggedEntry
    <3>2. cmd # Noop => cmd.client \in Client
      BY <3>1 DEF LoggedCommand
    <3> QED
      BY <1>4, <1>7, <3>2 DEF IsNew, IsRepeat, acc, machine
  <2>3. ImageAt(k) = machine
    BY <1>5, <2>2, ApplyIs
  <2>4. Same(k)
    BY <1>4, <2>1, <2>3 DEF acc, machine
  <2> QED
    BY <2>4 DEF T
<1> QED
  BY <1>6, <1>7

LEMMA NewIsNoRepeat ==
    ASSUME ServerTypeOK, NEW k \in 1..Len(chosen)
    PROVE  IsNew(Took(k - 1), chosen[k].cmd) <=>
               ~(chosen[k].cmd = Noop \/ IsRepeat(ImageAt(k - 1), chosen[k].cmd))
<1>1. k - 1 \in Nat /\ k - 1 <= Len(chosen) /\ chosen[k] \in LoggedEntry
  BY OneEntry
<1>2. chosen[k].cmd # Noop => chosen[k].cmd \in LoggedCommand
  BY <1>1 DEF LoggedEntry
<1>3. chosen[k].cmd # Noop => chosen[k].cmd.client \in Client
  BY <1>2 DEF LoggedCommand
<1> QED
  BY <1>1, <1>3, SessionsAreLast DEF IsNew, IsRepeat

(* The order of the effects only grows. *)
IsBefore(p, q) == Len(p) <= Len(q) /\ \A n \in 1..Len(p) : q[n] = p[n]

LEMMA OrderGrows ==
    ASSUME ServerTypeOK, NEW i \in Nat, NEW j \in Nat, i <= j, j <= Len(chosen)
    PROVE  IsBefore(Took(i).order, Took(j).order)
<1> DEFINE P(k) == IsBefore(Took(i).order, Took(k).order)
           T == {k \in Nat : i <= k /\ k <= Len(chosen) /\ ~P(k)}
<1> SUFFICES ASSUME T # {} PROVE FALSE
  OBVIOUS
<1>0. Len(chosen) \in Nat
  BY DEF ServerTypeOK
<1>1. PICK k \in T : \A m \in T : k <= m
  BY Least
<1>2. Took(i).order \in Seq(LoggedCommand) /\ Len(Took(i).order) \in Nat
  BY <1>0, TookIsATally
<1>3. k # i
  <2>1. P(i)
    BY <1>2 DEF IsBefore
  <2> QED
    BY <2>1
<1>4. k \in 1..Len(chosen) /\ k - 1 \in Nat /\ k - 1 >= i /\ k - 1 <= Len(chosen) /\ k - 1 \notin T
  BY <1>0, <1>1, <1>3
<1>5. P(k - 1)
  BY <1>4
<1>6. /\ chosen[k] \in LoggedEntry /\ Took(k) = TakeEffect(Took(k - 1), chosen[k]) /\ Took(k - 1) \in Tally
  BY <1>4, OneEntry
<1>7. Took(k - 1).order \in Seq(LoggedCommand) /\ Len(Took(k - 1).order) \in Nat
  BY <1>4, TookIsATally
<1> HIDE DEF T
<1>8. \/ Took(k).order = Took(k - 1).order
      \/ Took(k).order = Append(Took(k - 1).order, chosen[k].cmd)
  BY <1>6, TakeEffectIs
<1>9. P(k)
  <2>1. CASE Took(k).order = Took(k - 1).order
    BY <1>5, <2>1
  <2>2. CASE Took(k).order = Append(Took(k - 1).order, chosen[k].cmd)
    <3>1. /\ Len(Took(k).order) = Len(Took(k - 1).order) + 1
          /\ \A n \in 1..Len(Took(k - 1).order) : Took(k).order[n] = Took(k - 1).order[n]
      BY <1>7, <2>2
    <3> QED
      BY <1>2, <1>5, <1>7, <3>1 DEF IsBefore
  <2> QED
    BY <1>8, <2>1, <2>2
<1> QED
  BY <1>9 DEF T

-----------------------------------------------------------------------------
(* The map after the first n effects, as the atomic store counts them. *)

MapsAlong(g, order, n) ==
    g = [i \in 0..n |-> IF i = 0 THEN EmptyMap ELSE MapAfter(g[i - 1], order[i])]

LEMMA MapsExist ==
    ASSUME NEW order, NEW n \in Nat
    PROVE  \E g : MapsAlong(g, order, n)
<1> DEFINE T == {k \in Nat : ~ \E g : MapsAlong(g, order, k)}
<1> SUFFICES ASSUME T # {} PROVE FALSE
  OBVIOUS
<1>1. PICK k \in T : \A j \in T : k <= j
  BY Least
<1>2. k # 0
  <2> DEFINE h == [i \in 0..0 |-> EmptyMap]
  <2>1. h = [i \in 0..0 |-> IF i = 0 THEN EmptyMap ELSE MapAfter(h[i - 1], order[i])]
    OBVIOUS
  <2>2. MapsAlong(h, order, 0)
    BY <2>1 DEF MapsAlong
  <2> QED
    BY <2>2
<1>3. k - 1 \in Nat /\ k - 1 \notin T
  BY <1>1, <1>2
<1>4. PICK g : MapsAlong(g, order, k - 1)
  BY <1>3
<1> DEFINE h == [i \in 0..k |-> IF i = k THEN MapAfter(g[k - 1], order[k]) ELSE g[i]]
<1>5. \A i \in 0..k : h[i] = IF i = 0 THEN EmptyMap ELSE MapAfter(h[i - 1], order[i])
  BY <1>2, <1>3, <1>4 DEF MapsAlong
<1>6. h = [i \in 0..k |-> IF i = 0 THEN EmptyMap ELSE MapAfter(h[i - 1], order[i])]
  BY <1>5
<1>7. MapsAlong(h, order, k)
  BY <1>6 DEF MapsAlong
<1> QED
  BY <1>7

LEMMA MapsAgree ==
    ASSUME NEW order, NEW n \in Nat, NEW m \in Nat, NEW g, NEW h,
           MapsAlong(g, order, n), MapsAlong(h, order, m), NEW l \in Nat, l <= n, l <= m
    PROVE  g[l] = h[l]
<1> DEFINE T == {k \in Nat : k <= l /\ g[k] # h[k]}
<1> SUFFICES ASSUME T # {} PROVE FALSE
  OBVIOUS
<1>1. PICK k \in T : \A j \in T : k <= j
  BY Least
<1>2. k # 0
  BY DEF MapsAlong
<1>3. k - 1 \in Nat /\ k - 1 \notin T /\ k \in 1..l /\ k \in 0..n /\ k \in 0..m
  BY <1>1, <1>2
<1>4. g[k - 1] = h[k - 1]
  BY <1>3
<1>5. g[k] = MapAfter(g[k - 1], order[k]) /\ h[k] = MapAfter(h[k - 1], order[k])
  BY <1>2, <1>3 DEF MapsAlong
<1> QED
  BY <1>3, <1>4, <1>5

LEMMA MapAtIs ==
    ASSUME NEW n \in Nat
    PROVE  \E g : MapsAlong(g, Effects, n) /\ Store!MapAt(n) = g[n]
<1> DEFINE a == CHOOSE g : MapsAlong(g, Effects, n)
<1>1. MapsAlong(a, Effects, n)
  BY MapsExist
<1>2. Store!MapAt(n) = a[n]
  BY DEF Store!MapAt, MapsAlong, Store!MapAfter, MapAfter, Store!EmptyMap, EmptyMap
<1> QED
  BY <1>1, <1>2

LEMMA MapAtNext ==
    /\ Store!MapAt(0) = EmptyMap
    /\ \A n \in Nat \ {0} : Store!MapAt(n) = MapAfter(Store!MapAt(n - 1), Effects[n])
<1>1. Store!MapAt(0) = EmptyMap
  BY MapAtIs DEF MapsAlong
<1>2. ASSUME NEW n \in Nat \ {0} PROVE Store!MapAt(n) = MapAfter(Store!MapAt(n - 1), Effects[n])
  <2>1. n - 1 \in Nat
    OBVIOUS
  <2>2. PICK g : MapsAlong(g, Effects, n) /\ Store!MapAt(n) = g[n]
    BY MapAtIs
  <2>3. PICK h : MapsAlong(h, Effects, n - 1) /\ Store!MapAt(n - 1) = h[n - 1]
    BY <2>1, MapAtIs
  <2>4. g[n - 1] = h[n - 1]
    BY <2>1, <2>2, <2>3, MapsAgree
  <2>5. g[n] = MapAfter(g[n - 1], Effects[n])
    BY <2>1, <2>2 DEF MapsAlong
  <2> QED
    BY <2>2, <2>3, <2>4, <2>5
<1> QED
  BY <1>1, <1>2

LEMMA GetsChangeNothing ==
    ASSUME NEW map, NEW cmd, cmd.op.kind = "Get"
    PROVE  MapAfter(map, cmd) = map
BY DEF MapAfter

(* The image of the first j entries holds the map of their effects.        *)
LEMMA ImagesAreVersions ==
    ASSUME ServerTypeOK, NEW j \in Nat, j <= Len(chosen)
    PROVE  ImageAt(j).map = Store!MapAt(Len(Took(j).order))
<1> DEFINE P(k) == ImageAt(k).map = Store!MapAt(Len(Took(k).order))
           T == {k \in Nat : k <= Len(chosen) /\ ~P(k)}
<1> SUFFICES ASSUME T # {} PROVE FALSE
  OBVIOUS
<1>0. Len(chosen) \in Nat
  BY DEF ServerTypeOK
<1>1. PICK k \in T : \A m \in T : k <= m
  BY Least
<1>2. k # 0
  <2>1. ImageAt(0).map = EmptyMap /\ Len(Took(0).order) = 0
    BY TookStart, ImageStart DEF NoEffects, NewMachine
  <2>2. P(0)
    BY <2>1, MapAtNext
  <2> QED
    BY <2>2
<1>3. k \in 1..Len(chosen) /\ k - 1 \in Nat /\ k - 1 <= Len(chosen) /\ k - 1 \notin T
  BY <1>0, <1>1, <1>2
<1>4. P(k - 1)
  BY <1>3
<1> DEFINE cmd == chosen[k].cmd
<1>5. /\ chosen[k] \in LoggedEntry /\ ImageAt(k) = ApplyTo(ImageAt(k - 1), chosen[k]) /\ ImageAt(k - 1) \in Machine
      /\ Took(k) = TakeEffect(Took(k - 1), chosen[k]) /\ Took(k - 1) \in Tally
  BY <1>3, OneEntry
<1>6. k \in Nat /\ k <= Len(chosen)
  BY <1>0, <1>3
<1> HIDE DEF T
<1>7. CASE ~IsNew(Took(k - 1), cmd)
  <2>1. Took(k) = Took(k - 1)
    BY <1>5, <1>7, TakeEffectIs
  <2>2. cmd = Noop \/ IsRepeat(ImageAt(k - 1), cmd)
    BY <1>3, <1>7, NewIsNoRepeat
  <2>3. ImageAt(k) = ImageAt(k - 1)
    BY <1>5, <2>2, ApplyIs
  <2> QED
    BY <1>4, <2>1, <2>3 DEF T
<1>8. CASE IsNew(Took(k - 1), cmd)
  <2>1. Took(k).order = IF cmd.op.kind = "Get" THEN Took(k - 1).order ELSE Append(Took(k - 1).order, cmd)
    BY <1>5, <1>8, TakeEffectIs
  <2>2. ~(cmd = Noop \/ IsRepeat(ImageAt(k - 1), cmd))
    BY <1>3, <1>8, NewIsNoRepeat
  <2>3. ImageAt(k).map = MapAfter(ImageAt(k - 1).map, cmd)
    <3>1. ApplyTo(ImageAt(k - 1), chosen[k]).map = MapAfter(ImageAt(k - 1).map, chosen[k].cmd)
      BY <1>5, <2>2, ApplyIs
    <3> QED
      BY <1>5, <3>1
  <2>4. CASE cmd.op.kind = "Get"
    BY <1>4, <2>1, <2>3, <2>4, GetsChangeNothing DEF T
  <2>5. CASE cmd.op.kind # "Get"
    <3> DEFINE n == Len(Took(k).order)
    <3>1. Took(k - 1).order \in Seq(LoggedCommand) /\ Len(Took(k - 1).order) \in Nat
      BY <1>3, TookIsATally
    <3>2. Took(k).order = Append(Took(k - 1).order, cmd)
      BY <2>1, <2>5
    <3>3. n = Len(Took(k - 1).order) + 1 /\ Took(k).order[n] = cmd
      BY <3>1, <3>2
    <3>4. n \in Nat \ {0} /\ n - 1 = Len(Took(k - 1).order) /\ n \in 1..Len(Took(k).order)
      BY <3>1, <3>3
    <3>5. Effects[n] = cmd
      <4>1. IsBefore(Took(k).order, Took(Len(chosen)).order)
        BY <1>0, <1>6, OrderGrows
      <4> QED
        BY <3>3, <3>4, <4>1, EffectsAreTaken DEF IsBefore
    <3> HIDE DEF n
    <3>6. Store!MapAt(n) = MapAfter(Store!MapAt(n - 1), Effects[n])
      BY <3>4, MapAtNext
    <3>7. ImageAt(k).map = Store!MapAt(n)
      BY <1>4, <2>3, <3>4, <3>5, <3>6
    <3> QED
      BY <3>7 DEF n, T
  <2> QED
    BY <2>4, <2>5
<1> QED
  BY <1>7, <1>8

(* The command of the i-th entry took effect there, with this outcome.     *)
DoneAt(cmd, i, outcome) ==
    /\ i \in 1..Len(chosen) /\ chosen[i].cmd = cmd /\ cmd \in LoggedCommand
    /\ IsNew(Took(i - 1), cmd)
    /\ outcome = OutcomeOf(ImageAt(i - 1).map, cmd)

(* What a session remembers is what its last command did.                  *)
Remembers(c, session) ==
    \E i \in 1..Len(chosen) : \E cmd \in LoggedCommand :
        DoneAt(cmd, i, session.outcome) /\ cmd.client = c /\ cmd.seq = session.seq

LEMMA SessionsAreDone ==
    ASSUME ServerTypeOK, NEW j \in Nat, j <= Len(chosen), NEW c \in Client,
           ImageAt(j).sessions[c].seq # 0
    PROVE  Remembers(c, ImageAt(j).sessions[c])
<1> DEFINE P(k) == ImageAt(k).sessions[c].seq # 0 => Remembers(c, ImageAt(k).sessions[c])
           T == {k \in Nat : k <= Len(chosen) /\ ~P(k)}
<1> SUFFICES ASSUME T # {} PROVE FALSE
  OBVIOUS
<1>0. Len(chosen) \in Nat
  BY DEF ServerTypeOK
<1>1. PICK k \in T : \A m \in T : k <= m
  BY Least
<1>2. k # 0
  <2>1. ImageAt(0).sessions[c].seq = 0
    BY ImageStart DEF NewMachine
  <2> QED
    BY <2>1
<1>3. k \in 1..Len(chosen) /\ k - 1 \in Nat /\ k - 1 <= Len(chosen) /\ k - 1 \notin T
  BY <1>0, <1>1, <1>2
<1>4. P(k - 1)
  BY <1>3
<1> DEFINE cmd == chosen[k].cmd
           machine == ImageAt(k - 1)
<1>5. /\ chosen[k] \in LoggedEntry /\ ImageAt(k) = ApplyTo(machine, chosen[k]) /\ machine \in Machine
      /\ Took(k - 1) \in Tally
  BY <1>3, OneEntry
<1> HIDE DEF T
<1>6. CASE ~IsNew(Took(k - 1), cmd)
  <2>1. cmd = Noop \/ IsRepeat(machine, cmd)
    BY <1>3, <1>6, NewIsNoRepeat
  <2>2. ImageAt(k) = machine
    BY <1>5, <2>1, ApplyIs
  <2> QED
    BY <1>4, <2>2 DEF T
<1>7. CASE IsNew(Took(k - 1), cmd)
  <2>1. ~(cmd = Noop \/ IsRepeat(machine, cmd))
    BY <1>3, <1>7, NewIsNoRepeat
  <2>2. /\ ApplyTo(machine, chosen[k]).sessions[cmd.client] =
             [seq |-> cmd.seq, outcome |-> OutcomeOf(machine.map, cmd)]
        /\ \A d \in Client \ {cmd.client} : ApplyTo(machine, chosen[k]).sessions[d] = machine.sessions[d]
    BY <1>5, <2>1, ApplyIs
  <2>3. CASE c # cmd.client
    BY <1>4, <1>5, <2>2, <2>3 DEF T
  <2>4. CASE c = cmd.client
    <3>1. /\ ImageAt(k).sessions[c].seq = cmd.seq
          /\ ImageAt(k).sessions[c].outcome = OutcomeOf(machine.map, cmd)
      BY <1>5, <2>2, <2>4
    <3>2. cmd \in LoggedCommand
      BY <1>5, <1>7, TakeEffectIs
    <3>3. DoneAt(cmd, k, ImageAt(k).sessions[c].outcome)
      BY <1>3, <1>7, <3>1, <3>2 DEF DoneAt
    <3>4. Remembers(c, ImageAt(k).sessions[c])
      BY <1>3, <2>4, <3>1, <3>2, <3>3 DEF Remembers
    <3> QED
      BY <3>4 DEF T
  <2> QED
    BY <2>3, <2>4
<1> QED
  BY <1>6, <1>7

(* Every effect is that of a chosen command, and no two are the same.      *)
IsSound(j) == \A n \in 1..Len(Took(j).order) :
    LET cmd == Took(j).order[n] IN
    /\ cmd.seq <= Took(j).last[cmd.client]
    /\ \E i \in 1..j : chosen[i].cmd = cmd
    /\ \A m \in 1..(n - 1) : Took(j).order[m] # cmd

LEMMA EffectsAreSound ==
    ASSUME ServerTypeOK, NEW j \in Nat, j <= Len(chosen)
    PROVE  IsSound(j)
<1> DEFINE T == {k \in Nat : k <= Len(chosen) /\ ~IsSound(k)}
<1> SUFFICES ASSUME T # {} PROVE FALSE
  OBVIOUS
<1>0. Len(chosen) \in Nat
  BY DEF ServerTypeOK
<1>1. PICK k \in T : \A m \in T : k <= m
  BY Least
<1>2. k # 0
  <2>1. Len(Took(0).order) = 0
    BY TookStart DEF NoEffects
  <2>2. IsSound(0)
    BY <2>1 DEF IsSound
  <2> QED
    BY <2>2
<1>3. k \in 1..Len(chosen) /\ k - 1 \in Nat /\ k - 1 <= Len(chosen) /\ k - 1 \notin T /\ k \in Nat
  BY <1>0, <1>1, <1>2
<1>4. IsSound(k - 1)
  BY <1>3
<1> DEFINE cmd == chosen[k].cmd
           acc == Took(k - 1)
           new == Took(k)
<1>5. /\ chosen[k] \in LoggedEntry /\ new = TakeEffect(acc, chosen[k]) /\ acc \in Tally /\ new \in Tally
  BY <1>3, OneEntry
<1>6. /\ acc.order \in Seq(LoggedCommand) /\ Len(acc.order) \in Nat
      /\ \A c \in Client : acc.last[c] \in Nat /\ new.last[c] \in Nat
      /\ \A n \in 1..Len(acc.order) : acc.order[n].client \in Client /\ acc.order[n].seq \in Nat
  <2>1. acc.order \in Seq(LoggedCommand) /\ Len(acc.order) \in Nat
    BY <1>3, TookIsATally
  <2>2. \A c \in Client : acc.last[c] \in Nat /\ new.last[c] \in Nat
    BY <1>5 DEF Tally
  <2>3. ASSUME NEW n \in 1..Len(acc.order) PROVE acc.order[n].client \in Client /\ acc.order[n].seq \in Nat
    <3> HIDE DEF acc
    <3>1. acc.order[n] \in LoggedCommand
      BY <2>1
    <3> QED
      BY <3>1 DEF LoggedCommand
  <2> QED
    BY <2>1, <2>2, <2>3
<1>7. ASSUME NEW n \in 1..Len(acc.order)
      PROVE  /\ acc.order[n].seq <= acc.last[acc.order[n].client]
             /\ \E i \in 1..k : chosen[i].cmd = acc.order[n]
             /\ \A m \in 1..(n - 1) : acc.order[m] # acc.order[n]
  <2>1. /\ acc.order[n].seq <= acc.last[acc.order[n].client]
        /\ \E i \in 1..(k - 1) : chosen[i].cmd = acc.order[n]
        /\ \A m \in 1..(n - 1) : acc.order[m] # acc.order[n]
    BY <1>4 DEF IsSound
  <2>2. \A i \in 1..(k - 1) : i \in 1..k
    BY <1>3
  <2> QED
    BY <2>1, <2>2
<1> HIDE DEF T, acc, new
<1>8. CASE ~IsNew(acc, cmd)
  <2>1. new = acc
    BY <1>5, <1>8, TakeEffectIs
  <2>2. IsSound(k)
    BY <1>7, <2>1 DEF IsSound, new
  <2> QED
    BY <2>2 DEF T
<1>9. CASE IsNew(acc, cmd)
  <2>1. /\ cmd.client \in Client /\ cmd.seq \in Nat /\ acc.last[cmd.client] < cmd.seq
        /\ new.last[cmd.client] = cmd.seq
        /\ \A c \in Client \ {cmd.client} : new.last[c] = acc.last[c]
        /\ new.order = IF cmd.op.kind = "Get" THEN acc.order ELSE Append(acc.order, cmd)
    BY <1>5, <1>9, TakeEffectIs
  <2>2. ASSUME NEW c \in Client PROVE acc.last[c] <= new.last[c]
    <3>1. CASE c = cmd.client
      BY <1>6, <2>1, <3>1
    <3>2. CASE c # cmd.client
      BY <1>6, <2>1, <3>2
    <3> QED
      BY <3>1, <3>2
  <2>3. ASSUME NEW n \in 1..Len(acc.order) PROVE acc.order[n].seq <= new.last[acc.order[n].client]
    <3>1. PICK c \in Client : c = acc.order[n].client
      BY <1>6
    <3>2. PICK q \in Nat : q = acc.order[n].seq
      BY <1>6
    <3>3. q <= acc.last[c] /\ acc.last[c] <= new.last[c]
      BY <1>7, <2>2, <3>1, <3>2
    <3>4. q <= new.last[c]
      BY <1>6, <3>3
    <3> QED
      BY <3>1, <3>2, <3>4
  <2>4. CASE cmd.op.kind = "Get"
    <3>1. new.order = acc.order
      BY <2>1, <2>4
    <3>2. IsSound(k)
      BY <1>7, <2>3, <3>1 DEF IsSound, new
    <3> QED
      BY <3>2 DEF T
  <2>5. CASE cmd.op.kind # "Get"
    <3>1. new.order = Append(acc.order, cmd)
      BY <2>1, <2>5
    <3> DEFINE l == Len(acc.order)
    <3>2. /\ Len(new.order) = l + 1 /\ new.order[l + 1] = cmd
          /\ \A n \in 1..l : new.order[n] = acc.order[n]
      BY <1>6, <3>1
    <3>3. \A n \in 1..l : acc.order[n] # cmd
      <4> SUFFICES ASSUME NEW n \in 1..l, acc.order[n] = cmd PROVE FALSE
        OBVIOUS
      <4>1. cmd.seq <= acc.last[cmd.client]
        BY <1>7
      <4> QED
        BY <1>6, <2>1, <4>1
    <3>4. ASSUME NEW n \in 1..Len(new.order)
          PROVE  /\ new.order[n].seq <= new.last[new.order[n].client]
                 /\ \E i \in 1..k : chosen[i].cmd = new.order[n]
                 /\ \A m \in 1..(n - 1) : new.order[m] # new.order[n]
      <4>1. CASE n \in 1..l
        <5>1. \A m \in 1..(n - 1) : m \in 1..l
          BY <1>6, <4>1
        <5> QED
          BY <1>7, <2>3, <3>2, <4>1, <5>1
      <4>2. CASE n = l + 1
        <5>1. \A m \in 1..(n - 1) : m \in 1..l
          BY <1>6, <4>2
        <5>2. k \in 1..k /\ cmd.seq <= cmd.seq
          BY <1>3, <2>1
        <5> QED
          BY <2>1, <3>2, <3>3, <4>2, <5>1, <5>2
      <4> QED
        BY <1>6, <3>2, <4>1, <4>2
    <3>5. IsSound(k)
      BY <3>4 DEF IsSound, new
    <3> QED
      BY <3>5 DEF T
  <2> QED
    BY <2>4, <2>5
<1> QED
  BY <1>8, <1>9

-----------------------------------------------------------------------------
(* Everything the servers hold comes from a request. *)

Sourced(lg) == \A i \in 1..Len(lg) : lg[i].cmd \in Invoked \cup {Noop}
LogInv == (\A s \in Server : Sourced(log[s])) /\ Sourced(chosen)

SlotFrom(w) == \E r \in requests : r.client = w.client /\ r.req = w.req /\ r.seq = w.seq
ReadFrom(d) == \E r \in requests :
    r.client = d.client /\ r.req = d.req /\ r.op.kind = "Get" /\ r.op.key = d.key
ReplyFrom(m) == \E r \in requests : r.client = m.client /\ r.req = m.req

(* What a server's step does to the agreed log. *)
RaftCase(s) ==
    \/ UNCHANGED raftVars
    \/ Wins(s)
    \/ \E r \in requests : NewCommand(r) \in LoggedCommand /\ Logs(s, NewCommand(r))
    \/ \E k \in Nat : Declares(s, k)
    \/ \E lg \in Seq(LoggedEntry), k \in Nat : Adopts(s, lg, k)

LEMMA ServerMovesRaft ==
    ASSUME NEW s \in Server, ServerMoves(s)
    PROVE  RaftCase(s)
<1>1. ASSUME NEW r \in requests, AnswersAtOnce(s, r) PROVE UNCHANGED raftVars
  BY <1>1 DEF AnswersAtOnce, Replies
<1>2. ASSUME NEW r \in requests, NEW i, Joins(s, r, i) PROVE UNCHANGED raftVars
  BY <1>2 DEF Joins
<1>3. ASSUME NEW r \in requests, Proposing(s, r)
      PROVE  NewCommand(r) \in LoggedCommand /\ Logs(s, NewCommand(r))
  BY <1>3 DEF Proposing
<1>4. ASSUME LogMoving(s) PROVE RaftCase(s)
  BY <1>4 DEF LogMoving, RaftCase
<1>5. ASSUME NEW lg, NEW k, NEW j, Resets(s, lg, k, j)
      PROVE  \E lh \in Seq(LoggedEntry), l \in Nat : Adopts(s, lh, l)
  BY <1>5 DEF Resets
<1> QED
  BY <1>1, <1>2, <1>3, <1>4, <1>5 DEF ServerMoves, RaftCase, Reading, Confirming

LEMMA RaftCaseTerms ==
    ASSUME ServerTypeOK, Agreement, TermInv, NewestInv, NEW s \in Server, RaftCase(s)
    PROVE  TermInv' /\ NewestInv' /\ Grows
<1>1. CASE UNCHANGED raftVars
  BY <1>1, LogMovesTerms, LogMovesGrows DEF LogMoves
<1>2. CASE Wins(s)
  BY <1>2, LogMovesTerms, LogMovesGrows DEF LogMoves
<1>3. ASSUME NEW cmd \in LoggedCommand, Logs(s, cmd) PROVE TermInv' /\ NewestInv' /\ Grows
  BY <1>3, LogMovesTerms, LogMovesGrows DEF LogMoves
<1>4. ASSUME NEW k \in Nat, Declares(s, k) PROVE TermInv' /\ NewestInv' /\ Grows
  BY <1>4, LogMovesTerms, LogMovesGrows DEF LogMoves
<1>5. ASSUME NEW lg, NEW k, Adopts(s, lg, k) PROVE TermInv' /\ NewestInv' /\ Grows
  <2>1. TermInv' /\ NewestInv'
    BY <1>5, AdoptsTerms
  <2>2. Grows
    BY <1>5 DEF Adopts, Grows, ServerTypeOK
  <2> QED
    BY <2>1, <2>2
<1> QED
  BY <1>1, <1>2, <1>3, <1>4, <1>5 DEF RaftCase

LEMMA RaftCaseSources ==
    ASSUME ServerTypeOK, Agreement, LogInv, NEW s \in Server, RaftCase(s), requests' = requests
    PROVE  LogInv'
<1>0. /\ log \in [Server -> Seq(LoggedEntry)] /\ chosen \in Seq(LoggedEntry)
      /\ log[s] \in Seq(LoggedEntry) /\ Len(log[s]) \in Nat /\ Len(chosen) \in Nat
  BY DEF ServerTypeOK
<1>1. Invoked' = Invoked
  BY DEF Invoked
<1>2. ASSUME NEW e, e.cmd \in Invoked \cup {Noop}, log' = [log EXCEPT ![s] = Append(@, e)], chosen' = chosen
      PROVE  LogInv'
  <2>1. log'[s] = Append(log[s], e) /\ \A p \in Server \ {s} : log'[p] = log[p]
    BY <1>0, <1>2
  <2>2. /\ Len(log'[s]) = Len(log[s]) + 1 /\ log'[s][Len(log[s]) + 1] = e
        /\ \A i \in 1..Len(log[s]) : log'[s][i] = log[s][i]
    BY <1>0, <2>1
  <2>3. ASSUME NEW i \in 1..Len(log'[s]) PROVE log'[s][i].cmd \in Invoked' \cup {Noop}
    <3>1. CASE i \in 1..Len(log[s])
      BY <1>1, <2>2, <3>1 DEF LogInv, Sourced
    <3>2. CASE i = Len(log[s]) + 1
      BY <1>1, <1>2, <2>2, <3>2
    <3> QED
      BY <1>0, <2>2, <3>1, <3>2
  <2>4. \A p \in Server : Sourced(log[p])'
    BY <1>1, <2>1, <2>3 DEF LogInv, Sourced
  <2>5. Sourced(chosen)'
    BY <1>1, <1>2 DEF LogInv, Sourced
  <2> QED
    BY <2>4, <2>5 DEF LogInv
<1>3. CASE UNCHANGED raftVars
  BY <1>1, <1>3 DEF raftVars, LogInv, Sourced
<1>4. CASE Wins(s)
  <2> DEFINE e == [term |-> newest + 1, cmd |-> Noop]
  <2>1. e.cmd \in Invoked \cup {Noop} /\ log' = [log EXCEPT ![s] = Append(@, e)] /\ chosen' = chosen
    BY <1>4 DEF Wins
  <2> HIDE DEF e
  <2> QED
    BY <1>2, <2>1
<1>5. ASSUME NEW r \in requests, Logs(s, NewCommand(r)) PROVE LogInv'
  <2> DEFINE e == [term |-> lead[s], cmd |-> NewCommand(r)]
  <2>1. NewCommand(r) \in Invoked
    BY DEF Invoked
  <2>2. e.cmd \in Invoked \cup {Noop} /\ log' = [log EXCEPT ![s] = Append(@, e)] /\ chosen' = chosen
    BY <1>5, <2>1 DEF Logs
  <2> HIDE DEF e
  <2> QED
    BY <1>2, <2>2
<1>6. ASSUME NEW k \in Nat, Declares(s, k) PROVE LogInv'
  <2>1. /\ log' = log /\ k <= Len(log[s]) /\ Len(chosen') = (IF k > Len(chosen) THEN k ELSE Len(chosen))
        /\ \A i \in 1..Len(chosen) : chosen'[i] = chosen[i]
        /\ \A i \in 1..k : chosen'[i] = log[s][i]
    BY <1>6 DEF Declares
  <2>2. ASSUME NEW i \in 1..Len(chosen') PROVE chosen'[i].cmd \in Invoked \cup {Noop}
    <3>1. CASE i \in 1..Len(chosen)
      BY <2>1, <3>1 DEF LogInv, Sourced
    <3>2. CASE i \notin 1..Len(chosen)
      <4>1. i \in 1..k /\ i \in 1..Len(log[s])
        BY <1>0, <2>1, <3>2
      <4> QED
        BY <2>1, <4>1 DEF LogInv, Sourced
    <3> QED
      BY <3>1, <3>2
  <2> QED
    BY <1>1, <2>1, <2>2 DEF LogInv, Sourced
<1>7. ASSUME NEW lg, NEW k, Adopts(s, lg, k) PROVE LogInv'
  <2>1. /\ lg \in Seq(LoggedEntry) /\ chosen' = chosen /\ log'[s] = lg /\ \A p \in Server \ {s} : log'[p] = log[p]
    BY <1>0, <1>7 DEF Adopts
  <2>2. PICK q \in {log[p] : p \in Server} \cup {chosen} :
          Len(lg) <= Len(q) /\ \A i \in 1..Len(lg) : lg[i] = q[i]
    BY <1>7 DEF Adopts, IsPart
  <2>3. Sourced(q) /\ q \in Seq(LoggedEntry)
    BY <1>0, <2>2 DEF LogInv
  <2>4. ASSUME NEW i \in 1..Len(lg) PROVE lg[i].cmd \in Invoked \cup {Noop}
    <3>1. i \in 1..Len(q)
      BY <2>1, <2>2, <2>3
    <3> QED
      BY <2>2, <2>3, <3>1 DEF Sourced
  <2>5. \A p \in Server : Sourced(log[p])'
    BY <1>1, <2>1, <2>4 DEF LogInv, Sourced
  <2> QED
    BY <1>1, <2>1, <2>5 DEF LogInv, Sourced
<1> QED
  BY <1>3, <1>4, <1>5, <1>6, <1>7 DEF RaftCase

-----------------------------------------------------------------------------
(* The effects of the next state. *)

OrderOnlyGrows ==
    ServerTypeOK => \A i, j \in Nat : i <= j /\ j <= Len(chosen) =>
        /\ IsBefore(Took(i).order, Took(j).order)
        /\ Len(Took(i).order) \in Nat /\ Len(Took(j).order) \in Nat
EffectsAreAll == ServerTypeOK => \A n \in Nat : n = Len(chosen) => Effects = Took(n).order

LEMMA NextEffects == OrderOnlyGrows' /\ EffectsAreAll'
<1>1. OrderOnlyGrows
  <2> SUFFICES ASSUME ServerTypeOK, NEW i \in Nat, NEW j \in Nat, i <= j, j <= Len(chosen)
               PROVE  /\ IsBefore(Took(i).order, Took(j).order)
                      /\ Len(Took(i).order) \in Nat /\ Len(Took(j).order) \in Nat
    BY DEF OrderOnlyGrows
  <2>1. i <= Len(chosen)
    BY DEF ServerTypeOK
  <2> QED
    BY <2>1, OrderGrows, TookIsATally
<1>2. EffectsAreAll
  BY EffectsAreTaken DEF EffectsAreAll
<1> QED
  BY <1>1, <1>2, PTL

LEMMA EffectsOnlyGrow ==
    ASSUME ServerTypeOK, ServerTypeOK', Grows
    PROVE  /\ Len(Effects) \in Nat /\ Len(Effects') \in Nat
           /\ IsBefore(Effects, Effects')
           /\ \A i \in Nat : Len(chosen) <= i /\ i <= Len(chosen') => Len(Effects) <= Len(Took(i)'.order)
<1>1. PICK n \in Nat : n = Len(chosen)
  BY DEF ServerTypeOK
<1>2. PICK m \in Nat : m = Len(chosen')
  BY DEF ServerTypeOK
<1>3. n <= m
  BY <1>1, <1>2 DEF Grows
<1>4. Effects = Took(n).order /\ Took(n)' = Took(n)
  BY <1>1, EffectsAreTaken, TookKept
<1>5. Effects' = Took(m)'.order
  BY <1>2, NextEffects DEF EffectsAreAll
<1>6. ASSUME NEW i \in Nat, n <= i, i <= m
      PROVE  /\ IsBefore(Took(n)'.order, Took(i)'.order)
             /\ Len(Took(n)'.order) \in Nat /\ Len(Took(i)'.order) \in Nat
  BY <1>2, <1>6, NextEffects DEF OrderOnlyGrows
<1>7. ASSUME NEW i \in Nat, Len(chosen) <= i, i <= Len(chosen') PROVE Len(Effects) <= Len(Took(i)'.order)
  BY <1>1, <1>2, <1>4, <1>6, <1>7 DEF IsBefore
<1>8. m <= m
  OBVIOUS
<1>9. IsBefore(Effects, Effects') /\ Len(Effects) \in Nat /\ Len(Effects') \in Nat
  BY <1>3, <1>4, <1>5, <1>6, <1>8
<1> QED
  BY <1>7, <1>9

-----------------------------------------------------------------------------
(* No operation takes effect before it begins. *)

IsOpen(c, cmd) ==
    inflight[c] # None /\ cmd # Noop /\ cmd.client = c /\ cmd.seq = inflight[c].seq

BeganInv == \A c \in Client :
    /\ began[c] <= Len(Effects)
    /\ \A i \in 1..Len(chosen) : IsOpen(c, chosen[i].cmd) => began[c] <= Len(Took(i - 1).order)

LEMMA ServersKeepBegan ==
    ASSUME ServerTypeOK, ServerTypeOK', Grows, Quiet, BeganInv
    PROVE  BeganInv'
<1>0. began' = began /\ inflight' = inflight /\ Len(chosen) \in Nat /\ Len(chosen') \in Nat
  BY DEF Quiet, clientVars, ServerTypeOK
<1>1. /\ Len(Effects) \in Nat /\ Len(Effects') \in Nat /\ Len(Effects) <= Len(Effects')
      /\ \A i \in Nat : Len(chosen) <= i /\ i <= Len(chosen') => Len(Effects) <= Len(Took(i)'.order)
  BY EffectsOnlyGrow DEF IsBefore
<1>2. ASSUME NEW c \in Client PROVE began'[c] <= Len(Effects')
  <2>1. began[c] \in Nat /\ began[c] <= Len(Effects)
    BY DEF BeganInv, ServerTypeOK
  <2> QED
    BY <1>0, <1>1, <2>1
<1>3. ASSUME NEW c \in Client, NEW i \in 1..Len(chosen'), IsOpen(c, chosen[i].cmd)'
      PROVE  began'[c] <= Len(Took(i - 1)'.order)
  <2>1. i - 1 \in Nat /\ i \in Nat /\ i - 1 <= Len(chosen') /\ i <= Len(chosen')
    BY <1>0
  <2>2. began[c] \in Nat /\ began[c] <= Len(Effects)
    BY DEF BeganInv, ServerTypeOK
  <2>3. CASE i \in 1..Len(chosen)
    <3>1. chosen'[i] = chosen[i] /\ i - 1 <= Len(chosen)
      BY <1>0, <2>3 DEF Grows
    <3>2. IsOpen(c, chosen[i].cmd)
      BY <1>0, <1>3, <3>1 DEF IsOpen
    <3>3. Took(i - 1)' = Took(i - 1)
      BY <2>1, <3>1, TookKept
    <3> QED
      BY <1>0, <2>3, <3>2, <3>3 DEF BeganInv
  <2>4. CASE i \notin 1..Len(chosen)
    <3>1. Len(chosen) <= i - 1
      BY <1>0, <2>4
    <3>2. Len(Effects) <= Len(Took(i - 1)'.order)
      BY <1>1, <2>1, <3>1
    <3>3. Len(Took(i - 1)'.order) \in Nat
      BY <2>1, NextEffects DEF OrderOnlyGrows
    <3> QED
      BY <1>0, <1>1, <2>2, <3>2, <3>3
  <2> QED
    BY <2>3, <2>4
<1> QED
  BY <1>2, <1>3 DEF BeganInv

(* Only an attempt of its own makes a client await another request, and    *)
(* only the next operation another sequence number.                        *)
LEMMA ClientStays ==
    ASSUME KvTypeOK, Agreement, ClientInv, NEW c \in Client, ClientActs(c), NEW d \in Client, NEW n \in Nat
    PROVE  /\ n <= nextReq[d] /\ Awaits(d, n)' => inflight'[d] = inflight[d] /\ began'[d] = began[d]
           /\ n <= seq[d] /\ inflight'[d] # None /\ inflight'[d].seq = n =>
                inflight[d] # None /\ inflight[d].seq = n /\ began'[d] = began[d]
           /\ began'[d] = began[d] \/ began'[d] = Len(Effects)
<1>1. ClientMoves(c) /\ KvTypeOK'
  BY ClientActsTypes
<1>2. /\ began' = [began EXCEPT ![c] = IF seq'[c] > seq[c] THEN Len(Effects) ELSE @]
      /\ began \in [Client -> Nat] /\ nextReq[c] \in Nat /\ seq[c] \in Nat
  BY DEF ClientActs, KvTypeOK, ClientTypeOK, ServerTypeOK
<1>3. CASE d # c
  <2>1. inflight'[d] = inflight[d] /\ began'[d] = began[d]
    BY <1>1, <1>2, <1>3 DEF ClientMoves
  <2> QED
    BY <2>1
<1>4. CASE d = c
  <2>1. began'[c] = IF seq'[c] > seq[c] THEN Len(Effects) ELSE began[c]
    BY <1>2
  <2>2. CASE Begins(c)
    <3>1. /\ inflight'[c].req = nextReq[c] + 1 /\ inflight'[c].seq = seq[c] + 1
      BY <2>2 DEF Begins, Sends
    <3> QED
      BY <1>2, <1>4, <2>1, <3>1 DEF Awaits
  <2>3. CASE Retries(c)
    <3>1. /\ inflight'[c].req = nextReq[c] + 1 /\ inflight'[c].seq = inflight[c].seq /\ seq'[c] = seq[c]
          /\ inflight[c] # None
      BY <2>3, NoneIsNone DEF Retries, Sends
    <3>2. began'[c] = began[c]
      BY <1>2, <2>1, <3>1
    <3> QED
      BY <1>2, <1>4, <3>1, <3>2 DEF Awaits
  <2>4. CASE Idles(c)
    <3>1. inflight'[c] = inflight[c] /\ seq'[c] = seq[c]
      BY <2>4 DEF Idles, Rests
    <3>2. began'[c] = began[c]
      BY <1>2, <2>1, <3>1
    <3> QED
      BY <1>4, <3>1, <3>2
  <2>5. CASE GivesUp(c) \/ Finishes(c)
    <3>1. inflight'[c] = None /\ seq'[c] = seq[c]
      BY <2>5 DEF GivesUp, Finishes, Rests
    <3>2. began'[c] = began[c]
      BY <1>2, <2>1, <3>1
    <3> QED
      BY <1>4, <3>1, <3>2 DEF Awaits
  <2> QED
    BY <1>1, <2>2, <2>3, <2>4, <2>5 DEF ClientMoves
<1> QED
  BY <1>3, <1>4

LEMMA InvokedAreNumbered ==
    ASSUME ClientTypeOK, ClientInv, NEW cmd \in Invoked
    PROVE  cmd.client \in Client /\ cmd.seq \in Nat /\ cmd.seq <= seq[cmd.client] /\ cmd \in LoggedCommand
<1>1. PICK r \in requests : cmd = NewCommand(r)
  BY DEF Invoked
<1>2. r \in Request
  BY DEF ClientTypeOK
<1>3. r.client \in Client /\ r.seq \in Nat \ {0} /\ r.op \in Op
  BY <1>2 DEF Request
<1>4. cmd.client = r.client /\ cmd.seq = r.seq /\ cmd = [client |-> r.client, seq |-> r.seq, op |-> r.op]
  BY <1>1 DEF NewCommand
<1>5. cmd \in LoggedCommand
  BY <1>3, <1>4 DEF LoggedCommand
<1> QED
  BY <1>3, <1>4, <1>5 DEF ClientInv

LEMMA ClientsKeepBegan ==
    ASSUME KvTypeOK, Agreement, ClientInv, LogInv, BeganInv, NEW c \in Client, ClientActs(c)
    PROVE  BeganInv'
<1>0. chosen' = chosen /\ Len(Effects) \in Nat
  BY EffectsAreSome DEF ClientActs, raftVars, KvTypeOK
<1>1. Effects' = Effects /\ \A i \in Nat : Took(i)' = Took(i)
  BY <1>0 DEF Effects, Took
<1>2. ASSUME NEW d \in Client PROVE began'[d] <= Len(Effects')
  <2>1. began'[d] = began[d] \/ began'[d] = Len(Effects)
    BY ClientStays
  <2> QED
    BY <1>0, <1>1, <2>1 DEF BeganInv
<1>3. ASSUME NEW d \in Client, NEW i \in 1..Len(chosen'), IsOpen(d, chosen[i].cmd)'
      PROVE  began'[d] <= Len(Took(i - 1)'.order)
  <2>1. i \in 1..Len(chosen) /\ i - 1 \in Nat /\ chosen'[i].cmd = chosen[i].cmd
    BY <1>0
  <2>2. inflight'[d] # None /\ chosen[i].cmd # Noop /\ chosen[i].cmd.client = d /\ chosen[i].cmd.seq = inflight'[d].seq
    BY <1>3, <2>1 DEF IsOpen
  <2>3. chosen[i].cmd \in Invoked
    BY <2>1, <2>2 DEF LogInv, Sourced
  <2>4. chosen[i].cmd.seq \in Nat /\ chosen[i].cmd.seq <= seq[d]
    BY <2>2, <2>3, InvokedAreNumbered DEF KvTypeOK
  <2>5. inflight[d] # None /\ inflight[d].seq = chosen[i].cmd.seq /\ began'[d] = began[d]
    BY <2>2, <2>4, ClientStays
  <2>6. IsOpen(d, chosen[i].cmd)
    BY <2>2, <2>5 DEF IsOpen
  <2> QED
    BY <1>1, <2>1, <2>5, <2>6 DEF BeganInv
<1> QED
  BY <1>2, <1>3 DEF BeganInv

-----------------------------------------------------------------------------
(* What the servers owe the clients: every slot, read and reply is for a   *)
(* request that was made; a read that can still be served has an index no  *)
(* earlier than the moment its operation began; and every definite reply   *)
(* to an attempt that is still awaited is an answer the store may give.    *)

IsFresh(d) ==
    /\ d.confirmed => ~d.deposed
    /\ ~d.deposed /\ Awaits(d.client, d.req) =>
         d.index <= Len(chosen) /\ began[d.client] <= Len(Took(d.index).order)

GoodWaits(waits) == \A i \in DOMAIN waits : SlotFrom(waits[i])

GoodReads(rds) == \A d \in rds : ReadFrom(d) /\ IsFresh(d)

WaitInv == \A s \in Server : GoodWaits(waiting[s])

ReadInv == \A s \in Server : GoodReads(reads[s])

Answers(c, outcome) ==
    IF inflight[c].op.kind = "Get"
    THEN \E j \in 0..Len(chosen) :
            /\ began[c] <= Len(Took(j).order)
            /\ outcome = ValueIs(ImageAt(j).map[inflight[c].op.key])
    ELSE \E i \in 1..Len(chosen) : DoneAt(OpenCommand(c), i, outcome)

ReplyInv == \A m \in replies :
    /\ ReplyFrom(m)
    /\ Awaits(m.client, m.req) /\ IsDefinite(m.outcome) => Answers(m.client, m.outcome)

Knowledge == KvTypeOK /\ Agreement /\ ClientInv /\ LogInv /\ BeganInv

(* An open command and the one the log holds under its number are one.     *)
LEMMA OpenIsTheOne ==
    ASSUME Knowledge, NEW c \in Client, NEW cmd \in LoggedCommand, NEW i \in 1..Len(chosen),
           chosen[i].cmd = cmd, IsOpen(c, cmd)
    PROVE  cmd = OpenCommand(c)
<1>1. cmd # Noop
  BY DEF IsOpen
<1>2. cmd \in Invoked
  BY <1>1 DEF Knowledge, LogInv, Sourced
<1>3. PICK r \in requests : cmd = NewCommand(r)
  BY <1>2 DEF Invoked
<1>4. r \in Request
  BY DEF Knowledge, KvTypeOK, ClientTypeOK
<1>5. r.client = c /\ r.seq = inflight[c].seq /\ inflight[c] # None
  BY <1>3 DEF NewCommand, IsOpen
<1>6. r.op = inflight[c].op
  BY <1>5 DEF Knowledge, ClientInv
<1> QED
  BY <1>3, <1>5, <1>6 DEF NewCommand, OpenCommand

(* What an entry did is an answer to the operation that asked for it.      *)
LEMMA DoneAnswers ==
    ASSUME Knowledge, NEW c \in Client, NEW cmd \in LoggedCommand, NEW i \in 1..Len(chosen),
           NEW outcome, DoneAt(cmd, i, outcome), IsOpen(c, cmd)
    PROVE  Answers(c, outcome)
<1>1. cmd = OpenCommand(c)
  BY OpenIsTheOne DEF DoneAt
<1>2. CASE inflight[c].op.kind # "Get"
  BY <1>1, <1>2 DEF Answers
<1>3. CASE inflight[c].op.kind = "Get"
  <2>1. cmd.op = inflight[c].op
    BY <1>1 DEF OpenCommand
  <2>2. outcome = ValueIs(ImageAt(i - 1).map[inflight[c].op.key])
    BY <2>1, <1>3 DEF DoneAt, OutcomeOf
  <2>3. began[c] <= Len(Took(i - 1).order)
    BY DEF DoneAt, Knowledge, BeganInv
  <2>4. i - 1 \in 0..Len(chosen)
    BY DEF Knowledge, KvTypeOK, ServerTypeOK
  <2> QED
    BY <1>3, <2>2, <2>3, <2>4 DEF Answers
<1> QED
  BY <1>2, <1>3

(* What a session remembers under an open number is an answer to it.       *)
LEMMA SessionAnswers ==
    ASSUME Knowledge, NEW c \in Client, inflight[c] # None, NEW k \in Nat, k <= Len(chosen),
           ImageAt(k).sessions[c].seq >= inflight[c].seq
    PROVE  Answers(c, ImageAt(k).sessions[c].outcome)
<1>1. KvTypeOK /\ ServerTypeOK /\ ClientTypeOK
  BY DEF Knowledge, KvTypeOK
<1>2. inflight[c] \in Pending /\ inflight[c].seq \in Nat \ {0} /\ inflight[c].seq = seq[c]
  BY <1>1 DEF ClientTypeOK, Pending, Knowledge, ClientInv
<1> DEFINE session == ImageAt(k).sessions[c]
<1>3. ImageAt(k) \in Machine
  BY <1>1, ImagesAreMachines
<1>4. session \in Session
  BY <1>3 DEF Machine
<1>5. session.seq \in Nat
  BY <1>4 DEF Session
<1>6. session.seq # 0
  BY <1>2, <1>5
<1>7. PICK i \in 1..Len(chosen) : \E cmd \in LoggedCommand :
        DoneAt(cmd, i, session.outcome) /\ cmd.client = c /\ cmd.seq = session.seq
  BY <1>1, <1>6, SessionsAreDone DEF Remembers
<1>8. PICK cmd \in LoggedCommand :
        DoneAt(cmd, i, session.outcome) /\ cmd.client = c /\ cmd.seq = session.seq
  BY <1>7
<1>9. cmd # Noop /\ chosen[i].cmd = cmd
  BY <1>8 DEF DoneAt, IsNew
<1>10. cmd \in Invoked
  BY <1>9 DEF Knowledge, LogInv, Sourced
<1>11. cmd.seq <= seq[c]
  BY <1>1, <1>8, <1>10, InvokedAreNumbered DEF Knowledge
<1>12. seq[c] \in Nat
  BY <1>1 DEF ClientTypeOK
<1>13. cmd.seq = inflight[c].seq
  BY <1>2, <1>5, <1>8, <1>11, <1>12
<1>14. IsOpen(c, cmd)
  BY <1>8, <1>9, <1>13 DEF IsOpen
<1> QED
  BY <1>8, <1>14, DoneAnswers

(* The result of applying an entry, on the machine before it or on one     *)
(* that has it already, is an answer to the operation that asked for it.   *)
LEMMA ResultAnswers ==
    ASSUME Knowledge, NEW c \in Client, NEW i \in 1..Len(chosen), IsOpen(c, chosen[i].cmd),
           NEW k \in Nat, i - 1 <= k, k <= Len(chosen)
    PROVE  Answers(c, ResultOf(ImageAt(k), chosen[i].cmd))
<1>1. ServerTypeOK
  BY DEF Knowledge, KvTypeOK
<1> DEFINE cmd == chosen[i].cmd
<1>2. chosen[i] \in LoggedEntry
  BY <1>1, OneEntry
<1>3. cmd # Noop /\ cmd.client = c /\ cmd.seq = inflight[c].seq /\ inflight[c] # None
  BY DEF IsOpen
<1>4. cmd \in LoggedCommand
  BY <1>2, <1>3 DEF LoggedEntry
<1>5. CASE IsRepeat(ImageAt(k), cmd)
  <2>1. ResultOf(ImageAt(k), cmd) = ImageAt(k).sessions[c].outcome
    BY <1>3, <1>5 DEF ResultOf
  <2>2. ImageAt(k).sessions[c].seq >= inflight[c].seq
    BY <1>3, <1>5 DEF IsRepeat
  <2>3. Answers(c, ImageAt(k).sessions[c].outcome)
    BY <1>3, <2>2, SessionAnswers
  <2> QED
    BY <2>1, <2>3
<1>6. CASE ~IsRepeat(ImageAt(k), cmd)
  <2>1. Len(chosen) \in Nat
    BY <1>1 DEF ServerTypeOK
  <2>2. ~(k \in i..Len(chosen))
    BY <1>1, <1>3, <1>6, AppliedIsRepeat
  <2>3. k = i - 1
    BY <2>1, <2>2
  <2>4. IsNew(Took(i - 1), cmd)
    BY <1>1, <1>3, <1>6, <2>3, NewIsNoRepeat
  <2>5. ResultOf(ImageAt(k), cmd) = OutcomeOf(ImageAt(i - 1).map, cmd)
    BY <1>3, <1>6, <2>3 DEF ResultOf
  <2>6. DoneAt(cmd, i, ResultOf(ImageAt(k), cmd))
    BY <1>4, <2>4, <2>5 DEF DoneAt
  <2> QED
    BY <1>4, <2>6, DoneAnswers
<1> QED
  BY <1>5, <1>6

(* A request that is still awaited asks for what is in flight.             *)
LEMMA AwaitedIsOpen ==
    ASSUME Knowledge, NEW r \in requests, Awaits(r.client, r.req)
    PROVE  /\ r.client \in Client /\ inflight[r.client] # None
           /\ r.seq = inflight[r.client].seq /\ r.op = inflight[r.client].op
<1>1. r \in Request
  BY DEF Knowledge, KvTypeOK, ClientTypeOK
<1>2. r.client \in Client
  BY <1>1 DEF Request
<1> QED
  BY <1>2 DEF Awaits, Knowledge, ClientInv

(* The value of a machine that is as new as a fresh read's index answers it. *)
LEMMA ReadingAnswers ==
    ASSUME Knowledge, NEW d \in Read, ReadFrom(d), IsFresh(d), ~d.deposed,
           Awaits(d.client, d.req), NEW k \in Nat, d.index <= k, k <= Len(chosen)
    PROVE  Answers(d.client, ValueIs(ImageAt(k).map[d.key]))
<1>1. PICK r \in requests :
        r.client = d.client /\ r.req = d.req /\ r.op.kind = "Get" /\ r.op.key = d.key
  BY DEF ReadFrom
<1>2. inflight[d.client].op = r.op
  BY <1>1, AwaitedIsOpen
<1>3. ServerTypeOK /\ d.index \in Nat /\ d.client \in Client /\ Len(chosen) \in Nat
  BY DEF Knowledge, KvTypeOK, ServerTypeOK, Read
<1>4. began[d.client] <= Len(Took(d.index).order) /\ began[d.client] \in Nat
  BY <1>3 DEF IsFresh, ServerTypeOK
<1>5. IsBefore(Took(d.index).order, Took(k).order)
  BY <1>3, OrderGrows
<1>6. Len(Took(d.index).order) \in Nat /\ Len(Took(k).order) \in Nat
  BY <1>3, TookIsATally
<1>7. began[d.client] <= Len(Took(k).order)
  BY <1>4, <1>5, <1>6 DEF IsBefore
<1> QED
  BY <1>1, <1>2, <1>3, <1>7 DEF Answers

(* The three ways to an answer, as formulas that can be read one step on.  *)
SessionsGiveAnswers == Knowledge => \A c \in Client, k \in Nat :
    inflight[c] # None /\ k <= Len(chosen) /\ ImageAt(k).sessions[c].seq >= inflight[c].seq =>
        Answers(c, ImageAt(k).sessions[c].outcome)

ResultsGiveAnswers == Knowledge => \A c \in Client, i, k \in Nat :
    i \in 1..Len(chosen) /\ IsOpen(c, chosen[i].cmd) /\ i - 1 <= k /\ k <= Len(chosen) =>
        Answers(c, ResultOf(ImageAt(k), chosen[i].cmd))

ReadingsGiveAnswers == Knowledge => \A d \in Read, k \in Nat :
    /\ ReadFrom(d) /\ IsFresh(d) /\ ~d.deposed /\ Awaits(d.client, d.req)
    /\ d.index <= k /\ k <= Len(chosen)
    => Answers(d.client, ValueIs(ImageAt(k).map[d.key]))

AwaitedAreOpen == Knowledge => \A r \in requests : Awaits(r.client, r.req) =>
    /\ r.client \in Client /\ inflight[r.client] # None
    /\ r.seq = inflight[r.client].seq /\ r.op = inflight[r.client].op

LEMMA AnswersAreGiven ==
    /\ SessionsGiveAnswers' /\ ResultsGiveAnswers' /\ ReadingsGiveAnswers' /\ AwaitedAreOpen'
<1>1. SessionsGiveAnswers
  BY SessionAnswers DEF SessionsGiveAnswers
<1>2. ResultsGiveAnswers
  BY ResultAnswers DEF ResultsGiveAnswers
<1>3. ReadingsGiveAnswers
  BY ReadingAnswers DEF ReadingsGiveAnswers
<1>4. AwaitedAreOpen
  BY AwaitedIsOpen DEF AwaitedAreOpen
<1> QED
  BY <1>1, <1>2, <1>3, <1>4, PTL

(* A step that lets the chosen entries grow and the clients be takes no    *)
(* answer back, and no read's freshness.                                   *)
LEMMA AnswersStay ==
    ASSUME ServerTypeOK, Grows, Quiet, NEW c \in Client, NEW outcome, Answers(c, outcome)
    PROVE  Answers(c, outcome)'
<1>1. inflight' = inflight /\ began' = began
  BY DEF Quiet, clientVars
<1>2. Len(chosen) \in Nat /\ Len(chosen') \in Nat /\ Len(chosen) <= Len(chosen')
  BY DEF Grows
<1>3. CASE inflight[c].op.kind = "Get"
  <2>1. PICK j \in 0..Len(chosen) :
          /\ began[c] <= Len(Took(j).order)
          /\ outcome = ValueIs(ImageAt(j).map[inflight[c].op.key])
    BY <1>3 DEF Answers
  <2>2. Took(j)' = Took(j) /\ ImageAt(j)' = ImageAt(j)
    BY <1>2, TookKept, ImageKept
  <2>3. j \in 0..Len(chosen')
    BY <1>2
  <2> QED
    BY <1>1, <1>3, <2>1, <2>2, <2>3 DEF Answers
<1>4. CASE inflight[c].op.kind # "Get"
  <2>1. PICK i \in 1..Len(chosen) : DoneAt(OpenCommand(c), i, outcome)
    BY <1>4 DEF Answers
  <2>2. i - 1 \in Nat /\ i - 1 <= Len(chosen) /\ i \in 1..Len(chosen')
    BY <1>2
  <2>3. Took(i - 1)' = Took(i - 1) /\ ImageAt(i - 1)' = ImageAt(i - 1) /\ chosen'[i] = chosen[i]
    BY <2>2, TookKept, ImageKept DEF Grows
  <2>4. OpenCommand(c)' = OpenCommand(c)
    BY <1>1 DEF OpenCommand
  <2>5. DoneAt(OpenCommand(c), i, outcome)'
    BY <2>1, <2>2, <2>3, <2>4 DEF DoneAt
  <2> QED
    BY <1>1, <1>4, <2>2, <2>5 DEF Answers
<1> QED
  BY <1>3, <1>4

LEMMA FreshStays ==
    ASSUME ServerTypeOK, Grows, Quiet, NEW d \in Read, IsFresh(d), ReadFrom(d)
    PROVE  IsFresh(d)' /\ ReadFrom(d)'
<1>1. inflight' = inflight /\ began' = began /\ requests' = requests
  BY DEF Quiet, clientVars
<1>2. Len(chosen) \in Nat /\ Len(chosen') \in Nat /\ Len(chosen) <= Len(chosen')
  BY DEF Grows
<1>3. d.index \in Nat
  BY DEF Read
<1>4. d.index <= Len(chosen) => Took(d.index)' = Took(d.index)
  BY <1>2, <1>3, TookKept
<1> QED
  BY <1>1, <1>2, <1>3, <1>4 DEF IsFresh, ReadFrom, Awaits

(* So the old replies, and the reads that stay, are as good as before.     *)
LEMMA RepliesStay ==
    ASSUME KvTypeOK, Grows, Quiet, ReplyInv, NEW m \in replies
    PROVE  /\ ReplyFrom(m)'
           /\ Awaits(m.client, m.req)' /\ IsDefinite(m.outcome) => Answers(m.client, m.outcome)'
<1>1. inflight' = inflight /\ requests' = requests /\ ServerTypeOK
  BY DEF Quiet, clientVars, KvTypeOK
<1>2. m.client \in Client
  BY DEF KvTypeOK, ClientTypeOK, Reply
<1>3. Awaits(m.client, m.req)' = Awaits(m.client, m.req)
  BY <1>1 DEF Awaits
<1>4. ReplyFrom(m)'
  BY <1>1 DEF ReplyFrom, ReplyInv
<1> QED
  BY <1>1, <1>2, <1>3, <1>4, AnswersStay DEF ReplyInv

(* What `drain` answers. *)
LEMMA DrainedResult ==
    ASSUME KvTypeOK, Agreement, Knowledge', NEW s \in Server, NEW waits, NEW rds,
           Drains(s, waits, rds), GoodWaits(waits), NEW j \in Nat, Holds(s, j),
           Len(chosen) <= Len(chosen'), NEW m,
           NEW i \in DOMAIN waits, IsResult(m, s, sm[s], commit[s], waits, i)
    PROVE  ReplyFrom(m)' /\ (Awaits(m.client, m.req)' => Answers(m.client, m.outcome)')
<1>1. commit[s] \in Nat /\ commit'[s] \in Nat /\ Len(chosen) \in Nat /\ Len(chosen') \in Nat
  BY DEF Knowledge, KvTypeOK, ServerTypeOK
<1>2. i \in Nat /\ i - 1 \in Nat /\ commit[s] <= i - 1 /\ i - 1 <= commit'[s] /\ i <= commit'[s] /\ i > 0
  BY <1>1 DEF IsResult
<1>3. commit'[s] <= Len(chosen') /\ log'[s][i] = chosen'[i]
  BY <1>1, <1>2 DEF Knowledge, Agreement, Agrees
<1>4. PICK k \in Nat : k = Later(i - 1, j)
  BY <1>2 DEF Later
<1>5. i - 1 <= k /\ k <= Len(chosen')
  BY <1>1, <1>2, <1>3, <1>4 DEF Later, Holds
<1>6. Replay(sm[s], SubSeq(log'[s], commit[s] + 1, i - 1)) = ImageAt(k)'
  BY <1>2, <1>4, MachineWhileDraining
<1>7. m.outcome = ResultOf(ImageAt(k)', chosen'[i].cmd)
  BY <1>3, <1>6 DEF IsResult
<1>8. PICK r \in requests : r.client = waits[i].client /\ r.req = waits[i].req /\ r.seq = waits[i].seq
  BY DEF GoodWaits, SlotFrom
<1>9. requests' = requests
  BY DEF Drains, Quiet
<1>10. m.client = r.client /\ m.req = r.req
  BY <1>8 DEF IsResult
<1>11. ReplyFrom(m)'
  BY <1>9, <1>10 DEF ReplyFrom
<1>12. ASSUME Awaits(m.client, m.req)' PROVE Answers(m.client, m.outcome)'
  <2>1. Awaits(r.client, r.req)'
    BY <1>10, <1>12
  <2>2. r.client \in Client /\ inflight'[r.client] # None /\ r.seq = inflight'[r.client].seq
    BY <1>9, <2>1, AnswersAreGiven DEF AwaitedAreOpen
  <2>3. IsOwn(waits[i], chosen'[i].cmd)
    BY <1>3 DEF IsResult
  <2>4. IsOpen(r.client, chosen[i].cmd)'
    BY <1>8, <2>2, <2>3 DEF IsOpen, IsOwn
  <2>5. i \in 1..Len(chosen')
    BY <1>1, <1>2, <1>3
  <2>6. Answers(r.client, ResultOf(ImageAt(k), chosen[i].cmd))'
    BY <1>2, <1>5, <2>2, <2>4, <2>5, AnswersAreGiven DEF ResultsGiveAnswers
  <2> QED
    BY <1>7, <1>10, <2>6
<1> QED
  BY <1>11, <1>12

LEMMA DrainedReading ==
    ASSUME KvTypeOK, Agreement, Knowledge', Grows, NEW s \in Server, NEW waits, NEW rds,
           Drains(s, waits, rds), GoodReads(rds), NEW j \in Nat, Holds(s, j),
           NEW m, NEW d \in rds, IsReading(m, s, d)
    PROVE  ReplyFrom(m)' /\ (Awaits(m.client, m.req)' => Answers(m.client, m.outcome)')
<1>1. commit[s] \in Nat /\ commit'[s] \in Nat /\ Len(chosen) \in Nat /\ Len(chosen') \in Nat
      /\ Len(chosen) <= Len(chosen')
  BY DEF Knowledge, KvTypeOK, ServerTypeOK, Grows
<1>2. commit'[s] <= Len(chosen') /\ commit[s] <= commit'[s]
  BY LogMovesTypes DEF Drains, KvTypeOK
<1>3. d \in Read /\ ReadFrom(d) /\ IsFresh(d)
  BY DEF GoodReads, Drains
<1>4. d.index \in Nat
  BY <1>3 DEF Read
<1>5. PICK k \in Nat : k = Later(commit'[s], j)
  BY <1>1 DEF Later
<1>6. d.index <= k /\ k <= Len(chosen')
  BY <1>1, <1>2, <1>4, <1>5 DEF Later, Holds, IsReading
<1>7. Replay(sm[s], SubSeq(log'[s], commit[s] + 1, commit'[s])) = ImageAt(k)'
  BY <1>1, <1>2, <1>5, MachineWhileDraining
<1>8. sm'[s] = ImageAt(k)'
  <2>1. sm' = [sm EXCEPT ![s] = CaughtUp(s, sm[s], commit[s])]
    BY DrainSets DEF Drains
  <2>2. sm \in [Server -> Machine]
    BY DEF KvTypeOK, ServerTypeOK
  <2> QED
    BY <1>7, <2>1, <2>2 DEF CaughtUp
<1>9. IsFresh(d)' /\ ReadFrom(d)'
  BY <1>3, FreshStays DEF Drains, KvTypeOK
<1>10. m.client = d.client /\ m.req = d.req /\ m.outcome = ValueIs(ImageAt(k)'.map[d.key]) /\ ~d.deposed
  BY <1>3, <1>8 DEF IsReading, IsFresh
<1>11. ReplyFrom(m)'
  BY <1>9, <1>10 DEF ReplyFrom, ReadFrom
<1>12. ASSUME Awaits(m.client, m.req)' PROVE Answers(m.client, m.outcome)'
  <2>1. Awaits(d.client, d.req)'
    BY <1>10, <1>12
  <2>2. Answers(d.client, ValueIs(ImageAt(k).map[d.key]))'
    BY <1>3, <1>6, <1>9, <1>10, <2>1, AnswersAreGiven DEF ReadingsGiveAnswers
  <2> QED
    BY <1>10, <2>2
<1> QED
  BY <1>11, <1>12

LEMMA ReleasesAreKnown ==
    ASSUME NEW waits, NEW rds, GoodWaits(waits), GoodReads(rds), requests' = requests,
           NEW m, IsRelease(m, waits, rds)
    PROVE  ReplyFrom(m)' /\ ~IsDefinite(m.outcome)
<1>1. ~IsDefinite(m.outcome)
  BY DEF IsRelease, IsDefinite
<1>2. CASE \E i \in DOMAIN waits : m.client = waits[i].client /\ m.req = waits[i].req
  <2>1. PICK i \in DOMAIN waits : m.client = waits[i].client /\ m.req = waits[i].req
    BY <1>2
  <2>2. PICK r \in requests : r.client = waits[i].client /\ r.req = waits[i].req
    BY DEF GoodWaits, SlotFrom
  <2> QED
    BY <1>1, <2>1, <2>2 DEF ReplyFrom
<1>3. CASE \E r \in rds : m.client = r.client /\ m.req = r.req
  <2>1. PICK d \in rds : m.client = d.client /\ m.req = d.req
    BY <1>3
  <2>2. PICK r \in requests : r.client = d.client /\ r.req = d.req
    BY DEF GoodReads, ReadFrom
  <2> QED
    BY <1>1, <2>1, <2>2 DEF ReplyFrom
<1> QED
  BY <1>1, <1>2, <1>3 DEF IsRelease

(* Every step of a server leaves its replies good, and what it keeps.      *)
LEMMA DrainsKeepPromises ==
    ASSUME KvTypeOK, Agreement, Knowledge', Grows, WaitInv, ReadInv, ReplyInv, NEW s \in Server,
           NEW waits, NEW rds, Drains(s, waits, rds), GoodWaits(waits), GoodReads(rds),
           NEW j \in Nat, Holds(s, j)
    PROVE  WaitInv' /\ ReadInv' /\ ReplyInv'
<1>1. Quiet /\ requests' = requests /\ waits \in Slots /\ rds \in SUBSET Read
  BY DEF Drains, Quiet
<1>2. ServerTypeOK /\ waiting \in [Server -> Slots] /\ reads \in [Server -> SUBSET Read]
  BY DEF KvTypeOK, ServerTypeOK
<1>3. Drain(s, sm[s], commit[s], waits, rds)
  BY DEF Drains
<1>4. /\ waiting' = [waiting EXCEPT ![s] = StillWaits(s, waits)]
      /\ reads' = [reads EXCEPT ![s] = StillReads(s, rds)]
  BY <1>3, DrainSets
<1>5. WaitInv'
  <2>1. ASSUME NEW p \in Server, NEW i \in DOMAIN waiting'[p] PROVE SlotFrom(waiting'[p][i])
    <3>1. CASE p = s
      <4>1. waiting'[p] = StillWaits(s, waits)
        BY <1>2, <1>4, <3>1
      <4>2. i \in DOMAIN waits /\ waiting'[p][i] = waits[i]
        BY <2>1, <4>1 DEF StillWaits
      <4> QED
        BY <4>2 DEF GoodWaits
    <3>2. CASE p # s
      BY <1>2, <1>4, <3>2 DEF WaitInv, GoodWaits
    <3> QED
      BY <3>1, <3>2
  <2>2. ASSUME NEW w, SlotFrom(w) PROVE SlotFrom(w)'
    BY <1>1, <2>2 DEF SlotFrom
  <2> QED
    BY <2>1, <2>2, <1>1 DEF WaitInv, GoodWaits, SlotFrom
<1>6. ReadInv'
  <2>1. ASSUME NEW p \in Server, NEW d \in reads'[p] PROVE d \in Read /\ ReadFrom(d) /\ IsFresh(d)
    <3>1. CASE p = s
      <4>1. reads'[p] = StillReads(s, rds)
        BY <1>2, <1>4, <3>1
      <4> QED
        BY <1>1, <4>1 DEF StillReads, GoodReads
    <3>2. CASE p # s
      <4>1. reads'[p] = reads[p]
        BY <1>2, <1>4, <3>2
      <4> QED
        BY <1>2, <4>1 DEF ReadInv, GoodReads
    <3> QED
      BY <3>1, <3>2
  <2>2. ASSUME NEW p \in Server, NEW d \in reads'[p] PROVE ReadFrom(d)' /\ IsFresh(d)'
    BY <1>1, <1>2, <2>1, FreshStays
  <2> QED
    BY <2>2 DEF ReadInv, GoodReads
<1>7. ReplyInv'
  <2>1. ASSUME NEW m \in replies'
        PROVE  /\ ReplyFrom(m)'
               /\ Awaits(m.client, m.req)' /\ IsDefinite(m.outcome) => Answers(m.client, m.outcome)'
    <3>1. CASE m \in replies
      BY <1>1, <3>1, RepliesStay
    <3>2. CASE m \notin replies
      <4>1. \/ \E i \in DOMAIN waits : IsResult(m, s, sm[s], commit[s], waits, i)
            \/ \E r \in rds : IsReading(m, s, r)
            \/ IsRelease(m, waits, rds)
        BY <1>1, <1>2, <1>3, <3>2, DrainReplies
      <4>2. CASE \E i \in DOMAIN waits : IsResult(m, s, sm[s], commit[s], waits, i)
        BY <4>2, DrainedResult DEF Grows
      <4>3. CASE \E r \in rds : IsReading(m, s, r)
        BY <4>3, DrainedReading
      <4>4. CASE IsRelease(m, waits, rds)
        BY <1>1, <4>4, ReleasesAreKnown
      <4> QED
        BY <4>1, <4>2, <4>3, <4>4
    <3> QED
      BY <3>1, <3>2
  <2> QED
    BY <2>1 DEF ReplyInv
<1> QED
  BY <1>5, <1>6, <1>7

LEMMA FewerReads ==
    ASSUME KvTypeOK, Grows, Quiet, ReadInv, \A p \in Server : reads'[p] \subseteq reads[p]
    PROVE  ReadInv'
<1>1. ASSUME NEW p \in Server, NEW d \in reads'[p] PROVE ReadFrom(d)' /\ IsFresh(d)'
  <2>1. d \in reads[p]
    OBVIOUS
  <2>2. d \in Read
    BY <2>1 DEF KvTypeOK, ServerTypeOK
  <2>3. ReadFrom(d) /\ IsFresh(d)
    BY <2>1 DEF ReadInv, GoodReads
  <2> QED
    BY <2>2, <2>3, FreshStays DEF KvTypeOK
<1> QED
  BY <1>1 DEF ReadInv, GoodReads

LEMMA KnownWaits ==
    ASSUME Quiet, \A p \in Server : \A i \in DOMAIN waiting'[p] : SlotFrom(waiting'[p][i])
    PROVE  WaitInv'
<1>1. requests' = requests
  BY DEF Quiet
<1> QED
  BY <1>1 DEF WaitInv, GoodWaits, SlotFrom

LEMMA MoreReplies ==
    ASSUME KvTypeOK, Grows, Quiet, ReplyInv,
           \A m \in replies' \ replies :
             /\ ReplyFrom(m)'
             /\ Awaits(m.client, m.req)' /\ IsDefinite(m.outcome) => Answers(m.client, m.outcome)'
    PROVE  ReplyInv'
<1>1. ASSUME NEW m \in replies'
      PROVE  /\ ReplyFrom(m)'
             /\ Awaits(m.client, m.req)' /\ IsDefinite(m.outcome) => Answers(m.client, m.outcome)'
  <2>1. CASE m \in replies
    BY <2>1, RepliesStay
  <2>2. CASE m \notin replies
    BY <2>2
  <2> QED
    BY <2>1, <2>2
<1> QED
  BY <1>1 DEF ReplyInv

LEMMA AnswersAtOnceKeepsPromises ==
    ASSUME Knowledge, Grows, WaitInv, ReadInv, ReplyInv, NEW s \in Server,
           NEW j \in Nat, Holds(s, j), NEW r \in requests, AnswersAtOnce(s, r)
    PROVE  WaitInv' /\ ReadInv' /\ ReplyInv'
<1>1. KvTypeOK /\ ServerTypeOK
  BY DEF Knowledge, KvTypeOK
<1>2. PICK outcome :
        /\ Replies(s, r, outcome)
        /\ \/ outcome = NotLeader
           \/ IsCached(s, r) /\ outcome = sm[s].sessions[r.client].outcome
  BY DEF AnswersAtOnce
<1>3. Quiet /\ waiting' = waiting /\ reads' = reads /\ requests' = requests /\ inflight' = inflight
  BY <1>2 DEF Replies, serverVars, Quiet, clientVars
<1>4. WaitInv'
  BY <1>3, KnownWaits DEF WaitInv, GoodWaits
<1>5. ReadInv'
  BY <1>1, <1>3, FewerReads
<1>6. ASSUME NEW m \in replies' \ replies
      PROVE  /\ ReplyFrom(m)'
             /\ Awaits(m.client, m.req)' /\ IsDefinite(m.outcome) => Answers(m.client, m.outcome)'
  <2>1. m = ReplyTo(r, outcome)
    BY <1>2 DEF Replies
  <2>2. m.client = r.client /\ m.req = r.req /\ m.outcome = outcome
    BY <2>1 DEF ReplyTo
  <2>3. ReplyFrom(m)'
    BY <1>3, <2>2 DEF ReplyFrom
  <2>4. ASSUME Awaits(m.client, m.req)', IsDefinite(m.outcome) PROVE Answers(m.client, m.outcome)'
    <3>1. Awaits(r.client, r.req)
      BY <1>3, <2>2, <2>4 DEF Awaits
    <3>2. r.client \in Client /\ inflight[r.client] # None /\ r.seq = inflight[r.client].seq
      BY <3>1, AwaitedIsOpen
    <3>3. IsCached(s, r) /\ outcome = sm[s].sessions[r.client].outcome
      BY <1>2, <2>2, <2>4 DEF IsDefinite
    <3>4. j <= Len(chosen) /\ ImageAt(j).sessions[r.client].seq = inflight[r.client].seq
          /\ outcome = ImageAt(j).sessions[r.client].outcome
      BY <3>2, <3>3 DEF Holds, IsCached
    <3>5. inflight[r.client].seq \in Nat
      BY <1>1, <3>2 DEF KvTypeOK, ClientTypeOK, Pending
    <3>6. Answers(r.client, outcome)
      BY <3>2, <3>4, <3>5, SessionAnswers
    <3>7. Answers(r.client, outcome)'
      BY <1>1, <1>3, <3>2, <3>6, AnswersStay
    <3> QED
      BY <2>2, <3>7
  <2> QED
    BY <2>3, <2>4
<1>7. ReplyInv'
  BY <1>1, <1>3, <1>6, MoreReplies
<1> QED
  BY <1>4, <1>5, <1>7

LEMMA JoinsKeepsPromises ==
    ASSUME KvTypeOK, Grows, WaitInv, ReadInv, ReplyInv, NEW s \in Server, NEW r \in requests,
           NEW i \in DOMAIN waiting[s], Joins(s, r, i)
    PROVE  WaitInv' /\ ReadInv' /\ ReplyInv'
<1>1. Quiet /\ reads' = reads /\ replies' = replies
  BY DEF Joins
<1>2. ReadInv' /\ ReplyInv'
  BY <1>1, FewerReads, MoreReplies
<1>3. SlotFrom(NewSlot(r))
  BY DEF SlotFrom, NewSlot
<1>4. ASSUME NEW p \in Server, NEW n \in DOMAIN waiting'[p] PROVE SlotFrom(waiting'[p][n])
  <2>1. CASE p = s
    <3>1. waiting'[s] = [waiting[s] EXCEPT ![i] = NewSlot(r)]
      BY DEF Joins
    <3>2. n \in DOMAIN waiting[s] /\ (waiting'[p][n] = NewSlot(r) \/ waiting'[p][n] = waiting[s][n])
      BY <2>1, <3>1
    <3> QED
      BY <1>3, <3>2 DEF WaitInv, GoodWaits
  <2>2. CASE p # s
    BY <2>2 DEF Joins, WaitInv, GoodWaits
  <2> QED
    BY <2>1, <2>2
<1> QED
  BY <1>1, <1>2, <1>4, KnownWaits

LEMMA ResetsKeepsPromises ==
    ASSUME KvTypeOK, Grows, WaitInv, ReadInv, ReplyInv, NEW s \in Server,
           NEW lg, NEW k, NEW j, Resets(s, lg, k, j)
    PROVE  WaitInv' /\ ReadInv' /\ ReplyInv'
<1>1. Quiet /\ requests' = requests
  BY DEF Resets, Quiet
<1>2. waiting \in [Server -> Slots] /\ reads \in [Server -> SUBSET Read]
  BY DEF KvTypeOK, ServerTypeOK
<1>3. \A p \in Server : reads'[p] \subseteq reads[p]
  BY <1>2 DEF Resets
<1>4. ReadInv'
  BY <1>1, <1>3, FewerReads
<1>5. WaitInv'
  <2>1. ASSUME NEW p \in Server, NEW n \in DOMAIN waiting'[p] PROVE SlotFrom(waiting'[p][n])
    <3>1. p # s
      BY <1>2, EmptySlots DEF Resets
    <3>2. waiting'[p] = waiting[p]
      BY <1>2, <3>1 DEF Resets
    <3> QED
      BY <3>2 DEF WaitInv, GoodWaits
  <2> QED
    BY <1>1, <2>1, KnownWaits
<1>6. ASSUME NEW m \in replies' \ replies
      PROVE  /\ ReplyFrom(m)'
             /\ Awaits(m.client, m.req)' /\ IsDefinite(m.outcome) => Answers(m.client, m.outcome)'
  <2>1. IsRelease(m, waiting[s], reads[s])
    BY DEF Resets
  <2> QED
    BY <1>1, <2>1, ReleasesAreKnown DEF WaitInv, ReadInv
<1>7. ReplyInv'
  BY <1>1, <1>6, MoreReplies
<1> QED
  BY <1>4, <1>5, <1>7

(* A read accepted now is fresh: its index is the end of what is chosen,   *)
(* unless a later leader was elected, and then it is not confirmed.        *)
LEMMA NewReadsAreGood ==
    ASSUME Knowledge, TermInv, NewestInv, ReadInv, NEW s \in Server, NEW r \in requests, Reading(s, r)
    PROVE  GoodReads(reads[s] \cup {NewRead(s, r)})
<1>1. ServerTypeOK /\ Agreement
  BY DEF Knowledge, KvTypeOK
<1> DEFINE d == NewRead(s, r)
<1>2. /\ d.client = r.client /\ d.req = r.req /\ d.key = r.op.key /\ d.index = commit[s]
      /\ d.deposed = (lead[s] < newest) /\ d.confirmed = FALSE
  BY DEF NewRead
<1>3. ReadFrom(d)
  BY <1>2 DEF ReadFrom, Reading
<1>4. r \in Request
  BY DEF Knowledge, KvTypeOK, ClientTypeOK
<1>5. r.client \in Client
  BY <1>4 DEF Request
<1>6. ASSUME ~d.deposed PROVE d.index <= Len(chosen) /\ began[d.client] <= Len(Took(d.index).order)
  <2>1. ~(lead[s] < newest)
    BY <1>2, <1>6
  <2>2. commit[s] = Len(chosen)
    BY <1>1, <2>1, ReadIndexIsNew DEF Reading
  <2>3. Effects = Took(d.index).order
    BY <1>1, <1>2, <2>2, EffectsAreTaken
  <2>4. began[d.client] <= Len(Effects)
    BY <1>2, <1>5 DEF Knowledge, BeganInv
  <2>5. Len(chosen) \in Nat
    BY <1>1 DEF ServerTypeOK
  <2> QED
    BY <1>2, <2>2, <2>3, <2>4, <2>5
<1>7. IsFresh(d)
  BY <1>2, <1>6 DEF IsFresh
<1> QED
  BY <1>3, <1>7 DEF GoodReads, ReadInv

(* Confirming a read that no later leader preceded leaves it fresh.        *)
LEMMA ConfirmedReadsAreGood ==
    ASSUME KvTypeOK, ReadInv, NEW s \in Server, NEW r \in reads[s], Confirming(s, r)
    PROVE  GoodReads((reads[s] \ {r}) \cup {[r EXCEPT !.confirmed = TRUE]})
<1> DEFINE d == [r EXCEPT !.confirmed = TRUE]
<1>1. r \in Read
  BY DEF KvTypeOK, ServerTypeOK
<1>2. /\ d.client = r.client /\ d.req = r.req /\ d.key = r.key /\ d.index = r.index
      /\ d.deposed = r.deposed
  BY <1>1 DEF Read
<1>3. ReadFrom(r) /\ IsFresh(r) /\ ~r.deposed
  BY DEF ReadInv, GoodReads, Confirming
<1> HIDE DEF d
<1>4. ReadFrom(d)
  BY <1>2, <1>3 DEF ReadFrom
<1>5. IsFresh(d)
  BY <1>2, <1>3 DEF IsFresh
<1>6. GoodReads((reads[s] \ {r}) \cup {d})
  BY <1>4, <1>5 DEF GoodReads, ReadInv
<1> QED
  BY <1>6 DEF d

LEMMA NewWaitsAreGood ==
    ASSUME WaitInv, NEW s \in Server, NEW r \in requests
    PROVE  GoodWaits(AlsoWaits(s, r))
<1>1. SlotFrom(NewSlot(r))
  BY DEF SlotFrom, NewSlot
<1>2. ASSUME NEW i \in DOMAIN AlsoWaits(s, r) PROVE SlotFrom(AlsoWaits(s, r)[i])
  <2>1. i \in DOMAIN waiting[s] \cup {Len(log[s]) + 1}
    BY DEF AlsoWaits
  <2>2. AlsoWaits(s, r)[i] = IF i = Len(log[s]) + 1 THEN NewSlot(r) ELSE waiting[s][i]
    BY <2>1 DEF AlsoWaits
  <2> QED
    BY <1>1, <2>1, <2>2 DEF WaitInv, GoodWaits
<1> QED
  BY <1>2 DEF GoodWaits

LEMMA ServersKeepPromises ==
    ASSUME Knowledge, Knowledge', TermInv, NewestInv, Grows, WaitInv, ReadInv, ReplyInv,
           \A p \in Server : \E j \in Nat : Holds(p, j), NEW s \in Server, ServerMoves(s)
    PROVE  WaitInv' /\ ReadInv' /\ ReplyInv'
<1>1. KvTypeOK /\ Agreement
  BY DEF Knowledge
<1>2. PICK j \in Nat : Holds(s, j)
  OBVIOUS
<1>3. GoodWaits(waiting[s]) /\ GoodReads(reads[s])
  BY DEF WaitInv, ReadInv
<1>4. ASSUME NEW r \in requests, AnswersAtOnce(s, r) PROVE WaitInv' /\ ReadInv' /\ ReplyInv'
  BY <1>2, <1>4, AnswersAtOnceKeepsPromises
<1>5. ASSUME NEW r \in requests, Reading(s, r) PROVE WaitInv' /\ ReadInv' /\ ReplyInv'
  <2>1. GoodReads(reads[s] \cup {NewRead(s, r)})
    BY <1>5, NewReadsAreGood
  <2>2. Drains(s, waiting[s], reads[s] \cup {NewRead(s, r)})
    BY <1>5 DEF Reading
  <2> QED
    BY <1>1, <1>2, <1>3, <2>1, <2>2, DrainsKeepPromises
<1>6. ASSUME NEW r \in requests, Proposing(s, r) PROVE WaitInv' /\ ReadInv' /\ ReplyInv'
  <2>1. GoodWaits(AlsoWaits(s, r))
    BY NewWaitsAreGood
  <2>2. Drains(s, AlsoWaits(s, r), reads[s])
    BY <1>6 DEF Proposing
  <2> QED
    BY <1>1, <1>2, <1>3, <2>1, <2>2, DrainsKeepPromises
<1>7. ASSUME NEW r \in requests, NEW i \in DOMAIN waiting[s], Joins(s, r, i)
      PROVE  WaitInv' /\ ReadInv' /\ ReplyInv'
  BY <1>1, <1>7, JoinsKeepsPromises
<1>8. ASSUME NEW r \in reads[s], Confirming(s, r) PROVE WaitInv' /\ ReadInv' /\ ReplyInv'
  <2>1. GoodReads((reads[s] \ {r}) \cup {[r EXCEPT !.confirmed = TRUE]})
    BY <1>1, <1>8, ConfirmedReadsAreGood
  <2>2. Drains(s, waiting[s], (reads[s] \ {r}) \cup {[r EXCEPT !.confirmed = TRUE]})
    BY <1>8 DEF Confirming
  <2> QED
    BY <1>1, <1>2, <1>3, <2>1, <2>2, DrainsKeepPromises
<1>9. CASE LogMoving(s)
  <2>1. Drains(s, waiting[s], reads[s])
    BY <1>9 DEF LogMoving
  <2> QED
    BY <1>1, <1>2, <1>3, <2>1, DrainsKeepPromises
<1>10. ASSUME NEW lg, NEW k, NEW n, Resets(s, lg, k, n) PROVE WaitInv' /\ ReadInv' /\ ReplyInv'
  BY <1>1, <1>10, ResetsKeepsPromises
<1> QED
  BY <1>4, <1>5, <1>6, <1>7, <1>8, <1>9, <1>10 DEF ServerMoves

(* A client's step only adds requests, and what it still awaits it awaited *)
(* before.                                                                 *)
LEMMA ClientsKeepPromises ==
    ASSUME Knowledge, WaitInv, ReadInv, ReplyInv, NEW c \in Client, ClientActs(c)
    PROVE  WaitInv' /\ ReadInv' /\ ReplyInv' /\ LogInv'
<1>1. KvTypeOK /\ Agreement /\ ClientInv /\ ServerTypeOK /\ ClientTypeOK
  BY DEF Knowledge, KvTypeOK
<1>2. ClientMoves(c) /\ UNCHANGED <<raftVars, serverVars, env>>
  BY <1>1, ClientActsTypes
<1>3. log' = log /\ chosen' = chosen /\ waiting' = waiting /\ reads' = reads /\ replies' = replies
  BY <1>2 DEF raftVars, serverVars, ClientMoves
<1>4. requests \subseteq requests'
  BY <1>2 DEF ClientMoves, Begins, Retries, Idles, GivesUp, Finishes, Sends, Rests
<1>5. \A i \in Nat : Took(i)' = Took(i) /\ ImageAt(i)' = ImageAt(i)
  BY <1>3 DEF Took, ImageAt
<1>6. LogInv'
  <2>1. Invoked \subseteq Invoked'
    BY <1>4 DEF Invoked
  <2> QED
    BY <1>3, <2>1 DEF Knowledge, LogInv, Sourced
<1>7. WaitInv'
  BY <1>3, <1>4 DEF WaitInv, GoodWaits, SlotFrom
<1>8. ASSUME NEW d \in Client, NEW n \in Nat, Awaits(d, n)', n <= nextReq[d]
      PROVE  Awaits(d, n) /\ inflight'[d] = inflight[d] /\ began'[d] = began[d]
  <2>1. inflight'[d] = inflight[d] /\ began'[d] = began[d]
    BY <1>1, <1>8, ClientStays
  <2> QED
    BY <1>8, <2>1 DEF Awaits
<1>9. ReadInv'
  <2>1. ASSUME NEW p \in Server, NEW d \in reads[p] PROVE ReadFrom(d)' /\ IsFresh(d)'
    <3>1. d \in Read /\ ReadFrom(d) /\ IsFresh(d)
      BY <1>1 DEF ReadInv, GoodReads, ServerTypeOK
    <3>2. d.client \in Client /\ d.req \in Nat /\ d.index \in Nat
      BY <3>1 DEF Read
    <3>3. d.req <= nextReq[d.client]
      BY <1>1, <3>1 DEF ReadFrom, ClientInv
    <3>4. ReadFrom(d)'
      BY <1>4, <3>1 DEF ReadFrom
    <3>5. ASSUME ~d.deposed, Awaits(d.client, d.req)'
          PROVE  d.index <= Len(chosen') /\ began'[d.client] <= Len(Took(d.index)'.order)
      <4>1. Awaits(d.client, d.req) /\ began'[d.client] = began[d.client]
        BY <1>8, <3>2, <3>3, <3>5
      <4> QED
        BY <1>3, <1>5, <3>1, <3>2, <3>5, <4>1 DEF IsFresh
    <3>6. IsFresh(d)'
      BY <3>1, <3>5 DEF IsFresh
    <3> QED
      BY <3>4, <3>6
  <2> QED
    BY <1>3, <2>1 DEF ReadInv, GoodReads
<1>10. ReplyInv'
  <2>1. ASSUME NEW m \in replies
        PROVE  /\ ReplyFrom(m)'
               /\ Awaits(m.client, m.req)' /\ IsDefinite(m.outcome) => Answers(m.client, m.outcome)'
    <3>1. m.client \in Client /\ m.req \in Nat
      BY <1>1 DEF ClientTypeOK, Reply
    <3>2. ReplyFrom(m)
      BY DEF ReplyInv
    <3>3. m.req <= nextReq[m.client]
      BY <1>1, <3>2 DEF ReplyFrom, ClientInv
    <3>4. ReplyFrom(m)'
      BY <1>4, <3>2 DEF ReplyFrom
    <3>5. ASSUME Awaits(m.client, m.req)', IsDefinite(m.outcome) PROVE Answers(m.client, m.outcome)'
      <4>1. Awaits(m.client, m.req) /\ inflight'[m.client] = inflight[m.client]
            /\ began'[m.client] = began[m.client]
        BY <1>8, <3>1, <3>3, <3>5
      <4>2. Answers(m.client, m.outcome)
        BY <3>5, <4>1 DEF ReplyInv
      <4>3. OpenCommand(m.client)' = OpenCommand(m.client)
        BY <4>1 DEF OpenCommand
      <4>4. \A i \in 1..Len(chosen) :
              DoneAt(OpenCommand(m.client), i, m.outcome) => DoneAt(OpenCommand(m.client), i, m.outcome)'
        <5>1. ASSUME NEW i \in 1..Len(chosen), DoneAt(OpenCommand(m.client), i, m.outcome)
              PROVE  DoneAt(OpenCommand(m.client), i, m.outcome)'
          <6>1. i - 1 \in Nat
            OBVIOUS
          <6>2. Took(i - 1)' = Took(i - 1) /\ ImageAt(i - 1)' = ImageAt(i - 1)
            BY <1>5, <6>1
          <6> QED
            BY <1>3, <4>3, <5>1, <6>2 DEF DoneAt
        <5> QED
          BY <5>1
      <4>5. CASE inflight[m.client].op.kind = "Get"
        <5>1. PICK j \in 0..Len(chosen) :
                /\ began[m.client] <= Len(Took(j).order)
                /\ m.outcome = ValueIs(ImageAt(j).map[inflight[m.client].op.key])
          BY <4>2, <4>5 DEF Answers
        <5>2. Took(j)' = Took(j) /\ ImageAt(j)' = ImageAt(j) /\ j \in 0..Len(chosen')
          BY <1>3, <1>5
        <5> QED
          BY <4>1, <4>5, <5>1, <5>2 DEF Answers
      <4>6. CASE inflight[m.client].op.kind # "Get"
        <5>1. PICK i \in 1..Len(chosen) : DoneAt(OpenCommand(m.client), i, m.outcome)
          BY <4>2, <4>6 DEF Answers
        <5>2. DoneAt(OpenCommand(m.client), i, m.outcome)' /\ i \in 1..Len(chosen')
          BY <1>3, <4>4, <5>1
        <5> QED
          BY <4>1, <4>6, <5>2 DEF Answers
      <4> QED
        BY <4>5, <4>6
    <3> QED
      BY <3>4, <3>5
  <2> QED
    BY <1>3, <2>1 DEF ReplyInv
<1> QED
  BY <1>6, <1>7, <1>9, <1>10

-----------------------------------------------------------------------------
(* The inductive invariant, with the machines' own: the clients' numbers,  *)
(* what the logs hold, when each open operation began, the terms, and the  *)
(* promises above.                                                         *)
AtomicInv == Knowledge /\ TermInv /\ NewestInv /\ WaitInv /\ ReadInv /\ ReplyInv

LEMMA InitAtomic == Init => AtomicInv
<1> SUFFICES ASSUME Init PROVE AtomicInv
  OBVIOUS
<1>1. KvTypeOK /\ Agreement
  BY InitTypes
<1>2. ClientInv
  BY DEF Init, ClientInit, ClientInv
<1>3. LogInv
  BY DEF Init, LogInv, Sourced
<1>4. BeganInv
  <2>1. Len(Effects) \in Nat
    BY <1>1, EffectsAreSome DEF KvTypeOK
  <2> QED
    BY <2>1 DEF Init, BeganInv
<1>5. TermInv /\ NewestInv
  BY DEF Init, TermInv, NewestInv, Sorted
<1>6. WaitInv /\ ReadInv /\ ReplyInv
  BY EmptySlots DEF Init, ClientInit, WaitInv, GoodWaits, ReadInv, GoodReads, ReplyInv
<1> QED
  BY <1>1, <1>2, <1>3, <1>4, <1>5, <1>6 DEF AtomicInv, Knowledge

(* What the consensus, and a step that leaves the clients alone, preserve. *)
LEMMA QuietKeepsKnowledge ==
    ASSUME Knowledge, TermInv, NewestInv, KvTypeOK', Agreement', NEW s \in Server, RaftCase(s), Quiet
    PROVE  Knowledge' /\ TermInv' /\ NewestInv' /\ Grows
<1>1. KvTypeOK /\ ServerTypeOK /\ Agreement /\ ServerTypeOK'
  BY DEF Knowledge, KvTypeOK
<1>2. TermInv' /\ NewestInv' /\ Grows
  BY <1>1, RaftCaseTerms
<1>3. requests' = requests /\ inflight' = inflight /\ seq' = seq /\ nextReq' = nextReq
  BY DEF Quiet, clientVars
<1>4. LogInv'
  BY <1>1, <1>3, RaftCaseSources DEF Knowledge
<1>5. BeganInv'
  BY <1>1, <1>2, ServersKeepBegan DEF Knowledge
<1>6. ClientInv'
  BY <1>3 DEF Knowledge, ClientInv, OpenCommand, Invoked
<1> QED
  BY <1>2, <1>4, <1>5, <1>6 DEF Knowledge

LEMMA ServersKeepAtomic ==
    ASSUME AtomicInv, MachineIsItsPrefix, NEW s \in Server, ServerMoves(s)
    PROVE  AtomicInv' /\ Grows /\ Quiet
<1>1. Knowledge /\ TermInv /\ NewestInv /\ WaitInv /\ ReadInv /\ ReplyInv /\ KvTypeOK /\ Agreement
  BY DEF AtomicInv, Knowledge
<1>2. KvTypeOK' /\ Agreement' /\ Quiet
  BY <1>1, ServerMovesTypes
<1>3. RaftCase(s)
  BY ServerMovesRaft
<1>4. Knowledge' /\ TermInv' /\ NewestInv' /\ Grows
  BY <1>1, <1>2, <1>3, QuietKeepsKnowledge
<1>5. \A p \in Server : \E j \in Nat : Holds(p, j)
  BY <1>1, MachineIsHeld
<1>6. WaitInv' /\ ReadInv' /\ ReplyInv'
  BY <1>1, <1>4, <1>5, ServersKeepPromises
<1> QED
  BY <1>2, <1>4, <1>6 DEF AtomicInv

LEMMA ClientsKeepAtomic ==
    ASSUME AtomicInv, NEW c \in Client, ClientActs(c)
    PROVE  AtomicInv'
<1>1. Knowledge /\ TermInv /\ NewestInv /\ WaitInv /\ ReadInv /\ ReplyInv /\ KvTypeOK /\ Agreement
  BY DEF AtomicInv, Knowledge
<1>2. KvTypeOK' /\ Agreement' /\ ClientMoves(c) /\ UNCHANGED <<raftVars, serverVars, env>>
  BY <1>1, ClientActsTypes
<1>3. ClientInv'
  BY <1>1, <1>2, ClientNumbers DEF Knowledge, KvTypeOK
<1>4. BeganInv'
  BY <1>1, ClientsKeepBegan DEF Knowledge
<1>5. WaitInv' /\ ReadInv' /\ ReplyInv' /\ LogInv'
  BY <1>1, ClientsKeepPromises
<1>6. TermInv' /\ NewestInv'
  BY <1>1, <1>2 DEF TermInv, NewestInv, IsAhead, Sorted, raftVars
<1> QED
  BY <1>2, <1>3, <1>4, <1>5, <1>6 DEF AtomicInv, Knowledge

LEMMA StutterKeepsAtomic ==
    ASSUME AtomicInv, UNCHANGED vars
    PROVE  AtomicInv'
<1>1. Knowledge /\ TermInv /\ NewestInv /\ WaitInv /\ ReadInv /\ ReplyInv /\ KvTypeOK /\ Agreement
  BY DEF AtomicInv, Knowledge
<1>2. KvTypeOK' /\ Agreement'
  BY <1>1, StutterTypes
<1>3. Quiet /\ UNCHANGED raftVars /\ replies' = replies /\ waiting' = waiting /\ reads' = reads
  BY DEF vars, Quiet, raftVars, serverVars
<1>4. Grows
  BY <1>1, <1>3 DEF Grows, raftVars, KvTypeOK, ServerTypeOK
<1>5. WaitInv'
  BY <1>3, KnownWaits DEF AtomicInv, WaitInv, GoodWaits
<1>6. ReadInv' /\ ReplyInv'
  BY <1>1, <1>3, <1>4, FewerReads, MoreReplies
<1>7. TermInv' /\ NewestInv'
  BY <1>1, <1>3 DEF TermInv, NewestInv, IsAhead, Sorted, raftVars
<1>8. LogInv'
  BY <1>1, <1>3 DEF Knowledge, LogInv, Sourced, Invoked, Quiet, raftVars
<1>9. BeganInv'
  BY <1>1, <1>2, <1>3, <1>4, ServersKeepBegan DEF Knowledge, KvTypeOK
<1>10. ClientInv'
  BY <1>1, <1>3 DEF Knowledge, ClientInv, OpenCommand, Invoked, Quiet, clientVars
<1> QED
  BY <1>2, <1>5, <1>6, <1>7, <1>8, <1>9, <1>10 DEF AtomicInv, Knowledge

LEMMA AtomicKept == Spec => []AtomicInv
<1>1. AtomicInv /\ MachineIsItsPrefix /\ [Next]_vars => AtomicInv'
  <2> SUFFICES ASSUME AtomicInv, MachineIsItsPrefix, [Next]_vars PROVE AtomicInv'
    OBVIOUS
  <2>1. KvTypeOK /\ Agreement
    BY DEF AtomicInv, Knowledge
  <2> QED
    BY <2>1, StepMoves, ServersKeepAtomic, ClientsKeepAtomic, StutterKeepsAtomic
<1> QED
  BY <1>1, InitAtomic, MachinesArePrefixes, PTL DEF Spec

-----------------------------------------------------------------------------
(* The clients see an atomic store. *)

OpenNow(c) == IF inflight[c] = None THEN None ELSE [cmd |-> OpenCommand(c), from |-> began[c]]

AnswerNow(c) ==
    IF answer[c] = None THEN None ELSE [seq |-> answer[c].seq, outcome |-> answer[c].outcome]

(* The store's conditions, in the servers' terms. *)
LEMMA StoreAnswers ==
    ASSUME NEW c \in Client, NEW outcome, inflight[c] # None,
           IF inflight[c].op.kind = "Get"
           THEN \E n \in began[c]..Len(Effects) : outcome = OutcomeOf(Store!MapAt(n), OpenCommand(c))
           ELSE \E n \in DOMAIN Effects : /\ Effects[n] = OpenCommand(c)
                                          /\ outcome = OutcomeOf(Store!MapAt(n - 1), OpenCommand(c))
    PROVE  Store!IsAnswer(c, outcome)
<1> DEFINE open == [d \in Client |-> OpenNow(d)]
<1>1. open[c] = [cmd |-> OpenCommand(c), from |-> began[c]]
  BY DEF OpenNow
<1>2. open[c].cmd = OpenCommand(c) /\ open[c].from = began[c]
  BY <1>1
<1>3. OpenCommand(c).op = inflight[c].op
  BY DEF OpenCommand
<1>4. \A map, cmd : Store!OutcomeOf(map, cmd) = OutcomeOf(map, cmd)
  BY DEF Store!OutcomeOf, OutcomeOf, Store!ValueIs, ValueIs, Store!CasIs, CasIs, Store!Written, Written
<1>5. Store!IsAnswer(c, outcome) <=>
        LET cmd == open[c].cmd IN
        IF cmd.op.kind = "Get"
        THEN \E n \in open[c].from..Len(Effects) : outcome = Store!OutcomeOf(Store!MapAt(n), cmd)
        ELSE \E n \in DOMAIN Effects : Effects[n] = cmd /\ outcome = Store!OutcomeOf(Store!MapAt(n - 1), cmd)
  BY DEF Store!IsAnswer, OpenNow, OpenCommand
<1> HIDE DEF open
<1> QED
  BY <1>2, <1>3, <1>4, <1>5

LEMMA AnswersAreTheStores ==
    ASSUME Knowledge, NEW c \in Client, inflight[c] # None, NEW outcome, Answers(c, outcome)
    PROVE  Store!IsAnswer(c, outcome)
<1>1. ServerTypeOK /\ Len(chosen) \in Nat /\ began[c] \in Nat
  BY DEF Knowledge, KvTypeOK, ServerTypeOK
<1>2. Effects = Took(Len(chosen)).order /\ Len(Effects) \in Nat
  BY <1>1, EffectsAreTaken, EffectsAreSome
<1>3. OpenCommand(c).op = inflight[c].op
  BY DEF OpenCommand
<1>4. CASE inflight[c].op.kind = "Get"
  <2>1. PICK j \in 0..Len(chosen) :
          /\ began[c] <= Len(Took(j).order)
          /\ outcome = ValueIs(ImageAt(j).map[inflight[c].op.key])
    BY <1>4 DEF Answers
  <2>2. j \in Nat /\ j <= Len(chosen)
    BY <1>1
  <2>3. IsBefore(Took(j).order, Took(Len(chosen)).order)
    BY <1>1, <2>2, OrderGrows
  <2>4. PICK n \in Nat : n = Len(Took(j).order)
    BY <1>1, <2>2, TookIsATally
  <2>5. n \in began[c]..Len(Effects)
    BY <1>1, <1>2, <2>1, <2>3, <2>4 DEF IsBefore
  <2>6. ImageAt(j).map = Store!MapAt(n)
    BY <1>1, <2>2, <2>4, ImagesAreVersions
  <2>7. outcome = OutcomeOf(Store!MapAt(n), OpenCommand(c))
    BY <1>3, <1>4, <2>1, <2>6 DEF OutcomeOf
  <2> QED
    BY <1>4, <2>5, <2>7, StoreAnswers
<1>5. CASE inflight[c].op.kind # "Get"
  <2> DEFINE cmd == OpenCommand(c)
  <2>1. PICK i \in 1..Len(chosen) : DoneAt(cmd, i, outcome)
    BY <1>5 DEF Answers
  <2>2. /\ i \in Nat /\ i - 1 \in Nat /\ i <= Len(chosen) /\ i - 1 <= Len(chosen)
        /\ chosen[i] \in LoggedEntry
        /\ Took(i) = TakeEffect(Took(i - 1), chosen[i])
        /\ Took(i - 1) \in Tally
    BY <1>1, OneEntry
  <2>3. chosen[i].cmd = cmd /\ IsNew(Took(i - 1), cmd) /\ outcome = OutcomeOf(ImageAt(i - 1).map, cmd)
    BY <2>1 DEF DoneAt
  <2>4. cmd.op.kind # "Get"
    BY <1>3, <1>5
  <2> HIDE DEF cmd
  <2>5. TakeEffect(Took(i - 1), chosen[i]).order =
          IF chosen[i].cmd.op.kind = "Get" THEN Took(i - 1).order ELSE Append(Took(i - 1).order, chosen[i].cmd)
    BY <2>2, <2>3, TakeEffectIs
  <2>6. Took(i).order = Append(Took(i - 1).order, cmd)
    BY <2>2, <2>3, <2>4, <2>5
  <2>7. PICK order \in Seq(LoggedCommand) : order = Took(i - 1).order
    BY <1>1, <2>2, TookIsATally
  <2>8. PICK n \in Nat : n = Len(order) + 1
    BY <2>7
  <2>9. Len(Took(i).order) = n /\ Took(i).order[n] = cmd /\ n > 0
    BY <2>6, <2>7, <2>8
  <2>10. IsBefore(Took(i).order, Effects)
    BY <1>1, <1>2, <2>2, OrderGrows
  <2>11. n \in DOMAIN Effects /\ Effects[n] = cmd
    <3>1. n \in 1..Len(Effects) /\ Effects[n] = cmd
      BY <1>2, <2>8, <2>9, <2>10 DEF IsBefore
    <3>2. Effects \in Seq(LoggedCommand)
      BY <1>1, EffectsAreSome
    <3> QED
      BY <3>1, <3>2
  <2>12. ImageAt(i - 1).map = Store!MapAt(n - 1)
    <3>1. n - 1 = Len(Took(i - 1).order)
      BY <2>7, <2>8
    <3> QED
      BY <1>1, <2>2, <3>1, ImagesAreVersions
  <2>13. outcome = OutcomeOf(Store!MapAt(n - 1), cmd)
    BY <2>3, <2>12
  <2> QED
    BY <1>5, <2>11, <2>13, StoreAnswers DEF cmd
<1> QED
  BY <1>4, <1>5

(* The effects come from what was invoked, each once. *)
EffectsAreInvoked == ServerTypeOK /\ LogInv => \A n \in 1..Len(Effects) :
    Effects[n] \in Invoked /\ \A m \in 1..(n - 1) : Effects[m] # Effects[n]

LEMMA EffectsComeOnce == EffectsAreInvoked
<1> SUFFICES ASSUME ServerTypeOK, LogInv, NEW n \in 1..Len(Effects)
             PROVE  Effects[n] \in Invoked /\ \A m \in 1..(n - 1) : Effects[m] # Effects[n]
  BY DEF EffectsAreInvoked
<1>1. Len(chosen) \in Nat
  BY DEF ServerTypeOK
<1>2. Effects = Took(Len(chosen)).order /\ Effects \in Seq(LoggedCommand)
  BY EffectsAreTaken, EffectsAreSome
<1>3. IsSound(Len(chosen))
  BY <1>1, EffectsAreSound
<1>4. PICK i \in 1..Len(chosen) : chosen[i].cmd = Effects[n]
  BY <1>2, <1>3 DEF IsSound
<1>5. Effects[n] \in LoggedCommand
  BY <1>2
<1>6. Effects[n] # Noop
  BY <1>5, KvAssumption DEF LoggedCommand, Command
<1>7. Effects[n] \in Invoked
  BY <1>4, <1>6 DEF LogInv, Sourced
<1>8. \A m \in 1..(n - 1) : Effects[m] # Effects[n]
  BY <1>2, <1>3 DEF IsSound
<1> QED
  BY <1>7, <1>8

LEMMA NextEffectsComeOnce == EffectsAreInvoked'
BY EffectsComeOnce, PTL

(* What the store sees of a step of a server: nothing, or effects.         *)
LEMMA ServerStepMaps ==
    ASSUME AtomicInv, AtomicInv', Grows, Quiet
    PROVE  [Store!StoreNext]_Store!storeVars
<1>1. ServerTypeOK /\ LogInv /\ ServerTypeOK' /\ LogInv'
  BY DEF AtomicInv, Knowledge, KvTypeOK
<1>2. inflight' = inflight /\ began' = began /\ answer' = answer /\ requests' = requests
  BY DEF Quiet, clientVars
<1>3. Len(Effects) \in Nat /\ Len(Effects') \in Nat /\ IsBefore(Effects, Effects')
  BY <1>1, EffectsOnlyGrow
<1>4. CASE Effects' = Effects
  BY <1>2, <1>4 DEF Store!storeVars
<1>5. CASE Effects' # Effects
  <2>1. Effects \in Seq(LoggedCommand) /\ Effects' \in Seq(LoggedCommand)
    <3>1. (ServerTypeOK => Effects \in Seq(LoggedCommand))'
      BY EffectsAreSome, PTL
    <3> QED
      BY <1>1, <3>1, EffectsAreSome
  <2>2. PICK p \in Seq(LoggedCommand), q \in Seq(LoggedCommand) : p = Effects /\ q = Effects'
    BY <2>1
  <2>3. SubSeq(p, 1, Len(p)) = SubSeq(q, 1, Len(p))
    BY <1>3, <2>2, SamePrefix DEF IsBefore
  <2>4. Store!IsStrictPrefix(Effects, Effects')
    BY <1>3, <1>5, <2>2, <2>3 DEF Store!IsStrictPrefix, Store!IsPrefix, IsBefore
  <2>5. \A i \in (Len(Effects) + 1)..Len(Effects') :
          /\ Effects'[i] \in Invoked'
          /\ \A j \in 1..(i - 1) : Effects'[j] # Effects'[i]
    BY <1>1, <1>3, NextEffectsComeOnce DEF EffectsAreInvoked
  <2>6. Invoked' = Invoked
    BY <1>2 DEF Invoked
  <2>7. Store!TakeEffect
    BY <1>2, <2>4, <2>5, <2>6 DEF Store!TakeEffect, Invoked, NewCommand
  <2> QED
    BY <2>7 DEF Store!StoreNext
<1> QED
  BY <1>4, <1>5

(* The store's state and its steps, in the clients' terms. *)
OpenMap == [c \in Client |-> OpenNow(c)]

AnswerMap == [c \in Client |-> AnswerNow(c)]

LEMMA StoreStays ==
    ASSUME Effects' = Effects, OpenMap' = OpenMap, Invoked' = Invoked, AnswerMap' = AnswerMap
    PROVE  UNCHANGED Store!storeVars
BY DEF Store!storeVars, OpenMap, OpenNow, OpenCommand, AnswerMap, AnswerNow, Invoked, NewCommand

LEMMA StoreInvokes ==
    ASSUME NEW c \in Client, NEW cmd, OpenMap[c] = None, cmd.client = c, cmd \notin Invoked,
           \A d \in Invoked : d.client = c => d.seq < cmd.seq,
           OpenMap' = [OpenMap EXCEPT ![c] = [cmd |-> cmd, from |-> Len(Effects)]],
           Invoked' = Invoked \cup {cmd}, Effects' = Effects, AnswerMap' = AnswerMap
    PROVE  Store!Invoke(c, cmd)
BY DEF Store!Invoke, OpenMap, OpenNow, OpenCommand, AnswerMap, AnswerNow, Invoked, NewCommand

LEMMA StoreReturns ==
    ASSUME NEW c \in Client, NEW outcome, OpenMap[c] # None, Store!IsAnswer(c, outcome),
           AnswerMap' = [AnswerMap EXCEPT ![c] = [seq |-> OpenMap[c].cmd.seq, outcome |-> outcome]],
           OpenMap' = [OpenMap EXCEPT ![c] = None], Effects' = Effects, Invoked' = Invoked
    PROVE  Store!Return(c, outcome)
BY DEF Store!Return, OpenMap, OpenNow, OpenCommand, AnswerMap, AnswerNow, Invoked, NewCommand

LEMMA StoreAbandons ==
    ASSUME NEW c \in Client, OpenMap[c] # None, OpenMap' = [OpenMap EXCEPT ![c] = None],
           Effects' = Effects, Invoked' = Invoked, AnswerMap' = AnswerMap
    PROVE  Store!Abandon(c)
BY DEF Store!Abandon, OpenMap, OpenNow, OpenCommand, AnswerMap, AnswerNow, Invoked, NewCommand

LEMMA InvokingIsAStep ==
    ASSUME NEW c \in Client, NEW cmd, OpenMap'[c] # None, OpenMap'[c].cmd = cmd, Store!Invoke(c, cmd)
    PROVE  Store!StoreNext
BY DEF Store!StoreNext, Store!Invoke, OpenMap, OpenNow, OpenCommand

LEMMA ReturningIsAStep ==
    ASSUME NEW c \in Client, NEW outcome, AnswerMap'[c] # None, AnswerMap'[c].outcome = outcome,
           Store!Return(c, outcome)
    PROVE  Store!StoreNext
BY DEF Store!StoreNext, Store!Return, AnswerMap, AnswerNow

LEMMA AbandoningIsAStep ==
    ASSUME NEW c \in Client, Store!Abandon(c)
    PROVE  Store!StoreNext
BY DEF Store!StoreNext

(* What the store sees of the clients that did not move, and of the one    *)
(* that did.                                                               *)
StoreViews ==
    /\ DOMAIN OpenMap = Client /\ OpenMap = [c \in Client |-> OpenMap[c]]
    /\ DOMAIN AnswerMap = Client /\ AnswerMap = [c \in Client |-> AnswerMap[c]]
    /\ \A c \in Client : OpenMap[c] = OpenNow(c) /\ AnswerMap[c] = AnswerNow(c)

LEMMA StoreViewsAre == StoreViews /\ StoreViews'
<1>1. StoreViews
  BY DEF StoreViews, OpenMap, OpenNow, OpenCommand, AnswerMap, AnswerNow
<1> QED
  BY <1>1, PTL

LEMMA OneChanges ==
    ASSUME NEW S, NEW f, NEW g, NEW c \in S, NEW v,
           DOMAIN f = S, f = [d \in S |-> f[d]], DOMAIN g = S, g = [d \in S |-> g[d]],
           g[c] = v, \A d \in S : d # c => g[d] = f[d]
    PROVE  g = [f EXCEPT ![c] = v]
OBVIOUS

LEMMA OthersStay ==
    ASSUME KvTypeOK, NEW c \in Client, ClientMoves(c), ClientActs(c)
    PROVE  /\ Effects' = Effects
           /\ OpenMap' = [OpenMap EXCEPT ![c] = OpenNow(c)']
           /\ answer' = answer => AnswerMap' = AnswerMap
<1>1. chosen' = chosen
  BY DEF ClientActs, raftVars
<1>2. Effects' = Effects
  BY <1>1 DEF Effects
<1>3. ASSUME NEW d \in Client, d # c PROVE OpenNow(d)' = OpenNow(d)
  <2>1. inflight'[d] = inflight[d]
    BY <1>3 DEF ClientMoves
  <2>2. began'[d] = began[d]
    BY <1>3 DEF ClientActs, KvTypeOK, ServerTypeOK
  <2> QED
    BY <2>1, <2>2 DEF OpenNow, OpenCommand
<1>4. OpenMap' = [OpenMap EXCEPT ![c] = OpenNow(c)']
  <2>1. /\ DOMAIN OpenMap = Client /\ OpenMap = [d \in Client |-> OpenMap[d]]
        /\ DOMAIN OpenMap' = Client /\ OpenMap' = [d \in Client |-> OpenMap'[d]]
        /\ OpenMap'[c] = OpenNow(c)' /\ \A d \in Client : d # c => OpenMap'[d] = OpenMap[d]
    BY <1>3, StoreViewsAre DEF StoreViews
  <2> QED
    BY <2>1, OneChanges
<1>5. answer' = answer => AnswerMap' = AnswerMap
  BY DEF AnswerMap, AnswerNow
<1> QED
  BY <1>2, <1>4, <1>5

LEMMA OpenIsSame ==
    ASSUME NEW c \in Client, OpenMap' = [OpenMap EXCEPT ![c] = OpenNow(c)'], OpenNow(c)' = OpenNow(c)
    PROVE  OpenMap' = OpenMap
BY StoreViewsAre DEF StoreViews

LEMMA BeginsMaps ==
    ASSUME AtomicInv, AtomicInv', NEW c \in Client, ClientActs(c), ClientMoves(c), Begins(c)
    PROVE  Store!StoreNext
<1>1. KvTypeOK /\ KvTypeOK' /\ ClientTypeOK /\ ClientTypeOK' /\ ServerTypeOK /\ ClientInv
  BY DEF AtomicInv, Knowledge, KvTypeOK
<1>2. inflight[c] = None /\ seq'[c] = seq[c] + 1 /\ inflight'[c].seq = seq'[c] /\ Sends(c)
  BY DEF Begins
<1>3. inflight'[c] \in Pending /\ answer' = answer
  BY <1>2 DEF Sends
<1>4. inflight'[c] # None
  BY <1>3, NoneIsNone
<1>5. PICK cmd : cmd = OpenCommand(c)'
  OBVIOUS
<1>6. cmd.client = c /\ cmd.seq = seq[c] + 1 /\ seq[c] \in Nat
  BY <1>1, <1>2, <1>5 DEF OpenCommand, ClientTypeOK
<1>7. cmd \in Command
  <2>1. inflight'[c].seq \in Nat /\ inflight'[c].op \in Op
    BY <1>3 DEF Pending
  <2>2. cmd = [client |-> c, seq |-> inflight'[c].seq, op |-> inflight'[c].op]
    BY <1>5 DEF OpenCommand
  <2> QED
    BY <2>1, <2>2 DEF Command
<1>8. began'[c] = Len(Effects) /\ Len(Effects) \in Nat
  <2>1. seq'[c] > seq[c]
    BY <1>2, <1>6
  <2> QED
    BY <1>1, <2>1, EffectsAreSome DEF ClientActs, ServerTypeOK
<1>9. OpenNow(c)' = [cmd |-> cmd, from |-> Len(Effects)]
  BY <1>4, <1>5, <1>8 DEF OpenNow
<1>10. OpenNow(c)' # None
  <2>1. [cmd |-> cmd, from |-> Len(Effects)] \in [cmd : Command, from : Nat]
    BY <1>7, <1>8
  <2> QED
    BY <1>9, <2>1, KvAssumption
<1>11. /\ Effects' = Effects /\ AnswerMap' = AnswerMap
       /\ OpenMap' = [OpenMap EXCEPT ![c] = [cmd |-> cmd, from |-> Len(Effects)]]
  BY <1>1, <1>3, <1>9, OthersStay
<1>12. OpenMap[c] = None
  BY <1>2, StoreViewsAre DEF StoreViews, OpenNow
<1>13. \A d \in Invoked : d.client = c => d.seq < cmd.seq
  <2>1. ASSUME NEW d \in Invoked, d.client = c PROVE d.seq < cmd.seq
    <3>1. d.seq \in Nat /\ d.seq <= seq[c]
      BY <1>1, <2>1, InvokedAreNumbered
    <3> QED
      BY <1>6, <3>1
  <2> QED
    BY <2>1
<1>14. cmd \notin Invoked
  BY <1>6, <1>13
<1>15. Invoked' = Invoked \cup {cmd}
  <2>1. PICK s \in Server :
          /\ requests' = requests \cup {Attempted(c, s)}
          /\ NewCommand(Attempted(c, s)) = OpenCommand(c)'
    BY <1>2, SendsAsks
  <2> QED
    BY <1>5, <2>1 DEF Invoked
<1>16. Store!Invoke(c, cmd)
  BY <1>6, <1>11, <1>12, <1>13, <1>14, <1>15, StoreInvokes
<1>17. OpenMap'[c] = [cmd |-> cmd, from |-> Len(Effects)]
  BY <1>9, StoreViewsAre DEF StoreViews
<1>18. OpenMap'[c] # None /\ OpenMap'[c].cmd = cmd
  BY <1>9, <1>10, <1>17
<1> QED
  BY <1>16, <1>18, InvokingIsAStep

LEMMA RetriesMaps ==
    ASSUME AtomicInv, AtomicInv', NEW c \in Client, ClientActs(c), ClientMoves(c), Retries(c)
    PROVE  UNCHANGED Store!storeVars
<1>1. KvTypeOK /\ ClientTypeOK /\ ServerTypeOK /\ ClientInv
  BY DEF AtomicInv, Knowledge, KvTypeOK
<1>2. /\ inflight[c] \in Pending /\ inflight'[c] \in Pending /\ answer' = answer
      /\ inflight'[c].seq = inflight[c].seq /\ inflight'[c].op = inflight[c].op
      /\ seq'[c] = seq[c] /\ Sends(c)
  BY DEF Retries, Sends
<1>3. OpenCommand(c)' = OpenCommand(c)
  BY <1>2 DEF OpenCommand
<1>4. inflight[c] # None /\ inflight'[c] # None
  BY <1>2, NoneIsNone
<1>5. began'[c] = began[c]
  <2>1. ~(seq'[c] > seq[c])
    BY <1>1, <1>2 DEF ClientTypeOK
  <2> QED
    BY <1>1, <2>1 DEF ClientActs, ServerTypeOK
<1>6. OpenNow(c)' = OpenNow(c)
  BY <1>3, <1>4, <1>5 DEF OpenNow
<1>7. Effects' = Effects /\ OpenMap' = OpenMap /\ AnswerMap' = AnswerMap
  BY <1>1, <1>2, <1>6, OthersStay, OpenIsSame
<1>8. Invoked' = Invoked
  <2>1. PICK s \in Server :
          /\ requests' = requests \cup {Attempted(c, s)}
          /\ NewCommand(Attempted(c, s)) = OpenCommand(c)'
    BY <1>2, SendsAsks
  <2>2. OpenCommand(c) \in Invoked
    BY <1>1, <1>4 DEF ClientInv
  <2>3. Invoked' = Invoked \cup {OpenCommand(c)}
    BY <1>3, <2>1 DEF Invoked
  <2> QED
    BY <2>2, <2>3
<1> QED
  BY <1>7, <1>8, StoreStays

LEMMA IdlesMaps ==
    ASSUME KvTypeOK, NEW c \in Client, ClientActs(c), ClientMoves(c), Idles(c)
    PROVE  UNCHANGED Store!storeVars
<1>1. inflight'[c] = inflight[c] /\ answer' = answer /\ seq'[c] = seq[c] /\ requests' = requests
  BY DEF Idles, Rests
<1>2. began'[c] = began[c]
  <2>1. ~(seq'[c] > seq[c])
    BY <1>1 DEF KvTypeOK, ClientTypeOK
  <2> QED
    BY <2>1 DEF ClientActs, KvTypeOK, ServerTypeOK
<1>3. OpenNow(c)' = OpenNow(c)
  BY <1>1, <1>2 DEF OpenNow, OpenCommand
<1>4. Effects' = Effects /\ OpenMap' = OpenMap /\ AnswerMap' = AnswerMap
  BY <1>1, <1>3, OthersStay, OpenIsSame
<1>5. Invoked' = Invoked
  BY <1>1 DEF Invoked
<1> QED
  BY <1>4, <1>5, StoreStays

(* What is open has a name in the store. *)
LEMMA OpenHasAName ==
    ASSUME KvTypeOK, NEW c \in Client, inflight[c] \in Pending
    PROVE  /\ OpenMap[c] # None /\ OpenMap[c].cmd = OpenCommand(c) /\ inflight[c] # None
           /\ OpenCommand(c).seq = inflight[c].seq
<1>1. inflight[c].seq \in Nat /\ inflight[c].op \in Op /\ began[c] \in Nat
  BY DEF Pending, KvTypeOK, ServerTypeOK
<1>2. OpenCommand(c) \in Command
  BY <1>1 DEF OpenCommand, Command
<1>3. inflight[c] # None
  BY NoneIsNone
<1>4. OpenMap[c] = [cmd |-> OpenCommand(c), from |-> began[c]]
  BY <1>3, StoreViewsAre DEF StoreViews, OpenNow
<1>5. OpenMap[c] \in [cmd : Command, from : Nat]
  BY <1>1, <1>2, <1>4
<1> QED
  BY <1>3, <1>4, <1>5, KvAssumption DEF OpenCommand

LEMMA GivesUpMaps ==
    ASSUME KvTypeOK, NEW c \in Client, ClientActs(c), ClientMoves(c), GivesUp(c)
    PROVE  Store!StoreNext
<1>1. inflight[c] \in Pending /\ inflight'[c] = None /\ answer' = answer /\ requests' = requests
  BY DEF GivesUp, Rests
<1>2. OpenMap[c] # None
  BY <1>1, OpenHasAName
<1>3. OpenNow(c)' = None
  BY <1>1 DEF OpenNow
<1>4. Effects' = Effects /\ OpenMap' = [OpenMap EXCEPT ![c] = None] /\ AnswerMap' = AnswerMap
  BY <1>1, <1>3, OthersStay
<1>5. Invoked' = Invoked
  BY <1>1 DEF Invoked
<1>6. Store!Abandon(c)
  BY <1>2, <1>4, <1>5, StoreAbandons
<1> QED
  BY <1>6, AbandoningIsAStep

LEMMA FinishesMaps ==
    ASSUME AtomicInv, NEW c \in Client, ClientActs(c), ClientMoves(c), Finishes(c)
    PROVE  Store!StoreNext
<1>1. KvTypeOK /\ ClientTypeOK /\ ReplyInv /\ Knowledge
  BY DEF AtomicInv, Knowledge, KvTypeOK
<1>2. inflight[c] \in Pending /\ inflight'[c] = None /\ requests' = requests
  BY DEF Finishes, Rests
<1>3. PICK m \in replies :
        /\ m.client = c /\ m.req = inflight[c].req /\ IsDefinite(m.outcome)
        /\ answer' = [answer EXCEPT ![c] =
                         [seq |-> inflight[c].seq, req |-> m.req, outcome |-> m.outcome]]
  BY DEF Finishes
<1>4. /\ OpenMap[c] # None /\ OpenMap[c].cmd = OpenCommand(c) /\ inflight[c] # None
      /\ OpenCommand(c).seq = inflight[c].seq
  BY <1>1, <1>2, OpenHasAName
<1>5. Answers(c, m.outcome)
  BY <1>1, <1>3, <1>4 DEF ReplyInv, Awaits
<1>6. Store!IsAnswer(c, m.outcome)
  BY <1>1, <1>4, <1>5, AnswersAreTheStores
<1>7. OpenNow(c)' = None
  BY <1>2 DEF OpenNow
<1>8. Effects' = Effects /\ OpenMap' = [OpenMap EXCEPT ![c] = None]
  BY <1>1, <1>7, OthersStay
<1>9. Invoked' = Invoked
  BY <1>2 DEF Invoked
<1>10. m.outcome \in Outcome /\ m.req \in Nat /\ inflight[c].seq \in Nat
  BY <1>1, <1>2 DEF ClientTypeOK, Reply, Pending
<1> DEFINE a == [seq |-> inflight[c].seq, req |-> m.req, outcome |-> m.outcome]
           told == [seq |-> inflight[c].seq, outcome |-> m.outcome]
<1>11. a \in Answer /\ told \in [seq : Nat, outcome : Outcome] /\ a.seq = told.seq /\ a.outcome = told.outcome
  BY <1>10 DEF Answer
<1>12. a # None /\ told # None
  BY <1>11, NoneIsNone, KvAssumption
<1>13. answer \in [Client -> Answer \cup {None}]
  BY <1>1 DEF ClientTypeOK
<1>14. AnswerNow(c)' = told
  <2>1. answer'[c] = a
    BY <1>3, <1>13
  <2> QED
    BY <1>12, <2>1 DEF AnswerNow
<1>15. \A d \in Client : d # c => AnswerNow(d)' = AnswerNow(d)
  BY <1>3, <1>13 DEF AnswerNow
<1>16. AnswerMap' = [AnswerMap EXCEPT ![c] = told]
  <2>1. /\ DOMAIN AnswerMap = Client /\ AnswerMap = [d \in Client |-> AnswerMap[d]]
        /\ DOMAIN AnswerMap' = Client /\ AnswerMap' = [d \in Client |-> AnswerMap'[d]]
        /\ AnswerMap'[c] = told /\ \A d \in Client : d # c => AnswerMap'[d] = AnswerMap[d]
    BY <1>14, <1>15, StoreViewsAre DEF StoreViews
  <2> QED
    BY <2>1, OneChanges
<1>17. Store!Return(c, m.outcome)
  BY <1>4, <1>6, <1>8, <1>9, <1>16, StoreReturns
<1>18. AnswerMap'[c] = told
  BY <1>14, StoreViewsAre DEF StoreViews
<1> QED
  BY <1>12, <1>17, <1>18, ReturningIsAStep

LEMMA ClientStepMaps ==
    ASSUME AtomicInv, AtomicInv', NEW c \in Client, ClientActs(c)
    PROVE  [Store!StoreNext]_Store!storeVars
<1>1. KvTypeOK /\ Agreement
  BY DEF AtomicInv, Knowledge
<1>2. ClientMoves(c)
  BY <1>1, ClientActsTypes
<1> QED
  BY <1>1, <1>2, BeginsMaps, RetriesMaps, IdlesMaps, GivesUpMaps, FinishesMaps DEF ClientMoves

LEMMA StartMaps == Init => Store!StoreInit
<1> SUFFICES ASSUME Init PROVE Store!StoreInit
  OBVIOUS
<1>1. Effects = <<>>
  <2>1. Len(chosen) = 0
    BY DEF Init
  <2> QED
    BY <2>1, EffectsOfNothing DEF Effects, NoEffects
<1>2. inflight = [c \in Client |-> None] /\ requests = {} /\ answer = [c \in Client |-> None]
  BY DEF Init, ClientInit
<1> QED
  BY <1>1, <1>2 DEF Store!StoreInit

(* The clients see an atomic store: whatever is retried, repeated,         *)
(* redirected, dropped or replayed after a crash, every operation takes    *)
(* effect at most once, between its invocation and its answer, and the     *)
(* answer is what it did there (`on_request`, `drain`, `apply`, `cached`,  *)
(* `take_ready_reads`, `adopt_snapshot`, `recover`, and the client's       *)
(* `retry` and `finish`).                                                  *)
THEOREM StoreIsAtomic == Spec => IsLinearizable
<1>1. AtomicInv /\ AtomicInv' /\ MachineIsItsPrefix /\ [Next]_vars
      => [Store!StoreNext]_Store!storeVars
  <2> SUFFICES ASSUME AtomicInv, AtomicInv', MachineIsItsPrefix, [Next]_vars
               PROVE  [Store!StoreNext]_Store!storeVars
    OBVIOUS
  <2>1. KvTypeOK /\ Agreement
    BY DEF AtomicInv, Knowledge
  <2>2. ASSUME NEW c \in Client, ClientActs(c) PROVE [Store!StoreNext]_Store!storeVars
    BY <2>2, ClientStepMaps
  <2>3. ASSUME NEW s \in Server, ServerMoves(s) PROVE [Store!StoreNext]_Store!storeVars
    BY <2>3, ServersKeepAtomic, ServerStepMaps
  <2>4. CASE UNCHANGED vars
    <3>1. Quiet /\ chosen' = chosen
      BY <2>4 DEF vars, Quiet, raftVars
    <3>2. Grows
      BY <2>1, <3>1 DEF Grows, KvTypeOK, ServerTypeOK
    <3> QED
      BY <3>1, <3>2, ServerStepMaps
  <2> QED
    BY <2>1, <2>2, <2>3, <2>4, StepMoves
<1> QED
  BY <1>1, StartMaps, AtomicKept, MachinesArePrefixes, PTL DEF Spec, IsLinearizable, Store!StoreSpec
===============================================================================
