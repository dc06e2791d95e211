--------------------------- MODULE Linearizability ---------------------------
(***************************************************************************)
(* The linearizability checker (`checker/linearizability.rs`): a history   *)
(* is split by key, and each part is searched for an order with Wing and   *)
(* Gong's algorithm: a doubly linked list of calls and returns from which  *)
(* linearized operations are lifted and to which backtracking restores     *)
(* them, a memo of (operations linearized, state), a stack, and a budget.  *)
(*                                                                         *)
(* A state of the specification is a state of the search loop.  The        *)
(* history is any bounded one a run can record: operations are numbered    *)
(* as they are invoked, and an answer comes strictly after its question,   *)
(* because the network's latency is positive.                              *)
(***************************************************************************)
EXTENDS Integers, Sequences, FiniteSets, SequencesExt, Functions

CONSTANTS
    Absent,         \* Reg::Absent, and None of an outcome
    NoAnswer,       \* the outcome of a pending operation
    Profiles        \* the kinds of history a run is about

VARIABLES
    profile,        \* the kind of the history in hand
    history,
    todo,           \* keys whose part has not been checked
    part,           \* the operations of the key in hand
    order,          \* their calls and returns, sorted
    succ, pred,     \* Node.next and Node.prev; Sentinel is both ends
    entry,          \* the position the search looks at
    state,          \* the register
    linearized,     \* the operations in the order built so far
    cache,          \* the memo
    calls,          \* the stack of (call, state before)
    steps,
    verdict

listVars == <<succ, pred>>
searchVars == <<entry, state, linearized, cache, calls, steps>>
vars == <<profile, history, todo, part, order, listVars, searchVars, verdict>>

Key == profile.key
Value == profile.value
Kind == profile.kind            \* the kinds of operation in the history
Horizon == profile.horizon      \* bound: the last instant of the history
NumOps == profile.numOps        \* bound: operations in the history
Budget == profile.budget        \* Checker.budget

Forever == Horizon + 1      \* Nanos::MAX
Sentinel == 0

Register == Value \cup {Absent}

Op == {o \in [kind : {"Get", "Delete"}, key : Key]
             \cup [kind : {"Put"}, key : Key, value : Value]
             \cup [kind : {"Cas"}, key : Key, expect : Register, value : Value] :
       o.kind \in Kind}

Outcomes(op) ==
    CASE op.kind = "Get" -> [got : Register]
      [] op.kind = "Cas" -> [matched : BOOLEAN]
      [] OTHER -> {[written |-> TRUE]}

(* `Operation`, at least one instant long; completed is Forever and the    *)
(* outcome NoAnswer while no definite answer has come.                     *)
Operation ==
    UNION {[op : {o}, invoked : {t}, completed : (t + 1)..Horizon, outcome : Outcomes(o)]
             \cup [op : {o}, invoked : {t}, completed : {Forever}, outcome : {NoAnswer}] :
           o \in Op, t \in 1..Horizon}

IsHistory(h) == \A i, j \in DOMAIN h : i < j => h[i].invoked <= h[j].invoked

ASSUME LinearizabilityAssumption == \A p \in Profiles :
    /\ Absent \notin p.value
    /\ p.kind \subseteq {"Get", "Put", "Delete", "Cas"}
    /\ {p.horizon, p.numOps, p.budget} \subseteq Nat

-----------------------------------------------------------------------------
(* `step`: the register after an operation, and whether its outcome fits.  *)

Next1(reg, o) ==
    CASE o.op.kind = "Get" -> reg
      [] o.op.kind = "Put" -> o.op.value
      [] o.op.kind = "Delete" -> Absent
      [] OTHER -> IF reg = o.op.expect THEN o.op.value ELSE reg

Expected(reg, o) ==
    CASE o.op.kind = "Get" -> [got |-> reg]
      [] o.op.kind = "Cas" -> [matched |-> reg = o.op.expect]
      [] OTHER -> [written |-> TRUE]

Fits(reg, o) == o.outcome = NoAnswer \/ o.outcome = Expected(reg, o)

-----------------------------------------------------------------------------
(* `check_partition`, up to its loop.                                      *)

(* By time, returns before calls, then by id. *)
Sooner(ops, a, b) ==
    LET key(e) == IF e.call THEN <<ops[e.op].invoked, 1, e.op>>
                            ELSE <<ops[e.op].completed, 0, e.op>>
        x == key(a)
        y == key(b)
    IN  \/ x[1] < y[1]
        \/ x[1] = y[1] /\ x[2] < y[2]
        \/ x[1] = y[1] /\ x[2] = y[2] /\ x[3] < y[3]

Entries(ops) ==
    LET all == [op : DOMAIN ops, call : BOOLEAN]
        before(e) == {f \in all : Sooner(ops, f, e)}
    IN  [p \in 1..Cardinality(all) |-> CHOOSE e \in all : Cardinality(before(e)) = p - 1]

Matching(pos) ==
    CHOOSE q \in DOMAIN order : order[q].op = order[pos].op /\ q # pos

PartOf(k) == SelectSeq(history, LAMBDA o : o.op.key = k)

(* The search of the part of key k begins. *)
Begin(k) ==
    LET ops == PartOf(k)
        last == 2 * Len(ops)
    IN  /\ todo' = todo \ {k}
        /\ part' = ops
        /\ order' = Entries(ops)
        /\ succ' = [p \in 0..last |-> IF p = last THEN Sentinel ELSE p + 1]
        /\ pred' = [p \in 0..last |-> IF p = Sentinel THEN last ELSE p - 1]
        /\ entry' = IF last = 0 THEN Sentinel ELSE 1
        /\ state' = Absent
        /\ linearized' = {}
        /\ cache' = {}
        /\ calls' = <<>>
        /\ steps' = 0
        /\ UNCHANGED <<profile, history, verdict>>

-----------------------------------------------------------------------------
(* Lists, as a pair of functions.                                          *)

Unlinked(list, i) ==
    [succ |-> [list.succ EXCEPT ![list.pred[i]] = list.succ[i]],
     pred |-> [list.pred EXCEPT ![list.succ[i]] = list.pred[i]]]

Relinked(list, i) ==
    [succ |-> [list.succ EXCEPT ![list.pred[i]] = i],
     pred |-> [list.pred EXCEPT ![list.succ[i]] = i]]

List == [succ |-> succ, pred |-> pred]

Lifted(call) == Unlinked(Unlinked(List, call), Matching(call))

(* "Removals and restores are perfectly nested" (`relink`). *)
Restored(call) == Relinked(Relinked(List, Matching(call)), call)

-----------------------------------------------------------------------------
Init ==
    /\ profile \in Profiles
    /\ history \in [1..NumOps -> Operation]
    /\ IsHistory(history)
    /\ todo = Key
    /\ part = <<>> /\ order = <<>>
    /\ succ = [p \in {Sentinel} |-> Sentinel] /\ pred = succ
    /\ entry = Sentinel /\ state = Absent
    /\ linearized = {} /\ cache = {} /\ calls = <<>> /\ steps = 0
    /\ verdict = "none"

Searching == verdict = "none" /\ entry # Sentinel

(* `check`: keys one after the other, until one is not Linearizable.  The  *)
(* order of the keys is of no consequence.                                 *)
NextKey ==
    /\ verdict = "none" /\ entry = Sentinel
    /\ \E k \in todo : Begin(k)

Accept ==
    /\ verdict = "none" /\ entry = Sentinel /\ todo = {}
    /\ verdict' = "Linearizable"
    /\ UNCHANGED <<profile, history, todo, part, order, listVars, searchVars>>

GiveUp ==
    /\ Searching
    /\ steps = Budget
    /\ verdict' = "Unknown"
    /\ UNCHANGED <<profile, history, todo, part, order, listVars, searchVars>>

Step == Searching /\ steps < Budget /\ steps' = steps + 1

(* Mutant of Memo: the register is left out of the key. *)
MemoOps(ops, reg) == <<ops, Absent>>

Memo(ops, reg) == <<ops, reg>>

Candidate == order[entry].op
MayLinearize ==
    /\ Fits(state, part[Candidate])
    /\ Memo(linearized \cup {Candidate}, Next1(state, part[Candidate])) \notin cache

Linearize ==
    /\ Step
    /\ order[entry].call
    /\ MayLinearize
    /\ cache' = cache \cup {Memo(linearized \cup {Candidate}, Next1(state, part[Candidate]))}
    /\ linearized' = linearized \cup {Candidate}
    /\ calls' = Append(calls, [call |-> entry, state |-> state])
    /\ state' = Next1(state, part[Candidate])
    /\ succ' = Lifted(entry).succ /\ pred' = Lifted(entry).pred
    /\ entry' = succ'[Sentinel]
    /\ UNCHANGED <<profile, history, todo, part, order, verdict>>

PassOver ==
    /\ Step
    /\ order[entry].call
    /\ ~MayLinearize
    /\ entry' = succ[entry]
    /\ UNCHANGED <<profile, history, todo, part, order, listVars, state, linearized, cache, calls, verdict>>

(* A return whose call is not linearized: the last choice is undone. *)
Backtrack ==
    LET top == Last(calls)
    IN  /\ Step
        /\ ~order[entry].call
        /\ calls # <<>>
        /\ calls' = Front(calls)
        /\ linearized' = linearized \ {order[top.call].op}
        /\ state' = top.state
        /\ succ' = Restored(top.call).succ /\ pred' = Restored(top.call).pred
        /\ entry' = succ'[top.call]
        /\ UNCHANGED <<profile, history, todo, part, order, cache, verdict>>

Reject ==
    /\ Step
    /\ ~order[entry].call
    /\ calls = <<>>
    /\ verdict' = "Violation"
    /\ UNCHANGED <<profile, history, todo, part, order, listVars, entry, state, linearized, cache, calls>>

Done == verdict # "none" /\ UNCHANGED vars

Next ==
    \/ NextKey \/ Accept \/ GiveUp
    \/ Linearize \/ PassOver \/ Backtrack \/ Reject
    \/ Done

Spec == Init /\ [][Next]_vars

-----------------------------------------------------------------------------
(* What linearizable means, for the whole history and all keys at once:    *)
(* the answered operations and some of the pending ones, in an order that  *)
(* respects real time and that a map answers as the clients were answered. *)

Precedes(a, b) == a.completed <= b.invoked

(* Carried out on a map: <<map, every outcome so far is the one observed>>. *)
Carry(acc, o) ==
    LET k == o.op.key
    IN  <<[acc[1] EXCEPT ![k] = Next1(acc[1][k], o)],
          acc[2] /\ (o.outcome = NoAnswer \/ o.outcome = Expected(acc[1][k], o))>>

IsWitness(seq) ==
    /\ \A i, j \in DOMAIN seq : i < j => ~Precedes(history[seq[j]], history[seq[i]])
    /\ FoldLeft(LAMBDA acc, i : Carry(acc, history[i]), <<[k \in Key |-> Absent], TRUE>>, seq)[2]

Answered == {i \in DOMAIN history : history[i].outcome # NoAnswer}

IsLinearizable ==
    \E S \in {T \in SUBSET DOMAIN history : Answered \subseteq T} :
    \E f \in Bijection(1..Cardinality(S), S) : IsWitness(f)

(* The verdict of the search is the definition's: by parts, with pending   *)
(* operations always placed, with the memo's cuts and the list's surgery,  *)
(* it finds an order exactly when there is one.                            *)
VerdictIsRight ==
    /\ verdict = "Linearizable" => IsLinearizable
    /\ verdict = "Violation" => ~IsLinearizable
=============================================================================
