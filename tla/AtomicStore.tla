----------------------------- MODULE AtomicStore -----------------------------
(***************************************************************************)
(* What a client of the store is promised: each operation takes effect at  *)
(* one instant between its invocation and its return, at most once, and    *)
(* returns what it did there.  An operation its client gave up on may take *)
(* effect later, or never.                                                 *)
(*                                                                         *)
(* A read leaves no trace in the order of the effects: it returns the      *)
(* value of some version between its invocation and its return.            *)
(***************************************************************************)
EXTENDS KvData

CONSTANT None

VARIABLES
    order,          \* the commands that took effect, in that order
    open,           \* by client: the operation it is waiting on
    invoked,        \* every command ever invoked
    answer          \* by client: the last answer it was given

storeVars == <<order, open, invoked, answer>>

(* The map after the first n effects. *)
MapAt(n) ==
    LET after[i \in 0..n] == IF i = 0 THEN EmptyMap ELSE MapAfter(after[i - 1], order[i])
    IN after[n]

StoreInit ==
    /\ order = <<>>
    /\ open = [c \in Client |-> None]
    /\ invoked = {}
    /\ answer = [c \in Client |-> None]

Invoke(c, cmd) ==
    /\ open[c] = None
    /\ cmd.client = c /\ cmd \notin invoked
    /\ \A d \in invoked : d.client = c => d.seq < cmd.seq
    /\ open' = [open EXCEPT ![c] = [cmd |-> cmd, from |-> Len(order)]]
    /\ invoked' = invoked \cup {cmd}
    /\ UNCHANGED <<order, answer>>

(* Operations invoked and not yet carried out take effect. *)
TakeEffect ==
    /\ IsStrictPrefix(order, order')
    /\ \A i \in (Len(order) + 1)..Len(order') :
         /\ order'[i] \in invoked
         /\ \A j \in 1..(i - 1) : order'[j] # order'[i]
    /\ UNCHANGED <<open, invoked, answer>>

(* The outcomes c may be given. *)
IsAnswer(c, outcome) ==
    LET cmd == open[c].cmd IN
    IF cmd.op.kind = "Get"
    THEN \E n \in open[c].from..Len(order) : outcome = OutcomeOf(MapAt(n), cmd)
    ELSE \E n \in DOMAIN order : order[n] = cmd /\ outcome = OutcomeOf(MapAt(n - 1), cmd)

Return(c, outcome) ==
    /\ open[c] # None
    /\ IsAnswer(c, outcome)
    /\ answer' = [answer EXCEPT ![c] = [seq |-> open[c].cmd.seq, outcome |-> outcome]]
    /\ open' = [open EXCEPT ![c] = None]
    /\ UNCHANGED <<order, invoked>>

Abandon(c) ==
    /\ open[c] # None
    /\ open' = [open EXCEPT ![c] = None]
    /\ UNCHANGED <<order, invoked, answer>>

StoreNext ==
    \/ TakeEffect
    \/ \E c \in Client :
         \/ open'[c] # None /\ Invoke(c, open'[c].cmd)
         \/ answer'[c] # None /\ Return(c, answer'[c].outcome)
         \/ Abandon(c)

StoreSpec == StoreInit /\ [][StoreNext]_storeVars
=============================================================================
