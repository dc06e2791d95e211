------------------------------ MODULE AgreedLog ------------------------------
(***************************************************************************)
(* What the consensus of `kvstore/raft.rs` promises the layer above it:    *)
(* one sequence of chosen entries that only grows, leaders that extend it, *)
(* and servers whose commit index moves forward along it until they crash. *)
(*                                                                         *)
(* Raft implements this specification; Kv builds the server on it.         *)
(***************************************************************************)
EXTENDS Integers, Sequences

CONSTANTS
    Server,
    Entry           \* an entry carries the term of the leader that wrote it

VARIABLES
    log,            \* by server: its log in memory
    commit,         \* by server: its commit index
    lead,           \* by server: the term it leads, 0 when it does not
    newest,         \* the highest term any server has led
    chosen          \* the entries declared committed, by anyone, ever

agreedVars == <<log, commit, lead, newest, chosen>>

Extends(lg, prefix) == Len(lg) >= Len(prefix) /\ SubSeq(lg, 1, Len(prefix)) = prefix

(* A server becomes the leader of term t, and appends its first entry.  A  *)
(* leader newer than any before holds all that was chosen; one elected by  *)
(* votes that arrived late need not.                                       *)
Elect(s, t, e) ==
    /\ lead[s] = 0 /\ t > 0
    /\ \A p \in Server : lead[p] # t
    /\ t > newest => Extends(log[s], chosen)
    /\ e.term = t
    /\ lead' = [lead EXCEPT ![s] = t]
    /\ newest' = IF t > newest THEN t ELSE newest
    /\ log' = [log EXCEPT ![s] = Append(@, e)]
    /\ UNCHANGED <<commit, chosen>>

(* A leader takes a new entry, chosen or not. *)
Accept(s, e) ==
    /\ lead[s] # 0
    /\ e.term = lead[s]
    /\ log' = [log EXCEPT ![s] = Append(@, e)]
    /\ UNCHANGED <<commit, lead, newest, chosen>>

(* A leader advances its commit index onto an entry of its own term, and   *)
(* declares chosen what no one had yet.  Leaders of later terms hold it.   *)
Choose(s, k) ==
    LET upto == SubSeq(log[s], 1, k) IN
    /\ lead[s] # 0
    /\ k > commit[s] /\ k <= Len(log[s])
    /\ log[s][k].term = lead[s]
    /\ Extends(upto, chosen) \/ Extends(chosen, upto)
    /\ \A p \in Server : lead[p] > lead[s] => Extends(log[p], upto)
    /\ chosen' = IF k > Len(chosen) THEN upto ELSE chosen
    /\ commit' = [commit EXCEPT ![s] = k]
    /\ UNCHANGED <<log, lead, newest>>

(* A server that does not lead replaces what it had not committed, and     *)
(* moves its commit index along what was chosen.                           *)
Follow(s, lg, k) ==
    /\ Extends(lg, SubSeq(log[s], 1, commit[s]))
    /\ k >= commit[s] /\ k <= Len(chosen)
    /\ Extends(lg, SubSeq(chosen, 1, k))
    /\ log' = [log EXCEPT ![s] = lg]
    /\ commit' = [commit EXCEPT ![s] = k]
    /\ lead' = [lead EXCEPT ![s] = 0]
    /\ UNCHANGED <<newest, chosen>>

(* A crash loses whatever was not on disk, and all that is known to be     *)
(* committed is what a snapshot covers.                                    *)
Crash(s, lg, k) ==
    /\ k <= Len(chosen) /\ Extends(lg, SubSeq(chosen, 1, k))
    /\ log' = [log EXCEPT ![s] = lg]
    /\ commit' = [commit EXCEPT ![s] = k]
    /\ lead' = [lead EXCEPT ![s] = 0]
    /\ UNCHANGED <<newest, chosen>>

AgreedInit ==
    /\ log \in [Server -> Seq(Entry)]
    /\ commit = [s \in Server |-> 0]
    /\ lead = [s \in Server |-> 0]
    /\ newest = 0
    /\ chosen = <<>>

AgreedNext == \E s \in Server :
    \/ /\ log'[s] # <<>>
       /\ LET e == log'[s][Len(log'[s])] IN Elect(s, lead'[s], e) \/ Accept(s, e)
    \/ Choose(s, commit'[s])
    \/ Follow(s, log'[s], commit'[s])
    \/ Crash(s, log'[s], commit'[s])

AgreedSpec == AgreedInit /\ [][AgreedNext]_agreedVars
=============================================================================
