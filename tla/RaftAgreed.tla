----------------------------- MODULE RaftAgreed -----------------------------
(***************************************************************************)
(* Raft implements AgreedLog: the refinement mapping.                      *)
(***************************************************************************)
EXTENDS Raft

(* What was declared committed, as one sequence. *)
Chosen == [i \in 1..Max({0} \cup {c.index : c \in committed}) |->
              (CHOOSE c \in committed : c.index = i).entry]

(* The term a node leads, 0 when it leads none. *)
Leads == [n \in Server |-> IF role[n] = "Leader" THEN term[n] ELSE 0]

(* The highest term in which a leader has made itself known. *)
NewestTerm ==
    Max({0} \cup {Leads[n] : n \in Server}
            \cup {m.term : m \in {a \in msgs : a.type = "AppendEntries"}})

Agreed == INSTANCE AgreedLog WITH
    commit <- commitIndex, lead <- Leads, newest <- NewestTerm, chosen <- Chosen

(* Every step of the cluster is a step of the agreed log or changes        *)
(* nothing it shows: what was chosen is never revised, a newer leader      *)
(* holds it all, and a commit index moves along it until the next crash    *)
(* (`become_leader`, `maybe_commit`, `on_append_entries`, `truncate`).     *)
ImplementsAgreedLog == Agreed!AgreedSpec
=============================================================================
