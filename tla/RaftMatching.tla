----------------------------- MODULE RaftMatching -----------------------------
(***************************************************************************)
(* Two logs that agree on the term of an index agree on everything up to   *)
(* it (LogMatching), in memory and on disk, for every cluster and every    *)
(* configuration.                                                          *)
(*                                                                         *)
(* The argument: call "entry e at index i, after an entry of term b" known *)
(* if some log, some image on its way to a disk, or some append that was   *)
(* ever sent has it.  What is known at an index in a term is known once    *)
(* and for all, predecessor included (Unique), because only the leader of  *)
(* the term adds to it, one past a log that already holds all that is      *)
(* known of its term (LeadersHold).  A new leader finds nothing known of   *)
(* its term: what is known has an author, who was elected by a majority    *)
(* that is bound by its votes, and stands for that term no more (Authors). *)
(***************************************************************************)
EXTENDS RaftClaims

Holds(lg, i, e, b) == i \in DOMAIN lg /\ lg[i] = e /\ TermAt(lg, i - 1) = b

Carries(m, i, e, b) ==
    /\ m.type = "AppendEntries"
    /\ i \in (m.prev + 1)..(m.prev + Len(m.entries))
    /\ m.entries[i - m.prev] = e
    /\ b = IF i = m.prev + 1 THEN m.prevTerm ELSE m.entries[i - 1 - m.prev].term

(* What node n may read back from its disk, now or after a sync. *)
Stored(n, i, e, b) ==
    \/ Holds(disk[n].log, i, e, b)
    \/ \E j \in Queued(n) : Holds(batches[n][j].log, i, e, b)

Known(i, e, b) ==
    \/ \E n \in Server : Holds(log[n], i, e, b) \/ Stored(n, i, e, b)
    \/ \E m \in msgs : Carries(m, i, e, b)

(* Node v has voted for p in term t, or is past that term, and has said    *)
(* and will say nothing else.                                              *)
Bound(v, t, p) ==
    /\ Le([term |-> t, vote |-> p], disk[v].hard)
    /\ \A j \in Queued(v) :
         batches[v][j].hard.term = t => batches[v][j].hard.vote \in {None, p}
    /\ \A o \in msgs : Binding(o) /\ o.from = v /\ o.term = t => Cast(o).vote = p

(* Node p has been elected for term t, and knows of it for ever. *)
Authored(p, t) ==
    /\ t <= disk[p].hard.term
    /\ ~(role[p] = "Candidate" /\ term[p] = t)
    /\ \E Q \in SUBSET Server : IsQuorum(Q) /\ \A v \in Q : Bound(v, t, p)

Unique == \A i \in Index : \A e, f \in Entry : \A b, c \in Nat :
    Known(i, e, b) /\ Known(i, f, c) /\ e.term = f.term => e = f /\ b = c

Authors == \A i \in Index : \A e \in Entry : \A b \in Nat :
    Known(i, e, b) => \E p \in Server : Authored(p, e.term)

LeadersHold == \A n \in Server : role[n] = "Leader" =>
    \A i \in Index : \A e \in Entry : \A b \in Nat :
        Known(i, e, b) /\ e.term = term[n] => Holds(log[n], i, e, b)

LeadersAreDurable == \A n \in Server : role[n] = "Leader" => term[n] <= disk[n].hard.term

(* A vote for another node was asked for, in a term that is on its disk.   *)
AskedFor(n, h) == h.vote \in Peers(n) => h.term <= disk[h.vote].hard.term

Asked(n) ==
    /\ AskedFor(n, Hard(n)) /\ AskedFor(n, disk[n].hard)
    /\ \A j \in Queued(n) : AskedFor(n, batches[n][j].hard)

GrantsAreAsked == \A m \in msgs : IsGrant(m) => m.term <= disk[m.to].hard.term

MatchInv ==
    /\ Unique /\ Authors /\ LeadersHold /\ LeadersAreDurable
    /\ (\A n \in Server : Asked(n)) /\ GrantsAreAsked

-----------------------------------------------------------------------------
(* What a step of node n may do, for this argument. *)

Extends(n) == \E e \in Entry : e.term = term[n] /\ log'[n] = Append(log[n], e)

Learns(n) == \A i \in Index : \A e \in Entry : \A b \in Nat :
    Holds(log'[n], i, e, b) => Known(i, e, b)

(* The log takes over what is known, or a leader adds an entry. *)
Grows(n) == Learns(n) \/ (Extends(n) /\ role'[n] = "Leader")

(* A leader goes on in its term, or was a candidate whose term is on disk. *)
LeadsOn(n) ==
    /\ term'[n] = term[n]
    /\ log'[n] = log[n] \/ Extends(n)
    /\ \/ role[n] = "Leader"
       \/ role[n] = "Candidate" /\ term[n] <= disk'[n].hard.term

Stands(n) == term'[n] > term[n] \/ (role[n] = "Candidate" /\ term'[n] = term[n])

(* The appends it sends are parts of its log. *)
Copies(n) == \A m \in msgs' \ msgs : \A i \in Index : \A e \in Entry : \A b \in Nat :
    Carries(m, i, e, b) => Holds(log'[n], i, e, b)

(* A vote is for itself, an old one, one read back, or an answer. *)
VotesWell(n) ==
    \/ votedFor'[n] \in {None, n}
    \/ Hard(n)' = Hard(n)
    \/ Hard(n)' = disk'[n].hard
    \/ \E m \in msgs : m.from = votedFor'[n] /\ m.term = term'[n]

LogStep(n) ==
    /\ Grows(n) /\ Copies(n) /\ VotesWell(n)
    /\ role'[n] = "Leader" => LeadsOn(n)
    /\ role'[n] = "Candidate" => Stands(n)

-----------------------------------------------------------------------------
(* Votes. *)

LEMMA BoundIsKept ==
    ASSUME TypeOK, TypeOK', VoteInv, VoteInv', NEW n \in Server, Step(n),
           NEW v \in Server, NEW p \in Server, NEW t \in Nat, Bound(v, t, p)
    PROVE  Bound(v, t, p)'
<1> DEFINE h == [term |-> t, vote |-> p]
<1>1. h \in HardState /\ h.term = t /\ h.vote = p /\ p # None
  BY ServerAssumption DEF HardState
<1>2. /\ Le(h, disk[v].hard)
      /\ \A j \in Queued(v) :
           batches[v][j].hard.term = t => batches[v][j].hard.vote \in {None, p}
      /\ \A o \in msgs : Binding(o) /\ o.from = v /\ o.term = t => Cast(o).vote = p
  BY DEF Bound
<1>3. /\ Alone(n) /\ Stores(n) /\ Speaks(n) /\ Chain(n) /\ Chain(n)' /\ Standing(n)'
      /\ msgs \in SUBSET Message /\ msgs' \in SUBSET Message
  BY DEF Step, VoteInv, TypeOK
<1> SUFFICES /\ Le(h, disk'[v].hard)
             /\ \A j \in Queued(v)' :
                  batches'[v][j].hard.term = t => batches'[v][j].hard.vote \in {None, p}
             /\ \A o \in msgs' : Binding(o) /\ o.from = v /\ o.term = t => Cast(o).vote = p
  BY DEF Bound
<1> HIDE DEF h
<1>4. CASE v # n
  <2>1. disk'[v] = disk[v] /\ batches'[v] = batches[v] /\ Queued(v)' = Queued(v)
    BY <1>3, <1>4 DEF Alone, Queued
  <2>2. \A o \in msgs' : o.from = v => o \in msgs
    BY <1>3, <1>4 DEF Speaks
  <2> QED
    BY <1>2, <2>1, <2>2
<1>5. CASE v = n
  <2>1. /\ Hard(n) \in HardState /\ Hard(n)' \in HardState
        /\ disk[n].hard \in HardState /\ disk'[n].hard \in HardState
        /\ \A i \in Queued(n) : batches[n][i].hard \in HardState
    BY HardTypes, HardTypesNext DEF HardTyped
  <2>2. /\ Le(disk[n].hard, disk'[n].hard) /\ Le(disk[n].hard, Hard(n))
        /\ Le(disk'[n].hard, Hard(n)')
    BY <1>3, DiskGrows DEF Chain
  <2>3. Le(h, disk'[n].hard) /\ Le(h, Hard(n)) /\ Le(h, Hard(n)')
    BY <1>1, <1>2, <1>5, <2>1, <2>2, LeTransitive
  <2>4. ASSUME NEW j \in Queued(n)', batches'[n][j].hard.term = t
        PROVE  batches'[n][j].hard.vote \in {None, p}
    <3>1. CASE batches'[n][j].hard = Hard(n)'
      BY <1>1, <2>1, <2>3, <2>4, <3>1, LeTerm
    <3>2. ASSUME NEW l \in Queued(n), batches'[n][j].hard = batches[n][l].hard
          PROVE  batches'[n][j].hard.vote \in {None, p}
      BY <1>2, <1>5, <2>4, <3>2
    <3> QED
      BY <1>3, <3>1, <3>2, QueueOrigin
  <2>5. ASSUME NEW o \in msgs' \ msgs, Binding(o), o.from = n, o.term = t
        PROVE  Cast(o).vote = p
    <3>1. /\ o \in Message /\ Cast(o) \in HardState /\ Cast(o).vote # None
          /\ Cast(o).term = t
      BY <1>3, <2>5, CastTypes
    <3>2. CASE IsGrant(o)
      <4>1. PICK g \in {batches[n][i].hard : i \in Queued(n)} \cup {Hard(n)} : Cast(o) = g
        BY <1>3, <2>5, <3>2 DEF Speaks
      <4>2. CASE g = Hard(n)
        BY <1>1, <2>1, <2>3, <3>1, <4>1, <4>2, LeTerm
      <4>3. ASSUME NEW i \in Queued(n), g = batches[n][i].hard
            PROVE  Cast(o).vote = p
        BY <1>2, <1>5, <3>1, <4>1, <4>3
      <4> QED
        BY <4>2, <4>3
    <3>3. CASE o.type = "AppendEntries"
      <4>1. Cast(o) = disk'[n].hard
        BY <1>3, <2>5, <3>1, <3>3, AppendCast DEF Speaks
      <4> QED
        BY <1>1, <2>1, <2>3, <3>1, <4>1, LeTerm
    <3> QED
      BY <2>5, <3>2, <3>3 DEF Binding
  <2> QED
    BY <1>2, <1>5, <2>3, <2>4, <2>5
<1> QED
  BY <1>4, <1>5

LEMMA AuthoredIsKept ==
    ASSUME TypeOK, TypeOK', VoteInv, VoteInv', NEW n \in Server, Step(n), LogStep(n),
           NEW p \in Server, NEW t \in Nat, Authored(p, t)
    PROVE  Authored(p, t)'
<1>1. /\ t <= disk[p].hard.term /\ ~(role[p] = "Candidate" /\ term[p] = t)
      /\ \E Q \in SUBSET Server : IsQuorum(Q) /\ \A v \in Q : Bound(v, t, p)
  BY DEF Authored
<1>2. \E Q \in SUBSET Server : IsQuorum(Q) /\ \A v \in Q : Bound(v, t, p)'
  <2>1. PICK Q \in SUBSET Server : IsQuorum(Q) /\ \A v \in Q : Bound(v, t, p)
    BY <1>1
  <2>2. \A v \in Q : Bound(v, t, p)'
    BY <2>1, BoundIsKept
  <2> QED
    BY <2>1, <2>2
<1>3. CASE p # n
  <2>1. disk'[p] = disk[p] /\ role'[p] = role[p] /\ term'[p] = term[p]
    BY <1>3 DEF Step, Alone
  <2> QED
    BY <1>1, <1>2, <2>1 DEF Authored
<1>4. CASE p = n
  <2>1. /\ disk[n].hard \in HardState /\ disk'[n].hard \in HardState /\ Hard(n) \in HardState
        /\ Hard(n).term = term[n] /\ term[n] \in Nat /\ term'[n] \in Nat
    BY HardTypes, HardTypesNext DEF HardTyped, TypeOK
  <2>2. disk[n].hard.term \in Nat /\ disk'[n].hard.term \in Nat
    BY <2>1 DEF HardState
  <2>3. Chain(n) /\ Stores(n)
    BY DEF VoteInv, Step
  <2>4. disk[n].hard.term <= disk'[n].hard.term /\ disk[n].hard.term <= term[n]
    BY <2>1, <2>3, DiskGrows, LeTerm DEF Chain
  <2>5. t <= disk'[n].hard.term /\ t <= term[n]
    BY <1>1, <1>4, <2>1, <2>2, <2>4
  <2>6. ~(role'[n] = "Candidate" /\ term'[n] = t)
    BY <1>1, <1>4, <2>1, <2>5 DEF LogStep, Stands
  <2> QED
    BY <1>2, <1>4, <2>5, <2>6 DEF Authored
<1> QED
  BY <1>3, <1>4

(* A leader whose term is on its disk is the author of its term.           *)
LEMMA LeaderIsAuthor ==
    TypeOK /\ VoteInv /\ LeadersAreDurable
      => \A n \in Server : role[n] = "Leader" => Authored(n, term[n])
<1> SUFFICES ASSUME TypeOK, VoteInv, LeadersAreDurable, NEW n \in Server, role[n] = "Leader"
             PROVE  Authored(n, term[n])
  OBVIOUS
<1> DEFINE t == term[n]
           h == [term |-> t, vote |-> n]
<1>1. /\ t \in Nat /\ Hard(n) \in HardState /\ Hard(n).term = t /\ disk[n].hard \in HardState
      /\ h \in HardState /\ h.term = t /\ h.vote = n /\ n # None
      /\ msgs \in SUBSET Message
  BY HardTypes, ServerAssumption DEF HardTyped, HardState, TypeOK
<1>2. /\ Chain(n) /\ Standing(n) /\ Spoken /\ IsQuorum(votes[n]) /\ votes[n] \in SUBSET Server
      /\ \A v \in votes[n] : v = n \/ Granted(v, n, t)
  BY DEF VoteInv, Counted, TypeOK
<1>3. t <= disk[n].hard.term
  BY DEF LeadersAreDurable
<1> HIDE DEF t, h
<1>4. disk[n].hard.term = t /\ disk[n].hard.vote = n
  <2>1. disk[n].hard.term <= t
    BY <1>1, <1>2, LeTerm DEF Chain
  <2>2. disk[n].hard.term = t
    BY <1>1, <1>3, <2>1 DEF HardState
  <2> QED
    BY <1>2, <2>2 DEF Standing, t
<1>5. Bound(n, t, n)
  <2>1. disk[n].hard = h
    BY <1>1, <1>4 DEF HardState, h
  <2>2. Le(h, disk[n].hard)
    BY <1>1, <2>1, LeReflexive
  <2>3. \A j \in Queued(n) : batches[n][j].hard.term = t => batches[n][j].hard.vote = n
    BY <1>2 DEF Standing, t
  <2>4. ASSUME NEW o \in msgs, Binding(o), o.from = n, o.term = t
        PROVE  Cast(o).vote = n
    <3>1. Le(Cast(o), disk[n].hard)
      BY <1>2, <2>4 DEF Spoken
    <3>2. Cast(o) \in HardState /\ Cast(o).term = t /\ Cast(o).vote # None
      BY <1>1, <2>4, CastTypes
    <3> QED
      BY <1>1, <1>4, <3>1, <3>2, LeTerm
  <2> QED
    BY <2>2, <2>3, <2>4 DEF Bound, h
<1>6. ASSUME NEW v \in Server, Granted(v, n, t)
      PROVE  Bound(v, t, n)
  <2>1. PICK g \in msgs : Binding(g) /\ g.from = v /\ g.term = t /\ Cast(g) = [term |-> t, vote |-> n]
    BY <1>6, GrantIsBinding
  <2>2. Cast(g).vote = n
    BY <2>1
  <2> QED
    BY <1>2, <2>1, <2>2 DEF Spoken, Bound
<1>7. \A v \in votes[n] : Bound(v, t, n)
  BY <1>2, <1>5, <1>6
<1> QED
  BY <1>2, <1>3, <1>7 DEF Authored, t

LEMMA LeaderIsAuthorNext ==
    TypeOK' /\ VoteInv' /\ LeadersAreDurable'
      => (\A n \in Server : role[n] = "Leader" => Authored(n, term[n]))'
BY LeaderIsAuthor, PTL

(* Nobody has authored the term that a candidate is about to lead. *)
LEMMA CandidateIsFirst ==
    ASSUME TypeOK, TypeOK', VoteInv, VoteInv', NEW n \in Server, Step(n), LogStep(n),
           role[n] = "Candidate", role'[n] = "Leader", NEW p \in Server
    PROVE  ~Authored(p, term[n])
<1> SUFFICES ASSUME Authored(p, term[n])
             PROVE  FALSE
  OBVIOUS
<1>0. PICK t \in Nat : t = term[n]
  BY DEF TypeOK
<1>1. term'[n] = t /\ votes'[n] \in SUBSET Server
  BY <1>0 DEF TypeOK, LogStep, LeadsOn
<1>2. p # n
  BY <1>0 DEF Authored
<1>3. PICK Q \in SUBSET Server : IsQuorum(Q) /\ \A v \in Q : Bound(v, t, p)
  BY <1>0 DEF Authored
<1>4. IsQuorum(votes'[n]) /\ \A v \in votes'[n] : v = n \/ Granted(v, n, t)'
  BY <1>1 DEF VoteInv, Counted, Granted, VoteResp
<1>5. PICK v \in Q : v \in votes'[n]
  BY <1>1, <1>3, <1>4, QuorumsIntersect
<1>6. v \in Server /\ Bound(v, t, p)'
  BY <1>1, <1>3, <1>5, BoundIsKept
<1>7. CASE v = n
  <2>1. /\ disk[n].hard \in HardState /\ Hard(n) \in HardState /\ Hard(n).term = t
        /\ Hard(n).vote = votedFor[n]
    BY <1>0, HardTypes DEF HardTyped
  <2>2. Le([term |-> t, vote |-> p], disk[n].hard) /\ Le(disk[n].hard, Hard(n))
    BY <1>3, <1>5, <1>7 DEF Bound, VoteInv, Chain
  <2>3. /\ [term |-> t, vote |-> p] \in HardState /\ p # None
        /\ [term |-> t, vote |-> p].term = t /\ [term |-> t, vote |-> p].vote = p
    BY <1>1, ServerAssumption DEF HardState
  <2>4. Le([term |-> t, vote |-> p], Hard(n))
    BY <2>1, <2>2, <2>3, LeTransitive
  <2>5. votedFor[n] = p
    BY <2>1, <2>3, <2>4, LeTerm
  <2>6. votedFor[n] = n
    BY DEF VoteInv, Standing
  <2> QED
    BY <1>2, <2>5, <2>6
<1>8. CASE v # n
  <2>1. VoteResp(v, n, t, TRUE) \in msgs'
    BY <1>4, <1>5, <1>8 DEF Granted, VoteResp
  <2> DEFINE g == VoteResp(v, n, t, TRUE)
  <2>2. IsGrant(g) /\ g.from = v /\ g.term = t /\ g.to = n
    BY DEF VoteResp, IsGrant
  <2> HIDE DEF g
  <2>3. Cast(g).vote = n /\ Binding(g)
    BY <2>2 DEF Cast, Binding
  <2>4. g \in msgs'
    BY <2>1 DEF g
  <2> QED
    BY <1>2, <1>6, <2>2, <2>3, <2>4 DEF Bound
<1> QED
  BY <1>7, <1>8

LEMMA DisksGrow ==
    ASSUME TypeOK, TypeOK', VoteInv, NEW n \in Server, Step(n)
    PROVE  \A p \in Server : /\ disk[p].hard.term \in Nat /\ disk'[p].hard.term \in Nat
                             /\ disk[p].hard.term <= disk'[p].hard.term
<1> SUFFICES ASSUME NEW p \in Server
             PROVE  /\ disk[p].hard.term \in Nat /\ disk'[p].hard.term \in Nat
                    /\ disk[p].hard.term <= disk'[p].hard.term
  OBVIOUS
<1>1. disk[p].hard \in HardState /\ disk'[p].hard \in HardState
  BY HardTypes, HardTypesNext DEF HardTyped
<1>2. disk[p].hard.term \in Nat /\ disk'[p].hard.term \in Nat
  BY <1>1 DEF HardState
<1>3. CASE p = n
  BY <1>1, <1>2, <1>3, DiskGrows, LeTerm DEF VoteInv, Step
<1>4. CASE p # n
  BY <1>2, <1>4 DEF Step, Alone
<1> QED
  BY <1>2, <1>3, <1>4

LEMMA AskedForIsKept ==
    ASSUME TypeOK, TypeOK', VoteInv, NEW n \in Server, Step(n), NEW p \in Server,
           NEW h \in HardState, AskedFor(p, h)
    PROVE  AskedFor(p, h)'
<1> SUFFICES ASSUME h.vote \in Peers(p)
             PROVE  h.term <= disk'[h.vote].hard.term
  BY DEF AskedFor
<1>1. h.vote \in Server /\ h.term \in Nat /\ h.term <= disk[h.vote].hard.term
  BY DEF AskedFor, Peers, HardState
<1> QED
  BY <1>1, DisksGrow

LEMMA AskedIsKept ==
    ASSUME TypeOK, TypeOK', VoteInv, VoteInv', NEW n \in Server, Step(n), LogStep(n),
           \A p \in Server : Asked(p)
    PROVE  \A p \in Server : Asked(p)'
<1> SUFFICES ASSUME NEW p \in Server
             PROVE  /\ AskedFor(p, Hard(p))' /\ AskedFor(p, disk[p].hard)'
                    /\ \A j \in Queued(p)' : AskedFor(p, batches[p][j].hard)'
  BY DEF Asked
<1>1. /\ Hard(p) \in HardState /\ disk[p].hard \in HardState
      /\ \A j \in Queued(p) : batches[p][j].hard \in HardState
  BY HardTypes DEF HardTyped
<1>2. ASSUME NEW h, h \in {Hard(p), disk[p].hard} \cup {batches[p][j].hard : j \in Queued(p)}
      PROVE  AskedFor(p, h)'
  BY <1>1, <1>2, AskedForIsKept DEF Asked
<1>3. CASE p # n
  <2>1. /\ Hard(p)' = Hard(p) /\ disk'[p] = disk[p] /\ batches'[p] = batches[p]
        /\ Queued(p)' = Queued(p)
    BY <1>3 DEF Step, Alone, Hard, Queued
  <2> QED
    BY <1>2, <2>1 DEF AskedFor
<1>4. CASE p = n
  <2>1. disk'[n].hard \in {disk[n].hard} \cup {batches[n][j].hard : j \in Queued(n)}
    BY DiskOrigin DEF VoteInv, Step
  <2>2. AskedFor(n, disk[n].hard)'
    BY <1>2, <1>4, <2>1 DEF AskedFor
  <2>3. AskedFor(n, Hard(n))'
    <3>1. Hard(n)'.vote = votedFor'[n] /\ Hard(n)'.term = term'[n]
      BY DEF Hard
    <3>2. CASE votedFor'[n] \in {None, n}
      BY <3>1, <3>2, ServerAssumption DEF AskedFor, Peers
    <3>3. CASE Hard(n)' = Hard(n)
      BY <1>2, <1>4, <3>3 DEF AskedFor
    <3>4. CASE Hard(n)' = disk'[n].hard
      BY <2>2, <3>4 DEF AskedFor
    <3>5. ASSUME NEW m \in msgs, m.from = votedFor'[n], m.term = term'[n]
          PROVE  AskedFor(n, Hard(n))'
      <4>1. m.from \in Server /\ m.term \in Nat /\ m.term <= disk[m.from].hard.term
        BY MessageTypes DEF TypeOK, VoteInv, Spoken
      <4>2. m.term <= disk'[m.from].hard.term
        BY <4>1, DisksGrow
      <4> QED
        BY <3>1, <3>5, <4>2 DEF AskedFor
    <3> QED
      BY <3>2, <3>3, <3>4, <3>5 DEF LogStep, VotesWell
  <2>4. ASSUME NEW j \in Queued(n)'
        PROVE  AskedFor(n, batches[n][j].hard)'
    <3>1. CASE batches'[n][j].hard = Hard(n)'
      BY <2>3, <3>1 DEF AskedFor
    <3>2. ASSUME NEW l \in Queued(n), batches'[n][j].hard = batches[n][l].hard
          PROVE  AskedFor(n, batches[n][j].hard)'
      BY <1>2, <1>4, <3>2 DEF AskedFor
    <3> QED
      BY <3>1, <3>2, QueueOrigin DEF Step
  <2> QED
    BY <1>4, <2>2, <2>3, <2>4
<1> QED
  BY <1>3, <1>4

LEMMA GrantsAreKept ==
    ASSUME TypeOK, TypeOK', VoteInv, VoteInv', NEW n \in Server, Step(n),
           \A p \in Server : Asked(p), GrantsAreAsked
    PROVE  GrantsAreAsked'
<1> SUFFICES ASSUME NEW m \in msgs', IsGrant(m)
             PROVE  m.term <= disk'[m.to].hard.term
  BY DEF GrantsAreAsked
<1>1. /\ m \in Message /\ m.from \in Server /\ m.to \in Server /\ m.term \in Nat
      /\ Cast(m).vote = m.to /\ Cast(m).term = m.term
  BY MessageTypes, CastTypes DEF TypeOK
<1>2. CASE m \in msgs
  <2>1. m.term <= disk[m.to].hard.term
    BY <1>2 DEF GrantsAreAsked
  <2> QED
    BY <1>1, <2>1, DisksGrow
<1>3. CASE m \notin msgs /\ m.to = m.from
  BY <1>3 DEF VoteInv, Spoken
<1>4. CASE m \notin msgs /\ m.to # m.from
  <2>1. m.from = n /\ \E h \in {batches[n][i].hard : i \in Queued(n)} \cup {Hard(n)} : Cast(m) = h
    BY <1>4 DEF Step, Speaks
  <2>2. AskedFor(n, Cast(m))
    BY <2>1 DEF Asked
  <2>3. m.term <= disk[m.to].hard.term
    BY <1>1, <1>4, <2>1, <2>2 DEF AskedFor, Peers
  <2> QED
    BY <1>1, <2>3, DisksGrow
<1> QED
  BY <1>2, <1>3, <1>4

LEMMA LeadersStayDurable ==
    ASSUME TypeOK, TypeOK', VoteInv, NEW n \in Server, Step(n), LogStep(n), LeadersAreDurable
    PROVE  LeadersAreDurable'
<1> SUFFICES ASSUME NEW p \in Server, role'[p] = "Leader"
             PROVE  term'[p] <= disk'[p].hard.term
  BY DEF LeadersAreDurable
<1>1. term[p] \in Nat
  BY DEF TypeOK
<1>2. CASE p # n
  <2>1. role[p] = "Leader" /\ term'[p] = term[p]
    BY <1>2 DEF Step, Alone
  <2>2. term[p] <= disk[p].hard.term
    BY <2>1 DEF LeadersAreDurable
  <2> QED
    BY <1>1, <2>1, <2>2, DisksGrow
<1>3. CASE p = n
  <2>1. LeadsOn(n)
    BY <1>3 DEF LogStep
  <2>2. CASE role[n] = "Leader"
    <3>1. term[n] <= disk[n].hard.term
      BY <2>2 DEF LeadersAreDurable
    <3> QED
      BY <1>1, <1>3, <2>1, <3>1, DisksGrow DEF LeadsOn
  <2> QED
    BY <1>3, <2>1, <2>2 DEF LeadsOn
<1> QED
  BY <1>2, <1>3

-----------------------------------------------------------------------------
(* What is known. *)

(* What is known after a step was known, or is in the log of the node that *)
(* took it.                                                                *)
LEMMA KnownOrigin ==
    ASSUME TypeOK, TypeOK', NEW n \in Server, Step(n), ClaimStep(n), LogStep(n),
           NEW i \in Index, NEW e \in Entry, NEW b \in Nat, Known(i, e, b)'
    PROVE  Known(i, e, b) \/ Holds(log'[n], i, e, b)
<1>1. CASE \E m \in msgs' : Carries(m, i, e, b)
  BY <1>1 DEF LogStep, Copies, Known
<1>2. ASSUME NEW p \in Server \ {n}, Holds(log'[p], i, e, b) \/ Stored(p, i, e, b)'
      PROVE  Known(i, e, b)
  <2>1. /\ log'[p] = log[p] /\ disk'[p] = disk[p] /\ batches'[p] = batches[p]
        /\ Queued(p)' = Queued(p)
    BY DEF ClaimStep, LogsAlone, Queued
  <2>2. Holds(log[p], i, e, b) \/ Stored(p, i, e, b)
    BY <1>2, <2>1 DEF Stored
  <2> QED
    BY <2>2 DEF Known
<1>3. ASSUME Stored(n, i, e, b)'
      PROVE  Stored(n, i, e, b) \/ Holds(log'[n], i, e, b)
  <2>1. Len(batches[n]) \in Nat /\ Len(batches'[n]) \in Nat
    BY QueueTypes
  <2>2. CASE Rewrites(n)
    <3>1. \A j \in Queued(n)' : batches'[n][j].log = log'[n] \/
            (j \in Queued(n) /\ batches'[n][j].log = batches[n][j].log)
      BY <2>1, <2>2 DEF Rewrites, IsImage, Queued
    <3>2. disk'[n].log = disk[n].log
      BY <2>2 DEF Rewrites
    <3> QED
      BY <1>3, <3>1, <3>2 DEF Stored
  <2>3. ASSUME NEW k \in Queued(n), Confirms(n, k)
        PROVE  Stored(n, i, e, b) \/ Holds(log'[n], i, e, b)
    <3>1. \A j \in Queued(n)' : batches'[n][j].log = log'[n] \/
            (\E l \in Queued(n) : batches'[n][j].log = batches[n][l].log)
      BY <2>1, <2>3, ConfirmsQueue DEF IsImage
    <3>2. disk'[n].log = disk[n].log \/ disk'[n].log = batches[n][k].log
      <4>1. disk \in [Server -> Image]
        BY DEF TypeOK
      <4> QED
        BY <2>3, <4>1 DEF Confirms, SyncDone
    <3> QED
      BY <1>3, <3>1, <3>2 DEF Stored
  <2>4. CASE Reboots(n)
    <3>1. Queued(n)' = {} /\ disk'[n].log = log'[n]
      BY <2>4 DEF Reboots, Queued
    <3> QED
      BY <1>3, <3>1 DEF Stored
  <2> QED
    BY <2>2, <2>3, <2>4 DEF ClaimStep
<1> QED
  BY <1>1, <1>2, <1>3 DEF Known

(* A fresh entry is the last of the log that the leader extends. *)
Fresh(n, i, e) == i = Len(log[n]) + 1 /\ e.term = term[n] /\ log'[n] = Append(log[n], e)

LEMMA ExtendedHolds ==
    ASSUME NEW lg \in Seq(Entry), NEW f \in Entry, NEW i \in Index
    PROVE  /\ \A e, b : Holds(lg, i, e, b) => Holds(Append(lg, f), i, e, b)
           /\ \A e, b : Holds(Append(lg, f), i, e, b) =>
                Holds(lg, i, e, b) \/ (i = Len(lg) + 1 /\ e = f)
<1> DEFINE new == Append(lg, f)
<1>1. /\ Len(new) = Len(lg) + 1 /\ Len(lg) \in Nat /\ new[Len(lg) + 1] = f
      /\ \A j \in DOMAIN lg : new[j] = lg[j]
      /\ DOMAIN lg = 1..Len(lg) /\ DOMAIN new = 1..(Len(lg) + 1)
  BY TermOfLog
<1> HIDE DEF new
<1>2. i \in 1..(Len(lg) + 1) => TermAt(new, i - 1) = TermAt(lg, i - 1)
  BY <1>1 DEF TermAt, NO_INDEX, Index
<1>3. \A e, b : Holds(lg, i, e, b) => Holds(new, i, e, b)
  BY <1>1, <1>2 DEF Holds, Index
<1>4. \A e, b : Holds(new, i, e, b) => Holds(lg, i, e, b) \/ (i = Len(lg) + 1 /\ e = f)
  <2> SUFFICES ASSUME NEW e, NEW b, Holds(new, i, e, b), i # Len(lg) + 1
               PROVE  Holds(lg, i, e, b)
    BY <1>1 DEF Holds
  <2>1. i \in DOMAIN lg
    BY <1>1 DEF Holds, Index
  <2> QED
    BY <1>1, <1>2, <2>1 DEF Holds
<1> QED
  BY <1>3, <1>4 DEF new

LEMMA KnownOrFresh ==
    ASSUME TypeOK, TypeOK', NEW n \in Server, Step(n), ClaimStep(n), LogStep(n),
           NEW i \in Index, NEW e \in Entry, NEW b \in Nat, Known(i, e, b)'
    PROVE  Known(i, e, b) \/ (role'[n] = "Leader" /\ Fresh(n, i, e) /\ Holds(log'[n], i, e, b))
<1>1. CASE Holds(log'[n], i, e, b)
  <2>1. CASE Learns(n)
    BY <1>1, <2>1 DEF Learns
  <2>2. CASE Extends(n) /\ role'[n] = "Leader"
    <3>1. PICK f \in Entry : f.term = term[n] /\ log'[n] = Append(log[n], f)
      BY <2>2 DEF Extends
    <3>2. log[n] \in Seq(Entry)
      BY DEF TypeOK
    <3>3. Holds(log[n], i, e, b) \/ (i = Len(log[n]) + 1 /\ e = f)
      <4> DEFINE lg == log[n]
      <4>1. lg \in Seq(Entry) /\ Holds(Append(lg, f), i, e, b)
        BY <1>1, <3>1, <3>2
      <4> HIDE DEF lg
      <4>2. Holds(lg, i, e, b) \/ (i = Len(lg) + 1 /\ e = f)
        BY <4>1, ExtendedHolds
      <4> QED
        BY <4>2 DEF lg
    <3> QED
      BY <1>1, <2>2, <3>1, <3>3 DEF Known, Fresh
  <2> QED
    BY <2>1, <2>2 DEF LogStep, Grows
<1> QED
  BY <1>1, KnownOrigin

(* Nothing is known at the index, and in the term, of a fresh entry.       *)
LEMMA FreshIsNew ==
    ASSUME TypeOK, TypeOK', VoteInv, VoteInv', MatchInv, NEW n \in Server, Step(n), LogStep(n),
           role'[n] = "Leader", NEW i \in Index, NEW e \in Entry, NEW b \in Nat,
           Known(i, e, b), e.term = term[n]
    PROVE  role[n] = "Leader" /\ Holds(log[n], i, e, b) /\ i <= Len(log[n])
<1>1. role[n] \in {"Leader", "Candidate"}
  BY DEF LogStep, LeadsOn
<1>2. role[n] # "Candidate"
  <2>1. \E p \in Server : Authored(p, term[n])
    BY DEF MatchInv, Authors
  <2> QED
    BY <2>1, CandidateIsFirst
<1>3. Holds(log[n], i, e, b)
  BY <1>1, <1>2 DEF MatchInv, LeadersHold
<1>4. log[n] \in Seq(Entry)
  BY DEF TypeOK
<1> QED
  BY <1>1, <1>2, <1>3, <1>4 DEF Holds

LEMMA UniqueIsKept ==
    ASSUME TypeOK, TypeOK', VoteInv, VoteInv', MatchInv, NEW n \in Server,
           Step(n), ClaimStep(n), LogStep(n)
    PROVE  Unique'
<1> SUFFICES ASSUME NEW i \in Index, NEW e \in Entry, NEW f \in Entry, NEW b \in Nat,
                    NEW c \in Nat, Known(i, e, b)', Known(i, f, c)', e.term = f.term
             PROVE  e = f /\ b = c
  BY DEF Unique
<1>1. Len(log[n]) \in Nat
  BY DEF TypeOK
<1>2. CASE Known(i, e, b) /\ Known(i, f, c)
  BY <1>2 DEF MatchInv, Unique
<1>3. CASE Holds(log'[n], i, e, b) /\ Holds(log'[n], i, f, c)
  BY <1>3 DEF Holds
<1>4. CASE Known(i, e, b) /\ role'[n] = "Leader" /\ Fresh(n, i, f)
  <2>1. i = Len(log[n]) + 1 /\ e.term = term[n]
    BY <1>4 DEF Fresh
  <2>2. i <= Len(log[n])
    BY <1>4, <2>1, FreshIsNew
  <2> QED
    BY <1>1, <2>1, <2>2
<1>5. CASE Known(i, f, c) /\ role'[n] = "Leader" /\ Fresh(n, i, e)
  <2>1. i = Len(log[n]) + 1 /\ f.term = term[n]
    BY <1>5 DEF Fresh
  <2>2. i <= Len(log[n])
    BY <1>5, <2>1, FreshIsNew
  <2> QED
    BY <1>1, <2>1, <2>2
<1> QED
  BY <1>2, <1>3, <1>4, <1>5, KnownOrFresh

LEMMA AuthorsAreKept ==
    ASSUME TypeOK, TypeOK', VoteInv, VoteInv', MatchInv, LeadersAreDurable', NEW n \in Server,
           Step(n), ClaimStep(n), LogStep(n)
    PROVE  Authors'
<1> SUFFICES ASSUME NEW i \in Index, NEW e \in Entry, NEW b \in Nat, Known(i, e, b)'
             PROVE  \E p \in Server : Authored(p, e.term)'
  BY DEF Authors
<1>0. e.term \in Nat
  BY DEF Entry
<1>1. CASE Known(i, e, b)
  <2>1. PICK p \in Server : Authored(p, e.term)
    BY <1>1 DEF MatchInv, Authors
  <2>2. PICK t \in Nat : t = e.term
    BY <1>0
  <2>3. Authored(p, t)'
    BY <2>1, <2>2, AuthoredIsKept
  <2> QED
    BY <2>2, <2>3
<1>2. CASE role'[n] = "Leader" /\ Fresh(n, i, e)
  <2>1. e.term = term'[n]
    BY <1>2 DEF Fresh, LogStep, LeadsOn
  <2>2. Authored(n, term[n])'
    BY <1>2, LeaderIsAuthorNext
  <2> QED
    BY <2>1, <2>2 DEF Authored, Bound
<1> QED
  BY <1>1, <1>2, KnownOrFresh

LEMMA LeadersStillHold ==
    ASSUME TypeOK, TypeOK', VoteInv, VoteInv', MatchInv, NEW n \in Server,
           Step(n), ClaimStep(n), LogStep(n)
    PROVE  LeadersHold'
<1> SUFFICES ASSUME NEW p \in Server, role'[p] = "Leader", NEW i \in Index, NEW e \in Entry,
                    NEW b \in Nat, Known(i, e, b)', e.term = term'[p]
             PROVE  Holds(log'[p], i, e, b)
  BY DEF LeadersHold
<1>1. CASE p # n
  <2>1. role[p] = "Leader" /\ term'[p] = term[p] /\ log'[p] = log[p]
    BY <1>1 DEF Step, Alone, ClaimStep, LogsAlone
  <2>2. CASE Known(i, e, b)
    BY <2>1, <2>2 DEF MatchInv, LeadersHold
  <2>3. CASE role'[n] = "Leader" /\ Fresh(n, i, e)
    <3>1. term'[n] = term'[p]
      BY <2>3 DEF Fresh, LogStep, LeadsOn
    <3>2. ElectionSafety'
      <4>1. TypeOK' /\ VoteInv' => ElectionSafety'
        BY ElectionSafetyFollows, PTL
      <4> QED
        BY <4>1
    <3>3. p = n
      BY <2>3, <3>1, <3>2 DEF ElectionSafety, LeadersOf
    <3> QED
      BY <1>1, <3>3
  <2> QED
    BY <2>2, <2>3, KnownOrFresh
<1>2. CASE p = n
  <2>1. term'[n] = term[n] /\ (log'[n] = log[n] \/ Extends(n))
    BY <1>2 DEF LogStep, LeadsOn
  <2>2. CASE Known(i, e, b)
    <3>1. Holds(log[n], i, e, b)
      BY <1>2, <2>1, <2>2, FreshIsNew
    <3>2. ASSUME NEW f \in Entry, log'[n] = Append(log[n], f)
          PROVE  Holds(log'[n], i, e, b)
      <4> DEFINE lg == log[n]
      <4>1. lg \in Seq(Entry) /\ Holds(lg, i, e, b) /\ log'[n] = Append(lg, f)
        BY <3>1, <3>2 DEF TypeOK
      <4> HIDE DEF lg
      <4> QED
        BY <4>1, ExtendedHolds
    <3> QED
      BY <1>2, <2>1, <3>1, <3>2 DEF Extends
  <2>3. CASE Holds(log'[n], i, e, b)
    BY <1>2, <2>3
  <2> QED
    BY <2>2, <2>3, KnownOrFresh
<1> QED
  BY <1>1, <1>2

LEMMA MatchIsKept ==
    ASSUME TypeOK, TypeOK', VoteInv, MatchInv, NEW n \in Server,
           Step(n), ClaimStep(n), LogStep(n)
    PROVE  MatchInv'
<1>1. VoteInv'
  BY InvIsKept
<1>2. LeadersAreDurable'
  BY LeadersStayDurable DEF MatchInv
<1>3. (\A p \in Server : Asked(p)') /\ GrantsAreAsked'
  BY <1>1, AskedIsKept, GrantsAreKept DEF MatchInv
<1>4. Unique' /\ Authors' /\ LeadersHold'
  BY <1>1, <1>2, UniqueIsKept, AuthorsAreKept, LeadersStillHold
<1> QED
  BY <1>2, <1>3, <1>4 DEF MatchInv

-----------------------------------------------------------------------------
(* The steps. *)

(* The messages sent are no appends, or are cut out of the log. *)
LEMMA SliceHolds ==
    ASSUME NEW n, NEW p, NEW lg \in Seq(Entry), NEW next \in Nat \ {0}, NEW commit,
           NEW m \in AppendTo(n, p, lg, next, commit), NEW i \in Index, NEW e, NEW b,
           Carries(m, i, e, b)
    PROVE  Holds(lg, i, e, b)
<1> DEFINE last == IF next + MaxBatch - 1 < Len(lg) THEN next + MaxBatch - 1 ELSE Len(lg)
<1>1. /\ TermAt(lg, next - 1) # NoTerm
      /\ m.prev = next - 1 /\ m.prevTerm = TermAt(lg, next - 1)
      /\ m.entries = SubSeq(lg, next, last)
  BY DEF AppendTo, SliceFrom
<1>2. Len(lg) \in Nat /\ MaxBatch \in Nat /\ last \in Int /\ last <= Len(lg)
  BY ConfigAssumption
<1> HIDE DEF last
<1>3. /\ i \in (m.prev + 1)..(m.prev + Len(m.entries)) /\ m.entries[i - m.prev] = e
      /\ b = IF i = m.prev + 1 THEN m.prevTerm ELSE m.entries[i - 1 - m.prev].term
  BY DEF Carries
<1>4. next <= last /\ Len(m.entries) = last - next + 1
  <2>1. Len(m.entries) = IF next <= last THEN last - next + 1 ELSE 0
    BY <1>1, <1>2
  <2> QED
    BY <1>1, <1>2, <1>3, <2>1
<1>5. \A j \in 1..(last - next + 1) : m.entries[j] = lg[next + j - 1]
  BY <1>1, <1>2, <1>4
<1>6. i \in Nat /\ next <= i /\ i <= last /\ i \in DOMAIN lg
  BY <1>1, <1>2, <1>3, <1>4 DEF Index
<1>7. lg[i] = e
  <2>1. i - (next - 1) \in 1..(last - next + 1) /\ next + (i - (next - 1)) - 1 = i
    BY <1>2, <1>6
  <2> QED
    BY <1>1, <1>3, <1>5, <2>1
<1>8. TermAt(lg, i - 1) = b
  <2>1. CASE i = next
    BY <1>1, <1>3, <2>1
  <2>2. CASE i # next
    <3>1. /\ i - 1 - (next - 1) \in 1..(last - next + 1)
          /\ next + (i - 1 - (next - 1)) - 1 = i - 1 /\ i - 1 \in DOMAIN lg /\ i - 1 # 0
      BY <1>2, <1>6, <2>2
    <3>2. b = lg[i - 1].term
      <4>1. m.prev = next - 1 /\ i # m.prev + 1
        BY <1>1, <1>6, <2>2
      <4>3. b = m.entries[i - 1 - m.prev].term
        BY <1>3, <4>1
      <4>2. m.entries[i - 1 - (next - 1)] = lg[i - 1]
        BY <1>5, <3>1
      <4> QED
        BY <4>1, <4>2, <4>3
    <3> QED
      BY <3>1, <3>2 DEF TermAt, NO_INDEX
  <2> QED
    BY <2>1, <2>2
<1> QED
  BY <1>6, <1>7, <1>8 DEF Holds

LEMMA SendsCopies ==
    ASSUME TypeOK', NEW n \in Server, NEW ms, Send(n, ms),
           \A m \in ms : \/ m.type # "AppendEntries"
                         \/ \E p, commit : \E next \in Nat \ {0} :
                              m \in AppendTo(n, p, log'[n], next, commit)
    PROVE  Copies(n)
<1> SUFFICES ASSUME NEW m \in msgs' \ msgs, NEW i \in Index, NEW e \in Entry, NEW b \in Nat,
                    Carries(m, i, e, b)
             PROVE  Holds(log'[n], i, e, b)
  BY DEF Copies
<1>1. m \in ms /\ m.type = "AppendEntries"
  BY DEF Send, Carries
<1>6. PICK p, commit : \E next \in Nat \ {0} : m \in AppendTo(n, p, log'[n], next, commit)
  BY <1>1
<1>2. PICK next \in Nat \ {0} : m \in AppendTo(n, p, log'[n], next, commit)
  BY <1>6
<1>3. log'[n] \in Seq(Entry)
  BY DEF TypeOK
<1> DEFINE lg == log'[n]
<1>4. lg \in Seq(Entry) /\ m \in AppendTo(n, p, lg, next, commit)
  BY <1>2, <1>3
<1> HIDE DEF lg
<1>5. Holds(lg, i, e, b)
  BY <1>4, SliceHolds
<1> QED
  BY <1>5 DEF lg

LEMMA SaysNothing ==
    ASSUME NEW n, UNCHANGED msgs
    PROVE  Copies(n)
BY DEF Copies

LEMMA SendsToAll ==
    ASSUME NEW n \in Server, NEW lg, NEW next \in [Server -> Nat \ {0}], NEW commit,
           NEW m \in AppendToAll(n, lg, next, commit)
    PROVE  \E p, c : \E nx \in Nat \ {0} : m \in AppendTo(n, p, lg, nx, c)
<1>1. PICK p \in Peers(n) : m \in AppendTo(n, p, lg, next[p], commit)
  BY DEF AppendToAll
<1>2. next[p] \in Nat \ {0}
  BY DEF Peers
<1> QED
  BY <1>1, <1>2

(* A log that stays as it is holds only what is known. *)
LEMMA StillLearns ==
    ASSUME NEW n \in Server, UNCHANGED log
    PROVE  Learns(n)
BY DEF Learns, Known

(* The node goes on in its role and term. *)
LEMMA StillSteps ==
    ASSUME NEW n \in Server, UNCHANGED <<log, role, term, votedFor>>, Copies(n)
    PROVE  LogStep(n)
<1>1. Hard(n)' = Hard(n)
  BY DEF Hard
<1>2. role'[n] = "Leader" => LeadsOn(n)
  BY DEF LeadsOn
<1>3. role'[n] = "Candidate" => Stands(n)
  BY DEF Stands
<1> QED
  BY <1>1, <1>2, <1>3, StillLearns DEF LogStep, Grows, VotesWell

(* The node follows, and its log stays as it is. *)
LEMMA FollowerSteps ==
    ASSUME NEW n \in Server, UNCHANGED log, role'[n] = "Follower", Copies(n), VotesWell(n)
    PROVE  LogStep(n)
BY StillLearns DEF LogStep, Grows

LEMMA NoAppendCopies ==
    ASSUME NEW n \in Server, \A m \in msgs' \ msgs : m.type # "AppendEntries"
    PROVE  Copies(n)
BY DEF Copies, Carries

LEMMA AnswerCopies ==
    ASSUME NEW n \in Server, NEW ms, Send(n, ms), \A m \in ms : m.type # "AppendEntries"
    PROVE  Copies(n)
BY NoAppendCopies DEF Send

LEMMA AnswerTypes ==
    ASSUME NEW n, NEW p, NEW t, NEW g, NEW s, NEW match, NEW hint
    PROVE  /\ VoteResp(n, p, t, g).type = "RequestVoteResp"
           /\ PreVoteRespMsg(n, p, t, g).type = "PreVoteResp"
           /\ AppendResp(n, p, t, s, match, hint).type = "AppendEntriesResp"
           /\ RequestVoteMsg(n, p).type = "RequestVote"
           /\ PreVoteMsg(n, p).type = "PreVote"
BY DEF VoteResp, PreVoteRespMsg, AppendResp, RequestVoteMsg, PreVoteMsg

LEMMA RefuseStaleLogs ==
    ASSUME TypeOK', NEW n \in Server, NEW m \in msgs, RefuseStale(n, m)
    PROVE  LogStep(n)
<1>1. UNCHANGED <<log, role, term, votedFor>>
  BY DEF RefuseStale, electionVars, logVars
<1>2. \/ Send(n, {VoteResp(n, m.from, term[n], FALSE)})
      \/ Send(n, {AppendResp(n, m.from, term[n], FALSE, NO_INDEX, NO_INDEX)})
  BY DEF RefuseStale
<1>4. /\ VoteResp(n, m.from, term[n], FALSE).type # "AppendEntries"
      /\ AppendResp(n, m.from, term[n], FALSE, NO_INDEX, NO_INDEX).type # "AppendEntries"
  BY DEF VoteResp, AppendResp
<1>5. PICK a : a.type # "AppendEntries" /\ Send(n, {a})
  BY <1>2, <1>4
<1>3. Copies(n)
  BY <1>5, AnswerCopies
<1> QED
  BY <1>1, <1>3, StillSteps

LEMMA RepeatVoteAnswerLogs ==
    ASSUME TypeOK', NEW n \in Server, NEW m \in msgs, RepeatVoteAnswer(n, m)
    PROVE  LogStep(n)
<1>1. UNCHANGED <<log, role, term, votedFor>>
  BY DEF RepeatVoteAnswer, electionVars, logVars
<1>2. Send(n, {VoteResp(n, m.from, m.term, GrantsVote(n, m))})
  BY DEF RepeatVoteAnswer
<1>3. Copies(n)
  BY <1>2, AnswerTypes, AnswerCopies
<1> QED
  BY <1>1, <1>3, StillSteps

LEMMA HandlePreVoteLogs ==
    ASSUME TypeOK', NEW n \in Server, NEW m \in msgs, HandlePreVote(n, m)
    PROVE  LogStep(n)
<1>1. UNCHANGED <<log, role, term, votedFor>>
  BY DEF HandlePreVote, electionVars, logVars
<1>2. \E g : Send(n, {PreVoteRespMsg(n, m.from, m.term, g)})
  BY DEF HandlePreVote
<1>3. Copies(n)
  BY <1>2, AnswerTypes, AnswerCopies
<1> QED
  BY <1>1, <1>3, StillSteps

LEMMA HeartbeatLogs ==
    ASSUME TypeOK, TypeOK', NEW n \in Server, Heartbeat(n)
    PROVE  LogStep(n)
<1>1. UNCHANGED <<log, role, term, votedFor>>
  BY DEF Heartbeat, electionVars, logVars
<1>2. Send(n, AppendToAll(n, log'[n], nextIndex[n], commitIndex[n]))
  BY <1>1 DEF Heartbeat
<1>3. nextIndex[n] \in [Server -> Nat \ {0}]
  BY DEF TypeOK
<1> DEFINE ms == AppendToAll(n, log'[n], nextIndex[n], commitIndex[n])
<1>5. \A m \in ms : \E p, commit : \E next \in Nat \ {0} :
         m \in AppendTo(n, p, log'[n], next, commit)
  BY <1>3, SendsToAll
<1> HIDE DEF ms
<1>4. Copies(n)
  BY <1>2, <1>5, SendsCopies DEF ms
<1> QED
  BY <1>1, <1>4, StillSteps

LEMMA HandleAppendAckLogs ==
    ASSUME TypeOK, TypeOK', NEW n \in Server, NEW m \in msgs, HandleAppendAck(n, m)
    PROVE  LogStep(n)
<1> DEFINE held == MaxOf(matchIndex[n][m.from], m.match)
           ms == IF held < Len(log[n])
                 THEN AppendTo(n, m.from, log[n], held + 1, commitIndex'[n]) ELSE {}
<1>1. UNCHANGED <<log, role, term, votedFor>>
  BY DEF HandleAppendAck, electionVars, logVars
<1>2. Send(n, ms) /\ m.type = "AppendEntriesResp"
  BY DEF HandleAppendAck, Received
<1>3. held + 1 \in Nat \ {0}
  <2>1. m \in AppendRespMsgs
    BY <1>2, MessageTypes DEF TypeOK
  <2>2. m.from \in Server /\ m.match \in Nat /\ matchIndex[n][m.from] \in Nat
    BY <2>1 DEF AppendRespMsgs, TypeOK
  <2> QED
    BY <2>2 DEF MaxOf
<1> HIDE DEF held
<1>4. ASSUME NEW o \in ms
      PROVE  \E p, commit : \E next \in Nat \ {0} : o \in AppendTo(n, p, log'[n], next, commit)
  <2>1. o \in AppendTo(n, m.from, log'[n], held + 1, commitIndex'[n])
    BY <1>1
  <2> QED
    BY <1>3, <2>1
<1> HIDE DEF ms
<1>5. Copies(n)
  BY <1>2, <1>4, SendsCopies
<1> QED
  BY <1>1, <1>5, StillSteps

LEMMA HandleAppendNackLogs ==
    ASSUME TypeOK, TypeOK', NEW n \in Server, NEW m \in msgs, HandleAppendNack(n, m)
    PROVE  LogStep(n)
<1> DEFINE next == MaxOf(1, MinOf(MaxOf(m.hint, 1), nextIndex[n][m.from] - 1))
           ms == AppendTo(n, m.from, log[n], next, commitIndex[n])
<1>1. UNCHANGED <<log, role, term, votedFor>>
  BY DEF HandleAppendNack, electionVars, logVars
<1>2. Send(n, ms) /\ m.type = "AppendEntriesResp"
  BY DEF HandleAppendNack, Received
<1>3. next \in Nat \ {0}
  <2>1. m \in AppendRespMsgs
    BY <1>2, MessageTypes DEF TypeOK
  <2>2. m.from \in Server /\ m.hint \in Nat /\ nextIndex[n][m.from] \in Nat \ {0}
    BY <2>1 DEF AppendRespMsgs, TypeOK
  <2> QED
    BY <2>2 DEF MaxOf, MinOf
<1> HIDE DEF next
<1>4. \A o \in ms : \E p, commit : \E nx \in Nat \ {0} :
         o \in AppendTo(n, p, log'[n], nx, commit)
  BY <1>1, <1>3
<1>5. Copies(n)
  BY <1>2, <1>4, SendsCopies
<1> QED
  BY <1>1, <1>5, StillSteps

LEMMA BecomeCandidateLogs ==
    ASSUME TypeOK, NEW n \in Server, BecomeCandidate(n)
    PROVE  LogStep(n)
<1>1. /\ UNCHANGED <<log, msgs>> /\ role'[n] = "Candidate" /\ votedFor'[n] = n
      /\ term'[n] = term[n] + 1 /\ term[n] \in Nat
  BY DEF BecomeCandidate, logVars, TypeOK
<1>2. Stands(n) /\ role'[n] # "Leader" /\ VotesWell(n)
  BY <1>1 DEF Stands, VotesWell
<1> QED
  BY <1>1, <1>2, SaysNothing, StillLearns DEF LogStep, Grows

LEMMA ElectionTimeoutLogs ==
    ASSUME TypeOK, TypeOK', NEW n \in Server, ElectionTimeout(n)
    PROVE  LogStep(n)
<1>1. CASE StartPreVote(n)
  <2> DEFINE ms == {PreVoteMsg(n, p) : p \in Peers(n)}
  <2>1. /\ UNCHANGED <<log, term, votedFor>> /\ role'[n] = "Follower" /\ Send(n, ms)
    BY <1>1 DEF StartPreVote, logVars, TypeOK
  <2>2. \A m \in ms : m.type # "AppendEntries"
    BY AnswerTypes
  <2> HIDE DEF ms
  <2>3. Copies(n)
    BY <2>1, <2>2, AnswerCopies
  <2>4. VotesWell(n)
    BY <2>1 DEF VotesWell, Hard
  <2> QED
    BY <2>1, <2>3, <2>4, FollowerSteps
<1>2. CASE BecomeCandidate(n)
  BY <1>2, BecomeCandidateLogs
<1> QED
  BY <1>1, <1>2 DEF ElectionTimeout

LEMMA HandlePreVoteRespLogs ==
    ASSUME TypeOK, NEW n \in Server, NEW m \in msgs, HandlePreVoteResp(n, m)
    PROVE  LogStep(n)
<1>1. CASE BecomeCandidate(n)
  BY <1>1, BecomeCandidateLogs
<1>2. CASE UNCHANGED <<log, role, term, votedFor, msgs>>
  BY <1>2, SaysNothing, StillSteps
<1> QED
  BY <1>1, <1>2 DEF HandlePreVoteResp, logVars

LEMMA HandleNewerTermRespLogs ==
    ASSUME TypeOK, NEW n \in Server, NEW m \in msgs, HandleNewerTermResp(n, m)
    PROVE  LogStep(n)
<1>1. UNCHANGED <<log, msgs>> /\ role'[n] = "Follower" /\ votedFor'[n] = None
  BY DEF HandleNewerTermResp, StepDownTo, logVars, TypeOK
<1> QED
  BY <1>1, SaysNothing, FollowerSteps DEF VotesWell

LEMMA HandleVoteRequestLogs ==
    ASSUME TypeOK, NEW n \in Server, NEW m \in msgs, HandleVoteRequest(n, m)
    PROVE  LogStep(n)
<1>1. UNCHANGED <<log, msgs>> /\ m.term \in Nat /\ term[n] \in Nat /\ m.term >= term[n]
  BY CastTypes DEF HandleVoteRequest, logVars, TypeOK
<1>2. VotesWell(n)
  <2>1. votedFor'[n] \in {m.from, None} \/ (votedFor'[n] = votedFor[n] /\ ~(m.term > term[n]))
    BY DEF HandleVoteRequest, TypeOK
  <2>2. term'[n] = m.term
    BY <1>1 DEF HandleVoteRequest, StepDownTo, TypeOK
  <2>3. ~(m.term > term[n]) => term'[n] = term[n]
    BY DEF HandleVoteRequest
  <2> QED
    BY <2>1, <2>2, <2>3 DEF VotesWell, Hard
<1>3. CASE m.term > term[n]
  <2>1. role'[n] = "Follower"
    BY <1>3 DEF HandleVoteRequest, StepDownTo, TypeOK
  <2> QED
    BY <1>1, <1>2, <2>1, SaysNothing, FollowerSteps
<1>4. CASE ~(m.term > term[n])
  <2>1. UNCHANGED <<role, term>>
    BY <1>4 DEF HandleVoteRequest
  <2>2. role'[n] = "Leader" => LeadsOn(n)
    BY <1>1, <2>1 DEF LeadsOn
  <2>3. role'[n] = "Candidate" => Stands(n)
    BY <2>1 DEF Stands
  <2> QED
    BY <1>1, <1>2, <2>2, <2>3, SaysNothing, StillLearns DEF LogStep, Grows
<1> QED
  BY <1>3, <1>4

LEMMA FollowLeaderVotes ==
    ASSUME TypeOK, NEW n \in Server, NEW m \in msgs, FollowLeader(n, m)
    PROVE  VotesWell(n) /\ role'[n] = "Follower"
<1>1. /\ votedFor'[n] \in {None, votedFor[n]} /\ role'[n] = "Follower"
      /\ m.term > term[n] => votedFor'[n] = None
  BY DEF FollowLeader, StepDownTo, TypeOK
<1>2. m.term = term[n] => Hard(n)' = Hard(n)
  BY FollowLeaderHard
<1>3. m.term > term[n] \/ m.term = term[n]
  BY FollowLeaderHard
<1> QED
  BY <1>1, <1>2, <1>3 DEF VotesWell

LEMMA AnswerAfterTermCopies ==
    ASSUME NEW n \in Server, NEW m, NEW act, NEW answer, AnswerAfterTerm(n, m, act, answer),
           answer.type # "AppendEntries"
    PROVE  Copies(n)
<1>1. UNCHANGED msgs \/ Send(n, {answer})
  BY DEF AnswerAfterTerm
<1> QED
  BY <1>1, SaysNothing, AnswerCopies

LEMMA RejectAppendLogs ==
    ASSUME TypeOK, NEW n \in Server, NEW m \in msgs, RejectAppend(n, m)
    PROVE  LogStep(n)
<1> DEFINE answer == AppendResp(n, m.from, m.term, FALSE, durableIndex[n],
                                ConflictHint(log[n], m.prev))
<1>1. FollowLeader(n, m) /\ UNCHANGED log /\ AnswerAfterTerm(n, m, Reply(answer), answer)
  BY DEF RejectAppend, logVars
<1>2. answer.type # "AppendEntries"
  BY DEF AppendResp
<1> HIDE DEF answer
<1> QED
  BY <1>1, <1>2, AnswerAfterTermCopies, FollowLeaderVotes, FollowerSteps

LEMMA ConfirmAppendLogs ==
    ASSUME TypeOK, NEW n \in Server, NEW m \in msgs, ConfirmAppend(n, m)
    PROVE  LogStep(n)
<1> DEFINE last == m.prev + Len(m.entries)
           act == LogDurable(durableIndex[n] + 1, durableIndex[n], last, m.from, m.term)
           answer == AppendResp(n, m.from, m.term, TRUE, MinOf(durableIndex[n], last), NO_INDEX)
<1>1. FollowLeader(n, m) /\ UNCHANGED log /\ AnswerAfterTerm(n, m, act, answer)
  BY DEF ConfirmAppend
<1>2. answer.type # "AppendEntries"
  BY DEF AppendResp
<1> HIDE DEF answer, act
<1> QED
  BY <1>1, <1>2, AnswerAfterTermCopies, FollowLeaderVotes, FollowerSteps

LEMMA ReplyDurableLogs ==
    ASSUME TypeOK, NEW n \in Server, NEW k \in Queued(n), ReplyDurable(n, k)
    PROVE  LogStep(n)
<1> DEFINE act == batches[n][k].act
           ms == IF act.kind = "Reply" THEN {act.msg} ELSE {}
<1>1. UNCHANGED <<log, role, term, votedFor>> /\ Send(n, ms)
  BY DEF ReplyDurable, electionVars, logVars
<1>2. act \in Act
  <2>1. batches[n][k] \in Batch
    BY DEF TypeOK, Queued
  <2> QED
    BY <2>1 DEF Batch
<1>3. act.kind = "Reply" => act.msg \in VoteRespMsgs \cup AppendRespMsgs
  BY <1>2, ActTypes
<1>4. \A m \in ms : m.type # "AppendEntries"
  <2>1. \A m \in VoteRespMsgs \cup AppendRespMsgs : m.type # "AppendEntries"
    BY DEF VoteRespMsgs, AppendRespMsgs
  <2> HIDE DEF act
  <2> QED
    BY <1>3, <2>1
<1> HIDE DEF ms
<1> QED
  BY <1>1, <1>4, AnswerCopies, StillSteps

LEMMA LogIsDurableLogs ==
    ASSUME NEW n \in Server, NEW k \in Queued(n), LogIsDurable(n, k)
    PROVE  LogStep(n)
<1>1. UNCHANGED <<log, role, term, votedFor>>
  BY DEF LogIsDurable, electionVars
<1>2. \/ Send(n, {})
      \/ \E p, t, match : Send(n, {AppendResp(n, p, t, TRUE, match, NO_INDEX)})
  BY DEF LogIsDurable
<1>3. PICK ms : Send(n, ms) /\ \A m \in ms : m.type # "AppendEntries"
  <2>1. CASE Send(n, {})
    BY <2>1
  <2>2. ASSUME NEW p, NEW t, NEW match, Send(n, {AppendResp(n, p, t, TRUE, match, NO_INDEX)})
        PROVE  \E ms : Send(n, ms) /\ \A m \in ms : m.type # "AppendEntries"
    <3>1. AppendResp(n, p, t, TRUE, match, NO_INDEX).type # "AppendEntries"
      BY DEF AppendResp
    <3>2. PICK a : a.type # "AppendEntries" /\ Send(n, {a})
      BY <2>2, <3>1
    <3> QED
      BY <3>2
  <2> QED
    BY <1>2, <2>1, <2>2
<1> QED
  BY <1>1, <1>3, AnswerCopies, StillSteps

-----------------------------------------------------------------------------
(* Leaders. *)

LEMMA LeaderSteps ==
    ASSUME TypeOK, TypeOK', NEW n \in Server, NEW e \in Entry, e.term = term[n],
           log' = [log EXCEPT ![n] = Append(@, e)], UNCHANGED <<term, votedFor>>,
           role'[n] = "Leader", Copies(n),
           role[n] = "Leader" \/ (role[n] = "Candidate" /\ term[n] <= disk'[n].hard.term)
    PROVE  LogStep(n)
<1>1. Extends(n)
  BY LeaderExtends DEF Extends
<1>2. LeadsOn(n)
  BY <1>1 DEF LeadsOn
<1>3. VotesWell(n)
  BY DEF VotesWell, Hard
<1> QED
  BY <1>1, <1>2, <1>3 DEF LogStep, Grows

LEMMA ProposeLogs ==
    ASSUME TypeOK, TypeOK', NEW n \in Server, NEW c \in Cmd, Propose(n, c)
    PROVE  LogStep(n)
<1> DEFINE e == [term |-> term[n], cmd |-> c]
           ms == AppendToAll(n, log'[n], nextIndex[n], commitIndex[n])
<1>1. /\ log' = [log EXCEPT ![n] = Append(@, e)] /\ UNCHANGED <<role, term, votedFor>>
      /\ role[n] = "Leader" /\ Send(n, ms)
  BY DEF Propose, electionVars
<1>2. e \in Entry /\ e.term = term[n]
  BY DEF TypeOK, Entry
<1> HIDE DEF e
<1>3. \A m \in ms : \E p, commit : \E next \in Nat \ {0} :
         m \in AppendTo(n, p, log'[n], next, commit)
  BY SendsToAll DEF TypeOK
<1> HIDE DEF ms
<1>4. Copies(n)
  BY <1>1, <1>3, SendsCopies
<1> QED
  BY <1>1, <1>2, <1>4, LeaderSteps

(* What a new leader says: requests that are out of date, and appends. *)
LEMMA GreetingCopies ==
    ASSUME TypeOK', NEW n \in Server, NEW asks, \A m \in asks : m.type # "AppendEntries",
           Send(n, asks \cup LeaderGreeting(n))
    PROVE  Copies(n)
<1> DEFINE ms == asks \cup LeaderGreeting(n)
<1>1. \A m \in LeaderGreeting(n) : \E p, commit : \E next \in Nat \ {0} :
         m \in AppendTo(n, p, log'[n], next, commit)
  BY SendsToAll DEF TypeOK, LeaderGreeting
<1>2. \A m \in ms : \/ m.type # "AppendEntries"
                    \/ \E p, commit : \E next \in Nat \ {0} :
                         m \in AppendTo(n, p, log'[n], next, commit)
  BY <1>1
<1>3. Send(n, ms)
  OBVIOUS
<1> HIDE DEF ms
<1> QED
  BY <1>2, <1>3, SendsCopies

LEMMA HandleVoteRespLogs ==
    ASSUME TypeOK, TypeOK', MatchInv, NEW n \in Server, NEW m \in msgs, HandleVoteResp(n, m)
    PROVE  LogStep(n)
<1> DEFINE e == [term |-> term[n], cmd |-> Noop]
<1>1. CASE BecomeLeader(n, batches[n]) /\ Send(n, LeaderGreeting(n))
  <2>1. /\ log' = [log EXCEPT ![n] = Append(@, e)] /\ UNCHANGED <<term, votedFor>>
        /\ role'[n] = "Leader" /\ role[n] = "Candidate" /\ disk' = disk
        /\ m.to = n /\ m.term = term[n] /\ IsGrant(m)
    BY <1>1 DEF HandleVoteResp, BecomeLeader, Received, IsGrant, TypeOK
  <2>2. e \in Entry /\ e.term = term[n]
    BY NoopIsEntry
  <2> HIDE DEF e
  <2>3. Copies(n)
    <3>1. PICK asks : asks = {}
      OBVIOUS
    <3>2. asks \cup LeaderGreeting(n) = LeaderGreeting(n)
      BY <3>1
    <3>3. Send(n, asks \cup LeaderGreeting(n)) /\ \A o \in asks : o.type # "AppendEntries"
      BY <1>1, <3>1, <3>2
    <3> QED
      BY <3>3, GreetingCopies
  <2>4. term[n] <= disk'[n].hard.term
    BY <2>1 DEF MatchInv, GrantsAreAsked
  <2> QED
    BY <2>1, <2>2, <2>3, <2>4, LeaderSteps
<1>2. CASE UNCHANGED <<log, role, term, votedFor, msgs>>
  BY <1>2, SaysNothing, StillSteps
<1> QED
  BY <1>1, <1>2 DEF HandleVoteResp

LEMMA CampaignDurableLogs ==
    ASSUME TypeOK, TypeOK', VoteInv, NEW n \in Server, NEW k \in Queued(n),
           CampaignDurable(n, k)
    PROVE  LogStep(n)
<1> DEFINE e == [term |-> term[n], cmd |-> Noop]
           asks == {RequestVoteMsg(n, p) : p \in Peers(n)}
           b == batches[n][k]
           standing == role[n] = "Candidate" /\ b.act.term = term[n]
<1>0. \A m \in asks : m.type # "AppendEntries"
  BY AnswerTypes
<1>1. \/ /\ standing /\ BecomeLeader(n, QueueWithout(batches[n], k))
         /\ Send(n, asks \cup LeaderGreeting(n))
      \/ /\ UNCHANGED <<log, role, term, votedFor>>
         /\ Send(n, IF standing THEN asks ELSE {})
  BY DEF CampaignDurable
<1> HIDE DEF asks
<1>2. CASE /\ standing /\ BecomeLeader(n, QueueWithout(batches[n], k))
           /\ Send(n, asks \cup LeaderGreeting(n))
  <2>1. /\ log' = [log EXCEPT ![n] = Append(@, e)] /\ UNCHANGED <<term, votedFor>>
        /\ role'[n] = "Leader" /\ role[n] = "Candidate"
        /\ SyncDone(n, k) /\ b.act.kind = "Campaign"
    BY <1>2 DEF CampaignDurable, BecomeLeader, TypeOK
  <2>2. e \in Entry /\ e.term = term[n]
    BY NoopIsEntry
  <2> HIDE DEF e
  <2>3. Copies(n)
    BY <1>0, <1>2, GreetingCopies
  <2>4. term[n] <= disk'[n].hard.term
    <3>1. Chain(n) /\ b.act.term = b.hard.term
      BY <2>1 DEF VoteInv, Replies, RepliesWell
    <3>2. Le(b.hard, disk'[n].hard) /\ disk'[n].hard \in HardState /\ b.hard \in HardState
      BY <2>1, <3>1, SyncsDisk, HardTypes DEF HardTyped
    <3> QED
      BY <1>2, <3>1, <3>2, LeTerm
  <2> QED
    BY <2>1, <2>2, <2>3, <2>4, LeaderSteps
<1>3. CASE UNCHANGED <<log, role, term, votedFor>> /\ Send(n, IF standing THEN asks ELSE {})
  <2> DEFINE ms == IF standing THEN asks ELSE {}
  <2>1. Send(n, ms) /\ \A m \in ms : m.type # "AppendEntries"
    BY <1>0, <1>3
  <2> HIDE DEF ms
  <2> QED
    BY <1>3, <2>1, AnswerCopies, StillSteps
<1> QED
  BY <1>1, <1>2, <1>3

-----------------------------------------------------------------------------
(* A follower takes over entries that it does not hold; a crash reads them *)
(* back.                                                                   *)

(* Below the first new entry the append only repeats the log's terms. *)
LEMMA BelowFirstNew ==
    ASSUME NEW lg \in Seq(Entry), NEW prev \in Nat, NEW es \in Seq(Entry),
           NEW i \in (prev + 1)..(prev + Len(es)), i < FirstNew(lg, prev, es)
    PROVE  TermAt(lg, i) = es[i - prev].term
<1> DEFINE S == {prev + Len(es) + 1} \cup
                {j \in (prev + 1)..(prev + Len(es)) : TermAt(lg, j) # es[j - prev].term}
<1>1. S \in SUBSET Nat /\ S # {} /\ i \in Nat
  OBVIOUS
<1>2. \A y \in S : Min(S) <= y
  <2> HIDE DEF S
  <2> QED
    BY <1>1, MinNat
<1>3. FirstNew(lg, prev, es) = Min(S)
  BY DEF FirstNew
<1>4. FirstNew(lg, prev, es) \in Nat
  <2>1. FirstNew(lg, prev, es) \in (prev + 1)..(prev + Len(es) + 1) /\ Len(es) \in Nat
    BY FirstNewType
  <2> QED
    BY <2>1
<1>5. i \notin S
  <2> HIDE DEF S
  <2> QED
    BY <1>1, <1>2, <1>3, <1>4
<1> QED
  BY <1>5

LEMMA AcceptAppendLogs ==
    ASSUME TypeOK, TypeOK', NEW n \in Server, NEW m \in msgs, AcceptAppend(n, m)
    PROVE  LogStep(n)
<1> DEFINE start == FirstNew(log[n], m.prev, m.entries)
           last == m.prev + Len(m.entries)
           old == log[n]
           new == log'[n]
           prev == m.prev
           es == m.entries
<1>1. /\ FollowLeader(n, m) /\ UNCHANGED msgs /\ Matches(old, prev, m.prevTerm)
      /\ m.type = "AppendEntries"
  BY DEF AcceptAppend, FollowLeader, Received
<1>2. /\ prev \in Nat /\ es \in Seq(Entry) /\ old \in Seq(Entry) /\ last \in Nat
      /\ start \in (prev + 1)..last /\ start - 1 <= Len(old)
      /\ DOMAIN new = 1..last
      /\ \A i \in 1..(start - 1) : i \in DOMAIN old /\ new[i] = old[i]
      /\ \A i \in start..last : i - prev \in DOMAIN es /\ new[i] = es[i - prev]
  BY AcceptedLog
<1>3. \A i \in (prev + 1)..last : i < start => TermAt(old, i) = es[i - prev].term
  BY <1>2, BelowFirstNew
<1>4. last = prev + Len(es) /\ Len(es) \in Nat
  BY <1>2
<1> HIDE DEF start, last, old, new, prev, es
<1>5. ASSUME NEW i \in Index, NEW e \in Entry, NEW b \in Nat, Holds(new, i, e, b)
      PROVE  Holds(old, i, e, b) \/ Carries(m, i, e, b)
  <2>1. i \in 1..last /\ new[i] = e /\ TermAt(new, i - 1) = b /\ i \in Nat
    BY <1>2, <1>5 DEF Holds, Index
  <2>2. CASE i < start
    <3>1. i \in 1..(start - 1) /\ i \in DOMAIN old /\ old[i] = e
      BY <1>2, <2>1, <2>2
    <3>2. TermAt(old, i - 1) = TermAt(new, i - 1)
      <4>1. CASE i = 1
        BY <4>1 DEF TermAt, NO_INDEX
      <4>2. CASE i # 1
        <5>1. i - 1 \in 1..(start - 1) /\ i - 1 \in 1..last /\ i - 1 # 0
          BY <1>2, <2>1, <2>2, <4>2
        <5>2. i - 1 \in DOMAIN old /\ new[i - 1] = old[i - 1] /\ i - 1 \in DOMAIN new
          BY <1>2, <5>1
        <5> QED
          BY <5>1, <5>2 DEF TermAt, NO_INDEX
      <4> QED
        BY <4>1, <4>2
    <3> QED
      BY <2>1, <3>1, <3>2 DEF Holds
  <2>3. CASE i >= start
    <3>1. i \in start..last /\ i \in (prev + 1)..(prev + Len(es)) /\ es[i - prev] = e
      BY <1>2, <1>4, <2>1, <2>3
    <3>2. b = IF i = prev + 1 THEN m.prevTerm ELSE es[i - 1 - prev].term
      <4>1. CASE i = prev + 1
        <5>1. i = start /\ i - 1 = prev /\ prev \in 0..(start - 1)
          BY <1>2, <2>3, <4>1
        <5>2. TermAt(new, prev) = TermAt(old, prev)
          <6>1. CASE prev = 0
            BY <6>1 DEF TermAt, NO_INDEX
          <6>2. CASE prev # 0
            <7>1. prev \in 1..(start - 1) /\ prev \in 1..last
              BY <1>2, <5>1, <6>2
            <7>2. prev \in DOMAIN old /\ new[prev] = old[prev] /\ prev \in DOMAIN new
              BY <1>2, <7>1
            <7> QED
              BY <7>2 DEF TermAt
          <6> QED
            BY <6>1, <6>2
        <5> QED
          BY <1>1, <2>1, <4>1, <5>1, <5>2 DEF Matches
      <4>2. CASE i # prev + 1 /\ i - 1 < start
        <5>1. i - 1 \in (prev + 1)..last /\ i - 1 \in 1..(start - 1) /\ i - 1 # 0
              /\ i - 1 \in 1..last
          BY <1>2, <2>1, <3>1, <4>2
        <5>2. TermAt(old, i - 1) = es[i - 1 - prev].term
          BY <1>3, <4>2, <5>1
        <5>3. i - 1 \in DOMAIN old /\ new[i - 1] = old[i - 1] /\ i - 1 \in DOMAIN new
          BY <1>2, <5>1
        <5>4. TermAt(new, i - 1) = TermAt(old, i - 1)
          BY <5>1, <5>3 DEF TermAt, NO_INDEX
        <5> QED
          BY <2>1, <4>2, <5>2, <5>4
      <4>3. CASE i # prev + 1 /\ ~(i - 1 < start)
        <5>1. i - 1 \in start..last /\ i - 1 # 0 /\ i - 1 \in 1..last
          BY <1>2, <2>1, <4>3
        <5>2. new[i - 1] = es[i - 1 - prev] /\ i - 1 \in DOMAIN new
          BY <1>2, <5>1
        <5>3. TermAt(new, i - 1) = es[i - 1 - prev].term
          BY <5>1, <5>2 DEF TermAt, NO_INDEX
        <5> QED
          BY <2>1, <4>3, <5>3
      <4> QED
        BY <4>1, <4>2, <4>3
    <3> QED
      BY <1>1, <3>1, <3>2 DEF Carries, prev, es
  <2> QED
    BY <1>2, <2>1, <2>2, <2>3
<1>6. Learns(n)
  BY <1>5 DEF Learns, Known, old, new
<1> QED
  BY <1>1, <1>6, SaysNothing, FollowLeaderVotes DEF LogStep, Grows

LEMMA PrefixHolds ==
    ASSUME NEW lg \in Seq(Entry), NEW x \in Nat, x <= Len(lg), NEW i \in Index, NEW e, NEW b,
           Holds(SubSeq(lg, 1, x), i, e, b)
    PROVE  Holds(lg, i, e, b)
<1> DEFINE sub == SubSeq(lg, 1, x)
<1>1. Len(lg) \in Nat /\ DOMAIN sub = 1..x /\ \A j \in 1..x : j \in DOMAIN lg /\ sub[j] = lg[j]
  OBVIOUS
<1>2. i \in Nat /\ i \in DOMAIN sub /\ sub[i] = e /\ TermAt(sub, i - 1) = b
  BY DEF Holds, Index
<1> HIDE DEF sub
<1>3. TermAt(lg, i - 1) = b
  <2>1. CASE i = 1
    BY <1>2, <2>1 DEF TermAt, NO_INDEX
  <2>2. CASE i # 1
    <3>1. i - 1 \in 1..x /\ i - 1 # 0
      BY <1>1, <1>2, <2>2
    <3> QED
      BY <1>1, <1>2, <3>1 DEF TermAt, NO_INDEX
  <2> QED
    BY <2>1, <2>2
<1> QED
  BY <1>1, <1>2, <1>3 DEF Holds

(* What a crash leaves of the file was on its way there. *)
LEMMA RemainsAreStored ==
    ASSUME TypeOK, NEW n \in Server, NEW image \in Remains(n), NEW i \in Index,
           NEW e \in Entry, NEW b \in Nat, Holds(image.log, i, e, b)
    PROVE  Stored(n, i, e, b)
<1> DEFINE q == batches[n]
           before(k) == IF k = 1 \/ q[k - 1].synced THEN disk[n].log ELSE q[k - 1].log
<1>1. \/ image = disk[n]
      \/ \E k \in 1..Len(q) : image.log = before(k)
      \/ \E k \in 1..Len(q) : \E x \in (q[k].from - 1)..Len(q[k].log) :
           image.log = SubSeq(q[k].log, 1, x)
  BY SMTT(20) DEF Remains
<1>2. q \in Seq(Batch) /\ Len(q) \in Nat
  BY DEF TypeOK
<1>3. CASE image = disk[n]
  BY <1>3 DEF Stored
<1>4. ASSUME NEW k \in 1..Len(q), image.log = before(k)
      PROVE  Stored(n, i, e, b)
  <2>1. CASE image.log = disk[n].log
    BY <2>1 DEF Stored
  <2>2. CASE k # 1 /\ image.log = q[k - 1].log
    <3>1. k - 1 \in Queued(n)
      BY <1>2, <2>2 DEF Queued
    <3> QED
      BY <2>2, <3>1 DEF Stored
  <2> QED
    BY <1>4, <2>1, <2>2
<1>5. ASSUME NEW k \in 1..Len(q), NEW x \in (q[k].from - 1)..Len(q[k].log),
             image.log = SubSeq(q[k].log, 1, x)
      PROVE  Stored(n, i, e, b)
  <2> DEFINE lg == q[k].log
  <2>1. q[k] \in Batch
    BY <1>2
  <2>2. lg \in Seq(Entry) /\ x \in Nat /\ x <= Len(lg) /\ image.log = SubSeq(lg, 1, x)
    BY <1>5, <2>1 DEF Batch
  <2> HIDE DEF lg
  <2>3. Holds(lg, i, e, b)
    BY <2>2, PrefixHolds
  <2> QED
    BY <2>3 DEF Stored, Queued, lg
<1> QED
  BY <1>1, <1>3, <1>4, <1>5

LEMMA RestartLogs ==
    ASSUME TypeOK, TypeOK', NEW n \in Server, Restart(n)
    PROVE  LogStep(n)
<1>1. PICK image \in Remains(n) :
        /\ disk' = [disk EXCEPT ![n] = Recovered(image)]
        /\ term' = [term EXCEPT ![n] = Recovered(image).hard.term]
        /\ votedFor' = [votedFor EXCEPT ![n] = Recovered(image).hard.vote]
        /\ log' = [log EXCEPT ![n] = Recovered(image).log]
  BY DEF Restart
<1>2. UNCHANGED msgs /\ role'[n] = "Follower"
  BY DEF Restart, TypeOK
<1>3. image \in Image
  BY RemainsType
<1> DEFINE kept == Recovered(image)
<1>4. /\ kept \in Image /\ kept.log \in Seq(Entry) /\ kept.hard \in HardState
      /\ \A i \in DOMAIN kept.log : i \in DOMAIN image.log /\ kept.log[i] = image.log[i]
  BY <1>3, RecoveredTerms DEF Image
<1>5. disk'[n] = kept /\ log'[n] = kept.log /\ Hard(n)' = kept.hard
  <2>1. /\ disk'[n] = kept /\ log'[n] = kept.log
        /\ term'[n] = kept.hard.term /\ votedFor'[n] = kept.hard.vote
    BY <1>1 DEF TypeOK
  <2> QED
    BY <1>4, <2>1 DEF Hard, HardState
<1> HIDE DEF kept
<1>6. ASSUME NEW i \in Index, NEW e \in Entry, NEW b \in Nat, Holds(kept.log, i, e, b)
      PROVE  Known(i, e, b)
  <2>1. Holds(image.log, i, e, b)
    <3>1. i \in DOMAIN image.log /\ image.log[i] = e
      BY <1>4, <1>6 DEF Holds
    <3>2. TermAt(image.log, i - 1) = b
      <4>1. CASE i = 1
        BY <1>6, <4>1 DEF TermAt, NO_INDEX, Holds
      <4>2. CASE i # 1
        <5>1. i - 1 \in DOMAIN kept.log /\ i - 1 # 0
          BY <1>4, <1>6, <4>2 DEF Holds, Index
        <5> QED
          BY <1>4, <1>6, <5>1 DEF TermAt, NO_INDEX, Holds
      <4> QED
        BY <4>1, <4>2
    <3> QED
      BY <3>1, <3>2 DEF Holds
  <2> QED
    BY <2>1, RemainsAreStored DEF Known
<1>7. Learns(n) /\ VotesWell(n)
  BY <1>5, <1>6 DEF Learns, VotesWell
<1> QED
  BY <1>2, <1>7, SaysNothing DEF LogStep, Grows

-----------------------------------------------------------------------------
(* The theorems. *)

LEMMA QuietLogs ==
    ASSUME TypeOK, TypeOK', NEW n \in Server,
           \/ Heartbeat(n)
           \/ \E m \in msgs : \/ RefuseStale(n, m) \/ RepeatVoteAnswer(n, m)
                              \/ HandlePreVote(n, m) \/ HandleAppendAck(n, m)
                              \/ HandleAppendNack(n, m)
    PROVE  LogStep(n)
BY HeartbeatLogs, RefuseStaleLogs, RepeatVoteAnswerLogs, HandlePreVoteLogs,
   HandleAppendAckLogs, HandleAppendNackLogs

(* The steps of node n. *)
Acts(n) ==
    \/ ElectionTimeout(n)
    \/ Heartbeat(n)
    \/ \E c \in Cmd : Propose(n, c)
    \/ Restart(n)
    \/ \E k \in Queued(n) :
          CampaignDurable(n, k) \/ ReplyDurable(n, k) \/ LogIsDurable(n, k)
    \/ \E m \in msgs :
          \/ RefuseStale(n, m) \/ HandleNewerTermResp(n, m)
          \/ HandleVoteRequest(n, m) \/ RepeatVoteAnswer(n, m) \/ HandleVoteResp(n, m)
          \/ HandlePreVote(n, m) \/ HandlePreVoteResp(n, m)
          \/ RejectAppend(n, m) \/ AcceptAppend(n, m) \/ ConfirmAppend(n, m)
          \/ HandleAppendAck(n, m) \/ HandleAppendNack(n, m)

LEMMA NextActs ==
    ASSUME Next
    PROVE  \E n \in Server : Acts(n)
BY DEF Next, Acts, Queued

LEMMA ActMatches ==
    ASSUME TypeOK, TypeOK', VoteInv, MatchInv, NEW n \in Server, Acts(n)
    PROVE  Step(n) /\ ClaimStep(n) /\ LogStep(n)
<1>1. ClaimStep(n)
  BY QuietClaims, ElectionTimeoutClaims, ProposeClaims, RestartClaims,
     CampaignDurableClaims, ReplyDurableClaims, LogIsDurableClaims,
     HandleNewerTermRespClaims, HandleVoteRequestClaims, HandleVoteRespClaims,
     HandlePreVoteRespClaims, RejectAppendClaims, AcceptAppendClaims, ConfirmAppendClaims
  DEF Acts
<1>2. LogStep(n)
  BY QuietLogs, ElectionTimeoutLogs, ProposeLogs, RestartLogs,
     CampaignDurableLogs, ReplyDurableLogs, LogIsDurableLogs,
     HandleNewerTermRespLogs, HandleVoteRequestLogs, HandleVoteRespLogs,
     HandlePreVoteRespLogs, RejectAppendLogs, AcceptAppendLogs, ConfirmAppendLogs
  DEF Acts
<1>3. Step(n)
  BY HeartbeatSteps, RefuseStaleSteps, RepeatVoteAnswerSteps, HandlePreVoteSteps,
     HandleAppendAckSteps, HandleAppendNackSteps, ElectionTimeoutSteps, ProposeSteps, RestartSteps,
     CampaignDurableSteps, ReplyDurableSteps, LogIsDurableSteps,
     HandleNewerTermRespSteps, HandleVoteRequestSteps, HandleVoteRespSteps,
     HandlePreVoteRespSteps, RejectAppendSteps, AcceptAppendSteps, ConfirmAppendSteps
  DEF Acts
<1> QED
  BY <1>1, <1>2, <1>3

LEMMA StutterMatches ==
    ASSUME TypeOK, VoteInv, UNCHANGED vars
    PROVE  \E n \in Server : Step(n) /\ ClaimStep(n) /\ LogStep(n)
<1>1. PICK n : n \in Server /\ Step(n)
  BY StutterSteps
<1>2. ClaimStep(n)
  BY <1>1, StillClaims DEF vars, logVars, durableVars
<1>3. LogStep(n)
  BY <1>1, SaysNothing, StillSteps DEF vars, logVars, electionVars
<1> QED
  BY <1>1, <1>2, <1>3

(* At the start all that is known is on a disk, and the disks have a       *)
(* history.                                                                *)
LEMMA MatchAtStart ==
    ASSUME Init
    PROVE  MatchInv
<1>0. TypeOK
  BY InitTypes
<1>1. PICK d \in StartDisks : disk = [n \in Server |-> Recovered(d[n])]
  BY DEF Init
<1>2. \A n \in Server : /\ log[n] = disk[n].log /\ role[n] = "Follower" /\ Queued(n) = {}
                        /\ term[n] = disk[n].hard.term /\ votedFor[n] = disk[n].hard.vote
  BY DEF Init, Queued
<1>3. msgs = {}
  BY DEF Init
<1>4. HasHistory(disk)
  BY <1>1, HistoryAssumption
<1>5. ASSUME NEW i, NEW e, NEW b, Known(i, e, b)
      PROVE  \E n \in Server : Holds(disk[n].log, i, e, b)
  BY <1>2, <1>3, <1>5 DEF Known, Stored
<1>6. Unique
  <2> SUFFICES ASSUME NEW i \in Index, NEW e \in Entry, NEW f \in Entry, NEW b \in Nat,
                      NEW c \in Nat, Known(i, e, b), Known(i, f, c), e.term = f.term
               PROVE  e = f /\ b = c
    BY DEF Unique
  <2>1. PICK n \in Server : Holds(disk[n].log, i, e, b)
    BY <1>5
  <2>2. PICK p \in Server : Holds(disk[p].log, i, f, c)
    BY <1>5
  <2>3. i \in DOMAIN disk[n].log /\ i \in DOMAIN disk[p].log /\ i <= i
    BY <2>1, <2>2 DEF Holds, Index
  <2> QED
    BY <1>4, <2>1, <2>2, <2>3 DEF Holds, HasHistory
<1>7. Authors
  <2> SUFFICES ASSUME NEW i \in Index, NEW e \in Entry, NEW b \in Nat, Known(i, e, b)
               PROVE  \E p \in Server : Authored(p, e.term)
    BY DEF Authors
  <2>1. PICK n \in Server : Holds(disk[n].log, i, e, b)
    BY <1>5
  <2>2. PICK p \in Server : WasElected(p, e.term, disk)
    BY <1>4, <2>1 DEF Holds, HasHistory
  <2> DEFINE Q == {v \in Server : Le([term |-> e.term, vote |-> p], disk[v].hard)}
  <2>3. \A v \in Q : Bound(v, e.term, p)
    BY <1>2, <1>3 DEF Bound
  <2>4. Q \in SUBSET Server /\ IsQuorum(Q)
    BY <2>2 DEF WasElected
  <2> HIDE DEF Q
  <2>5. Authored(p, e.term)
    BY <1>2, <2>2, <2>3, <2>4 DEF Authored, WasElected
  <2> QED
    BY <2>5
<1>8. LeadersHold /\ LeadersAreDurable /\ GrantsAreAsked
  BY <1>2, <1>3 DEF LeadersHold, LeadersAreDurable, GrantsAreAsked
<1>9. ASSUME NEW n \in Server
      PROVE  Asked(n)
  <2>1. Hard(n).term = disk[n].hard.term /\ Hard(n).vote = disk[n].hard.vote
    BY <1>2 DEF Hard
  <2> QED
    BY <1>2, <1>4, <2>1 DEF Asked, AskedFor, HasHistory
<1> QED
  BY <1>6, <1>7, <1>8, <1>9 DEF MatchInv

(* Two logs that agree on a term differ nowhere below: at the last place   *)
(* where they did, the entries above would have one predecessor, so those  *)
(* there would have one term, and be one.                                  *)
LEMMA LogMatchingFollows ==
    ASSUME TypeOK, MatchInv
    PROVE  LogMatching
<1> DEFINE logs == {log[n] : n \in Server} \cup {disk[n].log : n \in Server}
<1> SUFFICES ASSUME NEW a \in logs, NEW b \in logs, NEW i \in DOMAIN a \cap DOMAIN b,
                    a[i].term = b[i].term
             PROVE  SubSeq(a, 1, i) = SubSeq(b, 1, i)
  BY DEF LogMatching
<1>1. a \in Seq(Entry) /\ b \in Seq(Entry)
  BY DEF TypeOK, Image
<1>2. \A j \in Index : \A e \in Entry : \A c \in Nat :
         Holds(a, j, e, c) \/ Holds(b, j, e, c) => Known(j, e, c)
  BY DEF Known, Stored
<1> HIDE DEF logs
<1>3. i \in Nat /\ i >= 1 /\ i <= Len(a) /\ i <= Len(b) /\ Len(a) \in Nat /\ Len(b) \in Nat
  BY <1>1
<1>4. ASSUME NEW j \in 1..i, a[j].term = b[j].term
      PROVE  a[j] = b[j] /\ TermAt(a, j - 1) = TermAt(b, j - 1)
  <2>1. j \in DOMAIN a /\ j \in DOMAIN b /\ j \in Index /\ j - 1 \in 0..Len(a) /\ j - 1 \in 0..Len(b)
    BY <1>1, <1>3 DEF Index
  <2>2. a[j] \in Entry /\ b[j] \in Entry
    BY <1>1, <2>1, EntryTerm
  <2>3. TermAt(a, j - 1) \in Nat /\ TermAt(b, j - 1) \in Nat
    BY <1>1, <2>1, TermAtType
  <2>4. Holds(a, j, a[j], TermAt(a, j - 1)) /\ Holds(b, j, b[j], TermAt(b, j - 1))
    BY <2>1 DEF Holds
  <2>5. Known(j, a[j], TermAt(a, j - 1)) /\ Known(j, b[j], TermAt(b, j - 1))
    BY <1>2, <2>1, <2>2, <2>3, <2>4
  <2> QED
    BY <1>4, <2>1, <2>2, <2>3, <2>5 DEF MatchInv, Unique
<1> DEFINE S == {j \in 1..i : a[j] # b[j]}
<1>5. S = {}
  <2> SUFFICES ASSUME S # {}
               PROVE  FALSE
    OBVIOUS
  <2>1. S \in SUBSET Nat /\ \A x \in S : x <= i
    BY <1>3
  <2>2. PICK j \in S : \A x \in S : x <= j
    <3> HIDE DEF S
    <3> QED
      BY <1>3, <2>1, MaxNat
  <2>3. j \in 1..i /\ a[j] # b[j] /\ j \in Nat
    BY <1>3, <2>2
  <2>4. CASE j = i
    BY <1>4, <2>3, <2>4
  <2>5. CASE j # i
    <3>1. j + 1 \in 1..i /\ (j + 1) - 1 = j /\ j # 0 /\ j \in DOMAIN a /\ j \in DOMAIN b
      BY <1>1, <1>3, <2>3, <2>5
    <3>2. a[j + 1] = b[j + 1]
      <4>1. ~(j + 1 <= j)
        BY <2>3
      <4>2. j + 1 \notin S
        <5> HIDE DEF S
        <5> QED
          BY <2>2, <4>1
      <4> QED
        BY <3>1, <4>2
    <3>3. TermAt(a, (j + 1) - 1) = TermAt(b, (j + 1) - 1)
      BY <1>4, <3>1, <3>2
    <3>4. a[j].term = b[j].term
      BY <3>1, <3>3 DEF TermAt, NO_INDEX
    <3> QED
      BY <1>4, <2>3, <3>4
  <2> QED
    BY <2>4, <2>5
<1>6. \A j \in 1..i : a[j] = b[j]
  BY <1>5
<1> HIDE DEF S
<1> QED
  <2>1. /\ SubSeq(a, 1, i) = [j \in 1..i |-> a[j]]
        /\ SubSeq(b, 1, i) = [j \in 1..i |-> b[j]]
    BY <1>1, <1>3
  <2>2. [j \in 1..i |-> a[j]] = [j \in 1..i |-> b[j]]
    BY <1>6
  <2> QED
    BY <2>1, <2>2

(* The inductive invariant, for every cluster and every configuration.     *)
THEOREM MatchesAreKept == Spec => []MatchInv
<1>1. Init => MatchInv
  BY MatchAtStart
<1>2. TypeOK /\ TypeOK' /\ VoteInv /\ MatchInv /\ [Next]_vars => MatchInv'
  BY NextActs, ActMatches, StutterMatches, MatchIsKept
<1> QED
  BY <1>1, <1>2, TypeCorrect, VotesAreKept, PTL DEF Spec

(* Two logs, in memory or on disk, that agree on the term of an index      *)
(* agree on everything up to it, in every cluster that starts from disks   *)
(* with a history: the check of `matches` in `on_append_entries` and the   *)
(* election of one leader a term suffice, whatever is lost, repeated,      *)
(* truncated, or read back after a crash in the middle of a write.         *)
THEOREM LogsMatch == Spec => []LogMatching
<1>1. TypeOK /\ MatchInv => LogMatching
  BY LogMatchingFollows
<1> QED
  BY <1>1, TypeCorrect, MatchesAreKept, PTL

-----------------------------------------------------------------------------
(***************************************************************************)
(* The lines of history that logs follow, for every cluster and every      *)
(* configuration: what RaftCommit needs to know of elections and appends   *)
(* before it speaks of what is committed.                                  *)
(*                                                                         *)
(* A log is coherent if each of its entries is known to follow the one     *)
(* before it.  All logs are, in memory, on disk and in flight.  Coherent   *)
(* logs that agree on the term of an index agree up to it, and their terms *)
(* do not decrease.  The invariant LineInv says where an append stands on  *)
(* the line of its leader, that a candidate asks with the log it has, and  *)
(* that an acknowledgement, given or still owed, answers an append of its  *)
(* term that reaches as far.                                               *)
(***************************************************************************)

Has(lg, i, e) == i \in DOMAIN lg /\ lg[i] = e

Coherent(lg) == \A j \in DOMAIN lg : Known(j, lg[j], TermAt(lg, j - 1))

Same(lg, new, i) == \A j \in 1..i : j \in DOMAIN lg /\ j \in DOMAIN new /\ lg[j] = new[j]

IsAppend(m) == m.type = "AppendEntries"
IsAck(m) == m.type = "AppendEntriesResp" /\ m.success

(* The last index an append reaches, and the term it gives it. *)
Last(m) == m.prev + Len(m.entries)
TailTerm(m) == IF m.entries = <<>> THEN m.prevTerm ELSE m.entries[Len(m.entries)].term

(* The log lg agrees with the sender of append m as far as m reaches. *)
Reaches(lg, m) == TermAt(lg, Last(m)) = TailTerm(m)

(* Node v has acknowledged index i to the leader of term t, or will once a *)
(* batch is durable.                                                       *)
Ack(v, t, i) == \E m \in msgs : IsAck(m) /\ m.from = v /\ m.term = t /\ i <= m.match

Owes(act, t, i) ==
    act.kind = "LogDurable" /\ act.replyTo # None /\ act.replyTerm = t /\ i <= act.verified
Owed(v, t, i) == \E j \in Queued(v) : Owes(batches[v][j].act, t, i)

(* Node v has voted for k in term t, or will once a batch is durable. *)
VoteWaits(v, k, t, act) == act.kind = "Reply" /\ act.msg = VoteResp(v, k, t, TRUE)
VoteOwed(v, k, t) == \E j \in Queued(v) : VoteWaits(v, k, t, batches[v][j].act)
Voted(v, k, t) == Granted(v, k, t) \/ VoteOwed(v, k, t)

-----------------------------------------------------------------------------
(* The invariant. *)

Ordered == \A i \in Index : \A e \in Entry : \A b \in Nat : Known(i, e, b) => b <= e.term

(* A leader of term b was elected, and still has index j if it leads.      *)
Rooted(j, b) == j = 0 \/
    /\ \E p \in Server : Authored(p, b)
    /\ \A n \in Server : role[n] = "Leader" /\ term[n] = b => j <= Len(log[n])

Roots == \A i \in Index : \A e \in Entry : \A b \in Nat : Known(i, e, b) => Rooted(i - 1, b)

Tips == \A n \in Server :
    /\ LastTerm(log[n]) <= term[n]
    /\ role[n] = "Leader" => Len(log[n]) > 0 /\ LastTerm(log[n]) = term[n]

Appended == \A m \in msgs : IsAppend(m) =>
    /\ Authored(m.from, m.term)
    /\ Rooted(Last(m), TailTerm(m))
    /\ TailTerm(m) <= m.term
    /\ \A n \in Server : role[n] = "Leader" /\ term[n] = m.term
         => Last(m) <= Len(log[n]) /\ Reaches(log[n], m)

(* A candidate still has the log it asked with. *)
Requests == \A m \in msgs :
    (m.type = "RequestVote" /\ role[m.from] = "Candidate" /\ term[m.from] = m.term)
    => m.lastIndex = Len(log[m.from]) /\ m.lastTerm = LastTerm(log[m.from])

AppendFor(t, i) == \E m \in msgs : IsAppend(m) /\ m.term = t /\ i <= Last(m)

Answered == \A v \in Server : \A t \in Nat : \A i \in Index :
    /\ Ack(v, t, i) \/ Owed(v, t, i) => AppendFor(t, i)
    /\ Owed(v, t, i) => t <= term[v]

Counts == \A n, p \in Server : role[n] = "Leader" =>
    \A i \in Index : i <= matchIndex[n][p] => Ack(p, term[n], i)

(* An answer that waits for a term alone acknowledges nothing. *)
Refuses(n) == \A j \in Queued(n) :
    batches[n][j].act.kind = "Reply" => ~IsAck(batches[n][j].act.msg)

LineInv ==
    /\ Ordered /\ Roots /\ Tips /\ Appended /\ Requests /\ Answered /\ Counts
    /\ \A n \in Server : Refuses(n)

-----------------------------------------------------------------------------
(* What a step of node n may do, for this argument. *)

Stays(n) ==
    /\ log'[n] = log[n] /\ term[n] <= term'[n] /\ durableIndex[n] <= durableIndex'[n]
    /\ role'[n] = "Leader" => role[n] = "Leader"

Adds(n) ==
    /\ Extends(n) /\ role'[n] = "Leader" /\ term'[n] = term[n]
    /\ durableIndex[n] <= durableIndex'[n]

(* The log is replaced by that of the leader as far as append m reaches,   *)
(* because the two differ below, and first where the claim is clamped.     *)
Accepts(n, m) ==
    /\ IsAppend(m) /\ m.term = term'[n] /\ term[n] <= term'[n] /\ role'[n] = "Follower"
    /\ Len(log'[n]) = Last(m) /\ Reaches(log'[n], m)
    /\ \E s \in 1..Last(m) : /\ TermAt(log[n], s) # TermAt(log'[n], s)
                             /\ durableIndex'[n] = MinOf(durableIndex[n], s - 1)

(* A crash loses nothing that was claimed. *)
Recovers(n) ==
    /\ Reboots(n) /\ role'[n] = "Follower" /\ durableIndex'[n] = Len(log'[n])
    /\ commitIndex'[n] = 0 /\ restarts'[n] # restarts[n] /\ UNCHANGED msgs
    /\ \A i \in Index : i <= durableIndex[n] => Kept(n, i)
    /\ \A i \in DOMAIN log'[n] : log'[n][i].term <= term'[n]

Moves(n) == Stays(n) \/ Adds(n) \/ (\E m \in msgs : Accepts(n, m)) \/ Recovers(n)

(* An append of the current term shows that the log is the leader's up to i. *)
Vouched(n, t, i) == \E m \in msgs :
    /\ IsAppend(m) /\ m.term = t /\ t = term'[n] /\ term[n] <= t
    /\ i <= Last(m) /\ Reaches(log'[n], m)

(* A vote is for a candidate whose log is as good as the voter's. *)
Backs(n, k, t) == \E m \in msgs :
    /\ m.type = "RequestVote" /\ m.from = k /\ m.term = t /\ t = term'[n]
    /\ IsUpToDate(log[n], m.lastIndex, m.lastTerm)
    /\ log'[n] = log[n]

(* What the node comes to owe. *)
Promises(n) ==
    /\ \A t \in Nat : \A i \in Index : Owed(n, t, i)' => Owed(n, t, i) \/ Vouched(n, t, i)
    /\ \A k \in Server : \A t \in Nat : VoteOwed(n, k, t)' => VoteOwed(n, k, t) \/ Backs(n, k, t)
    /\ Refuses(n)'

(* What it says. *)
Sayable(n, m) ==
    /\ IsAck(m) =>
         /\ m.match <= durableIndex'[n]
         /\ \A i \in Index : i <= m.match => Owed(n, m.term, i) \/ Vouched(n, m.term, i)
    /\ IsGrant(m) => VoteOwed(n, m.to, m.term) \/ Backs(n, m.to, m.term)
    /\ m.type = "RequestVote" => m.lastIndex = Len(log[n]) /\ m.lastTerm = LastTerm(log[n])
    /\ IsAppend(m) =>
         /\ role'[n] = "Leader" /\ m.term = term'[n]
         /\ Last(m) <= Len(log'[n]) /\ Reaches(log'[n], m) /\ m.commit <= commitIndex'[n]

Says(n) == \A m \in msgs' \ msgs : Sayable(n, m)

(* A leader counts what was acknowledged in its term. *)
Hears(n) ==
    /\ role'[n] = "Leader" => \A p \in Server : \A i \in Index : i <= matchIndex'[n][p] =>
         Ack(p, term[n], i) \/ (role[n] = "Leader" /\ i <= matchIndex[n][p])
    /\ \A p \in Server \ {n} : matchIndex'[p] = matchIndex[p]

LineStep(n) ==
    /\ Moves(n) /\ Promises(n) /\ Says(n) /\ Hears(n)
    /\ role'[n] = "Candidate" => log'[n] = log[n]

-----------------------------------------------------------------------------
(* Coherent logs. *)

LEMMA CoherentIfKnown ==
    ASSUME NEW lg \in Seq(Entry),
           \A j \in Index : \A e \in Entry : \A b \in Nat : Holds(lg, j, e, b) => Known(j, e, b)
    PROVE  Coherent(lg)
<1> SUFFICES ASSUME NEW j \in DOMAIN lg
             PROVE  Known(j, lg[j], TermAt(lg, j - 1))
  BY DEF Coherent
<1>1. j \in Index /\ j - 1 \in 0..Len(lg)
  BY DEF Index
<1>2. lg[j] \in Entry /\ TermAt(lg, j - 1) \in Nat
  BY <1>1, EntryTerm, TermAtType
<1>3. Holds(lg, j, lg[j], TermAt(lg, j - 1))
  BY DEF Holds
<1> QED
  BY <1>1, <1>2, <1>3

LEMMA BatchLog ==
    ASSUME NEW queue \in Seq(Batch), NEW j \in 1..Len(queue)
    PROVE  queue[j] \in Batch /\ queue[j].log \in Seq(Entry)
<1>1. queue[j] \in Batch
  OBVIOUS
<1> QED
  BY <1>1 DEF Batch

(* The logs there are: in memory, on disk and in flight. *)
IsLog(lg) == \E n \in Server :
    lg = log[n] \/ lg = disk[n].log \/ \E j \in Queued(n) : lg = batches[n][j].log

LEMMA LogTypes ==
    ASSUME TypeOK, NEW n \in Server
    PROVE  /\ log[n] \in Seq(Entry) /\ disk[n].log \in Seq(Entry)
           /\ \A j \in Queued(n) : batches[n][j].log \in Seq(Entry)
<1>1. log[n] \in Seq(Entry) /\ disk[n].log \in Seq(Entry) /\ batches[n] \in Seq(Batch)
  BY DEF TypeOK, Image
<1> QED
  BY <1>1, BatchLog DEF Queued

LEMMA LogsAreCoherent ==
    TypeOK => \A lg : IsLog(lg) => lg \in Seq(Entry) /\ Coherent(lg)
<1> SUFFICES ASSUME TypeOK, NEW lg, IsLog(lg)
             PROVE  lg \in Seq(Entry) /\ Coherent(lg)
  OBVIOUS
<1>1. lg \in Seq(Entry)
  BY LogTypes DEF IsLog
<1> QED
  BY <1>1, CoherentIfKnown DEF IsLog, Known, Stored

LEMMA LogsAreCoherentNext ==
    TypeOK' => \A lg : IsLog(lg)' => lg \in Seq(Entry) /\ Coherent(lg)'
<1>1. TypeOK' => (\A lg : IsLog(lg) => lg \in Seq(Entry) /\ Coherent(lg))'
  BY LogsAreCoherent, PTL
<1> QED
  BY <1>1

(* At the last place where two logs differ, the entries above have one     *)
(* predecessor, so those there have one term, and are one.                 *)
LEMMA CoherentAgree ==
    Unique => \A lg, new \in Seq(Entry) : Coherent(lg) /\ Coherent(new) =>
        \A i \in DOMAIN lg : TermAt(lg, i) = TermAt(new, i) => Same(lg, new, i)
<1> SUFFICES ASSUME Unique, NEW a \in Seq(Entry), NEW b \in Seq(Entry), Coherent(a),
                    Coherent(b), NEW i \in DOMAIN a, TermAt(a, i) = TermAt(b, i)
             PROVE  Same(a, b, i)
  OBVIOUS
<1>1. i \in Nat /\ i >= 1 /\ i <= Len(a) /\ Len(a) \in Nat /\ Len(b) \in Nat
  OBVIOUS
<1>2. i <= Len(b) /\ a[i].term = b[i].term
  <2>1. TermAt(a, i) = a[i].term /\ a[i].term \in Nat
    BY <1>1, EntryTerm DEF TermAt, NO_INDEX
  <2>2. i \in DOMAIN b
    <3>1. TermAt(b, i) \in Nat
      BY <2>1
    <3>2. NoTerm \notin Nat
      BY TermAtType
    <3> QED
      BY <1>1, <3>1, <3>2 DEF TermAt, NO_INDEX
  <2> QED
    BY <1>1, <2>1, <2>2 DEF TermAt, NO_INDEX
<1>3. ASSUME NEW j \in 1..i, a[j].term = b[j].term
      PROVE  a[j] = b[j] /\ TermAt(a, j - 1) = TermAt(b, j - 1)
  <2>1. j \in DOMAIN a /\ j \in DOMAIN b /\ j \in Index /\ j - 1 \in 0..Len(a) /\ j - 1 \in 0..Len(b)
    BY <1>1, <1>2 DEF Index
  <2>2. a[j] \in Entry /\ b[j] \in Entry
    BY <2>1, EntryTerm
  <2>3. TermAt(a, j - 1) \in Nat /\ TermAt(b, j - 1) \in Nat
    BY <2>1, TermAtType
  <2>4. Known(j, a[j], TermAt(a, j - 1)) /\ Known(j, b[j], TermAt(b, j - 1))
    BY <2>1 DEF Coherent
  <2> QED
    BY <1>3, <2>1, <2>2, <2>3, <2>4 DEF Unique
<1> DEFINE S == {j \in 1..i : a[j] # b[j]}
<1>4. S = {}
  <2> SUFFICES ASSUME S # {}
               PROVE  FALSE
    OBVIOUS
  <2>1. S \in SUBSET Nat /\ \A x \in S : x <= i
    BY <1>1
  <2>2. PICK j \in S : \A x \in S : x <= j
    <3> HIDE DEF S
    <3> QED
      BY <1>1, <2>1, MaxNat
  <2>3. j \in 1..i /\ a[j] # b[j] /\ j \in Nat
    BY <1>1, <2>2
  <2>4. CASE j = i
    BY <1>2, <1>3, <2>3, <2>4
  <2>5. CASE j # i
    <3>1. j + 1 \in 1..i /\ (j + 1) - 1 = j /\ j # 0 /\ j \in DOMAIN a /\ j \in DOMAIN b
      BY <1>1, <1>2, <2>3, <2>5
    <3>2. a[j + 1] = b[j + 1]
      <4>1. ~(j + 1 <= j)
        BY <2>3
      <4>2. j + 1 \notin S
        <5> HIDE DEF S
        <5> QED
          BY <2>2, <4>1
      <4> QED
        BY <3>1, <4>2
    <3>3. TermAt(a, (j + 1) - 1) = TermAt(b, (j + 1) - 1)
      BY <1>3, <3>1, <3>2
    <3>4. a[j].term = b[j].term
      BY <3>1, <3>3 DEF TermAt, NO_INDEX
    <3> QED
      BY <1>3, <2>3, <3>4
  <2> QED
    BY <2>4, <2>5
<1>5. \A j \in 1..i : a[j] = b[j] /\ j \in DOMAIN a /\ j \in DOMAIN b
  BY <1>1, <1>2, <1>4
<1> QED
  BY <1>5 DEF Same

LEMMA CoherentOrder ==
    Ordered => \A lg \in Seq(Entry) : Coherent(lg) =>
        \A i \in DOMAIN lg : \A j \in 1..i : j \in DOMAIN lg /\ lg[j].term <= lg[i].term
<1> SUFFICES ASSUME Ordered, NEW lg \in Seq(Entry), Coherent(lg), NEW i \in DOMAIN lg
             PROVE  \A j \in 1..i : j \in DOMAIN lg /\ lg[j].term <= lg[i].term
  OBVIOUS
<1>1. i \in Nat /\ i >= 1 /\ i <= Len(lg) /\ Len(lg) \in Nat
  OBVIOUS
<1>2. \A j \in 1..i : j \in DOMAIN lg /\ lg[j].term \in Nat
  BY <1>1, EntryTerm
<1> DEFINE S == {j \in 1..i : ~(lg[j].term <= lg[i].term)}
<1>3. S = {}
  <2> SUFFICES ASSUME S # {}
               PROVE  FALSE
    OBVIOUS
  <2>1. S \in SUBSET Nat /\ \A x \in S : x <= i
    BY <1>1
  <2>2. PICK j \in S : \A x \in S : x <= j
    <3> HIDE DEF S
    <3> QED
      BY <1>1, <2>1, MaxNat
  <2>3. j \in 1..i /\ ~(lg[j].term <= lg[i].term) /\ j \in Nat /\ i \in 1..i
    BY <1>1, <2>2
  <2>4. j # i
    <3>1. lg[i].term <= lg[i].term
      BY <1>2, <2>3
    <3> QED
      BY <2>3, <3>1
  <2>5. j + 1 \in 1..i /\ (j + 1) - 1 = j /\ j # 0 /\ j + 1 \in Index /\ ~(j + 1 <= j)
    BY <1>1, <2>3, <2>4 DEF Index
  <2>6. lg[j + 1].term <= lg[i].term
    <3>1. j + 1 \notin S
      <4> HIDE DEF S
      <4> QED
        BY <2>2, <2>5
    <3> QED
      BY <2>5, <3>1
  <2>7. Known(j + 1, lg[j + 1], lg[j].term)
    <3>1. TermAt(lg, (j + 1) - 1) = lg[j].term
      BY <1>2, <2>3, <2>5 DEF TermAt, NO_INDEX
    <3> QED
      BY <1>2, <2>5, <3>1 DEF Coherent
  <2>8. lg[j].term <= lg[j + 1].term
    <3>1. lg[j + 1] \in Entry
      BY <1>2, <2>5, EntryTerm
    <3> QED
      BY <1>2, <2>3, <2>5, <2>7, <3>1 DEF Ordered
  <2>9. lg[j].term \in Nat /\ lg[j + 1].term \in Nat /\ lg[i].term \in Nat
    BY <1>2, <2>3, <2>5
  <2> QED
    BY <2>3, <2>6, <2>8, <2>9
<1> QED
  BY <1>2, <1>3

LEMMA PrefixIsCoherent ==
    ASSUME NEW lg \in Seq(Entry), Coherent(lg), NEW i \in DOMAIN lg
    PROVE  /\ SubSeq(lg, 1, i) \in Seq(Entry) /\ Coherent(SubSeq(lg, 1, i))
           /\ Len(SubSeq(lg, 1, i)) = i /\ LastTerm(SubSeq(lg, 1, i)) = lg[i].term
           /\ DOMAIN SubSeq(lg, 1, i) = 1..i
           /\ \A j \in 1..i : SubSeq(lg, 1, i)[j] = lg[j] /\ j \in DOMAIN lg
<1> DEFINE p == SubSeq(lg, 1, i)
<1>1. /\ p \in Seq(Entry) /\ Len(p) = i /\ DOMAIN p = 1..i /\ i \in 1..i /\ i \in Nat
      /\ \A j \in 1..i : p[j] = lg[j] /\ j \in DOMAIN lg
  OBVIOUS
<1> HIDE DEF p
<1>2. LastTerm(p) = lg[i].term
  BY <1>1 DEF LastTerm, TermAt, NO_INDEX
<1>3. Coherent(p)
  <2> SUFFICES ASSUME NEW j \in 1..i
               PROVE  Known(j, p[j], TermAt(p, j - 1))
    BY <1>1 DEF Coherent
  <2>1. TermAt(p, j - 1) = TermAt(lg, j - 1)
    <3>1. j - 1 = 0 \/ j - 1 \in 1..i
      BY <1>1
    <3> QED
      BY <1>1, <3>1 DEF TermAt, NO_INDEX
  <2> QED
    BY <1>1, <2>1 DEF Coherent
<1> QED
  BY <1>1, <1>2, <1>3 DEF p

LEMMA CoherentAgreeNext ==
    Unique' => \A lg, new \in Seq(Entry) : Coherent(lg)' /\ Coherent(new)' =>
        \A i \in DOMAIN lg : TermAt(lg, i) = TermAt(new, i) => Same(lg, new, i)
<1>1. Unique' => (\A lg, new \in Seq(Entry) : Coherent(lg) /\ Coherent(new) =>
        \A i \in DOMAIN lg : TermAt(lg, i) = TermAt(new, i) => Same(lg, new, i))'
  BY CoherentAgree, PTL
<1> QED
  BY <1>1

LEMMA CoherentOrderNext ==
    Ordered' => \A lg \in Seq(Entry) : Coherent(lg)' =>
        \A i \in DOMAIN lg : \A j \in 1..i : j \in DOMAIN lg /\ lg[j].term <= lg[i].term
<1>1. Ordered' => (\A lg \in Seq(Entry) : Coherent(lg) =>
        \A i \in DOMAIN lg : \A j \in 1..i : j \in DOMAIN lg /\ lg[j].term <= lg[i].term)'
  BY CoherentOrder, PTL
<1> QED
  BY <1>1

-----------------------------------------------------------------------------
(* Roots. *)

LEMMA KnownIsRooted ==
    TypeOK /\ MatchInv => \A i \in Index : \A e \in Entry : \A b \in Nat :
        Known(i, e, b) => Rooted(i, e.term)
<1> SUFFICES ASSUME TypeOK, MatchInv, NEW i \in Index, NEW e \in Entry, NEW b \in Nat,
                    Known(i, e, b)
             PROVE  Rooted(i, e.term)
  OBVIOUS
<1>1. \E p \in Server : Authored(p, e.term)
  BY DEF MatchInv, Authors
<1>2. ASSUME NEW n \in Server, role[n] = "Leader", term[n] = e.term
      PROVE  i <= Len(log[n])
  <2>1. Holds(log[n], i, e, b) /\ log[n] \in Seq(Entry)
    BY <1>2 DEF MatchInv, LeadersHold, TypeOK
  <2> QED
    BY <2>1 DEF Holds
<1> QED
  BY <1>1, <1>2 DEF Rooted

LEMMA KnownIsRootedNext ==
    TypeOK' /\ MatchInv' => \A i \in Index : \A e \in Entry : \A b \in Nat :
        Known(i, e, b)' => Rooted(i, e.term)'
<1>1. TypeOK' /\ MatchInv' => (\A i \in Index : \A e \in Entry : \A b \in Nat :
        Known(i, e, b) => Rooted(i, e.term))'
  BY KnownIsRooted, PTL
<1> QED
  BY <1>1

(* A leader is past every root of its term. *)
LEMMA RootIsBelow ==
    ASSUME TypeOK, TypeOK', VoteInv, VoteInv', NEW n \in Server, Step(n), LogStep(n),
           role'[n] = "Leader", NEW j \in Nat, Rooted(j, term[n])
    PROVE  j = 0 \/ (role[n] = "Leader" /\ j <= Len(log[n]))
<1>1. role[n] \in {"Leader", "Candidate"}
  BY DEF LogStep, LeadsOn
<1>2. ASSUME j # 0
      PROVE  role[n] # "Candidate"
  BY <1>2, CandidateIsFirst DEF Rooted
<1> QED
  BY <1>1, <1>2 DEF Rooted

LEMMA LeaderGrows ==
    ASSUME TypeOK, NEW n \in Server, LogStep(n), role'[n] = "Leader"
    PROVE  /\ term'[n] = term[n] /\ Len(log[n]) \in Nat /\ Len(log'[n]) \in Nat
           /\ Len(log[n]) <= Len(log'[n])
           /\ \A i \in 0..Len(log[n]) : TermAt(log'[n], i) = TermAt(log[n], i)
<1>1. term'[n] = term[n] /\ (log'[n] = log[n] \/ Extends(n)) /\ log[n] \in Seq(Entry)
  BY DEF LogStep, LeadsOn, TypeOK
<1>2. CASE log'[n] = log[n]
  BY <1>1, <1>2
<1>3. ASSUME NEW f \in Entry, log'[n] = Append(log[n], f)
      PROVE  /\ Len(log[n]) \in Nat /\ Len(log'[n]) = Len(log[n]) + 1
             /\ \A i \in 0..Len(log[n]) : TermAt(log'[n], i) = TermAt(log[n], i)
  <2> DEFINE lg == log[n]
             new == log'[n]
  <2>1. lg \in Seq(Entry) /\ new = Append(lg, f)
    BY <1>1, <1>3
  <2> HIDE DEF lg, new
  <2>2. /\ Len(lg) \in Nat /\ Len(new) = Len(lg) + 1 /\ DOMAIN lg = 1..Len(lg)
        /\ \A i \in DOMAIN lg : i \in DOMAIN new /\ new[i] = lg[i]
    BY <2>1, TermOfLog
  <2>3. \A i \in 0..Len(lg) : TermAt(new, i) = TermAt(lg, i)
    BY <2>2 DEF TermAt, NO_INDEX
  <2> QED
    BY <2>2, <2>3 DEF lg, new
<1> QED
  BY <1>1, <1>2, <1>3 DEF Extends

LEMMA RootedIsKept ==
    ASSUME TypeOK, TypeOK', VoteInv, VoteInv', NEW n \in Server, Step(n), ClaimStep(n),
           LogStep(n), NEW j \in Nat, NEW b \in Nat, Rooted(j, b)
    PROVE  Rooted(j, b)'
<1>1. CASE j = 0
  BY <1>1 DEF Rooted
<1>2. CASE j # 0
  <2>1. PICK p \in Server : Authored(p, b)
    BY <1>2 DEF Rooted
  <2>2. Authored(p, b)'
    BY <2>1, AuthoredIsKept
  <2>3. ASSUME NEW k \in Server, role'[k] = "Leader", term'[k] = b
        PROVE  j <= Len(log'[k])
    <3>1. CASE k # n
      <4>1. role[k] = role'[k] /\ term[k] = term'[k] /\ log'[k] = log[k]
        BY <3>1 DEF Step, Alone, ClaimStep, LogsAlone
      <4> QED
        BY <1>2, <2>3, <4>1 DEF Rooted
    <3>2. CASE k = n
      <4>1. /\ term[n] = b /\ Len(log[n]) \in Nat /\ Len(log'[n]) \in Nat
            /\ Len(log[n]) <= Len(log'[n])
        BY <2>3, <3>2, LeaderGrows
      <4>2. j <= Len(log[n])
        BY <1>2, <2>3, <3>2, <4>1, RootIsBelow
      <4> QED
        BY <3>2, <4>1, <4>2
    <3> QED
      BY <3>1, <3>2
  <2> QED
    BY <2>2, <2>3 DEF Rooted
<1> QED
  BY <1>1, <1>2

LEMMA SameSequence ==
    ASSUME NEW lg \in Seq(Entry), NEW new \in Seq(Entry), Len(lg) = Len(new),
           Same(lg, new, Len(lg))
    PROVE  lg = new
BY DEF Same

(* A step makes at most one new line: the leader's, with the fresh entry.  *)
LEMMA CoherentOrFresh ==
    ASSUME TypeOK, TypeOK', VoteInv, VoteInv', MatchInv, MatchInv', Roots, NEW n \in Server,
           Step(n), ClaimStep(n), LogStep(n), NEW lg \in Seq(Entry), Coherent(lg)'
    PROVE  \/ Coherent(lg)
           \/ role'[n] = "Leader" /\ lg = log'[n] /\ Extends(n)
<1> SUFFICES ASSUME NEW j \in DOMAIN lg, ~Known(j, lg[j], TermAt(lg, j - 1))
             PROVE  role'[n] = "Leader" /\ lg = log'[n] /\ Extends(n)
  BY DEF Coherent
<1>1. /\ j \in Index /\ j \in Nat /\ j # 0 /\ j - 1 \in 0..Len(lg) /\ Len(lg) \in Nat
      /\ j <= Len(lg)
  BY DEF Index
<1>2. lg[j] \in Entry /\ TermAt(lg, j - 1) \in Nat
  BY <1>1, EntryTerm, TermAtType
<1>3. Known(j, lg[j], TermAt(lg, j - 1))'
  BY DEF Coherent
<1>4. /\ role'[n] = "Leader" /\ Fresh(n, j, lg[j])
      /\ Holds(log'[n], j, lg[j], TermAt(lg, j - 1))
  <2>1. PICK e \in Entry, b \in Nat : e = lg[j] /\ b = TermAt(lg, j - 1)
    BY <1>2
  <2>2. Known(j, e, b)'
    BY <1>3, <2>1
  <2>3. Known(j, e, b) \/ (role'[n] = "Leader" /\ Fresh(n, j, e) /\ Holds(log'[n], j, e, b))
    BY <1>1, <2>2, KnownOrFresh
  <2> QED
    BY <2>1, <2>3
<1>5. /\ j = Len(log[n]) + 1 /\ lg[j].term = term[n] /\ log'[n] = Append(log[n], lg[j])
      /\ j \in DOMAIN log'[n] /\ log'[n][j] = lg[j]
  BY <1>4 DEF Fresh, Holds
<1>6. log[n] \in Seq(Entry) /\ log'[n] \in Seq(Entry) /\ Len(log'[n]) = j
  BY <1>2, <1>5, LogTypes
<1>7. PICK new \in Seq(Entry) : new = log'[n]
  BY <1>6
<1>8. Same(lg, new, j)
  <2>1. Coherent(new)'
    BY <1>7, LogsAreCoherentNext DEF IsLog
  <2>2. TermAt(lg, j) = TermAt(new, j)
    BY <1>1, <1>5, <1>7 DEF TermAt, NO_INDEX
  <2> QED
    BY <2>1, <2>2, CoherentAgreeNext DEF MatchInv
<1>9. Len(lg) = j
  <2> SUFFICES ASSUME Len(lg) # j
               PROVE  FALSE
    OBVIOUS
  <2>1. j + 1 \in DOMAIN lg /\ j + 1 \in Index /\ (j + 1) - 1 = j /\ j + 1 # j
    BY <1>1 DEF Index
  <2>2. PICK e \in Entry, b \in Nat : e = lg[j + 1] /\ b = term[n]
    BY <2>1, EntryTerm DEF TypeOK
  <2>3. TermAt(lg, (j + 1) - 1) = b
    BY <1>1, <1>5, <2>1, <2>2 DEF TermAt, NO_INDEX
  <2>4. Known(j + 1, e, b)'
    BY <2>1, <2>2, <2>3 DEF Coherent
  <2>5. Known(j + 1, e, b)
    <3>1. Known(j + 1, e, b) \/ Fresh(n, j + 1, e)
      BY <2>1, <2>4, KnownOrFresh
    <3> QED
      BY <1>5, <2>1, <3>1 DEF Fresh
  <2>6. Rooted(j, term[n])
    BY <2>1, <2>2, <2>5 DEF Roots
  <2>7. j <= Len(log[n])
    BY <1>1, <1>4, <2>6, RootIsBelow
  <2> QED
    BY <1>5, <1>6, <2>7
<1>10. lg = new
  BY <1>6, <1>7, <1>8, <1>9, SameSequence
<1> QED
  BY <1>2, <1>4, <1>5, <1>7, <1>10 DEF Extends

-----------------------------------------------------------------------------
(* The invariant is kept. *)

LEMMA AppendTypes ==
    ASSUME NEW m \in Message, IsAppend(m)
    PROVE  /\ m.from \in Server /\ m.term \in Nat /\ m.prev \in Nat /\ m.prevTerm \in Nat
           /\ m.entries \in Seq(Entry) /\ m.commit \in Nat
           /\ Last(m) \in Nat /\ TailTerm(m) \in Nat
<1>1. /\ m.from \in Server /\ m.term \in Nat /\ m.prev \in Nat /\ m.prevTerm \in Nat
      /\ m.entries \in Seq(Entry) /\ m.commit \in Nat
  <2>1. m \in AppendMsgs
    BY MessageTypes DEF IsAppend
  <2> QED
    BY <2>1 DEF AppendMsgs
<1> DEFINE es == m.entries
<1>2. es \in Seq(Entry)
  BY <1>1
<1> HIDE DEF es
<1>3. es # <<>> => Len(es) \in DOMAIN es
  BY <1>2
<1>4. es # <<>> => es[Len(es)].term \in Nat
  BY <1>2, <1>3, EntryTerm
<1>5. Len(es) \in Nat
  BY <1>2
<1> QED
  BY <1>1, <1>4, <1>5 DEF Last, TailTerm, es

(* What a log has at an index is rooted there. *)
LEMMA LogIsRooted ==
    TypeOK /\ MatchInv => \A lg : IsLog(lg) => \A i \in 0..Len(lg) : Rooted(i, TermAt(lg, i))
<1> SUFFICES ASSUME TypeOK, MatchInv, NEW lg, IsLog(lg), NEW i \in 0..Len(lg)
             PROVE  Rooted(i, TermAt(lg, i))
  OBVIOUS
<1>1. lg \in Seq(Entry) /\ Coherent(lg)
  BY LogsAreCoherent
<1>2. CASE i = 0
  BY <1>2 DEF Rooted
<1>3. CASE i # 0
  <2>1. i \in DOMAIN lg /\ i \in Index /\ i - 1 \in 0..Len(lg)
    BY <1>1, <1>3 DEF Index
  <2>2. lg[i] \in Entry /\ TermAt(lg, i - 1) \in Nat /\ TermAt(lg, i) = lg[i].term
    BY <1>1, <1>3, <2>1, EntryTerm, TermAtType DEF TermAt, NO_INDEX
  <2>3. Known(i, lg[i], TermAt(lg, i - 1))
    BY <1>1, <2>1 DEF Coherent
  <2> QED
    BY <2>1, <2>2, <2>3, KnownIsRooted
<1> QED
  BY <1>2, <1>3

LEMMA LogIsRootedNext ==
    TypeOK' /\ MatchInv' => \A lg : IsLog(lg)' => \A i \in 0..Len(lg) : Rooted(i, TermAt(lg, i))'
<1>1. TypeOK' /\ MatchInv' =>
        (\A lg : IsLog(lg) => \A i \in 0..Len(lg) : Rooted(i, TermAt(lg, i)))'
  BY LogIsRooted, PTL
<1> QED
  BY <1>1

LEMMA FreshBase ==
    ASSUME TypeOK, NEW n \in Server, LogStep(n), role'[n] = "Leader", NEW i \in Index,
           NEW e, NEW b, Fresh(n, i, e), Holds(log'[n], i, e, b)
    PROVE  /\ b = LastTerm(log[n]) /\ i - 1 = Len(log[n]) /\ e.term = term[n]
           /\ Len(log[n]) \in Nat /\ term'[n] = term[n]
<1>1. i - 1 = Len(log[n]) /\ Len(log[n]) \in Nat /\ e.term = term[n]
  BY LeaderGrows DEF Fresh, Index
<1>2. TermAt(log'[n], Len(log[n])) = LastTerm(log[n])
  BY <1>1, LeaderGrows DEF LastTerm
<1> QED
  BY <1>1, <1>2, LeaderGrows DEF Holds

LEMMA OrderIsKept ==
    ASSUME TypeOK, TypeOK', Ordered, Tips, NEW n \in Server, Step(n), ClaimStep(n), LogStep(n)
    PROVE  Ordered'
<1> SUFFICES ASSUME NEW i \in Index, NEW e \in Entry, NEW b \in Nat, Known(i, e, b)'
             PROVE  b <= e.term
  BY DEF Ordered
<1>1. CASE Known(i, e, b)
  BY <1>1 DEF Ordered
<1>2. CASE role'[n] = "Leader" /\ Fresh(n, i, e) /\ Holds(log'[n], i, e, b)
  BY <1>2, FreshBase DEF Tips
<1> QED
  BY <1>1, <1>2, KnownOrFresh

LEMMA RootsAreKept ==
    ASSUME TypeOK, TypeOK', VoteInv, VoteInv', MatchInv, Roots, NEW n \in Server,
           Step(n), ClaimStep(n), LogStep(n)
    PROVE  Roots'
<1> SUFFICES ASSUME NEW i \in Index, NEW e \in Entry, NEW b \in Nat, Known(i, e, b)'
             PROVE  Rooted(i - 1, b)'
  BY DEF Roots
<1>0. PICK j \in Nat : j = i - 1
  BY DEF Index
<1>1. Rooted(j, b)
  <2>1. CASE Known(i, e, b)
    BY <1>0, <2>1 DEF Roots
  <2>2. CASE role'[n] = "Leader" /\ Fresh(n, i, e) /\ Holds(log'[n], i, e, b)
    <3>1. b = LastTerm(log[n]) /\ i - 1 = Len(log[n])
      BY <2>2, FreshBase
    <3>2. b = TermAt(log[n], j) /\ j \in 0..Len(log[n])
      BY <1>0, <3>1 DEF LastTerm
    <3> QED
      BY <3>2, LogIsRooted DEF IsLog
  <2> QED
    BY <2>1, <2>2, KnownOrFresh
<1>2. Rooted(j, b)'
  BY <1>1, RootedIsKept
<1> QED
  BY <1>0, <1>2

LEMMA TipsAreKept ==
    ASSUME TypeOK, TypeOK', Tips, Appended, NEW n \in Server, Step(n), ClaimStep(n),
           LogStep(n), LineStep(n)
    PROVE  Tips'
<1> SUFFICES ASSUME NEW p \in Server
             PROVE  /\ LastTerm(log'[p]) <= term'[p]
                    /\ role'[p] = "Leader" =>
                         Len(log'[p]) > 0 /\ LastTerm(log'[p]) = term'[p]
  BY DEF Tips
<1>1. CASE p # n
  <2>1. role'[p] = role[p] /\ term'[p] = term[p] /\ log'[p] = log[p]
    BY <1>1 DEF Step, Alone, ClaimStep, LogsAlone
  <2> QED
    BY <2>1 DEF Tips
<1>2. CASE p = n
  <2>1. /\ log[n] \in Seq(Entry) /\ log'[n] \in Seq(Entry) /\ term[n] \in Nat /\ term'[n] \in Nat
        /\ LastTerm(log[n]) \in Nat
    BY LastTermType DEF TypeOK
  <2>2. CASE Stays(n)
    <3>1. /\ LastTerm(log[n]) <= term[n] /\ term[n] <= term'[n]
          /\ role[n] = "Leader" => Len(log[n]) > 0 /\ LastTerm(log[n]) = term[n]
      BY <2>2 DEF Stays, Tips
    <3>2. LastTerm(log'[n]) <= term'[n]
      BY <2>1, <2>2, <3>1 DEF Stays
    <3>3. role'[n] = "Leader" => LastTerm(log'[n]) = term'[n] /\ Len(log'[n]) > 0
      BY <2>1, <2>2, <3>1, <3>2 DEF Stays, LogStep, LeadsOn
    <3> QED
      BY <1>2, <3>2, <3>3
  <2>3. CASE Adds(n)
    <3>1. PICK f \in Entry : f.term = term[n] /\ log'[n] = Append(log[n], f)
      BY <2>3 DEF Adds, Extends
    <3>2. PICK lg \in Seq(Entry), new \in Seq(Entry) : lg = log[n] /\ new = log'[n]
      BY <2>1
    <3>3. Len(new) = Len(lg) + 1 /\ Len(lg) \in Nat /\ new[Len(new)] = f /\ Len(new) \in DOMAIN new
      BY <3>1, <3>2, TermOfLog
    <3>4. LastTerm(new) = f.term /\ Len(new) > 0
      BY <3>3 DEF LastTerm, TermAt, NO_INDEX
    <3> QED
      BY <1>2, <2>1, <2>3, <3>1, <3>2, <3>4 DEF Adds
  <2>4. ASSUME NEW m \in msgs, Accepts(n, m)
        PROVE  LastTerm(log'[n]) <= term'[n] /\ role'[n] # "Leader"
    BY <2>4 DEF Accepts, Appended, Reaches, LastTerm
  <2>5. CASE Recovers(n)
    <3>1. PICK new \in Seq(Entry) : new = log'[n]
      BY <2>1
    <3>2. \A i \in DOMAIN new : new[i].term <= term'[n]
      BY <2>5, <3>1 DEF Recovers
    <3>3. Len(new) # 0 => Len(new) \in DOMAIN new
      OBVIOUS
    <3>4. LastTerm(new) <= term'[n]
      BY <2>1, <3>2, <3>3 DEF LastTerm, TermAt, NO_INDEX
    <3> QED
      BY <1>2, <2>5, <3>1, <3>4 DEF Recovers
  <2> QED
    BY <1>2, <2>2, <2>3, <2>4, <2>5 DEF LineStep, Moves
<1> QED
  BY <1>1, <1>2

LEMMA AppendedIsKept ==
    ASSUME TypeOK, TypeOK', VoteInv, VoteInv', MatchInv, MatchInv', Appended, Ordered', Tips',
           NEW n \in Server, Step(n), ClaimStep(n), LogStep(n), LineStep(n)
    PROVE  Appended'
<1> SUFFICES ASSUME NEW m \in msgs', IsAppend(m)
             PROVE  /\ Authored(m.from, m.term)'
                    /\ Rooted(Last(m), TailTerm(m))'
                    /\ TailTerm(m) <= m.term
                    /\ \A p \in Server : role'[p] = "Leader" /\ term'[p] = m.term
                         => Last(m) <= Len(log'[p]) /\ Reaches(log'[p], m)
  BY DEF Appended
<1>1. PICK k \in Server, t \in Nat, j \in Nat, b \in Nat :
        k = m.from /\ t = m.term /\ j = Last(m) /\ b = TailTerm(m)
  BY AppendTypes DEF TypeOK
<1>2. CASE m \in msgs
  <2>1. Authored(k, t) /\ Rooted(j, b) /\ b <= t
    BY <1>1, <1>2 DEF Appended
  <2>2. Authored(k, t)' /\ Rooted(j, b)'
    BY <2>1, AuthoredIsKept, RootedIsKept
  <2>3. ASSUME NEW p \in Server, role'[p] = "Leader", term'[p] = m.term
        PROVE  Last(m) <= Len(log'[p]) /\ Reaches(log'[p], m)
    <3>1. CASE p # n
      <4>1. role'[p] = role[p] /\ term'[p] = term[p] /\ log'[p] = log[p]
        BY <3>1 DEF Step, Alone, ClaimStep, LogsAlone
      <4> QED
        BY <1>2, <2>3, <4>1 DEF Appended
    <3>2. CASE p = n
      <4>1. role[n] = "Leader"
        <5>1. term[n] = t /\ role[n] \in {"Leader", "Candidate"}
          BY <1>1, <2>3, <3>2 DEF LogStep, LeadsOn
        <5> QED
          BY <2>1, <2>3, <3>2, <5>1, CandidateIsFirst
      <4>2. term[n] = m.term
        BY <2>3, <3>2, LeaderGrows
      <4>3. Last(m) <= Len(log[n]) /\ Reaches(log[n], m)
        BY <1>2, <4>1, <4>2 DEF Appended
      <4>4. Last(m) \in 0..Len(log[n]) /\ Len(log[n]) <= Len(log'[n]) /\ Len(log[n]) \in Nat
            /\ Len(log'[n]) \in Nat
        BY <1>1, <2>3, <3>2, <4>3, LeaderGrows
      <4>5. TermAt(log'[n], Last(m)) = TermAt(log[n], Last(m))
        BY <2>3, <3>2, <4>4, LeaderGrows
      <4> QED
        BY <1>1, <3>2, <4>3, <4>4, <4>5 DEF Reaches
    <3> QED
      BY <3>1, <3>2
  <2> QED
    BY <1>1, <2>1, <2>2, <2>3
<1>3. CASE m \notin msgs
  <2>1. /\ role'[n] = "Leader" /\ k = n /\ t = term'[n]
        /\ j <= Len(log'[n]) /\ b = TermAt(log'[n], j)
    BY <1>1, <1>3 DEF LineStep, Says, Sayable, Reaches, Step, Speaks
  <2>2. PICK new \in Seq(Entry) : new = log'[n]
    BY DEF TypeOK
  <2>3. IsLog(new)' /\ j \in 0..Len(new) /\ b = TermAt(new, j)
    BY <2>1, <2>2 DEF IsLog
  <2>4. Authored(k, t)'
    <3>1. Authored(n, term[n])'
      BY <2>1, LeaderIsAuthorNext DEF MatchInv
    <3> QED
      BY <2>1, <3>1 DEF Authored, Bound
  <2>5. Rooted(j, b)'
    <3>1. \A i \in 0..Len(new) : Rooted(i, TermAt(new, i))'
      BY <2>3, LogIsRootedNext
    <3> QED
      BY <2>3, <3>1 DEF Rooted
  <2>6. b <= t
    <3>1. LastTerm(new) = t /\ Coherent(new)'
      BY <2>1, <2>2, <2>3, LogsAreCoherentNext DEF Tips
    <3>2. CASE j = 0
      BY <2>3, <3>2 DEF TermAt, NO_INDEX
    <3>3. CASE j # 0
      <4>1. Len(new) \in DOMAIN new /\ j \in 1..Len(new) /\ j \in DOMAIN new /\ Len(new) # 0
        BY <2>3, <3>3
      <4>2. new[j].term <= new[Len(new)].term
        BY <3>1, <4>1, CoherentOrderNext
      <4> QED
        BY <2>3, <3>1, <3>3, <4>1, <4>2 DEF LastTerm, TermAt, NO_INDEX
    <3> QED
      BY <3>2, <3>3
  <2>7. ASSUME NEW p \in Server, role'[p] = "Leader", term'[p] = m.term
        PROVE  p = n
    <3>1. ElectionSafety'
      <4>1. TypeOK' /\ VoteInv' => ElectionSafety'
        BY ElectionSafetyFollows, PTL
      <4> QED
        BY <4>1
    <3>2. n \in LeadersOf(t)' /\ p \in LeadersOf(t)' /\ t \in {term'[q] : q \in Server}
      BY <1>1, <2>1, <2>7 DEF LeadersOf
    <3> QED
      BY <3>1, <3>2 DEF ElectionSafety
  <2> QED
    BY <1>1, <2>1, <2>4, <2>5, <2>6, <2>7 DEF Reaches
<1> QED
  BY <1>2, <1>3

LEMMA RequestsAreKept ==
    ASSUME TypeOK, TypeOK', VoteInv, Requests, NEW n \in Server, Step(n), ClaimStep(n),
           LogStep(n), LineStep(n)
    PROVE  Requests'
<1> SUFFICES ASSUME NEW m \in msgs', m.type = "RequestVote", role'[m.from] = "Candidate",
                    term'[m.from] = m.term
             PROVE  m.lastIndex = Len(log'[m.from]) /\ m.lastTerm = LastTerm(log'[m.from])
  BY DEF Requests
<1>1. m.from \in Server /\ m.term \in Nat
  BY MessageTypes DEF TypeOK
<1>2. CASE m \in msgs /\ m.from # n
  <2>1. role'[m.from] = role[m.from] /\ term'[m.from] = term[m.from] /\ log'[m.from] = log[m.from]
    BY <1>1, <1>2 DEF Step, Alone, ClaimStep, LogsAlone
  <2> QED
    BY <1>2, <2>1 DEF Requests
<1>3. CASE m \in msgs /\ m.from = n
  <2>1. log'[n] = log[n] /\ Stands(n)
    BY <1>3 DEF LineStep, LogStep
  <2>2. ~(term'[n] > term[n])
    <3>1. /\ Hard(n) \in HardState /\ disk[n].hard \in HardState /\ Hard(n).term = term[n]
          /\ disk[n].hard.term \in Nat /\ term[n] \in Nat
      BY HardTypes DEF HardTyped, HardState
    <3>2. m.term <= disk[n].hard.term /\ disk[n].hard.term <= term[n]
      BY <1>3, <3>1, LeTerm DEF VoteInv, Spoken, Chain
    <3> QED
      BY <1>1, <1>3, <3>1, <3>2
  <2> QED
    BY <1>3, <2>1, <2>2 DEF Stands, Requests
<1>4. CASE m \notin msgs
  BY <1>4 DEF LineStep, Says, Sayable, Step, Speaks
<1> QED
  BY <1>2, <1>3, <1>4

LEMMA AckIsKept ==
    ASSUME NEW n \in Server, Step(n), NEW v, NEW t, NEW i, Ack(v, t, i)
    PROVE  Ack(v, t, i)'
BY DEF Ack, Step, Speaks

LEMMA OwedToday ==
    ASSUME TypeOK, TypeOK', NEW n \in Server, Step(n), ClaimStep(n), LineStep(n),
           NEW v \in Server, NEW t \in Nat, NEW i \in Index, Owed(v, t, i)'
    PROVE  \/ Owed(v, t, i) /\ term[v] <= term'[v]
           \/ v = n /\ Vouched(n, t, i)
<1>1. CASE v # n
  <2>1. batches'[v] = batches[v] /\ term'[v] = term[v] /\ Queued(v)' = Queued(v)
    BY <1>1 DEF Step, Alone, Queued
  <2>2. Owed(v, t, i) /\ term[v] \in Nat
    BY <2>1 DEF Owed, TypeOK
  <2> QED
    BY <2>1, <2>2
<1>2. CASE v = n
  <2>1. Owed(n, t, i) \/ Vouched(n, t, i)
    BY <1>2 DEF LineStep, Promises
  <2>2. ~Recovers(n)
    <3> SUFFICES ASSUME Recovers(n)
                 PROVE  FALSE
      OBVIOUS
    <3>1. batches'[n] = <<>>
      BY DEF Recovers, Reboots
    <3>2. Queued(n)' = {}
      BY <3>1 DEF Queued
    <3> QED
      BY <1>2, <3>2 DEF Owed
  <2>3. term[n] \in Nat
    BY DEF TypeOK
  <2>4. term[n] <= term'[n]
    BY <2>2, <2>3 DEF LineStep, Moves, Stays, Adds, Accepts
  <2> QED
    BY <1>2, <2>1, <2>4
<1> QED
  BY <1>1, <1>2

LEMMA AckToday ==
    ASSUME TypeOK', NEW n \in Server, Step(n), LineStep(n), NEW v, NEW t, NEW i \in Index,
           Ack(v, t, i)'
    PROVE  \/ Ack(v, t, i)
           \/ v = n /\ i <= durableIndex'[n] /\ (Owed(n, t, i) \/ Vouched(n, t, i))
<1>1. PICK m \in msgs' : IsAck(m) /\ m.from = v /\ m.term = t /\ i <= m.match
  BY DEF Ack
<1>2. CASE m \in msgs
  BY <1>1, <1>2 DEF Ack
<1>3. CASE m \notin msgs
  <2>1. /\ v = n /\ m.match <= durableIndex'[n]
        /\ Owed(n, t, i) \/ Vouched(n, t, i)
    BY <1>1, <1>3 DEF LineStep, Says, Sayable, Step, Speaks
  <2>2. m.match \in Nat /\ durableIndex'[n] \in Nat
    <3>1. m \in AppendRespMsgs
      BY <1>1, MessageTypes DEF TypeOK, IsAck
    <3> QED
      BY <3>1 DEF AppendRespMsgs, TypeOK
  <2> QED
    BY <1>1, <2>1, <2>2 DEF Index
<1> QED
  BY <1>2, <1>3

LEMMA AnsweredIsKept ==
    ASSUME TypeOK, TypeOK', Answered, NEW n \in Server, Step(n), ClaimStep(n), LineStep(n)
    PROVE  Answered'
<1> SUFFICES ASSUME NEW v \in Server, NEW t \in Nat, NEW i \in Index
             PROVE  /\ Ack(v, t, i)' \/ Owed(v, t, i)' => AppendFor(t, i)'
                    /\ Owed(v, t, i)' => t <= term'[v]
  BY DEF Answered
<1>1. Ack(v, t, i) \/ Owed(v, t, i) \/ Vouched(n, t, i) => AppendFor(t, i)'
  BY DEF Answered, AppendFor, Vouched, Step, Speaks
<1>2. Owed(v, t, i)' => t <= term'[v]
  <2>1. term[v] \in Nat /\ term'[v] \in Nat
    BY DEF TypeOK
  <2>2. Owed(v, t, i) => t <= term[v]
    BY DEF Answered
  <2>3. v = n /\ Vouched(n, t, i) => t <= term'[v]
    BY <2>1 DEF Vouched
  <2> QED
    BY <2>1, <2>2, <2>3, OwedToday
<1> QED
  BY <1>1, <1>2, OwedToday, AckToday

LEMMA CountsAreKept ==
    ASSUME TypeOK, TypeOK', Counts, NEW n \in Server, Step(n), LogStep(n), LineStep(n)
    PROVE  Counts'
<1> SUFFICES ASSUME NEW l \in Server, NEW p \in Server, role'[l] = "Leader", NEW i \in Index,
                    i <= matchIndex'[l][p]
             PROVE  Ack(p, term[l], i)'
  BY DEF Counts
<1>0. PICK t \in Nat : t = term'[l]
  BY DEF TypeOK
<1>1. Ack(p, t, i)
  <2>1. CASE l # n
    <3>1. role'[l] = role[l] /\ term'[l] = term[l] /\ matchIndex'[l] = matchIndex[l]
      BY <2>1 DEF Step, Alone, LineStep, Hears
    <3> QED
      BY <1>0, <3>1 DEF Counts
  <2>2. CASE l = n
    <3>1. term[n] = t
      BY <1>0, <2>2 DEF LogStep, LeadsOn
    <3> QED
      BY <2>2, <3>1 DEF LineStep, Hears, Counts
  <2> QED
    BY <2>1, <2>2
<1>2. Ack(p, t, i)'
  BY <1>1, AckIsKept
<1> QED
  BY <1>0, <1>2 DEF Ack

LEMMA LineIsKept ==
    ASSUME TypeOK, TypeOK', VoteInv, VoteInv', MatchInv, MatchInv', LineInv, NEW n \in Server,
           Step(n), ClaimStep(n), LogStep(n), LineStep(n)
    PROVE  LineInv'
<1>1. /\ Ordered /\ Roots /\ Tips /\ Appended /\ Requests /\ Answered /\ Counts
      /\ \A p \in Server : Refuses(p)
  BY DEF LineInv
<1>2. Ordered' /\ Roots' /\ Tips'
  BY <1>1, OrderIsKept, RootsAreKept, TipsAreKept
<1>3. Appended' /\ Requests' /\ Answered' /\ Counts'
  BY <1>1, <1>2, AppendedIsKept, RequestsAreKept, AnsweredIsKept, CountsAreKept
<1>4. ASSUME NEW p \in Server
      PROVE  Refuses(p)'
  <2>1. CASE p = n
    BY <2>1 DEF LineStep, Promises
  <2>2. CASE p # n
    <3>1. batches'[p] = batches[p] /\ Queued(p)' = Queued(p) /\ Refuses(p)
      BY <1>1, <2>2 DEF Step, Alone, Queued
    <3> QED
      BY <3>1 DEF Refuses
  <2> QED
    BY <2>1, <2>2
<1> QED
  BY <1>2, <1>3, <1>4 DEF LineInv

-----------------------------------------------------------------------------
(* The steps: what waits in the queue. *)

SameAct(a, b) ==
    /\ a.kind = b.kind
    /\ a.kind = "Reply" => a.msg = b.msg
    /\ a.kind = "LogDurable" =>
         a.replyTo = b.replyTo /\ a.replyTerm = b.replyTerm /\ a.verified = b.verified

(* Every act that waits has waited before, but for its range, or is new. *)
Recalls(n, new) == \A j \in Queued(n)' :
    \/ batches'[n][j].act \in new
    \/ \E l \in Queued(n) : SameAct(batches'[n][j].act, batches[n][l].act)

LEMMA RecallsPromises ==
    ASSUME NEW n \in Server, NEW new, Recalls(n, new), Refuses(n),
           \A a \in new :
              /\ \A t \in Nat : \A i \in Index : Owes(a, t, i) => Vouched(n, t, i)
              /\ \A k \in Server : \A t \in Nat : VoteWaits(n, k, t, a) => Backs(n, k, t)
              /\ a.kind = "Reply" => ~IsAck(a.msg)
    PROVE  Promises(n)
<1>1. ASSUME NEW t \in Nat, NEW i \in Index, NEW j \in Queued(n)', Owes(batches'[n][j].act, t, i)
      PROVE  Owed(n, t, i) \/ Vouched(n, t, i)
  BY <1>1 DEF Recalls, SameAct, Owes, Owed
<1>2. ASSUME NEW k \in Server, NEW t \in Nat, NEW j \in Queued(n)',
             VoteWaits(n, k, t, batches'[n][j].act)
      PROVE  VoteOwed(n, k, t) \/ Backs(n, k, t)
  BY <1>2 DEF Recalls, SameAct, VoteWaits, VoteOwed
<1>3. ASSUME NEW j \in Queued(n)', batches'[n][j].act.kind = "Reply"
      PROVE  ~IsAck(batches'[n][j].act.msg)
  BY <1>3 DEF Recalls, SameAct, Refuses
<1> QED
  BY <1>1, <1>2, <1>3 DEF Promises, Owed, VoteOwed, Refuses

(* An act that owes nobody anything. *)
Idle(a) == a.kind \notin {"Reply", "LogDurable"} \/ (a.kind = "LogDurable" /\ a.replyTo = None)

LEMMA IdlePromises ==
    ASSUME NEW n \in Server, NEW new, Recalls(n, new), Refuses(n), \A a \in new : Idle(a)
    PROVE  Promises(n)
<1>1. \A a \in new :
        /\ \A t, i : ~Owes(a, t, i)
        /\ \A k, t : ~VoteWaits(n, k, t, a)
        /\ a.kind # "Reply"
  BY DEF Idle, Owes, VoteWaits
<1> QED
  BY <1>1, RecallsPromises

LEMMA IdleActs ==
    /\ \A t : Idle(Campaign(t))
    /\ Idle(Quiet)
    /\ \A f, i, v, t : Idle(LogDurable(f, i, v, None, t))
BY DEF Idle, Campaign, Quiet, LogDurable

LEMMA SameQueueRecalls ==
    ASSUME NEW n \in Server, UNCHANGED batches
    PROVE  Recalls(n, {})
BY DEF Recalls, Queued, SameAct

LEMMA IssueRecalls ==
    ASSUME TypeOK, NEW n \in Server, NEW queue \in Seq(Batch), NEW act, NEW wh, NEW from,
           Issue(n, queue, act, wh, from),
           \A j \in 1..Len(queue) : \E l \in Queued(n) : SameAct(queue[j].act, batches[n][l].act)
    PROVE  Recalls(n, {act})
<1> DEFINE b == NewBatch(n, act, wh, from)
<1>1. batches'[n] = Append(queue, b)
  BY DEF Issue, TypeOK
<1>2. b.act = act
  BY DEF NewBatch
<1> HIDE DEF b
<1>3. /\ Len(batches'[n]) = Len(queue) + 1 /\ Len(queue) \in Nat
      /\ batches'[n][Len(queue) + 1] = b
      /\ \A j \in 1..Len(queue) : batches'[n][j] = queue[j]
  BY <1>1
<1>4. \A j \in Queued(n)' : j \in 1..Len(queue) \/ j = Len(queue) + 1
  BY <1>3 DEF Queued
<1> QED
  BY <1>2, <1>3, <1>4 DEF Recalls

LEMMA IssueToQueue ==
    ASSUME TypeOK, NEW n \in Server, NEW act, NEW wh, NEW from,
           Issue(n, batches[n], act, wh, from)
    PROVE  Recalls(n, {act})
<1>1. batches[n] \in Seq(Batch)
  BY DEF TypeOK
<1>2. \A j \in 1..Len(batches[n]) : j \in Queued(n) /\ SameAct(batches[n][j].act, batches[n][j].act)
  BY DEF SameAct, Queued
<1> QED
  BY <1>1, <1>2, IssueRecalls

LEMMA WithoutRecalls ==
    ASSUME TypeOK, NEW n \in Server, NEW k \in Queued(n)
    PROVE  /\ QueueWithout(batches[n], k) \in Seq(Batch)
           /\ \A j \in 1..Len(QueueWithout(batches[n], k)) : \E l \in Queued(n) :
                SameAct(QueueWithout(batches[n], k)[j].act, batches[n][l].act)
<1> DEFINE q == batches[n]
           r == QueueWithout(q, k)
<1>1. q \in Seq(Batch) /\ k \in 1..Len(q) /\ Queued(n) = 1..Len(q)
  BY DEF TypeOK, Queued
<1> HIDE DEF q
<1>2. /\ r \in Seq(Batch) /\ Len(r) = Len(q) - 1
      /\ \A i \in 1..(Len(q) - 1) : Source(k, i) \in 1..Len(q) /\ r[i].act = q[Source(k, i)].act
  BY <1>1, QueueWithoutKeeps
<1> HIDE DEF r
<1>3. \A j \in 1..Len(r) : \E l \in Queued(n) : SameAct(r[j].act, q[l].act)
  BY <1>1, <1>2 DEF SameAct
<1> QED
  BY <1>2, <1>3 DEF q, r

LEMMA SyncRecalls ==
    ASSUME TypeOK, NEW n \in Server, NEW k \in Queued(n),
           batches' = [batches EXCEPT ![n] = QueueWithout(batches[n], k)]
    PROVE  Recalls(n, {})
<1>1. batches'[n] = QueueWithout(batches[n], k)
  BY DEF TypeOK
<1> QED
  BY <1>1, WithoutRecalls DEF Recalls, Queued

LEMMA ClampRecalls ==
    ASSUME TypeOK, NEW n \in Server, NEW cap \in Nat
    PROVE  /\ ClampAll(batches[n], cap) \in Seq(Batch)
           /\ \A j \in 1..Len(ClampAll(batches[n], cap)) : \E l \in Queued(n) :
                SameAct(ClampAll(batches[n], cap)[j].act, batches[n][l].act)
<1> DEFINE q == batches[n]
           r == ClampAll(q, cap)
<1>1. q \in Seq(Batch) /\ Queued(n) = 1..Len(q) /\ Len(q) \in Nat
  BY DEF TypeOK, Queued
<1> HIDE DEF q
<1>2. r \in Seq(Batch) /\ r = [i \in 1..Len(q) |-> Clamp(q[i], cap)]
  BY <1>1, ClampAllType DEF ClampAll
<1> HIDE DEF r
<1>3. Len(r) = Len(q) /\ \A i \in 1..Len(q) : r[i] = Clamp(q[i], cap) /\ q[i] \in Batch
  BY <1>1, <1>2
<1>4. ASSUME NEW b \in Batch
      PROVE  SameAct(Clamp(b, cap).act, b.act)
  <2>1. CASE b.act.kind = "LogDurable"
    <3>1. Clamp(b, cap) = [b EXCEPT !.act = [b.act EXCEPT !.index = MinOf(b.act.index, cap)]]
      BY <2>1 DEF Clamp
    <3>2. b.act \in [kind : {"LogDurable"}, from : Nat, index : Nat, verified : Nat,
                     replyTo : Server \cup {None}, replyTerm : Nat]
      BY <2>1, ActTypes DEF Batch
    <3>3. ASSUME NEW a
          PROVE  [b EXCEPT !.act = a].act = a
      BY DEF Batch
    <3>4. SameAct([b.act EXCEPT !.index = MinOf(b.act.index, cap)], b.act)
      BY <3>2 DEF SameAct
    <3> QED
      BY <3>1, <3>3, <3>4
  <2>2. CASE b.act.kind # "LogDurable"
    BY <2>2 DEF Clamp, SameAct
  <2> QED
    BY <2>1, <2>2
<1>5. \A j \in 1..Len(r) : j \in Queued(n) /\ SameAct(r[j].act, q[j].act)
  BY <1>1, <1>3, <1>4
<1> QED
  BY <1>2, <1>5 DEF q, r

-----------------------------------------------------------------------------
(* The steps: what is said. *)

LEMMA SendSays ==
    ASSUME NEW n \in Server, NEW ms, Send(n, ms), \A m \in ms : Sayable(n, m)
    PROVE  Says(n)
BY DEF Send, Says

LEMMA SilentSays ==
    ASSUME NEW n \in Server, UNCHANGED msgs
    PROVE  Says(n)
BY DEF Says

Dull(m) == ~IsAck(m) /\ ~IsGrant(m) /\ m.type \notin {"RequestVote", "AppendEntries"}

LEMMA DullSays ==
    ASSUME NEW n, NEW m, Dull(m)
    PROVE  Sayable(n, m)
BY DEF Dull, Sayable, IsAppend

LEMMA DullAnswers ==
    ASSUME NEW n, NEW p, NEW t, NEW a, NEW b, NEW c
    PROVE  /\ Dull(VoteResp(n, p, t, FALSE)) /\ Dull(PreVoteMsg(n, p))
           /\ Dull(PreVoteRespMsg(n, p, t, a)) /\ Dull(AppendResp(n, p, t, FALSE, b, c))
BY DEF Dull, IsAck, IsGrant, VoteResp, PreVoteMsg, RequestVoteMsg, PreVoteRespMsg, AppendResp

LEMMA SliceReaches ==
    ASSUME NEW n, NEW p, NEW lg \in Seq(Entry), NEW next \in Nat \ {0}, NEW commit,
           NEW m \in AppendTo(n, p, lg, next, commit)
    PROVE  /\ m.type = "AppendEntries" /\ m.term = term[n] /\ m.commit = commit
           /\ Last(m) <= Len(lg) /\ Reaches(lg, m)
<1> DEFINE last == IF next + MaxBatch - 1 < Len(lg) THEN next + MaxBatch - 1 ELSE Len(lg)
<1>1. /\ m.type = "AppendEntries" /\ m.term = term[n] /\ m.commit = commit
      /\ TermAt(lg, next - 1) # NoTerm
      /\ m.prev = next - 1 /\ m.prevTerm = TermAt(lg, next - 1)
      /\ m.entries = SubSeq(lg, next, last)
  BY DEF AppendTo, SliceFrom
<1>2. /\ Len(lg) \in Nat /\ MaxBatch \in Nat /\ MaxBatch >= 1 /\ last \in Int /\ last <= Len(lg)
      /\ next <= Len(lg) => next <= last
  BY ConfigAssumption
<1>3. next - 1 <= Len(lg)
  <2>1. next - 1 = 0 \/ next - 1 \in DOMAIN lg
    BY <1>1 DEF TermAt, NO_INDEX
  <2> QED
    BY <1>2, <2>1
<1> HIDE DEF last
<1> DEFINE es == m.entries
<1>4. CASE next <= Len(lg)
  <2>1. next <= last /\ es = SubSeq(lg, next, last)
    BY <1>1, <1>2, <1>4
  <2>2. Len(es) = last - next + 1 /\ Len(es) >= 1
    BY <1>2, <2>1
  <2>3. es[Len(es)] = lg[last] /\ es # <<>>
    BY <1>2, <2>1, <2>2
  <2>4. Last(m) = last
    BY <1>1, <1>2, <2>2 DEF Last
  <2>5. last \in DOMAIN lg /\ last # 0
    BY <1>2, <2>1
  <2> QED
    BY <1>1, <1>2, <2>3, <2>4, <2>5 DEF Reaches, TailTerm, TermAt, NO_INDEX
<1>5. CASE ~(next <= Len(lg))
  <2>1. es = <<>>
    <3>1. ~(next <= last)
      BY <1>2, <1>5
    <3> QED
      BY <1>1, <1>2, <3>1
  <2>2. Last(m) = next - 1
    BY <1>1, <2>1 DEF Last
  <2> QED
    BY <1>1, <1>3, <2>1, <2>2 DEF Reaches, TailTerm
<1> QED
  BY <1>4, <1>5

LEMMA AppendSays ==
    ASSUME TypeOK', NEW n \in Server, role'[n] = "Leader", term'[n] = term[n],
           NEW p, NEW next \in Nat \ {0}, NEW commit, commit <= commitIndex'[n],
           NEW m \in AppendTo(n, p, log'[n], next, commit)
    PROVE  Sayable(n, m)
<1>1. PICK new \in Seq(Entry) : new = log'[n]
  BY DEF TypeOK
<1>2. /\ m.type = "AppendEntries" /\ m.term = term[n] /\ m.commit = commit
      /\ Last(m) <= Len(new) /\ Reaches(new, m)
  BY <1>1, SliceReaches
<1> QED
  BY <1>1, <1>2 DEF Sayable, IsAppend, IsAck, IsGrant

LEMMA AppendsSay ==
    ASSUME TypeOK', NEW n \in Server, role'[n] = "Leader", term'[n] = term[n],
           NEW next \in [Server -> Nat \ {0}], NEW commit, commit <= commitIndex'[n],
           NEW m \in AppendToAll(n, log'[n], next, commit)
    PROVE  Sayable(n, m)
<1>1. PICK p \in Peers(n) : m \in AppendTo(n, p, log'[n], next[p], commit)
  BY DEF AppendToAll
<1>2. next[p] \in Nat \ {0}
  BY DEF Peers
<1> QED
  BY <1>1, <1>2, AppendSays

LEMMA StillHears ==
    ASSUME NEW n \in Server, UNCHANGED matchIndex, role'[n] = "Leader" => role[n] = "Leader"
    PROVE  Hears(n)
BY DEF Hears

(* The log, the claim and the counts stay as they are. *)
LEMMA StillMoves ==
    ASSUME TypeOK, NEW n \in Server, UNCHANGED <<log, durableIndex, matchIndex>>,
           term[n] <= term'[n], role'[n] = "Leader" => role[n] = "Leader",
           Promises(n), Says(n)
    PROVE  LineStep(n)
<1>1. durableIndex[n] <= durableIndex'[n]
  BY DEF TypeOK
<1>2. Stays(n)
  BY <1>1 DEF Stays
<1> QED
  BY <1>2, StillHears DEF LineStep, Moves

LEMMA QuietMoves ==
    ASSUME TypeOK, NEW n \in Server, Refuses(n),
           UNCHANGED <<log, durableIndex, matchIndex, term, batches>>,
           role'[n] = "Leader" => role[n] = "Leader", Says(n)
    PROVE  LineStep(n)
<1>1. term[n] <= term'[n]
  BY DEF TypeOK
<1>2. Promises(n)
  BY SameQueueRecalls, IdlePromises
<1> QED
  BY <1>1, <1>2, StillMoves

-----------------------------------------------------------------------------
(* The steps that leave the log alone. *)

LEMMA RefuseStaleLines ==
    ASSUME TypeOK, NEW n \in Server, Refuses(n), NEW m \in msgs, RefuseStale(n, m)
    PROVE  LineStep(n)
<1>1. UNCHANGED <<log, durableIndex, matchIndex, term, role, batches>>
  BY DEF RefuseStale, electionVars, logVars, leaderVars, durableVars
<1>2. \/ Send(n, {VoteResp(n, m.from, term[n], FALSE)})
      \/ Send(n, {AppendResp(n, m.from, term[n], FALSE, NO_INDEX, NO_INDEX)})
  BY DEF RefuseStale
<1>3. PICK a : Dull(a) /\ Send(n, {a})
  BY <1>2, DullAnswers
<1> QED
  BY <1>1, <1>3, DullSays, SendSays, QuietMoves

LEMMA HandlePreVoteLines ==
    ASSUME TypeOK, NEW n \in Server, Refuses(n), NEW m \in msgs, HandlePreVote(n, m)
    PROVE  LineStep(n)
<1>1. UNCHANGED <<log, durableIndex, matchIndex, term, role, batches>>
  BY DEF HandlePreVote, electionVars, logVars, leaderVars, durableVars
<1>2. \E g : Send(n, {PreVoteRespMsg(n, m.from, m.term, g)})
  BY DEF HandlePreVote
<1>3. PICK a : Dull(a) /\ Send(n, {a})
  BY <1>2, DullAnswers
<1> QED
  BY <1>1, <1>3, DullSays, SendSays, QuietMoves

LEMMA RepeatVoteAnswerLines ==
    ASSUME TypeOK, NEW n \in Server, Refuses(n), NEW m \in msgs, RepeatVoteAnswer(n, m)
    PROVE  LineStep(n)
<1>1. UNCHANGED <<log, durableIndex, matchIndex, term, role, batches>>
  BY DEF RepeatVoteAnswer, electionVars, logVars, leaderVars, durableVars
<1> DEFINE a == VoteResp(n, m.from, m.term, GrantsVote(n, m))
<1>2. Send(n, {a}) /\ m.type = "RequestVote" /\ m.term = term[n]
  BY DEF RepeatVoteAnswer, Received
<1>3. /\ a.type = "RequestVoteResp" /\ a.to = m.from /\ a.term = m.term
      /\ a.granted = GrantsVote(n, m)
  BY DEF VoteResp
<1> HIDE DEF a
<1>4. GrantsVote(n, m) => Backs(n, m.from, m.term)
  BY <1>1, <1>2 DEF GrantsVote, Backs
<1>5. Sayable(n, a)
  BY <1>3, <1>4 DEF Sayable, IsAck, IsGrant, IsAppend
<1> QED
  BY <1>1, <1>2, <1>5, SendSays, QuietMoves

LEMMA HeartbeatLines ==
    ASSUME TypeOK, TypeOK', NEW n \in Server, Refuses(n), Heartbeat(n)
    PROVE  LineStep(n)
<1>1. /\ UNCHANGED <<log, durableIndex, matchIndex, term, role, batches, commitIndex>>
      /\ role[n] = "Leader"
  BY DEF Heartbeat, electionVars, logVars, leaderVars, durableVars
<1> DEFINE ms == AppendToAll(n, log'[n], nextIndex[n], commitIndex[n])
<1>2. Send(n, ms)
  BY <1>1 DEF Heartbeat
<1>3. /\ nextIndex[n] \in [Server -> Nat \ {0}] /\ commitIndex[n] <= commitIndex'[n]
      /\ role'[n] = "Leader" /\ term'[n] = term[n]
  BY <1>1 DEF TypeOK
<1>4. \A m \in ms : Sayable(n, m)
  BY <1>3, AppendsSay
<1> HIDE DEF ms
<1> QED
  BY <1>1, <1>2, <1>4, SendSays, QuietMoves

LEMMA HandleAppendNackLines ==
    ASSUME TypeOK, TypeOK', NEW n \in Server, Refuses(n), NEW m \in msgs, HandleAppendNack(n, m)
    PROVE  LineStep(n)
<1> DEFINE next == MaxOf(1, MinOf(MaxOf(m.hint, 1), nextIndex[n][m.from] - 1))
           ms == AppendTo(n, m.from, log'[n], next, commitIndex[n])
<1>1. /\ UNCHANGED <<log, durableIndex, matchIndex, term, role, batches, commitIndex>>
      /\ role[n] = "Leader"
  BY DEF HandleAppendNack, electionVars, logVars, durableVars
<1>2. Send(n, ms) /\ m.type = "AppendEntriesResp"
  BY <1>1 DEF HandleAppendNack, Received
<1>3. next \in Nat \ {0}
  <2>1. m \in AppendRespMsgs
    BY <1>2, MessageTypes DEF TypeOK
  <2>2. m.from \in Server /\ m.hint \in Nat /\ nextIndex[n][m.from] \in Nat \ {0}
    BY <2>1 DEF AppendRespMsgs, TypeOK
  <2> QED
    BY <2>2 DEF MaxOf, MinOf
<1> HIDE DEF next
<1>4. /\ commitIndex[n] <= commitIndex'[n] /\ role'[n] = "Leader" /\ term'[n] = term[n]
  BY <1>1 DEF TypeOK
<1>5. \A o \in ms : Sayable(n, o)
  BY <1>3, <1>4, AppendSays
<1> HIDE DEF ms
<1> QED
  BY <1>1, <1>2, <1>5, SendSays, QuietMoves

LEMMA HandleAppendAckLines ==
    ASSUME TypeOK, TypeOK', NEW n \in Server, Refuses(n), NEW m \in msgs, HandleAppendAck(n, m)
    PROVE  LineStep(n)
<1> DEFINE held == MaxOf(matchIndex[n][m.from], m.match)
           ms == IF held < Len(log[n])
                 THEN AppendTo(n, m.from, log'[n], held + 1, commitIndex'[n]) ELSE {}
<1>1. /\ UNCHANGED <<log, durableIndex, term, role, batches>>
      /\ role[n] = "Leader" /\ m.term = term[n] /\ IsAck(m)
      /\ matchIndex' = [matchIndex EXCEPT ![n][m.from] = held]
  BY DEF HandleAppendAck, electionVars, durableVars, Received, IsAck
<1>2. Send(n, ms)
  BY <1>1 DEF HandleAppendAck
<1>3. m.from \in Server /\ m.match \in Nat /\ matchIndex[n][m.from] \in Nat
  <2>1. m \in AppendRespMsgs
    BY <1>1, MessageTypes DEF TypeOK, IsAck
  <2> QED
    BY <2>1 DEF AppendRespMsgs, TypeOK
<1>4. held + 1 \in Nat \ {0} /\ held \in {matchIndex[n][m.from], m.match}
  BY <1>3 DEF MaxOf
<1> HIDE DEF held
<1>5. /\ commitIndex'[n] <= commitIndex'[n] /\ role'[n] = "Leader" /\ term'[n] = term[n]
  BY <1>1 DEF TypeOK
<1>6. \A o \in ms : Sayable(n, o)
  BY <1>4, <1>5, AppendSays
<1> HIDE DEF ms
<1>7. Says(n)
  BY <1>2, <1>6, SendSays
<1>8. Hears(n)
  <2>1. matchIndex \in [Server -> [Server -> Nat]]
    BY DEF TypeOK
  <2>2. \A p \in Server \ {n} : matchIndex'[p] = matchIndex[p]
    BY <1>1, <2>1
  <2>3. \A p \in Server : matchIndex'[n][p] = IF p = m.from THEN held ELSE matchIndex[n][p]
    BY <1>1, <2>1
  <2>4. \A i : i <= m.match => Ack(m.from, term[n], i)
    BY <1>1 DEF Ack
  <2> QED
    BY <1>1, <1>4, <2>2, <2>3, <2>4 DEF Hears
<1>9. Promises(n)
  BY <1>1, SameQueueRecalls, IdlePromises
<1>10. term[n] <= term'[n] /\ durableIndex[n] <= durableIndex'[n]
  <2>1. term[n] \in Nat /\ durableIndex[n] \in Nat
    BY DEF TypeOK
  <2>2. term'[n] = term[n] /\ durableIndex'[n] = durableIndex[n]
    BY <1>1
  <2> QED
    BY <2>1, <2>2
<1> QED
  BY <1>1, <1>7, <1>8, <1>9, <1>10 DEF LineStep, Moves, Stays

LEMMA BecomeCandidateLines ==
    ASSUME TypeOK, NEW n \in Server, Refuses(n), BecomeCandidate(n)
    PROVE  LineStep(n)
<1>1. /\ UNCHANGED <<log, durableIndex, matchIndex, msgs>> /\ role'[n] = "Candidate"
      /\ term'[n] = term[n] + 1 /\ term[n] \in Nat
      /\ \E t : Issue(n, batches[n], Campaign(t), TRUE, Len(log[n]) + 1)
  BY DEF BecomeCandidate, logVars, leaderVars, durableVars, TypeOK
<1>2. PICK act : Idle(act) /\ Issue(n, batches[n], act, TRUE, Len(log[n]) + 1)
  BY <1>1, IdleActs
<1>3. Recalls(n, {act}) /\ \A a \in {act} : Idle(a)
  BY <1>2, IssueToQueue
<1>4. Promises(n)
  BY <1>3, IdlePromises
<1> QED
  BY <1>1, <1>4, SilentSays, StillMoves

LEMMA ElectionTimeoutLines ==
    ASSUME TypeOK, NEW n \in Server, Refuses(n), ElectionTimeout(n)
    PROVE  LineStep(n)
<1>1. CASE StartPreVote(n)
  <2> DEFINE ms == {PreVoteMsg(n, p) : p \in Peers(n)}
  <2>1. /\ UNCHANGED <<log, durableIndex, matchIndex, term, batches>> /\ role'[n] = "Follower"
        /\ Send(n, ms)
    BY <1>1 DEF StartPreVote, logVars, leaderVars, durableVars, TypeOK
  <2>2. \A m \in ms : Sayable(n, m)
    BY DullAnswers, DullSays
  <2> HIDE DEF ms
  <2> QED
    BY <2>1, <2>2, SendSays, QuietMoves
<1>2. CASE BecomeCandidate(n)
  BY <1>2, BecomeCandidateLines
<1> QED
  BY <1>1, <1>2 DEF ElectionTimeout

LEMMA HandlePreVoteRespLines ==
    ASSUME TypeOK, NEW n \in Server, Refuses(n), NEW m \in msgs, HandlePreVoteResp(n, m)
    PROVE  LineStep(n)
<1>1. CASE BecomeCandidate(n)
  BY <1>1, BecomeCandidateLines
<1>2. CASE UNCHANGED <<log, role, term, durableIndex, matchIndex, batches, msgs>>
  BY <1>2, SilentSays, QuietMoves
<1> QED
  BY <1>1, <1>2 DEF HandlePreVoteResp, logVars, leaderVars, durableVars

LEMMA HandleNewerTermRespLines ==
    ASSUME TypeOK, NEW n \in Server, Refuses(n), NEW m \in msgs, HandleNewerTermResp(n, m)
    PROVE  LineStep(n)
<1>1. /\ UNCHANGED <<log, durableIndex, matchIndex, msgs>> /\ role'[n] = "Follower"
      /\ term'[n] = m.term /\ m.term > term[n] /\ m.term \in Nat /\ term[n] \in Nat
      /\ Issue(n, batches[n], Quiet, TRUE, Len(log[n]) + 1)
  BY MessageTypes DEF HandleNewerTermResp, StepDownTo, logVars, leaderVars, durableVars, TypeOK
<1>2. PICK act : Idle(act) /\ Issue(n, batches[n], act, TRUE, Len(log[n]) + 1)
  BY <1>1, IdleActs
<1>3. Recalls(n, {act}) /\ \A a \in {act} : Idle(a)
  BY <1>2, IssueToQueue
<1>4. Promises(n)
  BY <1>3, IdlePromises
<1> QED
  BY <1>1, <1>4, SilentSays, StillMoves

LEMMA HandleVoteRequestLines ==
    ASSUME TypeOK, NEW n \in Server, Refuses(n), NEW m \in msgs, HandleVoteRequest(n, m)
    PROVE  LineStep(n)
<1> DEFINE grants == GrantsVote(n, m)
           answer == VoteResp(n, m.from, m.term, grants)
<1>1. /\ UNCHANGED <<log, durableIndex, matchIndex, msgs>> /\ m.type = "RequestVote"
      /\ m.term \in Nat /\ term[n] \in Nat /\ m.term >= term[n]
      /\ Issue(n, batches[n], Reply(answer), TRUE, Len(log[n]) + 1)
  BY CastTypes DEF HandleVoteRequest, Received, logVars, leaderVars, durableVars, TypeOK
<1>2. term'[n] = m.term /\ (role'[n] = "Leader" => role[n] = "Leader")
  <2>1. CASE m.term > term[n]
    <3>1. StepDownTo(n, m.term)
      BY <2>1 DEF HandleVoteRequest
    <3> QED
      BY <3>1 DEF StepDownTo, TypeOK
  <2>2. CASE ~(m.term > term[n])
    <3>1. UNCHANGED <<role, term>>
      BY <2>2 DEF HandleVoteRequest
    <3> QED
      BY <1>1, <2>2, <3>1
  <2> QED
    BY <2>1, <2>2
<1>3. GrantsVote(n, m) => Backs(n, m.from, m.term)
  BY <1>1, <1>2 DEF GrantsVote, Backs
<1>4. ASSUME NEW k \in Server, NEW t \in Nat, VoteWaits(n, k, t, Reply(answer))
      PROVE  Backs(n, k, t)
  <2>1. VoteResp(n, m.from, m.term, grants) = VoteResp(n, k, t, TRUE)
    BY <1>4 DEF VoteWaits, Reply
  <2>2. k = m.from /\ t = m.term /\ grants
    BY <2>1 DEF VoteResp
  <2> QED
    BY <1>3, <2>2
<1>5. Reply(answer).kind = "Reply" /\ Reply(answer).msg = answer /\ ~IsAck(answer)
  BY DEF Reply, IsAck, VoteResp
<1> DEFINE act == Reply(answer)
<1> HIDE DEF act
<1>6. Recalls(n, {act})
  BY <1>1, IssueToQueue DEF act
<1>7. /\ \A t \in Nat : \A i \in Index : ~Owes(act, t, i)
      /\ \A k \in Server : \A t \in Nat : VoteWaits(n, k, t, act) => Backs(n, k, t)
      /\ ~IsAck(act.msg)
  BY <1>4, <1>5 DEF Owes, act
<1>8. Promises(n)
  BY <1>6, <1>7, RecallsPromises
<1> QED
  BY <1>1, <1>2, <1>8, SilentSays, StillMoves

LEMMA FollowLeaderMoves ==
    ASSUME TypeOK, NEW n \in Server, NEW m \in msgs, FollowLeader(n, m)
    PROVE  /\ role'[n] = "Follower" /\ term'[n] = m.term /\ term[n] <= term'[n]
           /\ UNCHANGED matchIndex /\ IsAppend(m) /\ m \in AppendMsgs
           /\ m.term > term[n] \/ m.term = term[n]
           /\ m.term \in Nat /\ term[n] \in Nat
<1>1. /\ role'[n] = "Follower" /\ term'[n] = m.term /\ m.term >= term[n]
      /\ m.term \in Nat /\ term[n] \in Nat /\ UNCHANGED matchIndex
      /\ m.type = "AppendEntries"
  BY MessageTypes DEF FollowLeader, StepDownTo, Received, leaderVars, TypeOK
<1> QED
  BY <1>1, MessageTypes DEF IsAppend, TypeOK

LEMMA RejectAppendLines ==
    ASSUME TypeOK, NEW n \in Server, Refuses(n), NEW m \in msgs, RejectAppend(n, m)
    PROVE  LineStep(n)
<1> DEFINE answer == AppendResp(n, m.from, m.term, FALSE, durableIndex[n],
                                ConflictHint(log[n], m.prev))
<1>1. /\ FollowLeader(n, m) /\ UNCHANGED <<log, durableIndex>>
      /\ AnswerAfterTerm(n, m, Reply(answer), answer)
  BY DEF RejectAppend, logVars, durableVars
<1>2. Dull(answer) /\ answer.type = "AppendEntriesResp"
  BY DullAnswers DEF AppendResp
<1> HIDE DEF answer
<1>3. CASE Issue(n, batches[n], Reply(answer), TRUE, Len(log[n]) + 1) /\ UNCHANGED msgs
  <2> DEFINE act == Reply(answer)
  <2>1. act.kind = "Reply" /\ act.msg = answer
    BY DEF Reply
  <2> HIDE DEF act
  <2>2. Recalls(n, {act})
    BY <1>3, IssueToQueue DEF act
  <2>3. /\ \A t, i : ~Owes(act, t, i)
        /\ \A k, t : ~VoteWaits(n, k, t, act)
        /\ ~IsAck(act.msg)
    BY <1>2, <2>1 DEF Owes, VoteWaits, VoteResp, Dull
  <2>4. Promises(n)
    BY <2>2, <2>3, RecallsPromises
  <2> QED
    BY <1>1, <1>3, <2>4, FollowLeaderMoves, SilentSays, StillMoves
<1>4. CASE Send(n, {answer}) /\ UNCHANGED batches
  <2>1. Promises(n)
    BY <1>4, SameQueueRecalls, IdlePromises
  <2>2. Says(n)
    BY <1>2, <1>4, DullSays, SendSays
  <2> QED
    BY <1>1, <2>1, <2>2, FollowLeaderMoves, StillMoves
<1> QED
  BY <1>1, <1>3, <1>4 DEF AnswerAfterTerm

-----------------------------------------------------------------------------
(* A follower compares its log with the leader's. *)

LEMMA ConfirmReaches ==
    ASSUME NEW lg \in Seq(Entry), NEW m \in AppendMsgs, Matches(lg, m.prev, m.prevTerm),
           FirstNew(lg, m.prev, m.entries) > Last(m)
    PROVE  Reaches(lg, m)
<1>1. m.prev \in Nat /\ m.entries \in Seq(Entry)
  BY DEF AppendMsgs
<1> DEFINE prev == m.prev
           es == m.entries
<1>2. /\ prev \in Nat /\ es \in Seq(Entry) /\ Len(es) \in Nat /\ Last(m) = prev + Len(es)
      /\ TailTerm(m) = (IF es = <<>> THEN m.prevTerm ELSE es[Len(es)].term)
      /\ TermAt(lg, prev) = m.prevTerm /\ FirstNew(lg, prev, es) > prev + Len(es)
  BY <1>1 DEF Last, TailTerm, Matches
<1> HIDE DEF prev, es
<1>3. CASE es = <<>>
  <2>1. Len(es) = 0 /\ prev + Len(es) = prev
    BY <1>2, <1>3
  <2> QED
    BY <1>2, <1>3, <2>1 DEF Reaches
<1>4. CASE es # <<>>
  <2>1. Len(es) # 0
    BY <1>2, <1>4
  <2>2. /\ prev + Len(es) \in (prev + 1)..(prev + Len(es)) /\ prev + Len(es) - prev = Len(es)
        /\ prev + Len(es) < FirstNew(lg, prev, es)
    BY <1>2, <2>1
  <2>3. TermAt(lg, prev + Len(es)) = es[prev + Len(es) - prev].term
    BY <1>2, <2>2, BelowFirstNew
  <2> QED
    BY <1>2, <1>4, <2>2, <2>3 DEF Reaches
<1> QED
  BY <1>3, <1>4

LEMMA ConfirmAppendLines ==
    ASSUME TypeOK, TypeOK', NEW n \in Server, Refuses(n), NEW m \in msgs, ConfirmAppend(n, m)
    PROVE  LineStep(n)
<1> DEFINE last == m.prev + Len(m.entries)
           act == LogDurable(durableIndex[n] + 1, durableIndex[n], last, m.from, m.term)
           answer == AppendResp(n, m.from, m.term, TRUE, MinOf(durableIndex[n], last), NO_INDEX)
<1>1. /\ FollowLeader(n, m) /\ UNCHANGED <<log, durableIndex>>
      /\ AnswerAfterTerm(n, m, act, answer)
      /\ Matches(log[n], m.prev, m.prevTerm) /\ FirstNew(log[n], m.prev, m.entries) > last
  BY DEF ConfirmAppend, durableVars
<1>2. /\ role'[n] = "Follower" /\ term'[n] = m.term /\ term[n] <= term'[n]
      /\ UNCHANGED matchIndex /\ IsAppend(m) /\ m \in AppendMsgs
  BY <1>1, FollowLeaderMoves
<1>3. last = Last(m) /\ last \in Nat /\ durableIndex[n] \in Nat
  BY <1>2, AppendTypes DEF Last, TypeOK
<1>4. act.kind = "LogDurable" /\ act.verified = last /\ act.replyTerm = m.term
  BY DEF LogDurable
<1>5. /\ answer.type = "AppendEntriesResp" /\ answer.term = m.term
      /\ answer.match = MinOf(durableIndex[n], last)
  BY DEF AppendResp
<1> HIDE DEF last, act, answer
<1>6. Reaches(log[n], m)
  <2>1. log[n] \in Seq(Entry)
    BY DEF TypeOK
  <2> QED
    BY <1>1, <1>2, <1>3, <2>1, ConfirmReaches
<1>7. \A i : i <= last => Vouched(n, m.term, i)
  BY <1>1, <1>2, <1>3, <1>6 DEF Vouched
<1>8. CASE Issue(n, batches[n], act, TRUE, Len(log[n]) + 1) /\ UNCHANGED msgs
  <2>1. Recalls(n, {act})
    BY <1>8, IssueToQueue
  <2>2. /\ \A t \in Nat : \A i \in Index : Owes(act, t, i) => Vouched(n, t, i)
        /\ \A k \in Server : \A t \in Nat : ~VoteWaits(n, k, t, act)
        /\ act.kind # "Reply"
    BY <1>4, <1>7 DEF Owes, VoteWaits
  <2>3. Promises(n)
    BY <2>1, <2>2, RecallsPromises
  <2> QED
    BY <1>1, <1>2, <1>8, <2>3, SilentSays, StillMoves
<1>9. CASE Send(n, {answer}) /\ UNCHANGED batches
  <2>1. Promises(n)
    BY <1>9, SameQueueRecalls, IdlePromises
  <2>2. MinOf(durableIndex[n], last) \in Nat /\ MinOf(durableIndex[n], last) <= durableIndex[n]
        /\ MinOf(durableIndex[n], last) <= last
    BY <1>3, MinMaxType
  <2>3. \A i \in Index : i <= answer.match => i <= last
    BY <1>3, <1>5, <2>2 DEF Index
  <2>4. answer.match <= durableIndex'[n]
    BY <1>1, <1>5, <2>2
  <2>5. Sayable(n, answer)
    BY <1>5, <1>7, <2>3, <2>4 DEF Sayable, IsGrant, IsAppend
  <2>6. Says(n)
    BY <1>9, <2>5, SendSays
  <2> QED
    BY <1>1, <1>2, <2>1, <2>6, StillMoves
<1> QED
  BY <1>1, <1>8, <1>9 DEF AnswerAfterTerm

LEMMA AtFirstNew ==
    ASSUME NEW lg \in Seq(Entry), NEW prev \in Nat, NEW es \in Seq(Entry),
           FirstNew(lg, prev, es) <= prev + Len(es)
    PROVE  TermAt(lg, FirstNew(lg, prev, es)) # es[FirstNew(lg, prev, es) - prev].term
<1> DEFINE S == {prev + Len(es) + 1} \cup
                {j \in (prev + 1)..(prev + Len(es)) : TermAt(lg, j) # es[j - prev].term}
<1>1. S \in SUBSET Nat /\ S # {} /\ Len(es) \in Nat
  OBVIOUS
<1>2. Min(S) \in S
  <2> HIDE DEF S
  <2> QED
    BY <1>1, MinNat
<1>3. FirstNew(lg, prev, es) = Min(S)
  BY DEF FirstNew
<1>4. Min(S) # prev + Len(es) + 1
  <2> HIDE DEF S
  <2> QED
    BY <1>1, <1>3
<1> QED
  BY <1>2, <1>3, <1>4

LEMMA AcceptAppendLines ==
    ASSUME TypeOK, TypeOK', NEW n \in Server, Refuses(n), NEW m \in msgs, AcceptAppend(n, m)
    PROVE  LineStep(n)
<1> DEFINE start == FirstNew(log[n], m.prev, m.entries)
           last == m.prev + Len(m.entries)
           old == log[n]
           new == log'[n]
           prev == m.prev
           es == m.entries
           act == LogDurable(start, last, last, m.from, m.term)
           queue == ClampAll(batches[n], start - 1)
<1>1. /\ FollowLeader(n, m) /\ UNCHANGED msgs
      /\ Issue(n, queue, act, m.term > term[n], start)
      /\ durableIndex'[n] = MinOf(durableIndex[n], start - 1)
  BY DEF AcceptAppend, ReplaceFrom, TypeOK
<1>2. /\ role'[n] = "Follower" /\ term'[n] = m.term /\ term[n] <= term'[n]
      /\ UNCHANGED matchIndex /\ IsAppend(m) /\ m \in AppendMsgs
  BY <1>1, FollowLeaderMoves
<1>3. /\ prev \in Nat /\ es \in Seq(Entry) /\ old \in Seq(Entry) /\ last \in Nat
      /\ start \in (prev + 1)..last
      /\ DOMAIN new = 1..last
      /\ \A i \in start..last : i - prev \in DOMAIN es /\ new[i] = es[i - prev]
  BY AcceptedLog
<1>4. TermAt(old, start) # es[start - prev].term
  BY <1>3, AtFirstNew
<1>5. act.kind = "LogDurable" /\ act.verified = last /\ act.replyTerm = m.term
  BY DEF LogDurable
<1>6. /\ last = prev + Len(es) /\ Len(es) \in Nat /\ Last(m) = last
      /\ TailTerm(m) = (IF es = <<>> THEN m.prevTerm ELSE es[Len(es)].term)
  BY <1>3 DEF Last, TailTerm
<1>7. new \in Seq(Entry)
  BY DEF TypeOK
<1>8. start - 1 \in Nat
  <2> HIDE DEF start, last, prev
  <2> QED
    BY <1>3
<1>9. Recalls(n, {act})
  <2> HIDE DEF start, act
  <2>1. /\ queue \in Seq(Batch)
        /\ \A j \in 1..Len(queue) : \E l \in Queued(n) : SameAct(queue[j].act, batches[n][l].act)
    BY <1>8, ClampRecalls
  <2> HIDE DEF queue
  <2> QED
    BY <1>1, <2>1, IssueRecalls
<1> HIDE DEF start, last, old, new, prev, es, act, queue
<1>10. /\ last \in start..last /\ last - prev = Len(es) /\ es # <<>> /\ last # 0
       /\ start \in start..last /\ start # 0 /\ start \in 1..last
  <2>1. start \in Nat /\ prev + 1 <= start /\ start <= last
    BY <1>3
  <2>2. Len(es) # 0
    BY <1>3, <1>6, <2>1
  <2> QED
    BY <1>3, <1>6, <2>1, <2>2
<1>11. Reaches(new, m) /\ Len(new) = last
  <2>1. Len(new) = last
    BY <1>3, <1>7
  <2>2. new[last] = es[Len(es)] /\ last \in DOMAIN new
    BY <1>3, <1>10
  <2> QED
    BY <1>6, <1>10, <2>1, <2>2 DEF Reaches, TermAt, NO_INDEX
<1>12. TermAt(old, start) # TermAt(new, start)
  <2>1. TermAt(new, start) = es[start - prev].term
    BY <1>3, <1>10 DEF TermAt, NO_INDEX
  <2> QED
    BY <1>4, <2>1
<1>13. Accepts(n, m)
  BY <1>1, <1>2, <1>6, <1>10, <1>11, <1>12 DEF Accepts, old, new
<1>14. \A i : i <= last => Vouched(n, m.term, i)
  BY <1>2, <1>6, <1>11 DEF Vouched, new
<1>15. /\ \A t \in Nat : \A i \in Index : Owes(act, t, i) => Vouched(n, t, i)
       /\ \A k \in Server : \A t \in Nat : ~VoteWaits(n, k, t, act)
       /\ act.kind # "Reply"
  BY <1>5, <1>14 DEF Owes, VoteWaits
<1>16. Promises(n)
  BY <1>9, <1>15, RecallsPromises
<1> QED
  BY <1>1, <1>2, <1>13, <1>16, SilentSays, StillHears DEF LineStep, Moves

-----------------------------------------------------------------------------
(* Leaders. *)

LEMMA LeaderAdds ==
    ASSUME TypeOK, TypeOK', NEW n \in Server, NEW e \in Entry, e.term = term[n],
           log' = [log EXCEPT ![n] = Append(@, e)], UNCHANGED term, role'[n] = "Leader",
           durableIndex[n] <= durableIndex'[n], Promises(n), Says(n), Hears(n)
    PROVE  LineStep(n)
<1>1. Extends(n)
  BY LeaderExtends DEF Extends
<1>2. Adds(n)
  BY <1>1 DEF Adds
<1> QED
  BY <1>2 DEF LineStep, Moves

LEMMA ProposeLines ==
    ASSUME TypeOK, TypeOK', NEW n \in Server, Refuses(n), NEW c \in Cmd, Propose(n, c)
    PROVE  LineStep(n)
<1> DEFINE e == [term |-> term[n], cmd |-> c]
           ms == AppendToAll(n, log'[n], nextIndex[n], commitIndex[n])
<1>1. /\ log' = [log EXCEPT ![n] = Append(@, e)]
      /\ UNCHANGED <<role, term, durableIndex, commitIndex, matchIndex>>
      /\ role[n] = "Leader" /\ Send(n, ms)
      /\ Issue(n, batches[n], LogDurable(Len(log[n]) + 1, Len(log[n]) + 1, 0, None, 0), FALSE,
               Len(log[n]) + 1)
  BY DEF Propose, electionVars, durableVars, leaderVars
<1>2. e \in Entry /\ e.term = term[n]
  BY DEF TypeOK, Entry
<1> HIDE DEF e
<1>3. /\ nextIndex[n] \in [Server -> Nat \ {0}] /\ commitIndex[n] <= commitIndex'[n]
      /\ role'[n] = "Leader" /\ term'[n] = term[n] /\ durableIndex[n] <= durableIndex'[n]
  BY <1>1 DEF TypeOK
<1>4. \A m \in ms : Sayable(n, m)
  BY <1>3, AppendsSay
<1> HIDE DEF ms
<1>5. PICK act : Idle(act) /\ Issue(n, batches[n], act, FALSE, Len(log[n]) + 1)
  BY <1>1, IdleActs
<1>6. Recalls(n, {act}) /\ \A a \in {act} : Idle(a)
  BY <1>5, IssueToQueue
<1>7. Promises(n)
  BY <1>6, IdlePromises
<1>8. Says(n) /\ Hears(n)
  BY <1>1, <1>4, SendSays, StillHears
<1> QED
  BY <1>1, <1>2, <1>3, <1>7, <1>8, LeaderAdds

(* What a new leader does: queue is what is left of its batches, asks what *)
(* it sends besides.                                                       *)
LEMMA BecomeLeaderLines ==
    ASSUME TypeOK, TypeOK', NEW n \in Server, Refuses(n), NEW queue \in Seq(Batch),
           BecomeLeader(n, queue), NEW asks, \A m \in asks : Sayable(n, m),
           Send(n, asks \cup LeaderGreeting(n)), UNCHANGED commitIndex,
           durableIndex[n] <= durableIndex'[n],
           \A j \in 1..Len(queue) : \E l \in Queued(n) : SameAct(queue[j].act, batches[n][l].act)
    PROVE  LineStep(n)
<1> DEFINE e == [term |-> term[n], cmd |-> Noop]
           ms == asks \cup LeaderGreeting(n)
<1>1. /\ log' = [log EXCEPT ![n] = Append(@, e)] /\ UNCHANGED term /\ role'[n] = "Leader"
      /\ matchIndex' = [matchIndex EXCEPT ![n] = [p \in Server |-> 0]]
      /\ Issue(n, queue, LogDurable(Len(log[n]) + 1, Len(log[n]) + 1, 0, None, 0), FALSE,
               Len(log[n]) + 1)
  BY DEF BecomeLeader, TypeOK
<1>2. e \in Entry /\ e.term = term[n]
  BY NoopIsEntry
<1> HIDE DEF e
<1>3. /\ nextIndex'[n] \in [Server -> Nat \ {0}] /\ commitIndex[n] <= commitIndex'[n]
      /\ term'[n] = term[n]
  BY <1>1, SMTT(30) DEF TypeOK
<1>4. \A m \in LeaderGreeting(n) : Sayable(n, m)
  BY <1>1, <1>3, AppendsSay DEF LeaderGreeting
<1>5. Says(n)
  <2>1. Send(n, ms) /\ \A m \in ms : Sayable(n, m)
    BY <1>4
  <2> HIDE DEF ms
  <2> QED
    BY <2>1, SendSays
<1>6. PICK act : Idle(act) /\ Issue(n, queue, act, FALSE, Len(log[n]) + 1)
  BY <1>1, IdleActs
<1>7. Recalls(n, {act}) /\ \A a \in {act} : Idle(a)
  BY <1>6, IssueRecalls
<1>8. Promises(n)
  BY <1>7, IdlePromises
<1>9. Hears(n)
  <2>1. matchIndex \in [Server -> [Server -> Nat]]
    BY DEF TypeOK
  <2>2. \A p \in Server : matchIndex'[n][p] = 0
    BY <1>1, <2>1
  <2>3. \A p \in Server \ {n} : matchIndex'[p] = matchIndex[p]
    BY <1>1, <2>1
  <2>4. \A i \in Index : ~(i <= 0)
    BY DEF Index
  <2> QED
    BY <2>2, <2>3, <2>4 DEF Hears
<1> QED
  BY <1>1, <1>2, <1>5, <1>8, <1>9, LeaderAdds

LEMMA HandleVoteRespLines ==
    ASSUME TypeOK, TypeOK', NEW n \in Server, Refuses(n), NEW m \in msgs, HandleVoteResp(n, m)
    PROVE  LineStep(n)
<1>1. UNCHANGED <<commitIndex, durableIndex>>
  BY DEF HandleVoteResp, durableVars
<1>2. CASE BecomeLeader(n, batches[n]) /\ Send(n, LeaderGreeting(n))
  <2>1. PICK asks : asks = {}
    OBVIOUS
  <2>2. asks \cup LeaderGreeting(n) = LeaderGreeting(n)
    BY <2>1
  <2>3. Send(n, asks \cup LeaderGreeting(n)) /\ \A o \in asks : Sayable(n, o)
    BY <1>2, <2>1, <2>2
  <2>4. PICK queue \in Seq(Batch) : queue = batches[n]
    BY DEF TypeOK
  <2>5. \A j \in 1..Len(queue) : \E l \in Queued(n) : SameAct(queue[j].act, batches[n][l].act)
    BY <2>4 DEF SameAct, Queued
  <2>6. durableIndex[n] <= durableIndex'[n] /\ BecomeLeader(n, queue)
    BY <1>1, <1>2, <2>4 DEF TypeOK
  <2> QED
    BY <1>1, <2>3, <2>5, <2>6, BecomeLeaderLines
<1>3. CASE UNCHANGED <<log, role, term, matchIndex, batches, msgs>>
  BY <1>1, <1>3, SilentSays, QuietMoves
<1> QED
  BY <1>2, <1>3 DEF HandleVoteResp, leaderVars

-----------------------------------------------------------------------------
(* A batch is durable. *)

LEMMA ClaimGrows ==
    ASSUME TypeOK, TypeOK', NEW n \in Server
    PROVE  /\ ClaimAfterTerm(n) \in Nat /\ durableIndex[n] <= ClaimAfterTerm(n)
           /\ \A at \in Nat : \A ranges : Claim(n, at, ranges) \in Nat /\ at <= Claim(n, at, ranges)
<1>1. /\ LastIndexWithTermAtMost(log[n], durableTerm'[n]) \in Nat /\ durableIndex[n] \in Nat
  <2>1. log[n] \in Seq(Entry) /\ durableTerm'[n] \in Nat /\ Len(log[n]) \in Nat
    BY DEF TypeOK
  <2>2. LastIndexWithTermAtMost(log[n], durableTerm'[n]) \in 0..Len(log[n])
    BY <2>1, LastIndexType
  <2> QED
    BY <2>1, <2>2 DEF TypeOK
<1>2. \A at \in Nat : \A ranges : Claim(n, at, ranges) \in Nat /\ Claim(n, at, ranges) >= at
  BY <1>1, AdvanceDurableType DEF Claim
<1>3. \A at \in Nat : \A ranges : at <= Claim(n, at, ranges)
  BY <1>2
<1>4. ClaimAfterTerm(n) \in Nat /\ durableIndex[n] <= ClaimAfterTerm(n)
  BY <1>1, <1>2, <1>3 DEF ClaimAfterTerm
<1> QED
  BY <1>2, <1>3, <1>4

LEMMA KeepClaimGrows ==
    ASSUME TypeOK, TypeOK', NEW n \in Server, KeepClaim(n)
    PROVE  durableIndex[n] <= durableIndex'[n]
<1>1. durableIndex'[n] = ClaimAfterTerm(n)
  BY DEF KeepClaim, TypeOK
<1> QED
  BY <1>1, ClaimGrows

(* The log, the role and the term are as they were. *)
LEMMA SyncMoves ==
    ASSUME TypeOK, NEW n \in Server, UNCHANGED <<log, role, term, matchIndex>>,
           durableIndex[n] <= durableIndex'[n], Promises(n), Says(n)
    PROVE  LineStep(n)
<1>1. term[n] <= term'[n]
  BY DEF TypeOK
<1>2. Stays(n)
  BY <1>1 DEF Stays
<1> QED
  BY <1>2, StillHears DEF LineStep, Moves

LEMMA RequestSays ==
    ASSUME NEW n, NEW p
    PROVE  Sayable(n, RequestVoteMsg(n, p))
BY DEF Sayable, RequestVoteMsg, IsAck, IsGrant, IsAppend

LEMMA CampaignDurableLines ==
    ASSUME TypeOK, TypeOK', NEW n \in Server, Refuses(n), NEW k \in Queued(n),
           CampaignDurable(n, k)
    PROVE  LineStep(n)
<1> DEFINE asks == {RequestVoteMsg(n, p) : p \in Peers(n)}
           standing == role[n] = "Candidate" /\ batches[n][k].act.term = term[n]
           queue == QueueWithout(batches[n], k)
           ms == IF standing THEN asks ELSE {}
<1>1. \A m \in asks : Sayable(n, m)
  BY RequestSays
<1>2. KeepClaim(n) /\ UNCHANGED commitIndex
  BY DEF CampaignDurable
<1>3. \/ BecomeLeader(n, queue) /\ Send(n, asks \cup LeaderGreeting(n))
      \/ /\ UNCHANGED <<log, role, term, matchIndex>> /\ Send(n, ms)
         /\ batches' = [batches EXCEPT ![n] = queue]
  BY DEF CampaignDurable, leaderVars
<1>4. \A m \in ms : Sayable(n, m)
  BY <1>1
<1>5. durableIndex[n] <= durableIndex'[n]
  BY <1>2, KeepClaimGrows
<1> HIDE DEF asks, ms
<1>6. CASE BecomeLeader(n, queue) /\ Send(n, asks \cup LeaderGreeting(n))
  <2>1. /\ queue \in Seq(Batch)
        /\ \A j \in 1..Len(queue) : \E l \in Queued(n) : SameAct(queue[j].act, batches[n][l].act)
    BY WithoutRecalls
  <2> HIDE DEF queue
  <2> QED
    BY <1>1, <1>2, <1>5, <1>6, <2>1, BecomeLeaderLines
<1>7. CASE /\ UNCHANGED <<log, role, term, matchIndex>> /\ Send(n, ms)
           /\ batches' = [batches EXCEPT ![n] = queue]
  <2>1. Recalls(n, {})
    BY <1>7, SyncRecalls
  <2>2. Promises(n) /\ Says(n)
    BY <1>4, <1>7, <2>1, IdlePromises, SendSays
  <2> QED
    BY <1>5, <1>7, <2>2, SyncMoves
<1> QED
  BY <1>3, <1>6, <1>7

LEMMA ReplyDurableLines ==
    ASSUME TypeOK, TypeOK', VoteInv, NEW n \in Server, Refuses(n), NEW k \in Queued(n),
           ReplyDurable(n, k)
    PROVE  LineStep(n)
<1> DEFINE act == batches[n][k].act
           ms == IF act.kind = "Reply" THEN {act.msg} ELSE {}
<1>1. /\ KeepClaim(n) /\ UNCHANGED <<log, role, term, matchIndex>> /\ Send(n, ms)
      /\ batches' = [batches EXCEPT ![n] = QueueWithout(batches[n], k)]
  BY DEF ReplyDurable, electionVars, logVars, leaderVars
<1>2. act \in Act
  BY HardTypes DEF HardTyped
<1>3. ASSUME act.kind = "Reply"
      PROVE  Sayable(n, act.msg)
  <2>1. act.msg \in VoteRespMsgs \cup AppendRespMsgs /\ ~IsAck(act.msg) /\ act.msg.from = n
    BY <1>2, <1>3, ActTypes DEF Refuses, VoteInv, Replies, RepliesWell
  <2>2. act.msg.type \notin {"RequestVote", "AppendEntries"}
    BY <2>1 DEF VoteRespMsgs, AppendRespMsgs
  <2>3. IsGrant(act.msg) => VoteOwed(n, act.msg.to, act.msg.term)
    <3> SUFFICES ASSUME IsGrant(act.msg)
                 PROVE  VoteOwed(n, act.msg.to, act.msg.term)
      OBVIOUS
    <3> DEFINE o == act.msg
    <3>1. o \in VoteRespMsgs /\ o.granted /\ o.from = n
      BY <2>1 DEF IsGrant, AppendRespMsgs
    <3> HIDE DEF o
    <3>2. o = VoteResp(n, o.to, o.term, TRUE)
      BY <3>1 DEF VoteRespMsgs, VoteResp
    <3> QED
      BY <1>3, <3>2 DEF VoteOwed, VoteWaits, o
  <2> QED
    BY <2>1, <2>2, <2>3 DEF Sayable, IsAppend
<1> HIDE DEF act
<1>4. \A m \in ms : Sayable(n, m)
  BY <1>3
<1> HIDE DEF ms
<1>5. Recalls(n, {})
  BY <1>1, SyncRecalls
<1>6. Promises(n) /\ Says(n)
  BY <1>1, <1>4, <1>5, IdlePromises, SendSays
<1> QED
  BY <1>1, <1>6, KeepClaimGrows, SyncMoves

LEMMA LogIsDurableLines ==
    ASSUME TypeOK, TypeOK', NEW n \in Server, Refuses(n), NEW k \in Queued(n),
           LogIsDurable(n, k)
    PROVE  LineStep(n)
<1> DEFINE act == batches[n][k].act
           index == MinOf(act.index, Len(log[n]))
           isNews == index > ClaimAfterTerm(n)
           ranges == ParkedAfterTerm(n) \cup {[from |-> act.from, to |-> index]}
           claim == IF isNews THEN Claim(n, ClaimAfterTerm(n), ranges) ELSE ClaimAfterTerm(n)
           answer == AppendResp(n, act.replyTo, act.replyTerm, TRUE,
                                MinOf(claim, act.verified), NO_INDEX)
           ms == IF act.replyTo = None THEN {} ELSE {answer}
<1>1. /\ UNCHANGED <<log, role, term, matchIndex>> /\ Send(n, ms) /\ act.kind = "LogDurable"
      /\ batches' = [batches EXCEPT ![n] = QueueWithout(batches[n], k)]
      /\ durableIndex' = [durableIndex EXCEPT ![n] = claim]
  BY SMTT(20) DEF LogIsDurable, electionVars, leaderVars
<1>2. act \in Act
  BY HardTypes DEF HardTyped
<1>3. /\ claim \in Nat /\ durableIndex[n] <= claim
  <2> HIDE DEF isNews, ranges
  <2>1. /\ ClaimAfterTerm(n) \in Nat /\ durableIndex[n] <= ClaimAfterTerm(n)
        /\ Claim(n, ClaimAfterTerm(n), ranges) \in Nat
        /\ ClaimAfterTerm(n) <= Claim(n, ClaimAfterTerm(n), ranges)
    BY ClaimGrows
  <2>2. durableIndex[n] \in Nat
    BY DEF TypeOK
  <2> QED
    BY <2>1, <2>2
<1> HIDE DEF claim
<1>4. durableIndex'[n] = claim
  BY <1>1 DEF TypeOK
<1>5. /\ answer.type = "AppendEntriesResp" /\ answer.term = act.replyTerm
      /\ answer.match = MinOf(claim, act.verified)
  BY DEF AppendResp
<1> HIDE DEF answer
<1>6. ASSUME act.replyTo # None
      PROVE  Sayable(n, answer)
  <2>1. act.verified \in Nat /\ act.replyTerm \in Nat
    <3> HIDE DEF act
    <3> QED
      BY <1>1, <1>2, ActTypes
  <2>2. \A i : i <= act.verified => Owed(n, act.replyTerm, i)
    BY <1>1, <1>6 DEF Owed, Owes
  <2> HIDE DEF act
  <2>3. answer.match \in Nat /\ answer.match <= claim /\ answer.match <= act.verified
    BY <1>3, <1>5, <2>1, MinMaxType
  <2>4. \A i \in Index : i <= answer.match => i <= act.verified
    BY <2>1, <2>3 DEF Index
  <2> QED
    BY <1>4, <1>5, <2>2, <2>3, <2>4 DEF Sayable, IsGrant, IsAppend
<1>7. \A m \in ms : Sayable(n, m)
  <2> HIDE DEF act
  <2> QED
    BY <1>6
<1> HIDE DEF ms, act
<1>8. Recalls(n, {})
  BY <1>1, SyncRecalls
<1>9. Promises(n) /\ Says(n)
  BY <1>1, <1>7, <1>8, IdlePromises, SendSays
<1> QED
  BY <1>1, <1>3, <1>4, <1>9, SyncMoves

-----------------------------------------------------------------------------
(* A crash. *)

LEMMA LastIndexReaches ==
    ASSUME NEW lg \in Seq(Entry), NEW t \in Nat, NEW d \in Index,
           \A j \in 1..d : j \in DOMAIN lg /\ lg[j].term <= t
    PROVE  d <= LastIndexWithTermAtMost(lg, t)
<1> DEFINE S == {0} \cup {i \in DOMAIN lg : \A j \in 1..i : lg[j].term <= t}
<1>1. S \in SUBSET Nat /\ S # {} /\ \A i \in S : i <= Len(lg)
  OBVIOUS
<1>2. Len(lg) \in Nat /\ d \in 1..d
  BY DEF Index
<1>3. d \in S
  BY <1>2
<1>4. d <= Max(S)
  <2> HIDE DEF S
  <2> QED
    BY <1>1, <1>2, <1>3, MaxNat
<1> QED
  BY <1>4 DEF LastIndexWithTermAtMost

(* Whatever a crash leaves of the file has the entries that were claimed:  *)
(* the images that are not yet synced hold them, and none of the writes in *)
(* flight begins at or below them.                                         *)
LEMMA RemainsHaveClaims ==
    ASSUME TypeOK, ClaimInv, NEW n \in Server, NEW image \in Remains(n),
           NEW i \in Index, i <= durableIndex[n]
    PROVE  Agree(image.log, log[n], i)
<1> DEFINE q == batches[n]
           before(k) == IF k = 1 \/ q[k - 1].synced THEN disk[n].log ELSE q[k - 1].log
<1>1. \/ image = disk[n]
      \/ \E k \in 1..Len(q) : image.log = before(k)
      \/ \E k \in 1..Len(q) : ~q[k].synced /\ \E x \in (q[k].from - 1)..Len(q[k].log) :
           image.log = SubSeq(q[k].log, 1, x)
  BY SMTT(20) DEF Remains
<1>2. q \in Seq(Batch) /\ Len(q) \in Nat
  BY DEF TypeOK
<1>3. /\ Agree(disk[n].log, log[n], i)
      /\ \A j \in Queued(n) : ~q[j].synced => Agree(q[j].log, log[n], i) /\ i < q[j].from
  <2>1. Written(n, i) /\ Fenced(n, 1, i)
    BY DEF ClaimInv, Claimed, Fences
  <2>2. \A j \in Queued(n) : j >= 1
    BY <1>2 DEF Queued
  <2> QED
    BY <2>1, <2>2 DEF Written, Pending, Fenced
<1>4. CASE image = disk[n]
  BY <1>3, <1>4
<1>5. ASSUME NEW k \in 1..Len(q), image.log = before(k)
      PROVE  Agree(image.log, log[n], i)
  <2>1. CASE image.log = disk[n].log
    BY <1>3, <2>1
  <2>2. CASE k # 1 /\ ~q[k - 1].synced /\ image.log = q[k - 1].log
    <3>1. k - 1 \in Queued(n)
      BY <1>2, <2>2 DEF Queued
    <3> QED
      BY <1>3, <2>2, <3>1
  <2> QED
    BY <1>5, <2>1, <2>2
<1>6. ASSUME NEW k \in 1..Len(q), ~q[k].synced, NEW x \in (q[k].from - 1)..Len(q[k].log),
             image.log = SubSeq(q[k].log, 1, x)
      PROVE  Agree(image.log, log[n], i)
  <2> DEFINE lg == q[k].log
  <2>1. q[k] \in Batch /\ k \in Queued(n)
    BY <1>2 DEF Queued
  <2>2. /\ lg \in Seq(Entry) /\ x \in Nat /\ x <= Len(lg) /\ image.log = SubSeq(lg, 1, x)
        /\ q[k].from \in Nat /\ q[k].from - 1 <= x
    BY <1>6, <2>1 DEF Batch
  <2>3. Agree(lg, log[n], i) /\ i < q[k].from
    BY <1>3, <1>6, <2>1
  <2>4. i \in 1..x
    <3> HIDE DEF lg
    <3> QED
      BY <2>2, <2>3 DEF Index
  <2> HIDE DEF lg
  <2>5. i \in DOMAIN SubSeq(lg, 1, x) /\ SubSeq(lg, 1, x)[i] = lg[i]
    BY <2>2, <2>4
  <2> QED
    BY <2>2, <2>3, <2>5 DEF Agree
<1> QED
  BY <1>1, <1>4, <1>5, <1>6

LEMMA RecoveredKeeps ==
    ASSUME NEW image \in Image, NEW d \in Index,
           \A j \in 1..d : j \in DOMAIN image.log /\ image.log[j].term <= image.hard.term
    PROVE  d \in DOMAIN Recovered(image).log /\ Recovered(image).log[d] = image.log[d]
<1> DEFINE lg == image.log
           last == LastIndexWithTermAtMost(lg, image.hard.term)
<1>1. lg \in Seq(Entry) /\ image.hard.term \in Nat /\ Len(lg) \in Nat /\ d \in Nat /\ d >= 1
  BY DEF Image, HardState, Index
<1>2. last \in 0..Len(lg) /\ d <= last
  BY <1>1, LastIndexType, LastIndexReaches
<1>3. Recovered(image).log = SubSeq(lg, 1, last)
  <2>1. Recovered(image) = [image EXCEPT !.log = SubSeq(lg, 1, last)]
    BY DEF Recovered
  <2> HIDE DEF last, lg
  <2> QED
    BY <2>1 DEF Image
<1> HIDE DEF last
<1>4. d \in DOMAIN SubSeq(lg, 1, last) /\ SubSeq(lg, 1, last)[d] = lg[d]
  BY <1>1, <1>2
<1> QED
  BY <1>3, <1>4

LEMMA RestartLines ==
    ASSUME TypeOK, TypeOK', VoteInv, ClaimInv, NEW n \in Server, Restart(n)
    PROVE  LineStep(n)
<1>1. PICK image \in Remains(n) :
        /\ disk' = [disk EXCEPT ![n] = Recovered(image)]
        /\ term' = [term EXCEPT ![n] = Recovered(image).hard.term]
        /\ log' = [log EXCEPT ![n] = Recovered(image).log]
        /\ durableIndex' = [durableIndex EXCEPT ![n] = Len(Recovered(image).log)]
        /\ durableTerm' = [durableTerm EXCEPT ![n] = Recovered(image).hard.term]
  BY DEF Restart
<1>2. /\ UNCHANGED msgs /\ role'[n] = "Follower" /\ batches'[n] = <<>> /\ parked'[n] = {}
      /\ \A p \in Server \ {n} : matchIndex'[p] = matchIndex[p]
      /\ commitIndex'[n] = 0 /\ restarts'[n] # restarts[n]
  BY DEF Restart, TypeOK
<1>3. image \in Image
  BY RemainsType
<1> DEFINE kept == Recovered(image)
<1>4. /\ kept \in Image /\ kept.log \in Seq(Entry) /\ kept.hard = image.hard
      /\ \A i \in DOMAIN kept.log : kept.log[i].term <= image.hard.term
  BY <1>3, RecoveredTerms DEF Image
<1>5. /\ disk'[n] = kept /\ log'[n] = kept.log /\ term'[n] = kept.hard.term
      /\ durableIndex'[n] = Len(kept.log) /\ durableTerm'[n] = kept.hard.term
  BY <1>1 DEF TypeOK
<1>6. /\ durableTerm[n] \in Nat /\ image.hard.term \in Nat /\ durableTerm[n] <= image.hard.term
      /\ durableIndex[n] \in Nat /\ log[n] \in Seq(Entry)
  <2>1. /\ durableTerm[n] \in Nat /\ image.hard \in HardState /\ disk[n].hard \in HardState
        /\ durableIndex[n] \in Nat /\ log[n] \in Seq(Entry)
        /\ \A j \in Queued(n) : batches[n][j].hard \in HardState
    BY <1>3, HardTypes DEF HardTyped, Image, TypeOK
  <2>2. Chain(n)
    BY DEF VoteInv
  <2>3. disk[n].hard.term <= image.hard.term
    <3>1. CASE image = disk[n]
      BY <2>1, <3>1 DEF HardState
    <3>2. ASSUME NEW j \in Queued(n), ~batches[n][j].synced, image.hard = batches[n][j].hard
          PROVE  disk[n].hard.term <= image.hard.term
      BY <2>1, <2>2, <3>2, LeTerm DEF Chain
    <3> QED
      BY <3>1, <3>2, RemainsHard
  <2>4. durableTerm[n] <= disk[n].hard.term
    BY <2>2 DEF Chain
  <2> QED
    BY <2>1, <2>3, <2>4 DEF HardState
<1>7. ASSUME NEW i \in Index, i <= durableIndex[n]
      PROVE  /\ Agree(image.log, log[n], i) /\ image.log[i].term <= image.hard.term
  <2>1. Agree(image.log, log[n], i) /\ log[n][i].term <= durableTerm[n]
    BY <1>7, RemainsHaveClaims DEF ClaimInv, Claimed
  <2>2. i \in DOMAIN log[n] /\ image.log[i] = log[n][i]
    BY <2>1 DEF Agree
  <2>3. log[n][i].term \in Nat
    BY <1>6, <2>2, EntryTerm
  <2> QED
    BY <1>6, <2>1, <2>2, <2>3
<1>8. ASSUME NEW i \in Index, i <= durableIndex[n]
      PROVE  Kept(n, i)
  <2>1. \A j \in 1..i : j \in Index /\ j <= durableIndex[n]
    BY <1>6, <1>8 DEF Index
  <2>2. \A j \in 1..i : j \in DOMAIN image.log /\ image.log[j].term <= image.hard.term
    BY <1>7, <2>1 DEF Agree
  <2>3. i \in DOMAIN kept.log /\ kept.log[i] = image.log[i]
    BY <1>3, <2>2, RecoveredKeeps
  <2>4. image.log[i] = log[n][i]
    BY <1>7, <1>8 DEF Agree
  <2> QED
    BY <1>5, <2>3, <2>4 DEF Kept
<1> HIDE DEF kept
<1>9. Recovers(n)
  <2>1. Len(kept.log) <= Len(kept.log)
    <3>1. Len(kept.log) \in Nat
      BY <1>4
    <3> QED
      BY <3>1
  <2> QED
    BY <1>2, <1>4, <1>5, <1>8, <2>1 DEF Recovers, Reboots
<1>10. Queued(n)' = {}
  BY <1>2 DEF Queued
<1>11. Promises(n)
  BY <1>10 DEF Promises, Owed, VoteOwed, Refuses
<1>12. Hears(n)
  BY <1>2 DEF Hears
<1> QED
  BY <1>2, <1>9, <1>11, <1>12, SilentSays DEF LineStep, Moves

-----------------------------------------------------------------------------
(* The theorem. *)

LEMMA QuietLines ==
    ASSUME TypeOK, TypeOK', NEW n \in Server, Refuses(n),
           \/ Heartbeat(n)
           \/ \E m \in msgs : \/ RefuseStale(n, m) \/ RepeatVoteAnswer(n, m)
                              \/ HandlePreVote(n, m) \/ HandleAppendAck(n, m)
                              \/ HandleAppendNack(n, m)
    PROVE  LineStep(n)
BY HeartbeatLines, RefuseStaleLines, RepeatVoteAnswerLines, HandlePreVoteLines,
   HandleAppendAckLines, HandleAppendNackLines

LEMMA ActLines ==
    ASSUME TypeOK, TypeOK', VoteInv, ClaimInv, NEW n \in Server, Refuses(n), Acts(n)
    PROVE  LineStep(n)
BY QuietLines, ElectionTimeoutLines, ProposeLines, RestartLines,
   CampaignDurableLines, ReplyDurableLines, LogIsDurableLines,
   HandleNewerTermRespLines, HandleVoteRequestLines, HandleVoteRespLines,
   HandlePreVoteRespLines, RejectAppendLines, AcceptAppendLines, ConfirmAppendLines
DEF Acts

LEMMA StutterLines ==
    ASSUME TypeOK, VoteInv, NEW n \in Server, Refuses(n), UNCHANGED vars
    PROVE  LineStep(n)
BY SilentSays, QuietMoves DEF vars, electionVars, logVars, leaderVars, durableVars

LEMMA LinesAtStart ==
    ASSUME Init
    PROVE  LineInv
<1>0. TypeOK
  BY InitTypes
<1>1. PICK d \in StartDisks : disk = [n \in Server |-> Recovered(d[n])]
  BY DEF Init
<1>2. \A n \in Server : /\ log[n] = disk[n].log /\ role[n] = "Follower" /\ Queued(n) = {}
                        /\ term[n] = disk[n].hard.term
  BY DEF Init, Queued
<1>3. msgs = {}
  BY DEF Init
<1>4. HasHistory(disk)
  BY <1>1, HistoryAssumption
<1>5. ASSUME NEW i, NEW e, NEW b, Known(i, e, b)
      PROVE  \E n \in Server : Holds(disk[n].log, i, e, b)
  BY <1>2, <1>3, <1>5 DEF Known, Stored
<1>6. Ordered
  <2> SUFFICES ASSUME NEW i \in Index, NEW e \in Entry, NEW b \in Nat, Known(i, e, b)
               PROVE  b <= e.term
    BY DEF Ordered
  <2>1. PICK n \in Server : Holds(disk[n].log, i, e, b)
    BY <1>5
  <2> QED
    BY <1>4, <2>1 DEF Holds, HasHistory
<1>7. ASSUME NEW n \in Server, NEW i \in DOMAIN disk[n].log
      PROVE  \E p \in Server : Authored(p, disk[n].log[i].term)
  <2> DEFINE t == disk[n].log[i].term
  <2>1. PICK p \in Server : WasElected(p, t, disk)
    BY <1>4, <1>7 DEF HasHistory
  <2> HIDE DEF t
  <2> DEFINE Q == {v \in Server : Le([term |-> t, vote |-> p], disk[v].hard)}
  <2>2. \A v \in Q : Bound(v, t, p)
    BY <1>2, <1>3 DEF Bound
  <2>3. Q \in SUBSET Server /\ IsQuorum(Q)
    BY <2>1 DEF WasElected
  <2> HIDE DEF Q
  <2>4. Authored(p, t)
    BY <1>2, <2>1, <2>2, <2>3 DEF Authored, WasElected
  <2> QED
    BY <2>4 DEF t
<1>8. Roots
  <2> SUFFICES ASSUME NEW i \in Index, NEW e \in Entry, NEW b \in Nat, Known(i, e, b), i - 1 # 0
               PROVE  \E p \in Server : Authored(p, b)
    BY <1>2 DEF Roots, Rooted
  <2>1. PICK n \in Server : Holds(disk[n].log, i, e, b)
    BY <1>5
  <2>2. disk[n].log \in Seq(Entry)
    BY <1>0, LogTypes
  <2>3. i - 1 \in DOMAIN disk[n].log
    BY <2>1, <2>2 DEF Holds, Index
  <2>4. b = disk[n].log[i - 1].term
    BY <2>1, <2>3 DEF Holds, TermAt, NO_INDEX
  <2> QED
    BY <1>7, <2>3, <2>4
<1>9. Tips
  <2> SUFFICES ASSUME NEW n \in Server
               PROVE  LastTerm(log[n]) <= term[n]
    BY <1>2 DEF Tips
  <2>1. d[n] \in Image /\ disk[n] = Recovered(d[n])
    BY <1>1, StartAssumption
  <2>2. \A i \in DOMAIN disk[n].log : disk[n].log[i].term <= disk[n].hard.term
    BY <2>1, RecoveredTerms
  <2>3. log[n] \in Seq(Entry) /\ term[n] \in Nat /\ Len(log[n]) \in Nat
    BY <1>0 DEF TypeOK
  <2>4. \A i \in DOMAIN log[n] : log[n][i].term <= term[n]
    BY <1>2, <2>2
  <2> DEFINE lg == log[n]
  <2>5. LastTerm(lg) = 0 \/ (Len(lg) \in DOMAIN lg /\ LastTerm(lg) = lg[Len(lg)].term)
    <3> HIDE DEF lg
    <3> QED
      BY <2>3 DEF LastTerm, TermAt, NO_INDEX, lg
  <2> QED
    BY <2>3, <2>4, <2>5
<1>10. Appended /\ Requests
  BY <1>3 DEF Appended, Requests
<1>11. Answered
  BY <1>2, <1>3 DEF Answered, Ack, Owed
<1>12. Counts /\ \A n \in Server : Refuses(n)
  BY <1>2 DEF Counts, Refuses
<1> QED
  BY <1>6, <1>8, <1>9, <1>10, <1>11, <1>12 DEF LineInv

LEMMA EveryStep ==
    ASSUME TypeOK, TypeOK', VoteInv, ClaimInv, MatchInv, LineInv, [Next]_vars
    PROVE  \E n \in Server : Step(n) /\ ClaimStep(n) /\ LogStep(n) /\ LineStep(n)
<1>1. \A n \in Server : Refuses(n)
  BY DEF LineInv
<1>2. CASE Next
  <2>1. PICK n \in Server : Acts(n)
    BY <1>2, NextActs
  <2> QED
    BY <1>1, <2>1, ActMatches, ActLines
<1>3. CASE UNCHANGED vars
  BY <1>1, <1>3, StutterMatches, StutterLines
<1> QED
  BY <1>2, <1>3

(* The inductive invariant, for every cluster and every configuration:     *)
(* where every append stands on the line of its leader, that a candidate   *)
(* asks with the log it has, and that whatever `on_durable` acknowledges,  *)
(* or `on_append_resp` counts, answers an append of that term that reached *)
(* as far.                                                                 *)
THEOREM LinesAreKept == Spec => []LineInv
<1>1. Init => LineInv
  BY LinesAtStart
<1>2. /\ TypeOK /\ TypeOK' /\ VoteInv /\ VoteInv' /\ ClaimInv /\ MatchInv /\ MatchInv'
      /\ LineInv /\ [Next]_vars
      => LineInv'
  BY EveryStep, LineIsKept
<1> QED
  BY <1>1, <1>2, TypeCorrect, VotesAreKept, ClaimsAreBacked, MatchesAreKept, PTL DEF Spec
=============================================================================
