----------------------------- MODULE RaftCommit -----------------------------
(***************************************************************************)
(* What is committed stays committed, for every cluster, every             *)
(* configuration and any number of crashes.                                *)
(*                                                                         *)
(* An entry of term t at index i is closed when nothing of term t was ever *)
(* committed at i or beyond, and a majority has left term t on disk without*)
(* acknowledging i to its leader: no answer still to come can commit it.   *)
(* An entry that is open may be committed, and may have been.  CommitInv   *)
(* says of every open entry what a committed one needs: no line of history *)
(* that goes past it lacks it, the appends of its term and of later ones   *)
(* carry it, whoever acknowledged it has it on disk, and a vote given by   *)
(* one who did went to a candidate that has it.                            *)
(*                                                                         *)
(* AckInv says what an acknowledgement is worth whether or not its entry   *)
(* is open: the follower has it as long as it is in the leader's term.     *)
(***************************************************************************)
EXTENDS RaftMatching, RaftAgreed

Record == [index : Index, entry : Entry, at : Nat]

(* A record is an anchor if a leader declared it of its own term.          *)
IsAnchor(d) == d \in committed /\ d.entry.term = d.at

Anchored(t, i) == \E d \in committed : IsAnchor(d) /\ d.at = t /\ i <= d.index

(* Node v can no longer help to commit index i in term t. *)
Past(v, t, i) == t < disk[v].hard.term /\ ~Ack(v, t, i) /\ ~Owed(v, t, i)

Closed(t, i) ==
    /\ ~Anchored(t, i)
    /\ \E Q \in SUBSET Server : IsQuorum(Q) /\ \A v \in Q : Past(v, t, i)

Open(i, e) == (\E b \in Nat : Known(i, e, b)) /\ ~Closed(e.term, i)

Keeps(v, i, e) == Has(log[v], i, e) /\ i <= durableIndex[v]

(* Node v led term t and said so, or has nobody to say it to. *)
Sender(v, t) ==
    Server = {v} \/ \E m \in msgs : IsAppend(m) /\ m.from = v /\ m.term = t

AckQuorum(t, i) == \E Q \in SUBSET Server : IsQuorum(Q) /\ \A v \in Q : Ack(v, t, i)

(* Node v stands for the commitment of index i in term t: it acknowledged  *)
(* i, or will, or led the term and counted itself.                         *)
Pledged(v, t, i) ==
    \/ Ack(v, t, i) \/ Owed(v, t, i)
    \/ Sender(v, t) /\ Anchored(t, i) /\ ~AckQuorum(t, i)

(* A log with term f at index j goes past index i of term t. *)
Beyond(f, j, t, i) == f > t \/ (f = t /\ j >= i)

(* A log that has entry e at i agrees with append m as far as m reaches,   *)
(* and one that agrees with m beyond i has e.                              *)
Fits(i, e, m) == \A lg \in Seq(Entry) : Coherent(lg) =>
    /\ i >= Last(m) /\ Has(lg, i, e) => Reaches(lg, m)
    /\ i <= Last(m) /\ Reaches(lg, m) => Has(lg, i, e)

-----------------------------------------------------------------------------
(* The invariant. *)

Binds == \A i \in Index : \A e \in Entry : Open(i, e) =>
    \A lg \in Seq(Entry) : Coherent(lg) =>
        \A j \in DOMAIN lg : Beyond(lg[j].term, j, e.term, i) => Has(lg, i, e)

Tails == \A i \in Index : \A e \in Entry : Open(i, e) =>
    \A m \in msgs : IsAppend(m) /\ e.term <= m.term => Fits(i, e, m)

Holders == \A i \in Index : \A e \in Entry : Open(i, e) => \A v \in Server :
    /\ Owed(v, e.term, i) => Has(log[v], i, e)
    /\ Ack(v, e.term, i) => Keeps(v, i, e)

Ballots == \A i \in Index : \A e \in Entry : Open(i, e) =>
    \A k \in Server : role[k] = "Candidate" /\ e.term < term[k] =>
        \A v \in Peers(k) :
            Voted(v, k, term[k]) /\ Pledged(v, e.term, i) => Has(log[k], i, e)

(* What a node takes to be committed was declared so, by its term. *)
Commitments == \A n \in Server : \A j \in Index : j <= commitIndex[n] =>
    \E c \in committed : c.index = j /\ Has(log[n], j, c.entry) /\ c.at <= term[n]

Announced == \A m \in msgs : IsAppend(m) => \A j \in Index : j <= m.commit =>
    \E c \in committed : c.index = j /\ c.at <= m.term

(* A majority has an anchor on disk. *)
Majorities == \A d \in committed : IsAnchor(d) =>
    \E Q \in SUBSET Server : IsQuorum(Q) /\ \A v \in Q :
        Keeps(v, d.index, d.entry) /\ (Ack(v, d.at, d.index) \/ Sender(v, d.at))

(* Every record lies below an anchor. *)
Below(c, d) == \A lg \in Seq(Entry) : Coherent(lg) =>
    (Has(lg, d.index, d.entry) => Has(lg, c.index, c.entry))
Anchors == \A c \in committed : \E d \in committed :
    IsAnchor(d) /\ d.at <= c.at /\ c.index <= d.index /\ Below(c, d)

CommitInv ==
    /\ committed \subseteq Record
    /\ Binds /\ Tails /\ Holders /\ Ballots
    /\ Commitments /\ Announced /\ Majorities /\ Anchors

-----------------------------------------------------------------------------
(* What a step of node n declares. *)

Declared(n) ==
    {[index |-> j, entry |-> log'[n][j], at |-> term'[n]] :
        j \in (commitIndex[n] + 1)..commitIndex'[n]}

(* A leader: what a quorum has, by its own disk and by their answers, up   *)
(* to an entry of its own term.                                            *)
LeaderCommits(n) ==
    /\ role[n] = "Leader" /\ role'[n] = "Leader" /\ log'[n] = log[n] /\ term'[n] = term[n]
    /\ TermAt(log[n], commitIndex'[n]) = term[n]
    /\ \E Q \in SUBSET Server : IsQuorum(Q) /\ \A p \in Q :
         IF p = n THEN commitIndex'[n] <= durableIndex'[n]
         ELSE commitIndex'[n] <= matchIndex'[n][p]

(* A follower: what its leader announced, as far as the append reached. *)
FollowerCommits(n) == role'[n] = "Follower" /\ \E m \in msgs :
    /\ IsAppend(m) /\ m.term = term'[n] /\ Reaches(log'[n], m)
    /\ commitIndex'[n] <= m.commit /\ commitIndex'[n] <= Last(m)
    /\ commitIndex'[n] <= Len(log'[n])

(* A restart: what is committed has to be learnt again. *)
Forgets(n) ==
    /\ committed' = committed /\ commitIndex'[n] = 0
    /\ role'[n] = "Follower" /\ restarts'[n] # restarts[n] /\ UNCHANGED msgs

Commits(n) ==
    /\ \A p \in Server \ {n} : commitIndex'[p] = commitIndex[p]
    /\ \/ committed' = committed /\ commitIndex'[n] = commitIndex[n]
       \/ Forgets(n)
       \/ /\ committed' = committed \cup Declared(n) /\ commitIndex[n] < commitIndex'[n]
          /\ LeaderCommits(n) \/ FollowerCommits(n)

(* All that is known of a step. *)
Turn(n) ==
    /\ TypeOK /\ VoteInv /\ ClaimInv /\ MatchInv /\ LineInv
    /\ TypeOK' /\ VoteInv' /\ ClaimInv' /\ MatchInv' /\ LineInv'
    /\ Step(n) /\ ClaimStep(n) /\ LogStep(n) /\ LineStep(n) /\ Commits(n)

-----------------------------------------------------------------------------
(* Logs that share an entry, or agree with one append. *)

LEMMA EntryIsKnown ==
    TypeOK => \A v \in Server : \A i \in Index : \A e : Has(log[v], i, e) =>
        /\ e \in Entry /\ \E b \in Nat : Known(i, e, b)
<1> SUFFICES ASSUME TypeOK, NEW v \in Server, NEW i \in Index, NEW e, Has(log[v], i, e)
             PROVE  e \in Entry /\ \E b \in Nat : Known(i, e, b)
  OBVIOUS
<1>1. log[v] \in Seq(Entry)
  BY LogTypes
<1>2. i \in DOMAIN log[v] /\ log[v][i] = e /\ i - 1 \in 0..Len(log[v])
  BY <1>1 DEF Has, Index
<1>3. e \in Entry /\ TermAt(log[v], i - 1) \in Nat
  BY <1>1, <1>2, EntryTerm, TermAtType
<1>4. Holds(log[v], i, e, TermAt(log[v], i - 1))
  BY <1>2 DEF Holds
<1> QED
  BY <1>3, <1>4 DEF Known

LEMMA MemoryIsCoherent ==
    TypeOK => \A v \in Server : log[v] \in Seq(Entry) /\ Coherent(log[v])
  BY LogsAreCoherent DEF IsLog

LEMMA MemoryIsCoherentNext ==
    TypeOK' => \A v \in Server : log'[v] \in Seq(Entry) /\ Coherent(log[v])'
<1>1. TypeOK' => (\A v \in Server : log[v] \in Seq(Entry) /\ Coherent(log[v]))'
  BY MemoryIsCoherent, PTL
<1> QED
  BY <1>1

LEMMA HasAgree ==
    ASSUME NEW lg \in Seq(Entry), NEW new \in Seq(Entry), NEW i \in Index, NEW e,
           Has(lg, i, e), Has(new, i, e)
    PROVE  i \in DOMAIN lg /\ TermAt(lg, i) = TermAt(new, i)
<1>1. i # 0
  BY DEF Index
<1> QED
  BY <1>1 DEF Has, TermAt, NO_INDEX

LEMMA SameTerms ==
    ASSUME NEW lg \in Seq(Entry), NEW new \in Seq(Entry), NEW i \in Nat, Same(lg, new, i),
           NEW j \in 0..i
    PROVE  TermAt(lg, j) = TermAt(new, j)
<1>1. CASE j = 0
  BY <1>1 DEF TermAt, NO_INDEX
<1>2. CASE j # 0
  <2>1. j \in 1..i
    BY <1>2
  <2> QED
    BY <1>2, <2>1 DEF Same, TermAt, NO_INDEX
<1> QED
  BY <1>1, <1>2

LEMMA SameHas ==
    ASSUME NEW lg, NEW new, NEW i \in Nat, Same(lg, new, i), NEW j \in Index, j <= i, NEW e
    PROVE  Has(lg, j, e) <=> Has(new, j, e)
<1>1. j \in 1..i
  BY DEF Index
<1> QED
  BY <1>1 DEF Same, Has

(* Two logs that agree with an append as far as it reaches agree. *)
LEMMA ReachAgree ==
    ASSUME NEW lg \in Seq(Entry), NEW new \in Seq(Entry), NEW m \in Message, IsAppend(m),
           Reaches(lg, m), Reaches(new, m), Last(m) # 0
    PROVE  Last(m) \in DOMAIN lg /\ TermAt(lg, Last(m)) = TermAt(new, Last(m))
<1>1. Last(m) \in Nat /\ TailTerm(m) \in Nat
  BY AppendTypes
<1>2. TermAt(lg, Last(m)) = TailTerm(m) /\ TermAt(new, Last(m)) = TailTerm(m)
  BY DEF Reaches
<1>3. NoTerm \notin Nat
  BY DEF NoTerm
<1> QED
  BY <1>1, <1>2, <1>3 DEF TermAt, NO_INDEX

(* Terms do not decrease along a log. *)
LEMMA HasIsBelow ==
    Ordered => \A lg \in Seq(Entry) : \A i \in Index : \A e \in Entry :
        Coherent(lg) /\ Has(lg, i, e) => e.term <= LastTerm(lg) /\ i <= Len(lg)
<1> SUFFICES ASSUME Ordered, NEW lg \in Seq(Entry), NEW i \in Index, NEW e \in Entry,
                    Coherent(lg), Has(lg, i, e)
             PROVE  e.term <= LastTerm(lg) /\ i <= Len(lg)
  OBVIOUS
<1>1. i \in DOMAIN lg /\ lg[i] = e /\ i <= Len(lg) /\ Len(lg) \in DOMAIN lg /\ i \in 1..Len(lg)
      /\ Len(lg) # 0
  BY DEF Has, Index
<1>2. lg[i].term <= lg[Len(lg)].term
  BY <1>1, CoherentOrder
<1>3. LastTerm(lg) = lg[Len(lg)].term
  BY <1>1 DEF LastTerm, TermAt, NO_INDEX
<1> QED
  BY <1>1, <1>2, <1>3

LEMMA HasIsOfTerm ==
    TypeOK /\ LineInv => \A n \in Server : \A i \in Index : \A e :
        Has(log[n], i, e) => e \in Entry /\ e.term \in Nat /\ e.term <= term[n] /\ i <= Len(log[n])
<1> SUFFICES ASSUME TypeOK, LineInv, NEW n \in Server, NEW i \in Index, NEW e, Has(log[n], i, e)
             PROVE  e \in Entry /\ e.term \in Nat /\ e.term <= term[n] /\ i <= Len(log[n])
  OBVIOUS
<1>1. e \in Entry /\ log[n] \in Seq(Entry) /\ Coherent(log[n])
  BY EntryIsKnown, MemoryIsCoherent
<1>2. e.term <= LastTerm(log[n]) /\ i <= Len(log[n])
  BY <1>1, HasIsBelow DEF LineInv
<1>3. LastTerm(log[n]) <= term[n] /\ term[n] \in Nat /\ LastTerm(log[n]) \in Nat
  BY <1>1, LastTermType DEF LineInv, Tips, TypeOK
<1>4. e.term \in Nat
  BY <1>1 DEF Entry
<1> QED
  BY <1>1, <1>2, <1>3, <1>4

-----------------------------------------------------------------------------
(* What fits an append. *)

LEMMA AppendIsTyped ==
    TypeOK => \A m \in msgs : IsAppend(m) =>
        m \in Message /\ Last(m) \in Nat /\ TailTerm(m) \in Nat /\ m.term \in Nat /\ m.commit \in Nat
  BY AppendTypes DEF TypeOK

LEMMA FitsByExample ==
    ASSUME Unique, NEW m \in Message, IsAppend(m), NEW lg \in Seq(Entry), Coherent(lg),
           NEW i \in Index, NEW e, Has(lg, i, e), Reaches(lg, m)
    PROVE  Fits(i, e, m)
<1>1. Last(m) \in Nat /\ i \in Nat /\ i # 0
  BY AppendTypes DEF Index
<1>2. SUFFICES ASSUME NEW new \in Seq(Entry), Coherent(new)
               PROVE  /\ i >= Last(m) /\ Has(new, i, e) => Reaches(new, m)
                      /\ i <= Last(m) /\ Reaches(new, m) => Has(new, i, e)
  BY DEF Fits
<1>3. ASSUME i >= Last(m), Has(new, i, e)
      PROVE  Reaches(new, m)
  <2>1. Same(lg, new, i)
    BY <1>2, <1>3, HasAgree, CoherentAgree
  <2>2. Last(m) \in 0..i
    BY <1>1, <1>3
  <2> QED
    BY <1>1, <2>1, <2>2, SameTerms DEF Reaches
<1>4. ASSUME i <= Last(m), Reaches(new, m)
      PROVE  Has(new, i, e)
  <2>1. Last(m) # 0
    BY <1>1, <1>4
  <2>2. Same(lg, new, Last(m))
    BY <1>2, <1>4, <2>1, ReachAgree, CoherentAgree
  <2> QED
    BY <1>1, <1>4, <2>2, SameHas
<1> QED
  BY <1>3, <1>4

LEMMA LeaderFits ==
    TypeOK /\ MatchInv /\ LineInv => \A n \in Server : role[n] = "Leader" =>
        \A m \in msgs : IsAppend(m) /\ m.term = term[n] =>
            \A i \in Index : \A e : Has(log[n], i, e) => Fits(i, e, m)
<1> SUFFICES ASSUME TypeOK, MatchInv, LineInv, NEW n \in Server, role[n] = "Leader",
                    NEW m \in msgs, IsAppend(m), m.term = term[n],
                    NEW i \in Index, NEW e, Has(log[n], i, e)
             PROVE  Fits(i, e, m)
  OBVIOUS
<1>1. Reaches(log[n], m)
  BY DEF LineInv, Appended
<1>2. m \in Message /\ log[n] \in Seq(Entry) /\ Coherent(log[n]) /\ Unique
  BY AppendIsTyped, MemoryIsCoherent DEF MatchInv
<1> QED
  BY <1>1, <1>2, FitsByExample

LEMMA LeaderFitsNext ==
    TypeOK' /\ MatchInv' /\ LineInv' => \A n \in Server : role'[n] = "Leader" =>
        \A m \in msgs' : IsAppend(m) /\ m.term = term'[n] =>
            \A i \in Index : \A e : Has(log'[n], i, e) => Fits(i, e, m)'
<1>1. TypeOK' /\ MatchInv' /\ LineInv' => (\A n \in Server : role[n] = "Leader" =>
        \A m \in msgs : IsAppend(m) /\ m.term = term[n] =>
            \A i \in Index : \A e : Has(log[n], i, e) => Fits(i, e, m))'
  BY LeaderFits, PTL
<1> QED
  BY <1>1 DEF Has

(* An anchor is open, and somebody has it. *)
LEMMA AnchorIsOpen ==
    TypeOK /\ committed \subseteq Record /\ Majorities => \A d : IsAnchor(d) =>
        /\ d \in Record /\ Open(d.index, d.entry)
        /\ \E v \in Server : Has(log[v], d.index, d.entry)
<1> SUFFICES ASSUME TypeOK, committed \subseteq Record, Majorities, NEW d, IsAnchor(d)
             PROVE  /\ d \in Record /\ Open(d.index, d.entry)
                    /\ \E v \in Server : Has(log[v], d.index, d.entry)
  OBVIOUS
<1>1. d \in Record /\ d \in committed /\ d.entry.term = d.at
  BY DEF IsAnchor
<1>2. d.index \in Index /\ d.entry \in Entry /\ d.index <= d.index
  BY <1>1 DEF Record, Index
<1>3. PICK Q \in SUBSET Server : IsQuorum(Q) /\ \A v \in Q : Keeps(v, d.index, d.entry)
  BY <1>1 DEF Majorities
<1>4. PICK v \in Q : TRUE
  BY <1>3, QuorumsIntersect
<1>5. Has(log[v], d.index, d.entry)
  BY <1>3, <1>4 DEF Keeps
<1>6. \E b \in Nat : Known(d.index, d.entry, b)
  BY <1>2, <1>4, <1>5, EntryIsKnown
<1>7. ~Closed(d.entry.term, d.index)
  BY <1>1, <1>2 DEF Closed, Anchored
<1> QED
  BY <1>1, <1>4, <1>5, <1>6, <1>7 DEF Open

(* What was committed by a term fits every append of that term or later. *)
LEMMA CommittedFits ==
    TypeOK /\ MatchInv /\ CommitInv => \A c \in committed : \A m \in msgs :
        IsAppend(m) /\ c.at <= m.term => Fits(c.index, c.entry, m)
<1> SUFFICES ASSUME TypeOK, MatchInv, CommitInv, NEW c \in committed, NEW m \in msgs,
                    IsAppend(m), c.at <= m.term
             PROVE  Fits(c.index, c.entry, m)
  OBVIOUS
<1>1. /\ m \in Message /\ Last(m) \in Nat /\ m.term \in Nat
      /\ c.index \in Index /\ c.entry \in Entry /\ c.at \in Nat /\ Unique
  BY AppendIsTyped DEF CommitInv, Record, MatchInv
<1>2. PICK d \in committed : IsAnchor(d) /\ d.at <= c.at /\ c.index <= d.index /\ Below(c, d)
  BY DEF CommitInv, Anchors
<1>3. /\ d \in Record /\ Open(d.index, d.entry)
      /\ \E v \in Server : Has(log[v], d.index, d.entry)
  BY <1>2, AnchorIsOpen DEF CommitInv
<1>4. PICK v \in Server : Has(log[v], d.index, d.entry)
  BY <1>3
<1>5. d.index \in Index /\ d.entry \in Entry /\ d.entry.term = d.at /\ d.at \in Nat
      /\ d.index \in Nat /\ c.index \in Nat /\ c.index # 0
  BY <1>1, <1>2, <1>3 DEF IsAnchor, Record, Index
<1>6. Fits(d.index, d.entry, m)
  <2>1. d.entry.term <= m.term
    BY <1>1, <1>2, <1>5
  <2> QED
    BY <1>3, <1>5, <2>1 DEF CommitInv, Tails
<1>7. log[v] \in Seq(Entry) /\ Coherent(log[v])
  BY <1>4, MemoryIsCoherent
<1>8. Has(log[v], c.index, c.entry)
  BY <1>2, <1>4, <1>7 DEF Below
<1>9. CASE d.index >= Last(m)
  <2>1. Reaches(log[v], m)
    BY <1>4, <1>6, <1>7, <1>9 DEF Fits
  <2> QED
    BY <1>1, <1>7, <1>8, <2>1, FitsByExample
<1>10. CASE d.index <= Last(m)
  <2>1. SUFFICES ASSUME NEW lg \in Seq(Entry), Coherent(lg)
                 PROVE  /\ c.index >= Last(m) /\ Has(lg, c.index, c.entry) => Reaches(lg, m)
                        /\ c.index <= Last(m) /\ Reaches(lg, m) => Has(lg, c.index, c.entry)
    BY DEF Fits
  <2>2. ASSUME Reaches(lg, m)
        PROVE  Has(lg, c.index, c.entry)
    BY <1>2, <1>6, <1>10, <2>1, <2>2 DEF Fits, Below
  <2>3. ASSUME c.index >= Last(m), Has(lg, c.index, c.entry)
        PROVE  Reaches(lg, m)
    <3>1. d.index >= Last(m)
      BY <1>1, <1>2, <1>5, <2>3
    <3> QED
      BY <1>9, <2>1, <2>3, <3>1 DEF Fits
  <2> QED
    BY <2>2, <2>3
<1> QED
  BY <1>1, <1>5, <1>9, <1>10

(* A log that is replaced keeps what fits the append. *)
LEMMA AcceptKeeps ==
    ASSUME NEW n \in Server, Turn(n), NEW m \in msgs, Accepts(n, m), NEW i \in Index, NEW e,
           Fits(i, e, m), Has(log[n], i, e)
    PROVE  Has(log'[n], i, e) /\ (i <= durableIndex[n] => i <= durableIndex'[n])
<1>1. /\ TypeOK /\ TypeOK' /\ VoteInv /\ VoteInv' /\ MatchInv /\ MatchInv' /\ Roots /\ Unique
      /\ Step(n) /\ ClaimStep(n) /\ LogStep(n)
  BY DEF Turn, LineInv, MatchInv
<1>2. PICK lg \in Seq(Entry) : lg = log[n] /\ Coherent(lg)
  BY <1>1, MemoryIsCoherent
<1>3. PICK new \in Seq(Entry) : new = log'[n] /\ Coherent(new)'
  BY <1>1, MemoryIsCoherentNext
<1>4. Coherent(new)
  <2>1. role'[n] # "Leader"
    BY DEF Accepts
  <2> QED
    BY <1>1, <1>3, <2>1, CoherentOrFresh
<1>5. /\ m \in Message /\ Last(m) \in Nat /\ IsAppend(m) /\ Reaches(new, m)
      /\ i \in Nat /\ i # 0
  BY <1>1, <1>3, AppendIsTyped DEF Accepts, Index
<1>6. PICK s \in 1..Last(m) : /\ TermAt(lg, s) # TermAt(new, s)
                              /\ durableIndex'[n] = MinOf(durableIndex[n], s - 1)
  BY <1>2, <1>3 DEF Accepts
<1>7. durableIndex[n] \in Nat
  BY <1>1 DEF TypeOK
<1>8. ASSUME NEW x \in Nat, Same(lg, new, x)
      PROVE  x < s
  <2> SUFFICES ASSUME s <= x
               PROVE  FALSE
    BY <1>5
  <2>1. s \in 0..x
    BY <1>5
  <2> QED
    BY <1>6, <1>8, <2>1, SameTerms
<1>9. ~(i >= Last(m))
  <2> SUFFICES ASSUME i >= Last(m)
               PROVE  FALSE
    OBVIOUS
  <2>1. Reaches(lg, m)
    BY <1>2 DEF Fits
  <2>2. Last(m) # 0
    BY <1>5
  <2>3. Same(lg, new, Last(m))
    BY <1>1, <1>2, <1>4, <1>5, <2>1, <2>2, ReachAgree, CoherentAgree
  <2>4. Last(m) < s
    BY <1>5, <1>8, <2>3
  <2> QED
    BY <1>5, <2>4
<1>10. Has(new, i, e)
  BY <1>4, <1>5, <1>9 DEF Fits
<1>11. i < s
  <2>1. Same(lg, new, i)
    BY <1>1, <1>2, <1>4, <1>10, HasAgree, CoherentAgree
  <2> QED
    BY <1>5, <1>8, <2>1
<1>12. i <= durableIndex[n] => i <= durableIndex'[n]
  BY <1>5, <1>6, <1>7, <1>11 DEF MinOf
<1> QED
  BY <1>3, <1>10, <1>12

(* What a node has of an open entry it keeps, but for what a crash may     *)
(* take; and it keeps what it claimed.                                     *)
LEMMA ExtendedHas ==
    ASSUME TypeOK, NEW n \in Server, Extends(n), NEW i \in Index, NEW e, Has(log[n], i, e)
    PROVE  Has(log'[n], i, e)
<1>1. PICK f \in Entry : log'[n] = Append(log[n], f)
  BY DEF Extends
<1>2. PICK lg \in Seq(Entry) : lg = log[n]
  BY DEF TypeOK
<1> QED
  BY <1>1, <1>2 DEF Has

LEMMA FittingIsKept ==
    ASSUME NEW n \in Server, Turn(n), NEW v \in Server, NEW i \in Index, NEW e,
           Has(log[v], i, e),
           \A m \in msgs : Accepts(n, m) /\ v = n => Fits(i, e, m)
    PROVE  /\ ~(v = n /\ Recovers(n)) => Has(log'[v], i, e)
           /\ i <= durableIndex[v] => Has(log'[v], i, e) /\ i <= durableIndex'[v]
<1>1. /\ TypeOK /\ TypeOK' /\ ClaimStep(n) /\ Moves(n)
  BY DEF Turn, LineStep
<1>2. CASE v # n
  BY <1>1, <1>2 DEF ClaimStep, LogsAlone
<1>3. CASE v = n
  <2>1. durableIndex[n] \in Nat /\ durableIndex'[n] \in Nat /\ i \in Nat
    BY <1>1 DEF TypeOK, Index
  <2>2. CASE Stays(n)
    <3>1. Has(log'[n], i, e)
      BY <1>3, <2>2 DEF Stays
    <3> QED
      BY <1>3, <2>1, <2>2, <3>1 DEF Stays
  <2>3. CASE Adds(n)
    <3>1. Has(log'[n], i, e)
      BY <1>1, <1>3, <2>3, ExtendedHas DEF Adds
    <3> QED
      BY <1>3, <2>1, <2>3, <3>1 DEF Adds
  <2>4. ASSUME NEW m \in msgs, Accepts(n, m)
        PROVE  Has(log'[n], i, e) /\ (i <= durableIndex[n] => i <= durableIndex'[n])
    BY <1>3, <2>4, AcceptKeeps
  <2>5. CASE Recovers(n)
    <3> SUFFICES ASSUME i <= durableIndex[n]
                 PROVE  Has(log'[n], i, e) /\ i <= durableIndex'[n]
      BY <1>3, <2>5
    <3>1. Kept(n, i) /\ durableIndex'[n] = Len(log'[n])
      BY <2>5 DEF Recovers
    <3>2. Has(log'[n], i, e)
      BY <1>3, <3>1 DEF Kept, Has
    <3>3. PICK new \in Seq(Entry) : new = log'[n]
      BY <1>1 DEF TypeOK
    <3> QED
      BY <3>1, <3>2, <3>3 DEF Has
  <2> QED
    BY <1>1, <1>3, <2>2, <2>3, <2>4, <2>5 DEF Moves
<1> QED
  BY <1>2, <1>3

LEMMA OpenIsKept ==
    ASSUME NEW n \in Server, Turn(n), Tails, NEW v \in Server, NEW i \in Index,
           NEW e \in Entry, Open(i, e), Has(log[v], i, e)
    PROVE  /\ ~(v = n /\ Recovers(n)) => Has(log'[v], i, e)
           /\ i <= durableIndex[v] => Has(log'[v], i, e) /\ i <= durableIndex'[v]
<1>1. TypeOK /\ LineInv
  BY DEF Turn
<1>2. ASSUME NEW m \in msgs, Accepts(n, m), v = n
      PROVE  Fits(i, e, m)
  <2>1. e.term \in Nat /\ e.term <= term[n] /\ term[n] \in Nat
    BY <1>1, <1>2, HasIsOfTerm DEF TypeOK
  <2>2. IsAppend(m) /\ m.term \in Nat /\ term[n] <= m.term
    BY <1>1, <1>2, AppendIsTyped DEF Accepts
  <2> QED
    BY <2>1, <2>2 DEF Tails
<1> QED
  BY <1>2, FittingIsKept

LEMMA KeepsIsKept ==
    ASSUME NEW n \in Server, Turn(n), Tails, NEW v \in Server, NEW i \in Index,
           NEW e \in Entry, Open(i, e), Keeps(v, i, e)
    PROVE  Keeps(v, i, e)'
<1>1. Has(log[v], i, e) /\ i <= durableIndex[v]
  BY DEF Keeps
<1>2. Has(log'[v], i, e) /\ i <= durableIndex'[v]
  BY <1>1, OpenIsKept
<1> QED
  BY <1>2 DEF Keeps, Has

-----------------------------------------------------------------------------
(* What is declared. *)

LEMMA CommittedIsOfTerm ==
    TypeOK /\ LineInv /\ CommitInv => \A c \in committed :
        /\ c.index \in Index /\ c.entry \in Entry /\ c.at \in Nat
        /\ c.entry.term \in Nat /\ c.entry.term <= c.at
        /\ c = [index |-> c.index, entry |-> c.entry, at |-> c.at]
<1> SUFFICES ASSUME TypeOK, LineInv, CommitInv, NEW c \in committed
             PROVE  /\ c.index \in Index /\ c.entry \in Entry /\ c.at \in Nat
                    /\ c.entry.term \in Nat /\ c.entry.term <= c.at
                    /\ c = [index |-> c.index, entry |-> c.entry, at |-> c.at]
  OBVIOUS
<1>1. /\ c.index \in Index /\ c.entry \in Entry /\ c.at \in Nat /\ c.entry.term \in Nat
      /\ c = [index |-> c.index, entry |-> c.entry, at |-> c.at]
  BY DEF CommitInv, Record, Entry
<1>2. PICK d \in committed : IsAnchor(d) /\ d.at <= c.at /\ c.index <= d.index /\ Below(c, d)
  BY DEF CommitInv, Anchors
<1>3. d \in Record /\ d.entry.term = d.at /\ \E v \in Server : Has(log[v], d.index, d.entry)
  BY <1>2, AnchorIsOpen DEF CommitInv, IsAnchor
<1>4. PICK v \in Server : Has(log[v], d.index, d.entry)
  BY <1>3
<1>5. log[v] \in Seq(Entry) /\ Coherent(log[v])
  BY <1>4, MemoryIsCoherent
<1>6. Has(log[v], c.index, c.entry)
  BY <1>2, <1>4, <1>5 DEF Below
<1>7. d.index \in DOMAIN log[v] /\ c.index \in 1..d.index
  BY <1>1, <1>2, <1>3, <1>4 DEF Has, Record, Index
<1>8. log[v][c.index].term <= log[v][d.index].term
  BY <1>5, <1>7, CoherentOrder DEF LineInv
<1>9. c.entry.term <= d.at /\ d.at \in Nat
  BY <1>3, <1>4, <1>6, <1>8 DEF Has, Record
<1> QED
  BY <1>1, <1>2, <1>9

LEMMA DeclaredIsTyped ==
    ASSUME NEW n \in Server, TypeOK, TypeOK', LeaderCommits(n) \/ FollowerCommits(n),
           NEW c \in Declared(n)
    PROVE  /\ c \in Record /\ c.at = term'[n] /\ Has(log'[n], c.index, c.entry)
           /\ c.index > commitIndex[n] /\ c.index <= commitIndex'[n]
           /\ commitIndex'[n] \in DOMAIN log'[n]
<1>1. PICK j \in (commitIndex[n] + 1)..commitIndex'[n] :
        c = [index |-> j, entry |-> log'[n][j], at |-> term'[n]]
  BY DEF Declared
<1>2. /\ commitIndex[n] \in Nat /\ commitIndex'[n] \in Nat /\ term'[n] \in Nat
      /\ log'[n] \in Seq(Entry) /\ log[n] \in Seq(Entry) /\ term[n] \in Nat
  BY DEF TypeOK
<1>3. commitIndex'[n] \in 1..Len(log'[n])
  <2>1. commitIndex'[n] >= 1
    BY <1>1, <1>2
  <2>2. CASE LeaderCommits(n)
    <3>1. TermAt(log[n], commitIndex'[n]) \in Nat /\ log'[n] = log[n]
      BY <1>2, <2>2 DEF LeaderCommits
    <3> QED
      BY <1>2, <2>1, <3>1, TermAtType
  <2>3. CASE FollowerCommits(n)
    BY <1>2, <2>1, <2>3 DEF FollowerCommits
  <2> QED
    BY <2>2, <2>3
<1>4. j \in 1..Len(log'[n]) /\ j \in Index
  BY <1>1, <1>2, <1>3 DEF Index
<1>5. log'[n][j] \in Entry
  BY <1>2, <1>4
<1> QED
  BY <1>1, <1>2, <1>3, <1>4, <1>5 DEF Record, Has

(* A follower declares nothing that was not declared before. *)
LEMMA FollowerRepeats ==
    ASSUME NEW n \in Server, Turn(n), CommitInv, FollowerCommits(n), NEW c \in Declared(n)
    PROVE  \E o \in committed : o.index = c.index /\ o.entry = c.entry /\ o.at <= c.at
<1>1. /\ TypeOK /\ TypeOK' /\ VoteInv /\ VoteInv' /\ MatchInv /\ MatchInv' /\ Roots /\ LineInv
      /\ Step(n) /\ ClaimStep(n) /\ LogStep(n)
  BY DEF Turn, LineInv
<1>2. PICK m \in msgs :
        /\ IsAppend(m) /\ m.term = term'[n] /\ Reaches(log'[n], m)
        /\ commitIndex'[n] <= m.commit /\ commitIndex'[n] <= Last(m)
  BY DEF FollowerCommits
<1>3. /\ c.index \in Index /\ c.at = term'[n] /\ Has(log'[n], c.index, c.entry)
      /\ c.index <= commitIndex'[n]
  BY <1>1, DeclaredIsTyped DEF Record
<1>4. m.commit \in Nat /\ Last(m) \in Nat /\ commitIndex'[n] \in Nat /\ c.index \in Nat
  BY <1>1, <1>2, <1>3, AppendIsTyped DEF TypeOK, Index
<1>5. c.index <= m.commit /\ c.index <= Last(m)
  BY <1>2, <1>3, <1>4
<1>6. PICK o \in committed : o.index = c.index /\ o.at <= m.term
  BY <1>2, <1>3, <1>5 DEF CommitInv, Announced
<1>7. Fits(o.index, o.entry, m)
  BY <1>1, <1>2, <1>6, CommittedFits
<1>8. PICK new \in Seq(Entry) : new = log'[n] /\ Coherent(new)'
  BY <1>1, MemoryIsCoherentNext
<1>9. Coherent(new)
  <2>1. role'[n] # "Leader"
    BY DEF FollowerCommits
  <2> QED
    BY <1>1, <1>8, <2>1, CoherentOrFresh
<1>10. Has(new, o.index, o.entry)
  BY <1>2, <1>5, <1>6, <1>7, <1>8, <1>9 DEF Fits
<1> QED
  BY <1>2, <1>3, <1>6, <1>8, <1>10 DEF Has

(* Whatever is declared was declared before, or is by a leader. *)
LEMMA DeclaredOrigin ==
    ASSUME NEW n \in Server, Turn(n), CommitInv, NEW c \in committed', c \notin committed
    PROVE  /\ c \in Declared(n)
           /\ \/ LeaderCommits(n)
              \/ /\ FollowerCommits(n) /\ c.entry.term # c.at
                 /\ \E o \in committed : o.index = c.index /\ o.entry = c.entry /\ o.at <= c.at
<1>1. c \in Declared(n) /\ (LeaderCommits(n) \/ FollowerCommits(n)) /\ TypeOK /\ TypeOK' /\ LineInv
  BY DEF Turn, Commits, Forgets
<1>2. CASE FollowerCommits(n)
  <2>1. PICK o \in committed : o.index = c.index /\ o.entry = c.entry /\ o.at <= c.at
    BY <1>1, <1>2, FollowerRepeats
  <2>2. ASSUME c.entry.term = c.at
        PROVE  FALSE
    <3>1. c \in Record
      BY <1>1, DeclaredIsTyped
    <3>2. o.entry.term \in Nat /\ o.entry.term <= o.at /\ o.at \in Nat
          /\ o = [index |-> o.index, entry |-> o.entry, at |-> o.at]
      BY <1>1, CommittedIsOfTerm
    <3>3. o.at = c.at
      BY <2>1, <2>2, <3>2
    <3>4. c = [index |-> c.index, entry |-> c.entry, at |-> c.at]
      BY <3>1 DEF Record
    <3> QED
      BY <2>1, <3>2, <3>3, <3>4
  <2> QED
    BY <1>1, <1>2, <2>1, <2>2
<1> QED
  BY <1>1, <1>2

LEMMA LeaderCounted ==
    ASSUME NEW n \in Server, Turn(n), LeaderCommits(n)
    PROVE  \E Q \in SUBSET Server : IsQuorum(Q) /\ \A p \in Q :
             IF p = n THEN commitIndex'[n] <= durableIndex'[n]
             ELSE \A x \in Index : x <= commitIndex'[n] => Ack(p, term[n], x)
<1>1. PICK Q \in SUBSET Server : IsQuorum(Q) /\ \A p \in Q :
         IF p = n THEN commitIndex'[n] <= durableIndex'[n]
         ELSE commitIndex'[n] <= matchIndex'[n][p]
  BY DEF LeaderCommits
<1>2. TypeOK' /\ Hears(n) /\ Counts /\ role[n] = "Leader" /\ role'[n] = "Leader"
  BY DEF Turn, LineStep, LineInv, LeaderCommits
<1>3. ASSUME NEW p \in Q, p # n, NEW x \in Index, x <= commitIndex'[n]
      PROVE  Ack(p, term[n], x)
  <2>1. p \in Server /\ commitIndex'[n] \in Nat /\ matchIndex'[n][p] \in Nat /\ x \in Nat
    BY <1>1, <1>2 DEF TypeOK, Index
  <2>2. x <= matchIndex'[n][p]
    BY <1>1, <1>3, <2>1
  <2> QED
    BY <1>2, <2>1, <2>2 DEF Hears, Counts
<1> QED
  BY <1>1, <1>3

LEMMA CommittedGrows ==
    ASSUME NEW n \in Server, Turn(n)
    PROVE  committed \subseteq committed'
  BY DEF Turn, Commits, Forgets

LEMMA AnchoredIsKept ==
    ASSUME NEW n \in Server, Turn(n), NEW t, NEW i, Anchored(t, i)
    PROVE  Anchored(t, i)'
  BY CommittedGrows DEF Anchored, IsAnchor

LEMMA DiskIsPast ==
    TypeOK /\ VoteInv => \A v \in Server :
        disk[v].hard.term \in Nat /\ term[v] \in Nat /\ disk[v].hard.term <= term[v]
<1> SUFFICES ASSUME TypeOK, VoteInv, NEW v \in Server
             PROVE  disk[v].hard.term \in Nat /\ term[v] \in Nat /\ disk[v].hard.term <= term[v]
  OBVIOUS
<1>1. HardTyped(v) /\ Chain(v)
  BY HardTypes DEF VoteInv
<1>2. disk[v].hard.term <= Hard(v).term
  BY <1>1, LeTerm DEF HardTyped, Chain
<1> QED
  BY <1>1, <1>2 DEF HardTyped, HardState, TypeOK

LEMMA DiskIsPastNext ==
    TypeOK' /\ VoteInv' => \A v \in Server :
        disk'[v].hard.term \in Nat /\ term'[v] \in Nat /\ disk'[v].hard.term <= term'[v]
<1>1. TypeOK' /\ VoteInv' => (\A v \in Server :
        disk[v].hard.term \in Nat /\ term[v] \in Nat /\ disk[v].hard.term <= term[v])'
  BY DiskIsPast, PTL
<1> QED
  BY <1>1

(* The answers of a node that left the term are all given. *)
LEMMA AnswersAreOver ==
    ASSUME NEW n \in Server, Turn(n), NEW v \in Server, NEW t \in Nat, NEW i \in Index,
           v = n => t < term'[n],
           Ack(v, t, i)' \/ Owed(v, t, i)'
    PROVE  Ack(v, t, i) \/ Owed(v, t, i)
<1>1. TypeOK /\ TypeOK' /\ Step(n) /\ ClaimStep(n) /\ LineStep(n) /\ term'[n] \in Nat
  BY DEF Turn, TypeOK
<1>2. ~(v = n /\ Vouched(n, t, i))
  BY <1>1 DEF Vouched
<1>3. CASE Ack(v, t, i)'
  BY <1>1, <1>2, <1>3, AckToday
<1>4. CASE Owed(v, t, i)'
  BY <1>1, <1>2, <1>4, OwedToday
<1> QED
  BY <1>3, <1>4

LEMMA ClosedIsKept ==
    ASSUME NEW n \in Server, Turn(n), CommitInv, NEW t \in Nat, NEW i \in Index, Closed(t, i)
    PROVE  Closed(t, i)'
<1>1. TypeOK /\ TypeOK' /\ VoteInv /\ VoteInv' /\ LineInv /\ Step(n)
  BY DEF Turn
<1>2. PICK Q \in SUBSET Server : IsQuorum(Q) /\ \A v \in Q : Past(v, t, i)
  BY DEF Closed
<1>3. ASSUME NEW v \in Q
      PROVE  Past(v, t, i)'
  <2>1. v \in Server /\ t < disk[v].hard.term /\ ~Ack(v, t, i) /\ ~Owed(v, t, i)
    BY <1>2 DEF Past
  <2>2. /\ disk[v].hard.term \in Nat /\ disk'[v].hard.term \in Nat
        /\ disk[v].hard.term <= disk'[v].hard.term
    BY <1>1, <2>1, DisksGrow
  <2>3. disk'[v].hard.term <= term'[v] /\ term'[v] \in Nat
    BY <1>1, <2>1, DiskIsPastNext
  <2>4. t < disk'[v].hard.term /\ t < term'[v]
    BY <2>1, <2>2, <2>3
  <2>5. ~Ack(v, t, i)' /\ ~Owed(v, t, i)'
    BY <2>1, <2>4, AnswersAreOver
  <2> QED
    BY <2>4, <2>5 DEF Past
<1>4. ASSUME Anchored(t, i)'
      PROVE  FALSE
  <2>1. PICK d \in committed' : IsAnchor(d)' /\ d.at = t /\ i <= d.index
    BY <1>4 DEF Anchored
  <2>2. d.entry.term = d.at
    BY <2>1 DEF IsAnchor
  <2>3. d \notin committed
    BY <2>1, <2>2 DEF Closed, Anchored, IsAnchor
  <2>4. LeaderCommits(n) /\ d \in Declared(n)
    BY <2>1, <2>2, <2>3, DeclaredOrigin
  <2>5. d.at = term'[n] /\ d.index <= commitIndex'[n] /\ d.index \in Index
    BY <1>1, <2>4, DeclaredIsTyped DEF Record
  <2>6. t = term[n] /\ i <= commitIndex'[n]
    <3>1. term'[n] = term[n]
      BY <2>4 DEF LeaderCommits
    <3>2. commitIndex'[n] \in Nat
      BY <1>1 DEF TypeOK
    <3> QED
      BY <2>1, <2>5, <3>1, <3>2 DEF Index
  <2>7. PICK P \in SUBSET Server : IsQuorum(P) /\ \A p \in P :
             IF p = n THEN commitIndex'[n] <= durableIndex'[n]
             ELSE \A x \in Index : x <= commitIndex'[n] => Ack(p, term[n], x)
    BY <2>4, LeaderCounted
  <2>8. PICK p \in P : p \in Q
    BY <1>2, <2>7, QuorumsIntersect
  <2>9. t < disk[p].hard.term /\ ~Ack(p, t, i)
    BY <1>2, <2>8 DEF Past
  <2>10. p # n
    BY <1>1, <2>6, <2>9, DiskIsPast
  <2> QED
    BY <2>6, <2>7, <2>8, <2>9, <2>10
<1> QED
  BY <1>2, <1>3, <1>4 DEF Closed

-----------------------------------------------------------------------------
(* An entry that a leader has just written. *)

LEMMA NoAppendYet ==
    ASSUME NEW n \in Server, Turn(n), role'[n] = "Leader", NEW i \in Index, i > Len(log[n])
    PROVE  ~AppendFor(term[n], i)
<1> SUFFICES ASSUME AppendFor(term[n], i)
             PROVE  FALSE
  OBVIOUS
<1>1. TypeOK /\ TypeOK' /\ VoteInv /\ VoteInv' /\ Appended /\ Step(n) /\ LogStep(n)
  BY DEF Turn, LineInv
<1>2. PICK m \in msgs : IsAppend(m) /\ m.term = term[n] /\ i <= Last(m)
  BY DEF AppendFor
<1>3. m.from \in Server /\ Last(m) \in Nat /\ Len(log[n]) \in Nat
  BY <1>1, <1>2, AppendTypes DEF TypeOK
<1>4. Authored(m.from, term[n])
  BY <1>1, <1>2 DEF Appended
<1>5. role[n] # "Candidate"
  BY <1>1, <1>3, <1>4, CandidateIsFirst
<1>6. role[n] = "Leader"
  BY <1>1, <1>5 DEF LogStep, LeadsOn
<1>7. Last(m) <= Len(log[n])
  BY <1>1, <1>2, <1>6 DEF Appended
<1> QED
  BY <1>2, <1>3, <1>7 DEF Index

LEMMA FreshTypes ==
    ASSUME NEW n \in Server, TypeOK, NEW i \in Index, NEW e \in Entry, Fresh(n, i, e)
    PROVE  /\ i > Len(log[n]) /\ i = Len(log[n]) + 1 /\ Len(log[n]) \in Nat
           /\ e.term = term[n] /\ e.term \in Nat /\ Has(log'[n], i, e) /\ Len(log'[n]) = i
           /\ Extends(n)
<1>1. PICK lg \in Seq(Entry) : lg = log[n]
  BY DEF TypeOK
<1>2. i = Len(lg) + 1 /\ e.term = term[n] /\ log'[n] = Append(lg, e) /\ Extends(n)
  BY <1>1 DEF Fresh, Extends
<1> QED
  BY <1>1, <1>2 DEF Has, Entry

LEMMA FreshIsUnanswered ==
    ASSUME NEW n \in Server, Turn(n), role'[n] = "Leader", NEW i \in Index, NEW e \in Entry,
           Fresh(n, i, e), NEW v \in Server
    PROVE  /\ ~Ack(v, e.term, i) /\ ~Owed(v, e.term, i)
           /\ ~Ack(v, e.term, i)' /\ ~Owed(v, e.term, i)'
<1>1. TypeOK /\ TypeOK' /\ Step(n) /\ ClaimStep(n) /\ LineStep(n) /\ Answered
  BY DEF Turn, LineInv
<1>2. e.term = term[n] /\ e.term \in Nat /\ i > Len(log[n])
  BY <1>1, FreshTypes
<1>3. ~AppendFor(e.term, i)
  BY <1>2, NoAppendYet
<1>4. ~Ack(v, e.term, i) /\ ~Owed(v, e.term, i) /\ ~Owed(n, e.term, i)
  BY <1>1, <1>2, <1>3 DEF Answered
<1>5. ~Vouched(n, e.term, i)
  BY <1>3 DEF Vouched, AppendFor
<1> QED
  BY <1>1, <1>2, <1>4, <1>5, AckToday, OwedToday

LEMMA FreshIsUnanchored ==
    ASSUME NEW n \in Server, Turn(n), CommitInv, role'[n] = "Leader", NEW i \in Index,
           NEW e \in Entry, Fresh(n, i, e)
    PROVE  committed' = committed /\ ~Anchored(e.term, i)'
<1>1. TypeOK /\ TypeOK' /\ VoteInv /\ VoteInv' /\ MatchInv /\ Step(n) /\ LogStep(n) /\ Commits(n)
  BY DEF Turn
<1>2. e.term = term[n] /\ i > Len(log[n]) /\ Len(log'[n]) = i /\ Len(log[n]) \in Nat
  BY <1>1, FreshTypes
<1>3. committed' = committed
  <2>1. ~LeaderCommits(n)
    BY <1>2 DEF LeaderCommits, Index
  <2>2. ~FollowerCommits(n)
    BY DEF FollowerCommits
  <2> QED
    BY <1>1, <2>1, <2>2 DEF Commits, Forgets
<1>4. ASSUME Anchored(e.term, i)'
      PROVE  FALSE
  <2>1. PICK d \in committed : IsAnchor(d) /\ d.at = e.term /\ i <= d.index
    BY <1>3, <1>4 DEF Anchored, IsAnchor
  <2>2. d \in Record /\ d.entry.term = e.term /\ Open(d.index, d.entry)
    BY <1>1, <2>1, AnchorIsOpen DEF CommitInv, IsAnchor
  <2>3. PICK b \in Nat : Known(d.index, d.entry, b)
    BY <2>2 DEF Open
  <2>4. d.index \in Index /\ d.entry \in Entry
    BY <2>2 DEF Record
  <2>5. d.index <= Len(log[n])
    BY <1>1, <1>2, <2>2, <2>3, <2>4, FreshIsNew
  <2> QED
    BY <1>2, <2>1, <2>4, <2>5 DEF Index
<1> QED
  BY <1>3, <1>4

(* Once a later leader was elected, it comes too late to be committed. *)
LEMMA FreshIsClosed ==
    ASSUME NEW n \in Server, Turn(n), CommitInv, role'[n] = "Leader", NEW i \in Index,
           NEW e \in Entry, Fresh(n, i, e), NEW p \in Server, NEW t \in Nat, t > e.term,
           Authored(p, t)
    PROVE  Closed(e.term, i)'
<1>1. TypeOK /\ TypeOK' /\ VoteInv /\ Step(n) /\ e.term \in Nat
  BY FreshTypes DEF Turn
<1>2. PICK Q \in SUBSET Server : IsQuorum(Q) /\ \A v \in Q : Bound(v, t, p)
  BY DEF Authored
<1>3. ASSUME NEW v \in Q
      PROVE  Past(v, e.term, i)'
  <2>1. v \in Server /\ Le([term |-> t, vote |-> p], disk[v].hard)
    BY <1>2 DEF Bound
  <2>2. /\ disk[v].hard.term \in Nat /\ disk'[v].hard.term \in Nat
        /\ disk[v].hard.term <= disk'[v].hard.term
    BY <1>1, <2>1, DisksGrow
  <2>3. t <= disk[v].hard.term
    BY <2>1, <2>2 DEF Le
  <2>4. e.term < disk'[v].hard.term
    BY <1>1, <2>2, <2>3
  <2> QED
    BY <2>1, <2>4, FreshIsUnanswered DEF Past
<1> QED
  BY <1>2, <1>3, FreshIsUnanchored DEF Closed

LEMMA OpenToday ==
    ASSUME NEW n \in Server, Turn(n), CommitInv, NEW i \in Index, NEW e \in Entry, Open(i, e)'
    PROVE  \/ Open(i, e)
           \/ role'[n] = "Leader" /\ Fresh(n, i, e)
<1>1. TypeOK /\ TypeOK' /\ Step(n) /\ ClaimStep(n) /\ LogStep(n) /\ e.term \in Nat
  BY DEF Turn, Entry
<1>2. PICK b \in Nat : Known(i, e, b)'
  BY DEF Open
<1>3. Known(i, e, b) \/ (role'[n] = "Leader" /\ Fresh(n, i, e))
  BY <1>1, <1>2, KnownOrFresh
<1>4. ~Closed(e.term, i)'
  BY DEF Open
<1>5. ~Closed(e.term, i)
  BY <1>1, <1>4, ClosedIsKept
<1> QED
  BY <1>3, <1>5 DEF Open

(* An open entry that was known is not the fresh one. *)
LEMMA OpenIsBelow ==
    ASSUME NEW n \in Server, Turn(n), role'[n] = "Leader", Extends(n), NEW i \in Index,
           NEW e \in Entry, Open(i, e), Has(log'[n], i, e)
    PROVE  Has(log[n], i, e)
<1>1. TypeOK /\ TypeOK' /\ VoteInv /\ VoteInv' /\ MatchInv /\ Step(n) /\ LogStep(n)
  BY DEF Turn
<1>2. PICK f \in Entry : f.term = term[n] /\ log'[n] = Append(log[n], f)
  BY DEF Extends
<1>3. PICK lg \in Seq(Entry) : lg = log[n]
  BY <1>1 DEF TypeOK
<1>4. i \in 1..(Len(lg) + 1) /\ (i = Len(lg) + 1 => e = f)
  BY <1>2, <1>3 DEF Has
<1>5. i # Len(lg) + 1
  <2> SUFFICES ASSUME i = Len(lg) + 1
               PROVE  FALSE
    OBVIOUS
  <2>1. PICK b \in Nat : Known(i, e, b)
    BY DEF Open
  <2>2. i <= Len(log[n])
    BY <1>1, <1>2, <1>4, <2>1, FreshIsNew
  <2> QED
    BY <1>3, <2>2
<1>6. i \in 1..Len(lg)
  BY <1>3, <1>4, <1>5
<1> QED
  BY <1>2, <1>3, <1>6 DEF Has

-----------------------------------------------------------------------------
(* Leaders have what is open. *)

LEMMA LeaderHas ==
    TypeOK /\ MatchInv /\ LineInv /\ Binds => \A n \in Server : role[n] = "Leader" =>
        \A i \in Index : \A e \in Entry :
            Open(i, e) /\ e.term <= term[n] => Has(log[n], i, e)
<1> SUFFICES ASSUME TypeOK, MatchInv, LineInv, Binds, NEW n \in Server, role[n] = "Leader",
                    NEW i \in Index, NEW e \in Entry, Open(i, e), e.term <= term[n]
             PROVE  Has(log[n], i, e)
  OBVIOUS
<1>1. CASE e.term = term[n]
  <2>1. PICK b \in Nat : Known(i, e, b)
    BY DEF Open
  <2>2. Holds(log[n], i, e, b)
    BY <1>1, <2>1 DEF MatchInv, LeadersHold
  <2> QED
    BY <2>2 DEF Holds, Has
<1>2. CASE e.term # term[n]
  <2>1. log[n] \in Seq(Entry) /\ Coherent(log[n])
    BY MemoryIsCoherent
  <2>2. Len(log[n]) > 0 /\ LastTerm(log[n]) = term[n]
    BY DEF LineInv, Tips
  <2>3. PICK lg \in Seq(Entry) : lg = log[n]
    BY <2>1
  <2>4. Len(lg) \in DOMAIN lg /\ lg[Len(lg)].term = term[n]
    BY <2>2, <2>3 DEF LastTerm, TermAt, NO_INDEX
  <2>5. term[n] > e.term
    BY <1>2 DEF TypeOK, Entry
  <2>6. Beyond(lg[Len(lg)].term, Len(lg), e.term, i)
    BY <2>4, <2>5 DEF Beyond
  <2> QED
    BY <2>1, <2>3, <2>4, <2>6 DEF Binds
<1> QED
  BY <1>1, <1>2

LEMMA LeaderHasNext ==
    TypeOK' /\ MatchInv' /\ LineInv' /\ Binds' => \A n \in Server : role'[n] = "Leader" =>
        \A i \in Index : \A e \in Entry :
            Open(i, e)' /\ e.term <= term'[n] => Has(log'[n], i, e)
<1>1. TypeOK' /\ MatchInv' /\ LineInv' /\ Binds' => (\A n \in Server : role[n] = "Leader" =>
        \A i \in Index : \A e \in Entry :
            Open(i, e) /\ e.term <= term[n] => Has(log[n], i, e))'
  BY LeaderHas, PTL
<1> QED
  BY <1>1 DEF Has

(* A node pledged to an open entry has it. *)
LEMMA SoleSender ==
    ASSUME TypeOK, VoteInv, NEW p \in Server, NEW q \in Server, NEW t, Sender(p, t), Sender(q, t)
    PROVE  p = q
<1>1. CASE Server = {p} \/ Server = {q}
  BY <1>1
<1>2. CASE ~(Server = {p} \/ Server = {q})
  <2>1. PICK m \in msgs : IsAppend(m) /\ m.from = p /\ m.term = t
    BY <1>2 DEF Sender
  <2>2. PICK o \in msgs : IsAppend(o) /\ o.from = q /\ o.term = t
    BY <1>2 DEF Sender
  <2>3. p \in LeadersOf(t) /\ q \in LeadersOf(t)
    BY <2>1, <2>2 DEF LeadersOf, IsAppend
  <2>4. t \in {a.term : a \in msgs}
    BY <2>1
  <2> QED
    BY <2>3, <2>4, ElectionSafetyFollows DEF ElectionSafety
<1> QED
  BY <1>1, <1>2

LEMMA AckReaches ==
    ASSUME TypeOK, NEW v, NEW t, NEW i \in Index, NEW j \in Index, i <= j, Ack(v, t, j)
    PROVE  Ack(v, t, i)
<1>1. PICK m \in msgs : IsAck(m) /\ m.from = v /\ m.term = t /\ j <= m.match
  BY DEF Ack
<1>2. m.match \in Nat
  BY <1>1, MessageTypes DEF TypeOK, IsAck, AppendRespMsgs
<1>3. i <= m.match
  BY <1>1, <1>2 DEF Index
<1> QED
  BY <1>1, <1>3 DEF Ack

LEMMA PledgedHas ==
    /\ TypeOK /\ VoteInv /\ committed \subseteq Record /\ Binds /\ Holders /\ Majorities
    => \A v \in Server : \A i \in Index : \A e \in Entry :
         Open(i, e) /\ Pledged(v, e.term, i) => Has(log[v], i, e)
<1> SUFFICES ASSUME TypeOK, VoteInv, committed \subseteq Record, Binds, Holders, Majorities,
                    NEW v \in Server, NEW i \in Index, NEW e \in Entry, Open(i, e),
                    Pledged(v, e.term, i)
             PROVE  Has(log[v], i, e)
  OBVIOUS
<1>1. CASE Ack(v, e.term, i) \/ Owed(v, e.term, i)
  BY <1>1 DEF Holders, Keeps
<1>2. CASE Sender(v, e.term) /\ Anchored(e.term, i) /\ ~AckQuorum(e.term, i)
  <2>1. PICK d \in committed : IsAnchor(d) /\ d.at = e.term /\ i <= d.index
    BY <1>2 DEF Anchored
  <2>2. PICK Q \in SUBSET Server : IsQuorum(Q) /\ \A p \in Q :
          Keeps(p, d.index, d.entry) /\ (Ack(p, d.at, d.index) \/ Sender(p, d.at))
    BY <2>1 DEF Majorities
  <2>3. d.index \in Index /\ d.entry \in Entry /\ d.entry.term = e.term /\ e.term \in Nat
    BY <2>1 DEF Record, IsAnchor, Entry
  <2>4. PICK p \in Q : ~Ack(p, e.term, i)
    BY <1>2, <2>2 DEF AckQuorum
  <2>5. Sender(p, e.term) /\ p \in Server /\ Keeps(p, d.index, d.entry)
    BY <2>1, <2>2, <2>3, <2>4, AckReaches
  <2>6. p = v
    BY <1>2, <2>5, SoleSender
  <2>7. Has(log[v], d.index, d.entry)
    BY <2>5, <2>6 DEF Keeps
  <2>8. PICK lg \in Seq(Entry) : lg = log[v] /\ Coherent(lg)
    BY MemoryIsCoherent
  <2>9. d.index \in DOMAIN lg /\ lg[d.index].term = e.term /\ d.index >= i
    BY <2>1, <2>3, <2>7, <2>8 DEF Has, Index
  <2>10. Beyond(lg[d.index].term, d.index, e.term, i)
    BY <2>9 DEF Beyond
  <2> QED
    BY <2>8, <2>9, <2>10 DEF Binds
<1> QED
  BY <1>1, <1>2 DEF Pledged

LEMMA PledgedHasNext ==
    /\ TypeOK' /\ VoteInv' /\ committed' \subseteq Record /\ Binds' /\ Holders' /\ Majorities'
    => \A v \in Server : \A i \in Index : \A e \in Entry :
         Open(i, e)' /\ Pledged(v, e.term, i)' => Has(log'[v], i, e)
<1>1. /\ TypeOK' /\ VoteInv' /\ (committed \subseteq Record)' /\ Binds' /\ Holders' /\ Majorities'
      => (\A v \in Server : \A i \in Index : \A e \in Entry :
            Open(i, e) /\ Pledged(v, e.term, i) => Has(log[v], i, e))'
  BY PledgedHas, PTL
<1> QED
  BY <1>1 DEF Has, Record, Index, Entry

(* Those that elect a leader include one that is pledged to what may have  *)
(* been committed before.                                                  *)
LEMMA ElectionHas ==
    ASSUME NEW n \in Server, Turn(n), CommitInv, role[n] = "Candidate", role'[n] = "Leader",
           NEW i \in Index, NEW e \in Entry, Open(i, e), Open(i, e)', e.term < term[n]
    PROVE  Has(log[n], i, e)
<1>1. /\ TypeOK /\ TypeOK' /\ VoteInv /\ VoteInv' /\ Step(n) /\ ClaimStep(n) /\ LogStep(n)
      /\ LineStep(n) /\ Commits(n) /\ e.term \in Nat
  BY DEF Turn, Entry
<1>2. term'[n] = term[n] /\ term[n] <= disk'[n].hard.term /\ term[n] \in Nat
  BY <1>1 DEF LogStep, LeadsOn, TypeOK
<1>3. committed' = committed
  BY <1>1 DEF Commits, Forgets, LeaderCommits, FollowerCommits
<1>4. PICK V \in SUBSET Server : V = votes'[n]
  BY <1>1 DEF TypeOK
<1>5. IsQuorum(V)
  BY <1>1, <1>4 DEF VoteInv, Counted
<1>6. ASSUME NEW v \in V
      PROVE  v = n \/ Granted(v, n, term[n])
  <2>1. v \in votes[n] \/ Granted(v, n, term[n])
    BY <1>1, <1>2, <1>4, <1>6 DEF Step, Campaigns
  <2> QED
    BY <1>1, <2>1 DEF VoteInv, Counted
<1>7. ASSUME NEW v \in V
      PROVE  e.term < disk'[v].hard.term
  <2>1. disk[v].hard.term \in Nat /\ disk'[v].hard.term \in Nat
        /\ disk[v].hard.term <= disk'[v].hard.term
    BY <1>1, <1>4, DisksGrow
  <2>2. CASE v = n
    BY <1>1, <1>2, <2>1, <2>2
  <2>3. CASE Granted(v, n, term[n])
    <3>1. VoteResp(v, n, term[n], TRUE) \in msgs
      BY <2>3 DEF Granted
    <3>2. term[n] <= disk[v].hard.term
      BY <1>1, <3>1 DEF VoteInv, Spoken, VoteResp
    <3> QED
      BY <1>1, <1>2, <2>1, <3>2
  <2> QED
    BY <1>6, <2>2, <2>3
<1>8. \E v \in V : Pledged(v, e.term, i)
  <2>1. CASE Anchored(e.term, i) /\ AckQuorum(e.term, i)
    <3>1. PICK Q \in SUBSET Server : IsQuorum(Q) /\ \A v \in Q : Ack(v, e.term, i)
      BY <2>1 DEF AckQuorum
    <3> QED
      BY <1>5, <3>1, QuorumsIntersect DEF Pledged
  <2>2. CASE Anchored(e.term, i) /\ ~AckQuorum(e.term, i)
    <3>1. PICK d \in committed : IsAnchor(d) /\ d.at = e.term /\ i <= d.index
      BY <2>2 DEF Anchored
    <3>2. PICK Q \in SUBSET Server : IsQuorum(Q) /\ \A p \in Q :
            Ack(p, d.at, d.index) \/ Sender(p, d.at)
      BY <3>1 DEF CommitInv, Majorities
    <3>3. d.index \in Index
      BY <3>1 DEF CommitInv, Record
    <3>4. PICK p \in Q : p \in V
      BY <1>5, <3>2, QuorumsIntersect
    <3>5. Ack(p, e.term, i) \/ Sender(p, e.term)
      BY <1>1, <3>1, <3>2, <3>3, <3>4, AckReaches
    <3> QED
      BY <2>2, <3>4, <3>5 DEF Pledged
  <2>3. CASE ~Anchored(e.term, i)
    <3>1. ~Anchored(e.term, i)' /\ ~Closed(e.term, i)'
      BY <1>3, <2>3 DEF Anchored, IsAnchor, Open
    <3>2. PICK v \in V : ~Past(v, e.term, i)'
      BY <1>5, <3>1 DEF Closed
    <3>3. Ack(v, e.term, i)' \/ Owed(v, e.term, i)'
      BY <1>7, <3>2 DEF Past
    <3>4. Ack(v, e.term, i) \/ Owed(v, e.term, i)
      BY <1>1, <1>2, <3>3, AnswersAreOver
    <3> QED
      BY <3>4 DEF Pledged
  <2> QED
    BY <2>1, <2>2, <2>3
<1>9. PICK v \in V : Pledged(v, e.term, i)
  BY <1>8
<1>10. CASE v = n
  BY <1>1, <1>9, <1>10, PledgedHas DEF CommitInv
<1>11. CASE v # n
  <2>1. v \in Peers(n) /\ Voted(v, n, term[n])
    BY <1>6, <1>11 DEF Peers, Voted
  <2> QED
    BY <1>9, <2>1 DEF CommitInv, Ballots
<1> QED
  BY <1>10, <1>11

-----------------------------------------------------------------------------
(* The invariant is kept, part by part. *)

LEMMA BindsAreKept ==
    ASSUME NEW n \in Server, Turn(n), CommitInv
    PROVE  Binds'
<1>1. /\ TypeOK /\ TypeOK' /\ VoteInv /\ VoteInv' /\ MatchInv /\ MatchInv' /\ LineInv /\ Roots
      /\ Step(n) /\ ClaimStep(n) /\ LogStep(n)
  BY DEF Turn, LineInv
<1> SUFFICES ASSUME NEW i \in Index, NEW e \in Entry, Open(i, e)',
                    NEW lg \in Seq(Entry), Coherent(lg)', NEW j \in DOMAIN lg,
                    Beyond(lg[j].term, j, e.term, i)
             PROVE  Has(lg, i, e)
  BY DEF Binds, Beyond, Has
<1>2. /\ e.term \in Nat /\ lg[j] \in Entry /\ lg[j].term \in Nat /\ j \in Index /\ j \in Nat
      /\ i \in Nat /\ term[n] \in Nat
  <2>1. lg[j] \in Entry /\ j \in Index /\ j \in Nat /\ i \in Nat
    BY DEF Index
  <2>2. term[n] \in Nat
    BY <1>1 DEF TypeOK
  <2> QED
    BY <2>1, <2>2 DEF Entry
<1>3. CASE Open(i, e) /\ Coherent(lg)
  BY <1>3 DEF CommitInv, Binds
<1>4. CASE Open(i, e) /\ role'[n] = "Leader" /\ lg = log'[n] /\ Extends(n)
  <2>1. PICK f \in Entry : f.term = term[n] /\ log'[n] = Append(log[n], f)
    BY <1>4 DEF Extends
  <2>2. PICK old \in Seq(Entry) : old = log[n] /\ Coherent(old)
    BY <1>1, MemoryIsCoherent
  <2>3. \/ j \in DOMAIN old /\ lg[j] = old[j]
        \/ j = Len(old) + 1 /\ lg[j] = f
    BY <1>4, <2>1, <2>2
  <2> SUFFICES Has(old, i, e)
    BY <1>1, <1>4, <2>2, ExtendedHas
  <2>4. CASE j \in DOMAIN old /\ lg[j] = old[j]
    BY <1>4, <2>2, <2>4 DEF CommitInv, Binds
  <2>5. CASE j = Len(old) + 1 /\ lg[j] = f
    <3>1. e.term <= term[n]
      BY <1>2, <2>1, <2>5 DEF Beyond
    <3>2. CASE role[n] = "Leader"
      BY <1>1, <1>4, <2>2, <3>1, <3>2, LeaderHas DEF CommitInv
    <3>3. CASE role[n] # "Leader"
      <4>1. role[n] = "Candidate"
        BY <1>1, <1>4, <3>3 DEF LogStep, LeadsOn
      <4>2. PICK b \in Nat : Known(i, e, b)
        BY <1>4 DEF Open
      <4>3. e.term # term[n]
        BY <1>1, <1>4, <3>3, <4>2, FreshIsNew
      <4>4. e.term < term[n]
        BY <1>2, <3>1, <4>3
      <4> QED
        BY <1>4, <2>2, <4>1, <4>4, ElectionHas
    <3> QED
      BY <3>2, <3>3
  <2> QED
    BY <2>3, <2>4, <2>5
<1>5. CASE role'[n] = "Leader" /\ Fresh(n, i, e)
  <2>1. /\ e.term = term[n] /\ Has(log'[n], i, e) /\ Len(log'[n]) = i
    BY <1>1, <1>5, FreshTypes
  <2>2. PICK b \in Nat : b = TermAt(lg, j - 1)
    <3>1. j - 1 \in 0..Len(lg)
      BY <1>2
    <3> QED
      BY <1>2, <3>1, TermAtType
  <2>3. Known(j, lg[j], b)'
    BY <2>2 DEF Coherent
  <2>4. term'[n] = term[n]
    BY <1>1, <1>5 DEF LogStep, LeadsOn
  <2>5. CASE lg[j].term = e.term /\ j >= i
    <3>1. Holds(log'[n], j, lg[j], b)
      BY <1>1, <1>2, <1>5, <2>1, <2>3, <2>4, <2>5 DEF MatchInv, LeadersHold
    <3>2. j \in DOMAIN log'[n] /\ log'[n][j] = lg[j]
      BY <3>1 DEF Holds
    <3>3. j = i
      BY <1>1, <1>2, <2>1, <2>5, <3>2 DEF TypeOK
    <3> QED
      BY <2>1, <3>2, <3>3 DEF Has
  <2>6. CASE lg[j].term > e.term
    <3>1. Known(j, lg[j], b)
      <4>1. ~Fresh(n, j, lg[j])
        BY <1>2, <2>1, <2>6 DEF Fresh
      <4> QED
        BY <1>1, <1>2, <2>3, <4>1, KnownOrFresh
    <3>2. PICK p \in Server : Authored(p, lg[j].term)
      BY <1>1, <1>2, <3>1 DEF MatchInv, Authors
    <3>3. Closed(e.term, i)'
      BY <1>2, <1>5, <2>6, <3>2, FreshIsClosed
    <3> QED
      BY <3>3 DEF Open
  <2> QED
    BY <2>5, <2>6 DEF Beyond
<1>6. Open(i, e) \/ (role'[n] = "Leader" /\ Fresh(n, i, e))
  BY OpenToday
<1>7. Coherent(lg) \/ (role'[n] = "Leader" /\ lg = log'[n] /\ Extends(n))
  BY <1>1, CoherentOrFresh
<1> QED
  BY <1>3, <1>4, <1>5, <1>6, <1>7

LEMMA TailsAreKept ==
    ASSUME NEW n \in Server, Turn(n), CommitInv, Binds'
    PROVE  Tails'
<1>1. /\ TypeOK /\ TypeOK' /\ VoteInv /\ VoteInv' /\ MatchInv /\ MatchInv' /\ LineInv /\ LineInv'
      /\ Roots /\ Appended /\ Step(n) /\ ClaimStep(n) /\ LogStep(n) /\ LineStep(n)
  BY DEF Turn, LineInv
<1> SUFFICES ASSUME NEW i \in Index, NEW e \in Entry, Open(i, e)', NEW m \in msgs',
                    IsAppend(m), e.term <= m.term
             PROVE  Fits(i, e, m)'
  BY DEF Tails, IsAppend
<1>2. /\ e.term \in Nat /\ m \in Message /\ Last(m) \in Nat /\ TailTerm(m) \in Nat
      /\ m.term \in Nat /\ m.from \in Server /\ i \in Nat /\ i # 0
  BY <1>1, AppendTypes DEF Entry, Index, TypeOK
<1>3. ASSUME role'[n] = "Leader", m.term = term'[n]
      PROVE  Fits(i, e, m)'
  <2>1. Has(log'[n], i, e)
    BY <1>1, <1>3, LeaderHasNext
  <2> QED
    BY <1>1, <1>3, <2>1, LeaderFitsNext
<1>4. CASE m \notin msgs
  <2>1. Sayable(n, m)
    BY <1>1, <1>4 DEF LineStep, Says
  <2> QED
    BY <1>3, <2>1 DEF Sayable
<1>5. CASE m \in msgs /\ Open(i, e)
  <2>1. Fits(i, e, m)
    BY <1>5 DEF CommitInv, Tails
  <2>2. SUFFICES ASSUME NEW lg \in Seq(Entry), Coherent(lg)'
                 PROVE  /\ i >= Last(m) /\ Has(lg, i, e) => Reaches(lg, m)
                        /\ i <= Last(m) /\ Reaches(lg, m) => Has(lg, i, e)
    BY DEF Fits, Has, Reaches, Last, TailTerm
  <2>3. CASE Coherent(lg)
    BY <2>1, <2>3 DEF Fits
  <2>4. CASE role'[n] = "Leader" /\ lg = log'[n] /\ Extends(n)
    <3>1. PICK old \in Seq(Entry) : old = log[n] /\ Coherent(old)
      BY <1>1, MemoryIsCoherent
    <3>2. \A x \in 0..Len(old) : TermAt(lg, x) = TermAt(old, x)
      BY <1>1, <2>4, <3>1, LeaderGrows
    <3>3. ASSUME i >= Last(m), Has(lg, i, e)
          PROVE  Reaches(lg, m)
      <4>1. Has(old, i, e)
        BY <1>5, <2>4, <3>1, <3>3, OpenIsBelow
      <4>2. Reaches(old, m)
        BY <2>1, <3>1, <3>3, <4>1 DEF Fits
      <4>3. Last(m) \in 0..Len(old)
        BY <1>2, <3>1, <3>3, <4>1 DEF Has
      <4> QED
        BY <3>2, <4>2, <4>3 DEF Reaches
    <3>4. ASSUME i <= Last(m), Reaches(lg, m)
          PROVE  Has(lg, i, e)
      <4>1. PICK f \in Entry : f.term = term[n] /\ lg = Append(old, f)
        BY <2>4, <3>1 DEF Extends
      <4>2. TermAt(lg, Last(m)) = TailTerm(m)
        BY <3>4 DEF Reaches
      <4>3. Last(m) \in DOMAIN lg
        <5>1. NoTerm \notin Nat
          BY DEF NoTerm
        <5> QED
          BY <1>2, <3>4, <4>2, <5>1 DEF TermAt, NO_INDEX
      <4>4. Last(m) # Len(old) + 1
        <5> SUFFICES ASSUME Last(m) = Len(old) + 1
                     PROVE  FALSE
          OBVIOUS
        <5>1. TailTerm(m) = term[n]
          BY <1>2, <3>1, <3>4, <4>1, <4>2, <4>3 DEF TermAt, NO_INDEX
        <5>2. Rooted(Last(m), term[n])
          BY <1>1, <1>5, <5>1 DEF Appended
        <5>3. Last(m) = 0 \/ Last(m) <= Len(log[n])
          BY <1>1, <1>2, <2>4, <5>2, RootIsBelow
        <5> QED
          BY <1>2, <3>1, <5>3
      <4>5. Last(m) \in 0..Len(old)
        BY <1>2, <3>1, <4>1, <4>3, <4>4
      <4>6. Reaches(old, m)
        BY <3>2, <4>2, <4>5 DEF Reaches
      <4>7. Has(old, i, e)
        BY <2>1, <3>1, <3>4, <4>6 DEF Fits
      <4> QED
        BY <1>1, <2>4, <3>1, <4>7, ExtendedHas
    <3> QED
      BY <3>3, <3>4
  <2> QED
    BY <1>1, <2>2, <2>3, <2>4, CoherentOrFresh
<1>6. CASE m \in msgs /\ role'[n] = "Leader" /\ Fresh(n, i, e)
  <2>1. e.term = term[n] /\ term'[n] = term[n]
    BY <1>1, <1>6, FreshTypes DEF LogStep, LeadsOn
  <2>2. CASE m.term = e.term
    BY <1>3, <1>6, <2>1, <2>2
  <2>3. CASE m.term > e.term
    <3>1. Authored(m.from, m.term)
      BY <1>1, <1>6 DEF Appended
    <3>2. Closed(e.term, i)'
      BY <1>2, <1>6, <2>3, <3>1, FreshIsClosed
    <3> QED
      BY <3>2 DEF Open
  <2> QED
    BY <1>2, <2>2, <2>3
<1> QED
  BY <1>4, <1>5, <1>6, OpenToday

LEMMA HoldersAreKept ==
    ASSUME NEW n \in Server, Turn(n), CommitInv, Tails'
    PROVE  Holders'
<1>1. /\ TypeOK /\ TypeOK' /\ Step(n) /\ ClaimStep(n) /\ LogStep(n) /\ LineStep(n) /\ Answered
      /\ Tails
  BY DEF Turn, LineInv, CommitInv
<1> SUFFICES ASSUME NEW i \in Index, NEW e \in Entry, Open(i, e)', NEW v \in Server
             PROVE  /\ Owed(v, e.term, i)' => Has(log'[v], i, e)
                    /\ Ack(v, e.term, i)' => Keeps(v, i, e)'
  BY DEF Holders, Has
<1>2. e.term \in Nat
  BY DEF Entry
<1>3. CASE role'[n] = "Leader" /\ Fresh(n, i, e)
  BY <1>3, FreshIsUnanswered
<1>4. CASE Open(i, e)
  <2>1. ASSUME Vouched(n, e.term, i)
        PROVE  Has(log'[n], i, e)
    <3>1. PICK m \in msgs : IsAppend(m) /\ m.term = e.term /\ i <= Last(m) /\ Reaches(log'[n], m)
      BY <2>1 DEF Vouched
    <3>2. m \in msgs'
      BY <1>1 DEF Step, Speaks
    <3>3. PICK new \in Seq(Entry) : new = log'[n] /\ Coherent(new)'
      BY <1>1, MemoryIsCoherentNext
    <3>4. Fits(i, e, m)'
      BY <1>2, <3>1, <3>2 DEF Tails, IsAppend
    <3> QED
      BY <3>1, <3>3, <3>4 DEF Fits, Has, Reaches, Last, TailTerm
  <2>2. ASSUME Owed(v, e.term, i), ~(v = n /\ Recovers(n))
        PROVE  Has(log'[v], i, e)
    <3>1. Has(log[v], i, e)
      BY <1>4, <2>2 DEF CommitInv, Holders
    <3> QED
      BY <1>1, <1>4, <2>2, <3>1, OpenIsKept
  <2>3. ASSUME Owed(v, e.term, i)'
        PROVE  Has(log'[v], i, e)
    <3>1. ~(v = n /\ Recovers(n))
      <4> SUFFICES ASSUME v = n, Recovers(n)
                   PROVE  FALSE
        OBVIOUS
      <4>1. Queued(n)' = {}
        BY DEF Recovers, Reboots, Queued
      <4> QED
        BY <2>3, <4>1 DEF Owed
    <3>2. Owed(v, e.term, i) \/ (v = n /\ Vouched(n, e.term, i))
      BY <1>1, <1>2, <2>3, OwedToday
    <3> QED
      BY <2>1, <2>2, <3>1, <3>2
  <2>4. ASSUME Ack(v, e.term, i)'
        PROVE  Keeps(v, i, e)'
    <3>1. CASE Ack(v, e.term, i)
      <4>1. Keeps(v, i, e)
        BY <1>4, <3>1 DEF CommitInv, Holders
      <4> QED
        BY <1>1, <1>4, <4>1, KeepsIsKept
    <3>2. CASE ~Ack(v, e.term, i)
      <4>1. ~Recovers(n)
        BY <2>4, <3>2 DEF Recovers, Ack
      <4>2. v = n /\ i <= durableIndex'[n] /\ (Owed(n, e.term, i) \/ Vouched(n, e.term, i))
        BY <1>1, <1>2, <2>4, <3>2, AckToday
      <4>3. Has(log'[n], i, e)
        BY <2>1, <2>2, <4>1, <4>2
      <4> QED
        BY <4>2, <4>3 DEF Keeps, Has
    <3> QED
      BY <3>1, <3>2
  <2> QED
    BY <2>3, <2>4
<1> QED
  BY <1>3, <1>4, OpenToday

LEMMA RecordsAreKept ==
    ASSUME NEW n \in Server, Turn(n), CommitInv
    PROVE  committed' \subseteq Record
<1> SUFFICES ASSUME NEW c \in committed', c \notin committed
             PROVE  c \in Record
  BY DEF CommitInv
<1>1. c \in Declared(n) /\ (LeaderCommits(n) \/ FollowerCommits(n)) /\ TypeOK /\ TypeOK'
  BY DeclaredOrigin DEF Turn
<1> QED
  BY <1>1, DeclaredIsTyped

LEMMA SenderIsKept ==
    ASSUME NEW n \in Server, Turn(n), NEW v, NEW t, Sender(v, t)
    PROVE  Sender(v, t)'
<1>1. msgs \subseteq msgs'
  BY DEF Turn, Step, Speaks
<1> QED
  BY <1>1 DEF Sender, IsAppend

(* A node that is a majority by itself is alone. *)
LEMMA SoloQuorum ==
    ASSUME NEW n \in Server, IsQuorum({n})
    PROVE  Server = {n}
<1>1. IsFiniteSet(Server) /\ Cardinality(Server) \in Nat
  BY ServerAssumption, ServerCardinality
<1>2. Cardinality({n}) = 1
  BY FS_Singleton
<1>3. Cardinality(Server) <= 1
  BY <1>1, <1>2 DEF IsQuorum
<1>4. Cardinality(Server \ {n}) = Cardinality(Server) - 1 /\ IsFiniteSet(Server \ {n})
  BY <1>1, FS_RemoveElement
<1>5. Cardinality(Server \ {n}) \in Nat
  BY <1>4, FS_CardinalityType
<1>6. Cardinality(Server \ {n}) = 0
  BY <1>1, <1>3, <1>4, <1>5
<1> QED
  BY <1>4, <1>6, FS_EmptySet

LEMMA MajoritiesAreKept ==
    ASSUME NEW n \in Server, Turn(n), CommitInv, committed' \subseteq Record, Holders'
    PROVE  Majorities'
<1>1. /\ TypeOK /\ TypeOK' /\ VoteInv /\ VoteInv' /\ LineInv /\ Step(n) /\ Answered /\ Tails
      /\ committed \subseteq Record /\ Majorities
  BY DEF Turn, LineInv, CommitInv
<1> SUFFICES ASSUME NEW d \in committed', IsAnchor(d)'
             PROVE  \E Q \in SUBSET Server : IsQuorum(Q) /\ \A v \in Q :
                      Keeps(v, d.index, d.entry)' /\ (Ack(v, d.at, d.index)' \/ Sender(v, d.at)')
  BY DEF Majorities
<1>2. d.entry.term = d.at /\ d.index \in Index /\ d.entry \in Entry /\ d.at \in Nat
  BY DEF IsAnchor, Record
<1>3. CASE d \in committed
  <2>1. IsAnchor(d)
    BY <1>2, <1>3 DEF IsAnchor
  <2>2. Open(d.index, d.entry)
    BY <1>1, <2>1, AnchorIsOpen
  <2>3. PICK Q \in SUBSET Server : IsQuorum(Q) /\ \A v \in Q :
          Keeps(v, d.index, d.entry) /\ (Ack(v, d.at, d.index) \/ Sender(v, d.at))
    BY <1>1, <1>3, <2>1 DEF Majorities
  <2>4. ASSUME NEW v \in Q
        PROVE  Keeps(v, d.index, d.entry)' /\ (Ack(v, d.at, d.index)' \/ Sender(v, d.at)')
    BY <1>1, <1>2, <2>2, <2>3, <2>4, KeepsIsKept, AckIsKept, SenderIsKept
  <2> QED
    BY <2>3, <2>4
<1>4. CASE d \notin committed
  <2>1. LeaderCommits(n) /\ d \in Declared(n)
    BY <1>2, <1>4, DeclaredOrigin
  <2>2. /\ d.at = term'[n] /\ d.index <= commitIndex'[n] /\ Has(log'[n], d.index, d.entry)
        /\ commitIndex'[n] \in Nat /\ durableIndex'[n] \in Nat
    BY <1>1, <2>1, DeclaredIsTyped DEF TypeOK
  <2>3. term'[n] = term[n] /\ role[n] = "Leader"
    BY <2>1 DEF LeaderCommits
  <2>4. PICK Q \in SUBSET Server : IsQuorum(Q) /\ \A p \in Q :
             IF p = n THEN commitIndex'[n] <= durableIndex'[n]
             ELSE \A x \in Index : x <= commitIndex'[n] => Ack(p, term[n], x)
    BY <2>1, LeaderCounted
  <2>5. Open(d.index, d.entry)'
    <3>1. \E b \in Nat : Known(d.index, d.entry, b)'
      <4>1. TypeOK' => (\A v \in Server : \A i \in Index : \A e : Has(log[v], i, e) =>
              /\ e \in Entry /\ \E b \in Nat : Known(i, e, b))'
        BY EntryIsKnown, PTL
      <4> QED
        BY <1>1, <1>2, <2>2, <4>1 DEF Has
    <3>2. d.index <= d.index
      BY <1>2 DEF Index
    <3>3. ~Closed(d.entry.term, d.index)'
      BY <1>2, <3>2 DEF Closed, Anchored
    <3> QED
      BY <3>1, <3>3 DEF Open
  <2>6. ASSUME NEW p \in Q, p # n
        PROVE  Ack(p, d.at, d.index) /\ Ack(p, d.at, d.index)' /\ Keeps(p, d.index, d.entry)'
    <3>1. Ack(p, d.at, d.index)
      BY <1>2, <2>2, <2>3, <2>4, <2>6
    <3>2. Ack(p, d.at, d.index)'
      BY <1>1, <3>1, AckIsKept
    <3> QED
      BY <1>2, <2>5, <3>1, <3>2 DEF Holders
  <2>7. ASSUME n \in Q
        PROVE  Keeps(n, d.index, d.entry)' /\ Sender(n, d.at)'
    <3>1. Keeps(n, d.index, d.entry)'
      <4>1. d.index <= durableIndex'[n]
        BY <1>2, <2>2, <2>4, <2>7 DEF Index
      <4> QED
        BY <2>2, <4>1 DEF Keeps, Has
    <3>2. Sender(n, d.at)
      <4>1. CASE \E p \in Q : p # n
        <5>1. PICK p \in Q : p # n
          BY <4>1
        <5>2. AppendFor(d.at, d.index)
          BY <1>1, <1>2, <2>6, <5>1 DEF Answered
        <5>3. PICK m \in msgs : IsAppend(m) /\ m.term = d.at
          BY <5>2 DEF AppendFor
        <5>4. m.from \in LeadersOf(d.at) /\ n \in LeadersOf(d.at) /\ d.at \in {a.term : a \in msgs}
          BY <2>2, <2>3, <5>3 DEF LeadersOf, IsAppend
        <5>5. m.from = n
          BY <1>1, <5>4, ElectionSafetyFollows DEF ElectionSafety
        <5> QED
          BY <5>3, <5>5 DEF Sender
      <4>2. CASE ~\E p \in Q : p # n
        <5>1. Q = {n}
          BY <2>7, <4>2
        <5> QED
          BY <2>4, <5>1, SoloQuorum DEF Sender
      <4> QED
        BY <4>1, <4>2
    <3> QED
      BY <3>1, <3>2, SenderIsKept
  <2> QED
    BY <2>4, <2>6, <2>7
<1> QED
  BY <1>3, <1>4

LEMMA BelowIsKept ==
    ASSUME NEW n \in Server, Turn(n), CommitInv, NEW c \in committed, NEW d \in committed,
           IsAnchor(d), Below(c, d)
    PROVE  Below(c, d)'
<1>1. /\ TypeOK /\ TypeOK' /\ VoteInv /\ VoteInv' /\ MatchInv /\ MatchInv' /\ LineInv /\ Roots
      /\ Step(n) /\ ClaimStep(n) /\ LogStep(n)
  BY DEF Turn, LineInv
<1>2. /\ d.index \in Index /\ d.entry \in Entry /\ c.index \in Index /\ Open(d.index, d.entry)
  BY <1>1, AnchorIsOpen DEF CommitInv, Record
<1> SUFFICES ASSUME NEW lg \in Seq(Entry), Coherent(lg)', Has(lg, d.index, d.entry)
             PROVE  Has(lg, c.index, c.entry)
  BY DEF Below, Has
<1>3. CASE Coherent(lg)
  BY <1>3 DEF Below
<1>4. CASE role'[n] = "Leader" /\ lg = log'[n] /\ Extends(n)
  <2>1. Has(log[n], d.index, d.entry)
    BY <1>2, <1>4, OpenIsBelow
  <2>2. Has(log[n], c.index, c.entry)
    BY <1>1, <2>1, MemoryIsCoherent DEF Below
  <2> QED
    BY <1>1, <1>2, <1>4, <2>2, ExtendedHas
<1> QED
  BY <1>1, <1>3, <1>4, CoherentOrFresh

LEMMA AnchorsAreKept ==
    ASSUME NEW n \in Server, Turn(n), CommitInv
    PROVE  Anchors'
<1>1. TypeOK /\ TypeOK' /\ LineInv /\ MatchInv' /\ committed \subseteq committed'
  BY CommittedGrows DEF Turn
<1> SUFFICES ASSUME NEW c \in committed'
             PROVE  \E d \in committed' : /\ IsAnchor(d)' /\ d.at <= c.at /\ c.index <= d.index
                                          /\ Below(c, d)'
  BY DEF Anchors
<1>2. ASSUME NEW o \in committed, o.index = c.index, o.entry = c.entry, o.at <= c.at,
             c.at \in Nat
      PROVE  \E d \in committed' : /\ IsAnchor(d)' /\ d.at <= c.at /\ c.index <= d.index
                                   /\ Below(c, d)'
  <2>1. PICK d \in committed : IsAnchor(d) /\ d.at <= o.at /\ o.index <= d.index /\ Below(o, d)
    BY DEF CommitInv, Anchors
  <2>2. Below(o, d)'
    BY <2>1, BelowIsKept
  <2>3. Below(c, d)'
    BY <1>2, <2>2 DEF Below
  <2>4. o.at \in Nat /\ d.at \in Nat
    BY <2>1 DEF CommitInv, Record
  <2>5. IsAnchor(d)' /\ d.at <= c.at
    BY <1>1, <1>2, <2>1, <2>4 DEF IsAnchor
  <2> QED
    BY <1>1, <1>2, <2>1, <2>3, <2>5
<1>3. CASE c \in committed
  <2>1. c.at \in Nat /\ c.at <= c.at
    BY <1>3 DEF CommitInv, Record
  <2> QED
    BY <1>2, <1>3, <2>1
<1>4. CASE c \notin committed /\ ~LeaderCommits(n)
  <2>1. c \in Declared(n) /\ FollowerCommits(n)
        /\ \E o \in committed : o.index = c.index /\ o.entry = c.entry /\ o.at <= c.at
    BY <1>4, DeclaredOrigin
  <2>2. c.at \in Nat
    BY <1>1, <2>1, DeclaredIsTyped DEF Record
  <2> QED
    BY <1>2, <2>1, <2>2
<1>5. CASE c \notin committed /\ LeaderCommits(n)
  <2>1. c \in Declared(n) /\ committed' = committed \cup Declared(n)
    BY <1>5, DeclaredOrigin DEF Turn, Commits, Forgets
  <2>2. /\ c.at = term'[n] /\ c.at \in Nat /\ c.index \in Index
        /\ c.index > commitIndex[n] /\ c.index <= commitIndex'[n]
        /\ Has(log'[n], c.index, c.entry) /\ commitIndex'[n] \in DOMAIN log'[n]
    BY <1>1, <1>5, <2>1, DeclaredIsTyped DEF Record
  <2>3. PICK i \in Index : i = commitIndex'[n]
    <3>1. log'[n] \in Seq(Entry) /\ commitIndex'[n] \in Nat
      BY <1>1 DEF TypeOK
    <3> QED
      BY <2>2, <3>1 DEF Index
  <2>4. commitIndex[n] \in Nat /\ term[n] \in Nat /\ log[n] \in Seq(Entry)
    BY <1>1 DEF TypeOK
  <2>5. i \in (commitIndex[n] + 1)..commitIndex'[n] /\ c.index \in Nat /\ i \in Nat /\ i # 0
    BY <2>2, <2>3, <2>4 DEF Index
  <2>6. PICK new \in Seq(Entry) : new = log'[n] /\ new = log[n] /\ Coherent(new)'
    BY <1>1, <1>5, MemoryIsCoherentNext DEF LeaderCommits
  <2>7. PICK d \in committed' : d = [index |-> i, entry |-> new[i], at |-> term'[n]]
    BY <2>1, <2>5, <2>6 DEF Declared
  <2>8. i \in DOMAIN new /\ new[i].term = term'[n]
    BY <1>5, <2>2, <2>3, <2>5, <2>6 DEF LeaderCommits, TermAt, NO_INDEX
  <2>9. IsAnchor(d)'
    BY <2>7, <2>8 DEF IsAnchor
  <2>10. Below(c, d)'
    <3> SUFFICES ASSUME NEW lg \in Seq(Entry), Coherent(lg)', Has(lg, i, new[i])
                 PROVE  Has(lg, c.index, c.entry)
      BY <2>7 DEF Below, Has
    <3>1. Has(new, i, new[i])
      BY <2>8 DEF Has
    <3>2. Same(new, lg, i)
      BY <1>1, <2>6, <3>1, HasAgree, CoherentAgreeNext DEF MatchInv
    <3> QED
      BY <2>2, <2>3, <2>5, <2>6, <3>2, SameHas
  <2>11. d.at <= c.at /\ c.index <= d.index
    BY <2>2, <2>3, <2>7
  <2> QED
    BY <2>7, <2>9, <2>10, <2>11
<1> QED
  BY <1>3, <1>4, <1>5

(* What a node has committed it keeps until it crashes. *)
LEMMA CommittedIsKept ==
    ASSUME NEW n \in Server, Turn(n), CommitInv, NEW v \in Server, ~(v = n /\ Recovers(n)),
           NEW c \in committed, Has(log[v], c.index, c.entry), c.at <= term[v]
    PROVE  Has(log'[v], c.index, c.entry)
<1>1. TypeOK /\ MatchInv
  BY DEF Turn
<1>2. c.index \in Index /\ c.at \in Nat
  BY DEF CommitInv, Record
<1>3. ASSUME NEW m \in msgs, Accepts(n, m), v = n
      PROVE  Fits(c.index, c.entry, m)
  <2>1. IsAppend(m) /\ term[n] <= m.term /\ m.term \in Nat /\ term[n] \in Nat
    BY <1>1, <1>3, AppendIsTyped DEF Accepts, TypeOK
  <2>2. c.at <= m.term
    BY <1>2, <1>3, <2>1
  <2> QED
    BY <1>1, <2>1, <2>2, CommittedFits
<1> QED
  BY <1>2, <1>3, FittingIsKept

LEMMA TermsAreKept ==
    ASSUME NEW n \in Server, Turn(n), NEW v \in Server, ~(v = n /\ Recovers(n))
    PROVE  term[v] \in Nat /\ term'[v] \in Nat /\ term[v] <= term'[v]
<1>1. TypeOK /\ TypeOK' /\ Moves(n) /\ Step(n)
  BY DEF Turn, LineStep
<1>2. term[v] \in Nat /\ term'[v] \in Nat
  BY <1>1 DEF TypeOK
<1>3. CASE v # n
  BY <1>1, <1>2, <1>3 DEF Step, Alone
<1>4. CASE v = n
  BY <1>1, <1>2, <1>4 DEF Moves, Stays, Adds, Accepts
<1> QED
  BY <1>2, <1>3, <1>4

LEMMA CommitmentsAreKept ==
    ASSUME NEW n \in Server, Turn(n), CommitInv
    PROVE  Commitments'
<1>1. TypeOK /\ TypeOK' /\ Commits(n) /\ committed \subseteq committed'
  BY CommittedGrows DEF Turn
<1> SUFFICES ASSUME NEW v \in Server, NEW j \in Index, j <= commitIndex'[v]
             PROVE  \E c \in committed' : /\ c.index = j /\ Has(log'[v], j, c.entry)
                                          /\ c.at <= term'[v]
  BY DEF Commitments, Has
<1>2. commitIndex[v] \in Nat /\ commitIndex'[v] \in Nat /\ term'[v] \in Nat /\ j \in Nat /\ j # 0
  BY <1>1 DEF TypeOK, Index
<1>3. CASE j <= commitIndex[v]
  <2>1. ~(v = n /\ Recovers(n))
    BY <1>2 DEF Recovers
  <2>2. PICK c \in committed : c.index = j /\ Has(log[v], j, c.entry) /\ c.at <= term[v]
    BY <1>3 DEF CommitInv, Commitments
  <2>3. Has(log'[v], j, c.entry)
    BY <2>1, <2>2, CommittedIsKept
  <2>4. c.at <= term'[v]
    <3>1. c.at \in Nat
      BY <2>2 DEF CommitInv, Record
    <3> QED
      BY <2>1, <2>2, <3>1, TermsAreKept
  <2> QED
    BY <1>1, <2>2, <2>3, <2>4
<1>4. CASE ~(j <= commitIndex[v])
  <2>1. v = n
    BY <1>1, <1>2, <1>4 DEF Commits
  <2>2. committed' = committed \cup Declared(n) /\ (LeaderCommits(n) \/ FollowerCommits(n))
    BY <1>1, <1>2, <1>4, <2>1, SMTT(20) DEF Commits, Forgets
  <2>3. j \in (commitIndex[n] + 1)..commitIndex'[n]
    BY <1>2, <1>4, <2>1
  <2> DEFINE c == [index |-> j, entry |-> log'[n][j], at |-> term'[n]]
  <2>4. c \in Declared(n)
    BY <2>3 DEF Declared
  <2>5. Has(log'[n], c.index, c.entry) /\ c.at = term'[n]
    BY <1>1, <2>2, <2>4, DeclaredIsTyped
  <2> QED
    BY <1>2, <2>1, <2>2, <2>4, <2>5
<1> QED
  BY <1>3, <1>4

LEMMA AnnouncedIsKept ==
    ASSUME NEW n \in Server, Turn(n), CommitInv, Commitments'
    PROVE  Announced'
<1>1. TypeOK' /\ LineStep(n) /\ committed \subseteq committed'
  BY CommittedGrows DEF Turn
<1> SUFFICES ASSUME NEW m \in msgs', IsAppend(m), NEW j \in Index, j <= m.commit
             PROVE  \E c \in committed' : c.index = j /\ c.at <= m.term
  BY DEF Announced, IsAppend
<1>2. CASE m \in msgs
  BY <1>1, <1>2 DEF CommitInv, Announced
<1>3. CASE m \notin msgs
  <2>1. m.term = term'[n] /\ m.commit <= commitIndex'[n]
    BY <1>1, <1>3 DEF LineStep, Says, Sayable
  <2>2. m.commit \in Nat /\ commitIndex'[n] \in Nat
    BY <1>1, AppendTypes DEF TypeOK
  <2>3. j <= commitIndex'[n]
    BY <2>1, <2>2 DEF Index
  <2> QED
    BY <2>1, <2>3 DEF Commitments
<1> QED
  BY <1>2, <1>3

(* A vote for a candidate of another node is of that node's term. *)
LEMMA VoteIsDurable ==
    TypeOK /\ VoteInv /\ MatchInv => \A v, k \in Server : \A t \in Nat :
        Voted(v, k, t) => t <= term[v] /\ (v # k => t <= disk[k].hard.term)
<1> SUFFICES ASSUME TypeOK, VoteInv, MatchInv, NEW v \in Server, NEW k \in Server,
                    NEW t \in Nat, Voted(v, k, t)
             PROVE  t <= term[v] /\ (v # k => t <= disk[k].hard.term)
  OBVIOUS
<1>1. disk[v].hard.term \in Nat /\ term[v] \in Nat /\ disk[v].hard.term <= term[v]
  BY DiskIsPast
<1>2. CASE Granted(v, k, t)
  <2>1. PICK g \in msgs : g = VoteResp(v, k, t, TRUE)
    BY <1>2 DEF Granted
  <2>2. g.from = v /\ g.to = k /\ g.term = t /\ IsGrant(g)
    BY <2>1 DEF VoteResp, IsGrant
  <2>3. t <= disk[v].hard.term
    BY <2>2 DEF VoteInv, Spoken
  <2>4. t <= disk[k].hard.term
    BY <2>2 DEF MatchInv, GrantsAreAsked
  <2> QED
    BY <1>1, <2>3, <2>4
<1>3. CASE VoteOwed(v, k, t)
  <2>1. PICK j \in Queued(v) : VoteWaits(v, k, t, batches[v][j].act)
    BY <1>3 DEF VoteOwed
  <2>2. batches[v][j].act.kind = "Reply" /\ batches[v][j].act.msg = VoteResp(v, k, t, TRUE)
    BY <2>1 DEF VoteWaits
  <2>3. batches[v][j].hard = [term |-> t, vote |-> k]
    <3>1. RepliesWell(v, batches[v][j])
      BY <2>1 DEF VoteInv, Replies
    <3>2. IsGrant(VoteResp(v, k, t, TRUE)) /\ VoteResp(v, k, t, TRUE).term = t
          /\ VoteResp(v, k, t, TRUE).to = k
      BY DEF IsGrant, VoteResp
    <3> QED
      BY <2>2, <3>1, <3>2 DEF RepliesWell
  <2>4. batches[v][j].hard.term = t /\ batches[v][j].hard.vote = k
    BY <2>3
  <2>5. t <= term[v]
    <3>1. HardTyped(v) /\ Le(batches[v][j].hard, Hard(v))
      BY <2>1, HardTypes DEF VoteInv, Chain
    <3> QED
      BY <2>1, <2>4, <3>1, LeTerm DEF HardTyped
  <2>6. v # k => t <= disk[k].hard.term
    BY <2>1, <2>4 DEF MatchInv, Asked, AskedFor, Peers
  <2> QED
    BY <2>5, <2>6
<1> QED
  BY <1>2, <1>3 DEF Voted

LEMMA VoteIsDurableNext ==
    TypeOK' /\ VoteInv' /\ MatchInv' => \A v, k \in Server : \A t \in Nat :
        Voted(v, k, t)' => t <= term'[v]
<1>1. TypeOK' /\ VoteInv' /\ MatchInv' => (\A v, k \in Server : \A t \in Nat :
        Voted(v, k, t) => t <= term[v] /\ (v # k => t <= disk[k].hard.term))'
  BY VoteIsDurable, PTL
<1> QED
  BY <1>1 DEF Voted, Granted, VoteOwed

LEMMA VotedToday ==
    ASSUME NEW n \in Server, Turn(n), NEW v \in Server, NEW k \in Server, NEW t \in Nat,
           Voted(v, k, t)'
    PROVE  Voted(v, k, t) \/ (v = n /\ Backs(n, k, t))
<1>1. Step(n) /\ LineStep(n)
  BY DEF Turn
<1>2. CASE VoteOwed(v, k, t)'
  <2>1. CASE v = n
    BY <1>1, <1>2, <2>1 DEF LineStep, Promises, Voted
  <2>2. CASE v # n
    <3>1. batches'[v] = batches[v] /\ Queued(v)' = Queued(v)
      BY <1>1, <2>2 DEF Step, Alone, Queued
    <3> QED
      BY <1>2, <3>1 DEF VoteOwed, Voted
  <2> QED
    BY <2>1, <2>2
<1>3. CASE Granted(v, k, t)'
  <2>1. PICK g \in msgs' : g = VoteResp(v, k, t, TRUE)
    BY <1>3 DEF Granted, VoteResp
  <2>2. g.from = v /\ g.to = k /\ g.term = t /\ IsGrant(g)
    BY <2>1 DEF VoteResp, IsGrant
  <2>3. CASE g \in msgs
    BY <2>1, <2>3 DEF Voted, Granted
  <2>4. CASE g \notin msgs
    <3>1. v = n /\ Sayable(n, g)
      BY <1>1, <2>2, <2>4 DEF Step, Speaks, LineStep, Says
    <3> QED
      BY <2>2, <3>1 DEF Sayable, Voted
  <2> QED
    BY <2>3, <2>4
<1> QED
  BY <1>2, <1>3 DEF Voted

(* A node that left the term is not pledged to more than it was. *)
LEMMA PledgedToday ==
    ASSUME NEW n \in Server, Turn(n), CommitInv, NEW v \in Server, NEW t \in Nat,
           NEW i \in Index, v = n => t < term[n] /\ t < term'[n],
           Pledged(v, t, i)'
    PROVE  Pledged(v, t, i)
<1>1. /\ TypeOK /\ TypeOK' /\ VoteInv /\ VoteInv' /\ Step(n) /\ LineStep(n)
      /\ term[n] \in Nat /\ term'[n] \in Nat
  BY DEF Turn, TypeOK
<1>2. CASE Ack(v, t, i)' \/ Owed(v, t, i)'
  BY <1>2, AnswersAreOver DEF Pledged
<1>3. CASE Sender(v, t)' /\ Anchored(t, i)' /\ ~AckQuorum(t, i)'
  <2>1. ~AckQuorum(t, i)
    <3>1. \A p \in Server : Ack(p, t, i) => Ack(p, t, i)'
      BY <1>1, AckIsKept
    <3> QED
      BY <1>3, <3>1 DEF AckQuorum
  <2>2. Sender(v, t)
    <3> SUFFICES ASSUME NEW m \in msgs', IsAppend(m), m.from = v, m.term = t
                 PROVE  m \in msgs
      BY <1>3 DEF Sender, IsAppend
    <3>1. m \notin msgs => v = n /\ m.term = term'[n]
      BY <1>1 DEF Step, Speaks, LineStep, Says, Sayable
    <3> QED
      BY <1>1, <3>1
  <2>3. Anchored(t, i)
    <3>1. PICK d \in committed' : IsAnchor(d)' /\ d.at = t /\ i <= d.index
      BY <1>3 DEF Anchored
    <3>2. d.entry.term = d.at
      BY <3>1 DEF IsAnchor
    <3>3. d \in committed
      <4> SUFFICES ASSUME d \notin committed
                   PROVE  FALSE
        OBVIOUS
      <4>1. LeaderCommits(n) /\ d \in Declared(n)
        BY <3>1, <3>2, DeclaredOrigin
      <4>2. t = term'[n] /\ t = term[n] /\ role[n] = "Leader"
        BY <1>1, <3>1, <4>1, DeclaredIsTyped DEF LeaderCommits
      <4>3. v # n
        BY <1>1, <4>2
      <4>4. PICK m \in msgs : IsAppend(m) /\ m.from = v /\ m.term = t
        BY <2>2, <4>3 DEF Sender
      <4>5. v \in LeadersOf(t) /\ n \in LeadersOf(t) /\ t \in {a.term : a \in msgs}
        BY <4>2, <4>4 DEF LeadersOf, IsAppend
      <4> QED
        BY <1>1, <4>3, <4>5, ElectionSafetyFollows DEF ElectionSafety
    <3> QED
      BY <3>1, <3>2, <3>3 DEF Anchored, IsAnchor
  <2> QED
    BY <2>1, <2>2, <2>3 DEF Pledged
<1> QED
  BY <1>2, <1>3 DEF Pledged

(* A candidate that was asked about has what the voter has, if open. *)
LEMMA BackedHas ==
    ASSUME TypeOK, LineInv, Binds, NEW n \in Server, NEW k \in Server, role[k] = "Candidate",
           Backs(n, k, term[k]), NEW i \in Index, NEW e \in Entry, Open(i, e),
           Has(log[n], i, e)
    PROVE  Has(log[k], i, e)
<1>1. PICK m \in msgs : /\ m.type = "RequestVote" /\ m.from = k /\ m.term = term[k]
                        /\ IsUpToDate(log[n], m.lastIndex, m.lastTerm)
  BY DEF Backs
<1>2. m.lastIndex = Len(log[k]) /\ m.lastTerm = LastTerm(log[k])
  BY <1>1 DEF LineInv, Requests
<1>3. PICK lg \in Seq(Entry) : lg = log[n] /\ Coherent(lg)
  BY MemoryIsCoherent
<1>4. PICK new \in Seq(Entry) : new = log[k] /\ Coherent(new)
  BY MemoryIsCoherent
<1>5. e.term <= LastTerm(lg) /\ i <= Len(lg)
  BY <1>3, HasIsBelow DEF LineInv
<1>6. /\ e.term \in Nat /\ LastTerm(lg) \in Nat /\ LastTerm(new) \in Nat /\ i \in Nat /\ i # 0
      /\ Len(lg) \in Nat /\ Len(new) \in Nat
  <2>1. LastTerm(lg) \in Nat /\ LastTerm(new) \in Nat
    BY LastTermType
  <2>2. i \in Nat /\ i # 0 /\ Len(lg) \in Nat /\ Len(new) \in Nat
    BY DEF Index
  <2> QED
    BY <2>1, <2>2 DEF Entry
<1>7. LastTerm(new) > LastTerm(lg) \/ (LastTerm(new) = LastTerm(lg) /\ Len(new) >= Len(lg))
  BY <1>1, <1>2, <1>3, <1>4 DEF IsUpToDate
<1>8. Len(new) # 0
  <2> SUFFICES ASSUME Len(new) = 0
               PROVE  FALSE
    OBVIOUS
  <2>1. LastTerm(new) = 0
    BY DEF LastTerm, TermAt, NO_INDEX
  <2> QED
    BY <1>5, <1>6, <1>7, <2>1
<1>9. Len(new) \in DOMAIN new /\ new[Len(new)].term = LastTerm(new)
  BY <1>6, <1>8 DEF LastTerm, TermAt, NO_INDEX
<1>10. Beyond(new[Len(new)].term, Len(new), e.term, i)
  BY <1>5, <1>6, <1>7, <1>9 DEF Beyond
<1> QED
  BY <1>4, <1>9, <1>10 DEF Binds

LEMMA BallotsAreKept ==
    ASSUME NEW n \in Server, Turn(n), CommitInv, committed' \subseteq Record, Binds', Holders',
           Majorities'
    PROVE  Ballots'
<1> SUFFICES ASSUME NEW i \in Index, NEW e \in Entry, Open(i, e)', NEW k \in Server,
                    role'[k] = "Candidate", e.term < term'[k], NEW v \in Peers(k),
                    Voted(v, k, term[k])', Pledged(v, e.term, i)'
             PROVE  Has(log'[k], i, e)
  BY DEF Ballots
<1>1. /\ TypeOK /\ VoteInv /\ MatchInv /\ LineInv /\ Step(n) /\ LineStep(n) /\ LogStep(n)
      /\ TypeOK' /\ VoteInv' /\ MatchInv' /\ Binds /\ Ballots /\ LogsAlone(n)
      /\ v \in Server /\ v # k /\ e.term \in Nat
  BY DEF Turn, CommitInv, Peers, Entry, ClaimStep
<1>2. PICK t \in Nat : t = term'[k]
  BY <1>1 DEF TypeOK
<1>3. Voted(v, k, t)'
  BY <1>2
<1>4. Open(i, e)
  <2> SUFFICES ASSUME role'[n] = "Leader", Fresh(n, i, e)
               PROVE  FALSE
    BY OpenToday
  <2>1. ~Ack(v, e.term, i)' /\ ~Owed(v, e.term, i)' /\ ~Anchored(e.term, i)'
    BY <1>1, FreshIsUnanswered, FreshIsUnanchored
  <2> QED
    BY <2>1 DEF Pledged
<1>5. Voted(v, k, t) \/ (v = n /\ Backs(n, k, t))
  BY <1>1, <1>3, VotedToday
<1>6. t <= term'[v]
  BY <1>1, <1>3, VoteIsDurableNext
<1>7. term[v] \in Nat /\ term'[v] \in Nat /\ term[k] \in Nat
  BY <1>1 DEF TypeOK
<1>8. CASE k = n
  <2>1. log'[n] = log[n] /\ v # n /\ Voted(v, k, t)
    BY <1>1, <1>5, <1>8 DEF LineStep
  <2>2. t <= term[n]
    BY <1>1, <1>8, <2>1, VoteIsDurable, DiskIsPast
  <2>3. role[n] = "Candidate" /\ term'[n] = term[n]
    BY <1>1, <1>2, <1>7, <1>8, <2>2 DEF LogStep, Stands
  <2>4. Pledged(v, e.term, i)
    BY <1>1, <2>1, PledgedToday
  <2> QED
    BY <1>1, <1>2, <1>4, <1>8, <2>1, <2>3, <2>4 DEF Ballots
<1>9. CASE k # n
  <2>1. role[k] = "Candidate" /\ term[k] = t /\ log'[k] = log[k]
    BY <1>1, <1>2, <1>9 DEF Step, Alone, LogsAlone
  <2>2. CASE Voted(v, k, t)
    <3>1. t <= term[v]
      BY <1>1, <2>2, VoteIsDurable
    <3>2. Pledged(v, e.term, i)
      BY <1>1, <1>2, <1>6, <1>7, <3>1, PledgedToday
    <3> QED
      BY <1>1, <1>2, <1>4, <2>1, <2>2, <3>2 DEF Ballots
  <2>3. CASE v = n /\ Backs(n, k, t)
    <3>1. Has(log'[v], i, e)
      BY <1>1, PledgedHasNext
    <3>2. Has(log[n], i, e)
      BY <2>3, <3>1 DEF Backs
    <3> QED
      BY <1>1, <1>4, <2>1, <2>3, <3>2, BackedHas
  <2> QED
    BY <1>5, <2>2, <2>3
<1> QED
  BY <1>8, <1>9

(* A step that any handler takes keeps everything commitment rests on. *)
LEMMA CommitIsKept ==
    ASSUME NEW n \in Server, Turn(n), CommitInv
    PROVE  CommitInv'
<1>1. Binds' /\ committed' \subseteq Record /\ Anchors' /\ Commitments'
  BY BindsAreKept, RecordsAreKept, AnchorsAreKept, CommitmentsAreKept
<1>2. Tails'
  BY <1>1, TailsAreKept
<1>3. Holders' /\ Announced'
  BY <1>1, <1>2, HoldersAreKept, AnnouncedIsKept
<1>4. Majorities'
  BY <1>1, <1>3, MajoritiesAreKept
<1>5. Ballots'
  BY <1>1, <1>3, <1>4, BallotsAreKept
<1> QED
  BY <1>1, <1>2, <1>3, <1>4, <1>5 DEF CommitInv

(* Nothing is committed at the start, and a line that goes beyond an entry *)
(* the disks hold either has it or has closed it.                          *)
LEMMA CommitAtStart ==
    ASSUME Init
    PROVE  CommitInv
<1>0. TypeOK /\ MatchInv
  BY InitTypes, MatchAtStart
<1>1. PICK d \in StartDisks : disk = [n \in Server |-> Recovered(d[n])]
  BY DEF Init
<1>2. \A n \in Server : /\ log[n] = disk[n].log /\ role[n] = "Follower" /\ Queued(n) = {}
                        /\ commitIndex[n] = 0
  BY DEF Init, Queued
<1>3. msgs = {} /\ committed = {}
  BY DEF Init
<1>4. HasHistory(disk)
  BY <1>1, HistoryAssumption
<1>5. ASSUME NEW i, NEW e, NEW b, Known(i, e, b)
      PROVE  \E n \in Server : Holds(disk[n].log, i, e, b)
  BY <1>2, <1>3, <1>5 DEF Known, Stored
<1>6. ASSUME NEW i \in Index, NEW t \in Nat, NEW p \in Server, NEW x \in Nat, x > t, Authored(p, x)
      PROVE  Closed(t, i)
  <2>1. PICK Q \in SUBSET Server : IsQuorum(Q) /\ \A v \in Q : Bound(v, x, p)
    BY <1>6 DEF Authored
  <2>2. ASSUME NEW v \in Q
        PROVE  Past(v, t, i)
    <3>1. Le([term |-> x, vote |-> p], disk[v].hard) /\ v \in Server
      BY <2>1, <2>2 DEF Bound
    <3>2. disk[v].hard.term \in Nat /\ x <= disk[v].hard.term
      <4>1. disk[v].hard \in HardState
        BY <1>0, <3>1, HardTypes DEF HardTyped
      <4>2. disk[v].hard.term \in Nat
        BY <4>1 DEF HardState
      <4> QED
        BY <3>1, <4>2 DEF Le
    <3>3. ~Ack(v, t, i) /\ ~Owed(v, t, i)
      BY <1>2, <1>3, <3>1 DEF Ack, Owed
    <3> QED
      BY <1>6, <3>2, <3>3 DEF Past
  <2> QED
    BY <1>3, <2>1, <2>2 DEF Closed, Anchored
<1>7. Binds
  <2> SUFFICES ASSUME NEW i \in Index, NEW e \in Entry, Open(i, e), NEW lg \in Seq(Entry),
                      Coherent(lg), NEW j \in DOMAIN lg, Beyond(lg[j].term, j, e.term, i)
               PROVE  Has(lg, i, e)
    BY DEF Binds
  <2>1. /\ lg[j] \in Entry /\ lg[j].term \in Nat /\ e.term \in Nat /\ j \in Index /\ j \in Nat
        /\ i \in Nat /\ TermAt(lg, j - 1) \in Nat
    <3>1. lg[j] \in Entry /\ j \in Index /\ j \in Nat /\ i \in Nat /\ j - 1 \in 0..Len(lg)
      BY DEF Index
    <3>2. TermAt(lg, j - 1) \in Nat
      BY <3>1, TermAtType
    <3> QED
      BY <3>1, <3>2 DEF Entry
  <2>2. Known(j, lg[j], TermAt(lg, j - 1))
    BY DEF Coherent
  <2>3. CASE lg[j].term > e.term
    <3>1. PICK p \in Server : Authored(p, lg[j].term)
      BY <1>0, <2>1, <2>2 DEF MatchInv, Authors
    <3> QED
      BY <1>6, <2>1, <2>3, <3>1 DEF Open
  <2>4. CASE lg[j].term = e.term /\ j >= i
    <3>1. PICK q \in Server : Holds(disk[q].log, j, lg[j], TermAt(lg, j - 1))
      BY <1>5, <2>2
    <3>2. PICK w \in Server : \E b \in Nat : Holds(disk[w].log, i, e, b)
      BY <1>5 DEF Open
    <3>3. PICK old \in Seq(Entry) : old = disk[q].log
      BY <1>0, LogTypes
    <3>4. Coherent(old)
      BY <1>0, <3>3, LogsAreCoherent DEF IsLog
    <3>5. i \in DOMAIN old /\ j \in DOMAIN old /\ old[j] = lg[j]
      BY <2>1, <2>4, <3>1, <3>3 DEF Holds, Index
    <3>6. old[i] = e
      <4>1. i \in DOMAIN disk[w].log /\ disk[w].log[i] = e
        BY <3>2 DEF Holds
      <4>2. /\ j \in DOMAIN disk[q].log /\ disk[q].log[j].term = e.term
        BY <2>4, <3>3, <3>5
      <4>3. i <= j
        BY <2>1, <2>4
      <4>4. disk[w].log[i] = disk[q].log[i]
        BY <1>4, <4>1, <4>2, <4>3 DEF HasHistory
      <4> QED
        BY <3>3, <4>1, <4>4
    <3>7. TermAt(lg, j) = TermAt(old, j)
      BY <2>1, <3>5 DEF TermAt, NO_INDEX, Index
    <3>8. Same(lg, old, j)
      BY <1>0, <3>4, <3>7, CoherentAgree DEF MatchInv
    <3>9. i \in 1..j
      BY <2>1, <2>4 DEF Index
    <3> QED
      BY <3>6, <3>8, <3>9 DEF Same, Has
  <2> QED
    BY <2>3, <2>4 DEF Beyond
<1>8. committed \subseteq Record /\ Majorities /\ Anchors /\ Tails /\ Announced
  BY <1>3 DEF Majorities, Anchors, Tails, Announced
<1>9. Holders
  BY <1>2, <1>3 DEF Holders, Ack, Owed
<1>10. Ballots
  BY <1>2 DEF Ballots
<1>11. Commitments
  BY <1>2 DEF Commitments, Index
<1> QED
  BY <1>7, <1>8, <1>9, <1>10, <1>11 DEF CommitInv

-----------------------------------------------------------------------------
(* Every action commits in one of these ways. *)

LEMMA CommitToMoves ==
    ASSUME TypeOK, NEW n \in Server, NEW i \in Nat, CommitTo(n, i)
    PROVE  /\ commitIndex'[n] = i
           /\ \A p \in Server \ {n} : commitIndex'[p] = commitIndex[p]
           /\ committed' = committed \cup Declared(n)
           /\ i <= commitIndex[n] => committed' = committed
<1>1. commitIndex \in [Server -> Nat] /\ commitIndex[n] \in Nat
  BY DEF TypeOK
<1>2. /\ commitIndex'[n] = i
      /\ \A p \in Server \ {n} : commitIndex'[p] = commitIndex[p]
      /\ committed' = committed \cup Declared(n)
  BY <1>1 DEF CommitTo, Declared
<1>3. i <= commitIndex[n] => Declared(n) = {}
  BY <1>1, <1>2 DEF Declared
<1> QED
  BY <1>2, <1>3

LEMMA StillCommits ==
    ASSUME TypeOK, NEW n \in Server, UNCHANGED <<commitIndex, committed>>
    PROVE  Commits(n)
<1>1. commitIndex[n] \in Nat
  BY DEF TypeOK
<1> QED
  BY <1>1 DEF Commits

(* `maybe_commit` *)
LEMMA LeaderCommitting ==
    ASSUME TypeOK, TypeOK', NEW n \in Server, role[n] = "Leader",
           UNCHANGED <<role, term, log>>,
           CommitTo(n, CommitAfter(n, matchIndex'[n], durableIndex'[n]))
    PROVE  Commits(n)
<1>1. /\ commitIndex[n] \in Nat /\ matchIndex'[n] \in [Server -> Nat] /\ durableIndex'[n] \in Nat
  BY DEF TypeOK
<1>2. PICK match \in [Server -> Nat] : match = matchIndex'[n]
  BY <1>1
<1>3. PICK d \in Nat : d = durableIndex'[n]
  BY <1>1
<1>4. PICK q \in Nat : q = QuorumIndex(n, match, d)
  BY QuorumIndexType
<1>5. PICK i \in Nat : i = CommitAfter(n, match, d)
  BY CommitAfterType
<1>6. /\ commitIndex'[n] = i
      /\ \A p \in Server \ {n} : commitIndex'[p] = commitIndex[p]
      /\ committed' = committed \cup Declared(n)
      /\ i <= commitIndex[n] => committed' = committed
  BY <1>2, <1>3, <1>5, CommitToMoves
<1>7. CASE i <= commitIndex[n]
  <2>1. i = commitIndex[n]
    BY <1>1, <1>4, <1>5, <1>7 DEF CommitAfter
  <2> QED
    BY <1>6, <1>7, <2>1 DEF Commits
<1>8. CASE i > commitIndex[n]
  <2>1. i = q /\ TermAt(log[n], i) = term[n]
    BY <1>1, <1>4, <1>5, <1>8 DEF CommitAfter
  <2> DEFINE Q == {s \in Server : (IF s = n THEN d ELSE match[s]) >= i}
  <2>2. IsQuorum(Q)
    BY <1>4, <2>1, QuorumIndexType
  <2>3. ASSUME NEW p \in Q
        PROVE  IF p = n THEN i <= d ELSE i <= match[p]
    BY <2>3
  <2>4. Q \in SUBSET Server
    OBVIOUS
  <2> HIDE DEF Q
  <2>5. LeaderCommits(n)
    BY <1>2, <1>3, <1>6, <2>1, <2>2, <2>3, <2>4 DEF LeaderCommits
  <2> QED
    BY <1>6, <1>8, <2>5 DEF Commits
<1> QED
  BY <1>1, <1>7, <1>8

LEMMA HandleAppendAckCommits ==
    ASSUME TypeOK, TypeOK', NEW n \in Server, NEW m \in msgs, HandleAppendAck(n, m)
    PROVE  Commits(n)
<1>1. /\ role[n] = "Leader" /\ UNCHANGED <<role, term, log>> /\ durableIndex' = durableIndex
      /\ CommitTo(n, CommitAfter(n, matchIndex'[n], durableIndex[n]))
  BY DEF HandleAppendAck, electionVars, durableVars
<1> QED
  BY <1>1, LeaderCommitting

LEMMA LogIsDurableCommits ==
    ASSUME TypeOK, TypeOK', NEW n \in Server, NEW k \in Queued(n), LogIsDurable(n, k)
    PROVE  Commits(n)
<1>1. /\ UNCHANGED <<role, term, log>> /\ matchIndex' = matchIndex
      /\ CommitTo(n, IF role[n] = "Leader"
                     THEN CommitAfter(n, matchIndex[n], durableIndex'[n])
                     ELSE commitIndex[n])
  BY DEF LogIsDurable, electionVars, leaderVars
<1>2. CASE role[n] = "Leader"
  BY <1>1, <1>2, LeaderCommitting
<1>3. CASE role[n] # "Leader"
  <2>1. commitIndex[n] \in Nat /\ CommitTo(n, commitIndex[n])
    BY <1>1, <1>3 DEF TypeOK
  <2> QED
    BY <2>1, CommitToMoves DEF Commits
<1> QED
  BY <1>2, <1>3

(* `on_append_entries` *)
LEMMA FollowCommits ==
    ASSUME TypeOK, TypeOK', NEW n \in Server, NEW m \in msgs, FollowLeader(n, m),
           Reaches(log'[n], m), FollowCommit(n, m)
    PROVE  Commits(n)
<1>1. role'[n] = "Follower" /\ term'[n] = m.term /\ IsAppend(m) /\ m \in AppendMsgs
  BY FollowLeaderMoves
<1>2. /\ m.commit \in Nat /\ Last(m) \in Nat /\ Last(m) = m.prev + Len(m.entries)
      /\ Len(log'[n]) \in Nat /\ commitIndex[n] \in Nat
  <2>1. m.commit \in Nat /\ Last(m) \in Nat
    BY <1>1, AppendIsTyped
  <2>2. log'[n] \in Seq(Entry) /\ commitIndex[n] \in Nat
    BY DEF TypeOK
  <2> QED
    BY <2>1, <2>2 DEF Last
<1> DEFINE low == MinOf(m.commit, MinOf(Last(m), Len(log'[n])))
           i == MaxOf(commitIndex[n], low)
<1>3. /\ low \in Nat /\ low <= m.commit /\ low <= Last(m) /\ low <= Len(log'[n])
      /\ i \in Nat /\ commitIndex[n] <= i /\ (i = low \/ i = commitIndex[n])
  BY <1>2 DEF MinOf, MaxOf
<1>4. CommitTo(n, i)
  BY <1>2 DEF FollowCommit
<1> HIDE DEF i
<1>5. /\ commitIndex'[n] = i
      /\ \A p \in Server \ {n} : commitIndex'[p] = commitIndex[p]
      /\ committed' = committed \cup Declared(n)
      /\ i <= commitIndex[n] => committed' = committed
  BY <1>3, <1>4, CommitToMoves
<1>6. CASE i = commitIndex[n]
  BY <1>2, <1>5, <1>6 DEF Commits
<1>7. CASE i = low /\ i # commitIndex[n]
  <2> HIDE DEF low
  <2>1. FollowerCommits(n)
    BY <1>1, <1>3, <1>5, <1>7 DEF FollowerCommits
  <2> QED
    BY <1>2, <1>3, <1>5, <1>7, <2>1 DEF Commits
<1> QED
  BY <1>3, <1>6, <1>7

LEMMA ConfirmAppendCommits ==
    ASSUME TypeOK, TypeOK', NEW n \in Server, NEW m \in msgs, ConfirmAppend(n, m)
    PROVE  Commits(n)
<1>1. /\ FollowLeader(n, m) /\ FollowCommit(n, m) /\ log' = log
      /\ Matches(log[n], m.prev, m.prevTerm)
      /\ FirstNew(log[n], m.prev, m.entries) > Last(m)
  BY DEF ConfirmAppend, Last
<1>2. m \in AppendMsgs /\ log[n] \in Seq(Entry)
  BY <1>1, FollowLeaderMoves DEF TypeOK
<1>3. Reaches(log[n], m)
  BY <1>1, <1>2, ConfirmReaches
<1> QED
  BY <1>1, <1>3, FollowCommits

LEMMA AcceptAppendCommits ==
    ASSUME TypeOK, TypeOK', NEW n \in Server, NEW m \in msgs, AcceptAppend(n, m)
    PROVE  Commits(n)
<1> DEFINE start == FirstNew(log[n], m.prev, m.entries)
           last == m.prev + Len(m.entries)
           new == log'[n]
           prev == m.prev
           es == m.entries
<1>1. FollowLeader(n, m) /\ FollowCommit(n, m)
  BY DEF AcceptAppend
<1>2. /\ prev \in Nat /\ es \in Seq(Entry) /\ last \in Nat /\ start \in (prev + 1)..last
      /\ DOMAIN new = 1..last /\ Len(new) = last
      /\ \A i \in start..last : i - prev \in DOMAIN es /\ new[i] = es[i - prev]
  BY AcceptedLog
<1>3. /\ last = prev + Len(es) /\ Len(es) \in Nat /\ Last(m) = last
      /\ TailTerm(m) = (IF es = <<>> THEN m.prevTerm ELSE es[Len(es)].term)
  BY <1>2 DEF Last, TailTerm
<1> HIDE DEF start, last, new, prev, es
<1>4. last \in start..last /\ last - prev = Len(es) /\ es # <<>> /\ last # 0
  <2>1. start \in Nat /\ prev + 1 <= start /\ start <= last
    BY <1>2
  <2>2. Len(es) # 0
    BY <1>2, <1>3, <2>1
  <2> QED
    BY <1>2, <1>3, <2>1, <2>2
<1>5. new[last] = es[Len(es)] /\ last \in DOMAIN new
  BY <1>2, <1>4
<1>6. Reaches(new, m)
  BY <1>2, <1>3, <1>4, <1>5 DEF Reaches, TermAt, NO_INDEX
<1> QED
  BY <1>1, <1>6, FollowCommits DEF new

LEMMA RestartCommits ==
    ASSUME TypeOK, NEW n \in Server, Restart(n)
    PROVE  Commits(n)
<1>1. /\ commitIndex' = [commitIndex EXCEPT ![n] = 0] /\ committed' = committed
      /\ role' = [role EXCEPT ![n] = "Follower"] /\ UNCHANGED msgs
      /\ restarts' = [restarts EXCEPT ![n] = @ + 1]
  BY DEF Restart
<1>2. /\ commitIndex \in [Server -> Nat] /\ role \in [Server -> {"Follower", "Candidate", "Leader"}]
      /\ restarts \in [Server -> Nat]
  BY DEF TypeOK
<1>3. commitIndex'[n] = 0 /\ role'[n] = "Follower" /\ restarts'[n] = restarts[n] + 1
  BY <1>1, <1>2
<1>4. restarts'[n] # restarts[n]
  BY <1>2, <1>3
<1> QED
  BY <1>1, <1>2, <1>3, <1>4 DEF Commits, Forgets

LEMMA QuietCommits ==
    ASSUME TypeOK, NEW n \in Server,
           \/ ElectionTimeout(n) \/ Heartbeat(n) \/ \E c \in Cmd : Propose(n, c)
           \/ \E k \in Queued(n) : CampaignDurable(n, k) \/ ReplyDurable(n, k)
           \/ \E m \in msgs :
                \/ RefuseStale(n, m) \/ HandleNewerTermResp(n, m)
                \/ HandleVoteRequest(n, m) \/ RepeatVoteAnswer(n, m) \/ HandleVoteResp(n, m)
                \/ HandlePreVote(n, m) \/ HandlePreVoteResp(n, m)
                \/ RejectAppend(n, m) \/ HandleAppendNack(n, m)
    PROVE  Commits(n)
<1>1. BecomeCandidate(n) => UNCHANGED <<commitIndex, committed>>
  BY DEF BecomeCandidate, logVars
<1>2. ElectionTimeout(n) => UNCHANGED <<commitIndex, committed>>
  BY <1>1 DEF ElectionTimeout, StartPreVote, logVars
<1>3. Heartbeat(n) => UNCHANGED <<commitIndex, committed>>
  BY DEF Heartbeat, logVars
<1>4. ASSUME NEW c \in Cmd, Propose(n, c)
      PROVE  UNCHANGED <<commitIndex, committed>>
  BY <1>4 DEF Propose
<1>5. ASSUME NEW k \in Queued(n), CampaignDurable(n, k) \/ ReplyDurable(n, k)
      PROVE  UNCHANGED <<commitIndex, committed>>
  BY <1>5 DEF CampaignDurable, ReplyDurable, logVars
<1>6. ASSUME NEW m \in msgs, HandlePreVoteResp(n, m)
      PROVE  UNCHANGED <<commitIndex, committed>>
  BY <1>1, <1>6 DEF HandlePreVoteResp, logVars
<1>7. ASSUME NEW m \in msgs, \/ RefuseStale(n, m) \/ RepeatVoteAnswer(n, m)
                             \/ HandlePreVote(n, m) \/ HandleAppendNack(n, m)
      PROVE  UNCHANGED <<commitIndex, committed>>
  BY <1>7 DEF RefuseStale, RepeatVoteAnswer, HandlePreVote, HandleAppendNack, logVars
<1>8. ASSUME NEW m \in msgs, \/ HandleNewerTermResp(n, m) \/ HandleVoteRequest(n, m)
                             \/ HandleVoteResp(n, m) \/ RejectAppend(n, m)
      PROVE  UNCHANGED <<commitIndex, committed>>
  BY <1>8 DEF HandleNewerTermResp, HandleVoteRequest, HandleVoteResp, RejectAppend, logVars
<1>9. UNCHANGED <<commitIndex, committed>>
  BY <1>2, <1>3, <1>4, <1>5, <1>6, <1>7, <1>8
<1> QED
  BY <1>9, StillCommits

LEMMA ActCommits ==
    ASSUME TypeOK, TypeOK', NEW n \in Server, Acts(n)
    PROVE  Commits(n)
BY QuietCommits, RestartCommits, LogIsDurableCommits, AcceptAppendCommits,
   ConfirmAppendCommits, HandleAppendAckCommits DEF Acts

LEMMA EveryTurn ==
    ASSUME TypeOK, VoteInv, ClaimInv, MatchInv, LineInv,
           TypeOK', VoteInv', ClaimInv', MatchInv', LineInv', [Next]_vars
    PROVE  \E n \in Server : Turn(n)
<1>1. \A n \in Server : Refuses(n)
  BY DEF LineInv
<1>2. CASE Next
  <2>1. PICK n \in Server : Acts(n)
    BY <1>2, NextActs
  <2>2. Step(n) /\ ClaimStep(n) /\ LogStep(n) /\ LineStep(n) /\ Commits(n)
    BY <1>1, <2>1, ActMatches, ActLines, ActCommits
  <2> QED
    BY <2>2 DEF Turn
<1>3. CASE UNCHANGED vars
  <2>1. PICK n \in Server : Step(n) /\ ClaimStep(n) /\ LogStep(n)
    BY <1>3, StutterMatches
  <2>2. LineStep(n)
    BY <1>1, <1>3, StutterLines
  <2>3. Commits(n)
    BY <1>3, StillCommits DEF vars, logVars
  <2> QED
    BY <2>1, <2>2, <2>3 DEF Turn
<1> QED
  BY <1>2, <1>3

-----------------------------------------------------------------------------
(* The inductive invariant, for every cluster and every configuration.     *)
(* Whoever acknowledged an append still has it as long as anybody could    *)
(* count the acknowledgement; a line that goes past an entry that could    *)
(* still be counted includes it; and what `maybe_commit` and               *)
(* `on_append_entries` declare committed is on the disks of a majority.    *)
THEOREM CommitmentIsKept == Spec => []CommitInv
<1>1. Init => CommitInv
  BY CommitAtStart
<1>2. /\ TypeOK /\ VoteInv /\ ClaimInv /\ MatchInv /\ LineInv
      /\ TypeOK' /\ VoteInv' /\ ClaimInv' /\ MatchInv' /\ LineInv'
      /\ CommitInv /\ [Next]_vars
      => CommitInv'
  BY EveryTurn, CommitIsKept
<1> QED
  BY <1>1, <1>2, TypeCorrect, VotesAreKept, ClaimsAreBacked, MatchesAreKept, LinesAreKept,
     PTL DEF Spec

LEMMA AnchorOf ==
    TypeOK /\ LineInv /\ CommitInv => \A c \in committed : \E d \in committed :
        /\ IsAnchor(d) /\ Open(d.index, d.entry) /\ Below(c, d)
        /\ d.index \in Index /\ d.entry \in Entry /\ d.at \in Nat /\ d.entry.term = d.at
        /\ c.index \in Index /\ c.at \in Nat /\ d.at <= c.at /\ c.index <= d.index
        /\ \E v \in Server : Has(log[v], d.index, d.entry)
<1> SUFFICES ASSUME TypeOK, LineInv, CommitInv, NEW c \in committed
             PROVE  \E d \in committed :
        /\ IsAnchor(d) /\ Open(d.index, d.entry) /\ Below(c, d)
        /\ d.index \in Index /\ d.entry \in Entry /\ d.at \in Nat /\ d.entry.term = d.at
        /\ c.index \in Index /\ c.at \in Nat /\ d.at <= c.at /\ c.index <= d.index
        /\ \E v \in Server : Has(log[v], d.index, d.entry)
  OBVIOUS
<1>1. PICK d \in committed : IsAnchor(d) /\ d.at <= c.at /\ c.index <= d.index /\ Below(c, d)
  BY DEF CommitInv, Anchors
<1>2. Open(d.index, d.entry) /\ \E v \in Server : Has(log[v], d.index, d.entry)
  BY <1>1, AnchorIsOpen DEF CommitInv
<1>3. /\ d.index \in Index /\ d.entry \in Entry /\ d.at \in Nat /\ d.entry.term = d.at
      /\ c.index \in Index /\ c.at \in Nat
  BY <1>1, CommittedIsOfTerm DEF IsAnchor
<1> QED
  BY <1>1, <1>2, <1>3

(* Every leader of the committing term or a later one has every entry that *)
(* `maybe_commit` or `on_append_entries` ever declared committed, whatever *)
(* crashed and was elected in between.                                     *)
THEOREM LeadersAreComplete == Spec => []LeaderCompleteness
<1>1. TypeOK /\ MatchInv /\ LineInv /\ CommitInv => LeaderCompleteness
  <2> SUFFICES ASSUME TypeOK, MatchInv, LineInv, CommitInv, NEW c \in committed,
                      NEW n \in Server, role[n] = "Leader", term[n] >= c.at
               PROVE  Has(log[n], c.index, c.entry)
    BY DEF LeaderCompleteness, Has
  <2>1. PICK d \in committed :
        /\ Open(d.index, d.entry) /\ Below(c, d)
        /\ d.index \in Index /\ d.entry \in Entry /\ d.at \in Nat /\ d.entry.term = d.at
        /\ c.at \in Nat /\ d.at <= c.at
    BY AnchorOf
  <2>2. d.entry.term <= term[n]
    BY <2>1 DEF TypeOK
  <2>3. Has(log[n], d.index, d.entry)
    BY <2>1, <2>2, LeaderHas DEF CommitInv
  <2> QED
    BY <2>1, <2>3, MemoryIsCoherent DEF Below
<1> QED
  BY <1>1, TypeCorrect, MatchesAreKept, LinesAreKept, CommitmentIsKept, PTL

(* No two nodes, and no node before and after a crash, ever declare        *)
(* different entries committed at one index: what `take_applied` hands to  *)
(* the state machine is the same everywhere.                               *)
THEOREM StateMachinesAgree == Spec => []StateMachineSafety
<1>1. TypeOK /\ LineInv /\ CommitInv => StateMachineSafety
  <2> SUFFICES ASSUME TypeOK, LineInv, CommitInv, NEW c \in committed, NEW d \in committed,
                      c.index = d.index
               PROVE  c.entry = d.entry
    BY DEF StateMachineSafety
  <2>1. PICK a \in committed :
        /\ Open(a.index, a.entry) /\ Below(c, a)
        /\ a.index \in Index /\ a.entry \in Entry /\ a.at \in Nat /\ a.entry.term = a.at
        /\ \E v \in Server : Has(log[v], a.index, a.entry)
    BY AnchorOf
  <2>2. PICK b \in committed :
        /\ Open(b.index, b.entry) /\ Below(d, b)
        /\ b.index \in Index /\ b.entry \in Entry /\ b.at \in Nat /\ b.entry.term = b.at
        /\ \E v \in Server : Has(log[v], b.index, b.entry)
    BY AnchorOf
  <2>3. \E v \in Server : Has(log[v], a.index, a.entry) /\ Has(log[v], b.index, b.entry)
    <3>1. CASE Beyond(b.at, b.index, a.at, a.index)
      <4>1. PICK v \in Server : Has(log[v], b.index, b.entry)
        BY <2>2
      <4>2. log[v] \in Seq(Entry) /\ Coherent(log[v])
        BY MemoryIsCoherent
      <4>3. Has(log[v], a.index, a.entry)
        BY <2>1, <2>2, <3>1, <4>1, <4>2 DEF CommitInv, Binds, Has
      <4> QED
        BY <4>1, <4>3
    <3>2. CASE Beyond(a.at, a.index, b.at, b.index)
      <4>1. PICK v \in Server : Has(log[v], a.index, a.entry)
        BY <2>1
      <4>2. log[v] \in Seq(Entry) /\ Coherent(log[v])
        BY MemoryIsCoherent
      <4>3. Has(log[v], b.index, b.entry)
        BY <2>1, <2>2, <3>2, <4>1, <4>2 DEF CommitInv, Binds, Has
      <4> QED
        BY <4>1, <4>3
    <3> QED
      BY <2>1, <2>2, <3>1, <3>2 DEF Beyond, Index
  <2>4. PICK v \in Server : Has(log[v], a.index, a.entry) /\ Has(log[v], b.index, b.entry)
    BY <2>3
  <2>5. Has(log[v], c.index, c.entry) /\ Has(log[v], d.index, d.entry)
    BY <2>1, <2>2, <2>4, MemoryIsCoherent DEF Below
  <2> QED
    BY <2>5 DEF Has
<1> QED
  BY <1>1, TypeCorrect, LinesAreKept, CommitmentIsKept, PTL

(* What was ever declared committed is on the disks of a majority, whoever *)
(* crashed since: `durable_index`, which `on_durable` acknowledges, never  *)
(* counts an entry that recovery would lose.                               *)
THEOREM CommitsAreDurable == Spec => []CommittedIsDurable
<1>1. TypeOK /\ ClaimInv /\ LineInv /\ CommitInv => CommittedIsDurable
  <2> SUFFICES ASSUME TypeOK, ClaimInv, LineInv, CommitInv, NEW c \in committed
               PROVE  IsQuorum({s \in Server : c.index \in DOMAIN disk[s].log
                                                /\ disk[s].log[c.index] = c.entry})
    BY DEF CommittedIsDurable
  <2> DEFINE H == {s \in Server : c.index \in DOMAIN disk[s].log
                                    /\ disk[s].log[c.index] = c.entry}
  <2>1. PICK d \in committed :
        /\ IsAnchor(d) /\ Below(c, d) /\ d.index \in Index /\ c.index \in Index
        /\ c.index <= d.index
    BY AnchorOf
  <2>2. PICK Q \in SUBSET Server : IsQuorum(Q) /\ \A v \in Q : Keeps(v, d.index, d.entry)
    BY <2>1 DEF CommitInv, Majorities
  <2>3. ASSUME NEW v \in Q
        PROVE  v \in H
    <3>1. v \in Server /\ Has(log[v], d.index, d.entry) /\ d.index <= durableIndex[v]
      BY <2>2, <2>3 DEF Keeps
    <3>2. Has(log[v], c.index, c.entry)
      BY <2>1, <3>1, MemoryIsCoherent DEF Below
    <3>3. c.index <= durableIndex[v]
      BY <2>1, <3>1 DEF TypeOK, Index
    <3>4. Agree(disk[v].log, log[v], c.index)
      BY <2>1, <3>1, <3>3 DEF ClaimInv, Claimed, Written
    <3> QED
      BY <3>1, <3>2, <3>4 DEF Agree, Has
  <2>4. Q \subseteq H /\ H \in SUBSET Server
    BY <2>3
  <2> HIDE DEF H
  <2>5. IsQuorum(H)
    BY <2>2, <2>4, QuorumGrows
  <2> QED
    BY <2>5 DEF H
<1> QED
  BY <1>1, TypeCorrect, ClaimsAreBacked, LinesAreKept, CommitmentIsKept, PTL

(* No step but a restart takes from a node's log an entry it has committed, *)
(* so the count `truncated_committed` of `truncate` stays zero.            *)
THEOREM CommitsAreNotTruncated == Spec => NoCommittedTruncation
<1>1. /\ TypeOK /\ VoteInv /\ ClaimInv /\ MatchInv /\ LineInv
      /\ TypeOK' /\ VoteInv' /\ ClaimInv' /\ MatchInv' /\ LineInv'
      /\ CommitInv /\ [Next]_vars
      => [\A n \in Server : restarts'[n] = restarts[n] =>
            \A i \in 1..commitIndex[n] : i \in DOMAIN log'[n] /\ log'[n][i] = log[n][i]]_vars
  <2> SUFFICES ASSUME TypeOK, VoteInv, ClaimInv, MatchInv, LineInv,
                      TypeOK', VoteInv', ClaimInv', MatchInv', LineInv', CommitInv, [Next]_vars,
                      NEW p \in Server, restarts'[p] = restarts[p],
                      NEW i \in 1..commitIndex[p]
               PROVE  i \in DOMAIN log'[p] /\ log'[p][i] = log[p][i]
    OBVIOUS
  <2>1. PICK n \in Server : Turn(n)
    BY EveryTurn
  <2>2. i \in Index /\ i <= commitIndex[p]
    BY DEF TypeOK, Index
  <2>3. PICK c \in committed : c.index = i /\ Has(log[p], i, c.entry) /\ c.at <= term[p]
    BY <2>2 DEF CommitInv, Commitments
  <2>4. ~(p = n /\ Recovers(n))
    BY DEF Recovers
  <2>5. Has(log'[p], c.index, c.entry)
    BY <2>1, <2>3, <2>4, CommittedIsKept
  <2> QED
    BY <2>3, <2>5 DEF Has
<1> QED
  BY <1>1, TypeCorrect, VotesAreKept, ClaimsAreBacked, MatchesAreKept, LinesAreKept,
     CommitmentIsKept, PTL DEF Spec, NoCommittedTruncation

-----------------------------------------------------------------------------
(***************************************************************************)
(* Raft implements AgreedLog, for every cluster of more than one node,     *)
(* every configuration and any number of crashes.                          *)
(*                                                                         *)
(* The argument: what was declared committed spells one sequence, without  *)
(* gaps and without a second opinion (Spells).  It changes only when a     *)
(* leader commits, because a follower repeats what was declared before.    *)
(* The highest term that was led is remembered by the appends of its       *)
(* leader, who has greeted the others by the time it leads; the greeting   *)
(* is not withheld, because nobody votes for a term that the candidate has *)
(* not on disk (SayInv).                                                   *)
(***************************************************************************)

Said(n, t) == \E m \in msgs : IsAppend(m) /\ m.from = n /\ m.term = t

SayInv ==
    /\ \A m \in msgs : m.term <= durableTerm[m.from]
    /\ \A v, k \in Server : \A t \in Nat : Voted(v, k, t) /\ v # k => t <= durableTerm[k]
    /\ \A n \in Server : role[n] # "Follower" => term[n] # 0
    /\ \A n \in Server : role[n] = "Leader" => Server = {n} \/ Said(n, term[n])

(* What is committed has no gaps and an end. *)
Listed ==
    /\ \A c \in committed : \A j \in 1..c.index : \E d \in committed : d.index = j
    /\ \E b \in Nat : \A c \in committed : c.index <= b

(* A node greets the others when it becomes their leader, unless its term  *)
(* is not on disk.                                                         *)
Greets(n) ==
    role[n] # "Leader" /\ role'[n] = "Leader" /\ term'[n] <= durableTerm'[n]
        => Server = {n} \/ \E m \in msgs' : IsAppend(m) /\ m.from = n /\ m.term = term'[n]

-----------------------------------------------------------------------------
LEMMA LeaderGreets ==
    ASSUME TypeOK, TypeOK', NEW n \in Server, NEW queue, BecomeLeader(n, queue),
           NEW ms, Send(n, ms \cup LeaderGreeting(n))
    PROVE  Greets(n)
<1> SUFFICES ASSUME term'[n] <= durableTerm'[n], Server # {n}
             PROVE  \E m \in msgs' : IsAppend(m) /\ m.from = n /\ m.term = term'[n]
  BY DEF Greets
<1>1. PICK p \in Peers(n) : TRUE
  BY DEF Peers
<1>2. /\ term'[n] = term[n] /\ nextIndex'[n][p] = Len(log[n]) + 1
      /\ log'[n] = Append(log[n], [term |-> term[n], cmd |-> Noop])
  BY <1>1 DEF BecomeLeader, TypeOK, Peers
<1>3. PICK lg \in Seq(Entry) : lg = log[n]
  BY DEF TypeOK
<1>4. PICK new \in Seq(Entry) : new = log'[n]
  BY DEF TypeOK
<1>5. PICK e : new = Append(lg, e)
  BY <1>2, <1>3, <1>4
<1>6. TermAt(new, Len(lg)) \in Nat
  <2>1. Len(lg) \in 0..Len(new)
    BY <1>5
  <2> QED
    BY <2>1, TermAtType
<1>7. nextIndex'[n][p] - 1 = Len(lg)
  BY <1>2, <1>3
<1>8. TermAt(new, nextIndex'[n][p] - 1) # NoTerm
  BY <1>6, <1>7 DEF NoTerm
<1>9. PICK m : /\ m \in AppendTo(n, p, log'[n], nextIndex'[n][p], commitIndex[n])
               /\ m.type = "AppendEntries" /\ m.from = n /\ m.term = term[n]
  <2>1. PICK next : next = nextIndex'[n][p]
    OBVIOUS
  <2> DEFINE a == [type |-> "AppendEntries", from |-> n, to |-> p, term |-> term[n],
                   prev |-> next - 1, prevTerm |-> TermAt(new, next - 1),
                   entries |-> SliceFrom(new, next, MaxBatch), commit |-> commitIndex[n]]
  <2>2. AppendTo(n, p, new, next, commitIndex[n]) = {a}
    BY <1>8, <2>1 DEF AppendTo
  <2>3. a.type = "AppendEntries" /\ a.from = n /\ a.term = term[n]
    OBVIOUS
  <2> HIDE DEF a
  <2>4. a \in AppendTo(n, p, log'[n], nextIndex'[n][p], commitIndex[n])
    BY <1>4, <2>1, <2>2
  <2> QED
    BY <2>3, <2>4
<1>10. m \in LeaderGreeting(n)
  BY <1>1, <1>9 DEF LeaderGreeting, AppendToAll
<1>11. m \in msgs'
  BY <1>2, <1>9, <1>10 DEF Send
<1> QED
  BY <1>2, <1>9, <1>11 DEF IsAppend

LEMMA RoleIsKept ==
    ASSUME TypeOK, NEW n \in Server,
           \/ ElectionTimeout(n) \/ Heartbeat(n) \/ Restart(n) \/ \E c \in Cmd : Propose(n, c)
           \/ \E k \in Queued(n) : ReplyDurable(n, k) \/ LogIsDurable(n, k)
           \/ \E m \in msgs :
                \/ RefuseStale(n, m) \/ HandleNewerTermResp(n, m)
                \/ HandleVoteRequest(n, m) \/ RepeatVoteAnswer(n, m)
                \/ HandlePreVote(n, m) \/ HandlePreVoteResp(n, m)
                \/ RejectAppend(n, m) \/ AcceptAppend(n, m) \/ ConfirmAppend(n, m)
                \/ HandleAppendAck(n, m) \/ HandleAppendNack(n, m)
    PROVE  role'[n] = "Leader" => role[n] = "Leader"
<1> USE DEF electionVars
<1>0. role \in [Server -> {"Follower", "Candidate", "Leader"}]
  BY DEF TypeOK
<1>1. BecomeCandidate(n) => role'[n] # "Leader"
  BY <1>0 DEF BecomeCandidate
<1>2. ElectionTimeout(n) => role'[n] # "Leader"
  BY <1>0, <1>1 DEF ElectionTimeout, StartPreVote
<1>3. Heartbeat(n) => role' = role
  BY DEF Heartbeat
<1>4. Restart(n) => role'[n] # "Leader"
  BY <1>0 DEF Restart
<1>5. ASSUME NEW c \in Cmd, Propose(n, c)
      PROVE  role' = role
  BY <1>5 DEF Propose
<1>6. ASSUME NEW k \in Queued(n), ReplyDurable(n, k) \/ LogIsDurable(n, k)
      PROVE  role' = role
  BY <1>6 DEF ReplyDurable, LogIsDurable
<1>7. ASSUME NEW m \in msgs, HandlePreVoteResp(n, m)
      PROVE  role' = role \/ role'[n] # "Leader"
  BY <1>1, <1>7 DEF HandlePreVoteResp
<1>8. ASSUME NEW m \in msgs, \/ RefuseStale(n, m) \/ RepeatVoteAnswer(n, m)
                             \/ HandlePreVote(n, m) \/ HandleAppendNack(n, m)
                             \/ HandleAppendAck(n, m)
      PROVE  role' = role
  BY <1>8 DEF RefuseStale, RepeatVoteAnswer, HandlePreVote, HandleAppendNack, HandleAppendAck
<1>9. ASSUME NEW t, StepDownTo(n, t)
      PROVE  role'[n] # "Leader"
  BY <1>0, <1>9 DEF StepDownTo
<1>10. ASSUME NEW m \in msgs, HandleVoteRequest(n, m)
       PROVE  role' = role \/ role'[n] # "Leader"
  BY <1>9, <1>10 DEF HandleVoteRequest
<1>11. ASSUME NEW m \in msgs, \/ HandleNewerTermResp(n, m) \/ RejectAppend(n, m)
                              \/ AcceptAppend(n, m) \/ ConfirmAppend(n, m)
       PROVE  role'[n] # "Leader"
  <2>1. StepDownTo(n, m.term)
    BY <1>11 DEF HandleNewerTermResp, RejectAppend, AcceptAppend, ConfirmAppend, FollowLeader
  <2> QED
    BY <1>9, <2>1
<1> QED
  BY <1>2, <1>3, <1>4, <1>5, <1>6, <1>7, <1>8, <1>10, <1>11

LEMMA ActGreets ==
    ASSUME TypeOK, TypeOK', NEW n \in Server, Acts(n)
    PROVE  Greets(n)
<1>1. ASSUME NEW m \in msgs, HandleVoteResp(n, m)
      PROVE  Greets(n)
  <2>1. CASE BecomeLeader(n, batches[n]) /\ Send(n, LeaderGreeting(n))
    <3>1. Send(n, {} \cup LeaderGreeting(n))
      BY <2>1
    <3> QED
      BY <2>1, <3>1, LeaderGreets
  <2>2. CASE role' = role
    BY <2>2 DEF Greets
  <2> QED
    BY <1>1, <2>1, <2>2 DEF HandleVoteResp
<1>2. ASSUME NEW k \in Queued(n), CampaignDurable(n, k)
      PROVE  Greets(n)
  <2>1. CASE role' = role
    BY <2>1 DEF Greets
  <2>2. CASE /\ BecomeLeader(n, QueueWithout(batches[n], k))
             /\ Send(n, {RequestVoteMsg(n, p) : p \in Peers(n)} \cup LeaderGreeting(n))
    BY <2>2, LeaderGreets
  <2> QED
    BY <1>2, <2>1, <2>2 DEF CampaignDurable
<1>3. (role'[n] = "Leader" => role[n] = "Leader") => Greets(n)
  BY DEF Greets
<1> QED
  BY <1>1, <1>2, <1>3, RoleIsKept DEF Acts

LEMMA EveryTurnGreets ==
    ASSUME TypeOK, VoteInv, ClaimInv, MatchInv, LineInv,
           TypeOK', VoteInv', ClaimInv', MatchInv', LineInv', [Next]_vars
    PROVE  \E n \in Server : Turn(n) /\ Greets(n)
<1>1. CASE Next
  <2>1. PICK n \in Server : Acts(n)
    BY <1>1, NextActs
  <2>2. Step(n) /\ ClaimStep(n) /\ LogStep(n) /\ LineStep(n) /\ Commits(n) /\ Greets(n)
    BY <2>1, ActMatches, ActLines, ActCommits, ActGreets DEF LineInv
  <2> QED
    BY <2>2 DEF Turn
<1>2. CASE UNCHANGED vars
  <2>1. PICK n \in Server : Turn(n)
    BY EveryTurn
  <2>2. Greets(n)
    BY <1>2 DEF Greets, vars, electionVars
  <2> QED
    BY <2>1, <2>2
<1> QED
  BY <1>1, <1>2

-----------------------------------------------------------------------------
(* The terms that are spoken of are on the speaker's disk, to its own      *)
(* knowledge.                                                              *)
LEMMA DurableTermGrows ==
    ASSUME NEW n \in Server, Turn(n), NEW p \in Server
    PROVE  durableTerm[p] \in Nat /\ durableTerm'[p] \in Nat /\ durableTerm[p] <= durableTerm'[p]
<1>1. TypeOK /\ TypeOK' /\ VoteInv /\ Step(n)
  BY DEF Turn
<1>0. disk[n].hard.term \in Nat /\ disk[n].hard.term <= disk'[n].hard.term
  BY <1>1, DisksGrow
<1>2. durableTerm[p] \in Nat /\ durableTerm'[p] \in Nat
  BY <1>1 DEF TypeOK
<1>3. CASE p # n
  BY <1>1, <1>2, <1>3 DEF Step, Alone
<1>4. CASE p = n
  <2>1. CASE Writes(n)
    BY <1>2, <1>4, <2>1 DEF Writes
  <2>2. ASSUME NEW k \in Queued(n), Syncs(n, k)
        PROVE  durableTerm[n] <= durableTerm'[n]
    <3>1. batches[n][k].hard.term \in Nat
      BY <1>1, HardTypes DEF HardTyped, HardState
    <3>2. durableTerm'[n] = IF batches[n][k].writesHard
                            THEN MaxOf(durableTerm[n], batches[n][k].hard.term) ELSE durableTerm[n]
      BY <1>1, <2>2 DEF Syncs, SyncDone, TypeOK
    <3> QED
      BY <1>2, <1>4, <3>1, <3>2 DEF MaxOf
  <2>3. CASE Crashes(n)
    <3>1. durableTerm'[n] = disk'[n].hard.term
      BY <2>3 DEF Crashes
    <3>2. durableTerm[n] <= disk[n].hard.term
      BY <1>1 DEF VoteInv, Chain
    <3> QED
      BY <1>0, <1>2, <1>4, <3>1, <3>2
  <2> QED
    BY <1>1, <1>2, <1>4, <2>1, <2>2, <2>3 DEF Step, Stores
<1> QED
  BY <1>2, <1>3, <1>4

LEMMA SaidIsKept ==
    ASSUME NEW n \in Server, Turn(n), NEW p, NEW t, Said(p, t)
    PROVE  Said(p, t)'
<1>1. msgs \subseteq msgs'
  BY DEF Turn, Step, Speaks
<1> QED
  BY <1>1 DEF Said, IsAppend

LEMMA SayingIsKept ==
    ASSUME NEW n \in Server, Turn(n), Greets(n), SayInv
    PROVE  SayInv'
<1>1. /\ TypeOK /\ TypeOK' /\ VoteInv' /\ Step(n) /\ LogStep(n) /\ LineStep(n)
      /\ \A p \in Server : term[p] \in Nat /\ term'[p] \in Nat
  BY DEF Turn, TypeOK
<1>2. ASSUME NEW m \in msgs'
      PROVE  m.term <= durableTerm'[m.from]
  <2>1. m.from \in Server /\ m.term \in Nat
    BY <1>1, MessageTypes DEF TypeOK
  <2>2. CASE m \in msgs
    BY <2>1, <2>2, DurableTermGrows DEF SayInv
  <2>3. CASE m \notin msgs
    BY <1>1, <2>3 DEF Step, Speaks
  <2> QED
    BY <2>2, <2>3
<1>3. ASSUME NEW v \in Server, NEW k \in Server, NEW t \in Nat, Voted(v, k, t)', v # k
      PROVE  t <= durableTerm'[k]
  <2>1. t <= durableTerm[k]
    <3>1. CASE Voted(v, k, t)
      BY <1>3, <3>1 DEF SayInv
    <3>2. CASE Backs(n, k, t)
      BY <3>2 DEF Backs, SayInv
    <3> QED
      BY <1>3, <3>1, <3>2, VotedToday
  <2> QED
    BY <2>1, DurableTermGrows
<1>4. ASSUME NEW p \in Server, role'[p] # "Follower"
      PROVE  term'[p] # 0
  <2>1. CASE p # n
    BY <1>1, <1>4, <2>1 DEF Step, Alone, SayInv
  <2>2. CASE p = n
    <3>1. CASE role'[n] = "Leader"
      BY <1>1, <2>2, <3>1 DEF LogStep, LeadsOn, SayInv
    <3>2. CASE role'[n] = "Candidate"
      BY <1>1, <2>2, <3>2 DEF LogStep, Stands, SayInv
    <3> QED
      BY <1>1, <1>4, <2>2, <3>1, <3>2 DEF TypeOK
  <2> QED
    BY <2>1, <2>2
<1>5. ASSUME NEW p \in Server, role'[p] = "Leader", Server # {p}
      PROVE  Said(p, term[p])'
  <2>1. CASE role[p] = "Leader" /\ term'[p] = term[p]
    <3>1. PICK t : t = term[p]
      OBVIOUS
    <3>2. Said(p, t)'
      BY <1>5, <2>1, <3>1, SaidIsKept DEF SayInv
    <3> QED
      BY <2>1, <3>1, <3>2 DEF Said
  <2>2. CASE p = n /\ role[n] # "Leader"
    <3>1. PICK V \in SUBSET Server : V = votes'[n]
      BY <1>1 DEF TypeOK
    <3>2. IsQuorum(V) /\ \A v \in V : v = n \/ Voted(v, n, term[n])'
      <4>1. IsQuorum(V)
        BY <1>1, <1>5, <2>2, <3>1 DEF VoteInv, Counted
      <4>2. \A v \in V : v = n \/ Granted(v, n, term[n])'
        BY <1>1, <3>1 DEF VoteInv, Counted, Granted
      <4> QED
        BY <4>1, <4>2 DEF Voted
    <3>3. PICK v \in V : v # n
      <4>1. V # {n}
        BY <1>5, <2>2, <3>2, SoloQuorum
      <4>2. V # {}
        BY <3>2, QuorumIsSome
      <4> QED
        BY <4>1, <4>2
    <3>4. term'[n] <= durableTerm'[n]
      <4>1. PICK t \in Nat : t = term'[n]
        BY <1>1
      <4>2. Voted(v, n, t)'
        BY <3>2, <3>3, <4>1 DEF Voted, Granted, VoteOwed
      <4> QED
        BY <1>3, <3>3, <4>1, <4>2
    <3> QED
      BY <1>5, <2>2, <3>4 DEF Greets, Said
  <2>3. p # n => role[p] = role'[p] /\ term'[p] = term[p]
    BY <1>1 DEF Step, Alone
  <2>4. p = n => term'[p] = term[p]
    BY <1>1, <1>5 DEF LogStep, LeadsOn
  <2> QED
    BY <1>5, <2>1, <2>2, <2>3, <2>4
<1> QED
  BY <1>2, <1>3, <1>4, <1>5 DEF SayInv

LEMMA SayAtStart ==
    ASSUME Init
    PROVE  SayInv /\ Listed
<1>1. /\ msgs = {} /\ committed = {}
      /\ \A n \in Server : role[n] = "Follower" /\ Queued(n) = {}
  BY DEF Init, Queued
<1>2. \A v, k \in Server : \A t : ~Voted(v, k, t)
  BY <1>1 DEF Voted, Granted, VoteOwed
<1>3. SayInv
  BY <1>1, <1>2 DEF SayInv
<1>4. 0 \in Nat /\ \A c \in committed : c.index <= 0
  BY <1>1
<1> QED
  BY <1>1, <1>3, <1>4 DEF Listed

LEMMA ListIsKept ==
    ASSUME NEW n \in Server, Turn(n), CommitInv, CommitInv', Listed
    PROVE  Listed'
<1>1. /\ TypeOK /\ TypeOK' /\ committed \subseteq committed' /\ Commits(n)
      /\ commitIndex'[n] \in Nat
      /\ \A c \in committed' : c.index \in Index
  BY CommittedGrows DEF Turn, CommitInv, Record, TypeOK
<1>2. ASSUME NEW c \in committed', c \notin committed
      PROVE  c.index <= commitIndex'[n]
  BY <1>1, <1>2, DeclaredOrigin, DeclaredIsTyped
<1>3. ASSUME NEW c \in committed', NEW j \in 1..c.index
      PROVE  \E d \in committed' : d.index = j
  <2>1. CASE c \in committed
    BY <1>1, <2>1 DEF Listed
  <2>2. CASE c \notin committed
    <3>1. j \in Index /\ j <= commitIndex'[n]
      BY <1>1, <1>2, <2>2 DEF Index
    <3> QED
      BY <3>1 DEF CommitInv, Commitments
  <2> QED
    BY <2>1, <2>2
<1>4. PICK b \in Nat : \A c \in committed : c.index <= b
  BY DEF Listed
<1>5. PICK a \in Nat : a >= b /\ a >= commitIndex'[n]
  BY <1>1
<1>6. ASSUME NEW c \in committed'
      PROVE  c.index <= a
  <2>1. c.index \in Nat
    BY <1>1 DEF Index
  <2>2. c.index <= b \/ c.index <= commitIndex'[n]
    BY <1>2, <1>4
  <2> QED
    BY <1>1, <1>5, <2>1, <2>2
<1> QED
  BY <1>3, <1>5, <1>6 DEF Listed

-----------------------------------------------------------------------------
(* The sequence that what is committed spells. *)

Spells(s) ==
    /\ s \in Seq(Entry)
    /\ \A c \in committed : c.index \in DOMAIN s /\ s[c.index] = c.entry
    /\ \A i \in DOMAIN s : \E c \in committed : c.index = i

LEMMA OneSpelling ==
    \A a, b : Spells(a) /\ Spells(b) => a = b
<1> SUFFICES ASSUME NEW a, NEW b, Spells(a), Spells(b)
             PROVE  a = b
  OBVIOUS
<1>1. a \in Seq(Entry) /\ b \in Seq(Entry)
  BY DEF Spells
<1>2. DOMAIN a = DOMAIN b /\ \A i \in DOMAIN a : a[i] = b[i]
  BY DEF Spells
<1>3. Len(a) = Len(b) /\ \A i \in 1..Len(a) : a[i] = b[i]
  BY <1>1, <1>2
<1> QED
  BY <1>1, <1>3, SameSequence DEF Same

LEMMA BoundedMax ==
    ASSUME NEW S \in SUBSET Nat, S # {}, NEW b \in Nat, \A x \in S : x <= b
    PROVE  Max(S) \in S /\ \A y \in S : y <= Max(S)
<1>1. S \subseteq 0..b
  OBVIOUS
<1>2. IsFiniteSet(0..b)
  BY FS_Interval
<1>3. IsFiniteSet(S)
  BY <1>1, <1>2, FS_Subset
<1> QED
  BY <1>3, MaxFinite

LEMMA ChosenSpells ==
    TypeOK /\ LineInv /\ CommitInv /\ Listed /\ StateMachineSafety => Spells(Chosen)
<1> SUFFICES ASSUME TypeOK, LineInv, CommitInv, Listed, StateMachineSafety
             PROVE  Spells(Chosen)
  OBVIOUS
<1> DEFINE S == {0} \cup {c.index : c \in committed}
           f == [i \in 1..Max(S) |-> (CHOOSE c \in committed : c.index = i).entry]
<1>1. \A c \in committed : c.index \in Nat /\ c.index # 0 /\ c.entry \in Entry
  BY CommittedIsOfTerm DEF Index
<1>2. PICK b \in Nat : \A c \in committed : c.index <= b
  BY DEF Listed
<1>3. S \in SUBSET Nat /\ S # {} /\ \A x \in S : x <= b
  BY <1>1, <1>2
<1>4. Max(S) \in S /\ Max(S) \in Nat /\ \A y \in S : y <= Max(S)
  <2> HIDE DEF S
  <2> QED
    BY <1>3, BoundedMax
<1>5. PICK x \in Nat : x = Max(S)
  BY <1>4
<1>6. \A c \in committed : c.index \in 1..x
  <2> SUFFICES ASSUME NEW c \in committed
               PROVE  c.index \in 1..x
    OBVIOUS
  <2>1. c.index \in S
    OBVIOUS
  <2> HIDE DEF S
  <2> QED
    BY <1>1, <1>4, <1>5, <2>1
<1>7. ASSUME NEW i \in 1..x
      PROVE  \E c \in committed : c.index = i
  <2>1. x \in S /\ x # 0
    BY <1>4, <1>5
  <2>2. PICK c \in committed : c.index = x
    BY <2>1
  <2> QED
    BY <2>2 DEF Listed
<1>8. ASSUME NEW i \in 1..x
      PROVE  f[i] \in Entry /\ \A c \in committed : c.index = i => f[i] = c.entry
  <2>1. f[i] = (CHOOSE c \in committed : c.index = i).entry
    BY <1>5
  <2>2. PICK d : d = CHOOSE c \in committed : c.index = i
    OBVIOUS
  <2>3. d \in committed /\ d.index = i
    BY <1>7, <2>2
  <2> HIDE DEF f
  <2> QED
    BY <1>1, <2>1, <2>2, <2>3 DEF StateMachineSafety
<1>9. DOMAIN f = 1..x /\ Chosen = f
  BY <1>5 DEF Chosen
<1>10. f \in Seq(Entry)
  <2>1. f \in [1..x -> Entry]
    BY <1>5, <1>8
  <2> HIDE DEF f
  <2> QED
    BY <2>1
<1> HIDE DEF f
<1> QED
  BY <1>6, <1>7, <1>8, <1>9, <1>10 DEF Spells

-----------------------------------------------------------------------------
(* What the abstract log shows, before and after a step. *)

Good == CommitInv /\ Listed /\ StateMachineSafety /\ LeaderCompleteness /\ SayInv

LEMMA ChosenSpellsNext ==
    TypeOK' /\ LineInv' /\ CommitInv' /\ Listed' /\ StateMachineSafety' => Spells(Chosen)'
BY ChosenSpells, PTL

LEMMA OneSpellingNext ==
    \A a, b : Spells(a)' /\ Spells(b)' => a = b
<1> SUFFICES ASSUME NEW a, NEW b, Spells(a)', Spells(b)'
             PROVE  a = b
  OBVIOUS
<1>1. a \in Seq(Entry) /\ b \in Seq(Entry)
  BY DEF Spells
<1>2. DOMAIN a = DOMAIN b /\ \A i \in DOMAIN a : a[i] = b[i]
  BY DEF Spells
<1>3. Len(a) = Len(b) /\ \A i \in 1..Len(a) : a[i] = b[i]
  BY <1>1, <1>2
<1> QED
  BY <1>1, <1>3, SameSequence DEF Same

(* The sequence that is spelled after the step is the chosen one. *)
LEMMA ChosenAfter ==
    ASSUME NEW n \in Server, Turn(n), Good', NEW s, Spells(s)'
    PROVE  Chosen' = s
<1>1. PICK c : c = Chosen'
  OBVIOUS
<1>2. Spells(c)'
  BY <1>1, ChosenSpellsNext DEF Turn, Good, Spells
<1> QED
  BY <1>1, <1>2, OneSpellingNext

LEMMA ChosenIsKept ==
    ASSUME NEW n \in Server, Turn(n), Good, Good',
           \A c \in committed' : \E o \in committed : o.index = c.index /\ o.entry = c.entry
    PROVE  Chosen' = Chosen
<1>1. PICK s : s = Chosen
  OBVIOUS
<1>2. Spells(s)
  BY <1>1, ChosenSpells DEF Turn, Good
<1>3. committed \subseteq committed'
  BY CommittedGrows
<1>4. Spells(s)'
  BY <1>2, <1>3 DEF Spells
<1> QED
  BY <1>1, <1>4, ChosenAfter

LEMMA PrefixByEntries ==
    ASSUME NEW lg \in Seq(Entry), NEW s \in Seq(Entry),
           \A i \in 1..Len(s) : Has(lg, i, s[i])
    PROVE  Agreed!Extends(lg, s)
<1>1. Len(lg) >= Len(s)
  <2>1. CASE Len(s) = 0
    BY <2>1
  <2>2. CASE Len(s) # 0
    <3>1. Len(s) \in 1..Len(s)
      BY <2>2
    <3>2. Len(s) \in DOMAIN lg
      BY <3>1 DEF Has
    <3> QED
      BY <3>2
  <2> QED
    BY <2>1, <2>2
<1>2. SubSeq(lg, 1, Len(s)) \in Seq(Entry) /\ Len(SubSeq(lg, 1, Len(s))) = Len(s)
  BY <1>1
<1>3. Same(SubSeq(lg, 1, Len(s)), s, Len(s))
  BY <1>1 DEF Same, Has
<1>4. SubSeq(lg, 1, Len(s)) = s
  BY <1>2, <1>3, SameSequence
<1> QED
  BY <1>1, <1>4 DEF Agreed!Extends

-----------------------------------------------------------------------------
(* The newest leader's term, by what it is rather than how it is found. *)

Led(t) ==
    \/ t = 0
    \/ \E n \in Server : role[n] = "Leader" /\ term[n] = t
    \/ \E m \in msgs : IsAppend(m) /\ m.term = t

IsNewest(x) == x \in Nat /\ Led(x) /\ \A y : Led(y) => y <= x

LEMMA LedIsBounded ==
    TypeOK /\ VoteInv /\ MatchInv =>
        \E b \in Nat : \A y : Led(y) => y \in Nat /\ y <= b
<1> SUFFICES ASSUME TypeOK, VoteInv, MatchInv
             PROVE  \E b \in Nat : \A y : Led(y) => y \in Nat /\ y <= b
  OBVIOUS
<1> DEFINE H == {disk[n].hard.term : n \in Server}
<1>1. \A n \in Server : disk[n].hard.term \in Nat /\ term[n] \in Nat
  BY DiskIsPast
<1>2. H \in SUBSET Nat /\ H # {}
  BY <1>1, ServerAssumption
<1>3. IsFiniteSet(H)
  <2> DEFINE f == [n \in Server |-> disk[n].hard.term]
  <2>1. f \in Surjection(Server, H)
    BY DEF Surjection
  <2> HIDE DEF f
  <2> QED
    BY <2>1, ServerAssumption, FS_Surjection
<1>4. \A n \in Server : disk[n].hard.term \in H
  OBVIOUS
<1> HIDE DEF H
<1>5. Max(H) \in Nat /\ \A y \in H : y <= Max(H)
  BY <1>2, <1>3, MaxFinite
<1>6. PICK b \in Nat : \A n \in Server : disk[n].hard.term <= b
  BY <1>4, <1>5
<1>7. ASSUME NEW n \in Server, role[n] = "Leader"
      PROVE  term[n] \in Nat /\ term[n] <= b
  <2>1. term[n] <= disk[n].hard.term
    BY <1>7 DEF MatchInv, LeadersAreDurable
  <2>2. disk[n].hard.term <= b
    BY <1>6
  <2> QED
    BY <1>1, <2>1, <2>2
<1>8. ASSUME NEW m \in msgs
      PROVE  m.term \in Nat /\ m.term <= b
  <2>1. m.term \in Nat /\ m.from \in Server
    BY MessageTypes DEF TypeOK
  <2>2. m.term <= disk[m.from].hard.term
    BY DEF VoteInv, Spoken
  <2> QED
    BY <1>1, <1>6, <2>1, <2>2
<1> QED
  BY <1>6, <1>7, <1>8 DEF Led

LEMMA NewestIsNewest ==
    TypeOK /\ VoteInv /\ MatchInv => IsNewest(NewestTerm)
<1> SUFFICES ASSUME TypeOK, VoteInv, MatchInv
             PROVE  IsNewest(NewestTerm)
  OBVIOUS
<1> DEFINE S == {0} \cup {Leads[n] : n \in Server}
                    \cup {m.term : m \in {a \in msgs : a.type = "AppendEntries"}}
<1>1. \A y : y \in S <=> Led(y) \/ \E n \in Server : Leads[n] = y
  BY DEF IsAppend, Led, Leads
<1>2. \A y : (\E n \in Server : Leads[n] = y) => Led(y)
  BY DEF Leads, Led
<1>3. \A y : y \in S <=> Led(y)
  BY <1>1, <1>2
<1>4. NewestTerm = Max(S)
  BY DEF NewestTerm
<1>5. PICK b \in Nat : \A y : Led(y) => y \in Nat /\ y <= b
  BY LedIsBounded
<1>6. 0 \in S
  OBVIOUS
<1> HIDE DEF S
<1>7. S \in SUBSET Nat /\ S # {} /\ \A y \in S : y <= b
  BY <1>3, <1>5, <1>6
<1>8. Max(S) \in S /\ \A y \in S : y <= Max(S)
  BY <1>7, BoundedMax
<1> QED
  BY <1>3, <1>4, <1>7, <1>8 DEF IsNewest

LEMMA NewestIsNewestNext ==
    TypeOK' /\ VoteInv' /\ MatchInv' => IsNewest(NewestTerm)'
BY NewestIsNewest, PTL

LEMMA NewestAfter ==
    ASSUME NEW n \in Server, Turn(n), NEW x \in Nat, Led(x)', \A y : Led(y)' => y <= x
    PROVE  NewestTerm' = x
<1>1. PICK y : y = NewestTerm'
  OBVIOUS
<1>2. y \in Nat /\ Led(y)' /\ \A z : Led(z)' => z <= y
  BY <1>1, NewestIsNewestNext DEF Turn, IsNewest, Led
<1> QED
  BY <1>1, <1>2

(* A leader that is gone is remembered by what it said. *)
LEMMA LedIsKept ==
    ASSUME NEW n \in Server, Turn(n), SayInv, Cardinality(Server) > 1, NEW t, Led(t)
    PROVE  Led(t)'
<1>1. msgs \subseteq msgs'
  BY DEF Turn, Step, Speaks
<1>2. ASSUME NEW p \in Server, role[p] = "Leader", term[p] = t
      PROVE  \E m \in msgs : IsAppend(m) /\ m.term = t
  <2>1. Server # {p}
    BY FS_Singleton
  <2> QED
    BY <1>2, <2>1 DEF SayInv, Said
<1>3. t = 0 \/ \E m \in msgs : IsAppend(m) /\ m.term = t
  BY <1>2 DEF Led
<1> QED
  BY <1>1, <1>3 DEF Led

(* Whoever leads after the step led before, or is the one that was just    *)
(* elected.                                                                *)
LEMMA LedToday ==
    ASSUME NEW n \in Server, Turn(n), NEW t, Led(t)'
    PROVE  Led(t) \/ (role[n] # "Leader" /\ role'[n] = "Leader" /\ t = term[n])
<1>1. Step(n) /\ LogStep(n)
  BY DEF Turn
<1>2. role'[n] = "Leader" => term'[n] = term[n]
  BY <1>1 DEF LogStep, LeadsOn
<1>3. ASSUME NEW m \in msgs', m \notin msgs, IsAppend(m)
      PROVE  role'[n] = "Leader" /\ m.term = term'[n]
  BY <1>1, <1>3 DEF Step, Speaks, IsAppend
<1>4. \A p \in Server : p # n => role'[p] = role[p] /\ term'[p] = term[p]
  BY <1>1 DEF Step, Alone
<1>5. t = term'[n] /\ role'[n] = "Leader"
      => Led(t) \/ (role[n] # "Leader" /\ role'[n] = "Leader" /\ t = term[n])
  BY <1>2 DEF Led
<1>6. ASSUME NEW p \in Server, role'[p] = "Leader", term'[p] = t
      PROVE  Led(t) \/ (p = n)
  BY <1>4, <1>6 DEF Led
<1>7. ASSUME NEW m \in msgs, IsAppend(m), m.term = t
      PROVE  Led(t)
  BY <1>7 DEF Led
<1>8. t = 0 => Led(t)
  BY DEF Led
<1> QED
  BY <1>3, <1>5, <1>6, <1>7, <1>8 DEF Led

LEMMA NewestStays ==
    ASSUME NEW n \in Server, Turn(n), SayInv, Cardinality(Server) > 1,
           role'[n] = "Leader" => role[n] = "Leader"
    PROVE  NewestTerm' = NewestTerm
<1>1. PICK x : x = NewestTerm
  OBVIOUS
<1>2. x \in Nat /\ Led(x) /\ \A y : Led(y) => y <= x
  BY <1>1, NewestIsNewest DEF Turn, IsNewest
<1>3. Led(x)' /\ \A y : Led(y)' => y <= x
  BY <1>2, LedIsKept, LedToday
<1> QED
  BY <1>1, <1>2, <1>3, NewestAfter

LEMMA NewestRises ==
    ASSUME NEW n \in Server, Turn(n), SayInv, Cardinality(Server) > 1,
           role[n] # "Leader", role'[n] = "Leader"
    PROVE  NewestTerm' = IF term[n] > NewestTerm THEN term[n] ELSE NewestTerm
<1>1. PICK x : x = NewestTerm
  OBVIOUS
<1>2. x \in Nat /\ Led(x) /\ \A y : Led(y) => y <= x
  BY <1>1, NewestIsNewest DEF Turn, IsNewest
<1>3. PICK t \in Nat : t = term[n] /\ t = term'[n]
  BY DEF Turn, TypeOK, LogStep, LeadsOn
<1>4. Led(x)' /\ Led(t)'
  BY <1>2, <1>3, LedIsKept DEF Led
<1>5. \A y : Led(y)' => y <= x \/ y = t
  BY <1>2, <1>3, LedToday
<1>6. CASE t > x
  <2>1. \A y : Led(y)' => y <= t
    <3> SUFFICES ASSUME NEW y, Led(y)'
                 PROVE  y <= t
      OBVIOUS
    <3>1. y \in Nat
      <4>1. PICK b \in Nat : \A z : Led(z) => z \in Nat /\ z <= b
        BY LedIsBounded DEF Turn
      <4> QED
        BY <1>3, <4>1, LedToday
    <3>2. y <= x \/ y = t
      BY <1>5
    <3> QED
      BY <1>2, <1>6, <3>1, <3>2
  <2> QED
    BY <1>1, <1>3, <1>4, <1>6, <2>1, NewestAfter
<1>7. CASE ~(t > x)
  <2>1. \A y : Led(y)' => y <= x
    BY <1>2, <1>3, <1>5, <1>7
  <2> QED
    BY <1>1, <1>2, <1>3, <1>4, <1>7, <2>1, NewestAfter
<1> QED
  BY <1>6, <1>7

-----------------------------------------------------------------------------
(* Each kind of step is a step of the agreed log. *)

LEMMA CommittedPrefix ==
    TypeOK /\ LineInv /\ Good => \A v \in Server :
        /\ log[v] \in Seq(Entry) /\ Chosen \in Seq(Entry) /\ commitIndex[v] \in Nat
        /\ commitIndex[v] <= Len(log[v]) /\ commitIndex[v] <= Len(Chosen)
        /\ \A i \in 1..commitIndex[v] : Has(log[v], i, Chosen[i])
<1> SUFFICES ASSUME TypeOK, LineInv, Good, NEW v \in Server
             PROVE  /\ log[v] \in Seq(Entry) /\ Chosen \in Seq(Entry) /\ commitIndex[v] \in Nat
                    /\ commitIndex[v] <= Len(log[v]) /\ commitIndex[v] <= Len(Chosen)
                    /\ \A i \in 1..commitIndex[v] : Has(log[v], i, Chosen[i])
  OBVIOUS
<1>1. PICK lg \in Seq(Entry) : lg = log[v]
  BY DEF TypeOK
<1>2. PICK k \in Nat : k = commitIndex[v]
  BY DEF TypeOK
<1>3. PICK s : s = Chosen
  OBVIOUS
<1>4. Spells(s)
  BY <1>3, ChosenSpells DEF Good
<1>5. ASSUME NEW i \in 1..k
      PROVE  Has(lg, i, s[i]) /\ i \in DOMAIN s
  <2>1. PICK c \in committed : c.index = i /\ Has(lg, i, c.entry)
    BY <1>1, <1>2 DEF Good, CommitInv, Commitments, Index
  <2> QED
    BY <1>4, <2>1 DEF Spells
<1>6. s \in Seq(Entry)
  BY <1>4 DEF Spells
<1>7. k <= Len(lg) /\ k <= Len(s)
  <2>1. CASE k = 0
    BY <1>6, <2>1
  <2>2. CASE k # 0
    <3>1. k \in DOMAIN lg /\ k \in DOMAIN s
      BY <1>5, <2>2 DEF Has
    <3> QED
      BY <1>6, <3>1
  <2> QED
    BY <2>1, <2>2
<1> QED
  BY <1>1, <1>2, <1>3, <1>5, <1>6, <1>7

LEMMA CommittedPrefixNext ==
    TypeOK' /\ LineInv' /\ Good' => (\A v \in Server :
        /\ log[v] \in Seq(Entry) /\ Chosen \in Seq(Entry) /\ commitIndex[v] \in Nat
        /\ commitIndex[v] <= Len(log[v]) /\ commitIndex[v] <= Len(Chosen)
        /\ \A i \in 1..commitIndex[v] : Has(log[v], i, Chosen[i]))'
BY CommittedPrefix, PTL

LEMMA AloneInLog ==
    ASSUME NEW n \in Server, Turn(n)
    PROVE  /\ log' = [log EXCEPT ![n] = log'[n]]
           /\ commitIndex' = [commitIndex EXCEPT ![n] = commitIndex'[n]]
           /\ Leads' = [Leads EXCEPT ![n] = IF role'[n] = "Leader" THEN term'[n] ELSE 0]
<1>1. \A p \in Server \ {n} : /\ log'[p] = log[p] /\ commitIndex'[p] = commitIndex[p]
                              /\ role'[p] = role[p] /\ term'[p] = term[p]
  BY DEF Turn, Step, Alone, ClaimStep, LogsAlone, Commits
<1>2. /\ log \in [Server -> Seq(Entry)] /\ log' \in [Server -> Seq(Entry)]
      /\ commitIndex \in [Server -> Nat] /\ commitIndex' \in [Server -> Nat]
  BY DEF Turn, TypeOK
<1>3. Leads' = [Leads EXCEPT ![n] = IF role'[n] = "Leader" THEN term'[n] ELSE 0]
  BY <1>1 DEF Leads
<1> QED
  BY <1>1, <1>2, <1>3

LEMMA CrashMaps ==
    ASSUME NEW n \in Server, Turn(n), Good, Good', Cardinality(Server) > 1, Forgets(n)
    PROVE  Agreed!Crash(n, log'[n], commitIndex'[n])
<1>1. commitIndex'[n] = 0 /\ role'[n] = "Follower" /\ committed' = committed
  BY DEF Forgets
<1>2. Chosen' = Chosen
  BY <1>1, ChosenIsKept
<1>3. NewestTerm' = NewestTerm
  BY <1>1, NewestStays DEF Good
<1>4. PICK s \in Seq(Entry) : s = Chosen
  BY CommittedPrefix DEF Turn
<1>5. PICK lg \in Seq(Entry) : lg = log'[n]
  BY MemoryIsCoherentNext DEF Turn
<1>6. 0 <= Len(s) /\ SubSeq(s, 1, 0) \in Seq(Entry) /\ Len(SubSeq(s, 1, 0)) = 0
  OBVIOUS
<1>7. Agreed!Extends(lg, SubSeq(s, 1, 0))
  <2>1. PICK z \in Seq(Entry) : z = SubSeq(s, 1, 0)
    BY <1>6
  <2>2. \A i \in 1..Len(z) : Has(lg, i, z[i])
    BY <1>6, <2>1
  <2> QED
    BY <2>1, <2>2, PrefixByEntries
<1> QED
  BY <1>1, <1>2, <1>3, <1>4, <1>5, <1>6, <1>7, AloneInLog DEF Agreed!Crash

LEMMA PrefixUpTo ==
    ASSUME NEW lg \in Seq(Entry), NEW s \in Seq(Entry), NEW k \in Nat, k <= Len(s),
           \A i \in 1..k : Has(lg, i, s[i])
    PROVE  Agreed!Extends(lg, SubSeq(s, 1, k))
<1>0. /\ SubSeq(s, 1, k) \in Seq(Entry) /\ Len(SubSeq(s, 1, k)) = k
      /\ \A i \in 1..k : SubSeq(s, 1, k)[i] = s[i]
  OBVIOUS
<1>1. PICK z \in Seq(Entry) : z = SubSeq(s, 1, k)
  BY <1>0
<1>2. Len(z) = k /\ \A i \in 1..k : z[i] = s[i]
  BY <1>0, <1>1
<1>3. \A i \in 1..Len(z) : Has(lg, i, z[i])
  BY <1>2
<1> QED
  BY <1>1, <1>3, PrefixByEntries

(* A node keeps what it had committed. *)
LEMMA CommittedStays ==
    ASSUME NEW n \in Server, Turn(n), Good, ~Forgets(n), NEW i \in 1..commitIndex[n]
    PROVE  Has(log'[n], i, log[n][i])
<1>1. commitIndex[n] \in Nat /\ i \in Index /\ i <= commitIndex[n]
  BY DEF Turn, TypeOK, Index
<1>2. ~Recovers(n)
  <2>1. commitIndex'[n] \in Nat
    BY DEF Turn, TypeOK
  <2>2. commitIndex'[n] = commitIndex[n] \/ commitIndex[n] < commitIndex'[n]
    BY DEF Turn, Commits
  <2>3. commitIndex[n] > 0
    BY <1>1 DEF Index
  <2>4. commitIndex'[n] # 0
    BY <1>1, <2>1, <2>2, <2>3
  <2> QED
    BY <2>4 DEF Recovers
<1>3. PICK c \in committed : c.index = i /\ Has(log[n], i, c.entry) /\ c.at <= term[n]
  BY <1>1 DEF Good, CommitInv, Commitments
<1>4. Has(log'[n], i, c.entry)
  BY <1>2, <1>3, CommittedIsKept DEF Good
<1> QED
  BY <1>3, <1>4 DEF Has

LEMMA FollowMaps ==
    ASSUME NEW n \in Server, Turn(n), Good, Good', Cardinality(Server) > 1, ~Forgets(n),
           role'[n] # "Leader"
    PROVE  Agreed!Follow(n, log'[n], commitIndex'[n])
<1>1. /\ commitIndex[n] <= commitIndex'[n]
      /\ committed' = committed \/ (committed' = committed \cup Declared(n) /\ FollowerCommits(n))
  <2>1. commitIndex[n] \in Nat /\ commitIndex'[n] \in Nat
    BY DEF Turn, TypeOK
  <2>2. Commits(n)
    BY DEF Turn
  <2>3. ~LeaderCommits(n)
    BY DEF LeaderCommits
  <2> QED
    BY <2>1, <2>2, <2>3 DEF Commits
<1>2. Chosen' = Chosen
  <2>1. ASSUME NEW c \in committed'
        PROVE  \E o \in committed : o.index = c.index /\ o.entry = c.entry
    BY <1>1, FollowerRepeats DEF Good
  <2> QED
    BY <2>1, ChosenIsKept
<1>3. NewestTerm' = NewestTerm
  BY NewestStays DEF Good
<1>4. PICK s : s = Chosen
  OBVIOUS
<1>5. PICK new : new = log'[n]
  OBVIOUS
<1>6. PICK k : k = commitIndex'[n]
  OBVIOUS
<1>7. /\ new \in Seq(Entry) /\ s \in Seq(Entry) /\ k \in Nat /\ k <= Len(s)
      /\ \A i \in 1..k : Has(new, i, s[i])
  BY <1>2, <1>4, <1>5, <1>6, CommittedPrefixNext DEF Turn, Has
<1>8. Agreed!Extends(new, SubSeq(s, 1, k))
  BY <1>7, PrefixUpTo
<1>9. PICK lg \in Seq(Entry) : lg = log[n]
  BY DEF Turn, TypeOK
<1>10. PICK x \in Nat : x = commitIndex[n] /\ x <= Len(lg)
  BY <1>9, CommittedPrefix DEF Turn
<1>11. \A i \in 1..x : Has(new, i, lg[i])
  BY <1>5, <1>9, <1>10, CommittedStays
<1>12. Agreed!Extends(new, SubSeq(lg, 1, x))
  BY <1>7, <1>10, <1>11, PrefixUpTo
<1>13. x <= k
  BY <1>1, <1>6, <1>10
<1> QED
  BY <1>2, <1>3, <1>4, <1>5, <1>6, <1>7, <1>8, <1>9, <1>10, <1>12, <1>13, AloneInLog
  DEF Agreed!Follow

LEMMA AcceptMaps ==
    ASSUME NEW n \in Server, Turn(n), Good, Good', Cardinality(Server) > 1,
           role[n] = "Leader", role'[n] = "Leader", Extends(n)
    PROVE  log'[n] # <<>> /\ Agreed!Accept(n, log'[n][Len(log'[n])])
<1>1. PICK lg \in Seq(Entry) : lg = log[n]
  BY DEF Turn, TypeOK
<1>2. PICK e \in Entry : e.term = term[n] /\ log'[n] = Append(lg, e)
  BY <1>1 DEF Extends
<1>3. PICK new : new = log'[n]
  OBVIOUS
<1>4. new # <<>> /\ new[Len(new)] = e /\ new # lg
  BY <1>2, <1>3
<1>5. commitIndex' = commitIndex /\ committed' = committed
  <2>1. commitIndex'[n] = commitIndex[n] /\ committed' = committed
    BY <1>1, <1>3, <1>4 DEF Turn, Commits, LeaderCommits, FollowerCommits, Forgets
  <2>2. commitIndex \in [Server -> Nat]
    BY DEF Turn, TypeOK
  <2>3. commitIndex' = [commitIndex EXCEPT ![n] = commitIndex[n]]
    BY <2>1, AloneInLog
  <2> QED
    BY <2>1, <2>2, <2>3
<1>6. Chosen' = Chosen
  BY <1>5, ChosenIsKept
<1>7. NewestTerm' = NewestTerm
  BY NewestStays DEF Good
<1>8. term[n] # 0 /\ Leads[n] = term[n]
  BY DEF Good, SayInv, Leads
<1>9. Leads' = Leads
  BY <1>8, AloneInLog DEF Turn, LogStep, LeadsOn, Leads
<1> QED
  BY <1>1, <1>2, <1>3, <1>4, <1>5, <1>6, <1>7, <1>8, <1>9, AloneInLog DEF Agreed!Accept

(* What a leader commits continues what was chosen, or was chosen already. *)
LEMMA ChoiceSpells ==
    ASSUME NEW n \in Server, Turn(n), Good, Good', LeaderCommits(n),
           committed' = committed \cup Declared(n),
           NEW lg \in Seq(Entry), lg = log[n], NEW k \in Nat, k = commitIndex'[n],
           NEW s \in Seq(Entry), s = Chosen
    PROVE  /\ k <= Len(lg)
           /\ \A i \in 1..k : i \in DOMAIN s => s[i] = lg[i]
           /\ Chosen' = IF k > Len(s) THEN SubSeq(lg, 1, k) ELSE s
<1>1. Spells(s) /\ log'[n] = lg
  BY ChosenSpells DEF Turn, Good, LeaderCommits
<1>2. committed \subseteq committed'
  OBVIOUS
<1>3. ASSUME NEW i \in 1..k
      PROVE  i \in DOMAIN lg /\ \E d \in committed' : d.index = i /\ d.entry = lg[i]
  <2>1. PICK d \in committed' : d.index = i /\ Has(lg, i, d.entry)
    BY <1>1 DEF Good, CommitInv, Commitments, Index
  <2> QED
    BY <2>1 DEF Has
<1>4. k <= Len(lg)
  <2>1. CASE k = 0
    BY <2>1
  <2>2. CASE k # 0
    <3>1. k \in DOMAIN lg
      BY <1>3, <2>2
    <3> QED
      BY <3>1
  <2> QED
    BY <2>1, <2>2
<1>5. ASSUME NEW i \in 1..k, NEW c \in committed', c.index = i
      PROVE  c.entry = lg[i]
  BY <1>3, <1>5 DEF Good, StateMachineSafety
<1>6. ASSUME NEW i \in 1..k, i \in DOMAIN s
      PROVE  s[i] = lg[i]
  <2>1. PICK c \in committed : c.index = i
    BY <1>1, <1>6 DEF Spells
  <2>2. s[i] = c.entry
    BY <1>1, <2>1 DEF Spells
  <2> QED
    BY <1>2, <1>5, <2>1, <2>2
<1>7. ASSUME NEW c \in committed', c \notin committed
      PROVE  c.index \in 1..k
  <2>1. c \in Declared(n)
    BY <1>7
  <2>2. c \in Record /\ c.index <= k
    BY <2>1, DeclaredIsTyped DEF Turn
  <2> QED
    BY <2>2 DEF Record, Index
<1>8. CASE k > Len(s)
  <2>1. /\ SubSeq(lg, 1, k) \in Seq(Entry) /\ Len(SubSeq(lg, 1, k)) = k
        /\ \A i \in 1..k : SubSeq(lg, 1, k)[i] = lg[i]
    BY <1>4
  <2>2. PICK z \in Seq(Entry) : z = SubSeq(lg, 1, k)
    BY <2>1
  <2>3. DOMAIN z = 1..k /\ \A i \in 1..k : z[i] = lg[i]
    BY <2>1, <2>2
  <2>4. ASSUME NEW c \in committed'
        PROVE  c.index \in 1..k
    <3>1. CASE c \in committed
      <4>1. c.index \in DOMAIN s
        BY <1>1, <3>1 DEF Spells
      <4> QED
        BY <1>8, <4>1
    <3> QED
      BY <1>7, <3>1
  <2>5. Spells(z)'
    BY <1>3, <1>5, <2>3, <2>4 DEF Spells
  <2> QED
    BY <1>4, <1>6, <1>8, <2>2, <2>5, ChosenAfter
<1>9. CASE ~(k > Len(s))
  <2>1. \A i \in 1..k : i \in DOMAIN s
    BY <1>9
  <2>2. ASSUME NEW c \in committed'
        PROVE  c.index \in DOMAIN s /\ s[c.index] = c.entry
    <3>1. CASE c \in committed
      BY <1>1, <3>1 DEF Spells
    <3>2. CASE c \notin committed
      <4>1. c.index \in 1..k
        BY <1>7, <3>2
      <4> QED
        BY <1>5, <1>6, <2>1, <4>1
    <3> QED
      BY <3>1, <3>2
  <2>3. \A i \in DOMAIN s : \E c \in committed' : c.index = i
    BY <1>1, <1>2 DEF Spells
  <2>4. Spells(s)'
    BY <2>2, <2>3 DEF Spells
  <2> QED
    BY <1>4, <1>6, <1>9, <2>4, ChosenAfter
<1> QED
  BY <1>8, <1>9

LEMMA ChooseMaps ==
    ASSUME NEW n \in Server, Turn(n), Good, Good', Cardinality(Server) > 1, LeaderCommits(n),
           committed' = committed \cup Declared(n), commitIndex[n] < commitIndex'[n]
    PROVE  Agreed!Choose(n, commitIndex'[n])
<1>1. /\ role[n] = "Leader" /\ role'[n] = "Leader" /\ term'[n] = term[n] /\ log'[n] = log[n]
      /\ TermAt(log[n], commitIndex'[n]) = term[n]
  BY DEF LeaderCommits
<1>2. PICK lg \in Seq(Entry) : lg = log[n]
  BY DEF Turn, TypeOK
<1>3. PICK k \in Nat : k = commitIndex'[n]
  BY DEF Turn, TypeOK
<1>4. PICK s \in Seq(Entry) : s = Chosen
  BY CommittedPrefix DEF Turn
<1>5. /\ k <= Len(lg)
      /\ \A i \in 1..k : i \in DOMAIN s => s[i] = lg[i]
      /\ Chosen' = IF k > Len(s) THEN SubSeq(lg, 1, k) ELSE s
  BY <1>2, <1>3, <1>4, ChoiceSpells
<1>6. k > commitIndex[n] /\ k # 0
  BY <1>3 DEF Turn, TypeOK
<1>7. term[n] \in Nat /\ term[n] # 0 /\ Leads[n] = term[n]
  BY <1>1 DEF Good, SayInv, Leads, Turn, TypeOK
<1>8. lg[k].term = term[n]
  <2>1. k \in DOMAIN lg
    BY <1>5, <1>6
  <2> QED
    BY <1>1, <1>2, <1>3, <1>6, <2>1 DEF TermAt, NO_INDEX
<1>9. PICK upto \in Seq(Entry) : /\ upto = SubSeq(lg, 1, k) /\ Len(upto) = k
                                 /\ \A i \in 1..k : upto[i] = lg[i]
  <2>1. /\ SubSeq(lg, 1, k) \in Seq(Entry) /\ Len(SubSeq(lg, 1, k)) = k
        /\ \A i \in 1..k : SubSeq(lg, 1, k)[i] = lg[i]
    BY <1>5
  <2> QED
    BY <2>1
<1>10. Agreed!Extends(upto, s) \/ Agreed!Extends(s, upto)
  <2>1. CASE Len(s) <= k
    <3>1. \A i \in 1..Len(s) : Has(upto, i, s[i])
      BY <1>5, <1>9, <2>1 DEF Has
    <3> QED
      BY <3>1, PrefixByEntries
  <2>2. CASE k <= Len(s)
    <3>1. \A i \in 1..Len(upto) : Has(s, i, upto[i])
      BY <1>5, <1>9, <2>2 DEF Has
    <3> QED
      BY <3>1, PrefixByEntries
  <2> QED
    BY <2>1, <2>2
<1>11. ASSUME NEW p \in Server, Leads[p] > Leads[n]
       PROVE  Agreed!Extends(log[p], upto)
  <2>1. role[p] = "Leader" /\ term[p] > term[n] /\ term[p] \in Nat
    <3>1. term[p] \in Nat
      BY DEF Turn, TypeOK
    <3>2. Leads[p] = IF role[p] = "Leader" THEN term[p] ELSE 0
      BY DEF Leads
    <3> QED
      BY <1>7, <1>11, <3>1, <3>2
  <2>2. p # n
    BY <1>7, <2>1
  <2>3. log'[p] = log[p] /\ role'[p] = "Leader" /\ term'[p] = term[p]
    BY <2>1, <2>2 DEF Turn, Step, Alone, ClaimStep, LogsAlone
  <2>4. PICK lp \in Seq(Entry) : lp = log[p]
    BY DEF Turn, TypeOK
  <2>5. ASSUME NEW i \in 1..k
        PROVE  Has(lp, i, lg[i])
    <3>1. PICK c \in committed' : c.index = i /\ Has(lg, i, c.entry) /\ c.at <= term[n]
      BY <1>1, <1>2, <1>3 DEF Good, CommitInv, Commitments, Index
    <3>2. c.at \in Nat
      BY DEF Good, CommitInv, Record
    <3>3. term'[p] >= c.at
      BY <1>7, <2>1, <2>3, <3>1, <3>2
    <3>4. c.index \in DOMAIN log'[p] /\ log'[p][c.index] = c.entry
      BY <2>3, <3>3 DEF Good, LeaderCompleteness
    <3> QED
      BY <2>3, <2>4, <3>1, <3>4 DEF Has
  <2>6. \A i \in 1..Len(upto) : Has(lp, i, upto[i])
    BY <1>9, <2>5
  <2> QED
    BY <2>4, <2>6, PrefixByEntries
<1>12. NewestTerm' = NewestTerm
  BY <1>1, NewestStays DEF Good
<1>13. Leads' = Leads
  BY <1>1, <1>7, AloneInLog DEF Leads
<1>14. log' = log
  <2>1. log \in [Server -> Seq(Entry)]
    BY DEF Turn, TypeOK
  <2>2. log' = [log EXCEPT ![n] = log[n]]
    BY <1>1, AloneInLog
  <2> QED
    BY <2>1, <2>2
<1> QED
  BY <1>2, <1>3, <1>4, <1>5, <1>6, <1>7, <1>8, <1>9, <1>10, <1>11, <1>12, <1>13, <1>14,
     AloneInLog
  DEF Agreed!Choose

LEMMA AnchorIsOpenNext ==
    (TypeOK /\ committed \subseteq Record /\ Majorities)' => (\A d : IsAnchor(d) =>
        /\ d \in Record /\ Open(d.index, d.entry)
        /\ \E v \in Server : Has(log[v], d.index, d.entry))'
<1>1. TypeOK /\ committed \subseteq Record /\ Majorities => (\A d : IsAnchor(d) =>
        /\ d \in Record /\ Open(d.index, d.entry)
        /\ \E v \in Server : Has(log[v], d.index, d.entry))
  BY AnchorIsOpen
<1> QED
  BY <1>1, PTL

(* What was committed in a term was said by a leader of that term. *)
LEMMA AnchorIsLed ==
    ASSUME TypeOK, LineInv, CommitInv, Cardinality(Server) > 1, NEW d, IsAnchor(d)
    PROVE  Led(d.at)
<1>1. PICK Q \in SUBSET Server :
        IsQuorum(Q) /\ \A v \in Q : Ack(v, d.at, d.index) \/ Sender(v, d.at)
  BY DEF CommitInv, Majorities, IsAnchor
<1>2. PICK v \in Q : TRUE
  BY <1>1, QuorumIsSome
<1>3. d.at \in Nat /\ d.index \in Index
  BY DEF CommitInv, Record, IsAnchor
<1>4. CASE Ack(v, d.at, d.index)
  BY <1>3, <1>4 DEF LineInv, Answered, AppendFor, Led
<1>5. CASE Sender(v, d.at)
  <2>1. Server # {v}
    BY FS_Singleton
  <2> QED
    BY <1>5, <2>1 DEF Sender, Led
<1> QED
  BY <1>1, <1>2, <1>4, <1>5

LEMMA NewLeaderHasChosen ==
    ASSUME NEW n \in Server, Turn(n), Good, Good', Cardinality(Server) > 1,
           role[n] = "Candidate", role'[n] = "Leader", term[n] > NewestTerm
    PROVE  Agreed!Extends(log[n], Chosen)
<1>1. PICK s : s = Chosen
  OBVIOUS
<1>2. Spells(s) /\ s \in Seq(Entry)
  BY <1>1, ChosenSpells DEF Turn, Good, Spells
<1>3. PICK lg \in Seq(Entry) : lg = log[n]
  BY DEF Turn, TypeOK
<1>4. ASSUME NEW i \in 1..Len(s)
      PROVE  Has(lg, i, s[i])
  <2>1. PICK c \in committed : c.index = i /\ c.entry = s[i]
    <3>1. i \in DOMAIN s
      BY <1>2
    <3> QED
      BY <1>2, <3>1 DEF Spells
  <2>2. PICK d \in committed :
          /\ IsAnchor(d) /\ Open(d.index, d.entry) /\ Below(c, d)
          /\ d.index \in Index /\ d.entry \in Entry /\ d.at \in Nat /\ d.entry.term = d.at
    BY AnchorOf DEF Turn, Good
  <2>3. d.entry.term < term[n]
    <3>1. Led(d.at)
      BY <2>2, AnchorIsLed DEF Turn, Good
    <3>2. PICK x \in Nat : x = NewestTerm /\ d.at <= x
      BY <3>1, NewestIsNewest DEF Turn, IsNewest
    <3>3. term[n] \in Nat /\ term[n] > x
      BY <3>2 DEF Turn, TypeOK
    <3> QED
      BY <2>2, <3>2, <3>3
  <2>4. Open(d.index, d.entry)'
    <3>1. IsAnchor(d)'
      BY <2>2, CommittedGrows DEF IsAnchor
    <3> QED
      BY <3>1, AnchorIsOpenNext DEF Turn, Good, CommitInv
  <2>5. Has(lg, d.index, d.entry)
    BY <1>3, <2>2, <2>3, <2>4, ElectionHas DEF Good
  <2>6. Coherent(lg)
    BY <1>3, MemoryIsCoherent DEF Turn
  <2>7. Has(lg, c.index, c.entry)
    BY <2>2, <2>5, <2>6 DEF Below
  <2> QED
    BY <2>1, <2>7
<1>5. Agreed!Extends(lg, s)
  BY <1>2, <1>4, PrefixByEntries
<1> QED
  BY <1>1, <1>3, <1>5

LEMMA ElectMaps ==
    ASSUME NEW n \in Server, Turn(n), Good, Good', Cardinality(Server) > 1,
           role[n] # "Leader", role'[n] = "Leader"
    PROVE  log'[n] # <<>> /\ Agreed!Elect(n, Leads'[n], log'[n][Len(log'[n])])
<1>1. role[n] = "Candidate" /\ term'[n] = term[n] /\ Extends(n)
  BY DEF Turn, LogStep, LeadsOn, LineStep, Moves, Stays, Adds, Accepts, Recovers
<1>2. PICK lg \in Seq(Entry) : lg = log[n]
  BY DEF Turn, TypeOK
<1>3. PICK e \in Entry : e.term = term[n] /\ log'[n] = Append(lg, e)
  BY <1>1, <1>2 DEF Extends
<1>4. PICK new : new = log'[n]
  OBVIOUS
<1>5. new # <<>> /\ new[Len(new)] = e
  BY <1>3, <1>4
<1>6. commitIndex' = commitIndex /\ committed' = committed
  <2>1. commitIndex'[n] = commitIndex[n] /\ committed' = committed
    BY DEF Turn, Commits, LeaderCommits, FollowerCommits, Forgets
  <2>2. commitIndex \in [Server -> Nat]
    BY DEF Turn, TypeOK
  <2>3. commitIndex' = [commitIndex EXCEPT ![n] = commitIndex[n]]
    BY <2>1, AloneInLog
  <2> QED
    BY <2>1, <2>2, <2>3
<1>7. Chosen' = Chosen
  BY <1>6, ChosenIsKept
<1>8. PICK t \in Nat : t = term[n] /\ t # 0
  BY <1>1 DEF Good, SayInv, Turn, TypeOK
<1>9. Leads'[n] = t /\ Leads' = [Leads EXCEPT ![n] = t] /\ Leads[n] = 0
  BY <1>1, <1>8, AloneInLog DEF Leads
<1>10. ASSUME NEW p \in Server
       PROVE  Leads[p] # t
  <2>1. ~Authored(p, t)
    BY <1>1, <1>8, CandidateIsFirst DEF Turn
  <2>2. role[p] = "Leader" => Authored(p, term[p])
    BY LeaderIsAuthor DEF Turn, MatchInv
  <2>3. Leads[p] = IF role[p] = "Leader" THEN term[p] ELSE 0
    BY DEF Leads
  <2> QED
    BY <1>8, <2>1, <2>2, <2>3
<1>11. t > NewestTerm => Agreed!Extends(lg, Chosen)
  BY <1>1, <1>2, <1>8, NewLeaderHasChosen
<1>12. NewestTerm' = IF t > NewestTerm THEN t ELSE NewestTerm
  BY <1>8, NewestRises DEF Good
<1>13. log' = [log EXCEPT ![n] = Append(lg, e)]
  BY <1>3, AloneInLog
<1>14. Agreed!Elect(n, t, e)
  BY <1>2, <1>3, <1>6, <1>7, <1>8, <1>9, <1>10, <1>11, <1>12, <1>13 DEF Agreed!Elect
<1> QED
  BY <1>4, <1>5, <1>9, <1>14

LEMMA StutterMaps ==
    ASSUME NEW n \in Server, Turn(n), Good, Good', Cardinality(Server) > 1,
           role[n] = "Leader", role'[n] = "Leader", log'[n] = log[n],
           committed' = committed, commitIndex'[n] = commitIndex[n]
    PROVE  UNCHANGED Agreed!agreedVars
<1>1. log \in [Server -> Seq(Entry)] /\ commitIndex \in [Server -> Nat]
  BY DEF Turn, TypeOK
<1>2. log' = [log EXCEPT ![n] = log[n]] /\ commitIndex' = [commitIndex EXCEPT ![n] = commitIndex[n]]
  BY AloneInLog
<1>3. log' = log /\ commitIndex' = commitIndex
  BY <1>1, <1>2
<1>4. Leads' = Leads
  BY AloneInLog DEF Turn, LogStep, LeadsOn, Leads
<1>5. Chosen' = Chosen /\ NewestTerm' = NewestTerm
  BY ChosenIsKept, NewestStays DEF Good
<1> QED
  BY <1>3, <1>4, <1>5 DEF Agreed!agreedVars

LEMMA StepMaps ==
    ASSUME NEW n \in Server, Turn(n), Good, Good', Cardinality(Server) > 1
    PROVE  [Agreed!AgreedNext]_Agreed!agreedVars
<1>1. CASE Forgets(n)
  BY <1>1, CrashMaps DEF Agreed!AgreedNext
<1>2. CASE ~Forgets(n) /\ role'[n] # "Leader"
  BY <1>2, FollowMaps DEF Agreed!AgreedNext
<1>3. CASE role[n] # "Leader" /\ role'[n] = "Leader"
  BY <1>3, ElectMaps DEF Agreed!AgreedNext
<1>4. CASE role[n] = "Leader" /\ role'[n] = "Leader" /\ Extends(n)
  BY <1>4, AcceptMaps DEF Agreed!AgreedNext
<1>5. CASE role[n] = "Leader" /\ role'[n] = "Leader" /\ ~Extends(n)
  <2>1. log'[n] = log[n]
    BY <1>5 DEF Turn, LogStep, LeadsOn
  <2>2. CASE committed' = committed /\ commitIndex'[n] = commitIndex[n]
    BY <1>5, <2>1, <2>2, StutterMaps
  <2>3. CASE /\ committed' = committed \cup Declared(n) /\ commitIndex[n] < commitIndex'[n]
             /\ LeaderCommits(n)
    BY <2>3, ChooseMaps DEF Agreed!AgreedNext
  <2> QED
    BY <1>5, <2>2, <2>3 DEF Turn, Commits, Forgets, FollowerCommits
<1> QED
  BY <1>1, <1>2, <1>3, <1>4, <1>5

LEMMA StartMaps ==
    ASSUME Init, TypeOK, VoteInv, MatchInv, LineInv, Good
    PROVE  Agreed!AgreedInit
<1>1. /\ msgs = {} /\ committed = {} /\ commitIndex = [n \in Server |-> 0]
      /\ \A n \in Server : role[n] = "Follower"
  BY DEF Init
<1>2. log \in [Server -> Seq(Entry)]
  BY DEF TypeOK
<1>3. Leads = [n \in Server |-> 0]
  BY <1>1 DEF Leads
<1>4. NewestTerm = 0
  <2>1. IsNewest(NewestTerm)
    BY NewestIsNewest
  <2> QED
    BY <1>1, <2>1 DEF IsNewest, Led
<1>5. Chosen = <<>>
  <2>1. Spells(<<>>)
    BY <1>1 DEF Spells
  <2>2. Spells(Chosen)
    BY ChosenSpells DEF Good
  <2> QED
    BY <2>1, <2>2, OneSpelling
<1> QED
  BY <1>1, <1>2, <1>3, <1>4, <1>5 DEF Agreed!AgreedInit

(* What is committed has no gaps (`apply_ready`, `maybe_commit`), and a    *)
(* leader has greeted its followers by the time it leads                   *)
(* (`become_leader`), whatever the other nodes do.                         *)
THEOREM CommitsAreListed == Spec => [](Listed /\ SayInv)
<1>1. Init => Listed /\ SayInv
  BY SayAtStart
<1>2. /\ TypeOK /\ VoteInv /\ ClaimInv /\ MatchInv /\ LineInv /\ CommitInv /\ Listed /\ SayInv
      /\ TypeOK' /\ VoteInv' /\ ClaimInv' /\ MatchInv' /\ LineInv' /\ CommitInv'
      /\ [Next]_vars
      => Listed' /\ SayInv'
  <2> SUFFICES ASSUME TypeOK, VoteInv, ClaimInv, MatchInv, LineInv, CommitInv, Listed, SayInv,
                      TypeOK', VoteInv', ClaimInv', MatchInv', LineInv', CommitInv',
                      [Next]_vars
               PROVE  Listed' /\ SayInv'
    OBVIOUS
  <2>1. PICK n \in Server : Turn(n) /\ Greets(n)
    BY EveryTurnGreets
  <2> QED
    BY <2>1, ListIsKept, SayingIsKept
<1> QED
  BY <1>1, <1>2, TypeCorrect, VotesAreKept, ClaimsAreBacked, MatchesAreKept, LinesAreKept,
     CommitmentIsKept, PTL
  DEF Spec

(* In a cluster of more than one node every step of `kvstore/raft.rs` is a *)
(* step of AgreedLog or leaves what it shows alone: what was committed is  *)
(* never revised, a leader newer than any before holds all of it, and      *)
(* commit indices move along it until the next crash.  A node that is      *)
(* alone sends no append by which its term would be remembered, so the     *)
(* mapping of the newest term needs a second one.                          *)
THEOREM RaftAgrees ==
    ASSUME Cardinality(Server) > 1
    PROVE  Spec => ImplementsAgreedLog
<1>1. Init /\ TypeOK /\ VoteInv /\ MatchInv /\ LineInv /\ Good => Agreed!AgreedInit
  BY StartMaps
<1>2. /\ TypeOK /\ VoteInv /\ ClaimInv /\ MatchInv /\ LineInv /\ Good
      /\ TypeOK' /\ VoteInv' /\ ClaimInv' /\ MatchInv' /\ LineInv' /\ Good'
      /\ [Next]_vars
      => [Agreed!AgreedNext]_Agreed!agreedVars
  <2> SUFFICES ASSUME TypeOK, VoteInv, ClaimInv, MatchInv, LineInv, Good,
                      TypeOK', VoteInv', ClaimInv', MatchInv', LineInv', Good',
                      [Next]_vars
               PROVE  [Agreed!AgreedNext]_Agreed!agreedVars
    OBVIOUS
  <2>1. PICK n \in Server : Turn(n)
    BY EveryTurn
  <2> QED
    BY <2>1, StepMaps
<1>3. CommitInv /\ Listed /\ StateMachineSafety /\ LeaderCompleteness /\ SayInv => Good
  BY DEF Good
<1> QED
  BY <1>1, <1>2, <1>3, TypeCorrect, VotesAreKept, ClaimsAreBacked, MatchesAreKept,
     LinesAreKept, CommitmentIsKept, LeadersAreComplete, StateMachinesAgree,
     CommitsAreListed, PTL
  DEF Spec, ImplementsAgreedLog, Agreed!AgreedSpec

-----------------------------------------------------------------------------
(***************************************************************************)
(* What an acknowledgement is worth while its term lasts.  A follower      *)
(* answers when a batch is durable, which may be after it has moved on to  *)
(* a later term and replaced what it acknowledges, and a crash may take it *)
(* back to the term it acknowledged in.  So the argument follows the file: *)
(* every image of it that is of the term has the entry, on disk and in     *)
(* flight, for an answer given and from its batch on for an answer owed.   *)
(***************************************************************************)

(* Node v, as far as it is still in term t, has entry e for good. *)
Backed(v, t, i, e) ==
    /\ term[v] = t => Has(log[v], i, e) /\ i <= durableIndex[v]
    /\ disk[v].hard.term = t => Has(disk[v].log, i, e)
    /\ \A l \in Queued(v) : ~batches[v][l].synced /\ batches[v][l].hard.term = t
         => Has(batches[v][l].log, i, e) /\ i < batches[v][l].from

(* It will, once its batch j is durable. *)
Due(v, j, t, i, e) ==
    /\ term[v] = t => Has(log[v], i, e)
    /\ batches[v][j].synced /\ disk[v].hard.term = t => Has(disk[v].log, i, e)
    /\ \A l \in Queued(v) : j <= l /\ batches[v][l].hard.term = t
         => Has(batches[v][l].log, i, e)

AckHolds(k, v, i) == Ack(v, term[k], i) =>
    \E e \in Entry : Has(log[k], i, e) /\ Backed(v, term[k], i, e)

DueHolds(k, v, i) == \A j \in Queued(v) : Owes(batches[v][j].act, term[k], i) =>
    \E e \in Entry : Has(log[k], i, e) /\ Due(v, j, term[k], i, e)

AckInv == \A k \in Server : role[k] = "Leader" =>
    \A v \in Server : \A i \in Index : AckHolds(k, v, i) /\ DueHolds(k, v, i)

-----------------------------------------------------------------------------
(* What a step of node n does to its queue. *)

SameBatch(a, b) == a.hard = b.hard /\ a.log = b.log /\ a.from = b.from /\ SameAct(a.act, b.act)

IsLatest(n, b) ==
    /\ b.hard = Hard(n)' /\ b.log = log'[n] /\ ~b.synced
    /\ \A t \in Nat : \A i \in Index : Owes(b.act, t, i) => Vouched(n, t, i)

(* At most one batch more. *)
Enqueues(n) ==
    /\ disk'[n] = disk[n] /\ restarts' = restarts
    /\ \A j \in Queued(n)' :
         \/ /\ j \in Queued(n) /\ SameBatch(batches'[n][j], batches[n][j])
            /\ batches'[n][j].synced = batches[n][j].synced
         \/ j = Len(batches[n]) + 1 /\ IsLatest(n, batches'[n][j])
    /\ \A m \in msgs' \ msgs : IsAck(m) =>
         \A i \in Index : i <= m.match => Vouched(n, m.term, i)

(* Batch k is durable, and its answer is given. *)
Lands(n, k) ==
    /\ disk'[n] = IF batches[n][k].synced THEN disk[n]
                  ELSE [hard |-> batches[n][k].hard, log |-> batches[n][k].log]
    /\ restarts' = restarts
    /\ \A j \in Queued(n)' :
         \/ /\ j \in Queued(n) /\ j < k /\ SameBatch(batches'[n][j], batches[n][j])
            /\ batches'[n][j].synced
         \/ /\ j + 1 \in Queued(n) /\ k <= j /\ SameBatch(batches'[n][j], batches[n][j + 1])
            /\ batches'[n][j].synced = batches[n][j + 1].synced
         \/ j = Len(batches[n]) /\ IsLatest(n, batches'[n][j])
    /\ \A m \in msgs' \ msgs : IsAck(m) =>
         \A i \in Index : i <= m.match => Owes(batches[n][k].act, m.term, i)

QueueStep(n) == Enqueues(n) \/ (\E k \in Queued(n) : Lands(n, k)) \/ Restart(n)

-----------------------------------------------------------------------------
(* What is kept. *)

LEMMA SameOwes ==
    ASSUME NEW a, NEW b, SameBatch(a, b), NEW t, NEW i, Owes(a.act, t, i)
    PROVE  Owes(b.act, t, i)
BY DEF SameBatch, SameAct, Owes

LEMMA NotRecovering ==
    ASSUME NEW n \in Server, restarts' = restarts
    PROVE  ~Recovers(n)
BY DEF Recovers

(* A follower keeps what it has of its leader's log. *)
LEMMA MemoryKeeps ==
    ASSUME NEW n \in Server, Turn(n), restarts' = restarts, NEW k \in Server,
           role[k] = "Leader", NEW t \in Nat, t = term[k], NEW i \in Index, NEW e \in Entry,
           Has(log[k], i, e), t <= term[n], term'[n] = t, term[n] = t => Has(log[n], i, e)
    PROVE  Has(log'[n], i, e) /\ (i <= durableIndex[n] => i <= durableIndex'[n])
<1>1. TypeOK /\ TypeOK' /\ MatchInv /\ LineInv /\ Moves(n) /\ ~Recovers(n)
  BY NotRecovering DEF Turn, LineStep
<1>2. term[n] \in Nat
  BY <1>1 DEF TypeOK
<1>3. term[n] <= term'[n]
  BY <1>1, <1>2 DEF Moves, Stays, Adds, Accepts
<1>4. term[n] = t /\ Has(log[n], i, e)
  BY <1>2, <1>3
<1>5. ASSUME NEW m \in msgs, Accepts(n, m)
      PROVE  Fits(i, e, m)
  <2>1. IsAppend(m) /\ m.term = term[k]
    BY <1>5 DEF Accepts
  <2> QED
    BY <1>1, <2>1, LeaderFits
<1> QED
  BY <1>1, <1>4, <1>5, FittingIsKept

(* A leader keeps all it has. *)
LEMMA LeaderKeeps ==
    ASSUME NEW n \in Server, Turn(n), NEW k \in Server, role'[k] = "Leader", NEW i \in Index,
           NEW e, Has(log[k], i, e)
    PROVE  Has(log'[k], i, e)
<1>1. TypeOK /\ ClaimStep(n) /\ LogStep(n)
  BY DEF Turn
<1>2. CASE k # n
  BY <1>1, <1>2 DEF ClaimStep, LogsAlone
<1>3. CASE k = n
  BY <1>1, <1>3, ExtendedHas DEF LogStep, LeadsOn
<1> QED
  BY <1>2, <1>3

(* What is claimed is in every image. *)
LEMMA ClaimBacks ==
    ASSUME TypeOK, ClaimInv, NEW n \in Server, NEW i \in Index, NEW e, Has(log[n], i, e),
           i <= durableIndex[n], NEW t
    PROVE  Backed(n, t, i, e)
<1>1. Written(n, i) /\ Fenced(n, 1, i)
  BY DEF ClaimInv, Claimed, Fences
<1>2. \A l \in Queued(n) : l >= 1
  BY DEF Queued
<1> QED
  BY <1>1, <1>2 DEF Backed, Written, Pending, Fenced, Agree, Has

LEMMA ClaimBacksNext ==
    TypeOK' /\ ClaimInv' => \A n \in Server : \A i \in Index : \A e : \A t :
        Has(log'[n], i, e) /\ i <= durableIndex'[n] => Backed(n, t, i, e)'
<1>1. TypeOK' /\ ClaimInv' => (\A n \in Server : \A i \in Index : \A e : \A t :
        Has(log[n], i, e) /\ i <= durableIndex[n] => Backed(n, t, i, e))'
  <2>1. TypeOK /\ ClaimInv => \A n \in Server : \A i \in Index : \A e : \A t :
        Has(log[n], i, e) /\ i <= durableIndex[n] => Backed(n, t, i, e)
    BY ClaimBacks
  <2> QED
    BY <2>1, PTL
<1> QED
  BY <1>1 DEF Has

(* A new batch is of the term and holds the log; and what is claimed is    *)
(* below the writes of every batch.                                        *)
LEMMA LatestHas ==
    ASSUME TypeOK', NEW n \in Server, NEW b, IsLatest(n, b), NEW t, b.hard.term = t, NEW i,
           NEW e, term'[n] = t => Has(log'[n], i, e)
    PROVE  Has(b.log, i, e)
<1>1. Hard(n)'.term = term'[n]
  BY HardTypesNext DEF HardTyped
<1> QED
  BY <1>1 DEF IsLatest

LEMMA BackedIsKept ==
    ASSUME NEW n \in Server, Turn(n), Enqueues(n) \/ \E x \in Queued(n) : Lands(n, x),
           NEW k \in Server, role[k] = "Leader", NEW t \in Nat, t = term[k],
           NEW i \in Index, NEW e \in Entry, Has(log[k], i, e), t <= term[n],
           Backed(n, t, i, e)
    PROVE  Backed(n, t, i, e)'
<1> DEFINE q == batches[n]
           r == batches'[n]
<1>1. TypeOK /\ TypeOK' /\ ClaimInv' /\ restarts' = restarts
  BY DEF Turn, Enqueues, Lands
<1>2. /\ term[n] = t => Has(log[n], i, e) /\ i <= durableIndex[n]
      /\ disk[n].hard.term = t => Has(disk[n].log, i, e)
      /\ \A l \in Queued(n) : ~q[l].synced /\ q[l].hard.term = t
           => Has(q[l].log, i, e) /\ i < q[l].from
  BY DEF Backed
<1>3. term[n] \in Nat /\ term'[n] = t => term[n] = t
  <2>1. Moves(n) /\ ~Recovers(n)
    BY <1>1, NotRecovering DEF Turn, LineStep
  <2>2. term[n] <= term'[n] /\ term[n] \in Nat
    BY <1>1, <2>1 DEF Moves, Stays, Adds, Accepts, TypeOK
  <2> QED
    BY <2>2
<1>4. term'[n] = t => Has(log'[n], i, e) /\ i <= durableIndex'[n]
  <2>1. term[n] \in Nat
    BY <1>1 DEF TypeOK
  <2> QED
    BY <1>1, <1>2, <1>3, <2>1, MemoryKeeps
<1>5. ASSUME NEW l \in Queued(n)', ~r[l].synced, r[l].hard.term = t, IsLatest(n, r[l])
      PROVE  Has(r[l].log, i, e) /\ i < r[l].from
  <2>1. Has(r[l].log, i, e)
    BY <1>1, <1>4, <1>5, LatestHas
  <2>2. term'[n] = t
    BY <1>1, <1>5, HardTypesNext DEF HardTyped, IsLatest
  <2>3. Fenced(n, 1, i)'
    BY <1>1, <1>4, <2>2 DEF ClaimInv, Fences
  <2>4. l >= 1
    BY DEF Queued
  <2> QED
    BY <1>5, <2>1, <2>3, <2>4 DEF Fenced
<1>6. CASE Enqueues(n)
  <2>1. disk'[n].hard.term = t => Has(disk'[n].log, i, e)
    BY <1>2, <1>6 DEF Enqueues
  <2>2. ASSUME NEW l \in Queued(n)', ~r[l].synced, r[l].hard.term = t
        PROVE  Has(r[l].log, i, e) /\ i < r[l].from
    <3>1. \/ l \in Queued(n) /\ SameBatch(r[l], q[l]) /\ r[l].synced = q[l].synced
          \/ IsLatest(n, r[l])
      BY <1>6 DEF Enqueues
    <3>2. CASE l \in Queued(n) /\ SameBatch(r[l], q[l]) /\ r[l].synced = q[l].synced
      <4>1. ~q[l].synced /\ q[l].hard.term = t /\ r[l].log = q[l].log /\ r[l].from = q[l].from
        BY <2>2, <3>2 DEF SameBatch
      <4> QED
        BY <1>2, <3>2, <4>1
    <3> QED
      BY <1>5, <2>2, <3>1, <3>2
  <2> QED
    BY <1>4, <2>1, <2>2 DEF Backed
<1>7. ASSUME NEW x \in Queued(n), Lands(n, x)
      PROVE  Backed(n, t, i, e)'
  <2>1. disk'[n].hard.term = t => Has(disk'[n].log, i, e)
    <3>1. CASE q[x].synced
      BY <1>2, <1>7, <3>1 DEF Lands
    <3>2. CASE ~q[x].synced
      <4>1. disk'[n] = [hard |-> q[x].hard, log |-> q[x].log]
        BY <1>7, <3>2 DEF Lands
      <4>2. disk'[n].hard = q[x].hard /\ disk'[n].log = q[x].log
        BY <4>1
      <4> QED
        BY <1>2, <3>2, <4>2
    <3> QED
      BY <3>1, <3>2
  <2>2. ASSUME NEW l \in Queued(n)', ~r[l].synced, r[l].hard.term = t
        PROVE  Has(r[l].log, i, e) /\ i < r[l].from
    <3>1. \/ /\ l + 1 \in Queued(n) /\ SameBatch(r[l], q[l + 1])
             /\ r[l].synced = q[l + 1].synced
          \/ IsLatest(n, r[l])
      BY <1>7, <2>2 DEF Lands
    <3>2. CASE l + 1 \in Queued(n) /\ SameBatch(r[l], q[l + 1]) /\ r[l].synced = q[l + 1].synced
      <4>1. /\ ~q[l + 1].synced /\ q[l + 1].hard.term = t
            /\ r[l].log = q[l + 1].log /\ r[l].from = q[l + 1].from
        BY <2>2, <3>2 DEF SameBatch
      <4> QED
        BY <1>2, <3>2, <4>1
    <3> QED
      BY <1>5, <2>2, <3>1, <3>2
  <2> QED
    BY <1>4, <2>1, <2>2 DEF Backed
<1> QED
  BY <1>6, <1>7

(* Batch j of the queue is batch z of the next one. *)
LEMMA DueIsKept ==
    ASSUME NEW n \in Server, Turn(n), NEW k \in Server, role[k] = "Leader", NEW t \in Nat,
           t = term[k], NEW i \in Index, NEW e \in Entry, Has(log[k], i, e), t <= term[n],
           NEW j \in Queued(n), Due(n, j, t, i, e), NEW z \in Queued(n)',
           \/ Enqueues(n) /\ z = j /\ batches'[n][z].synced = batches[n][j].synced
           \/ \E x \in Queued(n) : Lands(n, x) /\
                \/ z = j /\ j < x
                \/ j = z + 1 /\ x <= z /\ batches'[n][z].synced = batches[n][j].synced
    PROVE  Due(n, z, t, i, e)'
<1> DEFINE q == batches[n]
           r == batches'[n]
<1>1. /\ TypeOK /\ TypeOK' /\ Chain(n) /\ restarts' = restarts /\ Len(q) \in Nat
      /\ \A l \in Queued(n) : q[l].synced \in BOOLEAN
      /\ j \in Nat /\ z \in Nat
  <2>1. TypeOK /\ TypeOK' /\ Chain(n)
    BY DEF Turn, VoteInv
  <2>2. restarts' = restarts
    BY DEF Enqueues, Lands
  <2>3. j \in Nat /\ z \in Nat
    BY DEF Queued
  <2> QED
    BY <2>1, <2>2, <2>3, QueueTypes
<1>2. /\ term[n] = t => Has(log[n], i, e)
      /\ q[j].synced /\ disk[n].hard.term = t => Has(disk[n].log, i, e)
      /\ \A l \in Queued(n) : j <= l /\ q[l].hard.term = t => Has(q[l].log, i, e)
  BY DEF Due
<1>3. term'[n] = t => Has(log'[n], i, e)
  BY <1>1, <1>2, MemoryKeeps
<1>4. ASSUME NEW l \in Queued(n)', r[l].hard.term = t, IsLatest(n, r[l])
      PROVE  Has(r[l].log, i, e)
  BY <1>1, <1>3, <1>4, LatestHas
<1>5. ASSUME NEW l \in Queued(n), NEW y, j <= l, SameBatch(y, q[l]), y.hard.term = t
      PROVE  Has(y.log, i, e)
  BY <1>2, <1>5 DEF SameBatch
<1>6. CASE Enqueues(n) /\ z = j /\ r[z].synced = q[j].synced
  <2>1. r[z].synced /\ disk'[n].hard.term = t => Has(disk'[n].log, i, e)
    BY <1>2, <1>6 DEF Enqueues
  <2>2. ASSUME NEW l \in Queued(n)', z <= l, r[l].hard.term = t
        PROVE  Has(r[l].log, i, e)
    BY <1>4, <1>5, <1>6, <2>2 DEF Enqueues
  <2> QED
    BY <1>3, <2>1, <2>2 DEF Due
<1>7. ASSUME NEW x \in Queued(n), Lands(n, x),
             \/ z = j /\ j < x
             \/ j = z + 1 /\ x <= z /\ r[z].synced = q[j].synced
      PROVE  Due(n, z, t, i, e)'
  <2>0. x \in Nat /\ x <= Len(q) /\ 1 <= x /\ 1 <= j /\ j <= Len(q) /\ j \in Queued(n)
    BY <1>1 DEF Queued
  <2>1. ASSUME r[z].synced, disk'[n].hard.term = t
        PROVE  Has(disk'[n].log, i, e)
    <3>1. CASE q[x].synced
      <4>1. disk'[n] = disk[n]
        BY <1>7, <3>1 DEF Lands
      <4>2. q[j].synced
        <5>1. CASE z = j /\ j < x
          <6>1. x \in j..Len(q)
            BY <1>1, <2>0, <5>1
          <6> QED
            BY <1>1, <3>1, <6>1 DEF Chain
        <5>2. CASE r[z].synced = q[j].synced
          BY <2>1, <5>2
        <5> QED
          BY <1>7, <5>1, <5>2
      <4> QED
        BY <1>2, <2>1, <4>1, <4>2
    <3>2. CASE ~q[x].synced
      <4>1. disk'[n] = [hard |-> q[x].hard, log |-> q[x].log]
        BY <1>7, <3>2 DEF Lands
      <4>2. disk'[n].hard = q[x].hard /\ disk'[n].log = q[x].log
        BY <4>1
      <4>3. j <= x
        <5> SUFFICES ASSUME ~(j <= x)
                     PROVE  FALSE
          OBVIOUS
        <5>1. q[j].synced
          <6>1. ~(z = j /\ j < x)
            BY <1>1, <2>0
          <6>2. r[z].synced = q[j].synced
            BY <1>7, <6>1
          <6> QED
            BY <2>1, <6>2
        <5>2. j \in x..Len(q)
          BY <1>1, <2>0
        <5> QED
          BY <1>1, <3>2, <5>1, <5>2 DEF Chain
      <4> QED
        BY <1>2, <2>1, <4>2, <4>3
    <3> QED
      BY <3>1, <3>2
  <2>2. ASSUME NEW l \in Queued(n)', z <= l, r[l].hard.term = t
        PROVE  Has(r[l].log, i, e)
    <3>0. l \in Nat
      BY DEF Queued
    <3>1. \/ l \in Queued(n) /\ l < x /\ SameBatch(r[l], q[l])
          \/ l + 1 \in Queued(n) /\ x <= l /\ SameBatch(r[l], q[l + 1])
          \/ IsLatest(n, r[l])
      BY <1>7 DEF Lands
    <3>2. CASE l \in Queued(n) /\ l < x /\ SameBatch(r[l], q[l])
      <4>1. j <= l
        BY <1>1, <1>7, <2>0, <2>2, <3>0, <3>2
      <4> QED
        BY <1>5, <2>2, <3>2, <4>1
    <3>3. CASE l + 1 \in Queued(n) /\ x <= l /\ SameBatch(r[l], q[l + 1])
      <4>1. j <= l + 1
        BY <1>1, <1>7, <2>0, <2>2, <3>0
      <4> QED
        BY <1>5, <2>2, <3>3, <4>1
    <3> QED
      BY <1>4, <2>2, <3>1, <3>2, <3>3
  <2> QED
    BY <1>3, <2>1, <2>2 DEF Due
<1> QED
  BY <1>6, <1>7

(* What was owed is paid. *)
LEMMA DueIsPaid ==
    ASSUME NEW n \in Server, Turn(n), NEW k \in Server, role[k] = "Leader", NEW t \in Nat,
           t = term[k], NEW i \in Index, NEW e \in Entry, Has(log[k], i, e), t <= term[n],
           NEW x \in Queued(n), Due(n, x, t, i, e), Lands(n, x), i <= durableIndex'[n]
    PROVE  Backed(n, t, i, e)'
<1> DEFINE q == batches[n]
           r == batches'[n]
<1>1. TypeOK /\ TypeOK' /\ ClaimInv' /\ restarts' = restarts /\ x \in Nat
  BY DEF Turn, Lands, Queued
<1>2. /\ term[n] = t => Has(log[n], i, e)
      /\ q[x].synced /\ disk[n].hard.term = t => Has(disk[n].log, i, e)
      /\ \A l \in Queued(n) : x <= l /\ q[l].hard.term = t => Has(q[l].log, i, e)
  BY DEF Due
<1>3. term'[n] = t => Has(log'[n], i, e)
  BY <1>1, <1>2, MemoryKeeps
<1>4. disk'[n].hard.term = t => Has(disk'[n].log, i, e)
  <2>1. CASE q[x].synced
    BY <1>2, <2>1 DEF Lands
  <2>2. CASE ~q[x].synced
    <3>1. disk'[n] = [hard |-> q[x].hard, log |-> q[x].log]
      BY <2>2 DEF Lands
    <3>2. disk'[n].hard = q[x].hard /\ disk'[n].log = q[x].log /\ x <= x
      BY <1>1, <3>1
    <3> QED
      BY <1>2, <3>2
  <2> QED
    BY <2>1, <2>2
<1>5. ASSUME NEW l \in Queued(n)', ~r[l].synced, r[l].hard.term = t
      PROVE  Has(r[l].log, i, e) /\ i < r[l].from
  <2>1. Has(r[l].log, i, e)
    <3>0. l \in Nat
      BY DEF Queued
    <3>1. \/ l + 1 \in Queued(n) /\ x <= l /\ SameBatch(r[l], q[l + 1])
          \/ IsLatest(n, r[l])
      BY <1>5 DEF Lands
    <3>2. CASE l + 1 \in Queued(n) /\ x <= l /\ SameBatch(r[l], q[l + 1])
      <4>1. x <= l + 1 /\ q[l + 1].hard.term = t /\ r[l].log = q[l + 1].log
        BY <1>1, <1>5, <3>0, <3>2 DEF SameBatch
      <4> QED
        BY <1>2, <3>2, <4>1
    <3>3. CASE IsLatest(n, r[l])
      BY <1>1, <1>3, <1>5, <3>3, LatestHas
    <3> QED
      BY <3>1, <3>2, <3>3
  <2>2. Fenced(n, 1, i)'
    BY <1>1 DEF ClaimInv, Fences
  <2>3. l >= 1
    BY DEF Queued
  <2> QED
    BY <1>5, <2>1, <2>2, <2>3 DEF Fenced
<1> QED
  BY <1>3, <1>4, <1>5 DEF Backed

(* A node that was shown an append of the leader's has what it reaches. *)
LEMMA VouchedHas ==
    ASSUME NEW n \in Server, Turn(n), NEW k \in Server, role'[k] = "Leader", NEW t \in Nat,
           t = term'[k], NEW i \in Index, Vouched(n, t, i)
    PROVE  \E e \in Entry : Has(log'[k], i, e) /\ Has(log'[n], i, e)
<1>1. TypeOK /\ TypeOK' /\ Unique' /\ Appended' /\ Step(n)
  BY DEF Turn, MatchInv, LineInv
<1>2. PICK m \in msgs : IsAppend(m) /\ m.term = t /\ i <= Last(m) /\ Reaches(log'[n], m)
  BY DEF Vouched
<1>3. m \in msgs'
  BY <1>1 DEF Step, Speaks
<1>4. m \in Message /\ Last(m) \in Nat
  BY <1>1, <1>2, AppendIsTyped, AppendTypes DEF TypeOK
<1>5. Reaches(log'[k], m)
  BY <1>1, <1>2, <1>3 DEF Appended, Reaches
<1>6. PICK new \in Seq(Entry) : new = log'[n] /\ Coherent(new)'
  BY <1>1, MemoryIsCoherentNext
<1>7. PICK lg \in Seq(Entry) : lg = log'[k] /\ Coherent(lg)'
  BY <1>1, MemoryIsCoherentNext
<1>8. Last(m) # 0 /\ i \in 1..Last(m)
  BY <1>2, <1>4 DEF Index
<1>9. Last(m) \in DOMAIN lg /\ TermAt(lg, Last(m)) = TermAt(new, Last(m))
  BY <1>2, <1>4, <1>5, <1>6, <1>7, <1>8, ReachAgree
<1>10. Same(lg, new, Last(m))
  BY <1>1, <1>6, <1>7, <1>9, CoherentAgreeNext
<1>11. i \in DOMAIN lg /\ i \in DOMAIN new /\ lg[i] = new[i] /\ lg[i] \in Entry
  BY <1>8, <1>10 DEF Same
<1> QED
  BY <1>6, <1>7, <1>11 DEF Has

-----------------------------------------------------------------------------
(* A crash. *)

LEMMA RemainsBack ==
    ASSUME TypeOK, VoteInv, NEW n \in Server, NEW image \in Remains(n), NEW t \in Nat,
           image.hard.term = t, t <= disk[n].hard.term, NEW i \in Index, NEW e,
           Backed(n, t, i, e)
    PROVE  Has(image.log, i, e)
<1> DEFINE q == batches[n]
           before(x) == IF x = 1 \/ q[x - 1].synced THEN disk[n].log ELSE q[x - 1].log
<1>1. \/ image = disk[n]
      \/ \E x \in 1..Len(q) : ~q[x].synced /\ image = [hard |-> q[x].hard, log |-> before(x)]
      \/ \E x \in 1..Len(q) : ~q[x].synced /\ \E y \in (q[x].from - 1)..Len(q[x].log) :
           image = [hard |-> q[x].hard, log |-> SubSeq(q[x].log, 1, y)]
  BY SMTT(20) DEF Remains
<1>2. /\ q \in Seq(Batch) /\ Len(q) \in Nat /\ Chain(n) /\ disk[n].hard \in HardState
      /\ disk[n].hard.term \in Nat
      /\ \A l \in Queued(n) : q[l].hard \in HardState
  BY HardTypes DEF TypeOK, HardTyped, VoteInv, HardState
<1>3. /\ disk[n].hard.term = t => Has(disk[n].log, i, e)
      /\ \A l \in Queued(n) : ~q[l].synced /\ q[l].hard.term = t
           => Has(q[l].log, i, e) /\ i < q[l].from
  BY DEF Backed
<1>4. CASE image = disk[n]
  BY <1>3, <1>4
<1>5. ASSUME NEW x \in 1..Len(q), ~q[x].synced,
             image = [hard |-> q[x].hard, log |-> before(x)]
      PROVE  Has(image.log, i, e)
  <2>1. x \in Queued(n) /\ x \in Nat /\ 1 <= x
    BY <1>2 DEF Queued
  <2>2. q[x].hard.term = t /\ image.log = before(x)
    BY <1>5
  <2>3. Le(disk[n].hard, q[x].hard)
    BY <1>2, <1>5, <2>1 DEF Chain
  <2>4. disk[n].hard.term = t
    <3>1. disk[n].hard.term <= q[x].hard.term
      BY <1>2, <2>1, <2>3, LeTerm
    <3> QED
      BY <1>2, <2>2, <3>1
  <2>5. CASE x = 1 \/ q[x - 1].synced
    BY <1>3, <2>2, <2>4, <2>5
  <2>6. CASE ~(x = 1 \/ q[x - 1].synced)
    <3>1. x - 1 \in Queued(n) /\ x \in (x - 1)..Len(q)
      BY <1>2, <2>1, <2>6 DEF Queued
    <3>2. Le(disk[n].hard, q[x - 1].hard) /\ Le(q[x - 1].hard, q[x].hard)
      BY <1>2, <2>6, <3>1 DEF Chain
    <3>3. disk[n].hard.term <= q[x - 1].hard.term /\ q[x - 1].hard.term <= q[x].hard.term
      BY <1>2, <2>1, <3>1, <3>2, LeTerm
    <3>4. q[x - 1].hard.term \in Nat
      BY <1>2, <3>1 DEF HardState
    <3>5. q[x - 1].hard.term = t
      BY <1>2, <2>2, <2>4, <3>3, <3>4
    <3>6. image.log = q[x - 1].log
      BY <2>2, <2>6
    <3> QED
      BY <1>3, <2>6, <3>1, <3>5, <3>6
  <2> QED
    BY <2>5, <2>6
<1>6. ASSUME NEW x \in 1..Len(q), ~q[x].synced, NEW y \in (q[x].from - 1)..Len(q[x].log),
             image = [hard |-> q[x].hard, log |-> SubSeq(q[x].log, 1, y)]
      PROVE  Has(image.log, i, e)
  <2> DEFINE lg == q[x].log
  <2>1. q[x] \in Batch /\ x \in Queued(n) /\ q[x].hard.term = t /\ image.log = SubSeq(lg, 1, y)
    BY <1>2, <1>6 DEF Queued
  <2>2. /\ lg \in Seq(Entry) /\ q[x].from \in Nat \ {0}
    BY <2>1 DEF Batch
  <2>3. Has(lg, i, e) /\ i < q[x].from
    BY <1>3, <1>6, <2>1
  <2> HIDE DEF lg
  <2>4. y \in Nat /\ y <= Len(lg) /\ i \in 1..y
    <3>1. Len(lg) = Len(q[x].log) /\ Len(lg) \in Nat
      BY <2>2 DEF lg
    <3> QED
      BY <1>6, <2>2, <2>3, <3>1 DEF Index
  <2>5. i \in DOMAIN SubSeq(lg, 1, y) /\ SubSeq(lg, 1, y)[i] = lg[i]
    BY <2>2, <2>4
  <2> QED
    BY <2>1, <2>3, <2>5 DEF Has
<1> QED
  BY <1>1, <1>4, <1>5, <1>6

(* What all the images of the term have below i survives up to i. *)
LEMMA RestartBacks ==
    ASSUME TypeOK, VoteInv, NEW n \in Server, Restart(n), NEW t \in Nat,
           t <= disk[n].hard.term, NEW i \in Index, NEW e, Backed(n, t, i, e),
           \A j \in 1..i : \E f \in Entry : f.term <= t /\ Backed(n, t, j, f)
    PROVE  Backed(n, t, i, e)'
<1>1. PICK image \in Remains(n) :
        /\ disk' = [disk EXCEPT ![n] = Recovered(image)]
        /\ term' = [term EXCEPT ![n] = Recovered(image).hard.term]
        /\ log' = [log EXCEPT ![n] = Recovered(image).log]
        /\ durableIndex' = [durableIndex EXCEPT ![n] = Len(Recovered(image).log)]
  BY DEF Restart
<1>2. batches'[n] = <<>>
  BY DEF Restart, TypeOK
<1>3. image \in Image
  BY RemainsType
<1> DEFINE kept == Recovered(image)
<1>4. kept.log \in Seq(Entry) /\ kept.hard = image.hard
  BY <1>3, RecoveredTerms DEF Image
<1>5. /\ disk'[n] = kept /\ log'[n] = kept.log /\ term'[n] = kept.hard.term
      /\ durableIndex'[n] = Len(kept.log)
  BY <1>1 DEF TypeOK
<1>6. ASSUME image.hard.term = t
      PROVE  Has(kept.log, i, e)
  <2>1. ASSUME NEW j \in 1..i
        PROVE  j \in DOMAIN image.log /\ image.log[j].term <= image.hard.term
    <3>1. PICK f \in Entry : f.term <= t /\ Backed(n, t, j, f)
      OBVIOUS
    <3>2. j \in Index
      BY DEF Index
    <3>3. Has(image.log, j, f)
      BY <1>6, <3>1, <3>2, RemainsBack
    <3> QED
      BY <1>6, <3>1, <3>3 DEF Has
  <2>2. Has(image.log, i, e)
    BY <1>6, RemainsBack
  <2> QED
    BY <1>3, <2>1, <2>2, RecoveredKeeps DEF Has
<1> HIDE DEF kept
<1>7. Queued(n)' = {}
  BY <1>2 DEF Queued
<1>8. Has(kept.log, i, e) => i <= Len(kept.log)
  BY <1>4 DEF Has
<1> QED
  BY <1>4, <1>5, <1>6, <1>7, <1>8 DEF Backed

-----------------------------------------------------------------------------
(* The invariant is kept. *)

LEMMA FreshLeader ==
    ASSUME NEW n \in Server, Turn(n), role'[n] = "Leader", role[n] # "Leader", NEW i \in Index
    PROVE  ~AppendFor(term[n], i)
<1> SUFFICES ASSUME AppendFor(term[n], i)
             PROVE  FALSE
  OBVIOUS
<1>1. TypeOK /\ TypeOK' /\ VoteInv /\ VoteInv' /\ Appended /\ Step(n) /\ LogStep(n)
  BY DEF Turn, LineInv
<1>2. PICK m \in msgs : IsAppend(m) /\ m.term = term[n] /\ i <= Last(m)
  BY DEF AppendFor
<1>3. m.from \in Server
  BY <1>1, <1>2, AppendTypes DEF TypeOK
<1>4. Authored(m.from, term[n])
  BY <1>1, <1>2 DEF Appended
<1>5. role[n] = "Candidate"
  BY <1>1 DEF LogStep, LeadsOn
<1> QED
  BY <1>1, <1>3, <1>4, <1>5, CandidateIsFirst

(* An acknowledgement is of a term that is on disk. *)
LEMMA AckIsOfTerm ==
    ASSUME TypeOK, VoteInv, NEW v \in Server, NEW t \in Nat, NEW i, Ack(v, t, i)
    PROVE  t <= disk[v].hard.term /\ t <= term[v]
<1>1. t <= disk[v].hard.term
  BY DEF Ack, VoteInv, Spoken
<1>2. Le(disk[v].hard, Hard(v)) /\ disk[v].hard \in HardState /\ Hard(v) \in HardState
      /\ Hard(v).term = term[v]
  BY HardTypes DEF HardTyped, VoteInv, Chain
<1>3. disk[v].hard.term <= term[v] /\ disk[v].hard.term \in Nat /\ term[v] \in Nat
  BY <1>2, LeTerm DEF HardState
<1> QED
  BY <1>1, <1>3

LEMMA Elsewhere ==
    ASSUME NEW n \in Server, Turn(n), NEW v \in Server, v # n
    PROVE  /\ term'[v] = term[v] /\ log'[v] = log[v] /\ durableIndex'[v] = durableIndex[v]
           /\ disk'[v] = disk[v] /\ batches'[v] = batches[v] /\ Queued(v)' = Queued(v)
<1>1. Alone(n) /\ LogsAlone(n)
  BY DEF Turn, Step, ClaimStep
<1> QED
  BY <1>1 DEF Alone, LogsAlone, Queued

LEMMA AckHoldsStill ==
    ASSUME NEW n \in Server, Turn(n), QueueStep(n), AckInv, NEW k \in Server,
           role[k] = "Leader", role'[k] = "Leader", NEW t \in Nat, t = term[k],
           NEW v \in Server, NEW i \in Index, Ack(v, t, i)
    PROVE  \E e \in Entry : Has(log'[k], i, e) /\ Backed(v, t, i, e)'
<1>1. TypeOK /\ VoteInv /\ LineInv
  BY DEF Turn
<1>2. PICK e \in Entry : Has(log[k], i, e) /\ Backed(v, t, i, e)
  BY DEF AckInv, AckHolds
<1>3. Has(log'[k], i, e)
  BY <1>2, LeaderKeeps
<1>4. t <= disk[v].hard.term /\ t <= term[v]
  BY <1>1, AckIsOfTerm
<1>5. CASE v # n
  <2>1. Backed(v, t, i, e)'
    BY <1>2, <1>5, Elsewhere DEF Backed
  <2> QED
    BY <1>3, <2>1
<1>6. CASE v = n /\ ~Restart(n)
  <2>1. Backed(n, t, i, e)'
    BY <1>2, <1>4, <1>6, BackedIsKept DEF QueueStep
  <2> QED
    BY <1>3, <1>6, <2>1
<1>7. CASE v = n /\ Restart(n)
  <2>1. ASSUME NEW j \in 1..i
        PROVE  \E f \in Entry : f.term <= t /\ Backed(n, t, j, f)
    <3>1. j \in Index /\ j <= i
      BY DEF Index
    <3>2. Ack(n, t, j)
      BY <1>1, <1>7, <3>1, AckReaches
    <3>3. PICK f \in Entry : Has(log[k], j, f) /\ Backed(n, t, j, f)
      BY <3>1, <3>2 DEF AckInv, AckHolds
    <3>4. f.term <= term[k]
      BY <1>1, <3>1, <3>3, HasIsOfTerm
    <3> QED
      BY <3>3, <3>4
  <2>2. Backed(n, t, i, e)'
    BY <1>1, <1>2, <1>4, <1>7, <2>1, RestartBacks
  <2> QED
    BY <1>3, <1>7, <2>2
<1> QED
  BY <1>5, <1>6, <1>7

LEMMA DueHoldsToday ==
    ASSUME NEW n \in Server, Turn(n), AckInv, NEW k \in Server, role[k] = "Leader",
           NEW t \in Nat, t = term[k], NEW i \in Index, NEW v \in Server, NEW j \in Queued(v),
           Owes(batches[v][j].act, t, i)
    PROVE  t <= term[v] /\ \E e \in Entry : Has(log[k], i, e) /\ Due(v, j, t, i, e)
<1>1. Owed(v, t, i) /\ Answered
  BY DEF Owed, Turn, LineInv
<1> QED
  BY <1>1 DEF Answered, AckInv, DueHolds

LEMMA AckHoldsNew ==
    ASSUME NEW n \in Server, Turn(n), QueueStep(n), AckInv, NEW k \in Server,
           role[k] = "Leader", role'[k] = "Leader", NEW t \in Nat, t = term[k],
           t = term'[k], NEW i \in Index, NEW m \in msgs' \ msgs, IsAck(m), m.term = t,
           i <= m.match
    PROVE  \E e \in Entry : Has(log'[k], i, e) /\ Backed(n, t, i, e)'
<1>1. TypeOK /\ TypeOK' /\ ClaimInv' /\ LineStep(n) /\ Step(n)
  BY DEF Turn
<1>2. i <= durableIndex'[n]
  <2>1. m \in AppendRespMsgs
    BY <1>1, MessageTypes DEF TypeOK, IsAck
  <2>2. m.match \in Nat /\ durableIndex'[n] \in Nat /\ i \in Nat
    BY <1>1, <2>1 DEF AppendRespMsgs, TypeOK, Index
  <2>3. m.match <= durableIndex'[n]
    BY <1>1 DEF LineStep, Says, Sayable
  <2> QED
    BY <2>2, <2>3
<1>3. CASE Enqueues(n)
  <2>1. Vouched(n, t, i)
    BY <1>3 DEF Enqueues
  <2>2. PICK e \in Entry : Has(log'[k], i, e) /\ Has(log'[n], i, e)
    BY <2>1, VouchedHas
  <2>3. Backed(n, t, i, e)'
    BY <1>1, <1>2, <2>2, ClaimBacksNext
  <2> QED
    BY <2>2, <2>3
<1>4. ASSUME NEW x \in Queued(n), Lands(n, x)
      PROVE  \E e \in Entry : Has(log'[k], i, e) /\ Backed(n, t, i, e)'
  <2>1. Owes(batches[n][x].act, t, i)
    BY <1>4 DEF Lands
  <2>2. t <= term[n]
    BY <2>1, DueHoldsToday
  <2>3. PICK e \in Entry : Has(log[k], i, e) /\ Due(n, x, t, i, e)
    BY <2>1, DueHoldsToday
  <2>4. Has(log'[k], i, e)
    BY <2>3, LeaderKeeps
  <2>5. Backed(n, t, i, e)'
    BY <1>2, <1>4, <2>2, <2>3, DueIsPaid
  <2> QED
    BY <2>4, <2>5
<1>5. ~Restart(n)
  BY DEF Restart
<1> QED
  BY <1>3, <1>4, <1>5 DEF QueueStep

(* A batch that is new owes what an append has just shown. *)
LEMMA DueHoldsNew ==
    ASSUME NEW n \in Server, Turn(n), NEW k \in Server, role'[k] = "Leader", NEW t \in Nat,
           t = term'[k], NEW i \in Index, NEW j \in Queued(n)', IsLatest(n, batches'[n][j]),
           Owes(batches'[n][j].act, t, i),
           \A l \in Queued(n)' : j <= l => IsLatest(n, batches'[n][l])
    PROVE  \E e \in Entry : Has(log'[k], i, e) /\ Due(n, j, t, i, e)'
<1>1. TypeOK'
  BY DEF Turn
<1>2. Vouched(n, t, i)
  BY DEF IsLatest
<1>3. PICK e \in Entry : Has(log'[k], i, e) /\ Has(log'[n], i, e)
  BY <1>2, VouchedHas
<1>4. ~batches'[n][j].synced
  BY DEF IsLatest
<1>5. ASSUME NEW l \in Queued(n)', j <= l, batches'[n][l].hard.term = t
      PROVE  Has(batches'[n][l].log, i, e)
  BY <1>1, <1>3, <1>5, LatestHas
<1>6. Due(n, j, t, i, e)'
  BY <1>3, <1>4, <1>5 DEF Due
<1> QED
  BY <1>3, <1>6

LEMMA DueHoldsStill ==
    ASSUME NEW n \in Server, Turn(n), QueueStep(n), AckInv, NEW k \in Server,
           role[k] = "Leader", role'[k] = "Leader", NEW t \in Nat, t = term[k],
           t = term'[k], NEW i \in Index, NEW j \in Queued(n)', Owes(batches'[n][j].act, t, i)
    PROVE  \E e \in Entry : Has(log'[k], i, e) /\ Due(n, j, t, i, e)'
<1> DEFINE q == batches[n]
           r == batches'[n]
<1>1. TypeOK /\ TypeOK' /\ Len(q) \in Nat /\ j \in Nat
  <2>1. TypeOK /\ TypeOK'
    BY DEF Turn
  <2>2. j \in Nat
    BY DEF Queued
  <2> QED
    BY <2>1, <2>2, QueueTypes
<1>2. ASSUME NEW z \in Queued(n), SameBatch(r[j], q[z]),
             \/ Enqueues(n) /\ j = z /\ r[j].synced = q[z].synced
             \/ \E x \in Queued(n) : Lands(n, x) /\
                  \/ j = z /\ z < x
                  \/ z = j + 1 /\ x <= j /\ r[j].synced = q[z].synced
      PROVE  \E e \in Entry : Has(log'[k], i, e) /\ Due(n, j, t, i, e)'
  <2>1. Owes(q[z].act, t, i)
    BY <1>2, SameOwes
  <2>2. t <= term[n]
    BY <2>1, DueHoldsToday
  <2>3. PICK e \in Entry : Has(log[k], i, e) /\ Due(n, z, t, i, e)
    BY <2>1, DueHoldsToday
  <2>4. Has(log'[k], i, e)
    BY <2>3, LeaderKeeps
  <2>5. Due(n, j, t, i, e)'
    BY <1>2, <2>2, <2>3, DueIsKept
  <2> QED
    BY <2>4, <2>5
<1>3. CASE Enqueues(n)
  <2>1. CASE j \in Queued(n) /\ SameBatch(r[j], q[j]) /\ r[j].synced = q[j].synced
    BY <1>2, <1>3, <2>1
  <2>2. CASE j = Len(q) + 1 /\ IsLatest(n, r[j])
    <3>1. \A l \in Queued(n)' : j <= l => IsLatest(n, r[l])
      <4> SUFFICES ASSUME NEW l \in Queued(n)', j <= l
                   PROVE  IsLatest(n, r[l])
        OBVIOUS
      <4>1. l \notin Queued(n)
        BY <1>1, <2>2 DEF Queued
      <4> QED
        BY <1>3, <4>1 DEF Enqueues
    <3> QED
      BY <2>2, <3>1, DueHoldsNew
  <2> QED
    BY <1>3, <2>1, <2>2 DEF Enqueues
<1>4. ASSUME NEW x \in Queued(n), Lands(n, x)
      PROVE  \E e \in Entry : Has(log'[k], i, e) /\ Due(n, j, t, i, e)'
  <2>1. CASE j \in Queued(n) /\ j < x /\ SameBatch(r[j], q[j])
    BY <1>2, <1>4, <2>1
  <2>2. CASE j + 1 \in Queued(n) /\ x <= j /\ SameBatch(r[j], q[j + 1])
             /\ r[j].synced = q[j + 1].synced
    BY <1>2, <1>4, <2>2
  <2>3. CASE j = Len(q) /\ IsLatest(n, r[j])
    <3>1. \A l \in Queued(n)' : j <= l => IsLatest(n, r[l])
      <4> SUFFICES ASSUME NEW l \in Queued(n)', j <= l
                   PROVE  IsLatest(n, r[l])
        OBVIOUS
      <4>1. ~(l < x) /\ l + 1 \notin Queued(n)
        BY <1>1, <2>3 DEF Queued
      <4> QED
        BY <1>4, <4>1 DEF Lands
    <3> QED
      BY <2>3, <3>1, DueHoldsNew
  <2> QED
    BY <1>4, <2>1, <2>2, <2>3 DEF Lands
<1>5. ~Restart(n)
  <2> SUFFICES ASSUME Restart(n)
               PROVE  FALSE
    OBVIOUS
  <2>1. batches'[n] = <<>>
    BY <1>1 DEF Restart, TypeOK
  <2>2. Queued(n)' = {}
    BY <2>1 DEF Queued
  <2> QED
    BY <2>2
<1> QED
  BY <1>3, <1>4, <1>5 DEF QueueStep

LEMMA AcksAreKept ==
    ASSUME NEW n \in Server, Turn(n), QueueStep(n), AckInv
    PROVE  AckInv'
<1> SUFFICES ASSUME NEW k \in Server, role'[k] = "Leader", NEW v \in Server, NEW i \in Index
             PROVE  AckHolds(k, v, i)' /\ DueHolds(k, v, i)'
  BY DEF AckInv
<1>1. TypeOK /\ TypeOK' /\ Step(n) /\ ClaimStep(n) /\ LogStep(n) /\ LineStep(n) /\ Answered
  BY DEF Turn, LineInv
<1>2. PICK t \in Nat : t = term[k] /\ t = term'[k]
  <2>1. CASE k = n
    BY <1>1, <2>1 DEF LogStep, LeadsOn, TypeOK
  <2>2. CASE k # n
    BY <1>1, <2>2, Elsewhere DEF TypeOK
  <2> QED
    BY <2>1, <2>2
<1>3. CASE role[k] = "Leader"
  <2>1. AckHolds(k, v, i)'
    <3> SUFFICES ASSUME Ack(v, t, i)'
                 PROVE  \E e \in Entry : Has(log'[k], i, e) /\ Backed(v, t, i, e)'
      BY <1>2 DEF AckHolds, Ack, Has, Backed
    <3>1. PICK m \in msgs' : IsAck(m) /\ m.from = v /\ m.term = t /\ i <= m.match
      BY DEF Ack
    <3>2. CASE m \in msgs
      <4>1. Ack(v, t, i)
        BY <3>1, <3>2 DEF Ack
      <4> QED
        BY <1>2, <1>3, <4>1, AckHoldsStill
    <3>3. CASE m \notin msgs
      <4>1. v = n
        BY <1>1, <3>1, <3>3 DEF Step, Speaks
      <4> QED
        BY <1>2, <1>3, <3>1, <3>3, <4>1, AckHoldsNew
    <3> QED
      BY <3>2, <3>3
  <2>2. DueHolds(k, v, i)'
    <3> SUFFICES ASSUME NEW j \in Queued(v)', Owes(batches'[v][j].act, t, i)
                 PROVE  \E e \in Entry : Has(log'[k], i, e) /\ Due(v, j, t, i, e)'
      BY <1>2 DEF DueHolds, Owes, Has, Due
    <3>1. CASE v = n
      BY <1>2, <1>3, <3>1, DueHoldsStill
    <3>2. CASE v # n
      <4>1. j \in Queued(v) /\ Owes(batches[v][j].act, t, i)
        BY <3>2, Elsewhere
      <4>2. PICK e \in Entry : Has(log[k], i, e) /\ Due(v, j, t, i, e)
        BY <1>2, <1>3, <4>1, DueHoldsToday
      <4>3. Due(v, j, t, i, e)'
        BY <3>2, <4>2, Elsewhere DEF Due
      <4>4. Has(log'[k], i, e)
        BY <4>2, LeaderKeeps
      <4> QED
        BY <4>3, <4>4
    <3> QED
      BY <3>1, <3>2
  <2> QED
    BY <2>1, <2>2
<1>4. CASE role[k] # "Leader"
  <2>1. k = n
    BY <1>1, <1>4 DEF Step, Alone
  <2>2. ~AppendFor(t, i)
    BY <1>2, <1>4, <2>1, FreshLeader
  <2>3. ~Vouched(n, t, i) /\ ~Ack(v, t, i) /\ ~Owed(v, t, i) /\ ~Owed(n, t, i)
    BY <1>1, <2>2 DEF Vouched, AppendFor, Answered
  <2>4. ~Ack(v, t, i)' /\ ~Owed(v, t, i)'
    BY <1>1, <2>3, AckToday, OwedToday
  <2>5. AckHolds(k, v, i)'
    BY <1>2, <2>4 DEF AckHolds, Ack
  <2>6. DueHolds(k, v, i)'
    BY <1>2, <2>4 DEF DueHolds, Owed, Owes
  <2> QED
    BY <2>5, <2>6
<1> QED
  BY <1>3, <1>4

-----------------------------------------------------------------------------
(* The steps. *)

NoAcks(n) == \A m \in msgs' \ msgs : ~IsAck(m)

LEMMA SendsNoAck ==
    ASSUME NEW n, NEW ms, Send(n, ms), \A m \in ms : m.type # "AppendEntriesResp" \/ ~m.success
    PROVE  NoAcks(n)
BY DEF NoAcks, Send, IsAck

LEMMA AnswerIsNoAck ==
    ASSUME NEW n, NEW o, Send(n, {o}), o.type # "AppendEntriesResp" \/ ~o.success
    PROVE  NoAcks(n)
<1>1. \A m \in {o} : m.type # "AppendEntriesResp" \/ ~m.success
  OBVIOUS
<1> QED
  BY <1>1, SendsNoAck

LEMMA NoAckTypes ==
    ASSUME NEW n, NEW p, NEW t, NEW a, NEW b
    PROVE  /\ VoteResp(n, p, t, a).type # "AppendEntriesResp"
           /\ PreVoteMsg(n, p).type # "AppendEntriesResp"
           /\ RequestVoteMsg(n, p).type # "AppendEntriesResp"
           /\ PreVoteRespMsg(n, p, t, a).type # "AppendEntriesResp"
           /\ ~AppendResp(n, p, t, FALSE, a, b).success
BY DEF VoteResp, PreVoteMsg, RequestVoteMsg, PreVoteRespMsg, AppendResp

LEMMA AppendIsNoAck ==
    ASSUME NEW n, NEW p, NEW lg, NEW next, NEW commit, NEW m \in AppendTo(n, p, lg, next, commit)
    PROVE  m.type # "AppendEntriesResp"
BY DEF AppendTo

LEMMA AppendsAreNoAcks ==
    ASSUME NEW n, NEW lg, NEW next, NEW commit, NEW m \in AppendToAll(n, lg, next, commit)
    PROVE  m.type # "AppendEntriesResp"
BY AppendIsNoAck DEF AppendToAll

LEMMA StillEnqueues ==
    ASSUME TypeOK, NEW n \in Server, UNCHANGED <<batches, disk, restarts>>,
           \A m \in msgs' \ msgs : IsAck(m) =>
             \A i \in Index : i <= m.match => Vouched(n, m.term, i)
    PROVE  QueueStep(n)
<1>1. Queued(n)' = Queued(n)
  BY DEF Queued
<1>2. \A j \in Queued(n) : SameBatch(batches[n][j], batches[n][j])
  BY DEF SameBatch, SameAct
<1> QED
  BY <1>1, <1>2 DEF QueueStep, Enqueues

LEMMA QuietEnqueues ==
    ASSUME TypeOK, NEW n \in Server, UNCHANGED <<batches, disk, restarts>>, NoAcks(n)
    PROVE  QueueStep(n)
BY StillEnqueues DEF NoAcks

LEMMA IssueEnqueues ==
    ASSUME TypeOK, NEW n \in Server, NEW queue \in Seq(Batch), NEW act, NEW wh, NEW from,
           Issue(n, queue, act, wh, from), UNCHANGED <<disk, restarts>>, NoAcks(n),
           Len(queue) = Len(batches[n]),
           \A j \in Queued(n) : /\ SameBatch(queue[j], batches[n][j])
                                /\ queue[j].synced = batches[n][j].synced,
           \A t \in Nat : \A i \in Index : Owes(act, t, i) => Vouched(n, t, i)
    PROVE  QueueStep(n)
<1> DEFINE b == NewBatch(n, act, wh, from)
<1>1. batches'[n] = Append(queue, b)
  BY DEF Issue, TypeOK
<1>2. IsLatest(n, b)
  <2>1. b.hard = Hard(n)' /\ b.log = log'[n] /\ b.synced = FALSE /\ b.act = act
    BY DEF NewBatch
  <2> QED
    BY <2>1 DEF IsLatest
<1> HIDE DEF b
<1>3. /\ Len(batches'[n]) = Len(queue) + 1 /\ Len(queue) \in Nat
      /\ batches'[n][Len(queue) + 1] = b
      /\ \A j \in 1..Len(queue) : batches'[n][j] = queue[j]
  BY <1>1
<1>4. \A j \in Queued(n)' : \/ j \in Queued(n) /\ batches'[n][j] = queue[j]
                            \/ j = Len(batches[n]) + 1 /\ batches'[n][j] = b
  BY <1>3 DEF Queued
<1> QED
  BY <1>2, <1>4 DEF QueueStep, Enqueues, NoAcks

LEMMA OwnQueueEnqueues ==
    ASSUME TypeOK, NEW n \in Server, NEW act, NEW wh, NEW from,
           Issue(n, batches[n], act, wh, from), UNCHANGED <<disk, restarts>>, NoAcks(n),
           \A t \in Nat : \A i \in Index : Owes(act, t, i) => Vouched(n, t, i)
    PROVE  QueueStep(n)
<1>1. batches[n] \in Seq(Batch)
  BY DEF TypeOK
<1>2. \A j \in Queued(n) : SameBatch(batches[n][j], batches[n][j])
  BY DEF SameBatch, SameAct
<1> QED
  BY <1>1, <1>2, IssueEnqueues

LEMMA IdleOwesNothing ==
    /\ \A s, t, i : ~Owes(Campaign(s), t, i)
    /\ \A t, i : ~Owes(Quiet, t, i)
    /\ \A m, t, i : ~Owes(Reply(m), t, i)
    /\ \A f, x, y, z, t, i : ~Owes(LogDurable(f, x, y, None, z), t, i)
BY DEF Owes, Campaign, Quiet, Reply, LogDurable

LEMMA WithoutKeeps ==
    ASSUME TypeOK, NEW n \in Server, NEW k \in Queued(n)
    PROVE  LET q == batches[n]
               r == QueueWithout(q, k)
           IN /\ r \in Seq(Batch) /\ Len(r) = Len(q) - 1 /\ Len(q) \in Nat
              /\ \A j \in 1..Len(r) :
                   \/ j \in Queued(n) /\ j < k /\ SameBatch(r[j], q[j]) /\ r[j].synced
                   \/ /\ j + 1 \in Queued(n) /\ k <= j /\ SameBatch(r[j], q[j + 1])
                      /\ r[j].synced = q[j + 1].synced
<1> DEFINE q == batches[n]
           r == QueueWithout(q, k)
<1>1. q \in Seq(Batch) /\ k \in 1..Len(q) /\ Queued(n) = 1..Len(q) /\ Len(q) \in Nat
  BY DEF TypeOK, Queued
<1> HIDE DEF q
<1>2. r \in Seq(Batch) /\ Len(r) = Len(q) - 1
  BY <1>1, QueueWithoutKeeps
<1>3. ASSUME NEW j \in 1..Len(r)
      PROVE  \/ j \in Queued(n) /\ j < k /\ SameBatch(r[j], q[j]) /\ r[j].synced
             \/ /\ j + 1 \in Queued(n) /\ k <= j /\ SameBatch(r[j], q[j + 1])
                /\ r[j].synced = q[j + 1].synced
  <2>1. j \in 1..(Len(q) - 1) /\ j \in 1..Len(q) /\ j + 1 \in 1..Len(q)
    BY <1>1, <1>2
  <2>2. r[j] = IF j < k THEN [q[j] EXCEPT !.synced = TRUE] ELSE q[j + 1]
    BY <1>1, <2>1 DEF QueueWithout
  <2>3. CASE j < k
    <3>1. r[j] = [q[j] EXCEPT !.synced = TRUE] /\ q[j] \in Batch
      BY <1>1, <2>1, <2>2, <2>3
    <3>2. /\ r[j].hard = q[j].hard /\ r[j].log = q[j].log /\ r[j].from = q[j].from
          /\ r[j].act = q[j].act /\ r[j].synced = TRUE
      BY <3>1 DEF Batch
    <3> QED
      BY <1>1, <2>1, <2>3, <3>2 DEF SameBatch, SameAct
  <2>4. CASE ~(j < k)
    BY <1>1, <2>1, <2>2, <2>4 DEF SameBatch, SameAct
  <2> QED
    BY <2>3, <2>4
<1> QED
  BY <1>1, <1>2, <1>3 DEF q

LEMMA SyncLands ==
    ASSUME TypeOK, NEW n \in Server, NEW k \in Queued(n), SyncDone(n, k),
           \/ batches' = [batches EXCEPT ![n] = QueueWithout(batches[n], k)]
           \/ \E act, wh, from : /\ Issue(n, QueueWithout(batches[n], k), act, wh, from)
                                 /\ \A t, i : ~Owes(act, t, i),
           \A m \in msgs' \ msgs : IsAck(m) =>
             \A i \in Index : i <= m.match => Owes(batches[n][k].act, m.term, i)
    PROVE  QueueStep(n)
<1> DEFINE q == batches[n]
           r == QueueWithout(q, k)
           s == batches'[n]
<1>1. /\ r \in Seq(Batch) /\ Len(r) = Len(q) - 1 /\ Len(q) \in Nat
      /\ \A j \in 1..Len(r) :
           \/ j \in Queued(n) /\ j < k /\ SameBatch(r[j], q[j]) /\ r[j].synced
           \/ /\ j + 1 \in Queued(n) /\ k <= j /\ SameBatch(r[j], q[j + 1])
              /\ r[j].synced = q[j + 1].synced
  BY WithoutKeeps
<1> HIDE DEF r
<1>2. s = r \/ \E b : s = Append(r, b) /\ IsLatest(n, b)
  <2>1. CASE batches' = [batches EXCEPT ![n] = r]
    BY <2>1 DEF TypeOK
  <2>2. ASSUME NEW act, NEW wh, NEW from, Issue(n, r, act, wh, from), \A t, i : ~Owes(act, t, i)
        PROVE  \E b : s = Append(r, b) /\ IsLatest(n, b)
    <3> DEFINE b == NewBatch(n, act, wh, from)
    <3>1. s = Append(r, b)
      BY <2>2 DEF Issue, TypeOK
    <3>2. b.hard = Hard(n)' /\ b.log = log'[n] /\ b.synced = FALSE /\ b.act = act
      BY DEF NewBatch
    <3> HIDE DEF b
    <3>3. IsLatest(n, b)
      BY <2>2, <3>2 DEF IsLatest
    <3> QED
      BY <3>1, <3>3
  <2> QED
    BY <2>1, <2>2 DEF r
<1>3. \A j \in 1..Len(s) : \/ j \in 1..Len(r) /\ s[j] = r[j]
                           \/ j = Len(q) /\ IsLatest(n, s[j])
  <2>1. CASE s = r
    BY <2>1
  <2>2. ASSUME NEW b, s = Append(r, b), IsLatest(n, b)
        PROVE  \A j \in 1..Len(s) : \/ j \in 1..Len(r) /\ s[j] = r[j]
                                    \/ j = Len(q) /\ IsLatest(n, s[j])
    <3>1. /\ Len(s) = Len(r) + 1 /\ s[Len(r) + 1] = b /\ Len(r) \in Nat
          /\ \A j \in 1..Len(r) : s[j] = r[j]
      BY <1>1, <2>2
    <3> HIDE DEF s, q
    <3> QED
      BY <1>1, <2>2, <3>1
  <2> QED
    BY <1>2, <2>1, <2>2
<1>4. \A j \in Queued(n)' :
         \/ j \in Queued(n) /\ j < k /\ SameBatch(s[j], q[j]) /\ s[j].synced
         \/ /\ j + 1 \in Queued(n) /\ k <= j /\ SameBatch(s[j], q[j + 1])
            /\ s[j].synced = q[j + 1].synced
         \/ j = Len(q) /\ IsLatest(n, s[j])
  <2>1. Queued(n)' = 1..Len(s)
    BY DEF Queued
  <2> HIDE DEF s, q
  <2> QED
    BY <1>1, <1>3, <2>1
<1>5. /\ disk'[n] = IF q[k].synced THEN disk[n] ELSE [hard |-> q[k].hard, log |-> q[k].log]
      /\ restarts' = restarts
  BY DEF SyncDone, TypeOK
<1>6. Lands(n, k)
  BY <1>4, <1>5 DEF Lands
<1> QED
  BY <1>6 DEF QueueStep

LEMMA BecomeCandidateQueues ==
    ASSUME TypeOK, NEW n \in Server, BecomeCandidate(n)
    PROVE  QueueStep(n)
<1>1. /\ UNCHANGED <<disk, msgs, restarts>>
      /\ Issue(n, batches[n], Campaign(term'[n]), TRUE, Len(log[n]) + 1)
  BY DEF BecomeCandidate
<1>2. NoAcks(n)
  BY <1>1 DEF NoAcks
<1> QED
  BY <1>1, <1>2, IdleOwesNothing, OwnQueueEnqueues

LEMMA ElectionTimeoutQueues ==
    ASSUME TypeOK, NEW n \in Server, ElectionTimeout(n)
    PROVE  QueueStep(n)
<1>1. CASE StartPreVote(n)
  <2>1. UNCHANGED <<batches, disk, restarts>> /\ Send(n, {PreVoteMsg(n, p) : p \in Peers(n)})
    BY <1>1 DEF StartPreVote
  <2>2. \A o \in {PreVoteMsg(n, p) : p \in Peers(n)} : o.type # "AppendEntriesResp"
    BY NoAckTypes
  <2>3. NoAcks(n)
    BY <2>1, <2>2, SendsNoAck
  <2> QED
    BY <2>1, <2>3, QuietEnqueues
<1> QED
  BY <1>1, BecomeCandidateQueues DEF ElectionTimeout

LEMMA QuietQueues ==
    ASSUME TypeOK, NEW n \in Server,
           \/ Heartbeat(n)
           \/ \E m \in msgs : \/ RefuseStale(n, m) \/ RepeatVoteAnswer(n, m)
                              \/ HandlePreVote(n, m) \/ HandleAppendAck(n, m)
                              \/ HandleAppendNack(n, m)
    PROVE  QueueStep(n)
<1>1. CASE Heartbeat(n)
  <2>1. /\ UNCHANGED <<batches, disk, restarts>>
        /\ Send(n, AppendToAll(n, log[n], nextIndex[n], commitIndex[n]))
    BY <1>1 DEF Heartbeat
  <2>2. NoAcks(n)
    BY <2>1, AppendsAreNoAcks, SendsNoAck
  <2> QED
    BY <2>1, <2>2, QuietEnqueues
<1>2. ASSUME NEW m \in msgs, RefuseStale(n, m)
      PROVE  QueueStep(n)
  <2>1. /\ UNCHANGED <<batches, disk, restarts>>
        /\ \/ Send(n, {VoteResp(n, m.from, term[n], FALSE)})
           \/ Send(n, {AppendResp(n, m.from, term[n], FALSE, NO_INDEX, NO_INDEX)})
    BY <1>2 DEF RefuseStale
  <2>2. NoAcks(n)
    <3>1. CASE Send(n, {VoteResp(n, m.from, term[n], FALSE)})
      BY <3>1, NoAckTypes, AnswerIsNoAck
    <3>2. CASE Send(n, {AppendResp(n, m.from, term[n], FALSE, NO_INDEX, NO_INDEX)})
      BY <3>2, NoAckTypes, AnswerIsNoAck
    <3> QED
      BY <2>1, <3>1, <3>2
  <2> QED
    BY <2>1, <2>2, QuietEnqueues
<1>3. ASSUME NEW m \in msgs, RepeatVoteAnswer(n, m)
      PROVE  QueueStep(n)
  <2>1. /\ UNCHANGED <<batches, disk, restarts>>
        /\ Send(n, {VoteResp(n, m.from, m.term, GrantsVote(n, m))})
    BY <1>3 DEF RepeatVoteAnswer
  <2>2. NoAcks(n)
    BY <2>1, NoAckTypes, AnswerIsNoAck
  <2> QED
    BY <2>1, <2>2, QuietEnqueues
<1>4. ASSUME NEW m \in msgs, HandlePreVote(n, m)
      PROVE  QueueStep(n)
  <2>1. UNCHANGED <<batches, disk, restarts>>
    BY <1>4 DEF HandlePreVote
  <2>2. PICK g : Send(n, {PreVoteRespMsg(n, m.from, m.term, g)})
    BY <1>4 DEF HandlePreVote
  <2>3. NoAcks(n)
    BY <2>2, NoAckTypes, AnswerIsNoAck
  <2> QED
    BY <2>1, <2>3, QuietEnqueues
<1>5. ASSUME NEW m \in msgs, HandleAppendAck(n, m)
      PROVE  QueueStep(n)
  <2> DEFINE held == MaxOf(matchIndex[n][m.from], m.match)
             ms == IF held < Len(log[n])
                   THEN AppendTo(n, m.from, log[n], held + 1, commitIndex'[n])
                   ELSE {}
  <2>1. UNCHANGED <<batches, disk, restarts>> /\ Send(n, ms)
    BY <1>5 DEF HandleAppendAck
  <2>2. \A o \in ms : o.type # "AppendEntriesResp"
    <3> HIDE DEF held
    <3> QED
      BY AppendIsNoAck
  <2> HIDE DEF ms
  <2>3. NoAcks(n)
    BY <2>1, <2>2, SendsNoAck
  <2> QED
    BY <2>1, <2>3, QuietEnqueues
<1>6. ASSUME NEW m \in msgs, HandleAppendNack(n, m)
      PROVE  QueueStep(n)
  <2>1. UNCHANGED <<batches, disk, restarts>>
    BY <1>6 DEF HandleAppendNack
  <2>2. NoAcks(n)
    <3>1. PICK next : Send(n, AppendTo(n, m.from, log[n], next, commitIndex[n]))
      BY <1>6 DEF HandleAppendNack
    <3>2. \A o \in AppendTo(n, m.from, log[n], next, commitIndex[n]) : o.type # "AppendEntriesResp"
      BY AppendIsNoAck
    <3> QED
      BY <3>1, <3>2, SendsNoAck
  <2> QED
    BY <2>1, <2>2, QuietEnqueues
<1> QED
  BY <1>1, <1>2, <1>3, <1>4, <1>5, <1>6

LEMMA ProposeQueues ==
    ASSUME TypeOK, NEW n \in Server, NEW c \in Cmd, Propose(n, c)
    PROVE  QueueStep(n)
<1>1. /\ UNCHANGED <<disk, restarts>>
      /\ Issue(n, batches[n], LogDurable(Len(log[n]) + 1, Len(log[n]) + 1, 0, None, 0),
               FALSE, Len(log[n]) + 1)
      /\ Send(n, AppendToAll(n, log'[n], nextIndex[n], commitIndex[n]))
  BY DEF Propose
<1>2. NoAcks(n)
  BY <1>1, AppendsAreNoAcks, SendsNoAck
<1> QED
  BY <1>1, <1>2, IdleOwesNothing, OwnQueueEnqueues

LEMMA ElectionQueues ==
    ASSUME TypeOK, NEW n \in Server, NEW m \in msgs,
           \/ HandleNewerTermResp(n, m) \/ HandleVoteRequest(n, m)
           \/ HandleVoteResp(n, m) \/ HandlePreVoteResp(n, m)
    PROVE  QueueStep(n)
<1>1. CASE HandleNewerTermResp(n, m)
  <2>1. /\ UNCHANGED <<disk, msgs, restarts>>
        /\ Issue(n, batches[n], Quiet, TRUE, Len(log[n]) + 1)
    BY <1>1 DEF HandleNewerTermResp
  <2>2. NoAcks(n)
    BY <2>1 DEF NoAcks
  <2> QED
    BY <2>1, <2>2, IdleOwesNothing, OwnQueueEnqueues
<1>2. CASE HandleVoteRequest(n, m)
  <2>1. /\ UNCHANGED <<disk, msgs, restarts>>
        /\ Issue(n, batches[n], Reply(VoteResp(n, m.from, m.term, GrantsVote(n, m))),
                 TRUE, Len(log[n]) + 1)
    BY <1>2 DEF HandleVoteRequest
  <2>2. NoAcks(n)
    BY <2>1 DEF NoAcks
  <2> QED
    BY <2>1, <2>2, IdleOwesNothing, OwnQueueEnqueues
<1>3. CASE HandleVoteResp(n, m)
  <2>1. UNCHANGED <<disk, restarts>>
    BY <1>3 DEF HandleVoteResp
  <2>2. CASE UNCHANGED <<batches, msgs>>
    <3>1. NoAcks(n)
      BY <2>2 DEF NoAcks
    <3> QED
      BY <2>1, <2>2, <3>1, QuietEnqueues
  <2>3. CASE BecomeLeader(n, batches[n]) /\ Send(n, LeaderGreeting(n))
    <3>1. Issue(n, batches[n], LogDurable(Len(log[n]) + 1, Len(log[n]) + 1, 0, None, 0),
                FALSE, Len(log[n]) + 1)
      BY <2>3 DEF BecomeLeader
    <3>2. NoAcks(n)
      BY <2>3, AppendsAreNoAcks, SendsNoAck DEF LeaderGreeting
    <3> QED
      BY <2>1, <3>1, <3>2, IdleOwesNothing, OwnQueueEnqueues
  <2> QED
    BY <1>3, <2>2, <2>3 DEF HandleVoteResp
<1>4. CASE HandlePreVoteResp(n, m)
  <2>1. CASE UNCHANGED <<batches, disk, msgs, restarts>>
    <3>1. NoAcks(n)
      BY <2>1 DEF NoAcks
    <3> QED
      BY <2>1, <3>1, QuietEnqueues
  <2> QED
    BY <1>4, <2>1, BecomeCandidateQueues DEF HandlePreVoteResp
<1> QED
  BY <1>1, <1>2, <1>3, <1>4

LEMMA RejectAppendQueues ==
    ASSUME TypeOK, NEW n \in Server, NEW m \in msgs, RejectAppend(n, m)
    PROVE  QueueStep(n)
<1> DEFINE answer == AppendResp(n, m.from, m.term, FALSE, durableIndex[n],
                                ConflictHint(log[n], m.prev))
<1>1. UNCHANGED <<disk, restarts>> /\ AnswerAfterTerm(n, m, Reply(answer), answer)
  BY DEF RejectAppend, FollowLeader
<1>2. ~answer.success
  BY NoAckTypes
<1> HIDE DEF answer
<1>3. CASE Issue(n, batches[n], Reply(answer), TRUE, Len(log[n]) + 1) /\ UNCHANGED msgs
  <2>1. NoAcks(n)
    BY <1>3 DEF NoAcks
  <2> QED
    BY <1>1, <1>3, <2>1, IdleOwesNothing, OwnQueueEnqueues
<1>4. CASE Send(n, {answer}) /\ UNCHANGED batches
  <2>1. NoAcks(n)
    BY <1>2, <1>4, SendsNoAck
  <2> QED
    BY <1>1, <1>4, <2>1, QuietEnqueues
<1> QED
  BY <1>1, <1>3, <1>4 DEF AnswerAfterTerm

LEMMA ConfirmAppendQueues ==
    ASSUME TypeOK, TypeOK', NEW n \in Server, NEW m \in msgs, ConfirmAppend(n, m)
    PROVE  QueueStep(n)
<1> DEFINE last == m.prev + Len(m.entries)
           act == LogDurable(durableIndex[n] + 1, durableIndex[n], last, m.from, m.term)
           answer == AppendResp(n, m.from, m.term, TRUE, MinOf(durableIndex[n], last), NO_INDEX)
<1>1. /\ FollowLeader(n, m) /\ UNCHANGED <<log, durableIndex>>
      /\ AnswerAfterTerm(n, m, act, answer)
      /\ Matches(log[n], m.prev, m.prevTerm) /\ FirstNew(log[n], m.prev, m.entries) > last
  BY DEF ConfirmAppend, durableVars
<1>2. /\ term'[n] = m.term /\ term[n] <= term'[n] /\ IsAppend(m) /\ m \in AppendMsgs
      /\ UNCHANGED <<disk, restarts>>
  BY <1>1, FollowLeaderMoves DEF FollowLeader
<1>3. last = Last(m) /\ last \in Nat /\ durableIndex[n] \in Nat
  BY <1>2, AppendTypes DEF Last, TypeOK
<1>4. act.kind = "LogDurable" /\ act.verified = last /\ act.replyTerm = m.term
  BY DEF LogDurable
<1>5. answer.term = m.term /\ answer.match = MinOf(durableIndex[n], last)
  BY DEF AppendResp
<1> HIDE DEF last, act, answer
<1>6. Reaches(log[n], m)
  <2>1. log[n] \in Seq(Entry)
    BY DEF TypeOK
  <2> QED
    BY <1>1, <1>2, <1>3, <2>1, ConfirmReaches
<1>7. \A i : i <= last => Vouched(n, m.term, i)
  BY <1>1, <1>2, <1>3, <1>6 DEF Vouched
<1>8. CASE Issue(n, batches[n], act, TRUE, Len(log[n]) + 1) /\ UNCHANGED msgs
  <2>1. \A t \in Nat : \A i \in Index : Owes(act, t, i) => Vouched(n, t, i)
    BY <1>4, <1>7 DEF Owes
  <2>2. NoAcks(n)
    BY <1>8 DEF NoAcks
  <2> QED
    BY <1>2, <1>8, <2>1, <2>2, OwnQueueEnqueues
<1>9. CASE Send(n, {answer}) /\ UNCHANGED batches
  <2>1. MinOf(durableIndex[n], last) \in Nat /\ MinOf(durableIndex[n], last) <= last
    BY <1>3, MinMaxType
  <2>2. \A i \in Index : i <= answer.match => i <= last
    BY <1>3, <1>5, <2>1 DEF Index
  <2>3. \A o \in msgs' \ msgs : o = answer
    BY <1>9 DEF Send
  <2> QED
    BY <1>2, <1>5, <1>7, <1>9, <2>2, <2>3, StillEnqueues
<1> QED
  BY <1>1, <1>8, <1>9 DEF AnswerAfterTerm

LEMMA ClampKeepsBatches ==
    ASSUME NEW q \in Seq(Batch), NEW cap \in Nat
    PROVE  /\ ClampAll(q, cap) \in Seq(Batch) /\ Len(ClampAll(q, cap)) = Len(q)
           /\ \A j \in 1..Len(q) : /\ SameBatch(ClampAll(q, cap)[j], q[j])
                                   /\ ClampAll(q, cap)[j].synced = q[j].synced
<1>1. PICK r \in Seq(Batch) : r = ClampAll(q, cap)
  BY ClampAllType
<1>2. r = [i \in 1..Len(q) |-> Clamp(q[i], cap)]
  BY <1>1 DEF ClampAll
<1>3. Len(r) = Len(q) /\ \A i \in 1..Len(q) : r[i] = Clamp(q[i], cap) /\ q[i] \in Batch
  BY <1>2
<1>4. ASSUME NEW b \in Batch
      PROVE  SameBatch(Clamp(b, cap), b) /\ Clamp(b, cap).synced = b.synced
  <2>1. CASE b.act.kind = "LogDurable"
    <3> DEFINE a == [b.act EXCEPT !.index = MinOf(b.act.index, cap)]
    <3>1. Clamp(b, cap) = [b EXCEPT !.act = a]
      BY <2>1 DEF Clamp
    <3>2. b.act \in [kind : {"LogDurable"}, from : Nat, index : Nat, verified : Nat,
                     replyTo : Server \cup {None}, replyTerm : Nat]
      BY <2>1, ActTypes DEF Batch
    <3>3. SameAct(a, b.act)
      BY <3>2 DEF SameAct
    <3> HIDE DEF a
    <3>4. LET c == [b EXCEPT !.act = a]
          IN c.act = a /\ c.hard = b.hard /\ c.log = b.log /\ c.from = b.from /\ c.synced = b.synced
      BY DEF Batch
    <3> QED
      BY <3>1, <3>3, <3>4 DEF SameBatch
  <2>2. CASE b.act.kind # "LogDurable"
    BY <2>2 DEF Clamp, SameBatch, SameAct
  <2> QED
    BY <2>1, <2>2
<1>5. \A j \in 1..Len(q) : SameBatch(r[j], q[j]) /\ r[j].synced = q[j].synced
  BY <1>3, <1>4
<1> QED
  BY <1>1, <1>3, <1>5

LEMMA AcceptAppendQueues ==
    ASSUME TypeOK, TypeOK', NEW n \in Server, NEW m \in msgs, AcceptAppend(n, m)
    PROVE  QueueStep(n)
<1> DEFINE start == FirstNew(log[n], m.prev, m.entries)
           last == m.prev + Len(m.entries)
           old == log[n]
           new == log'[n]
           prev == m.prev
           es == m.entries
           act == LogDurable(start, last, last, m.from, m.term)
           queue == ClampAll(batches[n], start - 1)
<1>1. /\ FollowLeader(n, m) /\ UNCHANGED msgs
      /\ Issue(n, queue, act, m.term > term[n], start)
  BY DEF AcceptAppend
<1>2. /\ term'[n] = m.term /\ term[n] <= term'[n] /\ IsAppend(m) /\ m \in AppendMsgs
      /\ UNCHANGED <<disk, restarts>>
  BY <1>1, FollowLeaderMoves DEF FollowLeader
<1>3. /\ prev \in Nat /\ es \in Seq(Entry) /\ old \in Seq(Entry) /\ last \in Nat
      /\ start \in (prev + 1)..last
      /\ DOMAIN new = 1..last
      /\ \A i \in start..last : i - prev \in DOMAIN es /\ new[i] = es[i - prev]
  BY AcceptedLog
<1>4. act.kind = "LogDurable" /\ act.verified = last /\ act.replyTerm = m.term
  BY DEF LogDurable
<1>5. /\ last = prev + Len(es) /\ Len(es) \in Nat /\ Last(m) = last
      /\ TailTerm(m) = (IF es = <<>> THEN m.prevTerm ELSE es[Len(es)].term)
  BY <1>3 DEF Last, TailTerm
<1>6. new \in Seq(Entry)
  BY DEF TypeOK
<1>7. start - 1 \in Nat
  <2> HIDE DEF start, last, prev
  <2> QED
    BY <1>3
<1>8. /\ queue \in Seq(Batch) /\ Len(queue) = Len(batches[n])
      /\ \A j \in Queued(n) : /\ SameBatch(queue[j], batches[n][j])
                              /\ queue[j].synced = batches[n][j].synced
  <2> HIDE DEF start
  <2>1. batches[n] \in Seq(Batch) /\ Queued(n) = 1..Len(batches[n])
    BY DEF TypeOK, Queued
  <2>2. PICK cap \in Nat : cap = start - 1
    BY <1>7
  <2>3. queue = ClampAll(batches[n], cap)
    BY <2>2
  <2> QED
    BY <2>1, <2>3, ClampKeepsBatches
<1> HIDE DEF start, last, old, new, prev, es, act, queue
<1>9. last \in start..last /\ last - prev = Len(es) /\ es # <<>> /\ last # 0
  <2>1. start \in Nat /\ prev + 1 <= start /\ start <= last
    BY <1>3
  <2>2. Len(es) # 0
    BY <1>3, <1>5, <2>1
  <2> QED
    BY <1>3, <1>5, <2>1, <2>2
<1>10. Reaches(new, m)
  <2>1. Len(new) = last
    BY <1>3, <1>6
  <2>2. new[last] = es[Len(es)] /\ last \in DOMAIN new
    BY <1>3, <1>9
  <2> QED
    BY <1>5, <1>9, <2>1, <2>2 DEF Reaches, TermAt, NO_INDEX
<1>11. \A i : i <= last => Vouched(n, m.term, i)
  BY <1>2, <1>5, <1>10 DEF Vouched, new
<1>12. \A t \in Nat : \A i \in Index : Owes(act, t, i) => Vouched(n, t, i)
  BY <1>4, <1>11 DEF Owes
<1>13. NoAcks(n)
  BY <1>1 DEF NoAcks
<1> QED
  BY <1>1, <1>2, <1>8, <1>12, <1>13, IssueEnqueues

LEMMA CampaignDurableQueues ==
    ASSUME TypeOK, NEW n \in Server, NEW k \in Queued(n), CampaignDurable(n, k)
    PROVE  QueueStep(n)
<1> DEFINE asks == {RequestVoteMsg(n, p) : p \in Peers(n)}
           standing == role[n] = "Candidate" /\ batches[n][k].act.term = term[n]
           queue == QueueWithout(batches[n], k)
           ms == IF standing THEN asks ELSE {}
<1>1. SyncDone(n, k)
  BY DEF CampaignDurable
<1>2. \/ BecomeLeader(n, queue) /\ Send(n, asks \cup LeaderGreeting(n))
      \/ Send(n, ms) /\ batches' = [batches EXCEPT ![n] = queue]
  BY DEF CampaignDurable
<1>3. \A m \in asks : m.type # "AppendEntriesResp"
  BY DEF RequestVoteMsg
<1>4. \A m \in LeaderGreeting(n) : m.type # "AppendEntriesResp"
  BY AppendsAreNoAcks DEF LeaderGreeting
<1> HIDE DEF asks
<1>5. CASE BecomeLeader(n, queue) /\ Send(n, asks \cup LeaderGreeting(n))
  <2>1. NoAcks(n)
    <3>1. \A m \in asks \cup LeaderGreeting(n) : m.type # "AppendEntriesResp"
      BY <1>3, <1>4
    <3> QED
      BY <1>5, <3>1, SendsNoAck
  <2>2. \E act, wh, from : Issue(n, queue, act, wh, from) /\ \A t, i : ~Owes(act, t, i)
    BY <1>5, IdleOwesNothing DEF BecomeLeader
  <2> QED
    BY <1>1, <2>1, <2>2, SyncLands DEF NoAcks
<1>6. CASE Send(n, ms) /\ batches' = [batches EXCEPT ![n] = queue]
  <2>1. \A m \in ms : m.type # "AppendEntriesResp"
    BY <1>3
  <2> HIDE DEF ms
  <2>2. NoAcks(n)
    BY <1>6, <2>1, SendsNoAck
  <2> QED
    BY <1>1, <1>6, <2>2, SyncLands DEF NoAcks
<1> QED
  BY <1>2, <1>5, <1>6

LEMMA ReplyDurableQueues ==
    ASSUME TypeOK, NEW n \in Server, Refuses(n), NEW k \in Queued(n), ReplyDurable(n, k)
    PROVE  QueueStep(n)
<1> DEFINE act == batches[n][k].act
           ms == IF act.kind = "Reply" THEN {act.msg} ELSE {}
<1>1. /\ SyncDone(n, k) /\ Send(n, ms)
      /\ batches' = [batches EXCEPT ![n] = QueueWithout(batches[n], k)]
  BY DEF ReplyDurable
<1>2. \A m \in ms : ~IsAck(m)
  BY DEF Refuses
<1> HIDE DEF ms
<1>3. NoAcks(n)
  BY <1>1, <1>2 DEF NoAcks, Send
<1> QED
  BY <1>1, <1>3, SyncLands DEF NoAcks

LEMMA LogIsDurableQueues ==
    ASSUME TypeOK, TypeOK', NEW n \in Server, NEW k \in Queued(n), LogIsDurable(n, k)
    PROVE  QueueStep(n)
<1> DEFINE act == batches[n][k].act
           index == MinOf(act.index, Len(log[n]))
           isNews == index > ClaimAfterTerm(n)
           ranges == ParkedAfterTerm(n) \cup {[from |-> act.from, to |-> index]}
           claim == IF isNews THEN Claim(n, ClaimAfterTerm(n), ranges) ELSE ClaimAfterTerm(n)
           answer == AppendResp(n, act.replyTo, act.replyTerm, TRUE,
                                MinOf(claim, act.verified), NO_INDEX)
           ms == IF act.replyTo = None THEN {} ELSE {answer}
<1>1. /\ Send(n, ms) /\ act.kind = "LogDurable" /\ SyncDone(n, k)
      /\ batches' = [batches EXCEPT ![n] = QueueWithout(batches[n], k)]
  BY SMTT(20) DEF LogIsDurable
<1>2. act \in Act
  BY HardTypes DEF HardTyped
<1>3. claim \in Nat
  <2> HIDE DEF isNews, ranges
  <2>1. ClaimAfterTerm(n) \in Nat /\ Claim(n, ClaimAfterTerm(n), ranges) \in Nat
    BY ClaimGrows
  <2> QED
    BY <2>1
<1> HIDE DEF claim
<1>4. answer.term = act.replyTerm /\ answer.match = MinOf(claim, act.verified)
  BY DEF AppendResp
<1> HIDE DEF answer
<1>5. \A m \in ms : \A i \in Index : i <= m.match => Owes(act, m.term, i)
  <2> SUFFICES ASSUME act.replyTo # None, NEW i \in Index, i <= answer.match
               PROVE  Owes(act, answer.term, i)
    OBVIOUS
  <2>1. act.verified \in Nat
    <3> HIDE DEF act
    <3> QED
      BY <1>1, <1>2, ActTypes
  <2>2. answer.match \in Nat /\ answer.match <= act.verified
    <3> HIDE DEF act
    <3> QED
      BY <1>3, <1>4, <2>1, MinMaxType
  <2>3. i <= act.verified
    <3> HIDE DEF act
    <3> QED
      BY <2>1, <2>2 DEF Index
  <2> QED
    BY <1>1, <1>4, <2>3 DEF Owes
<1> HIDE DEF ms
<1>6. \A m \in msgs' \ msgs : m \in ms
  BY <1>1 DEF Send
<1> QED
  BY <1>1, <1>5, <1>6, SyncLands

LEMMA ActQueues ==
    ASSUME TypeOK, TypeOK', NEW n \in Server, Refuses(n), Acts(n)
    PROVE  QueueStep(n)
<1>1. Restart(n) => QueueStep(n)
  BY DEF QueueStep
<1> QED
  BY <1>1, QuietQueues, ElectionTimeoutQueues, ProposeQueues,
     CampaignDurableQueues, ReplyDurableQueues, LogIsDurableQueues,
     ElectionQueues, RejectAppendQueues, AcceptAppendQueues, ConfirmAppendQueues
  DEF Acts

LEMMA EveryTurnQueues ==
    ASSUME TypeOK, VoteInv, ClaimInv, MatchInv, LineInv,
           TypeOK', VoteInv', ClaimInv', MatchInv', LineInv', [Next]_vars
    PROVE  \E n \in Server : Turn(n) /\ QueueStep(n)
<1>1. CASE Next
  <2>1. PICK n \in Server : Acts(n)
    BY <1>1, NextActs
  <2>2. Step(n) /\ ClaimStep(n) /\ LogStep(n) /\ LineStep(n) /\ Commits(n) /\ QueueStep(n)
    BY <2>1, ActMatches, ActLines, ActCommits, ActQueues DEF LineInv
  <2> QED
    BY <2>2 DEF Turn
<1>2. CASE UNCHANGED vars
  <2>1. PICK n \in Server : Turn(n)
    BY EveryTurn
  <2>2. QueueStep(n)
    BY <1>2, QuietEnqueues DEF NoAcks, vars
  <2> QED
    BY <2>1, <2>2
<1> QED
  BY <1>1, <1>2

LEMMA AcksAtStart ==
    ASSUME Init
    PROVE  AckInv
BY DEF Init, AckInv

-----------------------------------------------------------------------------
(* The inductive invariant, for every cluster and every configuration.     *)
(* Whatever `on_durable` has acknowledged to the leader of a term, or      *)
(* will once a batch in flight is durable, is in that leader's log, and    *)
(* in the follower's memory, on its disk and in every image in flight that *)
(* is of the term.                                                         *)
THEOREM AcksAreKeptForATerm == Spec => []AckInv
<1>1. Init => AckInv
  BY AcksAtStart
<1>2. /\ TypeOK /\ VoteInv /\ ClaimInv /\ MatchInv /\ LineInv
      /\ TypeOK' /\ VoteInv' /\ ClaimInv' /\ MatchInv' /\ LineInv'
      /\ AckInv /\ [Next]_vars
      => AckInv'
  BY EveryTurnQueues, AcksAreKept
<1> QED
  BY <1>1, <1>2, TypeCorrect, VotesAreKept, ClaimsAreBacked, MatchesAreKept, LinesAreKept,
     PTL DEF Spec

LEMMA BackedAcks ==
    ASSUME TypeOK, ClaimInv, AckInv
    PROVE  AcksAreBacked
<1> SUFFICES ASSUME NEW m \in msgs, m.type = "AppendEntriesResp", m.success,
                    term[m.from] = m.term, role[m.to] = "Leader", term[m.to] = m.term,
                    NEW i \in 1..m.match
             PROVE  /\ i \in DOMAIN disk[m.from].log /\ i \in DOMAIN log[m.to]
                    /\ disk[m.from].log[i] = log[m.to][i]
  BY DEF AcksAreBacked
<1>1. m \in AppendRespMsgs /\ m.from \in Server /\ m.to \in Server
  BY MessageTypes DEF TypeOK
<1>2. m.match \in Nat
  BY <1>1 DEF AppendRespMsgs
<1>3. i \in Index /\ i <= m.match
  BY <1>2 DEF Index
<1>4. Ack(m.from, term[m.to], i)
  BY <1>3 DEF Ack, IsAck
<1>5. PICK e \in Entry : Has(log[m.to], i, e) /\ Backed(m.from, term[m.to], i, e)
  BY <1>1, <1>3, <1>4 DEF AckInv, AckHolds
<1>6. Has(log[m.from], i, e) /\ i <= durableIndex[m.from]
  BY <1>5 DEF Backed
<1>7. Written(m.from, i)
  BY <1>1, <1>3, <1>6 DEF ClaimInv, Claimed
<1> QED
  BY <1>5, <1>6, <1>7 DEF Written, Agree, Has

(* An acknowledgement is worth what the leader takes it for: while a       *)
(* follower is in the term in which it answered, its disk holds every      *)
(* entry of its leader's log that the answer covered, whatever was lost,   *)
(* repeated or replaced since (`on_append_entries`, `on_durable`).         *)
THEOREM AcksBacked == Spec => []AcksAreBacked
<1>1. TypeOK /\ ClaimInv /\ AckInv => AcksAreBacked
  BY BackedAcks
<1> QED
  BY <1>1, TypeCorrect, ClaimsAreBacked, AcksAreKeptForATerm, PTL
=============================================================================
