----------------------------- MODULE RaftElection -----------------------------
(***************************************************************************)
(* Raft keeps its types (Spec => []TypeOK), for every cluster, every bound *)
(* and every configuration; the lemmas about the operators that the model  *)
(* is built from come first.                                               *)
(*                                                                         *)
(* What a node has said it cannot take back: the terms and votes it has    *)
(* announced are on its disk (TermsAreDurable, VotesAreDurable), and no    *)
(* term has two leaders (ElectionSafety), for every cluster, every bound   *)
(* and every configuration, through any number of crashes.                 *)
(*                                                                         *)
(* The argument: the hard states of a node, from the platter through its   *)
(* queue to its memory, are a chain, so every crash leaves the disk at or  *)
(* above where it was (Chain); a node that stands for a term has no image  *)
(* of that term with another vote (Standing); so what it says is at or     *)
(* below its disk, and whatever it says later in the same term agrees      *)
(* (Spoken).  Leaders of one term have a voter in common, who agrees with  *)
(* itself.                                                                 *)
(*                                                                         *)
(* First the invariant, VoteInv, with what a step may do for it to hold,   *)
(* Step; then every action of Raft is such a step.  Last, that under       *)
(* pre-vote a candidate was called for by a majority                       *)
(* (ElectionsAreWarranted).                                                *)
(***************************************************************************)
EXTENDS Raft, FiniteSetTheorems, WellFoundedInduction, TLAPS

(* The library's well-foundedness of < on the naturals, as a set of pairs. *)
LEMMA LessWellFounded ==
    IsWellFoundedOn({ss \in Nat \X Nat : ss[1] < ss[2]}, Nat)
<1>1. OpToRel(<, Nat) = {ss \in Nat \X Nat : ss[1] < ss[2]}
  BY Zenon DEF OpToRel
<1> QED
  BY <1>1, NatLessThanWellFounded, Zenon

(* A non-empty set of naturals has a least element. *)
LEMMA MinNat ==
    ASSUME NEW S \in SUBSET Nat, S # {}
    PROVE  Min(S) \in S /\ \A y \in S : Min(S) <= y
<1> DEFINE R == {ss \in Nat \X Nat : ss[1] < ss[2]}
<1>1. IsWellFoundedOn(R, Nat)
  BY LessWellFounded
<1>2. PICK x \in S : \A y \in S : ~(<<y, x>> \in R)
  <2> HIDE DEF R
  <2> QED
    BY <1>1, WFMin, Zenon
<1>3. ASSUME NEW y \in S, y < x
      PROVE  FALSE
  <2>1. <<y, x>> \in Nat \X Nat /\ <<y, x>>[1] = y /\ <<y, x>>[2] = x
    OBVIOUS
  <2> QED
    BY <1>2, <1>3, <2>1
<1>4. \A y \in S : x <= y
  BY <1>3
<1> QED
  BY <1>4 DEF Min

(* A bounded, non-empty set of naturals has a greatest element. *)
LEMMA MaxNat ==
    ASSUME NEW S \in SUBSET Nat, S # {}, NEW b \in Nat, \A x \in S : x <= b
    PROVE  Max(S) \in S /\ \A y \in S : y <= Max(S)
<1> DEFINE T == {b - x : x \in S}
<1>1. T \in SUBSET Nat /\ T # {}
  <2>1. \A x \in S : b - x \in Nat
    OBVIOUS
  <2>2. T \in SUBSET Nat
    BY <2>1
  <2>3. PICK x \in S : TRUE
    OBVIOUS
  <2>4. b - x \in T
    OBVIOUS
  <2> QED
    BY <2>2, <2>4
<1>2. Min(T) \in T /\ \A y \in T : Min(T) <= y
  <2> HIDE DEF T
  <2> QED
    BY <1>1, MinNat
<1>3. PICK x \in S : Min(T) = b - x
  BY <1>2
<1>4. ASSUME NEW y \in S
      PROVE  x >= y
  <2>1. b - y \in T
    OBVIOUS
  <2>2. b - x <= b - y
    <3> HIDE DEF T
    <3> QED
      BY <1>2, <1>3, <2>1
  <2> QED
    BY <2>2
<1> QED
  BY <1>4 DEF Max

(* So has a finite, non-empty one.  A counterexample with the fewest       *)
(* elements would lose its first by losing any one.                        *)
LEMMA MaxFinite ==
    ASSUME NEW H \in SUBSET Nat, IsFiniteSet(H), H # {}
    PROVE  Max(H) \in H /\ \A y \in H : y <= Max(H)
<1> DEFINE HasMax(A) == \E x \in A : \A y \in A : x >= y
           Bad == {A \in SUBSET H : A # {} /\ ~HasMax(A)}
           C == {Cardinality(A) : A \in Bad}
<1>1. ASSUME NEW A \in SUBSET H PROVE IsFiniteSet(A) /\ Cardinality(A) \in Nat
  BY FS_Subset, FS_CardinalityType
<1>2. ASSUME Bad # {} PROVE FALSE
  <2>1. C \in SUBSET Nat /\ C # {}
    BY <1>1, <1>2
  <2>2. Min(C) \in C /\ \A y \in C : Min(C) <= y
    <3> HIDE DEF C
    <3> QED
      BY <2>1, MinNat
  <2>3. PICK A \in Bad : Cardinality(A) = Min(C)
    BY <2>2
  <2>4. PICK x \in A : TRUE
    OBVIOUS
  <2> DEFINE B == A \ {x}
  <2>5. B \in SUBSET H /\ Cardinality(B) = Cardinality(A) - 1
    BY <1>1, FS_RemoveElement
  <2>6. B \notin Bad
    <3>1. ASSUME B \in Bad PROVE FALSE
      <4>1. Cardinality(B) \in C
        BY <3>1
      <4>2. Cardinality(A) \in Nat
        BY <1>1
      <4> QED
        <5> HIDE DEF C, Bad, B
        <5> QED
          BY <2>2, <2>3, <2>5, <4>1, <4>2
    <3> QED
      BY <3>1
  <2>7. CASE B = {}
    <3>1. A = {x} /\ x >= x
      BY <2>7
    <3>2. HasMax(A)
      BY <3>1
    <3> QED
      BY <3>2
  <2>8. CASE B # {}
    <3>1. PICK m \in B : \A y \in B : m >= y
      BY <2>5, <2>6, <2>8
    <3>2. HasMax(A)
      <4>1. CASE m >= x
        BY <4>1, <3>1
      <4>2. CASE ~(m >= x)
        BY <4>2, <3>1
      <4> QED
        BY <4>1, <4>2
    <3> QED
      BY <3>2
  <2> QED
    BY <2>7, <2>8
<1>3. HasMax(H)
  BY <1>2
<1> QED
  BY <1>3 DEF Max

-----------------------------------------------------------------------------
(* The scans of RaftLog and DurableClaim. *)

LEMMA TermAtType ==
    ASSUME NEW lg \in Seq(Entry), NEW i \in Int
    PROVE  /\ TermAt(lg, i) \in Nat \cup {NoTerm}
           /\ TermAt(lg, i) # NoTerm => i \in 0..Len(lg) /\ TermAt(lg, i) \in Nat
           /\ i \in 0..Len(lg) => TermAt(lg, i) \in Nat
           /\ NoTerm \notin Nat
<1>1. NoTerm \notin Nat
  BY DEF NoTerm
<1>2. CASE i = 0
  BY <1>1, <1>2 DEF TermAt, NO_INDEX
<1>3. CASE i # 0 /\ i \in 1..Len(lg)
  <2>1. lg[i] \in Entry
    BY <1>3
  <2>2. lg[i].term \in Nat
    BY <2>1 DEF Entry
  <2>3. TermAt(lg, i) = lg[i].term
    BY <1>3 DEF TermAt, NO_INDEX
  <2> QED
    BY <1>1, <1>3, <2>2, <2>3
<1>4. CASE i # 0 /\ i \notin 1..Len(lg)
  <2>1. TermAt(lg, i) = NoTerm
    BY <1>4 DEF TermAt, NO_INDEX
  <2> QED
    BY <1>1, <1>4, <2>1
<1> QED
  BY <1>2, <1>3, <1>4

LEMMA LastTermType ==
    ASSUME NEW lg \in Seq(Entry)
    PROVE  LastTerm(lg) \in Nat
BY TermAtType DEF LastTerm

LEMMA SliceFromType ==
    ASSUME NEW lg \in Seq(Entry), NEW i \in Nat \ {0}, NEW max \in Nat
    PROVE  SliceFrom(lg, i, max) \in Seq(Entry)
BY DEF SliceFrom

LEMMA LastIndexType ==
    ASSUME NEW lg \in Seq(Entry), NEW t \in Nat
    PROVE  LastIndexWithTermAtMost(lg, t) \in 0..Len(lg)
<1> DEFINE S == {0} \cup {i \in DOMAIN lg : \A j \in 1..i : lg[j].term <= t}
<1>1. S \in SUBSET Nat /\ S # {} /\ \A i \in S : i <= Len(lg)
  OBVIOUS
<1>2. Len(lg) \in Nat
  OBVIOUS
<1>3. Max(S) \in S
  <2> HIDE DEF S
  <2> QED
    BY <1>1, <1>2, MaxNat
<1>4. Max(S) \in 0..Len(lg)
  BY <1>3
<1> QED
  BY <1>4 DEF LastIndexWithTermAtMost

LEMMA AdvanceDurableType ==
    ASSUME NEW at \in Nat, NEW ranges, NEW cap \in Nat
    PROVE  /\ AdvanceDurable(at, ranges, cap) \in Nat
           /\ AdvanceDurable(at, ranges, cap) >= at
<1> DEFINE S == {at} \cup {d \in (at + 1)..cap :
              \A i \in (at + 1)..d : \E r \in ranges : r.from <= i /\ i <= r.to}
<1>1. /\ S \in SUBSET Nat /\ S # {} /\ at \in S /\ \A i \in S : i <= at + cap
      /\ at + cap \in Nat
  OBVIOUS
<1>2. Max(S) \in S /\ at <= Max(S)
  <2> HIDE DEF S
  <2> QED
    BY <1>1, MaxNat
<1>3. Max(S) \in Nat /\ Max(S) >= at
  <2> HIDE DEF S
  <2> QED
    BY <1>1, <1>2
<1> QED
  BY <1>3 DEF AdvanceDurable

LEMMA FirstNewType ==
    ASSUME NEW lg \in Seq(Entry), NEW prev \in Nat, NEW es \in Seq(Entry)
    PROVE  FirstNew(lg, prev, es) \in (prev + 1)..(prev + Len(es) + 1)
<1> DEFINE S == {prev + Len(es) + 1} \cup
                {i \in (prev + 1)..(prev + Len(es)) : TermAt(lg, i) # es[i - prev].term}
<1>1. S \in SUBSET Nat /\ S # {} /\ S \subseteq (prev + 1)..(prev + Len(es) + 1)
  OBVIOUS
<1>2. Min(S) \in S
  <2> HIDE DEF S
  <2> QED
    BY <1>1, MinNat
<1> HIDE DEF S
<1>3. Min(S) \in (prev + 1)..(prev + Len(es) + 1)
  BY <1>1, <1>2
<1> QED
  BY <1>3 DEF FirstNew, S

LEMMA ConflictHintType ==
    ASSUME NEW lg \in Seq(Entry), NEW prev \in Nat
    PROVE  ConflictHint(lg, prev) \in Nat
<1> DEFINE S == {prev} \cup {i \in 1..prev : \A j \in i..prev : lg[j].term = lg[prev].term}
<1>1. S \in SUBSET Nat /\ S # {}
  OBVIOUS
<1>2. Min(S) \in Nat
  <2> HIDE DEF S
  <2> QED
    BY <1>1, MinNat
<1> QED
  BY <1>2 DEF ConflictHint

-----------------------------------------------------------------------------
(* Quorums. *)

LEMMA ServerCardinality ==
    Cardinality(Server) \in Nat \ {0}
BY ServerAssumption, FS_CardinalityType, FS_EmptySet

(* Two quorums have a member in common. *)
LEMMA QuorumsIntersect ==
    ASSUME NEW P \in SUBSET Server, NEW Q \in SUBSET Server, IsQuorum(P), IsQuorum(Q)
    PROVE  P \cap Q # {}
<1>1. Cardinality(P) \in Nat /\ Cardinality(Q) \in Nat
  BY ServerAssumption, FS_Subset, FS_CardinalityType
<1>2. Cardinality(P) + Cardinality(Q) > Cardinality(Server)
  BY <1>1, ServerCardinality DEF IsQuorum
<1> QED
  BY <1>2, ServerAssumption, FS_MajoritiesIntersect

(* A set that includes a quorum is one. *)
LEMMA QuorumGrows ==
    ASSUME NEW P \in SUBSET Server, NEW Q \in SUBSET Server, P \subseteq Q, IsQuorum(P)
    PROVE  IsQuorum(Q)
<1>1. IsFiniteSet(P) /\ IsFiniteSet(Q)
  BY ServerAssumption, FS_Subset
<1>2. Cardinality(P) <= Cardinality(Q) /\ Cardinality(P) \in Nat /\ Cardinality(Q) \in Nat
  BY <1>1, FS_Subset, FS_CardinalityType
<1> QED
  BY <1>2, ServerCardinality DEF IsQuorum

LEMMA QuorumIsSome ==
    ~IsQuorum({})
<1>1. Cardinality({}) = 0
  BY FS_EmptySet
<1> QED
  BY <1>1, ServerCardinality DEF IsQuorum

(* The index a quorum holds is a natural number, and a quorum holds it. *)
LEMMA QuorumIndexType ==
    ASSUME NEW n \in Server, NEW match \in [Server -> Nat], NEW d \in Nat
    PROVE  /\ QuorumIndex(n, match, d) \in Nat
           /\ IsQuorum({s \in Server : (IF s = n THEN d ELSE match[s]) >= QuorumIndex(n, match, d)})
<1> DEFINE held(s) == IF s = n THEN d ELSE match[s]
           H == {held(s) : s \in Server}
           S == {i \in H : IsQuorum({s \in Server : held(s) >= i})}
<1>1. H \in SUBSET Nat /\ H # {}
  BY ServerAssumption
<1>2. IsFiniteSet(H)
  <2> DEFINE f == [s \in Server |-> held(s)]
  <2>1. f \in Surjection(Server, H)
    BY DEF Surjection
  <2> QED
    BY <2>1, ServerAssumption, FS_Surjection DEF ExistsSurjection
<1>3. IsFiniteSet(S)
  <2> HIDE DEF H, held
  <2> QED
    BY <1>2, FS_Subset
<1>4. Min(H) \in H /\ \A i \in H : Min(H) <= i
  <2> HIDE DEF H
  <2> QED
    BY <1>1, MinNat
<1>5. {s \in Server : held(s) >= Min(H)} = Server
  <2>1. ASSUME NEW s \in Server PROVE held(s) \in H /\ held(s) \in Nat
    OBVIOUS
  <2>2. ASSUME NEW s \in Server PROVE held(s) >= Min(H)
    <3> HIDE DEF H, held
    <3> QED
      BY <1>1, <1>4, <2>1
  <2> HIDE DEF H, held
  <2> QED
    BY <2>2
<1>6. IsQuorum(Server)
  BY ServerCardinality DEF IsQuorum
<1>7. S # {} /\ S \in SUBSET Nat
  <2> HIDE DEF H, held
  <2> QED
    BY <1>1, <1>4, <1>5, <1>6
<1>8. Max(S) \in Nat /\ Max(S) \in S
  <2> HIDE DEF S
  <2> QED
    BY <1>3, <1>7, MaxFinite
<1>9. QuorumIndex(n, match, d) = Max(S)
  BY DEF QuorumIndex
<1>10. IsQuorum({s \in Server : held(s) >= Max(S)})
  <2> DEFINE x == Max(S)
  <2>1. x \in S
    BY <1>8
  <2> HIDE DEF x, held, H
  <2>2. IsQuorum({s \in Server : held(s) >= x})
    BY <2>1
  <2> QED
    BY <2>2 DEF x
<1> QED
  BY <1>8, <1>9, <1>10

-----------------------------------------------------------------------------
(* Types. *)

LEMMA MinMaxType ==
    ASSUME NEW a \in Nat, NEW b \in Nat
    PROVE  /\ MinOf(a, b) \in Nat /\ MinOf(a, b) <= a /\ MinOf(a, b) <= b
           /\ MaxOf(a, b) \in Nat /\ MaxOf(a, b) >= a /\ MaxOf(a, b) >= b
BY DEF MinOf, MaxOf

LEMMA MessageTypes ==
    ASSUME NEW m \in Message
    PROVE  /\ m.from \in Server /\ m.to \in Server /\ m.term \in Nat
           /\ m.type \in {"RequestVote", "PreVote"} => m \in VoteMsgs
           /\ m.type = "RequestVoteResp" => m \in VoteRespMsgs
           /\ m.type = "PreVoteResp" => m \in PreVoteRespMsgs
           /\ m.type = "AppendEntries" => m \in AppendMsgs
           /\ m.type = "AppendEntriesResp" => m \in AppendRespMsgs
BY DEF Message, VoteMsgs, VoteRespMsgs, PreVoteRespMsgs, AppendMsgs, AppendRespMsgs

LEMMA ActTypes ==
    ASSUME NEW a \in Act
    PROVE  /\ a.kind = "Campaign" => a.term \in Nat
           /\ a.kind = "Reply" => a.msg \in VoteRespMsgs \cup AppendRespMsgs
           /\ a.kind = "LogDurable" =>
                a \in [kind : {"LogDurable"}, from : Nat, index : Nat, verified : Nat,
                       replyTo : Server \cup {None}, replyTerm : Nat]
BY DEF Act

LEMMA NewActs ==
    /\ \A t \in Nat : Campaign(t) \in Act
    /\ \A m \in VoteRespMsgs \cup AppendRespMsgs : Reply(m) \in Act
    /\ Quiet \in Act
    /\ \A f, i, v, t \in Nat, p \in Server \cup {None} : LogDurable(f, i, v, p, t) \in Act
BY DEF Act, Campaign, Reply, Quiet, LogDurable

LEMMA SendType ==
    ASSUME NEW n, NEW ms \in SUBSET Message, msgs \in SUBSET Message, Send(n, ms)
    PROVE  msgs' \in SUBSET Message
BY DEF Send

LEMMA IssueType ==
    ASSUME NEW n \in Server, NEW queue \in Seq(Batch), NEW act \in Act,
           NEW hard \in BOOLEAN, NEW from \in Nat \ {0}, Issue(n, queue, act, hard, from),
           batches \in [Server -> Seq(Batch)],
           term'[n] \in Nat, votedFor'[n] \in Server \cup {None}, log'[n] \in Seq(Entry)
    PROVE  batches' \in [Server -> Seq(Batch)]
<1>1. NewBatch(n, act, hard, from) \in Batch
  BY DEF NewBatch, Hard, Batch, HardState
<1> QED
  BY <1>1 DEF Issue

LEMMA ClampAllType ==
    ASSUME NEW queue \in Seq(Batch), NEW cap \in Nat
    PROVE  ClampAll(queue, cap) \in Seq(Batch)
<1>1. ASSUME NEW b \in Batch PROVE Clamp(b, cap) \in Batch
  <2>1. CASE b.act.kind = "LogDurable"
    <3>1. b.act \in Act
      BY DEF Batch
    <3>2. b.act \in [kind : {"LogDurable"}, from : Nat, index : Nat, verified : Nat,
                     replyTo : Server \cup {None}, replyTerm : Nat]
      BY <3>1, <2>1, ActTypes
    <3>3. [b.act EXCEPT !.index = MinOf(b.act.index, cap)] \in Act
      BY <3>2, MinMaxType DEF Act
    <3>4. ASSUME NEW a \in Act PROVE [b EXCEPT !.act = a] \in Batch
      BY DEF Batch
    <3>5. Clamp(b, cap) = [b EXCEPT !.act = [b.act EXCEPT !.index = MinOf(b.act.index, cap)]]
      BY <2>1 DEF Clamp
    <3> QED
      BY <3>3, <3>4, <3>5
  <2> QED
    BY <2>1 DEF Clamp
<1> QED
  BY <1>1 DEF ClampAll

LEMMA QueueWithoutType ==
    ASSUME NEW queue \in Seq(Batch), NEW k \in 1..Len(queue)
    PROVE  QueueWithout(queue, k) \in Seq(Batch)
<1>1. ASSUME NEW b \in Batch PROVE [b EXCEPT !.synced = TRUE] \in Batch
  BY DEF Batch
<1>2. \A i \in 1..(Len(queue) - 1) : queue[i] \in Batch /\ queue[i + 1] \in Batch
  OBVIOUS
<1>3. \A i \in 1..(Len(queue) - 1) :
        (IF i < k THEN [queue[i] EXCEPT !.synced = TRUE] ELSE queue[i + 1]) \in Batch
  BY <1>1, <1>2
<1>4. Len(queue) - 1 \in Nat
  OBVIOUS
<1> QED
  BY <1>3, <1>4 DEF QueueWithout

LEMMA NewMessages ==
    ASSUME TypeOK, NEW n \in Server, NEW p \in Server
    PROVE  /\ RequestVoteMsg(n, p) \in Message
           /\ PreVoteMsg(n, p) \in Message
           /\ \A t \in Nat, g \in BOOLEAN : VoteResp(n, p, t, g) \in VoteRespMsgs
           /\ \A t \in Nat, g \in BOOLEAN : PreVoteRespMsg(n, p, t, g) \in Message
           /\ \A t, i, h \in Nat, g \in BOOLEAN : AppendResp(n, p, t, g, i, h) \in AppendRespMsgs
           /\ VoteRespMsgs \subseteq Message /\ AppendRespMsgs \subseteq Message
<1>1. LastTerm(log[n]) \in Nat /\ Len(log[n]) \in Nat /\ term[n] \in Nat
  BY LastTermType DEF TypeOK
<1>2. RequestVoteMsg(n, p) \in VoteMsgs /\ PreVoteMsg(n, p) \in VoteMsgs
  BY <1>1 DEF RequestVoteMsg, PreVoteMsg, VoteMsgs
<1>3. \A t \in Nat, g \in BOOLEAN : VoteResp(n, p, t, g) \in VoteRespMsgs
  BY DEF VoteResp, VoteRespMsgs
<1>4. \A t \in Nat, g \in BOOLEAN : PreVoteRespMsg(n, p, t, g) \in PreVoteRespMsgs
  BY <1>1 DEF PreVoteRespMsg, PreVoteRespMsgs
<1>5. \A t, i, h \in Nat, g \in BOOLEAN : AppendResp(n, p, t, g, i, h) \in AppendRespMsgs
  BY DEF AppendResp, AppendRespMsgs
<1> QED
  BY <1>2, <1>3, <1>4, <1>5 DEF Message

LEMMA AppendToType ==
    ASSUME TypeOK, NEW n \in Server, NEW p \in Server, NEW lg \in Seq(Entry),
           NEW next \in Nat \ {0}, NEW commit \in Nat
    PROVE  AppendTo(n, p, lg, next, commit) \subseteq Message
<1>1. CASE TermAt(lg, next - 1) = NoTerm
  BY <1>1 DEF AppendTo
<1>2. CASE TermAt(lg, next - 1) # NoTerm
  <2>1. TermAt(lg, next - 1) \in Nat
    BY <1>2, TermAtType
  <2>2. SliceFrom(lg, next, MaxBatch) \in Seq(Entry)
    BY ConfigAssumption, SliceFromType
  <2>3. term[n] \in Nat
    BY DEF TypeOK
  <2>4. AppendTo(n, p, lg, next, commit) \subseteq AppendMsgs
    BY <1>2, <2>1, <2>2, <2>3 DEF AppendTo, AppendMsgs
  <2> QED
    BY <2>4 DEF Message
<1> QED
  BY <1>1, <1>2

LEMMA AppendToAllType ==
    ASSUME TypeOK, NEW n \in Server, NEW lg \in Seq(Entry),
           NEW next \in [Server -> Nat \ {0}], NEW commit \in Nat
    PROVE  AppendToAll(n, lg, next, commit) \subseteq Message
<1>1. \A p \in Peers(n) : AppendTo(n, p, lg, next[p], commit) \subseteq Message
  BY AppendToType DEF Peers
<1> QED
  BY <1>1 DEF AppendToAll

LEMMA RecoveredType ==
    ASSUME NEW image \in Image
    PROVE  Recovered(image) \in Image
<1>1. image.log \in Seq(Entry) /\ image.hard \in HardState /\ image.hard.term \in Nat
  BY DEF Image, HardState
<1> DEFINE last == LastIndexWithTermAtMost(image.log, image.hard.term)
<1>2. last \in 0..Len(image.log)
  BY <1>1, LastIndexType
<1> HIDE DEF last
<1>3. SubSeq(image.log, 1, last) \in Seq(Entry)
  BY <1>1, <1>2
<1>4. ASSUME NEW lg \in Seq(Entry) PROVE [image EXCEPT !.log = lg] \in Image
  BY DEF Image
<1> QED
  BY <1>3, <1>4 DEF Recovered, last

LEMMA RemainsType ==
    ASSUME TypeOK, NEW n \in Server
    PROVE  Remains(n) \subseteq Image
<1> DEFINE queue == batches[n]
           before(k) == IF k = 1 \/ queue[k - 1].synced THEN disk[n].log
                        ELSE queue[k - 1].log
           left(k) == LET b == queue[k] IN
                {[hard |-> b.hard, log |-> before(k)]} \cup
                {[hard |-> b.hard, log |-> SubSeq(b.log, 1, i)] :
                    i \in (b.from - 1)..Len(b.log)}
<1>1. queue \in Seq(Batch) /\ disk[n] \in Image
  BY DEF TypeOK
<1>2. ASSUME NEW k \in 1..Len(queue) PROVE left(k) \subseteq Image
  <2>1. queue[k] \in Batch /\ (k # 1 => queue[k - 1] \in Batch)
    BY <1>1
  <2>2. before(k) \in Seq(Entry)
    BY <1>1, <2>1 DEF Image, Batch
  <2> DEFINE b == queue[k]
  <2>3. b.hard \in HardState /\ b.log \in Seq(Entry) /\ b.from \in Nat \ {0}
    BY <2>1 DEF Batch
  <2> HIDE DEF b
  <2>4. \A i \in (b.from - 1)..Len(b.log) : SubSeq(b.log, 1, i) \in Seq(Entry)
    BY <2>3
  <2> HIDE DEF before
  <2>5. /\ [hard |-> b.hard, log |-> before(k)] \in Image
        /\ \A i \in (b.from - 1)..Len(b.log) :
             [hard |-> b.hard, log |-> SubSeq(b.log, 1, i)] \in Image
    BY <2>2, <2>3, <2>4 DEF Image
  <2> QED
    BY <2>5 DEF b
<1>3. Remains(n) = {disk[n]} \cup
        UNION {left(k) : k \in {j \in 1..Len(queue) : ~queue[j].synced}}
  BY DEF Remains
<1> HIDE DEF left, queue
<1> QED
  BY <1>1, <1>2, <1>3

-----------------------------------------------------------------------------
(* What the steps that several handlers share leave behind.                *)

LEMMA RestNothing ==
    ASSUME TypeOK, UNCHANGED vars
    PROVE  TypeOK'
BY DEF TypeOK, vars, electionVars, logVars, leaderVars, durableVars

LEMMA InitTypes ==
    ASSUME Init
    PROVE  TypeOK
<1>1. disk \in [Server -> Image]
  <2>1. PICK d \in StartDisks : disk = [n \in Server |-> Recovered(d[n])]
    BY DEF Init
  <2>2. d \in [Server -> Image]
    BY StartAssumption
  <2>3. ASSUME NEW n \in Server PROVE Recovered(d[n]) \in Image
    BY <2>2, RecoveredType
  <2> QED
    BY <2>1, <2>3
<1>2. \A n \in Server : /\ disk[n].hard \in HardState /\ disk[n].log \in Seq(Entry)
                        /\ disk[n].hard.term \in Nat
                        /\ disk[n].hard.vote \in Server \cup {None}
                        /\ Len(disk[n].log) \in Nat
  BY <1>1 DEF Image, HardState
<1>3. /\ term \in [Server -> Nat] /\ votedFor \in [Server -> Server \cup {None}]
      /\ log \in [Server -> Seq(Entry)] /\ durableIndex \in [Server -> Nat]
      /\ durableTerm \in [Server -> Nat] /\ durableHard \in [Server -> HardState]
  BY <1>2 DEF Init
<1> QED
  BY <1>1, <1>3 DEF Init, TypeOK

LEMMA RestartTypes ==
    ASSUME TypeOK, NEW n \in Server, Restart(n)
    PROVE  TypeOK'
<1>1. PICK image \in Remains(n) :
        LET kept == Recovered(image) IN
        /\ disk' = [disk EXCEPT ![n] = kept]
        /\ term' = [term EXCEPT ![n] = kept.hard.term]
        /\ votedFor' = [votedFor EXCEPT ![n] = kept.hard.vote]
        /\ log' = [log EXCEPT ![n] = kept.log]
        /\ durableIndex' = [durableIndex EXCEPT ![n] = Len(kept.log)]
        /\ durableTerm' = [durableTerm EXCEPT ![n] = kept.hard.term]
        /\ durableHard' = [durableHard EXCEPT ![n] = kept.hard]
  BY DEF Restart
<1> DEFINE kept == Recovered(image)
<1>2. kept \in Image
  BY <1>1, RemainsType, RecoveredType
<1>3. /\ kept.hard \in HardState /\ kept.log \in Seq(Entry)
      /\ kept.hard.term \in Nat /\ kept.hard.vote \in Server \cup {None}
      /\ Len(kept.log) \in Nat
  BY <1>2 DEF Image, HardState
<1> HIDE DEF kept
<1>4. /\ disk' \in [Server -> Image] /\ term' \in [Server -> Nat]
      /\ votedFor' \in [Server -> Server \cup {None}] /\ log' \in [Server -> Seq(Entry)]
      /\ durableIndex' \in [Server -> Nat] /\ durableTerm' \in [Server -> Nat]
      /\ durableHard' \in [Server -> HardState]
  BY <1>1, <1>2, <1>3 DEF kept, TypeOK
<1>5. /\ role' \in [Server -> {"Follower", "Candidate", "Leader"}]
      /\ leader' \in [Server -> Server \cup {None}]
      /\ votes' \in [Server -> SUBSET Server] /\ preVotes' \in [Server -> SUBSET Server]
      /\ commitIndex' \in [Server -> Nat]
      /\ parked' \in [Server -> SUBSET [from : Nat, to : Nat]]
      /\ restarts' \in [Server -> Nat] /\ msgs' \subseteq Message
  BY DEF Restart, TypeOK
<1>6. /\ nextIndex' \in [Server -> [Server -> Nat \ {0}]]
      /\ matchIndex' \in [Server -> [Server -> Nat]]
      /\ batches' \in [Server -> Seq(Batch)]
  BY DEF Restart, TypeOK
<1> QED
  BY <1>4, <1>5, <1>6 DEF TypeOK

-----------------------------------------------------------------------------
(* Elections. *)

LEMMA BecomeCandidateTypes ==
    ASSUME TypeOK, NEW n \in Server, BecomeCandidate(n)
    PROVE  TypeOK'
<1>1. /\ term' \in [Server -> Nat] /\ votedFor' \in [Server -> Server \cup {None}]
      /\ role' \in [Server -> {"Follower", "Candidate", "Leader"}]
      /\ leader' \in [Server -> Server \cup {None}]
      /\ votes' \in [Server -> SUBSET Server] /\ preVotes' \in [Server -> SUBSET Server]
  BY DEF BecomeCandidate, TypeOK
<1>2. log' = log /\ log[n] \in Seq(Entry) /\ Len(log[n]) + 1 \in Nat \ {0}
  BY DEF BecomeCandidate, TypeOK, logVars
<1>3. batches' \in [Server -> Seq(Batch)]
  <2>1. batches[n] \in Seq(Batch) /\ term'[n] \in Nat /\ votedFor'[n] \in Server \cup {None}
    BY <1>1 DEF TypeOK
  <2>2. Campaign(term'[n]) \in Act
    BY <2>1, NewActs
  <2> QED
    BY <1>2, <2>1, <2>2, IssueType DEF BecomeCandidate, TypeOK
<1> QED
  BY <1>1, <1>3 DEF TypeOK, BecomeCandidate, logVars, leaderVars, durableVars

LEMMA ElectionTimeoutTypes ==
    ASSUME TypeOK, NEW n \in Server, ElectionTimeout(n)
    PROVE  TypeOK'
<1>1. CASE StartPreVote(n)
  <2>1. {PreVoteMsg(n, p) : p \in Peers(n)} \subseteq Message
    BY NewMessages DEF Peers
  <2>2. msgs' \in SUBSET Message
    BY <1>1, <2>1, SendType DEF StartPreVote, TypeOK
  <2> QED
    BY <1>1, <2>2 DEF StartPreVote, TypeOK, logVars, leaderVars, durableVars
<1> QED
  BY <1>1, BecomeCandidateTypes DEF ElectionTimeout

(* The variables `become_leader` assigns, and what it then sends. *)
LEMMA BecomeLeaderTypes ==
    ASSUME TypeOK, NEW n \in Server, NEW queue \in Seq(Batch), BecomeLeader(n, queue)
    PROVE  /\ role' \in [Server -> {"Follower", "Candidate", "Leader"}]
           /\ term' \in [Server -> Nat] /\ votedFor' \in [Server -> Server \cup {None}]
           /\ leader' \in [Server -> Server \cup {None}]
           /\ log' \in [Server -> Seq(Entry)]
           /\ nextIndex' \in [Server -> [Server -> Nat \ {0}]]
           /\ matchIndex' \in [Server -> [Server -> Nat]]
           /\ batches' \in [Server -> Seq(Batch)]
           /\ LeaderGreeting(n) \subseteq Message
<1>1. log[n] \in Seq(Entry) /\ Len(log[n]) + 1 \in Nat \ {0} /\ term[n] \in Nat
  BY DEF TypeOK
<1>2. /\ role' \in [Server -> {"Follower", "Candidate", "Leader"}]
      /\ term' \in [Server -> Nat] /\ votedFor' \in [Server -> Server \cup {None}]
      /\ leader' \in [Server -> Server \cup {None}]
  BY DEF BecomeLeader, TypeOK
<1>3. [term |-> term[n], cmd |-> Noop] \in Entry
  BY <1>1 DEF Entry
<1>4. log' \in [Server -> Seq(Entry)]
  BY <1>1, <1>3 DEF BecomeLeader, TypeOK
<1>5. /\ nextIndex' \in [Server -> [Server -> Nat \ {0}]]
      /\ matchIndex' \in [Server -> [Server -> Nat]]
  BY <1>1 DEF BecomeLeader, TypeOK
<1>6. batches' \in [Server -> Seq(Batch)]
  <2>1. LogDurable(Len(log[n]) + 1, Len(log[n]) + 1, 0, None, 0) \in Act
    BY <1>1, NewActs
  <2>2. log'[n] \in Seq(Entry) /\ term'[n] \in Nat /\ votedFor'[n] \in Server \cup {None}
    BY <1>2, <1>4
  <2> QED
    BY <1>1, <2>1, <2>2, IssueType DEF BecomeLeader, TypeOK
<1>7. LeaderGreeting(n) \subseteq Message
  <2>1. /\ log'[n] \in Seq(Entry) /\ nextIndex'[n] \in [Server -> Nat \ {0}]
        /\ commitIndex[n] \in Nat
    BY <1>4, <1>5 DEF TypeOK
  <2> QED
    BY <2>1, AppendToAllType DEF LeaderGreeting
<1> QED
  BY <1>2, <1>4, <1>5, <1>6, <1>7

LEMMA HandleVoteRespTypes ==
    ASSUME TypeOK, NEW n \in Server, NEW m \in msgs, HandleVoteResp(n, m)
    PROVE  TypeOK'
<1>1. m.from \in Server
  BY MessageTypes DEF TypeOK
<1>2. /\ votes' \in [Server -> SUBSET Server] /\ preVotes' \in [Server -> SUBSET Server]
      /\ commitIndex' \in [Server -> Nat]
      /\ durableIndex' \in [Server -> Nat]
      /\ parked' \in [Server -> SUBSET [from : Nat, to : Nat]]
      /\ durableTerm' \in [Server -> Nat] /\ durableHard' \in [Server -> HardState]
      /\ disk' \in [Server -> Image] /\ restarts' \in [Server -> Nat]
  BY <1>1, ZenonT(30) DEF HandleVoteResp, TypeOK, durableVars
<1>3. CASE BecomeLeader(n, batches[n]) /\ Send(n, LeaderGreeting(n))
  <2>1. batches[n] \in Seq(Batch)
    BY DEF TypeOK
  <2>2. msgs' \in SUBSET Message
    BY <1>3, <2>1, BecomeLeaderTypes, SendType DEF TypeOK
  <2> QED
    BY <1>2, <1>3, <2>1, <2>2, BecomeLeaderTypes DEF TypeOK
<1>4. CASE UNCHANGED <<role, term, votedFor, leader, log, leaderVars, batches, msgs>>
  BY <1>2, <1>4 DEF TypeOK, leaderVars
<1> QED
  BY <1>3, <1>4 DEF HandleVoteResp

LEMMA StepDownTypes ==
    ASSUME TypeOK, NEW n \in Server, NEW t \in Nat, StepDownTo(n, t)
    PROVE  /\ term' \in [Server -> Nat] /\ votes' \in [Server -> SUBSET Server]
           /\ role' \in [Server -> {"Follower", "Candidate", "Leader"}]
BY DEF StepDownTo, TypeOK

LEMMA RefuseStaleTypes ==
    ASSUME TypeOK, NEW n \in Server, NEW m \in msgs, RefuseStale(n, m)
    PROVE  TypeOK'
<1>1. m.from \in Server /\ term[n] \in Nat
  BY MessageTypes DEF TypeOK
<1>2. durableIndex[n] \in Nat /\ NO_INDEX \in Nat
  BY DEF TypeOK, NO_INDEX
<1>3. msgs' \in SUBSET Message
  BY <1>1, <1>2, NewMessages, SendType DEF RefuseStale, TypeOK
<1> QED
  BY <1>3 DEF RefuseStale, TypeOK, electionVars, logVars, leaderVars, durableVars

LEMMA HandleNewerTermRespTypes ==
    ASSUME TypeOK, NEW n \in Server, NEW m \in msgs, HandleNewerTermResp(n, m)
    PROVE  TypeOK'
<1>1. m.from \in Server /\ m.term \in Nat
  BY MessageTypes DEF TypeOK
<1>2. /\ term' \in [Server -> Nat] /\ votes' \in [Server -> SUBSET Server]
      /\ role' \in [Server -> {"Follower", "Candidate", "Leader"}]
  BY <1>1, StepDownTypes DEF HandleNewerTermResp
<1>3. /\ votedFor' \in [Server -> Server \cup {None}]
      /\ leader' \in [Server -> Server \cup {None}]
      /\ preVotes' \in [Server -> SUBSET Server]
  BY DEF HandleNewerTermResp, TypeOK
<1>4. batches' \in [Server -> Seq(Batch)]
  <2>1. /\ log'[n] \in Seq(Entry) /\ term'[n] \in Nat /\ votedFor'[n] \in Server \cup {None}
        /\ Len(log[n]) + 1 \in Nat \ {0} /\ batches[n] \in Seq(Batch)
    BY <1>2, <1>3 DEF HandleNewerTermResp, TypeOK, logVars
  <2> QED
    BY <2>1, NewActs, IssueType DEF HandleNewerTermResp, TypeOK
<1> QED
  BY <1>2, <1>3, <1>4 DEF TypeOK, HandleNewerTermResp, logVars, leaderVars, durableVars

LEMMA HandleVoteRequestTypes ==
    ASSUME TypeOK, NEW n \in Server, NEW m \in msgs, HandleVoteRequest(n, m)
    PROVE  TypeOK'
<1>1. m.from \in Server /\ m.term \in Nat
  BY MessageTypes DEF TypeOK
<1>2. /\ term' \in [Server -> Nat] /\ votes' \in [Server -> SUBSET Server]
      /\ role' \in [Server -> {"Follower", "Candidate", "Leader"}]
      /\ leader' \in [Server -> Server \cup {None}]
  BY <1>1, StepDownTypes, ZenonT(30) DEF HandleVoteRequest, TypeOK
<1>3. votedFor' \in [Server -> Server \cup {None}]
  BY <1>1 DEF HandleVoteRequest, TypeOK
<1>4. batches' \in [Server -> Seq(Batch)]
  <2>0. log' = log
    BY DEF HandleVoteRequest, logVars
  <2>1. /\ log'[n] \in Seq(Entry) /\ term'[n] \in Nat /\ votedFor'[n] \in Server \cup {None}
        /\ Len(log[n]) + 1 \in Nat \ {0} /\ batches[n] \in Seq(Batch)
    BY <1>2, <1>3, <2>0 DEF TypeOK
  <2>2. GrantsVote(n, m) \in BOOLEAN
    BY DEF GrantsVote
  <2>3. Reply(VoteResp(n, m.from, m.term, GrantsVote(n, m))) \in Act
    BY <1>1, <2>2, NewActs, NewMessages
  <2> QED
    BY <2>1, <2>3, IssueType DEF HandleVoteRequest, TypeOK
<1> QED
  BY <1>2, <1>3, <1>4 DEF TypeOK, HandleVoteRequest, logVars, leaderVars, durableVars

LEMMA RepeatVoteAnswerTypes ==
    ASSUME TypeOK, NEW n \in Server, NEW m \in msgs, RepeatVoteAnswer(n, m)
    PROVE  TypeOK'
<1>1. m.from \in Server /\ m.term \in Nat
  BY MessageTypes DEF TypeOK
<1>2. GrantsVote(n, m) \in BOOLEAN
  BY DEF GrantsVote
<1>3. msgs' \in SUBSET Message
  BY <1>1, <1>2, NewMessages, SendType DEF RepeatVoteAnswer, TypeOK
<1> QED
  BY <1>3 DEF RepeatVoteAnswer, TypeOK, electionVars, logVars, leaderVars, durableVars

LEMMA HandlePreVoteTypes ==
    ASSUME TypeOK, NEW n \in Server, NEW m \in msgs, HandlePreVote(n, m)
    PROVE  TypeOK'
<1>1. m.from \in Server /\ m.term \in Nat
  BY MessageTypes DEF TypeOK
<1>2. msgs' \in SUBSET Message
  <2>1. PICK live \in LeaderMayBeLive(n) :
          Send(n, {PreVoteRespMsg(n, m.from, m.term,
                    /\ m.term >= term[n]
                    /\ IsUpToDate(log[n], m.lastIndex, m.lastTerm)
                    /\ ~live)})
    BY DEF HandlePreVote
  <2> DEFINE g == m.term >= term[n] /\ IsUpToDate(log[n], m.lastIndex, m.lastTerm) /\ ~live
  <2>2. g \in BOOLEAN
    OBVIOUS
  <2>3. Send(n, {PreVoteRespMsg(n, m.from, m.term, g)})
    BY <2>1
  <2> HIDE DEF g
  <2>4. {PreVoteRespMsg(n, m.from, m.term, g)} \in SUBSET Message
    BY <1>1, <2>2, NewMessages
  <2> QED
    BY <2>3, <2>4, SendType DEF TypeOK
<1> QED
  BY <1>2 DEF HandlePreVote, TypeOK, electionVars, logVars, leaderVars, durableVars

LEMMA HandlePreVoteRespTypes ==
    ASSUME TypeOK, NEW n \in Server, NEW m \in msgs, HandlePreVoteResp(n, m)
    PROVE  TypeOK'
<1>1. m.from \in Server
  BY MessageTypes DEF TypeOK
<1>2. CASE BecomeCandidate(n)
  BY <1>2, BecomeCandidateTypes
<1>3. CASE ~BecomeCandidate(n)
  <2>0. \/ preVotes' = [preVotes EXCEPT ![n] = {}]
        \/ preVotes' = [preVotes EXCEPT ![n] = @ \cup {m.from}]
    BY <1>3, Zenon DEF HandlePreVoteResp
  <2>1. preVotes' \in [Server -> SUBSET Server]
    <3>1. preVotes \in [Server -> SUBSET Server] /\ preVotes[n] \cup {m.from} \in SUBSET Server
      BY <1>1 DEF TypeOK
    <3> QED
      BY <2>0, <3>1
  <2>2. UNCHANGED <<role, term, votedFor, leader, votes, logVars, leaderVars,
                    durableVars, batches, disk, msgs, restarts>>
    BY <1>3 DEF HandlePreVoteResp
  <2> QED
    BY <2>1, <2>2 DEF TypeOK, logVars, leaderVars, durableVars
<1> QED
  BY <1>2, <1>3

-----------------------------------------------------------------------------
(* Replication. *)

LEMMA HeartbeatTypes ==
    ASSUME TypeOK, NEW n \in Server, Heartbeat(n)
    PROVE  TypeOK'
<1>1. /\ log[n] \in Seq(Entry) /\ nextIndex[n] \in [Server -> Nat \ {0}]
      /\ commitIndex[n] \in Nat
  BY DEF TypeOK
<1>2. msgs' \in SUBSET Message
  BY <1>1, AppendToAllType, SendType DEF Heartbeat, TypeOK
<1> QED
  BY <1>2 DEF Heartbeat, TypeOK, electionVars, logVars, leaderVars, durableVars

LEMMA ProposeTypes ==
    ASSUME TypeOK, NEW n \in Server, NEW c \in Cmd, Propose(n, c)
    PROVE  TypeOK'
<1>1. /\ log[n] \in Seq(Entry) /\ nextIndex[n] \in [Server -> Nat \ {0}]
      /\ commitIndex[n] \in Nat /\ term[n] \in Nat /\ batches[n] \in Seq(Batch)
      /\ Len(log[n]) + 1 \in Nat \ {0}
  BY DEF TypeOK
<1>2. [term |-> term[n], cmd |-> c] \in Entry
  BY <1>1 DEF Entry
<1>3. log' \in [Server -> Seq(Entry)]
  BY <1>1, <1>2 DEF Propose, TypeOK
<1>4. term' = term /\ votedFor' = votedFor
  BY DEF Propose, electionVars
<1>5. batches' \in [Server -> Seq(Batch)]
  <2>1. LogDurable(Len(log[n]) + 1, Len(log[n]) + 1, 0, None, 0) \in Act
    BY <1>1, NewActs
  <2>2. log'[n] \in Seq(Entry) /\ term'[n] \in Nat /\ votedFor'[n] \in Server \cup {None}
    BY <1>3, <1>4 DEF TypeOK
  <2> QED
    BY <1>1, <2>1, <2>2, IssueType DEF Propose, TypeOK
<1>6. msgs' \in SUBSET Message
  <2>1. log'[n] \in Seq(Entry)
    BY <1>3
  <2>2. AppendToAll(n, log'[n], nextIndex[n], commitIndex[n]) \subseteq Message
    BY <1>1, <2>1, AppendToAllType
  <2> QED
    BY <2>2, SendType DEF Propose, TypeOK
<1> QED
  BY <1>3, <1>5, <1>6 DEF Propose, TypeOK, electionVars, leaderVars, durableVars

LEMMA CommitToType ==
    ASSUME TypeOK, NEW n \in Server, NEW i \in Nat, CommitTo(n, i)
    PROVE  commitIndex' \in [Server -> Nat]
BY DEF CommitTo, TypeOK

LEMMA CommitAfterType ==
    ASSUME TypeOK, NEW n \in Server, NEW match \in [Server -> Nat], NEW d \in Nat
    PROVE  CommitAfter(n, match, d) \in Nat
BY QuorumIndexType DEF CommitAfter, TypeOK

LEMMA HandleAppendAckTypes ==
    ASSUME TypeOK, NEW n \in Server, NEW m \in msgs, HandleAppendAck(n, m)
    PROVE  TypeOK'
<1>1. m.from \in Server /\ m.match \in Nat
  BY MessageTypes DEF TypeOK, HandleAppendAck, Received, AppendRespMsgs
<1> DEFINE held == MaxOf(matchIndex[n][m.from], m.match)
<1>2. held \in Nat
  BY <1>1, MinMaxType, ZenonT(30) DEF TypeOK
<1>3. /\ matchIndex' = [matchIndex EXCEPT ![n][m.from] = held]
      /\ nextIndex' = [nextIndex EXCEPT ![n][m.from] = held + 1]
      /\ CommitTo(n, CommitAfter(n, matchIndex'[n], durableIndex[n]))
      /\ Send(n, IF held < Len(log[n])
                 THEN AppendTo(n, m.from, log[n], held + 1, commitIndex'[n])
                 ELSE {})
  BY DEF HandleAppendAck
<1> HIDE DEF held
<1>4. /\ matchIndex' \in [Server -> [Server -> Nat]]
      /\ nextIndex' \in [Server -> [Server -> Nat \ {0}]]
  <2>0. /\ matchIndex[n] \in [Server -> Nat] /\ nextIndex[n] \in [Server -> Nat \ {0}]
        /\ held + 1 \in Nat \ {0}
    BY <1>2 DEF TypeOK
  <2>1. /\ [matchIndex[n] EXCEPT ![m.from] = held] \in [Server -> Nat]
        /\ [nextIndex[n] EXCEPT ![m.from] = held + 1] \in [Server -> Nat \ {0}]
    BY <1>1, <1>2, <2>0
  <2>2. /\ matchIndex' = [matchIndex EXCEPT ![n] = [matchIndex[n] EXCEPT ![m.from] = held]]
        /\ nextIndex' = [nextIndex EXCEPT ![n] = [nextIndex[n] EXCEPT ![m.from] = held + 1]]
    BY <1>3
  <2> QED
    BY <2>1, <2>2 DEF TypeOK
<1>5. commitIndex' \in [Server -> Nat]
  <2>1. matchIndex'[n] \in [Server -> Nat] /\ durableIndex[n] \in Nat
    BY <1>4 DEF TypeOK
  <2> QED
    BY <1>3, <2>1, CommitAfterType, CommitToType
<1>6. msgs' \in SUBSET Message
  <2>1. /\ log[n] \in Seq(Entry) /\ commitIndex'[n] \in Nat /\ held + 1 \in Nat \ {0}
    BY <1>2, <1>5 DEF TypeOK
  <2>2. AppendTo(n, m.from, log[n], held + 1, commitIndex'[n]) \subseteq Message
    BY <1>1, <2>1, AppendToType
  <2> QED
    BY <1>3, <2>2, SendType DEF TypeOK
<1> QED
  BY <1>4, <1>5, <1>6 DEF HandleAppendAck, TypeOK, electionVars, durableVars

LEMMA HandleAppendNackTypes ==
    ASSUME TypeOK, NEW n \in Server, NEW m \in msgs, HandleAppendNack(n, m)
    PROVE  TypeOK'
<1>1. m.from \in Server /\ m.hint \in Nat
  BY MessageTypes DEF TypeOK, HandleAppendNack, Received, AppendRespMsgs
<1> DEFINE next == MaxOf(1, MinOf(MaxOf(m.hint, 1), nextIndex[n][m.from] - 1))
<1>2. next \in Nat \ {0}
  <2>1. nextIndex[n][m.from] \in Nat \ {0}
    BY <1>1 DEF TypeOK
  <2> QED
    BY <1>1, <2>1 DEF MaxOf, MinOf
<1>3. /\ nextIndex' = [nextIndex EXCEPT ![n][m.from] = next]
      /\ Send(n, AppendTo(n, m.from, log[n], next, commitIndex[n]))
  BY DEF HandleAppendNack
<1> HIDE DEF next
<1>4. nextIndex' \in [Server -> [Server -> Nat \ {0}]]
  <2>1. [nextIndex[n] EXCEPT ![m.from] = next] \in [Server -> Nat \ {0}]
    BY <1>1, <1>2 DEF TypeOK
  <2>2. nextIndex' = [nextIndex EXCEPT ![n] = [nextIndex[n] EXCEPT ![m.from] = next]]
    BY <1>3
  <2> QED
    BY <2>1, <2>2 DEF TypeOK
<1>5. msgs' \in SUBSET Message
  <2>1. log[n] \in Seq(Entry) /\ commitIndex[n] \in Nat
    BY DEF TypeOK
  <2>2. AppendTo(n, m.from, log[n], next, commitIndex[n]) \subseteq Message
    BY <1>1, <1>2, <2>1, AppendToType
  <2> QED
    BY <1>3, <2>2, SendType DEF TypeOK
<1> QED
  BY <1>4, <1>5 DEF HandleAppendNack, TypeOK, electionVars, logVars, durableVars

(* What every append of a current or later term leaves of the election. *)
LEMMA FollowLeaderTypes ==
    ASSUME TypeOK, NEW n \in Server, NEW m \in msgs, FollowLeader(n, m)
    PROVE  /\ m \in AppendMsgs
           /\ m.from \in Server /\ m.term \in Nat /\ m.prev \in Nat /\ m.commit \in Nat
           /\ m.entries \in Seq(Entry)
           /\ term' \in [Server -> Nat] /\ votes' \in [Server -> SUBSET Server]
           /\ role' \in [Server -> {"Follower", "Candidate", "Leader"}]
           /\ votedFor' \in [Server -> Server \cup {None}]
           /\ leader' \in [Server -> Server \cup {None}]
           /\ preVotes' \in [Server -> SUBSET Server]
           /\ nextIndex' \in [Server -> [Server -> Nat \ {0}]]
           /\ matchIndex' \in [Server -> [Server -> Nat]]
           /\ disk' \in [Server -> Image] /\ restarts' \in [Server -> Nat]
<1>1. m \in AppendMsgs
  BY MessageTypes DEF TypeOK, FollowLeader, Received
<1>2. /\ m.from \in Server /\ m.term \in Nat /\ m.prev \in Nat /\ m.commit \in Nat
      /\ m.entries \in Seq(Entry)
  BY <1>1 DEF AppendMsgs
<1>3. /\ term' \in [Server -> Nat] /\ votes' \in [Server -> SUBSET Server]
      /\ role' \in [Server -> {"Follower", "Candidate", "Leader"}]
  BY <1>2, StepDownTypes DEF FollowLeader
<1>4. votedFor' \in [Server -> Server \cup {None}]
  BY DEF FollowLeader, TypeOK
<1>5. /\ leader' \in [Server -> Server \cup {None}]
      /\ preVotes' \in [Server -> SUBSET Server]
      /\ nextIndex' \in [Server -> [Server -> Nat \ {0}]]
      /\ matchIndex' \in [Server -> [Server -> Nat]]
      /\ disk' \in [Server -> Image] /\ restarts' \in [Server -> Nat]
  BY <1>2 DEF FollowLeader, TypeOK, leaderVars
<1> QED
  BY <1>1, <1>2, <1>3, <1>4, <1>5

LEMMA AnswerAfterTermTypes ==
    ASSUME TypeOK, NEW n \in Server, NEW m, NEW act \in Act, NEW answer \in Message,
           AnswerAfterTerm(n, m, act, answer), log' = log,
           term' \in [Server -> Nat], votedFor' \in [Server -> Server \cup {None}]
    PROVE  batches' \in [Server -> Seq(Batch)] /\ msgs' \in SUBSET Message
<1>1. CASE Issue(n, batches[n], act, TRUE, Len(log[n]) + 1) /\ UNCHANGED msgs
  <2>1. /\ log'[n] \in Seq(Entry) /\ Len(log[n]) + 1 \in Nat \ {0}
        /\ batches[n] \in Seq(Batch) /\ term'[n] \in Nat
        /\ votedFor'[n] \in Server \cup {None}
    BY DEF TypeOK
  <2>2. batches' \in [Server -> Seq(Batch)]
    BY <1>1, <2>1, IssueType DEF TypeOK
  <2> QED
    BY <1>1, <2>2 DEF TypeOK
<1>2. CASE Send(n, {answer}) /\ UNCHANGED batches
  BY <1>2, SendType DEF TypeOK
<1> QED
  BY <1>1, <1>2 DEF AnswerAfterTerm

LEMMA RejectAppendTypes ==
    ASSUME TypeOK, NEW n \in Server, NEW m \in msgs, RejectAppend(n, m)
    PROVE  TypeOK'
<1>1. FollowLeader(n, m)
  BY DEF RejectAppend
<1> DEFINE answer == AppendResp(n, m.from, m.term, FALSE, durableIndex[n],
                               ConflictHint(log[n], m.prev))
<1>2. answer \in AppendRespMsgs
  <2>1. ConflictHint(log[n], m.prev) \in Nat /\ durableIndex[n] \in Nat
    BY <1>1, FollowLeaderTypes, ConflictHintType DEF TypeOK
  <2> QED
    BY <1>1, <2>1, FollowLeaderTypes, NewMessages
<1>3. Reply(answer) \in Act /\ answer \in Message
  BY <1>1, <1>2, FollowLeaderTypes, NewActs, NewMessages
<1>4. AnswerAfterTerm(n, m, Reply(answer), answer) /\ log' = log
  BY DEF RejectAppend, logVars
<1> HIDE DEF answer
<1>5. batches' \in [Server -> Seq(Batch)] /\ msgs' \in SUBSET Message
  BY <1>1, <1>3, <1>4, FollowLeaderTypes, AnswerAfterTermTypes
<1> QED
  BY <1>1, <1>5, FollowLeaderTypes DEF RejectAppend, TypeOK, logVars, durableVars

LEMMA FollowCommitType ==
    ASSUME TypeOK, NEW n \in Server, NEW m \in AppendMsgs, FollowCommit(n, m),
           log'[n] \in Seq(Entry)
    PROVE  commitIndex' \in [Server -> Nat]
<1> DEFINE i == MaxOf(commitIndex[n],
                      MinOf(m.commit, MinOf(m.prev + Len(m.entries), Len(log'[n]))))
<1>0. /\ commitIndex[n] \in Nat /\ m.commit \in Nat /\ m.prev \in Nat
      /\ m.entries \in Seq(Entry)
  BY DEF TypeOK, AppendMsgs
<1>1. /\ commitIndex[n] \in Nat /\ m.commit \in Nat /\ m.prev + Len(m.entries) \in Nat
      /\ Len(log'[n]) \in Nat
  BY <1>0
<1>2. i \in Nat
  BY <1>1, MinMaxType
<1>3. CommitTo(n, i)
  BY DEF FollowCommit
<1> HIDE DEF i
<1> QED
  BY <1>2, <1>3, CommitToType

LEMMA ConfirmAppendTypes ==
    ASSUME TypeOK, NEW n \in Server, NEW m \in msgs, ConfirmAppend(n, m)
    PROVE  TypeOK'
<1>1. FollowLeader(n, m) /\ log' = log /\ FollowCommit(n, m)
  BY DEF ConfirmAppend
<1> DEFINE last == m.prev + Len(m.entries)
           act == LogDurable(durableIndex[n] + 1, durableIndex[n], last, m.from, m.term)
           answer == AppendResp(n, m.from, m.term, TRUE, MinOf(durableIndex[n], last), NO_INDEX)
<1>2. /\ last \in Nat /\ durableIndex[n] \in Nat /\ durableIndex[n] + 1 \in Nat
      /\ MinOf(durableIndex[n], last) \in Nat /\ NO_INDEX \in Nat
  <2>1. m.prev \in Nat /\ m.entries \in Seq(Entry) /\ durableIndex[n] \in Nat
    BY <1>1, FollowLeaderTypes DEF TypeOK
  <2>2. last \in Nat
    BY <2>1
  <2> HIDE DEF last
  <2>3. MinOf(durableIndex[n], last) \in Nat
    BY <2>1, <2>2, MinMaxType
  <2> QED
    BY <2>1, <2>2, <2>3 DEF NO_INDEX
<1>3. AnswerAfterTerm(n, m, act, answer)
  BY DEF ConfirmAppend
<1> HIDE DEF last
<1>4. act \in Act /\ answer \in Message
  BY <1>1, <1>2, FollowLeaderTypes, NewActs, NewMessages
<1> HIDE DEF act, answer
<1>5. batches' \in [Server -> Seq(Batch)] /\ msgs' \in SUBSET Message
  BY <1>1, <1>3, <1>4, FollowLeaderTypes, AnswerAfterTermTypes
<1>6. commitIndex' \in [Server -> Nat]
  <2>1. log'[n] \in Seq(Entry)
    BY <1>1 DEF TypeOK
  <2> QED
    BY <1>1, <2>1, FollowLeaderTypes, FollowCommitType
<1> QED
  BY <1>1, <1>5, <1>6, FollowLeaderTypes DEF ConfirmAppend, TypeOK, durableVars

LEMMA ClampParkedType ==
    ASSUME NEW ranges \in SUBSET [from : Nat, to : Nat], NEW cap \in Nat
    PROVE  ClampParked(ranges, cap) \in SUBSET [from : Nat, to : Nat]
<1>1. ASSUME NEW r \in ranges
      PROVE  [from |-> r.from, to |-> Min({r.to, cap})] \in [from : Nat, to : Nat]
  <2>1. {r.to, cap} \in SUBSET Nat /\ {r.to, cap} # {} /\ r.from \in Nat
    OBVIOUS
  <2>2. Min({r.to, cap}) \in Nat
    BY <2>1, MinNat
  <2> QED
    BY <2>1, <2>2
<1> QED
  BY <1>1 DEF ClampParked

LEMMA ReplaceFromTypes ==
    ASSUME TypeOK, NEW n \in Server, NEW m \in AppendMsgs,
           NEW start \in (m.prev + 1)..(m.prev + Len(m.entries)),
           start - 1 <= Len(log[n]), ReplaceFrom(n, m, start)
    PROVE  /\ log' \in [Server -> Seq(Entry)]
           /\ durableIndex' \in [Server -> Nat]
           /\ parked' \in [Server -> SUBSET [from : Nat, to : Nat]]
<1>0. m.prev \in Nat /\ m.entries \in Seq(Entry) /\ log[n] \in Seq(Entry)
  BY DEF AppendMsgs, TypeOK
<1>1. /\ m.prev \in Nat /\ m.entries \in Seq(Entry) /\ log[n] \in Seq(Entry)
      /\ start \in Nat \ {0} /\ start - 1 \in Nat
  BY <1>0
<1>2. TruncateFrom(log[n], start) \in Seq(Entry)
  BY <1>1 DEF TruncateFrom
<1>3. SubSeq(m.entries, start - m.prev, Len(m.entries)) \in Seq(Entry)
  BY <1>1
<1>4. log' \in [Server -> Seq(Entry)]
  <2>1. TruncateFrom(log[n], start) \o SubSeq(m.entries, start - m.prev, Len(m.entries))
          \in Seq(Entry)
    BY <1>2, <1>3
  <2> QED
    BY <2>1 DEF ReplaceFrom, TypeOK
<1>5. durableIndex' \in [Server -> Nat]
  BY <1>1, MinMaxType DEF ReplaceFrom, TypeOK
<1>6. parked' \in [Server -> SUBSET [from : Nat, to : Nat]]
  BY <1>1, ClampParkedType DEF ReplaceFrom, TypeOK
<1> QED
  BY <1>4, <1>5, <1>6

(* The entries an append adds begin within the log, or right after it. *)
LEMMA StartIsInReach ==
    ASSUME NEW lg \in Seq(Entry), NEW prev \in Nat, NEW t \in Nat, NEW es \in Seq(Entry),
           Matches(lg, prev, t)
    PROVE  FirstNew(lg, prev, es) - 1 <= Len(lg)
<1> DEFINE S == {prev + Len(es) + 1} \cup
                {i \in (prev + 1)..(prev + Len(es)) : TermAt(lg, i) # es[i - prev].term}
           start == FirstNew(lg, prev, es)
<1>1. start \in (prev + 1)..(prev + Len(es) + 1)
  BY FirstNewType
<1>2. prev <= Len(lg)
  BY TermAtType DEF Matches
<1>3. start = Min(S) /\ S \in SUBSET Nat /\ S # {}
  BY DEF FirstNew
<1>4. \A i \in S : start <= i
  <2> HIDE DEF S, start
  <2> QED
    BY <1>3, MinNat
<1>5. ASSUME start = prev + 1 PROVE start - 1 <= Len(lg)
  <2> HIDE DEF start
  <2> QED
    BY <1>2, <1>5
<1>6. ASSUME start > prev + 1 PROVE start - 1 <= Len(lg)
  <2>1. start - 1 \in (prev + 1)..(prev + Len(es)) /\ ~(start <= start - 1)
    BY <1>1, <1>6
  <2>2. start - 1 \notin S
    <3> HIDE DEF S, start
    <3> QED
      BY <1>4, <2>1
  <2>3. TermAt(lg, start - 1) = es[(start - 1) - prev].term
    <3> HIDE DEF start
    <3> QED
      BY <2>1, <2>2
  <2>4. es[(start - 1) - prev] \in Entry
    <3> HIDE DEF start
    <3> QED
      BY <2>1
  <2>5. TermAt(lg, start - 1) \in Nat
    BY <2>3, <2>4 DEF Entry
  <2>6. start - 1 <= Len(lg)
    <3> HIDE DEF start
    <3> QED
      BY <2>1, <2>5, TermAtType
  <2> QED
    BY <2>6
<1>7. start - 1 <= Len(lg)
  <2> HIDE DEF start
  <2> QED
    BY <1>1, <1>2, <1>5, <1>6
<1> QED
  BY <1>7

LEMMA AcceptAppendTypes ==
    ASSUME TypeOK, NEW n \in Server, NEW m \in msgs, AcceptAppend(n, m)
    PROVE  TypeOK'
<1> DEFINE start == FirstNew(log[n], m.prev, m.entries)
           last == m.prev + Len(m.entries)
<1>1. /\ FollowLeader(n, m) /\ Matches(log[n], m.prev, m.prevTerm) /\ FollowCommit(n, m)
      /\ start <= last /\ ReplaceFrom(n, m, start)
      /\ Issue(n, ClampAll(batches[n], start - 1),
               LogDurable(start, last, last, m.from, m.term), m.term > term[n], start)
  BY DEF AcceptAppend
<1>2. /\ m \in AppendMsgs /\ m.prev \in Nat /\ m.entries \in Seq(Entry)
      /\ m.prevTerm \in Nat /\ m.from \in Server /\ m.term \in Nat
      /\ log[n] \in Seq(Entry) /\ batches[n] \in Seq(Batch) /\ term[n] \in Nat
  BY <1>1, FollowLeaderTypes, SMTT(30) DEF TypeOK, AppendMsgs
<1>3. start \in (m.prev + 1)..(m.prev + Len(m.entries) + 1) /\ start - 1 <= Len(log[n])
  BY <1>1, <1>2, FirstNewType, StartIsInReach
<1> HIDE DEF start
<1>4. /\ start \in (m.prev + 1)..(m.prev + Len(m.entries)) /\ last \in Nat
      /\ start \in Nat \ {0} /\ start - 1 \in Nat
  BY <1>1, <1>2, <1>3
<1>5. /\ log' \in [Server -> Seq(Entry)] /\ durableIndex' \in [Server -> Nat]
      /\ parked' \in [Server -> SUBSET [from : Nat, to : Nat]]
  BY <1>1, <1>2, <1>3, <1>4, ReplaceFromTypes, SMTT(30)
<1> HIDE DEF last
<1>6. batches' \in [Server -> Seq(Batch)]
  <2>1. ClampAll(batches[n], start - 1) \in Seq(Batch)
    BY <1>2, <1>4, ClampAllType
  <2>2. LogDurable(start, last, last, m.from, m.term) \in Act
    BY <1>2, <1>4, NewActs
  <2>3. /\ log'[n] \in Seq(Entry) /\ term'[n] \in Nat /\ votedFor'[n] \in Server \cup {None}
        /\ (m.term > term[n]) \in BOOLEAN
    BY <1>1, <1>5, FollowLeaderTypes
  <2>4. batches \in [Server -> Seq(Batch)]
    BY DEF TypeOK
  <2> QED
    BY <1>1, <1>4, <2>1, <2>2, <2>3, <2>4, IssueType
<1>7. commitIndex' \in [Server -> Nat]
  BY <1>1, <1>2, <1>5, FollowCommitType
<1>8. /\ durableTerm' \in [Server -> Nat] /\ durableHard' \in [Server -> HardState]
      /\ msgs' \subseteq Message
  BY <1>1 DEF AcceptAppend, ReplaceFrom, TypeOK
<1> QED
  BY <1>1, <1>5, <1>6, <1>7, <1>8, FollowLeaderTypes DEF TypeOK

-----------------------------------------------------------------------------
(* Completions. *)

LEMMA SyncDoneTypes ==
    ASSUME TypeOK, NEW n \in Server, NEW k \in 1..Len(batches[n]), SyncDone(n, k)
    PROVE  /\ disk' \in [Server -> Image] /\ durableHard' \in [Server -> HardState]
           /\ durableTerm' \in [Server -> Nat] /\ restarts' \in [Server -> Nat]
<1> DEFINE b == batches[n][k]
<1>1. b \in Batch
  BY DEF TypeOK
<1>2. /\ b.hard \in HardState /\ b.log \in Seq(Entry) /\ b.hard.term \in Nat
      /\ [hard |-> b.hard, log |-> b.log] \in Image
  BY <1>1 DEF Batch, HardState, Image
<1>3. /\ disk' = IF b.synced THEN disk
                 ELSE [disk EXCEPT ![n] = [hard |-> b.hard, log |-> b.log]]
      /\ durableHard' = [durableHard EXCEPT ![n] =
                            IF b.writesHard /\ Le(@, b.hard) THEN b.hard ELSE @]
      /\ durableTerm' = [durableTerm EXCEPT ![n] =
                            IF b.writesHard THEN MaxOf(@, b.hard.term) ELSE @]
      /\ restarts' = restarts
  BY DEF SyncDone
<1> HIDE DEF b
<1>4. disk' \in [Server -> Image] /\ restarts' \in [Server -> Nat]
  BY <1>2, <1>3 DEF TypeOK
<1>5. durableHard' \in [Server -> HardState]
  BY <1>2, <1>3 DEF TypeOK
<1>6. MaxOf(durableTerm[n], b.hard.term) \in Nat
  BY <1>2, MinMaxType DEF TypeOK
<1>7. durableTerm' \in [Server -> Nat]
  BY <1>3, <1>6 DEF TypeOK
<1> QED
  BY <1>4, <1>5, <1>7

LEMMA ClaimTypes ==
    ASSUME TypeOK, NEW n \in Server, durableTerm' \in [Server -> Nat]
    PROVE  /\ \A at \in Nat : \A ranges : Claim(n, at, ranges) \in Nat
           /\ ClaimAfterTerm(n) \in Nat
           /\ ParkedAfterTerm(n) \in SUBSET [from : Nat, to : Nat]
<1>1. ASSUME NEW at \in Nat, NEW ranges PROVE Claim(n, at, ranges) \in Nat
  <2>1. LastIndexWithTermAtMost(log[n], durableTerm'[n]) \in Nat
    BY LastIndexType DEF TypeOK
  <2> QED
    BY <2>1, AdvanceDurableType DEF Claim
<1>2. ClaimAfterTerm(n) \in Nat
  BY <1>1 DEF ClaimAfterTerm, TypeOK
<1>3. ParkedAfterTerm(n) \in SUBSET [from : Nat, to : Nat]
  BY DEF ParkedAfterTerm, StillParked, TypeOK
<1> QED
  BY <1>1, <1>2, <1>3

LEMMA KeepClaimTypes ==
    ASSUME TypeOK, NEW n \in Server, durableTerm' \in [Server -> Nat], KeepClaim(n)
    PROVE  /\ durableIndex' \in [Server -> Nat]
           /\ parked' \in [Server -> SUBSET [from : Nat, to : Nat]]
BY ClaimTypes DEF KeepClaim, TypeOK

LEMMA CampaignDurableTypes ==
    ASSUME TypeOK, NEW n \in Server, NEW k \in 1..Len(batches[n]), CampaignDurable(n, k)
    PROVE  TypeOK'
<1> DEFINE queue == QueueWithout(batches[n], k)
           asks == {RequestVoteMsg(n, p) : p \in Peers(n)}
           standing == role[n] = "Candidate" /\ batches[n][k].act.term = term[n]
<1>1. /\ disk' \in [Server -> Image] /\ durableHard' \in [Server -> HardState]
      /\ durableTerm' \in [Server -> Nat] /\ restarts' \in [Server -> Nat]
  BY SyncDoneTypes DEF CampaignDurable
<1>2. /\ durableIndex' \in [Server -> Nat]
      /\ parked' \in [Server -> SUBSET [from : Nat, to : Nat]]
  BY <1>1, KeepClaimTypes DEF CampaignDurable
<1>3. /\ votes' \in [Server -> SUBSET Server] /\ preVotes' \in [Server -> SUBSET Server]
      /\ commitIndex' \in [Server -> Nat]
  BY DEF CampaignDurable, TypeOK
<1>4. queue \in Seq(Batch)
  BY QueueWithoutType DEF TypeOK
<1>5. asks \subseteq Message
  BY NewMessages DEF Peers
<1>6. \/ BecomeLeader(n, queue) /\ Send(n, asks \cup LeaderGreeting(n))
      \/ /\ batches' = [batches EXCEPT ![n] = queue]
         /\ Send(n, IF standing THEN asks ELSE {})
         /\ UNCHANGED <<role, term, votedFor, leader, log, leaderVars>>
  BY DEF CampaignDurable
<1> HIDE DEF queue, asks, standing
<1>7. CASE BecomeLeader(n, queue) /\ Send(n, asks \cup LeaderGreeting(n))
  <2>1. asks \cup LeaderGreeting(n) \in SUBSET Message
    BY <1>4, <1>5, <1>7, BecomeLeaderTypes
  <2>2. msgs' \in SUBSET Message
    BY <1>7, <2>1, SendType DEF TypeOK
  <2> QED
    BY <1>1, <1>2, <1>3, <1>4, <1>7, <2>2, BecomeLeaderTypes DEF TypeOK
<1>8. CASE /\ batches' = [batches EXCEPT ![n] = queue]
           /\ Send(n, IF standing THEN asks ELSE {})
           /\ UNCHANGED <<role, term, votedFor, leader, log, leaderVars>>
  <2>1. msgs' \in SUBSET Message
    BY <1>5, <1>8, SendType DEF TypeOK
  <2> QED
    BY <1>1, <1>2, <1>3, <1>4, <1>8, <2>1 DEF TypeOK, leaderVars
<1> QED
  BY <1>6, <1>7, <1>8

LEMMA ReplyDurableTypes ==
    ASSUME TypeOK, NEW n \in Server, NEW k \in 1..Len(batches[n]), ReplyDurable(n, k)
    PROVE  TypeOK'
<1> DEFINE act == batches[n][k].act
<1>1. /\ disk' \in [Server -> Image] /\ durableHard' \in [Server -> HardState]
      /\ durableTerm' \in [Server -> Nat] /\ restarts' \in [Server -> Nat]
  BY SyncDoneTypes DEF ReplyDurable
<1>2. /\ durableIndex' \in [Server -> Nat]
      /\ parked' \in [Server -> SUBSET [from : Nat, to : Nat]]
  BY <1>1, KeepClaimTypes DEF ReplyDurable
<1>3. batches' \in [Server -> Seq(Batch)]
  BY QueueWithoutType DEF ReplyDurable, TypeOK
<1>4. msgs' \in SUBSET Message
  <2>1. act \in Act
    <3>1. batches[n][k] \in Batch
      BY DEF TypeOK
    <3> QED
      BY <3>1 DEF Batch
  <2>2. act.kind = "Reply" => act.msg \in Message
    BY <2>1, ActTypes DEF Message
  <2>3. Send(n, IF act.kind = "Reply" THEN {act.msg} ELSE {})
    BY DEF ReplyDurable
  <2> HIDE DEF act
  <2> QED
    BY <2>2, <2>3, SendType DEF TypeOK
<1> QED
  BY <1>1, <1>2, <1>3, <1>4
  DEF ReplyDurable, TypeOK, electionVars, logVars, leaderVars

LEMMA LogIsDurableTypes ==
    ASSUME TypeOK, NEW n \in Server, NEW k \in 1..Len(batches[n]), LogIsDurable(n, k)
    PROVE  TypeOK'
<1> DEFINE act == batches[n][k].act
           index == MinOf(act.index, Len(log[n]))
           isNews == index > ClaimAfterTerm(n)
           ranges == ParkedAfterTerm(n) \cup {[from |-> act.from, to |-> index]}
           claim == IF isNews THEN Claim(n, ClaimAfterTerm(n), ranges) ELSE ClaimAfterTerm(n)
<1>1. /\ disk' \in [Server -> Image] /\ durableHard' \in [Server -> HardState]
      /\ durableTerm' \in [Server -> Nat] /\ restarts' \in [Server -> Nat]
  BY SyncDoneTypes DEF LogIsDurable
<1>2. /\ act \in [kind : {"LogDurable"}, from : Nat, index : Nat, verified : Nat,
                  replyTo : Server \cup {None}, replyTerm : Nat]
      /\ Len(log[n]) \in Nat
  <2>1. act \in Act /\ act.kind = "LogDurable" /\ Len(log[n]) \in Nat
    <3>1. batches[n][k] \in Batch /\ log[n] \in Seq(Entry)
      BY DEF TypeOK
    <3>2. batches[n][k].act \in Act
      BY <3>1 DEF Batch
    <3>3. batches[n][k].act.kind = "LogDurable"
      BY DEF LogIsDurable
    <3> QED
      BY <3>1, <3>2, <3>3
  <2> QED
    BY <2>1, ActTypes
<1>3. batches' \in [Server -> Seq(Batch)]
  BY QueueWithoutType DEF LogIsDurable, TypeOK
<1>4. /\ durableIndex' = [durableIndex EXCEPT ![n] = claim]
      /\ parked' = [parked EXCEPT ![n] =
                       IF isNews THEN StillParked(claim, ranges) ELSE ParkedAfterTerm(n)]
      /\ Send(n, IF act.replyTo = None THEN {}
                 ELSE {AppendResp(n, act.replyTo, act.replyTerm, TRUE,
                                  MinOf(claim, act.verified), NO_INDEX)})
      /\ CommitTo(n, IF role[n] = "Leader"
                     THEN CommitAfter(n, matchIndex[n], durableIndex'[n])
                     ELSE commitIndex[n])
  BY DEF LogIsDurable
<1> HIDE DEF act
<1>5. index \in Nat
  BY <1>2, MinMaxType
<1> HIDE DEF index
<1>6. ranges \in SUBSET [from : Nat, to : Nat]
  <2>1. ParkedAfterTerm(n) \in SUBSET [from : Nat, to : Nat]
    BY <1>1, ClaimTypes
  <2>2. [from |-> act.from, to |-> index] \in [from : Nat, to : Nat]
    BY <1>2, <1>5
  <2> QED
    BY <2>1, <2>2
<1> HIDE DEF ranges, isNews
<1>7. claim \in Nat
  BY <1>1, ClaimTypes
<1> HIDE DEF claim
<1>8. /\ durableIndex' \in [Server -> Nat]
      /\ parked' \in [Server -> SUBSET [from : Nat, to : Nat]]
  <2>1. StillParked(claim, ranges) \in SUBSET [from : Nat, to : Nat]
    BY <1>6 DEF StillParked
  <2>2. ParkedAfterTerm(n) \in SUBSET [from : Nat, to : Nat]
    BY <1>1, ClaimTypes
  <2> QED
    BY <1>4, <1>7, <2>1, <2>2 DEF TypeOK
<1>9. commitIndex' \in [Server -> Nat]
  <2>1. CommitAfter(n, matchIndex[n], durableIndex'[n]) \in Nat /\ commitIndex[n] \in Nat
    BY <1>8, CommitAfterType DEF TypeOK
  <2> QED
    BY <1>4, <2>1, CommitToType
<1>10. msgs' \in SUBSET Message
  <2>1. MinOf(claim, act.verified) \in Nat /\ NO_INDEX \in Nat
    BY <1>2, <1>7, MinMaxType DEF NO_INDEX
  <2>2. act.replyTo # None =>
          AppendResp(n, act.replyTo, act.replyTerm, TRUE, MinOf(claim, act.verified), NO_INDEX)
            \in Message
    BY <1>2, <2>1, NewMessages, ServerAssumption
  <2> QED
    BY <1>4, <2>2, SendType DEF TypeOK
<1> QED
  BY <1>1, <1>3, <1>8, <1>9, <1>10
  DEF LogIsDurable, TypeOK, electionVars, leaderVars

-----------------------------------------------------------------------------
LEMMA NextTypes ==
    ASSUME TypeOK, Next
    PROVE  TypeOK'
<1>1. PICK n \in Server :
        \/ ElectionTimeout(n)
        \/ Heartbeat(n)
        \/ \E c \in Cmd : Propose(n, c)
        \/ Restart(n)
        \/ \E k \in 1..Len(batches[n]) :
              CampaignDurable(n, k) \/ ReplyDurable(n, k) \/ LogIsDurable(n, k)
        \/ \E m \in msgs :
              \/ RefuseStale(n, m) \/ HandleNewerTermResp(n, m)
              \/ HandleVoteRequest(n, m) \/ RepeatVoteAnswer(n, m) \/ HandleVoteResp(n, m)
              \/ HandlePreVote(n, m) \/ HandlePreVoteResp(n, m)
              \/ RejectAppend(n, m) \/ AcceptAppend(n, m) \/ ConfirmAppend(n, m)
              \/ HandleAppendAck(n, m) \/ HandleAppendNack(n, m)
  BY DEF Next
<1> QED
  BY <1>1, ElectionTimeoutTypes, HeartbeatTypes, ProposeTypes, RestartTypes,
     CampaignDurableTypes, ReplyDurableTypes, LogIsDurableTypes,
     RefuseStaleTypes, HandleNewerTermRespTypes, HandleVoteRequestTypes,
     RepeatVoteAnswerTypes, HandleVoteRespTypes, HandlePreVoteTypes,
     HandlePreVoteRespTypes, RejectAppendTypes, AcceptAppendTypes,
     ConfirmAppendTypes, HandleAppendAckTypes, HandleAppendNackTypes

(* Every reachable state has the shapes `struct Raft`, `Batch` and `RaftMsg` *)
(* declare; in particular `next_index` never falls to 0, so the `- 1` of     *)
(* `send_append_to` cannot underflow.                                        *)
THEOREM TypeCorrect == Spec => []TypeOK
<1>1. Init => TypeOK
  BY InitTypes
<1>2. TypeOK /\ [Next]_vars => TypeOK'
  BY NextTypes, RestNothing
<1> QED
  BY <1>1, <1>2, PTL DEF Spec

-----------------------------------------------------------------------------
(* What a node has said. *)

Queued(n) == 1..Len(batches[n])

(* From disk to memory the hard states of a node only grow; the synced     *)
(* batches are those issued first.                                         *)
Chain(n) ==
    /\ Le(durableHard[n], disk[n].hard)
    /\ durableTerm[n] <= disk[n].hard.term
    /\ Le(disk[n].hard, Hard(n))
    /\ \A i \in Queued(n) :
         /\ Le(batches[n][i].hard, Hard(n))
         /\ batches[n][i].synced => Le(batches[n][i].hard, disk[n].hard)
         /\ ~batches[n][i].synced => Le(disk[n].hard, batches[n][i].hard)
         /\ \A j \in i..Len(batches[n]) :
              /\ Le(batches[n][i].hard, batches[n][j].hard)
              /\ batches[n][j].synced => batches[n][i].synced

(* A candidate or leader votes for itself in its term, wherever that term  *)
(* is written.                                                             *)
Standing(n) == role[n] # "Follower" =>
    /\ votedFor[n] = n
    /\ disk[n].hard.term = term[n] => disk[n].hard.vote = n
    /\ \A i \in Queued(n) :
         batches[n][i].hard.term = term[n] => batches[n][i].hard.vote = n

IsGrant(m) == m.type = "RequestVoteResp" /\ m.granted

(* An answer that waits in the queue is the node's own, and a vote it      *)
(* grants is the one its batch writes; a campaign is for the term that its *)
(* batch writes.                                                           *)
RepliesWell(n, b) ==
    /\ b.act.kind = "Reply" =>
         /\ b.act.msg.from = n
         /\ IsGrant(b.act.msg) => b.hard = [term |-> b.act.msg.term, vote |-> b.act.msg.to]
    /\ b.act.kind = "Campaign" => b.act.term = b.hard.term

Replies(n) == \A i \in Queued(n) : RepliesWell(n, batches[n][i])

(* The messages that show how their sender voted in their term.            *)
Binding(m) == IsGrant(m) \/ m.type = "AppendEntries"
Cast(m) == [term |-> m.term, vote |-> IF IsGrant(m) THEN m.to ELSE m.from]

(* What was said is on the disk, agrees with what is on its way there, and *)
(* with whatever else was said in that term.                               *)
Spoken ==
    /\ \A m \in msgs : m.term <= disk[m.from].hard.term
    /\ \A m \in msgs : Binding(m) =>
         /\ Le(Cast(m), disk[m.from].hard)
         /\ \A i \in Queued(m.from) : batches[m.from][i].hard.term = m.term
              => batches[m.from][i].hard.vote \in {None, Cast(m).vote}
         /\ \A o \in msgs : Binding(o) /\ o.from = m.from /\ o.term = m.term
              => Cast(o).vote = Cast(m).vote

(* Every vote counted was granted, and every leader was elected.           *)
Elected(p, t) == \E Q \in SUBSET Server :
    IsQuorum(Q) /\ \A v \in Q : v = p \/ Granted(v, p, t)

Counted ==
    /\ \A n \in Server : \A v \in votes[n] : v = n \/ Granted(v, n, term[n])
    /\ \A n \in Server : role[n] = "Leader" => IsQuorum(votes[n])
    /\ \A m \in msgs : m.type = "AppendEntries" => Elected(m.from, m.term)

VoteInv ==
    /\ \A n \in Server : Chain(n) /\ Standing(n) /\ Replies(n)
    /\ Spoken
    /\ Counted

-----------------------------------------------------------------------------
(* What a step of node n may do, for this argument. *)

(* It leaves the other nodes alone. *)
Alone(n) == \A p \in Server \ {n} :
    /\ term'[p] = term[p] /\ votedFor'[p] = votedFor[p]
    /\ role'[p] = role[p] /\ votes'[p] = votes[p]
    /\ durableTerm'[p] = durableTerm[p] /\ durableHard'[p] = durableHard[p]
    /\ disk'[p] = disk[p] /\ batches'[p] = batches[p]

(* A batch written in this step. *)
IsNew(n, b) == b.hard = Hard(n)' /\ ~b.synced

(* The queue and at most one new batch. *)
Writes(n) ==
    /\ disk'[n] = disk[n]
    /\ durableTerm'[n] = durableTerm[n] /\ durableHard'[n] = durableHard[n]
    /\ Le(Hard(n), Hard(n)')
    /\ Len(batches'[n]) \in {Len(batches[n]), Len(batches[n]) + 1}
    /\ \A i \in Queued(n) : /\ batches'[n][i].hard = batches[n][i].hard
                            /\ batches'[n][i].synced = batches[n][i].synced
    /\ \A i \in Queued(n)' : i > Len(batches[n]) => IsNew(n, batches'[n][i])

(* The sync of batch k, and at most one new batch. *)
Syncs(n, k) ==
    /\ SyncDone(n, k)
    /\ Hard(n)' = Hard(n)
    /\ Len(batches'[n]) \in {Len(batches[n]) - 1, Len(batches[n])}
    /\ \A i \in 1..(Len(batches[n]) - 1) :
         /\ batches'[n][i].hard = batches[n][IF i < k THEN i ELSE i + 1].hard
         /\ batches'[n][i].synced = (i < k \/ batches[n][i + 1].synced)
    /\ \A i \in Queued(n)' : i >= Len(batches[n]) => IsNew(n, batches'[n][i])

(* A crash: the disk keeps what it has, or some unsynced batch. *)
Crashes(n) ==
    /\ batches'[n] = <<>>
    /\ \/ disk'[n].hard = disk[n].hard
       \/ \E i \in Queued(n) : ~batches[n][i].synced /\ disk'[n].hard = batches[n][i].hard
    /\ Hard(n)' = disk'[n].hard
    /\ durableHard'[n] = disk'[n].hard /\ durableTerm'[n] = disk'[n].hard.term
    /\ role'[n] = "Follower"

Stores(n) == Writes(n) \/ (\E k \in Queued(n) : Syncs(n, k)) \/ Crashes(n)

(* A node gives up, stands for a later term, or goes on in its own. *)
Campaigns(n) ==
    \/ role'[n] = "Follower" /\ votes'[n] = {}
    \/ /\ role'[n] = "Candidate" /\ term'[n] > term[n]
       /\ votedFor'[n] = n /\ votes'[n] = {n}
    \/ /\ term'[n] = term[n]
       /\ role[n] = "Follower" => role'[n] = "Follower"
       /\ votedFor[n] # None => votedFor'[n] = votedFor[n]
       /\ \A v \in votes'[n] : v \in votes[n] \/ Granted(v, n, term[n])
       /\ role'[n] = "Leader" => \/ IsQuorum(votes'[n])
                                 \/ role[n] = "Leader" /\ votes'[n] = votes[n]

(* It sends what is durable, as a leader appends, and a vote it has cast. *)
Speaks(n) ==
    /\ msgs \subseteq msgs'
    /\ \A m \in msgs' \ msgs :
         /\ m.from = n /\ m.term <= durableTerm'[n]
         /\ m.type = "AppendEntries" => role'[n] = "Leader" /\ m.term = term'[n]
    /\ \E h \in {batches[n][i].hard : i \in Queued(n)} \cup {Hard(n)} :
         \A m \in msgs' \ msgs : IsGrant(m) => Cast(m) = h /\ Le(h, disk'[n].hard)

Step(n) == Alone(n) /\ Stores(n) /\ Replies(n)' /\ Campaigns(n) /\ Speaks(n)

-----------------------------------------------------------------------------
(* The order of hard states. *)

LEMMA LeReflexive ==
    ASSUME NEW h \in HardState
    PROVE  Le(h, h)
BY DEF Le, HardState

LEMMA LeTransitive ==
    ASSUME NEW h \in HardState, NEW k \in HardState, NEW l \in HardState, Le(h, k), Le(k, l)
    PROVE  Le(h, l)
BY DEF Le, HardState

(* Two states of one term, one of which is a vote, agree. *)
LEMMA LeAgree ==
    ASSUME NEW h \in HardState, NEW k \in HardState, Le(h, k) \/ Le(k, h),
           h.term = k.term, h.vote # None
    PROVE  k.vote \in {None, h.vote}
BY DEF Le, HardState

LEMMA LeTerm ==
    ASSUME NEW h \in HardState, NEW k \in HardState, Le(h, k)
    PROVE  /\ h.term <= k.term
           /\ h.term = k.term /\ h.vote # None => k.vote = h.vote
           /\ h.term >= k.term => h.term = k.term
BY DEF Le, HardState

(* The types this argument needs, of one node. *)
HardTyped(n) ==
    /\ Hard(n) \in HardState /\ disk[n].hard \in HardState
    /\ durableHard[n] \in HardState /\ durableTerm[n] \in Nat
    /\ Hard(n).term = term[n] /\ Hard(n).vote = votedFor[n]
    /\ Len(batches[n]) \in Nat
    /\ \A i \in Queued(n) : /\ batches[n][i].hard \in HardState
                            /\ batches[n][i].synced \in BOOLEAN
                            /\ batches[n][i].act \in Act

LEMMA HardTypes == TypeOK => \A n \in Server : HardTyped(n)
<1> SUFFICES ASSUME TypeOK, NEW n \in Server
             PROVE  HardTyped(n)
  OBVIOUS
<1>1. /\ batches[n] \in Seq(Batch) /\ disk[n] \in Image /\ term[n] \in Nat
      /\ votedFor[n] \in Server \cup {None} /\ durableHard[n] \in HardState
      /\ durableTerm[n] \in Nat
  BY DEF TypeOK
<1>2. Hard(n) \in HardState /\ Hard(n).term = term[n] /\ Hard(n).vote = votedFor[n]
  BY <1>1 DEF Hard, HardState
<1>3. disk[n].hard \in HardState
  BY <1>1 DEF Image
<1>4. \A i \in Queued(n) : batches[n][i] \in Batch
  BY <1>1 DEF Queued
<1>5. \A b \in Batch : b.hard \in HardState /\ b.synced \in BOOLEAN /\ b.act \in Act
  BY DEF Batch
<1> QED
  BY <1>1, <1>2, <1>3, <1>4, <1>5 DEF HardTyped

LEMMA HardTypesNext == TypeOK' => \A n \in Server : HardTyped(n)'
<1>1. TypeOK' => (\A n \in Server : HardTyped(n))'
  BY HardTypes, PTL
<1> QED
  BY <1>1

-----------------------------------------------------------------------------
(* The chain. *)

LEMMA WritesKeepChain ==
    ASSUME TypeOK, TypeOK', NEW n \in Server, Chain(n), Writes(n)
    PROVE  Chain(n)'
<1>1. /\ Hard(n) \in HardState /\ Hard(n)' \in HardState /\ disk[n].hard \in HardState
      /\ Len(batches[n]) \in Nat /\ Len(batches'[n]) \in Nat
      /\ \A i \in Queued(n) : batches[n][i].hard \in HardState
  BY HardTypes, HardTypesNext DEF HardTyped
<1>2. Le(disk[n].hard, Hard(n)') /\ \A i \in Queued(n) : Le(batches[n][i].hard, Hard(n)')
  BY <1>1, LeTransitive DEF Chain, Writes
<1>3. ASSUME NEW i \in Queued(n)'
      PROVE  /\ Le(batches'[n][i].hard, Hard(n)')
             /\ batches'[n][i].synced => Le(batches'[n][i].hard, disk'[n].hard)
             /\ ~batches'[n][i].synced => Le(disk'[n].hard, batches'[n][i].hard)
  <2>1. CASE i \in Queued(n)
    BY <1>2, <2>1 DEF Chain, Writes
  <2>2. CASE i > Len(batches[n])
    BY <1>1, <1>2, <2>2, LeReflexive DEF Writes, IsNew
  <2> QED
    BY <1>1, <2>1, <2>2 DEF Queued
<1>4. ASSUME NEW i \in Queued(n)', NEW j \in i..Len(batches'[n])
      PROVE  /\ Le(batches'[n][i].hard, batches'[n][j].hard)
             /\ batches'[n][j].synced => batches'[n][i].synced
  <2>0. j \in Queued(n)' /\ i \in Nat /\ j \in Nat /\ i <= j
    BY <1>1 DEF Queued
  <2>1. CASE j \in Queued(n)
    <3>1. i \in Queued(n) /\ j \in i..Len(batches[n])
      BY <2>0, <2>1 DEF Queued
    <3> QED
      BY <2>1, <3>1 DEF Chain, Writes
  <2>2. CASE j > Len(batches[n])
    <3>1. batches'[n][j].hard = Hard(n)' /\ ~batches'[n][j].synced
      BY <2>0, <2>2 DEF Writes, IsNew
    <3> QED
      BY <1>3, <3>1
  <2> QED
    BY <1>1, <2>0, <2>1, <2>2 DEF Queued
<1>5. /\ Le(durableHard[n], disk[n].hard)' /\ (durableTerm[n] <= disk[n].hard.term)'
      /\ Le(disk[n].hard, Hard(n))'
  BY <1>2 DEF Chain, Writes
<1> QED
  BY <1>3, <1>4, <1>5 DEF Chain, Queued

(* Where the batches of the next queue come from when batch k is synced. *)
LEMMA SyncsQueue ==
    ASSUME TypeOK, TypeOK', NEW n \in Server, NEW k \in Queued(n), Syncs(n, k)
    PROVE  \A i \in Queued(n)' :
             \/ /\ i \in Queued(n) /\ i < k
                /\ batches'[n][i].hard = batches[n][i].hard /\ batches'[n][i].synced
             \/ /\ i + 1 \in Queued(n) /\ i >= k
                /\ batches'[n][i].hard = batches[n][i + 1].hard
                /\ batches'[n][i].synced = batches[n][i + 1].synced
             \/ i = Len(batches[n]) /\ IsNew(n, batches'[n][i])
<1>1. /\ Len(batches[n]) \in Nat /\ Len(batches'[n]) \in Nat
      /\ \A i \in Queued(n) : batches[n][i].synced \in BOOLEAN
      /\ \A i \in Queued(n)' : batches'[n][i].synced \in BOOLEAN
  BY HardTypes, HardTypesNext DEF HardTyped
<1> SUFFICES ASSUME NEW i \in Queued(n)'
             PROVE  \/ /\ i \in Queued(n) /\ i < k
                       /\ batches'[n][i].hard = batches[n][i].hard /\ batches'[n][i].synced
                    \/ /\ i + 1 \in Queued(n) /\ i >= k
                       /\ batches'[n][i].hard = batches[n][i + 1].hard
                       /\ batches'[n][i].synced = batches[n][i + 1].synced
                    \/ i = Len(batches[n]) /\ IsNew(n, batches'[n][i])
  OBVIOUS
<1>2. i \in Nat /\ 1 <= i /\ i <= Len(batches'[n]) /\ k \in Nat /\ 1 <= k /\ k <= Len(batches[n])
      /\ Len(batches'[n]) <= Len(batches[n])
  BY <1>1 DEF Queued, Syncs
<1>3. CASE i >= Len(batches[n])
  BY <1>1, <1>2, <1>3 DEF Syncs
<1>4. CASE i < Len(batches[n]) /\ i < k
  BY <1>1, <1>2, <1>4 DEF Syncs, Queued
<1>5. CASE i < Len(batches[n]) /\ i >= k
  <2>1. i \in 1..(Len(batches[n]) - 1) /\ i + 1 \in Queued(n) /\ ~(i < k)
    BY <1>1, <1>2, <1>5 DEF Queued
  <2>2. batches'[n][i].synced = (i < k \/ batches[n][i + 1].synced)
    BY <2>1 DEF Syncs
  <2> QED
    BY <1>1, <1>5, <2>1, <2>2 DEF Syncs
<1> QED
  BY <1>1, <1>2, <1>3, <1>4, <1>5

(* After the sync of batch k the disk is at or above it, and at or above   *)
(* where it was.                                                           *)
LEMMA SyncsDisk ==
    ASSUME TypeOK, NEW n \in Server, Chain(n), NEW k \in Queued(n), SyncDone(n, k)
    PROVE  /\ Le(disk[n].hard, disk'[n].hard)
           /\ Le(batches[n][k].hard, disk'[n].hard)
           /\ Le(durableHard'[n], disk'[n].hard)
           /\ batches[n][k].synced => disk'[n] = disk[n]
           /\ ~batches[n][k].synced => disk'[n].hard = batches[n][k].hard
           /\ disk'[n].hard \in HardState
<1>1. /\ batches[n][k].hard \in HardState /\ disk[n].hard \in HardState
      /\ durableHard[n] \in HardState /\ batches[n][k].synced \in BOOLEAN
  BY HardTypes DEF HardTyped
<1>2. disk \in [Server -> Image] /\ durableHard \in [Server -> HardState]
  BY DEF TypeOK
<1>3. CASE batches[n][k].synced
  <2>1. disk'[n] = disk[n]
    BY <1>3 DEF SyncDone
  <2>2. durableHard'[n] \in {durableHard[n], batches[n][k].hard}
    BY <1>2 DEF SyncDone
  <2> QED
    BY <1>1, <1>3, <2>1, <2>2, LeReflexive DEF Chain
<1>4. CASE ~batches[n][k].synced
  <2>1. disk'[n].hard = batches[n][k].hard
    BY <1>2, <1>4 DEF SyncDone
  <2>2. durableHard'[n] \in {durableHard[n], batches[n][k].hard}
    BY <1>2 DEF SyncDone
  <2>3. Le(disk[n].hard, batches[n][k].hard) /\ Le(durableHard[n], disk[n].hard)
    BY <1>4 DEF Chain
  <2> QED
    BY <1>1, <1>4, <2>1, <2>2, <2>3, LeReflexive, LeTransitive
<1> QED
  BY <1>1, <1>3, <1>4

LEMMA SyncsKeepChain ==
    ASSUME TypeOK, TypeOK', NEW n \in Server, Chain(n), NEW k \in Queued(n), Syncs(n, k)
    PROVE  Chain(n)'
<1> DEFINE q == batches[n]
           r == batches'[n]
<1>1. /\ Hard(n) \in HardState /\ disk[n].hard \in HardState /\ disk'[n].hard \in HardState
      /\ durableTerm[n] \in Nat
      /\ Len(q) \in Nat /\ Len(r) \in Nat
      /\ \A i \in Queued(n) : q[i].hard \in HardState /\ q[i].synced \in BOOLEAN
      /\ \A i \in Queued(n)' : r[i].hard \in HardState /\ r[i].synced \in BOOLEAN
  BY HardTypes, HardTypesNext DEF HardTyped
<1>2. /\ Le(disk[n].hard, disk'[n].hard) /\ Le(q[k].hard, disk'[n].hard)
      /\ Le(durableHard'[n], disk'[n].hard)
      /\ q[k].synced => disk'[n] = disk[n]
      /\ ~q[k].synced => disk'[n].hard = q[k].hard
  BY SyncsDisk DEF Syncs
<1>3. Hard(n)' = Hard(n) /\ k \in Nat /\ 1 <= k /\ k <= Len(q)
  BY <1>1 DEF Syncs, Queued
<1>4. Le(disk'[n].hard, Hard(n))
  BY <1>1, <1>2 DEF Chain
<1>5. durableTerm'[n] <= disk'[n].hard.term
  <2>1. durableTerm'[n] \in {durableTerm[n], q[k].hard.term}
    <3>1. durableTerm \in [Server -> Nat]
      BY DEF TypeOK
    <3> QED
      BY <3>1 DEF Syncs, SyncDone, MaxOf
  <2>2. durableTerm[n] <= disk[n].hard.term
    BY DEF Chain
  <2>3. disk[n].hard.term <= disk'[n].hard.term /\ q[k].hard.term <= disk'[n].hard.term
    BY <1>1, <1>2, LeTerm
  <2>4. disk[n].hard.term \in Nat /\ disk'[n].hard.term \in Nat /\ q[k].hard.term \in Nat
    BY <1>1 DEF HardState
  <2> HIDE DEF q, r
  <2> QED
    BY <1>1, <2>1, <2>2, <2>3, <2>4
<1>6. \A i \in Queued(n)' :
        \/ i \in Queued(n) /\ i < k /\ r[i].hard = q[i].hard /\ r[i].synced
        \/ /\ i + 1 \in Queued(n) /\ i >= k
           /\ r[i].hard = q[i + 1].hard /\ r[i].synced = q[i + 1].synced
        \/ i = Len(q) /\ r[i].hard = Hard(n) /\ ~r[i].synced
  BY <1>3, SyncsQueue DEF IsNew
<1>7. ASSUME NEW i \in Queued(n)'
      PROVE  /\ Le(r[i].hard, Hard(n))
             /\ r[i].synced => Le(r[i].hard, disk'[n].hard)
             /\ ~r[i].synced => Le(disk'[n].hard, r[i].hard)
  <2>1. CASE i \in Queued(n) /\ i < k /\ r[i].hard = q[i].hard /\ r[i].synced
    <3>1. k \in i..Len(q)
      BY <1>1, <1>3, <2>1 DEF Queued
    <3>2. Le(q[i].hard, q[k].hard) /\ Le(q[i].hard, Hard(n))
      BY <2>1, <3>1 DEF Chain
    <3> QED
      BY <1>1, <1>2, <2>1, <3>2, LeTransitive
  <2>2. CASE /\ i + 1 \in Queued(n) /\ i >= k
             /\ r[i].hard = q[i + 1].hard /\ r[i].synced = q[i + 1].synced
    <3>1. i + 1 \in k..Len(q)
      BY <1>1, <1>3, <2>2 DEF Queued
    <3>2. /\ Le(q[k].hard, q[i + 1].hard) /\ Le(q[i + 1].hard, Hard(n))
          /\ q[i + 1].synced => q[k].synced /\ Le(q[i + 1].hard, disk[n].hard)
          /\ ~q[i + 1].synced => Le(disk[n].hard, q[i + 1].hard)
      BY <2>2, <3>1 DEF Chain
    <3>3. CASE q[k].synced
      BY <1>2, <2>2, <3>2, <3>3
    <3>4. CASE ~q[k].synced
      BY <1>2, <2>2, <3>2, <3>4
    <3> QED
      BY <3>3, <3>4
  <2>3. CASE i = Len(q) /\ r[i].hard = Hard(n) /\ ~r[i].synced
    BY <1>1, <1>4, <2>3, LeReflexive
  <2> QED
    BY <1>6, <2>1, <2>2, <2>3
<1>8. ASSUME NEW i \in Queued(n)', NEW j \in i..Len(r)
      PROVE  /\ Le(r[i].hard, r[j].hard)
             /\ r[j].synced => r[i].synced
  <2>1. j \in Queued(n)' /\ i \in Nat /\ j \in Nat /\ i <= j
    BY <1>1 DEF Queued
  <2>2. CASE j = Len(q) /\ r[j].hard = Hard(n) /\ ~r[j].synced
    BY <1>7, <2>2
  <2>3. CASE j < k /\ j \in Queued(n) /\ r[j].hard = q[j].hard /\ r[j].synced
    <3>1. i < k /\ i \in Queued(n) /\ j \in i..Len(q)
      BY <1>1, <1>3, <2>1, <2>3 DEF Queued
    <3>2. r[i].hard = q[i].hard /\ r[i].synced
      BY <1>1, <1>3, <1>6, <2>1, <3>1 DEF Queued
    <3> QED
      BY <2>3, <3>1, <3>2 DEF Chain
  <2>4. CASE /\ j + 1 \in Queued(n) /\ j >= k
             /\ r[j].hard = q[j + 1].hard /\ r[j].synced = q[j + 1].synced
    <3>1. CASE i < k
      <4>1. i \in Queued(n) /\ j + 1 \in i..Len(q)
        BY <1>1, <1>3, <2>1, <2>4, <3>1 DEF Queued
      <4>2. r[i].hard = q[i].hard /\ r[i].synced
        BY <1>1, <1>3, <1>6, <2>1, <3>1 DEF Queued
      <4> QED
        BY <2>4, <4>1, <4>2 DEF Chain
    <3>2. CASE i >= k
      <4>1. i + 1 \in Queued(n) /\ j + 1 \in (i + 1)..Len(q) /\ i < Len(q)
        BY <1>1, <1>3, <2>1, <2>4, <3>2 DEF Queued
      <4>2. r[i].hard = q[i + 1].hard /\ r[i].synced = q[i + 1].synced
        BY <1>1, <1>3, <1>6, <2>1, <3>2, <4>1
      <4> QED
        BY <2>4, <4>1, <4>2 DEF Chain
    <3> QED
      BY <1>3, <2>1, <3>1, <3>2
  <2> QED
    BY <1>6, <2>1, <2>2, <2>3, <2>4
<1> QED
  BY <1>2, <1>3, <1>4, <1>5, <1>7, <1>8 DEF Chain, Queued

LEMMA CrashesKeepChain ==
    ASSUME TypeOK, TypeOK', NEW n \in Server, Chain(n), Crashes(n)
    PROVE  Chain(n)'
<1>1. disk'[n].hard \in HardState /\ Queued(n)' = {}
  <2>1. batches'[n] = <<>>
    BY DEF Crashes
  <2> QED
    BY <2>1, HardTypesNext DEF HardTyped, Queued
<1> QED
  BY <1>1, LeReflexive DEF Chain, Crashes, HardState

LEMMA ChainIsKept ==
    ASSUME TypeOK, TypeOK', NEW n \in Server, Chain(n), Stores(n)
    PROVE  Chain(n)'
BY WritesKeepChain, SyncsKeepChain, CrashesKeepChain DEF Stores

(* No step, and no crash, takes a disk back.                               *)
LEMMA DiskGrows ==
    ASSUME TypeOK, NEW n \in Server, Chain(n), Stores(n)
    PROVE  Le(disk[n].hard, disk'[n].hard)
<1>1. disk[n].hard \in HardState
  BY HardTypes DEF HardTyped
<1>2. CASE Writes(n)
  BY <1>1, <1>2, LeReflexive DEF Writes
<1>3. ASSUME NEW k \in Queued(n), Syncs(n, k)
      PROVE  Le(disk[n].hard, disk'[n].hard)
  BY <1>3, SyncsDisk DEF Syncs
<1>4. CASE Crashes(n)
  BY <1>1, <1>4, LeReflexive DEF Crashes, Chain
<1> QED
  BY <1>2, <1>3, <1>4 DEF Stores

(* The hard states in the next queue were there, or are the memory.        *)
LEMMA QueueOrigin ==
    ASSUME TypeOK, TypeOK', NEW n \in Server, Stores(n), NEW i \in Queued(n)'
    PROVE  \/ batches'[n][i].hard = Hard(n)'
           \/ \E j \in Queued(n) : batches'[n][i].hard = batches[n][j].hard
<1>1. Len(batches[n]) \in Nat /\ Len(batches'[n]) \in Nat /\ i \in Nat /\ i >= 1
  BY HardTypes, HardTypesNext DEF HardTyped, Queued
<1>2. CASE Writes(n)
  BY <1>1, <1>2 DEF Writes, Queued, IsNew
<1>3. ASSUME NEW k \in Queued(n), Syncs(n, k)
      PROVE  \/ batches'[n][i].hard = Hard(n)'
             \/ \E j \in Queued(n) : batches'[n][i].hard = batches[n][j].hard
  BY <1>3, SyncsQueue DEF IsNew
<1>4. CASE Crashes(n)
  BY <1>4 DEF Crashes, Queued
<1> QED
  BY <1>2, <1>3, <1>4 DEF Stores

(* What is on the disk was there, or was in the queue. *)
LEMMA DiskOrigin ==
    ASSUME TypeOK, NEW n \in Server, Chain(n), Stores(n)
    PROVE  \/ disk'[n].hard = disk[n].hard
           \/ \E j \in Queued(n) : disk'[n].hard = batches[n][j].hard
<1>1. CASE Writes(n)
  BY <1>1 DEF Writes
<1>2. ASSUME NEW k \in Queued(n), Syncs(n, k)
      PROVE  disk'[n].hard = disk[n].hard \/ disk'[n].hard = batches[n][k].hard
  BY <1>2, SyncsDisk DEF Syncs
<1>3. CASE Crashes(n)
  BY <1>3 DEF Crashes
<1> QED
  BY <1>1, <1>2, <1>3 DEF Stores

LEMMA StandingIsKept ==
    ASSUME TypeOK, TypeOK', NEW n \in Server, Chain(n), Standing(n), Stores(n), Campaigns(n)
    PROVE  Standing(n)'
<1>1. /\ term[n] \in Nat /\ term'[n] \in Nat /\ n # None
      /\ Hard(n) \in HardState /\ Hard(n).term = term[n]
      /\ Hard(n)'.term = term'[n] /\ Hard(n)'.vote = votedFor'[n]
      /\ disk[n].hard \in HardState
      /\ \A i \in Queued(n) : batches[n][i].hard \in HardState
  BY HardTypes, HardTypesNext, ServerAssumption DEF HardTyped, TypeOK
<1> SUFFICES ASSUME role'[n] # "Follower"
             PROVE  /\ votedFor'[n] = n
                    /\ disk'[n].hard.term = term'[n] => disk'[n].hard.vote = n
                    /\ \A i \in Queued(n)' : batches'[n][i].hard.term = term'[n]
                         => batches'[n][i].hard.vote = n
  BY DEF Standing
<1>2. CASE role'[n] = "Candidate" /\ term'[n] > term[n] /\ votedFor'[n] = n
  <2>1. /\ disk[n].hard.term <= term[n]
        /\ \A i \in Queued(n) : batches[n][i].hard.term <= term[n]
    BY <1>1, LeTerm DEF Chain
  <2>2. disk[n].hard.term \in Nat /\ \A i \in Queued(n) : batches[n][i].hard.term \in Nat
    BY <1>1 DEF HardState
  <2>3. disk'[n].hard.term # term'[n]
    BY <1>1, <1>2, <2>1, <2>2, DiskOrigin
  <2>4. ASSUME NEW i \in Queued(n)', batches'[n][i].hard.term = term'[n]
        PROVE  batches'[n][i].hard.vote = n
    BY <1>1, <1>2, <2>1, <2>2, <2>4, QueueOrigin
  <2> QED
    BY <1>2, <2>3, <2>4
<1>3. CASE /\ term'[n] = term[n] /\ role[n] # "Follower"
           /\ votedFor[n] # None => votedFor'[n] = votedFor[n]
  <2>1. /\ votedFor'[n] = n /\ votedFor[n] = n
        /\ disk[n].hard.term = term[n] => disk[n].hard.vote = n
        /\ \A i \in Queued(n) :
             batches[n][i].hard.term = term[n] => batches[n][i].hard.vote = n
    BY <1>1, <1>3 DEF Standing
  <2>2. disk'[n].hard.term = term'[n] => disk'[n].hard.vote = n
    BY <1>3, <2>1, DiskOrigin
  <2>3. ASSUME NEW i \in Queued(n)', batches'[n][i].hard.term = term'[n]
        PROVE  batches'[n][i].hard.vote = n
    BY <1>1, <1>3, <2>1, <2>3, QueueOrigin
  <2> QED
    BY <2>1, <2>2, <2>3
<1> QED
  BY <1>2, <1>3 DEF Campaigns

-----------------------------------------------------------------------------
(* What was said. *)

LEMMA CastTypes ==
    ASSUME NEW m \in Message
    PROVE  /\ Cast(m) \in HardState /\ Cast(m).vote \in Server /\ Cast(m).vote # None
           /\ Cast(m).term = m.term /\ m.from \in Server /\ m.term \in Nat
           /\ IsGrant(m) => Cast(m).vote = m.to
           /\ ~IsGrant(m) => Cast(m).vote = m.from
           /\ m.type = "AppendEntries" => ~IsGrant(m)
<1>1. m.from \in Server /\ m.to \in Server /\ m.term \in Nat
  BY MessageTypes
<1>2. (IF IsGrant(m) THEN m.to ELSE m.from) \in Server
  BY <1>1
<1> QED
  BY <1>1, <1>2, ServerAssumption DEF Cast, HardState, IsGrant

(* An append just sent states the vote that is on the sender's disk.       *)
LEMMA AppendCast ==
    ASSUME TypeOK', NEW n \in Server, Chain(n)', Standing(n)', NEW m \in Message,
           m.type = "AppendEntries", m.from = n, m.term <= durableTerm'[n],
           role'[n] = "Leader", m.term = term'[n]
    PROVE  Cast(m) = disk'[n].hard
<1>1. /\ disk'[n].hard \in HardState /\ Hard(n)' \in HardState /\ durableTerm'[n] \in Nat
      /\ Hard(n)'.term = term'[n]
  BY HardTypesNext DEF HardTyped
<1>2. Cast(m).term = m.term /\ Cast(m).vote = n /\ m.term \in Nat /\ Cast(m) \in HardState
  BY CastTypes
<1>3. durableTerm'[n] <= disk'[n].hard.term /\ disk'[n].hard.term <= term'[n]
  BY <1>1, LeTerm DEF Chain
<1>4. disk'[n].hard.term = m.term
  BY <1>1, <1>2, <1>3 DEF HardState
<1>5. disk'[n].hard.vote = n
  BY <1>4 DEF Standing
<1> QED
  BY <1>1, <1>2, <1>4, <1>5 DEF HardState

LEMMA SpokenIsKept ==
    ASSUME TypeOK, TypeOK', NEW n \in Server, \A p \in Server : Chain(p),
           Chain(n)', Standing(n)', Spoken, Alone(n), Stores(n), Speaks(n)
    PROVE  Spoken'
<1>1. /\ msgs \in SUBSET Message /\ msgs' \in SUBSET Message /\ msgs \subseteq msgs'
  BY DEF TypeOK, Speaks
<1>2. /\ Hard(n) \in HardState /\ Hard(n)' \in HardState
      /\ \A i \in Queued(n) : batches[n][i].hard \in HardState
      /\ \A p \in Server : disk[p].hard \in HardState /\ disk'[p].hard \in HardState
      /\ durableTerm'[n] \in Nat
      /\ \A i \in Queued(n)' : batches'[n][i].hard \in HardState
  BY HardTypes, HardTypesNext DEF HardTyped
<1>3. \A p \in Server : Le(disk[p].hard, disk'[p].hard)
  <2>1. \A p \in Server \ {n} : disk'[p] = disk[p]
    BY DEF Alone
  <2> QED
    BY <1>2, <2>1, DiskGrows, LeReflexive
<1>4. PICK h \in {batches[n][i].hard : i \in Queued(n)} \cup {Hard(n)} :
         \A m \in msgs' \ msgs : IsGrant(m) => Cast(m) = h /\ Le(h, disk'[n].hard)
  BY DEF Speaks
<1>5. \A m \in msgs' \ msgs :
        /\ m.from = n /\ m.term <= durableTerm'[n]
        /\ m.type = "AppendEntries" => Cast(m) = disk'[n].hard
        /\ Binding(m) /\ ~IsGrant(m) => Cast(m) = disk'[n].hard
  BY <1>1, AppendCast DEF Speaks, Binding
<1>6. ASSUME NEW m \in msgs'
      PROVE  m.term <= disk'[m.from].hard.term
  <2>1. m \in Message /\ m.from \in Server /\ m.term \in Nat
    BY <1>1, MessageTypes
  <2>2. CASE m \in msgs
    <3>1. m.term <= disk[m.from].hard.term
      BY <2>2 DEF Spoken
    <3>2. disk[m.from].hard.term <= disk'[m.from].hard.term
      BY <1>2, <1>3, <2>1, LeTerm
    <3> QED
      BY <1>2, <2>1, <3>1, <3>2 DEF HardState
  <2>3. CASE m \notin msgs
    <3>1. m.from = n /\ m.term <= durableTerm'[n] /\ durableTerm'[n] <= disk'[n].hard.term
      BY <1>5, <2>3 DEF Chain
    <3> QED
      BY <1>2, <2>1, <3>1 DEF HardState
  <2> QED
    BY <2>2, <2>3
<1>7. ASSUME NEW m \in msgs', Binding(m)
      PROVE  Le(Cast(m), disk'[m.from].hard)
  <2>1. m \in Message /\ m.from \in Server /\ Cast(m) \in HardState
    BY <1>1, CastTypes
  <2>2. CASE m \in msgs
    <3>1. Le(Cast(m), disk[m.from].hard)
      BY <1>7, <2>2 DEF Spoken
    <3> QED
      BY <1>2, <1>3, <2>1, <3>1, LeTransitive
  <2>3. CASE m \notin msgs
    BY <1>2, <1>4, <1>5, <1>7, <2>3, LeReflexive
  <2> QED
    BY <2>2, <2>3
<1>8. ASSUME NEW m \in msgs', Binding(m), NEW i \in Queued(m.from)',
             batches'[m.from][i].hard.term = m.term
      PROVE  batches'[m.from][i].hard.vote \in {None, Cast(m).vote}
  <2>1. /\ m \in Message /\ m.from \in Server /\ Cast(m) \in HardState
        /\ Cast(m).term = m.term /\ Cast(m).vote # None
    BY <1>1, CastTypes
  <2>2. CASE m.from # n
    <3>1. m \in msgs /\ batches'[m.from] = batches[m.from] /\ i \in Queued(m.from)
      BY <1>5, <1>8, <2>1, <2>2 DEF Alone, Queued
    <3> QED
      BY <1>8, <3>1 DEF Spoken
  <2>3. CASE m.from = n
    <3>1. batches'[n][i].hard \in HardState
      BY <1>2, <1>8, <2>3
    <3>2. SUFFICES Le(Cast(m), batches'[n][i].hard) \/ Le(batches'[n][i].hard, Cast(m))
                   \/ batches'[n][i].hard.vote \in {None, Cast(m).vote}
      BY <1>8, <2>1, <2>3, <3>1, LeAgree
    <3>3. CASE batches'[n][i].hard = Hard(n)'
      <4>1. Le(Cast(m), disk'[n].hard) /\ Le(disk'[n].hard, Hard(n)')
        BY <1>7, <1>8, <2>3 DEF Chain
      <4> QED
        BY <1>2, <2>1, <3>3, <4>1, LeTransitive
    <3>4. ASSUME NEW j \in Queued(n), batches'[n][i].hard = batches[n][j].hard
          PROVE  \/ Le(Cast(m), batches'[n][i].hard) \/ Le(batches'[n][i].hard, Cast(m))
                 \/ batches'[n][i].hard.vote \in {None, Cast(m).vote}
      <4>1. CASE m \in msgs
        BY <1>8, <2>3, <3>4, <4>1 DEF Spoken
      <4>2. CASE m \notin msgs /\ ~IsGrant(m)
        <5>1. Cast(m) = disk'[n].hard
          BY <1>5, <1>8, <4>2
        <5> QED
          BY <1>8, <2>3, <5>1 DEF Chain
      <4>3. CASE m \notin msgs /\ IsGrant(m)
        <5>1. Cast(m) = h
          BY <1>4, <4>3
        <5>2. CASE h = Hard(n)
          BY <3>4, <5>1, <5>2 DEF Chain
        <5>3. ASSUME NEW l \in Queued(n), h = batches[n][l].hard
              PROVE  Le(h, batches[n][j].hard) \/ Le(batches[n][j].hard, h)
          <6>1. l \in j..Len(batches[n]) \/ j \in l..Len(batches[n])
            BY HardTypes DEF HardTyped, Queued
          <6> QED
            BY <5>3, <6>1 DEF Chain
        <5> QED
          BY <1>4, <3>4, <5>1, <5>2, <5>3
      <4> QED
        BY <4>1, <4>2, <4>3
    <3> QED
      BY <1>8, <2>3, <3>3, <3>4, QueueOrigin
  <2> QED
    BY <2>2, <2>3
<1>9. ASSUME NEW m \in msgs', NEW o \in msgs', Binding(m), Binding(o),
             o.from = m.from, o.term = m.term
      PROVE  Cast(o).vote = Cast(m).vote
  <2>1. /\ m \in Message /\ o \in Message
        /\ Cast(m) \in HardState /\ Cast(m).vote # None /\ Cast(m).term = m.term
        /\ Cast(o) \in HardState /\ Cast(o).vote # None /\ Cast(o).term = o.term
    BY <1>1, CastTypes
  <2>2. CASE m \in msgs /\ o \in msgs
    BY <1>9, <2>2 DEF Spoken
  <2>3. ASSUME NEW x \in msgs', NEW y \in msgs', Binding(x), Binding(y), y.from = x.from,
               y.term = x.term, x \notin msgs, ~IsGrant(x)
        PROVE  Cast(y).vote = Cast(x).vote
    <3>1. Cast(x) = disk'[n].hard /\ x.from = n /\ Le(Cast(y), disk'[y.from].hard)
      BY <1>5, <1>7, <2>3
    <3>2. /\ Cast(x) \in HardState /\ Cast(y) \in HardState /\ Cast(y).vote # None
          /\ Cast(x).term = x.term /\ Cast(y).term = y.term
      BY <1>1, <2>3, CastTypes
    <3> QED
      BY <2>3, <3>1, <3>2, LeTerm
  <2>4. ASSUME NEW x \in msgs', NEW y \in msgs', Binding(x), Binding(y), y.from = x.from,
               y.term = x.term, x \notin msgs, IsGrant(x), y \in msgs
        PROVE  Cast(y).vote = Cast(x).vote
    <3>1. Cast(x) = h /\ x.from = n /\ y.from = n
      BY <1>4, <1>5, <2>4
    <3>2. /\ Cast(x) \in HardState /\ Cast(y) \in HardState
          /\ Cast(x).vote # None /\ Cast(y).vote # None
          /\ Cast(x).term = x.term /\ Cast(y).term = y.term
      BY <1>1, <2>4, CastTypes
    <3>3. CASE h = Hard(n)
      <4>1. Le(Cast(y), disk[n].hard) /\ Le(disk[n].hard, h)
        BY <2>4, <3>1, <3>3 DEF Spoken, Chain
      <4>2. Le(Cast(y), h)
        BY <1>2, <3>2, <3>3, <4>1, LeTransitive
      <4> QED
        BY <2>4, <3>1, <3>2, <4>2, LeTerm
    <3>4. ASSUME NEW l \in Queued(n), h = batches[n][l].hard
          PROVE  Cast(y).vote = Cast(x).vote
      <4>1. h.term = y.term
        BY <2>4, <3>1, <3>2
      <4>2. h.vote \in {None, Cast(y).vote}
        BY <2>4, <3>1, <3>4, <4>1 DEF Spoken
      <4> QED
        BY <3>1, <3>2, <4>2
    <3> QED
      BY <1>4, <3>3, <3>4
  <2>5. CASE m \notin msgs /\ o \notin msgs /\ IsGrant(m) /\ IsGrant(o)
    BY <1>4, <2>5
  <2> QED
    BY <1>9, <2>2, <2>3, <2>4, <2>5
<1> QED
  BY <1>6, <1>7, <1>8, <1>9 DEF Spoken

-----------------------------------------------------------------------------
(* Who was elected. *)

LEMMA CountedIsKept ==
    ASSUME TypeOK, TypeOK', NEW n \in Server, Counted, Alone(n), Campaigns(n), Speaks(n)
    PROVE  Counted'
<1>1. \A v, p, t : Granted(v, p, t) => Granted(v, p, t)'
  BY DEF Granted, VoteResp, Speaks
<1>2. ASSUME NEW p \in Server, NEW v \in votes'[p]
      PROVE  v = p \/ Granted(v, p, term[p])'
  <2>1. CASE p # n
    <3>1. v \in votes[p] /\ term'[p] = term[p]
      BY <1>2, <2>1 DEF Alone
    <3>2. v = p \/ Granted(v, p, term[p])
      BY <3>1 DEF Counted
    <3>3. Granted(v, p, term[p]) => VoteResp(v, p, term'[p], TRUE) \in msgs'
      BY <1>1, <3>1 DEF Granted, VoteResp
    <3> QED
      BY <3>2, <3>3 DEF Granted, VoteResp
  <2>2. CASE p = n
    <3>1. CASE votes'[n] = {}
      BY <1>2, <2>2, <3>1
    <3>2. CASE votes'[n] = {n}
      BY <1>2, <2>2, <3>2
    <3>3. CASE /\ term'[n] = term[n]
               /\ \A w \in votes'[n] : w \in votes[n] \/ Granted(w, n, term[n])
      <4>1. v = n \/ Granted(v, n, term[n])
        BY <1>2, <2>2, <3>3 DEF Counted
      <4>2. Granted(v, n, term[n]) => VoteResp(v, n, term'[n], TRUE) \in msgs'
        BY <1>1, <3>3 DEF Granted, VoteResp
      <4> QED
        BY <2>2, <4>1, <4>2 DEF Granted, VoteResp
    <3> QED
      BY <3>1, <3>2, <3>3 DEF Campaigns
  <2> QED
    BY <2>1, <2>2
<1>3. ASSUME NEW p \in Server, role'[p] = "Leader"
      PROVE  IsQuorum(votes'[p])
  <2>1. CASE p # n
    BY <1>3, <2>1 DEF Alone, Counted
  <2>2. CASE p = n
    BY <1>3, <2>2 DEF Campaigns, Counted
  <2> QED
    BY <2>1, <2>2
<1>4. ASSUME NEW m \in msgs', m.type = "AppendEntries"
      PROVE  Elected(m.from, m.term)'
  <2>1. CASE m \in msgs
    <3>1. PICK Q \in SUBSET Server :
            IsQuorum(Q) /\ \A v \in Q : v = m.from \/ Granted(v, m.from, m.term)
      BY <1>4, <2>1 DEF Counted, Elected
    <3>2. \A v \in Q : v = m.from \/ Granted(v, m.from, m.term)'
      BY <1>1, <3>1
    <3> QED
      BY <3>1, <3>2 DEF Elected
  <2>2. CASE m \notin msgs
    <3>1. m.from = n /\ role'[n] = "Leader" /\ m.term = term'[n]
      BY <1>4, <2>2 DEF Speaks
    <3>2. IsQuorum(votes'[n]) /\ votes'[n] \in SUBSET Server
      BY <1>3, <3>1 DEF TypeOK
    <3>3. \A v \in votes'[n] : v = m.from \/ Granted(v, m.from, m.term)'
      BY <1>2, <3>1 DEF Granted, VoteResp
    <3> QED
      BY <3>2, <3>3 DEF Elected
  <2> QED
    BY <2>1, <2>2
<1> QED
  BY <1>2, <1>3, <1>4 DEF Counted

LEMMA InvIsKept ==
    ASSUME TypeOK, TypeOK', VoteInv, NEW n \in Server, Step(n)
    PROVE  VoteInv'
<1>1. Chain(n)' /\ Standing(n)' /\ Replies(n)'
  BY ChainIsKept, StandingIsKept DEF VoteInv, Step
<1>2. ASSUME NEW p \in Server \ {n}
      PROVE  Chain(p)' /\ Standing(p)' /\ Replies(p)'
  <2>1. Chain(p) /\ Standing(p) /\ Replies(p)
    BY DEF VoteInv
  <2>2. /\ term'[p] = term[p] /\ votedFor'[p] = votedFor[p] /\ role'[p] = role[p]
        /\ durableTerm'[p] = durableTerm[p] /\ durableHard'[p] = durableHard[p]
        /\ disk'[p] = disk[p] /\ batches'[p] = batches[p]
    BY DEF Step, Alone
  <2>3. Hard(p)' = Hard(p) /\ Queued(p)' = Queued(p)
    BY <2>2 DEF Hard, Queued
  <2>4. Chain(p)'
    BY <2>1, <2>2, <2>3 DEF Chain
  <2>5. Standing(p)'
    BY <2>1, <2>2, <2>3 DEF Standing
  <2>6. Replies(p)'
    BY <2>1, <2>2, <2>3 DEF Replies
  <2> QED
    BY <2>4, <2>5, <2>6
<1>3. Spoken'
  BY <1>1, SpokenIsKept DEF VoteInv, Step
<1>4. Counted'
  BY CountedIsKept DEF VoteInv, Step
<1> QED
  BY <1>1, <1>2, <1>3, <1>4 DEF VoteInv

LEMMA InvAtStart ==
    ASSUME Init
    PROVE  VoteInv
<1>1. TypeOK
  BY InitTypes
<1>2. ASSUME NEW n \in Server
      PROVE  Chain(n) /\ Standing(n) /\ Replies(n) /\ votes[n] = {} /\ role[n] = "Follower"
  <2>1. /\ term[n] = disk[n].hard.term /\ votedFor[n] = disk[n].hard.vote
        /\ durableTerm[n] = disk[n].hard.term /\ durableHard[n] = disk[n].hard
        /\ batches[n] = <<>> /\ role[n] = "Follower" /\ votes[n] = {}
    BY DEF Init
  <2>2. disk[n].hard \in HardState /\ Queued(n) = {}
    BY <1>1, <2>1, HardTypes DEF HardTyped, Queued
  <2>3. Hard(n) = disk[n].hard
    BY <2>1, <2>2 DEF Hard, HardState
  <2> QED
    BY <2>1, <2>2, <2>3, LeReflexive DEF Chain, Standing, Replies, HardState
<1>3. msgs = {}
  BY DEF Init
<1> QED
  BY <1>2, <1>3 DEF VoteInv, Spoken, Counted

-----------------------------------------------------------------------------
(* What the invariant says of the properties. *)

LEMMA DurabilityFollows ==
    ASSUME TypeOK, VoteInv
    PROVE  VotesAreDurable /\ TermsAreDurable
<1>1. TermsAreDurable
  BY DEF VoteInv, Spoken, TermsAreDurable
<1>2. ASSUME NEW m \in msgs, m.type = "RequestVoteResp", m.granted
      PROVE  Le([term |-> m.term, vote |-> m.to], disk[m.from].hard)
  <2>1. IsGrant(m) /\ Binding(m) /\ Cast(m) = [term |-> m.term, vote |-> m.to]
    BY <1>2 DEF IsGrant, Binding, Cast
  <2> QED
    BY <2>1 DEF VoteInv, Spoken
<1> QED
  BY <1>1, <1>2 DEF VotesAreDurable

LEMMA LeaderWasElected ==
    ASSUME TypeOK, VoteInv, NEW t, NEW p \in LeadersOf(t)
    PROVE  p \in Server /\ Elected(p, t)
<1>1. CASE p \in Server /\ role[p] = "Leader" /\ term[p] = t
  <2>1. /\ IsQuorum(votes[p]) /\ votes[p] \in SUBSET Server
        /\ \A v \in votes[p] : v = p \/ Granted(v, p, t)
    BY <1>1 DEF VoteInv, Counted, TypeOK
  <2> QED
    BY <1>1, <2>1 DEF Elected
<1>2. ASSUME NEW m \in msgs, m.type = "AppendEntries", m.term = t, m.from = p
      PROVE  p \in Server /\ Elected(p, t)
  <2>1. m \in Message
    BY DEF TypeOK
  <2>2. m.from \in Server
    BY <2>1, MessageTypes
  <2> QED
    BY <1>2, <2>2 DEF VoteInv, Counted
<1> QED
  BY <1>1, <1>2 DEF LeadersOf

(* The answer that grants v's vote to p in term t. *)
LEMMA GrantIsBinding ==
    ASSUME NEW v \in Server, NEW p \in Server, NEW t, Granted(v, p, t)
    PROVE  \E g \in msgs : Binding(g) /\ g.from = v /\ g.term = t /\ Cast(g) = [term |-> t, vote |-> p]
<1>1. VoteResp(v, p, t, TRUE) \in msgs
  BY DEF Granted
<1>2. /\ VoteResp(v, p, t, TRUE).type = "RequestVoteResp" /\ VoteResp(v, p, t, TRUE).granted
      /\ VoteResp(v, p, t, TRUE).from = v /\ VoteResp(v, p, t, TRUE).term = t
      /\ VoteResp(v, p, t, TRUE).to = p
  BY DEF VoteResp
<1> QED
  BY <1>1, <1>2 DEF Binding, IsGrant, Cast

LEMMA LeaderVotedForItself ==
    ASSUME TypeOK, VoteInv, NEW t \in Nat, NEW p \in LeadersOf(t), NEW q \in Server,
           Granted(p, q, t)
    PROVE  p = q
<1>1. p \in Server
  BY LeaderWasElected
<1>2. PICK g \in msgs : Binding(g) /\ g.from = p /\ g.term = t /\ Cast(g) = [term |-> t, vote |-> q]
  BY <1>1, GrantIsBinding
<1>3. CASE role[p] = "Leader" /\ term[p] = t
  <2>1. disk[p].hard \in HardState /\ Hard(p) \in HardState /\ Hard(p).term = t
        /\ Cast(g) \in HardState /\ Cast(g).term = t /\ Cast(g).vote = q /\ q # None
    BY <1>1, <1>2, <1>3, HardTypes, ServerAssumption DEF HardTyped, HardState
  <2>2. Le(Cast(g), disk[p].hard) /\ Le(disk[p].hard, Hard(p))
    BY <1>1, <1>2 DEF VoteInv, Spoken, Chain
  <2>3. t <= disk[p].hard.term /\ disk[p].hard.term <= t
    BY <2>1, <2>2, LeTerm
  <2>4. disk[p].hard.term = t
    BY <2>1, <2>3 DEF HardState
  <2>5. disk[p].hard.vote = q
    BY <2>1, <2>2, <2>4, LeTerm
  <2>6. disk[p].hard.vote = p
    BY <1>1, <1>3, <2>4 DEF VoteInv, Standing
  <2> QED
    BY <2>5, <2>6
<1>4. ASSUME NEW m \in msgs, m.type = "AppendEntries", m.term = t, m.from = p
      PROVE  p = q
  <2>1. m \in Message
    BY DEF TypeOK
  <2>2. Binding(m) /\ Cast(m).vote = p
    BY <1>4, <2>1, CastTypes DEF Binding
  <2> QED
    BY <1>2, <1>4, <2>2 DEF VoteInv, Spoken
<1> QED
  BY <1>3, <1>4 DEF LeadersOf

LEMMA ElectionSafetyFollows ==
    ASSUME TypeOK, VoteInv
    PROVE  ElectionSafety
<1>1. {m.term : m \in msgs} \cup {term[n] : n \in Server} \in SUBSET Nat
  <2>1. \A m \in msgs : m.term \in Nat
    BY MessageTypes DEF TypeOK
  <2>2. \A n \in Server : term[n] \in Nat
    BY DEF TypeOK
  <2> QED
    BY <2>1, <2>2
<1> SUFFICES ASSUME NEW t \in Nat, NEW p \in LeadersOf(t), NEW q \in LeadersOf(t)
             PROVE  p = q
  BY <1>1 DEF ElectionSafety
<1>2. p \in Server /\ q \in Server
  BY LeaderWasElected
<1>3. PICK P \in SUBSET Server : IsQuorum(P) /\ \A v \in P : v = p \/ Granted(v, p, t)
  BY LeaderWasElected DEF Elected
<1>4. PICK Q \in SUBSET Server : IsQuorum(Q) /\ \A v \in Q : v = q \/ Granted(v, q, t)
  BY LeaderWasElected DEF Elected
<1>5. PICK v \in P : v \in Q
  BY <1>3, <1>4, QuorumsIntersect
<1>6. CASE v = p
  BY <1>2, <1>4, <1>5, <1>6, LeaderVotedForItself
<1>7. CASE v = q
  BY <1>2, <1>3, <1>5, <1>7, LeaderVotedForItself
<1>8. CASE v # p /\ v # q
  <2>1. v \in Server /\ Granted(v, p, t) /\ Granted(v, q, t)
    BY <1>3, <1>4, <1>5, <1>8
  <2>2. PICK g \in msgs :
          Binding(g) /\ g.from = v /\ g.term = t /\ Cast(g) = [term |-> t, vote |-> p]
    BY <1>2, <2>1, GrantIsBinding
  <2>3. PICK h \in msgs :
          Binding(h) /\ h.from = v /\ h.term = t /\ Cast(h) = [term |-> t, vote |-> q]
    BY <1>2, <2>1, GrantIsBinding
  <2>4. Cast(g).vote = Cast(h).vote
    BY <2>2, <2>3 DEF VoteInv, Spoken
  <2> QED
    BY <2>2, <2>3, <2>4
<1> QED
  BY <1>6, <1>7, <1>8

-----------------------------------------------------------------------------
(* Every action is a step of that kind. *)

(* A step that leaves terms, votes, roles, queues and disks as they are. *)
LEMMA StillStores ==
    ASSUME TypeOK, VoteInv, NEW n \in Server,
           UNCHANGED <<term, votedFor, role, votes, durableTerm, durableHard, batches, disk>>
    PROVE  Alone(n) /\ Stores(n) /\ Replies(n)' /\ Campaigns(n)
<1>1. Hard(n)' = Hard(n) /\ Queued(n)' = Queued(n) /\ Hard(n) \in HardState
      /\ Len(batches[n]) \in Nat
  BY HardTypes DEF Hard, Queued, HardTyped
<1>2. Alone(n)
  BY DEF Alone
<1>3. Writes(n)
  <2>1. \A i \in Queued(n)' : ~(i > Len(batches[n]))
    BY <1>1 DEF Queued
  <2> QED
    BY <1>1, <2>1, LeReflexive DEF Writes
<1>4. Replies(n)'
  BY <1>1 DEF VoteInv, Replies
<1>5. Campaigns(n)
  BY DEF Campaigns
<1> QED
  BY <1>2, <1>3, <1>4, <1>5 DEF Stores

(* The same for a step that may change the role or the votes. *)
LEMMA StillWrites ==
    ASSUME TypeOK, VoteInv, NEW n \in Server, Le(Hard(n), Hard(n)'),
           UNCHANGED <<durableTerm, durableHard, batches, disk>>
    PROVE  Stores(n) /\ Replies(n)'
<1>1. Queued(n)' = Queued(n) /\ Len(batches[n]) \in Nat
  BY HardTypes DEF Queued, HardTyped
<1>2. \A i \in Queued(n)' : ~(i > Len(batches[n]))
  BY <1>1 DEF Queued
<1>3. Writes(n)
  BY <1>1, <1>2 DEF Writes
<1>4. Replies(n)'
  BY <1>1 DEF VoteInv, Replies
<1> QED
  BY <1>3, <1>4 DEF Stores

(* A granted vote that was received. *)
LEMMA GrantedMessage ==
    ASSUME TypeOK, NEW m \in msgs, m.type = "RequestVoteResp", m.granted
    PROVE  m = VoteResp(m.from, m.to, m.term, TRUE)
<1>1. m \in VoteRespMsgs
  BY MessageTypes DEF TypeOK
<1> QED
  BY <1>1 DEF VoteRespMsgs, VoteResp

(* A step that adds a batch to the queue, its other batches being as they  *)
(* were but for the range they claim.                                      *)
LEMMA IssueStores ==
    ASSUME TypeOK, TypeOK', VoteInv, NEW n \in Server, NEW queue \in Seq(Batch), NEW act,
           NEW wh, NEW from, Issue(n, queue, act, wh, from),
           UNCHANGED <<durableTerm, durableHard, disk>>, Le(Hard(n), Hard(n)'),
           Len(queue) = Len(batches[n]),
           \A i \in Queued(n) :
              /\ queue[i].hard = batches[n][i].hard /\ queue[i].synced = batches[n][i].synced
              /\ queue[i].act.kind # "LogDurable" => queue[i] = batches[n][i],
           act.kind = "Reply" =>
              /\ act.msg.from = n
              /\ IsGrant(act.msg) => Hard(n)' = [term |-> act.msg.term, vote |-> act.msg.to],
           act.kind = "Campaign" => act.term = Hard(n)'.term
    PROVE  Stores(n) /\ Replies(n)' /\ \A p \in Server \ {n} : batches'[p] = batches[p]
<1> DEFINE b == NewBatch(n, act, wh, from)
<1>1. batches'[n] = Append(queue, b) /\ \A p \in Server \ {n} : batches'[p] = batches[p]
  BY DEF Issue, TypeOK
<1>2. b.hard = Hard(n)' /\ b.synced = FALSE /\ b.act = act
  BY DEF NewBatch
<1> HIDE DEF b
<1>3. /\ Len(batches'[n]) = Len(batches[n]) + 1 /\ Len(batches[n]) \in Nat
      /\ batches'[n][Len(batches[n]) + 1] = b
      /\ \A i \in Queued(n) : batches'[n][i] = queue[i]
  <2>1. Len(batches[n]) \in Nat
    BY HardTypes DEF HardTyped
  <2>2. Len(Append(queue, b)) = Len(queue) + 1 /\ Append(queue, b)[Len(queue) + 1] = b
        /\ \A i \in 1..Len(queue) : Append(queue, b)[i] = queue[i]
    OBVIOUS
  <2> QED
    BY <1>1, <2>1, <2>2 DEF Queued
<1>4. \A i \in Queued(n)' : i \in Queued(n) \/ (i = Len(batches[n]) + 1 /\ batches'[n][i] = b)
  BY <1>3 DEF Queued
<1>5. Writes(n)
  <2>1. \A i \in Queued(n)' : i > Len(batches[n]) => IsNew(n, batches'[n][i])
    BY <1>2, <1>3, <1>4 DEF Queued, IsNew
  <2> QED
    BY <1>3, <2>1 DEF Writes
<1>6. ASSUME NEW i \in Queued(n)'
      PROVE  RepliesWell(n, batches'[n][i])
  <2>1. CASE i \in Queued(n)
    <3>1. CASE batches'[n][i].act.kind = "LogDurable"
      BY <3>1 DEF RepliesWell
    <3>2. CASE batches'[n][i] = batches[n][i]
      BY <2>1, <3>2 DEF VoteInv, Replies
    <3> QED
      BY <1>3, <2>1, <3>1, <3>2
  <2>2. CASE batches'[n][i] = b
    BY <1>2, <2>2 DEF RepliesWell
  <2> QED
    BY <1>4, <2>1, <2>2
<1>7. Replies(n)'
  BY <1>6 DEF Replies
<1> QED
  BY <1>1, <1>5, <1>7 DEF Stores

(* The queue is unchanged, and the rest as in IssueStores. *)
LEMMA KeepsQueue ==
    ASSUME TypeOK, NEW n \in Server
    PROVE  /\ batches[n] \in Seq(Batch)
           /\ \A i \in Queued(n) :
                /\ batches[n][i].hard = batches[n][i].hard
                /\ batches[n][i].synced = batches[n][i].synced
                /\ batches[n][i].act.kind # "LogDurable" => batches[n][i] = batches[n][i]
BY DEF TypeOK

LEMMA Silence ==
    ASSUME NEW n \in Server, UNCHANGED msgs
    PROVE  Speaks(n)
BY DEF Speaks

(* Messages other than votes. *)
LEMMA SendsNoVote ==
    ASSUME NEW n \in Server, NEW ms, Send(n, ms),
           \A m \in ms : /\ m.from = n /\ ~IsGrant(m)
                         /\ m.type = "AppendEntries" => role'[n] = "Leader" /\ m.term = term'[n]
    PROVE  Speaks(n)
BY DEF Speaks, Send

(* An answer that is no vote. *)
LEMMA SendsAnswer ==
    ASSUME NEW n \in Server, NEW r, Send(n, {r}), r.from = n, ~IsGrant(r),
           r.type # "AppendEntries"
    PROVE  Speaks(n)
BY SendsNoVote

LEMMA Answers ==
    ASSUME NEW n, NEW p, NEW t, NEW a, NEW b, NEW c
    PROVE  /\ VoteResp(n, p, t, FALSE).from = n /\ ~IsGrant(VoteResp(n, p, t, FALSE))
           /\ VoteResp(n, p, t, FALSE).type # "AppendEntries"
           /\ AppendResp(n, p, t, a, b, c).from = n /\ ~IsGrant(AppendResp(n, p, t, a, b, c))
           /\ AppendResp(n, p, t, a, b, c).type # "AppendEntries"
BY DEF VoteResp, AppendResp, IsGrant

LEMMA AppendsAre ==
    ASSUME NEW n, NEW lg, NEW next, NEW commit, NEW p, NEW m \in AppendTo(n, p, lg, next, commit)
    PROVE  m.from = n /\ ~IsGrant(m) /\ m.term = term[n]
BY DEF AppendTo, IsGrant

LEMMA AppendsToAllAre ==
    ASSUME NEW n, NEW lg, NEW next, NEW commit, NEW m \in AppendToAll(n, lg, next, commit)
    PROVE  m.from = n /\ ~IsGrant(m) /\ m.term = term[n]
<1>1. PICK p \in Peers(n) : m \in AppendTo(n, p, lg, next[p], commit)
  BY DEF AppendToAll
<1> QED
  BY <1>1, AppendsAre

-----------------------------------------------------------------------------
LEMMA RefuseStaleSteps ==
    ASSUME TypeOK, VoteInv, NEW n \in Server, NEW m \in msgs, RefuseStale(n, m)
    PROVE  Step(n)
<1>1. Alone(n) /\ Stores(n) /\ Replies(n)' /\ Campaigns(n)
  BY StillStores DEF RefuseStale, electionVars, durableVars
<1>2. \/ Send(n, {VoteResp(n, m.from, term[n], FALSE)})
      \/ Send(n, {AppendResp(n, m.from, term[n], FALSE, NO_INDEX, NO_INDEX)})
  BY DEF RefuseStale
<1>3. Speaks(n)
  BY <1>2, Answers, SendsAnswer
<1> QED
  BY <1>1, <1>3 DEF Step

LEMMA HeartbeatSteps ==
    ASSUME TypeOK, VoteInv, NEW n \in Server, Heartbeat(n)
    PROVE  Step(n)
<1>1. Alone(n) /\ Stores(n) /\ Replies(n)' /\ Campaigns(n)
  BY StillStores DEF Heartbeat, electionVars, durableVars
<1>2. role'[n] = "Leader" /\ term'[n] = term[n]
      /\ Send(n, AppendToAll(n, log[n], nextIndex[n], commitIndex[n]))
  BY DEF Heartbeat, electionVars
<1>3. Speaks(n)
  BY <1>2, AppendsToAllAre, SendsNoVote
<1> QED
  BY <1>1, <1>3 DEF Step

LEMMA HandlePreVoteSteps ==
    ASSUME TypeOK, VoteInv, NEW n \in Server, NEW m \in msgs, HandlePreVote(n, m)
    PROVE  Step(n)
<1>1. Alone(n) /\ Stores(n) /\ Replies(n)' /\ Campaigns(n)
  BY StillStores DEF HandlePreVote, electionVars, durableVars
<1>2. PICK g : Send(n, {PreVoteRespMsg(n, m.from, m.term, g)})
  BY DEF HandlePreVote
<1>3. LET r == PreVoteRespMsg(n, m.from, m.term, g)
      IN r.from = n /\ ~IsGrant(r) /\ r.type # "AppendEntries"
  BY DEF PreVoteRespMsg, IsGrant
<1>4. Speaks(n)
  BY <1>2, <1>3, SendsNoVote
<1> QED
  BY <1>1, <1>4 DEF Step

LEMMA HandleAppendAckSteps ==
    ASSUME TypeOK, VoteInv, NEW n \in Server, NEW m \in msgs, HandleAppendAck(n, m)
    PROVE  Step(n)
<1>1. Alone(n) /\ Stores(n) /\ Replies(n)' /\ Campaigns(n)
  BY StillStores DEF HandleAppendAck, electionVars, durableVars
<1>2. role'[n] = "Leader" /\ term'[n] = term[n]
  BY DEF HandleAppendAck, electionVars
<1>3. PICK next, c, ms : Send(n, ms) /\ (ms = {} \/ ms = AppendTo(n, m.from, log[n], next, c))
  BY DEF HandleAppendAck
<1>4. Speaks(n)
  BY <1>2, <1>3, AppendsAre, SendsNoVote
<1> QED
  BY <1>1, <1>4 DEF Step

LEMMA HandleAppendNackSteps ==
    ASSUME TypeOK, VoteInv, NEW n \in Server, NEW m \in msgs, HandleAppendNack(n, m)
    PROVE  Step(n)
<1>1. Alone(n) /\ Stores(n) /\ Replies(n)' /\ Campaigns(n)
  BY StillStores DEF HandleAppendNack, electionVars, durableVars
<1>2. role'[n] = "Leader" /\ term'[n] = term[n]
  BY DEF HandleAppendNack, electionVars
<1>3. PICK next : Send(n, AppendTo(n, m.from, log[n], next, commitIndex[n]))
  BY DEF HandleAppendNack
<1>4. Speaks(n)
  BY <1>2, <1>3, AppendsAre, SendsNoVote
<1> QED
  BY <1>1, <1>4 DEF Step

(* A vote is repeated only when it is the confirmed hard state. *)
LEMMA RepeatVoteAnswerSteps ==
    ASSUME TypeOK, VoteInv, NEW n \in Server, NEW m \in msgs, RepeatVoteAnswer(n, m)
    PROVE  Step(n)
<1>1. Alone(n) /\ Stores(n) /\ Replies(n)' /\ Campaigns(n)
  BY StillStores DEF RepeatVoteAnswer, electionVars, durableVars
<1> DEFINE r == VoteResp(n, m.from, m.term, GrantsVote(n, m))
<1>2. msgs' \subseteq msgs \cup {r} /\ msgs \subseteq msgs' /\ (r \in msgs' \ msgs => r.term <= durableTerm'[n])
  BY DEF RepeatVoteAnswer, Send
<1>3. /\ r.from = n /\ r.type = "RequestVoteResp" /\ r.granted = GrantsVote(n, m)
      /\ r.to = m.from /\ r.term = m.term
  BY DEF VoteResp
<1>4. ASSUME IsGrant(r)
      PROVE  Cast(r) = Hard(n) /\ Le(Hard(n), disk'[n].hard)
  <2>1. GrantsVote(n, m)
    BY <1>3, <1>4 DEF IsGrant
  <2>2. /\ votedFor[n] = m.from /\ term[n] = m.term /\ disk' = disk
        /\ durableHard[n] = [term |-> m.term, vote |-> m.from]
    BY <2>1 DEF RepeatVoteAnswer
  <2>3. Hard(n) = [term |-> m.term, vote |-> m.from]
    BY <2>2 DEF Hard
  <2> QED
    BY <1>3, <1>4, <2>2, <2>3 DEF Cast, VoteInv, Chain
<1> HIDE DEF r
<1>5. Speaks(n)
  BY <1>2, <1>3, <1>4 DEF Speaks
<1> QED
  BY <1>1, <1>5 DEF Step

-----------------------------------------------------------------------------
LEMMA BecomeCandidateSteps ==
    ASSUME TypeOK, TypeOK', VoteInv, NEW n \in Server, BecomeCandidate(n)
    PROVE  Step(n)
<1>1. /\ term' = [term EXCEPT ![n] = @ + 1] /\ votedFor' = [votedFor EXCEPT ![n] = n]
      /\ role' = [role EXCEPT ![n] = "Candidate"] /\ votes' = [votes EXCEPT ![n] = {n}]
      /\ UNCHANGED <<durableTerm, durableHard, disk, msgs>>
      /\ Issue(n, batches[n], Campaign(term'[n]), TRUE, Len(log[n]) + 1)
  BY DEF BecomeCandidate, durableVars
<1>2. /\ term \in [Server -> Nat] /\ votedFor \in [Server -> Server \cup {None}]
      /\ role \in [Server -> {"Follower", "Candidate", "Leader"}]
      /\ votes \in [Server -> SUBSET Server]
  BY DEF TypeOK
<1>3. /\ term'[n] = term[n] + 1 /\ term[n] \in Nat /\ votedFor'[n] = n
      /\ role'[n] = "Candidate" /\ votes'[n] = {n}
  BY <1>1, <1>2
<1>4. Le(Hard(n), Hard(n)')
  BY <1>3 DEF Le, Hard
<1>5. Campaign(term'[n]).kind = "Campaign" /\ Campaign(term'[n]).term = Hard(n)'.term
  BY DEF Campaign, Hard
<1>6. Stores(n) /\ Replies(n)' /\ \A p \in Server \ {n} : batches'[p] = batches[p]
  BY <1>1, <1>4, <1>5, KeepsQueue, IssueStores
<1>7. Alone(n)
  BY <1>1, <1>2, <1>6 DEF Alone
<1>8. Campaigns(n)
  BY <1>3 DEF Campaigns
<1> QED
  BY <1>1, <1>6, <1>7, <1>8, Silence DEF Step

(* A node that follows, in the term and with the vote it has. *)
LEMMA ElectionTimeoutSteps ==
    ASSUME TypeOK, TypeOK', VoteInv, NEW n \in Server, ElectionTimeout(n)
    PROVE  Step(n)
<1>1. CASE StartPreVote(n)
  <2>1. /\ role' = [role EXCEPT ![n] = "Follower"] /\ votes' = [votes EXCEPT ![n] = {}]
        /\ UNCHANGED <<durableTerm, durableHard, batches, disk, term, votedFor>>
        /\ Send(n, {PreVoteMsg(n, p) : p \in Peers(n)})
    BY <1>1 DEF StartPreVote, durableVars
  <2>2. /\ role \in [Server -> {"Follower", "Candidate", "Leader"}]
        /\ votes \in [Server -> SUBSET Server]
    BY DEF TypeOK
  <2>3. Alone(n) /\ Campaigns(n)
    BY <2>1, <2>2 DEF Alone, Campaigns
  <2>4. Stores(n) /\ Replies(n)'
    <3>1. /\ Hard(n)' = Hard(n) /\ Queued(n)' = Queued(n) /\ Hard(n) \in HardState
          /\ Len(batches[n]) \in Nat
      BY <2>1, HardTypes DEF Hard, Queued, HardTyped
    <3>2. \A i \in Queued(n)' : ~(i > Len(batches[n]))
      BY <2>1, <3>1 DEF Queued
    <3> QED
      BY <2>1, <3>1, <3>2, LeReflexive DEF Stores, Writes, VoteInv, Replies
  <2>5. Speaks(n)
    <3>1. ASSUME NEW p \in Peers(n)
          PROVE  /\ PreVoteMsg(n, p).from = n /\ PreVoteMsg(n, p).type = "PreVote"
                 /\ ~IsGrant(PreVoteMsg(n, p))
      BY DEF PreVoteMsg, RequestVoteMsg, IsGrant
    <3> QED
      BY <2>1, <3>1, SendsNoVote
  <2> QED
    BY <2>3, <2>4, <2>5 DEF Step
<1>2. CASE BecomeCandidate(n)
  BY <1>2, BecomeCandidateSteps
<1> QED
  BY <1>1, <1>2 DEF ElectionTimeout

LEMMA HandlePreVoteRespSteps ==
    ASSUME TypeOK, TypeOK', VoteInv, NEW n \in Server, NEW m \in msgs, HandlePreVoteResp(n, m)
    PROVE  Step(n)
<1>1. CASE BecomeCandidate(n)
  BY <1>1, BecomeCandidateSteps
<1>2. CASE UNCHANGED <<role, term, votedFor, votes, durableVars, batches, disk, msgs>>
  BY <1>2, StillStores, Silence DEF Step, durableVars
<1> QED
  BY <1>1, <1>2 DEF HandlePreVoteResp

LEMMA HandleNewerTermRespSteps ==
    ASSUME TypeOK, TypeOK', VoteInv, NEW n \in Server, NEW m \in msgs, HandleNewerTermResp(n, m)
    PROVE  Step(n)
<1>1. /\ term' = [term EXCEPT ![n] = m.term] /\ votedFor' = [votedFor EXCEPT ![n] = None]
      /\ role' = [role EXCEPT ![n] = "Follower"] /\ votes' = [votes EXCEPT ![n] = {}]
      /\ UNCHANGED <<durableTerm, durableHard, disk, msgs>> /\ m.term > term[n]
      /\ Issue(n, batches[n], Quiet, TRUE, Len(log[n]) + 1)
  BY DEF HandleNewerTermResp, StepDownTo, durableVars
<1>2. /\ term \in [Server -> Nat] /\ votedFor \in [Server -> Server \cup {None}]
      /\ role \in [Server -> {"Follower", "Candidate", "Leader"}]
      /\ votes \in [Server -> SUBSET Server]
  BY DEF TypeOK
<1>3. /\ term'[n] = m.term /\ term[n] \in Nat /\ role'[n] = "Follower" /\ votes'[n] = {}
  BY <1>1, <1>2
<1>4. Le(Hard(n), Hard(n)')
  BY <1>1, <1>3 DEF Le, Hard
<1>5. Quiet.kind \notin {"Reply", "Campaign"}
  BY DEF Quiet
<1>6. Stores(n) /\ Replies(n)' /\ \A p \in Server \ {n} : batches'[p] = batches[p]
  BY <1>1, <1>4, <1>5, KeepsQueue, IssueStores
<1>7. Alone(n)
  BY <1>1, <1>2, <1>6 DEF Alone
<1>8. Campaigns(n)
  BY <1>3 DEF Campaigns
<1> QED
  BY <1>1, <1>6, <1>7, <1>8, Silence DEF Step

LEMMA HandleVoteRequestSteps ==
    ASSUME TypeOK, TypeOK', VoteInv, NEW n \in Server, NEW m \in msgs, HandleVoteRequest(n, m)
    PROVE  Step(n)
<1> DEFINE grants == GrantsVote(n, m)
           answer == VoteResp(n, m.from, m.term, grants)
<1>1. /\ UNCHANGED <<durableTerm, durableHard, disk, msgs>> /\ m.term >= term[n]
      /\ Issue(n, batches[n], Reply(answer), TRUE, Len(log[n]) + 1)
      /\ votedFor' = [votedFor EXCEPT ![n] =
                        IF grants THEN m.from ELSE IF m.term > term[n] THEN None ELSE @]
      /\ m.term > term[n] \/ (grants /\ votedFor[n] # m.from)
  BY DEF HandleVoteRequest, durableVars
<1>2. /\ term \in [Server -> Nat] /\ votedFor \in [Server -> Server \cup {None}]
      /\ role \in [Server -> {"Follower", "Candidate", "Leader"}]
      /\ votes \in [Server -> SUBSET Server] /\ m.term \in Nat
  BY MessageTypes DEF TypeOK
<1>3. IF m.term > term[n]
      THEN /\ term' = [term EXCEPT ![n] = m.term] /\ role' = [role EXCEPT ![n] = "Follower"]
           /\ votes' = [votes EXCEPT ![n] = {}]
      ELSE UNCHANGED <<term, role, votes>>
  BY DEF HandleVoteRequest, StepDownTo
<1>4. grants /\ ~(m.term > term[n]) => votedFor[n] \in {None, m.from}
  BY DEF GrantsVote, VoteFree
<1>5. term'[n] = m.term
  BY <1>1, <1>2, <1>3
<1>6. votedFor'[n] = IF grants THEN m.from ELSE IF m.term > term[n] THEN None ELSE votedFor[n]
  BY <1>1, <1>2
<1> HIDE DEF grants
<1>7. Le(Hard(n), Hard(n)')
  BY <1>1, <1>2, <1>4, <1>5, <1>6 DEF Le, Hard
<1>8. /\ Reply(answer).kind # "Campaign"
      /\ Reply(answer).kind = "Reply" => Reply(answer).msg.from = n
      /\ Reply(answer).kind = "Reply" => (IsGrant(Reply(answer).msg) =>
           Hard(n)' = [term |-> Reply(answer).msg.term, vote |-> Reply(answer).msg.to])
  <2>1. Reply(answer).msg = answer /\ answer.from = n /\ answer.to = m.from
        /\ answer.term = m.term /\ answer.granted = grants
        /\ Reply(answer).kind # "Campaign"
    BY DEF Reply, VoteResp
  <2>2. IsGrant(answer) => grants
    BY <2>1 DEF IsGrant
  <2> HIDE DEF answer
  <2> QED
    BY <1>5, <1>6, <2>1, <2>2 DEF Hard
<1> HIDE DEF answer
<1>9. Stores(n) /\ Replies(n)' /\ \A p \in Server \ {n} : batches'[p] = batches[p]
  BY <1>1, <1>7, <1>8, KeepsQueue, IssueStores
<1>10. Alone(n)
  BY <1>1, <1>2, <1>3, <1>9 DEF Alone
<1>11. Campaigns(n)
  <2>1. CASE m.term > term[n]
    BY <1>2, <1>3, <2>1 DEF Campaigns
  <2>2. CASE ~(m.term > term[n])
    <3>1. UNCHANGED <<term, role, votes>> /\ (votedFor[n] # None => votedFor'[n] = votedFor[n])
      BY <1>3, <1>4, <1>6, <2>2
    <3> QED
      BY <3>1 DEF Campaigns
  <2> QED
    BY <2>1, <2>2
<1> QED
  BY <1>1, <1>9, <1>10, <1>11, Silence DEF Step

-----------------------------------------------------------------------------
(* A leader's append of its own writes neither term nor vote. *)
LEMMA SameHard ==
    ASSUME TypeOK, NEW n \in Server, UNCHANGED <<term, votedFor>>
    PROVE  Hard(n)' = Hard(n) /\ Le(Hard(n), Hard(n)')
<1>1. Hard(n)' = Hard(n) /\ Hard(n) \in HardState
  BY HardTypes DEF Hard, HardTyped
<1> QED
  BY <1>1, LeReflexive

LEMMA ClaimIsNoReply ==
    ASSUME NEW a, NEW b, NEW c, NEW d, NEW e
    PROVE  LogDurable(a, b, c, d, e).kind \notin {"Reply", "Campaign"}
BY DEF LogDurable

(* A leader adds an entry to its log. *)
LEMMA LeaderStores ==
    ASSUME TypeOK, TypeOK', VoteInv, NEW n \in Server, NEW a, NEW b, NEW c, NEW d, NEW e,
           NEW from, Issue(n, batches[n], LogDurable(a, b, c, d, e), FALSE, from),
           UNCHANGED <<term, votedFor, durableTerm, durableHard, disk>>
    PROVE  Stores(n) /\ Replies(n)' /\ \A p \in Server \ {n} : batches'[p] = batches[p]
<1> DEFINE act == LogDurable(a, b, c, d, e)
<1>1. act.kind \notin {"Reply", "Campaign"}
  BY ClaimIsNoReply
<1> HIDE DEF act
<1>2. Issue(n, batches[n], act, FALSE, from)
  BY DEF act
<1> QED
  BY <1>1, <1>2, SameHard, KeepsQueue, IssueStores

LEMMA HandleVoteRespSteps ==
    ASSUME TypeOK, TypeOK', VoteInv, NEW n \in Server, NEW m \in msgs, HandleVoteResp(n, m)
    PROVE  Step(n)
<1>1. /\ m.to = n /\ m.type = "RequestVoteResp" /\ m.granted /\ m.term = term[n]
      /\ role[n] = "Candidate" /\ votes' = [votes EXCEPT ![n] = @ \cup {m.from}]
      /\ UNCHANGED <<term, votedFor, durableTerm, durableHard, disk>>
  BY DEF HandleVoteResp, Received, BecomeLeader, durableVars
<1>2. /\ role \in [Server -> {"Follower", "Candidate", "Leader"}]
      /\ votes \in [Server -> SUBSET Server]
  BY DEF TypeOK
<1>3. Granted(m.from, n, term[n])
  BY <1>1, GrantedMessage DEF Granted
<1>4. votes'[n] = votes[n] \cup {m.from}
  BY <1>1, <1>2
<1>5. \A v \in votes'[n] : v \in votes[n] \/ Granted(v, n, term[n])
  BY <1>3, <1>4
<1>6. CASE BecomeLeader(n, batches[n]) /\ IsQuorum(votes'[n]) /\ Send(n, LeaderGreeting(n))
  <2>1. /\ role' = [role EXCEPT ![n] = "Leader"]
        /\ Issue(n, batches[n], LogDurable(Len(log[n]) + 1, Len(log[n]) + 1, 0, None, 0),
                 FALSE, Len(log[n]) + 1)
    BY <1>6 DEF BecomeLeader
  <2>2. Stores(n) /\ Replies(n)' /\ \A p \in Server \ {n} : batches'[p] = batches[p]
    BY <1>1, <2>1, LeaderStores
  <2>3. Alone(n)
    BY <1>1, <1>2, <2>1, <2>2 DEF Alone
  <2>4. role'[n] = "Leader"
    BY <1>2, <2>1
  <2>5. Campaigns(n)
    BY <1>1, <1>5, <1>6, <2>4 DEF Campaigns
  <2>6. Speaks(n)
    BY <1>1, <1>6, <2>4, AppendsToAllAre, SendsNoVote DEF LeaderGreeting
  <2> QED
    BY <2>2, <2>3, <2>5, <2>6 DEF Step
<1>7. CASE UNCHANGED <<role, batches, msgs>>
  <2>1. Alone(n)
    BY <1>1, <1>2, <1>7 DEF Alone
  <2>2. Stores(n) /\ Replies(n)'
    BY <1>1, <1>7, SameHard, StillWrites
  <2>3. Campaigns(n)
    BY <1>1, <1>5, <1>7 DEF Campaigns
  <2> QED
    BY <1>7, <2>1, <2>2, <2>3, Silence DEF Step
<1> QED
  BY <1>6, <1>7 DEF HandleVoteResp

LEMMA ProposeSteps ==
    ASSUME TypeOK, TypeOK', VoteInv, NEW n \in Server, NEW c \in Cmd, Propose(n, c)
    PROVE  Step(n)
<1>1. /\ role[n] = "Leader"
      /\ UNCHANGED <<role, votes, term, votedFor, durableTerm, durableHard, disk>>
      /\ Issue(n, batches[n], LogDurable(Len(log[n]) + 1, Len(log[n]) + 1, 0, None, 0),
               FALSE, Len(log[n]) + 1)
      /\ Send(n, AppendToAll(n, log'[n], nextIndex[n], commitIndex[n]))
  BY DEF Propose, electionVars, durableVars
<1>2. Stores(n) /\ Replies(n)' /\ \A p \in Server \ {n} : batches'[p] = batches[p]
  BY <1>1, LeaderStores
<1>3. Alone(n) /\ Campaigns(n)
  BY <1>1, <1>2 DEF Alone, Campaigns
<1>4. Speaks(n)
  BY <1>1, AppendsToAllAre, SendsNoVote
<1> QED
  BY <1>2, <1>3, <1>4 DEF Step

(* What a crash leaves of the hard state. *)
LEMMA RemainsHard ==
    ASSUME NEW n \in Server, NEW image \in Remains(n)
    PROVE  \/ image = disk[n]
           \/ \E i \in Queued(n) : ~batches[n][i].synced /\ image.hard = batches[n][i].hard
BY DEF Remains, Queued

LEMMA RestartSteps ==
    ASSUME TypeOK, TypeOK', VoteInv, NEW n \in Server, Restart(n)
    PROVE  Step(n)
<1>1. PICK image \in Remains(n) :
        /\ disk' = [disk EXCEPT ![n] = Recovered(image)]
        /\ term' = [term EXCEPT ![n] = Recovered(image).hard.term]
        /\ votedFor' = [votedFor EXCEPT ![n] = Recovered(image).hard.vote]
        /\ durableTerm' = [durableTerm EXCEPT ![n] = Recovered(image).hard.term]
        /\ durableHard' = [durableHard EXCEPT ![n] = Recovered(image).hard]
  BY DEF Restart
<1>2. /\ role' = [role EXCEPT ![n] = "Follower"] /\ votes' = [votes EXCEPT ![n] = {}]
      /\ batches' = [batches EXCEPT ![n] = <<>>] /\ UNCHANGED msgs
  BY DEF Restart
<1>3. /\ term \in [Server -> Nat] /\ votedFor \in [Server -> Server \cup {None}]
      /\ role \in [Server -> {"Follower", "Candidate", "Leader"}]
      /\ votes \in [Server -> SUBSET Server] /\ batches \in [Server -> Seq(Batch)]
      /\ durableTerm \in [Server -> Nat] /\ durableHard \in [Server -> HardState]
      /\ disk \in [Server -> Image] /\ disk' \in [Server -> Image]
  BY DEF TypeOK
<1>4. image \in Image
  BY RemainsType
<1>5. Recovered(image).hard = image.hard
  BY <1>4 DEF Recovered, Image
<1> DEFINE kept == Recovered(image)
<1> HIDE DEF kept
<1>6. /\ disk'[n] = kept /\ term'[n] = kept.hard.term /\ votedFor'[n] = kept.hard.vote
      /\ durableTerm'[n] = kept.hard.term /\ durableHard'[n] = kept.hard
      /\ batches'[n] = <<>> /\ role'[n] = "Follower" /\ votes'[n] = {}
  BY <1>1, <1>2, <1>3 DEF kept
<1>7. Hard(n)' = disk'[n].hard
  <2>1. kept.hard \in HardState
    BY <1>3, <1>6 DEF Image
  <2> QED
    BY <1>6, <2>1 DEF Hard, HardState
<1>8. Crashes(n)
  <2>1. kept.hard = image.hard
    BY <1>5 DEF kept
  <2> QED
    BY <1>6, <1>7, <2>1, RemainsHard DEF Crashes
<1>9. Alone(n)
  BY <1>1, <1>2, <1>3 DEF Alone
<1>10. Replies(n)'
  BY <1>6 DEF Replies, Queued
<1> QED
  BY <1>2, <1>6, <1>8, <1>9, <1>10, Silence DEF Step, Stores, Campaigns

-----------------------------------------------------------------------------
(* What every append of a current term does to the term and to the vote. *)
LEMMA FollowLeaderHard ==
    ASSUME TypeOK, NEW n \in Server, NEW m \in msgs, FollowLeader(n, m)
    PROVE  /\ Le(Hard(n), Hard(n)') /\ disk' = disk
           /\ role'[n] = "Follower" /\ votes'[n] = {}
           /\ \A p \in Server \ {n} : /\ term'[p] = term[p] /\ votedFor'[p] = votedFor[p]
                                      /\ role'[p] = role[p] /\ votes'[p] = votes[p]
           /\ m.term = term[n] => Hard(n)' = Hard(n)
           /\ m.term >= term[n] /\ m.term \in Nat /\ term[n] \in Nat
<1>1. /\ term' = [term EXCEPT ![n] = m.term]
      /\ votedFor' = [votedFor EXCEPT ![n] = IF m.term > term[n] THEN None ELSE @]
      /\ role' = [role EXCEPT ![n] = "Follower"] /\ votes' = [votes EXCEPT ![n] = {}]
      /\ m.term >= term[n] /\ disk' = disk
  BY DEF FollowLeader, StepDownTo
<1>2. /\ term \in [Server -> Nat] /\ votedFor \in [Server -> Server \cup {None}]
      /\ role \in [Server -> {"Follower", "Candidate", "Leader"}]
      /\ votes \in [Server -> SUBSET Server] /\ m.term \in Nat
  BY MessageTypes DEF TypeOK
<1>3. /\ term'[n] = m.term /\ term[n] \in Nat
      /\ votedFor'[n] = IF m.term > term[n] THEN None ELSE votedFor[n]
  BY <1>1, <1>2
<1>4. Le(Hard(n), Hard(n)')
  BY <1>1, <1>2, <1>3 DEF Le, Hard
<1>5. m.term = term[n] => Hard(n)' = Hard(n)
  BY <1>3 DEF Hard
<1> QED
  BY <1>1, <1>2, <1>4, <1>5

(* An answer that waits for the term, or does not have to. *)
LEMMA AnswerAfterTermSteps ==
    ASSUME TypeOK, TypeOK', VoteInv, NEW n \in Server, NEW m \in msgs, FollowLeader(n, m),
           NEW act, NEW answer, AnswerAfterTerm(n, m, act, answer),
           UNCHANGED <<durableTerm, durableHard>>,
           act.kind = "Reply" => act.msg.from = n /\ ~IsGrant(act.msg),
           act.kind # "Campaign",
           answer.from = n, ~IsGrant(answer), answer.type # "AppendEntries"
    PROVE  Step(n)
<1>1. CASE m.term > term[n]
  <2>1. Issue(n, batches[n], act, TRUE, Len(log[n]) + 1) /\ UNCHANGED msgs
    BY <1>1 DEF AnswerAfterTerm
  <2>2. Stores(n) /\ Replies(n)' /\ \A p \in Server \ {n} : batches'[p] = batches[p]
    BY <2>1, FollowLeaderHard, KeepsQueue, IssueStores
  <2>3. Alone(n) /\ Campaigns(n)
    BY <2>2, FollowLeaderHard DEF Alone, Campaigns
  <2> QED
    BY <2>1, <2>2, <2>3, Silence DEF Step
<1>2. CASE ~(m.term > term[n])
  <2>1. Send(n, {answer}) /\ UNCHANGED batches
    BY <1>2 DEF AnswerAfterTerm
  <2>2. Stores(n) /\ Replies(n)'
    BY <2>1, FollowLeaderHard, StillWrites
  <2>3. Alone(n) /\ Campaigns(n)
    BY <2>1, FollowLeaderHard DEF Alone, Campaigns
  <2>4. Speaks(n)
    BY <2>1, SendsAnswer
  <2> QED
    BY <2>2, <2>3, <2>4 DEF Step
<1> QED
  BY <1>1, <1>2

LEMMA RejectAppendSteps ==
    ASSUME TypeOK, TypeOK', VoteInv, NEW n \in Server, NEW m \in msgs, RejectAppend(n, m)
    PROVE  Step(n)
<1> DEFINE answer == AppendResp(n, m.from, m.term, FALSE, durableIndex[n],
                                ConflictHint(log[n], m.prev))
<1>1. /\ FollowLeader(n, m) /\ UNCHANGED <<durableTerm, durableHard>>
      /\ AnswerAfterTerm(n, m, Reply(answer), answer)
  BY DEF RejectAppend, durableVars
<1>2. answer.from = n /\ ~IsGrant(answer) /\ answer.type # "AppendEntries"
  BY DEF AppendResp, IsGrant
<1> HIDE DEF answer
<1>3. Reply(answer).msg = answer /\ Reply(answer).kind # "Campaign"
  BY DEF Reply
<1> QED
  BY <1>1, <1>2, <1>3, AnswerAfterTermSteps

LEMMA ConfirmAppendSteps ==
    ASSUME TypeOK, TypeOK', VoteInv, NEW n \in Server, NEW m \in msgs, ConfirmAppend(n, m)
    PROVE  Step(n)
<1> DEFINE last == m.prev + Len(m.entries)
           act == LogDurable(durableIndex[n] + 1, durableIndex[n], last, m.from, m.term)
           answer == AppendResp(n, m.from, m.term, TRUE, MinOf(durableIndex[n], last), NO_INDEX)
<1>1. /\ FollowLeader(n, m) /\ UNCHANGED <<durableTerm, durableHard>>
      /\ AnswerAfterTerm(n, m, act, answer)
  BY DEF ConfirmAppend, durableVars
<1>2. answer.from = n /\ ~IsGrant(answer) /\ answer.type # "AppendEntries"
  BY DEF AppendResp, IsGrant
<1>3. act.kind \notin {"Reply", "Campaign"}
  BY ClaimIsNoReply
<1> HIDE DEF act, answer
<1> QED
  BY <1>1, <1>2, <1>3, AnswerAfterTermSteps

(* Clamping a claim changes neither hard states nor answers. *)
LEMMA ClampKeeps ==
    ASSUME NEW b \in Batch, NEW cap
    PROVE  /\ Clamp(b, cap).hard = b.hard /\ Clamp(b, cap).synced = b.synced
           /\ Clamp(b, cap).act.kind # "LogDurable" => Clamp(b, cap) = b
<1>1. CASE b.act.kind = "LogDurable"
  <2>1. Clamp(b, cap) = [b EXCEPT !.act = [b.act EXCEPT !.index = MinOf(b.act.index, cap)]]
    BY <1>1 DEF Clamp
  <2>2. b.act \in [kind : {"LogDurable"}, from : Nat, index : Nat, verified : Nat,
                   replyTo : Server \cup {None}, replyTerm : Nat]
    BY <1>1, ActTypes DEF Batch
  <2>3. [b.act EXCEPT !.index = MinOf(b.act.index, cap)].kind = "LogDurable"
    BY <2>2
  <2>4. ASSUME NEW a
        PROVE  LET c == [b EXCEPT !.act = a] IN c.act = a /\ c.hard = b.hard /\ c.synced = b.synced
    BY DEF Batch
  <2> QED
    BY <2>1, <2>3, <2>4
<1>2. CASE b.act.kind # "LogDurable"
  BY <1>2 DEF Clamp
<1> QED
  BY <1>1, <1>2

LEMMA AcceptAppendSteps ==
    ASSUME TypeOK, TypeOK', VoteInv, NEW n \in Server, NEW m \in msgs, AcceptAppend(n, m)
    PROVE  Step(n)
<1> DEFINE start == FirstNew(log[n], m.prev, m.entries)
           last == m.prev + Len(m.entries)
           act == LogDurable(start, last, last, m.from, m.term)
           queue == ClampAll(batches[n], start - 1)
<1>1. /\ FollowLeader(n, m) /\ UNCHANGED <<durableTerm, durableHard, msgs>>
      /\ Issue(n, queue, act, m.term > term[n], start)
  BY DEF AcceptAppend, ReplaceFrom
<1>2. act.kind \notin {"Reply", "Campaign"}
  BY ClaimIsNoReply
<1>3. /\ queue \in Seq(Batch) /\ Len(queue) = Len(batches[n])
      /\ \A i \in Queued(n) : queue[i] = Clamp(batches[n][i], start - 1)
      /\ \A i \in Queued(n) : batches[n][i] \in Batch
  <2>0. batches[n] \in Seq(Batch) /\ log[n] \in Seq(Entry) /\ m \in AppendMsgs
    BY <1>1, FollowLeaderTypes DEF TypeOK
  <2>1. start - 1 \in Nat
    <3>1. m.prev \in Nat /\ m.entries \in Seq(Entry)
      BY <2>0 DEF AppendMsgs
    <3>2. start \in (m.prev + 1)..(m.prev + Len(m.entries) + 1)
      BY <2>0, <3>1, FirstNewType
    <3> HIDE DEF start, act, queue
    <3> QED
      BY <3>1, <3>2
  <2>2. queue = [i \in 1..Len(batches[n]) |-> Clamp(batches[n][i], start - 1)]
    BY DEF ClampAll
  <2> HIDE DEF start
  <2>3. queue \in Seq(Batch)
    BY <2>0, <2>1, ClampAllType
  <2> HIDE DEF queue
  <2> QED
    BY <2>0, <2>2, <2>3 DEF Queued
<1> HIDE DEF act, queue
<1>4. \A i \in Queued(n) :
        /\ queue[i].hard = batches[n][i].hard /\ queue[i].synced = batches[n][i].synced
        /\ queue[i].act.kind # "LogDurable" => queue[i] = batches[n][i]
  BY <1>3, ClampKeeps
<1>5. Stores(n) /\ Replies(n)' /\ \A p \in Server \ {n} : batches'[p] = batches[p]
  BY <1>1, <1>2, <1>3, <1>4, FollowLeaderHard, IssueStores
<1>6. Alone(n) /\ Campaigns(n)
  BY <1>1, <1>5, FollowLeaderHard DEF Alone, Campaigns
<1> QED
  BY <1>1, <1>5, <1>6, Silence DEF Step

-----------------------------------------------------------------------------
(* What is left of the queue when batch k is confirmed. *)
Source(k, i) == IF i < k THEN i ELSE i + 1

LEMMA QueueWithoutKeeps ==
    ASSUME NEW queue \in Seq(Batch), NEW k \in 1..Len(queue)
    PROVE  /\ QueueWithout(queue, k) \in Seq(Batch) /\ Len(queue) \in Nat
           /\ Len(QueueWithout(queue, k)) = Len(queue) - 1
           /\ \A i \in 1..(Len(queue) - 1) :
                LET b == QueueWithout(queue, k)[i] IN
                /\ Source(k, i) \in 1..Len(queue)
                /\ b.hard = queue[Source(k, i)].hard
                /\ b.act = queue[Source(k, i)].act
                /\ b.synced = (i < k \/ queue[i + 1].synced)
<1> DEFINE r == QueueWithout(queue, k)
<1>1. r \in Seq(Batch)
  BY QueueWithoutType
<1>2. r = [i \in 1..(Len(queue) - 1) |->
             IF i < k THEN [queue[i] EXCEPT !.synced = TRUE] ELSE queue[i + 1]]
  BY DEF QueueWithout
<1> HIDE DEF r
<1>3. Len(queue) \in Nat /\ k \in Nat /\ Len(queue) - 1 \in Nat
  OBVIOUS
<1>4. Len(r) = Len(queue) - 1
  BY <1>1, <1>2, <1>3
<1>5. ASSUME NEW b \in Batch
      PROVE  LET c == [b EXCEPT !.synced = TRUE]
             IN c.hard = b.hard /\ c.act = b.act /\ c.synced = TRUE
  BY DEF Batch
<1>6. ASSUME NEW i \in 1..(Len(queue) - 1)
      PROVE  /\ Source(k, i) \in 1..Len(queue) /\ r[i].hard = queue[Source(k, i)].hard
             /\ r[i].act = queue[Source(k, i)].act
             /\ r[i].synced = (i < k \/ queue[i + 1].synced)
  <2>1. /\ i \in 1..Len(queue) /\ i + 1 \in 1..Len(queue)
        /\ queue[i] \in Batch /\ queue[i + 1] \in Batch
    BY <1>3
  <2>2. CASE i < k
    <3>1. r[i] = [queue[i] EXCEPT !.synced = TRUE] /\ Source(k, i) = i
      BY <1>2, <2>2 DEF Source
    <3> QED
      BY <1>5, <2>1, <2>2, <3>1
  <2>3. CASE ~(i < k)
    <3>1. r[i] = queue[i + 1] /\ Source(k, i) = i + 1
      BY <1>2, <2>3 DEF Source
    <3>2. queue[i + 1].synced \in BOOLEAN
      BY <2>1 DEF Batch
    <3> QED
      BY <2>1, <2>3, <3>1, <3>2
  <2> QED
    BY <2>2, <2>3
<1> QED
  BY <1>1, <1>3, <1>4, <1>6 DEF r

(* A confirmed sync, with or without a new claim at the end of the queue. *)
LEMMA SyncStores ==
    ASSUME TypeOK, TypeOK', VoteInv, NEW n \in Server, NEW k \in Queued(n), SyncDone(n, k),
           UNCHANGED <<term, votedFor>>,
           \/ batches' = [batches EXCEPT ![n] = QueueWithout(batches[n], k)]
           \/ \E act, from : /\ Issue(n, QueueWithout(batches[n], k), act, FALSE, from)
                             /\ act.kind \notin {"Reply", "Campaign"}
    PROVE  /\ Stores(n) /\ Replies(n)'
           /\ \A p \in Server \ {n} :
                /\ durableTerm'[p] = durableTerm[p] /\ durableHard'[p] = durableHard[p]
                /\ disk'[p] = disk[p] /\ batches'[p] = batches[p]
<1> DEFINE q == batches[n]
           r == QueueWithout(q, k)
           s == batches'[n]
<1>1. q \in Seq(Batch) /\ k \in 1..Len(q)
  BY DEF TypeOK, Queued
<1>2. /\ r \in Seq(Batch) /\ Len(q) \in Nat /\ Len(r) = Len(q) - 1
      /\ \A i \in 1..(Len(q) - 1) :
           /\ Source(k, i) \in 1..Len(q) /\ r[i].hard = q[Source(k, i)].hard
           /\ r[i].act = q[Source(k, i)].act /\ r[i].synced = (i < k \/ q[i + 1].synced)
  BY <1>1, QueueWithoutKeeps
<1>3. Hard(n)' = Hard(n)
  BY DEF Hard
<1>4. /\ \/ s = r
         \/ \E b : s = Append(r, b) /\ IsNew(n, b) /\ b.act.kind \notin {"Reply", "Campaign"}
      /\ \A p \in Server \ {n} : batches'[p] = batches[p]
  <2>1. batches \in [Server -> Seq(Batch)]
    BY DEF TypeOK
  <2>2. CASE batches' = [batches EXCEPT ![n] = QueueWithout(batches[n], k)]
    BY <2>1, <2>2
  <2>3. ASSUME NEW act, NEW from, Issue(n, QueueWithout(batches[n], k), act, FALSE, from),
               act.kind \notin {"Reply", "Campaign"}
        PROVE  <1>4!1 /\ <1>4!2
    <3> DEFINE b == NewBatch(n, act, FALSE, from)
    <3>1. batches' = [batches EXCEPT ![n] = Append(r, b)]
      BY <2>3 DEF Issue
    <3>2. b.hard = Hard(n)' /\ b.synced = FALSE /\ b.act = act
      BY DEF NewBatch
    <3> HIDE DEF b, r
    <3>3. IsNew(n, b) /\ b.act.kind \notin {"Reply", "Campaign"}
      BY <2>3, <3>2 DEF IsNew
    <3> QED
      BY <2>1, <3>1, <3>3
  <2> QED
    BY <2>2, <2>3
<1> HIDE DEF r
<1>5. /\ Len(s) \in {Len(q) - 1, Len(q)}
      /\ \A i \in 1..(Len(q) - 1) : s[i] = r[i]
      /\ \A i \in 1..Len(s) : \/ i \in 1..(Len(q) - 1)
                              \/ i = Len(q) /\ IsNew(n, s[i]) /\ s[i].act.kind \notin {"Reply", "Campaign"}
  <2>1. CASE s = r
    BY <1>2, <2>1
  <2>2. ASSUME NEW b, s = Append(r, b), IsNew(n, b), b.act.kind \notin {"Reply", "Campaign"}
        PROVE  <1>5
    <3>1. /\ Len(Append(r, b)) = Len(r) + 1 /\ Append(r, b)[Len(r) + 1] = b
          /\ \A i \in 1..Len(r) : Append(r, b)[i] = r[i]
      BY <1>2
    <3> HIDE DEF s, q
    <3>2. Len(s) = Len(q) /\ s[Len(q)] = b /\ \A i \in 1..(Len(q) - 1) : s[i] = r[i]
      BY <1>2, <2>2, <3>1
    <3> QED
      BY <1>2, <2>2, <3>2
  <2> QED
    BY <1>4, <2>1, <2>2
<1>6. Syncs(n, k)
  <2>1. \A i \in Queued(n)' : i >= Len(q) => IsNew(n, s[i])
    BY <1>2, <1>5 DEF Queued
  <2>2. \A i \in 1..(Len(q) - 1) :
          /\ s[i].hard = q[IF i < k THEN i ELSE i + 1].hard
          /\ s[i].synced = (i < k \/ q[i + 1].synced)
    BY <1>2, <1>5 DEF Source
  <2> QED
    BY <1>3, <1>5, <2>1, <2>2 DEF Syncs
<1>7. Replies(n)'
  <2> SUFFICES ASSUME NEW i \in Queued(n)'
               PROVE  RepliesWell(n, s[i])
    BY DEF Replies
  <2>1. CASE i \in 1..(Len(q) - 1)
    <3>1. /\ s[i].act = q[Source(k, i)].act /\ s[i].hard = q[Source(k, i)].hard
          /\ Source(k, i) \in Queued(n)
      BY <1>2, <1>5, <2>1 DEF Queued
    <3>2. RepliesWell(n, q[Source(k, i)])
      BY <3>1 DEF VoteInv, Replies
    <3> QED
      BY <3>1, <3>2 DEF RepliesWell
  <2>2. CASE s[i].act.kind \notin {"Reply", "Campaign"}
    BY <2>2 DEF RepliesWell
  <2> QED
    BY <1>5, <2>1, <2>2 DEF Queued
<1>8. \A p \in Server \ {n} : /\ durableTerm'[p] = durableTerm[p] /\ disk'[p] = disk[p]
                              /\ durableHard'[p] = durableHard[p]
  BY DEF SyncDone, TypeOK
<1> QED
  BY <1>4, <1>6, <1>7, <1>8 DEF Stores

LEMMA RequestsAreNoVotes ==
    ASSUME NEW n, NEW p
    PROVE  /\ RequestVoteMsg(n, p).from = n /\ ~IsGrant(RequestVoteMsg(n, p))
           /\ RequestVoteMsg(n, p).type # "AppendEntries"
BY DEF RequestVoteMsg, IsGrant

LEMMA CampaignDurableSteps ==
    ASSUME TypeOK, TypeOK', VoteInv, NEW n \in Server, NEW k \in Queued(n), CampaignDurable(n, k)
    PROVE  Step(n)
<1> DEFINE asks == {RequestVoteMsg(n, p) : p \in Peers(n)}
<1>1. SyncDone(n, k) /\ UNCHANGED <<term, votedFor, votes>>
  BY DEF CampaignDurable, BecomeLeader
<1>2. \A m \in asks : m.from = n /\ ~IsGrant(m) /\ m.type # "AppendEntries"
  BY RequestsAreNoVotes
<1>3. role \in [Server -> {"Follower", "Candidate", "Leader"}]
  BY DEF TypeOK
<1>4. CASE /\ role[n] = "Candidate" /\ IsQuorum(votes[n])
           /\ BecomeLeader(n, QueueWithout(batches[n], k)) /\ Send(n, asks \cup LeaderGreeting(n))
  <2>1. /\ role' = [role EXCEPT ![n] = "Leader"]
        /\ \E act, from : /\ Issue(n, QueueWithout(batches[n], k), act, FALSE, from)
                          /\ act.kind \notin {"Reply", "Campaign"}
    BY <1>4, ClaimIsNoReply DEF BecomeLeader
  <2>2. /\ Stores(n) /\ Replies(n)'
        /\ \A p \in Server \ {n} :
             /\ durableTerm'[p] = durableTerm[p] /\ durableHard'[p] = durableHard[p]
             /\ disk'[p] = disk[p] /\ batches'[p] = batches[p]
    BY <1>1, <2>1, SyncStores
  <2>3. role'[n] = "Leader"
    BY <1>3, <2>1
  <2>4. Alone(n)
    BY <1>1, <1>3, <2>1, <2>2 DEF Alone
  <2>5. Campaigns(n)
    BY <1>1, <1>4, <2>3 DEF Campaigns
  <2>6. \A m \in LeaderGreeting(n) : m.from = n /\ ~IsGrant(m) /\ m.term = term[n]
    BY AppendsToAllAre DEF LeaderGreeting
  <2> HIDE DEF asks
  <2>7. Speaks(n)
    BY <1>1, <1>2, <1>4, <2>3, <2>6, SendsNoVote
  <2> QED
    BY <2>2, <2>4, <2>5, <2>7 DEF Step
<1>5. CASE /\ UNCHANGED role /\ batches' = [batches EXCEPT ![n] = QueueWithout(batches[n], k)]
           /\ Send(n, asks) \/ Send(n, {})
  <2>1. /\ Stores(n) /\ Replies(n)'
        /\ \A p \in Server \ {n} :
             /\ durableTerm'[p] = durableTerm[p] /\ durableHard'[p] = durableHard[p]
             /\ disk'[p] = disk[p] /\ batches'[p] = batches[p]
    BY <1>1, <1>5, SyncStores
  <2>2. Alone(n) /\ Campaigns(n)
    BY <1>1, <1>5, <2>1 DEF Alone, Campaigns
  <2> HIDE DEF asks
  <2>3. Speaks(n)
    BY <1>2, <1>5, SendsNoVote
  <2> QED
    BY <2>1, <2>2, <2>3 DEF Step
<1> QED
  BY <1>4, <1>5 DEF CampaignDurable

(* A vote leaves when the batch that wrote it is on the disk. *)
LEMMA ReplyDurableSteps ==
    ASSUME TypeOK, TypeOK', VoteInv, NEW n \in Server, NEW k \in Queued(n), ReplyDurable(n, k)
    PROVE  Step(n)
<1> DEFINE b == batches[n][k]
<1>1. /\ SyncDone(n, k) /\ UNCHANGED <<term, votedFor, votes, role>>
      /\ batches' = [batches EXCEPT ![n] = QueueWithout(batches[n], k)]
      /\ Send(n, IF b.act.kind = "Reply" THEN {b.act.msg} ELSE {})
  BY DEF ReplyDurable, electionVars
<1>2. /\ Stores(n) /\ Replies(n)'
      /\ \A p \in Server \ {n} :
           /\ durableTerm'[p] = durableTerm[p] /\ durableHard'[p] = durableHard[p]
           /\ disk'[p] = disk[p] /\ batches'[p] = batches[p]
  BY <1>1, SyncStores
<1>3. Alone(n) /\ Campaigns(n)
  BY <1>1, <1>2 DEF Alone, Campaigns
<1>4. ASSUME b.act.kind = "Reply"
      PROVE  b.act.msg.type # "AppendEntries"
  <2>1. b.act \in Act
    BY HardTypes DEF HardTyped
  <2>2. b.act.msg \in VoteRespMsgs \cup AppendRespMsgs
    BY <1>4, <2>1, ActTypes
  <2> QED
    BY <2>2 DEF VoteRespMsgs, AppendRespMsgs
<1>5. RepliesWell(n, b)
  BY DEF VoteInv, Replies
<1>6. Le(b.hard, disk'[n].hard)
  BY <1>1, SyncsDisk DEF VoteInv
<1>7. b.hard \in {batches[n][i].hard : i \in Queued(n)} \cup {Hard(n)}
  OBVIOUS
<1> HIDE DEF b
<1>8. \A m \in msgs' \ msgs : m = b.act.msg /\ b.act.kind = "Reply" /\ m.term <= durableTerm'[n]
  BY <1>1 DEF Send
<1>9. \A m \in msgs' \ msgs : IsGrant(m) => Cast(m) = b.hard
  BY <1>5, <1>8 DEF RepliesWell, Cast
<1>10. Speaks(n)
  <2>1. msgs \subseteq msgs'
    BY <1>1 DEF Send
  <2>2. \A m \in msgs' \ msgs : m.from = n /\ m.type # "AppendEntries"
    BY <1>4, <1>5, <1>8 DEF RepliesWell
  <2> QED
    BY <1>6, <1>7, <1>8, <1>9, <2>1, <2>2 DEF Speaks
<1> QED
  BY <1>2, <1>3, <1>10 DEF Step

LEMMA LogIsDurableSteps ==
    ASSUME TypeOK, TypeOK', VoteInv, NEW n \in Server, NEW k \in Queued(n), LogIsDurable(n, k)
    PROVE  Step(n)
<1>1. /\ SyncDone(n, k) /\ UNCHANGED <<term, votedFor, votes, role>>
      /\ batches' = [batches EXCEPT ![n] = QueueWithout(batches[n], k)]
  BY DEF LogIsDurable, electionVars
<1>2. \/ Send(n, {})
      \/ \E p, t, match : Send(n, {AppendResp(n, p, t, TRUE, match, NO_INDEX)})
  BY DEF LogIsDurable
<1>3. /\ Stores(n) /\ Replies(n)'
      /\ \A p \in Server \ {n} :
           /\ durableTerm'[p] = durableTerm[p] /\ durableHard'[p] = durableHard[p]
           /\ disk'[p] = disk[p] /\ batches'[p] = batches[p]
  BY <1>1, SyncStores
<1>4. Alone(n) /\ Campaigns(n)
  BY <1>1, <1>3 DEF Alone, Campaigns
<1>5. CASE Send(n, {})
  BY <1>3, <1>4, <1>5, SendsNoVote DEF Step
<1>6. ASSUME NEW p, NEW t, NEW match, Send(n, {AppendResp(n, p, t, TRUE, match, NO_INDEX)})
      PROVE  Step(n)
  <2> DEFINE r == AppendResp(n, p, t, TRUE, match, NO_INDEX)
  <2>1. r.from = n /\ ~IsGrant(r) /\ r.type # "AppendEntries"
    BY DEF AppendResp, IsGrant
  <2> HIDE DEF r
  <2>2. Speaks(n)
    <3>1. Send(n, {r})
      BY <1>6 DEF r
    <3> QED
      BY <2>1, <3>1, SendsAnswer
  <2> QED
    BY <1>3, <1>4, <2>2 DEF Step
<1> QED
  BY <1>2, <1>5, <1>6

-----------------------------------------------------------------------------
LEMMA NextSteps ==
    ASSUME TypeOK, TypeOK', VoteInv, Next
    PROVE  \E n \in Server : Step(n)
<1>1. PICK n \in Server :
        \/ ElectionTimeout(n)
        \/ Heartbeat(n)
        \/ \E c \in Cmd : Propose(n, c)
        \/ Restart(n)
        \/ \E k \in Queued(n) :
              CampaignDurable(n, k) \/ ReplyDurable(n, k) \/ LogIsDurable(n, k)
        \/ \E m \in msgs :
              \/ RefuseStale(n, m) \/ HandleNewerTermResp(n, m)
              \/ HandleVoteRequest(n, m) \/ RepeatVoteAnswer(n, m) \/ HandleVoteResp(n, m)
              \/ HandlePreVote(n, m) \/ HandlePreVoteResp(n, m)
              \/ RejectAppend(n, m) \/ AcceptAppend(n, m) \/ ConfirmAppend(n, m)
              \/ HandleAppendAck(n, m) \/ HandleAppendNack(n, m)
  BY DEF Next, Queued
<1> QED
  BY <1>1, ElectionTimeoutSteps, HeartbeatSteps, ProposeSteps, RestartSteps,
     CampaignDurableSteps, ReplyDurableSteps, LogIsDurableSteps,
     RefuseStaleSteps, HandleNewerTermRespSteps, HandleVoteRequestSteps,
     RepeatVoteAnswerSteps, HandleVoteRespSteps, HandlePreVoteSteps,
     HandlePreVoteRespSteps, RejectAppendSteps, AcceptAppendSteps,
     ConfirmAppendSteps, HandleAppendAckSteps, HandleAppendNackSteps

LEMMA StutterSteps ==
    ASSUME TypeOK, VoteInv, UNCHANGED vars
    PROVE  \E n \in Server : Step(n)
<1>1. PICK n : n \in Server
  BY ServerAssumption
<1> QED
  BY <1>1, StillStores, Silence DEF Step, vars, electionVars, durableVars

(* The inductive invariant, for every cluster and every configuration.     *)
THEOREM VotesAreKept == Spec => []VoteInv
<1>1. Init => VoteInv
  BY InitTypes, InvAtStart
<1>2. TypeOK /\ TypeOK' /\ VoteInv /\ [Next]_vars => VoteInv'
  BY NextSteps, StutterSteps, InvIsKept
<1> QED
  BY <1>1, <1>2, TypeCorrect, PTL DEF Spec

(* A vote that was announced is on the voter's disk, or the disk is past    *)
(* that term, in every cluster and through any number of crashes: the wait *)
(* of `on_request_vote` for `VoteReply`, and its refusal to repeat a vote  *)
(* that `durable_hard` does not confirm, are enough.                       *)
THEOREM VotesDurable == Spec => []VotesAreDurable
<1>1. TypeOK /\ VoteInv => VotesAreDurable
  BY DurabilityFollows
<1> QED
  BY <1>1, TypeCorrect, VotesAreKept, PTL

(* No node has ever spoken in a term its disk had not heard of: the guard   *)
(* of `send` holds against syncs that complete out of order.               *)
THEOREM TermsDurable == Spec => []TermsAreDurable
<1>1. TypeOK /\ VoteInv => TermsAreDurable
  BY DurabilityFollows
<1> QED
  BY <1>1, TypeCorrect, VotesAreKept, PTL

(* No term ever has two leaders, counting those that have crashed since:    *)
(* `become_leader` is reached on the votes of a quorum that no crash makes *)
(* forget.                                                                 *)
THEOREM OneLeaderPerTerm == Spec => []ElectionSafety
<1>1. TypeOK /\ VoteInv => ElectionSafety
  BY ElectionSafetyFollows
<1> QED
  BY <1>1, TypeCorrect, VotesAreKept, PTL
-----------------------------------------------------------------------------
(* Elections under pre-vote.  A grant counts for the round it names, and a *)
(* round is opened by a request of that term, which clears the tally; so   *)
(* once a round is open, whoever is in the tally granted that round.  A    *)
(* tally left over from an earlier term is only ever used after such a     *)
(* request, for a grant of the round presupposes it.                       *)

Polled(n, round) == \E m \in msgs : m.type = "PreVote" /\ m.from = n /\ m.term = round

IsPreGrant(m, n, round) ==
    m.type = "PreVoteResp" /\ m.to = n /\ m.granted /\ m.round = round

PreGranted(v, n, round) == \E m \in msgs : IsPreGrant(m, n, round) /\ m.from = v

PreVoteInv ==
    /\ \A m \in msgs : m.type = "PreVoteResp" => Polled(m.to, m.round)
    /\ \A n \in Server : Polled(n, term[n]) =>
         \A v \in preVotes[n] : v = n \/ PreGranted(v, n, term[n])
    /\ ElectionsAreWarranted

(* What a step of node n may do, for this argument. *)
Polls(n) ==
    /\ \A p \in Server \ {n} : preVotes'[p] = preVotes[p]
    /\ \A m \in msgs' \ msgs :
         /\ m.type = "PreVote" => preVotes'[n] = {n}
         /\ m.type = "PreVoteResp" => Polled(m.to, m.round)
    /\ \/ preVotes'[n] \subseteq {n}
       \/ term'[n] > term[n]
       \/ /\ term'[n] = term[n]
          /\ \A v \in preVotes'[n] : v \in preVotes[n] \/ PreGranted(v, n, term[n])
    /\ role'[n] = "Candidate" =>
         \/ role[n] = "Candidate" /\ term'[n] = term[n]
         \/ /\ term'[n] = term[n] + 1
            /\ PreVoteEnabled =>
                 \/ IsQuorum({n})
                 \/ \E v \in Server :
                      PreGranted(v, n, term[n]) /\ IsQuorum(preVotes[n] \cup {v})

LEMMA PreGrantsAreKept ==
    ASSUME NEW n, Step(n), NEW v, NEW p, NEW r, PreGranted(v, p, r)
    PROVE  PreGranted(v, p, r)'
BY DEF Step, Speaks, PreGranted, IsPreGrant

(* Whoever is in the tally of an open round granted that round. *)
LEMMA TalliesAreKept ==
    ASSUME TypeOK, TypeOK', VoteInv, PreVoteInv, NEW n \in Server, Step(n), Polls(n),
           NEW p \in Server, Polled(p, term[p])', NEW v \in preVotes'[p]
    PROVE  v = p \/ PreGranted(v, p, term[p])'
<1>1. PICK m \in msgs' : m.type = "PreVote" /\ m.from = p /\ m.term = term'[p]
  BY DEF Polled
<1>2. CASE m \notin msgs
  <2>1. p = n /\ preVotes'[n] = {n}
    BY <1>1, <1>2 DEF Step, Speaks, Polls
  <2> QED
    BY <2>1
<1>3. CASE m \in msgs /\ term'[p] = term[p]
  <2>1. Polled(p, term[p])
    BY <1>1, <1>3 DEF Polled
  <2>2. v = p \/ v \in preVotes[p] \/ PreGranted(v, p, term[p])
    <3>1. term[n] \in Nat
      BY DEF TypeOK
    <3>2. CASE p = n
      <4>1. ~(term'[n] > term[n])
        BY <1>3, <3>1, <3>2
      <4> QED
        BY <3>2, <4>1 DEF Polls
    <3> QED
      BY <3>2 DEF Polls
  <2>3. v = p \/ PreGranted(v, p, term[p])
    BY <2>1, <2>2 DEF PreVoteInv
  <2> QED
    BY <1>3, <2>3, PreGrantsAreKept
<1>4. CASE m \in msgs /\ term'[p] # term[p]
  <2>1. p = n
    BY <1>4 DEF Step, Alone
  <2>2. /\ m.term <= disk[n].hard.term /\ Le(disk[n].hard, Hard(n))
    BY <1>1, <1>4, <2>1 DEF VoteInv, Spoken, Chain
  <2>3. /\ disk[n].hard \in HardState /\ Hard(n) \in HardState /\ Hard(n).term = term[n]
    BY HardTypes DEF HardTyped
  <2>4. disk[n].hard.term <= term[n] /\ disk[n].hard.term \in Nat
    BY <2>2, <2>3, LeTerm DEF HardState
  <2>5. m.term \in Nat /\ term[n] \in Nat
    BY <1>4, MessageTypes DEF TypeOK
  <2>6. ~(term'[n] > term[n])
    BY <1>1, <2>1, <2>2, <2>4, <2>5
  <2>7. preVotes'[n] \subseteq {n}
    BY <1>4, <2>1, <2>6 DEF Polls
  <2> QED
    BY <2>1, <2>7
<1> QED
  BY <1>2, <1>3, <1>4

LEMMA WarrantIsKept ==
    ASSUME TypeOK, TypeOK', VoteInv, PreVoteInv, NEW n \in Server, Step(n), Polls(n),
           NEW p \in Server, PreVoteEnabled, role'[p] = "Candidate"
    PROVE  IsQuorum({p} \cup {m.from : m \in {a \in msgs' : IsPreGrant(a, p, term'[p] - 1)}})
<1> DEFINE G(ms, r) == {p} \cup {m.from : m \in {a \in ms : IsPreGrant(a, p, r)}}
<1>1. ASSUME NEW r PROVE G(msgs', r) \in SUBSET Server /\ G(msgs, r) \subseteq G(msgs', r)
  <2>1. \A m \in msgs' : m.from \in Server
    BY MessageTypes DEF TypeOK
  <2>2. msgs \subseteq msgs'
    BY DEF Step, Speaks
  <2> QED
    BY <2>1, <2>2
<1>2. CASE role[p] = "Candidate" /\ term'[p] = term[p]
  <2>1. IsQuorum(G(msgs, term[p] - 1))
    BY <1>2 DEF PreVoteInv, ElectionsAreWarranted, IsPreGrant
  <2>2. G(msgs, term[p] - 1) \in SUBSET Server
    BY <1>1
  <2> HIDE DEF G
  <2>3. IsQuorum(G(msgs', term[p] - 1))
    BY <1>1, <2>1, <2>2, QuorumGrows
  <2> QED
    BY <1>2, <2>3 DEF G
<1>3. CASE p = n /\ term'[n] = term[n] + 1 /\ IsQuorum({n})
  <2>1. {n} \subseteq G(msgs', term'[p] - 1)
    BY <1>3
  <2>2. IsQuorum(G(msgs', term'[p] - 1))
    <3> HIDE DEF G
    <3> QED
      BY <1>1, <1>3, <2>1, QuorumGrows
  <2> QED
    BY <2>2
<1>4. ASSUME p = n, term'[n] = term[n] + 1, NEW v \in Server, PreGranted(v, n, term[n]),
             IsQuorum(preVotes[n] \cup {v})
      PROVE  IsQuorum(G(msgs', term'[p] - 1))
  <2>1. Polled(n, term[n])
    BY <1>4 DEF PreVoteInv, PreGranted, IsPreGrant
  <2>2. \A w \in preVotes[n] \cup {v} : w = n \/ PreGranted(w, n, term[n])
    BY <1>4, <2>1 DEF PreVoteInv
  <2>3. ASSUME NEW w \in preVotes[n] \cup {v} PROVE w \in G(msgs, term[n])
    <3>1. CASE w = n
      BY <1>4, <3>1
    <3>2. CASE PreGranted(w, n, term[n])
      <4>1. PICK m \in msgs : IsPreGrant(m, p, term[n]) /\ m.from = w
        BY <1>4, <3>2 DEF PreGranted
      <4> QED
        BY <4>1
    <3> QED
      BY <2>2, <3>1, <3>2
  <2>4. term'[p] - 1 = term[n]
    <3>1. term[n] \in Nat
      BY DEF TypeOK
    <3> QED
      BY <1>4, <3>1
  <2>5. preVotes[n] \cup {v} \in SUBSET Server
    BY DEF TypeOK
  <2> HIDE DEF G
  <2>6. preVotes[n] \cup {v} \subseteq G(msgs', term[n]) /\ G(msgs', term[n]) \in SUBSET Server
    <3>1. G(msgs', term[n]) \in SUBSET Server /\ G(msgs, term[n]) \subseteq G(msgs', term[n])
      BY <1>1
    <3>2. \A w \in preVotes[n] \cup {v} : w \in G(msgs, term[n])
      BY <2>3
    <3> QED
      BY <3>1, <3>2
  <2>7. IsQuorum(G(msgs', term[n]))
    BY <1>4, <2>5, <2>6, QuorumGrows
  <2> QED
    BY <2>4, <2>7
<1> QED
  <2>1. CASE p # n
    BY <1>2, <2>1 DEF Step, Alone
  <2>2. CASE p = n
    BY <1>2, <1>3, <1>4, <2>2 DEF Polls
  <2> QED
    BY <2>1, <2>2

LEMMA PollsKeep ==
    ASSUME TypeOK, TypeOK', VoteInv, PreVoteInv, NEW n \in Server, Step(n), Polls(n)
    PROVE  PreVoteInv'
<1>1. ASSUME NEW m \in msgs', m.type = "PreVoteResp"
      PROVE  Polled(m.to, m.round)'
  <2>1. Polled(m.to, m.round)
    BY <1>1 DEF Polls, PreVoteInv
  <2> QED
    BY <2>1 DEF Polled, Step, Speaks
<1>2. (\A p \in Server : Polled(p, term[p]) =>
         \A v \in preVotes[p] : v = p \/ PreGranted(v, p, term[p]))'
  BY TalliesAreKept
<1>3. ElectionsAreWarranted'
  BY WarrantIsKept DEF ElectionsAreWarranted, IsPreGrant
<1> QED
  BY <1>1, <1>2, <1>3 DEF PreVoteInv

-----------------------------------------------------------------------------
(* Every action is such a step; most neither poll nor answer a poll. *)

IsPoll(m) == m.type \in {"PreVote", "PreVoteResp"}

LEMMA NoPoll ==
    ASSUME NEW n \in Server, Step(n), UNCHANGED preVotes, \A m \in msgs' \ msgs : ~IsPoll(m),
           \/ term'[n] = term[n] /\ (role'[n] = "Candidate" => role[n] = "Candidate")
           \/ term'[n] > term[n] /\ role'[n] = "Follower"
    PROVE  Polls(n)
BY DEF Polls, IsPoll

LEMMA SendsNoPoll ==
    ASSUME NEW n, NEW ms, Send(n, ms), \A m \in ms : ~IsPoll(m)
    PROVE  \A m \in msgs' \ msgs : ~IsPoll(m)
BY DEF Send

LEMMA AppendsAreNoPoll ==
    ASSUME NEW n, NEW lg, NEW next, NEW commit
    PROVE  /\ \A p : \A m \in AppendTo(n, p, lg, next, commit) : ~IsPoll(m)
           /\ \A m \in AppendToAll(n, lg, next, commit) : ~IsPoll(m)
<1>1. \A x, p : \A m \in AppendTo(n, p, lg, x, commit) : ~IsPoll(m)
  BY DEF AppendTo, IsPoll
<1> QED
  BY <1>1 DEF AppendToAll

LEMMA AnswersAreNoPoll ==
    ASSUME NEW n, NEW p, NEW t, NEW a, NEW b, NEW c
    PROVE  ~IsPoll(VoteResp(n, p, t, a)) /\ ~IsPoll(AppendResp(n, p, t, a, b, c))
           /\ ~IsPoll(RequestVoteMsg(n, p))
BY DEF VoteResp, AppendResp, RequestVoteMsg, IsPoll

(* The leader's actions, and the answers that change nothing. *)
LEMMA LeaderPolls ==
    ASSUME NEW n \in Server, Step(n), NEW m,
           \/ Heartbeat(n) \/ (\E c \in Cmd : Propose(n, c)) \/ RefuseStale(n, m)
           \/ RepeatVoteAnswer(n, m) \/ HandleAppendAck(n, m) \/ HandleAppendNack(n, m)
    PROVE  Polls(n)
<1>1. UNCHANGED <<preVotes, term, role>>
  BY DEF Heartbeat, Propose, RefuseStale, RepeatVoteAnswer, HandleAppendAck, HandleAppendNack,
         electionVars
<1>2. CASE Heartbeat(n)
  BY <1>1, <1>2, AppendsAreNoPoll, SendsNoPoll, NoPoll DEF Heartbeat
<1>3. CASE \E c \in Cmd : Propose(n, c)
  BY <1>1, <1>3, AppendsAreNoPoll, SendsNoPoll, NoPoll DEF Propose
<1>4. CASE RefuseStale(n, m)
  <2>1. \E r : Send(n, {r}) /\ ~IsPoll(r)
    BY <1>4, AnswersAreNoPoll DEF RefuseStale
  <2> QED
    BY <1>1, <2>1, SendsNoPoll, NoPoll
<1>5. CASE RepeatVoteAnswer(n, m)
  <2>1. \E r : Send(n, {r}) /\ ~IsPoll(r)
    BY <1>5, AnswersAreNoPoll DEF RepeatVoteAnswer
  <2> QED
    BY <1>1, <2>1, SendsNoPoll, NoPoll
<1>6. CASE HandleAppendAck(n, m)
  <2>1. PICK next, c, ms : Send(n, ms) /\ (ms = {} \/ ms = AppendTo(n, m.from, log[n], next, c))
    BY <1>6 DEF HandleAppendAck
  <2> QED
    BY <1>1, <2>1, AppendsAreNoPoll, SendsNoPoll, NoPoll
<1>7. CASE HandleAppendNack(n, m)
  <2>1. PICK next : Send(n, AppendTo(n, m.from, log[n], next, commitIndex[n]))
    BY <1>7 DEF HandleAppendNack
  <2> QED
    BY <1>1, <2>1, AppendsAreNoPoll, SendsNoPoll, NoPoll
<1> QED
  BY <1>2, <1>3, <1>4, <1>5, <1>6, <1>7

(* The votes, and the disk. *)
LEMMA VotePolls ==
    ASSUME TypeOK, NEW n \in Server, Step(n), NEW m \in msgs,
           HandleVoteRequest(n, m) \/ HandleVoteResp(n, m)
    PROVE  Polls(n)
<1>0. /\ term \in [Server -> Nat] /\ role \in [Server -> {"Follower", "Candidate", "Leader"}]
      /\ m.term \in Nat
  BY MessageTypes DEF TypeOK
<1>1. CASE HandleVoteRequest(n, m)
  <2>1. UNCHANGED <<preVotes, msgs>>
    BY <1>1 DEF HandleVoteRequest
  <2>2. CASE m.term > term[n]
    <3>1. term'[n] > term[n] /\ role'[n] = "Follower"
      BY <1>0, <1>1, <2>2 DEF HandleVoteRequest, StepDownTo
    <3> QED
      BY <2>1, <3>1, NoPoll
  <2>3. CASE ~(m.term > term[n])
    <3>1. UNCHANGED <<term, role>>
      BY <1>1, <2>3 DEF HandleVoteRequest
    <3> QED
      BY <2>1, <3>1, NoPoll
  <2> QED
    BY <2>2, <2>3
<1>2. CASE HandleVoteResp(n, m)
  <2>1. UNCHANGED <<preVotes, term>> /\ role[n] = "Candidate"
    BY <1>2 DEF HandleVoteResp, BecomeLeader
  <2>2. UNCHANGED msgs \/ Send(n, LeaderGreeting(n))
    BY <1>2 DEF HandleVoteResp
  <2>3. \A o \in LeaderGreeting(n) : ~IsPoll(o)
    BY AppendsAreNoPoll DEF LeaderGreeting
  <2> QED
    BY <2>1, <2>2, <2>3, SendsNoPoll, NoPoll
<1> QED
  BY <1>1, <1>2

LEMMA DurablePolls ==
    ASSUME TypeOK, NEW n \in Server, Step(n), NEW k \in Queued(n),
           CampaignDurable(n, k) \/ ReplyDurable(n, k) \/ LogIsDurable(n, k)
    PROVE  Polls(n)
<1>0. UNCHANGED <<preVotes, term>>
  BY DEF CampaignDurable, ReplyDurable, LogIsDurable, BecomeLeader, electionVars
<1>1. CASE CampaignDurable(n, k)
  <2> DEFINE asks == {RequestVoteMsg(n, p) : p \in Peers(n)}
  <2>1. \A o \in asks \cup LeaderGreeting(n) : ~IsPoll(o)
    BY AppendsAreNoPoll, AnswersAreNoPoll DEF LeaderGreeting
  <2>2. Send(n, asks \cup LeaderGreeting(n)) \/ Send(n, asks) \/ Send(n, {})
    BY <1>1 DEF CampaignDurable
  <2>3. role[n] = "Candidate" \/ UNCHANGED role
    BY <1>1 DEF CampaignDurable
  <2> HIDE DEF asks
  <2> QED
    BY <1>0, <2>1, <2>2, <2>3, SendsNoPoll, NoPoll
<1>2. CASE ReplyDurable(n, k)
  <2>1. UNCHANGED role
    BY <1>2 DEF ReplyDurable, electionVars
  <2> DEFINE act == batches[n][k].act
  <2>2. Send(n, IF act.kind = "Reply" THEN {act.msg} ELSE {})
    BY <1>2 DEF ReplyDurable
  <2>3. act \in Act
    BY HardTypes DEF HardTyped
  <2> HIDE DEF act
  <2>4. act.kind = "Reply" => ~IsPoll(act.msg)
    BY <2>3, ActTypes DEF VoteRespMsgs, AppendRespMsgs, IsPoll
  <2> QED
    BY <1>0, <2>1, <2>2, <2>4, SendsNoPoll, NoPoll
<1>3. CASE LogIsDurable(n, k)
  <2>1. UNCHANGED role
    BY <1>3 DEF LogIsDurable, electionVars
  <2>2. \/ Send(n, {})
        \/ \E p, t, match : Send(n, {AppendResp(n, p, t, TRUE, match, NO_INDEX)})
    BY <1>3 DEF LogIsDurable
  <2>3. CASE Send(n, {})
    BY <1>0, <2>1, <2>3, SendsNoPoll, NoPoll
  <2>4. ASSUME NEW p, NEW t, NEW match, Send(n, {AppendResp(n, p, t, TRUE, match, NO_INDEX)})
        PROVE  Polls(n)
    <3>1. ~IsPoll(AppendResp(n, p, t, TRUE, match, NO_INDEX))
      BY DEF AppendResp, IsPoll
    <3> QED
      BY <1>0, <2>1, <2>4, <3>1, SendsNoPoll, NoPoll
  <2> QED
    BY <2>2, <2>3, <2>4
<1> QED
  BY <1>1, <1>2, <1>3

(* A follower's side of an append. *)
LEMMA FollowerPolls ==
    ASSUME TypeOK, NEW n \in Server, Step(n), NEW m \in msgs,
           RejectAppend(n, m) \/ AcceptAppend(n, m) \/ ConfirmAppend(n, m)
    PROVE  Polls(n)
<1>1. FollowLeader(n, m) /\ UNCHANGED preVotes
  BY DEF RejectAppend, AcceptAppend, ConfirmAppend, FollowLeader
<1>2. term'[n] = term[n] \/ term'[n] > term[n]
  <2>1. term' = [term EXCEPT ![n] = m.term] /\ m.term >= term[n]
    BY <1>1 DEF FollowLeader, StepDownTo
  <2>2. term \in [Server -> Nat] /\ m.term \in Nat
    BY MessageTypes DEF TypeOK
  <2> QED
    BY <2>1, <2>2
<1>3. role'[n] = "Follower"
  BY <1>1, FollowLeaderHard
<1>4. UNCHANGED msgs \/ \E r : Send(n, {r}) /\ ~IsPoll(r)
  BY AnswersAreNoPoll DEF RejectAppend, AcceptAppend, ConfirmAppend, AnswerAfterTerm
<1>5. \A o \in msgs' \ msgs : ~IsPoll(o)
  BY <1>4, SendsNoPoll
<1> QED
  BY <1>1, <1>2, <1>3, <1>5, NoPoll

LEMMA CandidatePolls ==
    ASSUME TypeOK, NEW n \in Server, Step(n), BecomeCandidate(n),
           PreVoteEnabled =>
             \/ IsQuorum({n})
             \/ \E v \in Server :
                  PreGranted(v, n, term[n]) /\ IsQuorum(preVotes[n] \cup {v})
    PROVE  Polls(n)
<1>1. /\ term' = [term EXCEPT ![n] = @ + 1] /\ preVotes' = [preVotes EXCEPT ![n] = {}]
      /\ UNCHANGED msgs
  BY DEF BecomeCandidate
<1>2. term \in [Server -> Nat] /\ preVotes \in [Server -> SUBSET Server]
  BY DEF TypeOK
<1>3. term'[n] = term[n] + 1 /\ preVotes'[n] = {}
      /\ \A p \in Server \ {n} : preVotes'[p] = preVotes[p]
  BY <1>1, <1>2
<1> QED
  BY <1>1, <1>3 DEF Polls

LEMMA ElectionTimeoutPolls ==
    ASSUME TypeOK, NEW n \in Server, Step(n), ElectionTimeout(n)
    PROVE  Polls(n)
<1>1. CASE PreVoteEnabled /\ ~IsQuorum({n})
  <2>1. /\ role' = [role EXCEPT ![n] = "Follower"] /\ preVotes' = [preVotes EXCEPT ![n] = {n}]
        /\ Send(n, {PreVoteMsg(n, p) : p \in Peers(n)})
    BY <1>1 DEF ElectionTimeout, StartPreVote
  <2>2. /\ role \in [Server -> {"Follower", "Candidate", "Leader"}]
        /\ preVotes \in [Server -> SUBSET Server]
    BY DEF TypeOK
  <2>3. /\ role'[n] = "Follower" /\ preVotes'[n] = {n}
        /\ \A p \in Server \ {n} : preVotes'[p] = preVotes[p]
    BY <2>1, <2>2
  <2>4. \A p : PreVoteMsg(n, p).type = "PreVote"
    BY DEF PreVoteMsg, RequestVoteMsg
  <2>5. \A m \in msgs' \ msgs : m.type = "PreVote"
    BY <2>1, <2>4 DEF Send
  <2> QED
    BY <2>3, <2>5 DEF Polls
<1>2. CASE ~(PreVoteEnabled /\ ~IsQuorum({n}))
  <2>1. BecomeCandidate(n)
    BY <1>2 DEF ElectionTimeout
  <2> QED
    BY <1>2, <2>1, CandidatePolls
<1> QED
  BY <1>1, <1>2

LEMMA HandlePreVotePolls ==
    ASSUME TypeOK, NEW n \in Server, Step(n), NEW m \in msgs, HandlePreVote(n, m)
    PROVE  Polls(n)
<1>1. UNCHANGED <<preVotes, term, role>> /\ m.type = "PreVote"
  BY DEF HandlePreVote, Received, electionVars
<1>2. PICK g : Send(n, {PreVoteRespMsg(n, m.from, m.term, g)})
  BY DEF HandlePreVote
<1> DEFINE r == PreVoteRespMsg(n, m.from, m.term, g)
<1>3. r.type = "PreVoteResp" /\ r.to = m.from /\ r.round = m.term
  BY DEF PreVoteRespMsg
<1>4. Polled(r.to, r.round)
  BY <1>1, <1>3 DEF Polled
<1> HIDE DEF r
<1>5. \A o \in msgs' \ msgs : o = r
  BY <1>2 DEF Send, r
<1> QED
  BY <1>1, <1>3, <1>4, <1>5 DEF Polls

LEMMA HandlePreVoteRespPolls ==
    ASSUME TypeOK, NEW n \in Server, Step(n), NEW m \in msgs, HandlePreVoteResp(n, m)
    PROVE  Polls(n)
<1>0. /\ preVotes \in [Server -> SUBSET Server] /\ m.from \in Server
      /\ m.type = "PreVoteResp" /\ m.to = n
  BY MessageTypes DEF TypeOK, HandlePreVoteResp, Received
<1>1. CASE preVotes' = [preVotes EXCEPT ![n] = {}] /\ UNCHANGED <<role, term, msgs>>
  BY <1>0, <1>1 DEF Polls
<1>2. CASE m.round = term[n] /\ m.granted
  <2>1. PreGranted(m.from, n, term[n])
    BY <1>0, <1>2 DEF PreGranted, IsPreGrant
  <2>2. CASE IsQuorum(preVotes[n] \cup {m.from}) /\ BecomeCandidate(n)
    BY <1>0, <2>1, <2>2, CandidatePolls
  <2>3. CASE /\ preVotes' = [preVotes EXCEPT ![n] = @ \cup {m.from}]
             /\ UNCHANGED <<role, term, msgs>>
    BY <1>0, <2>1, <2>3 DEF Polls
  <2>4. CASE preVotes' = [preVotes EXCEPT ![n] = {}] /\ UNCHANGED <<role, term, msgs>>
    BY <1>1, <2>4
  <2> QED
    BY <2>2, <2>3, <2>4 DEF HandlePreVoteResp
<1> QED
  BY <1>1, <1>2 DEF HandlePreVoteResp

LEMMA HandleNewerTermRespPolls ==
    ASSUME TypeOK, NEW n \in Server, Step(n), NEW m \in msgs, HandleNewerTermResp(n, m)
    PROVE  Polls(n)
<1>1. /\ term' = [term EXCEPT ![n] = m.term] /\ m.term > term[n] /\ UNCHANGED msgs
      /\ role' = [role EXCEPT ![n] = "Follower"]
      /\ UNCHANGED preVotes \/ preVotes' = [preVotes EXCEPT ![n] = {}]
  BY DEF HandleNewerTermResp, StepDownTo
<1>2. /\ term \in [Server -> Nat] /\ preVotes \in [Server -> SUBSET Server]
      /\ role \in [Server -> {"Follower", "Candidate", "Leader"}]
  BY DEF TypeOK
<1>3. /\ term'[n] > term[n] /\ role'[n] = "Follower"
      /\ \A p \in Server \ {n} : preVotes'[p] = preVotes[p]
  BY <1>1, <1>2
<1> QED
  BY <1>1, <1>3 DEF Polls

LEMMA RestartPolls ==
    ASSUME TypeOK, NEW n \in Server, Step(n), Restart(n)
    PROVE  Polls(n)
<1>1. /\ preVotes' = [preVotes EXCEPT ![n] = {}] /\ role' = [role EXCEPT ![n] = "Follower"]
      /\ UNCHANGED msgs
  BY DEF Restart
<1>2. /\ preVotes \in [Server -> SUBSET Server]
      /\ role \in [Server -> {"Follower", "Candidate", "Leader"}]
  BY DEF TypeOK
<1> QED
  BY <1>1, <1>2 DEF Polls

LEMMA NextPolls ==
    ASSUME TypeOK, TypeOK', VoteInv, Next
    PROVE  \E n \in Server : Step(n) /\ Polls(n)
<1>1. PICK n \in Server :
        \/ ElectionTimeout(n) \/ Restart(n)
        \/ \E k \in Queued(n) :
              CampaignDurable(n, k) \/ ReplyDurable(n, k) \/ LogIsDurable(n, k)
        \/ \E m \in msgs :
              \/ HandleNewerTermResp(n, m) \/ HandlePreVote(n, m) \/ HandlePreVoteResp(n, m)
              \/ HandleVoteRequest(n, m) \/ HandleVoteResp(n, m)
              \/ RejectAppend(n, m) \/ AcceptAppend(n, m) \/ ConfirmAppend(n, m)
        \/ Heartbeat(n) \/ (\E c \in Cmd : Propose(n, c))
        \/ \E m \in msgs : \/ RefuseStale(n, m) \/ RepeatVoteAnswer(n, m)
                           \/ HandleAppendAck(n, m) \/ HandleAppendNack(n, m)
  BY DEF Next, Queued
<1>2. Step(n)
  BY <1>1, ElectionTimeoutSteps, HeartbeatSteps, ProposeSteps, RestartSteps,
     CampaignDurableSteps, ReplyDurableSteps, LogIsDurableSteps,
     RefuseStaleSteps, HandleNewerTermRespSteps, HandleVoteRequestSteps,
     RepeatVoteAnswerSteps, HandleVoteRespSteps, HandlePreVoteSteps,
     HandlePreVoteRespSteps, RejectAppendSteps, AcceptAppendSteps,
     ConfirmAppendSteps, HandleAppendAckSteps, HandleAppendNackSteps
<1>3. Polls(n)
  BY <1>1, <1>2, ElectionTimeoutPolls, RestartPolls, DurablePolls, HandleNewerTermRespPolls,
     HandlePreVotePolls, HandlePreVoteRespPolls, VotePolls, FollowerPolls, LeaderPolls
<1> QED
  BY <1>2, <1>3

LEMMA StutterPolls ==
    ASSUME TypeOK, VoteInv, UNCHANGED vars
    PROVE  \E n \in Server : Step(n) /\ Polls(n)
<1>1. PICK n \in Server : Step(n)
  BY StutterSteps
<1>2. Polls(n)
  BY <1>1, NoPoll DEF vars, electionVars
<1> QED
  BY <1>1, <1>2

(* Under pre-vote no node stands for a term that a majority has not called *)
(* warranted, in that round: an answer `on_pre_vote_resp` counts late, or  *)
(* twice, or after a crash, is still an answer to the round it names.      *)
THEOREM CandidatesAreWarranted == Spec => []ElectionsAreWarranted
<1>1. Init => PreVoteInv
  BY DEF Init, PreVoteInv, Polled, ElectionsAreWarranted
<1>2. TypeOK /\ TypeOK' /\ VoteInv /\ PreVoteInv /\ [Next]_vars => PreVoteInv'
  BY NextPolls, StutterPolls, PollsKeep
<1>3. PreVoteInv => ElectionsAreWarranted
  BY DEF PreVoteInv
<1> QED
  BY <1>1, <1>2, <1>3, TypeCorrect, VotesAreKept, PTL DEF Spec
===============================================================================
