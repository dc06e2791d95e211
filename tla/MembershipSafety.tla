-------------------------- MODULE MembershipSafety --------------------------
(***************************************************************************)
(* Proofs about ReadIndex and the Membership it extends: however the       *)
(* members change, no two servers lead one term, what is committed is      *)
(* never replaced, and a read that is answered misses nothing.             *)
(*                                                                         *)
(* The argument is about what has happened: who led which term, with which *)
(* log, elected by whom with which logs, and what each of them committed.  *)
(* None of that is kept by the model, so the invariant says that there is  *)
(* a history h that explains the state.  HistoryOK speaks of h alone, and  *)
(* carries the argument; ServersOK ties the servers to it, and ReadsOK the *)
(* pending reads.  Every action takes an explained state to an explained   *)
(* one, with h, or with h and what the action adds to it.                  *)
(***************************************************************************)
EXTENDS ReadIndex, FiniteSetTheorems, WellFoundedInduction, TLAPS

-----------------------------------------------------------------------------
(* Numbers and sets of members.                                            *)

(* Every nonempty set of natural numbers has a least element. *)
LEMMA Least ==
    ASSUME NEW T \in SUBSET Nat, T # {}
    PROVE  \E n \in T : \A m \in T : n <= m
<1> DEFINE R == OpToRel(<, Nat)
<1>1. R = {ss \in Nat \X Nat : ss[1] < ss[2]}
  BY DEF OpToRel
<1>2. \A m, n \in Nat : m < n => <<m, n>> \in R
  BY <1>1
<1>3. IsWellFoundedOn(R, Nat)
  BY NatLessThanWellFounded
<1> HIDE DEF R
<1>4. PICK n \in T : \A m \in T : ~ <<m, n>> \in R
  BY <1>3, WFMin
<1>5. ASSUME NEW m \in T PROVE n <= m
  <2>1. m \in Nat /\ n \in Nat
    OBVIOUS
  <2>2. ~(m < n)
    BY <2>1, <1>2, <1>4
  <2> QED
    BY <2>1, <2>2
<1> QED
  BY <1>5

(* A bounded one has a greatest. *)
LEMMA Greatest ==
    ASSUME NEW S \in SUBSET Nat, S # {}, NEW b \in Nat, \A x \in S : x <= b
    PROVE  Max(S) \in S /\ \A y \in S : y <= Max(S)
<1> DEFINE T == {b - x : x \in S}
<1>1. T \in SUBSET Nat /\ T # {}
  <2>1. \A x \in S : b - x \in Nat
    OBVIOUS
  <2>2. PICK x \in S : TRUE
    OBVIOUS
  <2>3. b - x \in T
    OBVIOUS
  <2> QED
    BY <2>1, <2>3
<1>2. PICK m \in T : \A y \in T : m <= y
  <2> HIDE DEF T
  <2> QED
    BY <1>1, Least
<1>3. PICK x \in S : m = b - x
  BY <1>2
<1>4. ASSUME NEW y \in S
      PROVE  x >= y
  <2>1. b - y \in T
    OBVIOUS
  <2>2. b - x <= b - y
    <3> HIDE DEF T
    <3> QED
      BY <1>2, <1>3, <2>1
  <2> QED
    BY <2>2
<1> QED
  BY <1>4 DEF Max

(* What is in a set and above all of it is its maximum. *)
LEMMA MaxIs ==
    ASSUME NEW S \in SUBSET Int, NEW m \in S, \A y \in S : y <= m
    PROVE  Max(S) = m
<1>1. \A y \in S : m >= y
  OBVIOUS
<1>2. Max(S) \in S /\ \A y \in S : Max(S) >= y
  BY <1>1, Zenon DEF Max
<1>3. Max(S) >= m /\ m >= Max(S) /\ m \in Int /\ Max(S) \in Int
  BY <1>1, <1>2
<1> QED
  BY <1>3

LEMMA MinOfTwo ==
    ASSUME NEW a \in Nat, NEW b \in Nat
    PROVE  Min({a, b}) = IF a <= b THEN a ELSE b
<1> DEFINE m == IF a <= b THEN a ELSE b
<1>1. m \in {a, b} /\ \A y \in {a, b} : m =< y
  OBVIOUS
<1>2. \A x \in {a, b} : (\A y \in {a, b} : x =< y) => x = m
  OBVIOUS
<1> HIDE DEF m
<1>3. Min({a, b}) = m
  BY <1>1, <1>2 DEF Min
<1> QED
  BY <1>3 DEF m

LEMMA MaxOfTwo ==
    ASSUME NEW a \in Nat, NEW b \in Nat
    PROVE  Max({a, b}) = IF a >= b THEN a ELSE b
<1> DEFINE m == IF a >= b THEN a ELSE b
<1>1. m \in {a, b} /\ {a, b} \in SUBSET Int /\ \A y \in {a, b} : y <= m
  OBVIOUS
<1> HIDE DEF m
<1>2. Max({a, b}) = m
  BY <1>1, MaxIs
<1> QED
  BY <1>2 DEF m

(* The two memberships differ by exactly one server. *)
OneApart(m, n) == Cardinality((m \ n) \cup (n \ m)) = 1

(* A majority of some members and one of the same members, or of the       *)
(* members after one was added or removed, have a server in common.        *)
LEMMA SameMajorities ==
    ASSUME NEW m, IsFiniteSet(m), NEW A, NEW B, IsMajority(A, m), IsMajority(B, m)
    PROVE  A \cap B # {}
<1>1. /\ IsFiniteSet(A \cap m) /\ IsFiniteSet(B \cap m)
      /\ Cardinality(A \cap m) \in Nat /\ Cardinality(B \cap m) \in Nat /\ Cardinality(m) \in Nat
  BY FS_Intersection, FS_CardinalityType
<1>2. Cardinality(A \cap m) + Cardinality(B \cap m) > Cardinality(m)
  BY <1>1 DEF IsMajority
<1>3. (A \cap m) \cap (B \cap m) # {}
  BY <1>2, FS_MajoritiesIntersect
<1> QED
  BY <1>3

LEMMA GrownMajorities ==
    ASSUME NEW m, IsFiniteSet(m), NEW x, x \notin m, NEW A, NEW B,
           IsMajority(A, m), IsMajority(B, m \cup {x})
    PROVE  A \cap B # {}
<1> DEFINE n == m \cup {x}
<1>1. IsFiniteSet(n) /\ Cardinality(n) = Cardinality(m) + 1
  BY FS_AddElement
<1>2. /\ IsFiniteSet(A \cap m) /\ IsFiniteSet(B \cap n)
      /\ Cardinality(A \cap m) \in Nat /\ Cardinality(B \cap n) \in Nat /\ Cardinality(m) \in Nat
  BY <1>1, FS_Intersection, FS_CardinalityType
<1>3. 2 * Cardinality(A \cap m) > Cardinality(m) /\ 2 * Cardinality(B \cap n) > Cardinality(n)
  BY DEF IsMajority
<1>4. Cardinality(A \cap m) + Cardinality(B \cap n) > Cardinality(n)
  <2> HIDE DEF n
  <2> QED
    BY <1>1, <1>2, <1>3
<1>5. A \cap m \subseteq n /\ B \cap n \subseteq n
  OBVIOUS
<1>6. (A \cap m) \cap (B \cap n) # {}
  <2> HIDE DEF n
  <2> QED
    BY <1>1, <1>4, <1>5, FS_MajoritiesIntersect
<1> QED
  BY <1>6

LEMMA NearMajorities ==
    ASSUME NEW m, NEW n, IsFiniteSet(m), IsFiniteSet(n), OneApart(m, n) \/ OneApart(n, m) \/ m = n,
           NEW A, NEW B, IsMajority(A, m), IsMajority(B, n)
    PROVE  A \cap B # {}
<1>1. CASE m = n
  BY <1>1, SameMajorities
<1>2. CASE m # n
  <2>1. (m \ n) \cup (n \ m) = (n \ m) \cup (m \ n)
    OBVIOUS
  <2>2. Cardinality((m \ n) \cup (n \ m)) = 1
    BY <1>2, <2>1 DEF OneApart
  <2>3. IsFiniteSet((m \ n) \cup (n \ m))
    BY FS_Difference, FS_Union
  <2>4. PICK x : (m \ n) \cup (n \ m) = {x}
    BY <2>2, <2>3, FS_Singleton
  <2>5. CASE x \in m
    <3>1. m = n \cup {x} /\ x \notin n
      BY <2>4, <2>5
    <3> QED
      BY <3>1, GrownMajorities
  <2>6. CASE x \notin m
    <3>1. n = m \cup {x}
      BY <2>4, <2>6
    <3> QED
      BY <2>6, <3>1, GrownMajorities
  <2> QED
    BY <2>5, <2>6
<1> QED
  BY <1>1, <1>2

-----------------------------------------------------------------------------
(* The history.                                                            *)

Entries(h) == [term : Nat, members : SUBSET h.server]

(* The terms that were led, and for each its leader, the longest log the   *)
(* leader had, how much of it was there at the election, and who voted for *)
(* it; the logs with which every vote was cast; and the commitments: of    *)
(* which index, by the leader of which term, with how many entries in its  *)
(* log, acknowledged by whom.                                              *)
IsHistory(h) ==
    /\ IsFiniteSet(h.server) /\ h.first \in SUBSET h.server
    /\ h.led \in SUBSET (Nat \ {0})
    /\ h.leader \in [Nat -> h.server]
    /\ h.line \in [Nat -> Seq(Entries(h))]
    /\ h.base \in [Nat -> Nat]
    /\ h.quorum \in [Nat -> SUBSET h.server]
    /\ h.ballot \in [Nat -> [h.server -> Seq(Entries(h))]]
    /\ h.commits \in SUBSET [term : Nat, index : Nat, length : Nat, quorum : SUBSET h.server]

Has(x, k, t) == k \in DOMAIN x /\ x[k].term = t

(* Every entry of x, with all that is before it, was written by a leader.  *)
OnLines(h, x) == \A i \in DOMAIN x :
    /\ x[i].term \in h.led /\ h.base[x[i].term] < i /\ i <= Len(h.line[x[i].term])
    /\ \A j \in 1..i : x[j] = h.line[x[i].term][j]

NoChange(x, i, n) == \A j \in (i + 1)..n : x[j].members = {}
ChangeIndex(x, n) == Max({0} \cup {i \in 1..n : x[i].members # {}})

(* The membership that is in force with the first n entries of x. *)
MembersAt(h, x, n) ==
    IF ChangeIndex(x, n) = 0 THEN h.first ELSE x[ChangeIndex(x, n)].members

(* A commitment of the leader of t before which the memberships up to the  *)
(* one of index i were settled.                                            *)
Supports(h, c, t, i) ==
    c \in h.commits /\ c.term = t /\ c.index < i /\ NoChange(h.line[t], c.index, i - 1)

LinesOK(h) == \A t \in h.led :
    /\ h.base[t] < Len(h.line[t])
    /\ \A i \in DOMAIN h.line[t] : IF i > h.base[t] THEN h.line[t][i].term = t
                                                    ELSE h.line[t][i].term < t
    /\ OnLines(h, h.line[t])

BallotsOK(h) ==
    /\ \A t \in Nat : \A v \in h.server : OnLines(h, h.ballot[t][v])
    /\ \A t \in h.led :
         /\ IsMajority(h.quorum[t], MembersAt(h, h.line[t], h.base[t]))
         /\ \A v \in h.quorum[t] :
              IsUpToDate(h.ballot[t][v], h.base[t], TermAt(h.line[t], h.base[t]))

(* A membership differs by one server from the one before it, which was    *)
(* committed, in the same term, before it was proposed.                    *)
ChangesOK(h) == \A t \in h.led : \A i \in (h.base[t] + 1)..Len(h.line[t]) :
    h.line[t][i].members # {} =>
      /\ OneApart(h.line[t][i].members, MembersAt(h, h.line[t], i - 1))
      /\ \E c \in h.commits : Supports(h, c, t, i)

CommitsOK(h) == \A c \in h.commits :
    /\ c.term \in h.led /\ h.base[c.term] < c.index /\ c.index <= c.length
    /\ c.length <= Len(h.line[c.term])
    /\ IsMajority(c.quorum, MembersAt(h, h.line[c.term], c.length))
    /\ \A i \in (h.base[c.term] + 1)..c.length : h.line[c.term][i].members # {} =>
         \E d \in h.commits : Supports(h, d, c.term, i) /\ d.index < c.index

(* What was committed, every later leader had. *)
Complete(h) == \A c \in h.commits : \A t \in h.led :
    t > c.term => Has(h.line[t], c.index, c.term)

HistoryOK(h) ==
    IsHistory(h) /\ LinesOK(h) /\ BallotsOK(h) /\ ChangesOK(h) /\ CommitsOK(h) /\ Complete(h)

-----------------------------------------------------------------------------
(* Which membership is in force.                                           *)

LEMMA ChangeFacts ==
    ASSUME NEW x, NEW n \in Nat
    PROVE  /\ ChangeIndex(x, n) \in 0..n /\ NoChange(x, ChangeIndex(x, n), n)
           /\ ChangeIndex(x, n) = 0 \/ x[ChangeIndex(x, n)].members # {}
<1> DEFINE S == {0} \cup {i \in 1..n : x[i].members # {}}
<1>1. S \in SUBSET Nat /\ S # {} /\ \A i \in S : i <= n
  OBVIOUS
<1>2. Max(S) \in S /\ \A y \in S : y <= Max(S)
  <2> HIDE DEF S
  <2> QED
    BY <1>1, Greatest
<1>3. Max(S) = ChangeIndex(x, n)
  BY DEF ChangeIndex
<1>4. PICK m : m = Max(S)
  OBVIOUS
<1>5. m \in 0..n /\ (m = 0 \/ x[m].members # {})
  <2>1. m \in S
    BY <1>2, <1>4
  <2> QED
    BY <2>1
<1>6. ASSUME NEW j \in (m + 1)..n PROVE x[j].members = {}
  <2>1. j \in 1..n /\ j > m
    BY <1>5
  <2>2. j \notin S
    BY <1>2, <1>4, <1>5, <2>1
  <2> QED
    BY <2>1, <2>2
<1> QED
  BY <1>3, <1>4, <1>5, <1>6 DEF NoChange

LEMMA ChangeIs ==
    ASSUME NEW x, NEW n \in Nat, NEW i \in 0..n, NoChange(x, i, n), i = 0 \/ x[i].members # {}
    PROVE  ChangeIndex(x, n) = i
<1>1. PICK m : m = ChangeIndex(x, n)
  OBVIOUS
<1>2. m \in 0..n /\ NoChange(x, m, n) /\ (m = 0 \/ x[m].members # {})
  BY <1>1, ChangeFacts
<1>3. ~(m < i) /\ ~(i < m)
  BY <1>2 DEF NoChange
<1> QED
  BY <1>1, <1>2, <1>3

LEMMA SameChanges ==
    ASSUME NEW h, NEW x, NEW y, NEW n \in Nat, \A j \in 1..n : x[j] = y[j]
    PROVE  ChangeIndex(x, n) = ChangeIndex(y, n) /\ MembersAt(h, x, n) = MembersAt(h, y, n)
<1>1. PICK m : m = ChangeIndex(x, n)
  OBVIOUS
<1>2. m \in 0..n /\ NoChange(x, m, n) /\ (m = 0 \/ x[m].members # {})
  BY <1>1, ChangeFacts
<1>3. NoChange(y, m, n) /\ (m = 0 \/ y[m].members # {})
  BY <1>2 DEF NoChange
<1>4. ChangeIndex(y, n) = m
  BY <1>2, <1>3, ChangeIs
<1> QED
  BY <1>1, <1>2, <1>4 DEF MembersAt

LEMMA QuietMembers ==
    ASSUME NEW h, NEW x, NEW n \in Nat, NEW m \in 0..n, NoChange(x, m, n)
    PROVE  ChangeIndex(x, n) = ChangeIndex(x, m) /\ MembersAt(h, x, n) = MembersAt(h, x, m)
<1>1. PICK i : i = ChangeIndex(x, m)
  OBVIOUS
<1>2. i \in 0..m /\ NoChange(x, i, m) /\ (i = 0 \/ x[i].members # {})
  BY <1>1, ChangeFacts
<1>3. NoChange(x, i, n)
  BY <1>2 DEF NoChange
<1>4. ChangeIndex(x, n) = i
  BY <1>2, <1>3, ChangeIs
<1> QED
  BY <1>1, <1>4 DEF MembersAt

LEMMA EntryAt ==
    ASSUME NEW h, NEW x \in Seq(Entries(h)), NEW i \in 1..Len(x)
    PROVE  i \in DOMAIN x /\ x[i] \in Entries(h) /\ x[i].term \in Nat /\ x[i].members \in SUBSET h.server
<1>1. i \in DOMAIN x /\ x[i] \in Entries(h)
  OBVIOUS
<1> QED
  BY <1>1 DEF Entries

LEMMA MembersAreServers ==
    ASSUME NEW h, IsHistory(h), NEW x \in Seq(Entries(h)), NEW n \in Nat, n <= Len(x)
    PROVE  MembersAt(h, x, n) \in SUBSET h.server /\ IsFiniteSet(MembersAt(h, x, n))
<1>1. PICK i : i = ChangeIndex(x, n)
  OBVIOUS
<1>2. i \in 0..n
  BY <1>1, ChangeFacts
<1>3. i = 0 \/ x[i].members \in SUBSET h.server
  <2>1. i = 0 \/ i \in 1..Len(x)
    BY <1>2
  <2> QED
    BY <2>1, EntryAt
<1>4. MembersAt(h, x, n) \in SUBSET h.server
  BY <1>1, <1>3 DEF MembersAt, IsHistory
<1> QED
  BY <1>4, FS_Subset DEF IsHistory

-----------------------------------------------------------------------------
(* Logs and lines.                                                         *)

(* The terms of a log do not decrease. *)
LEMMA Sorted ==
    ASSUME NEW h, IsHistory(h), LinesOK(h), NEW x \in Seq(Entries(h)), OnLines(h, x),
           NEW i \in DOMAIN x, NEW j \in DOMAIN x, i <= j
    PROVE  x[i].term <= x[j].term
<1>1. PICK t : t = x[j].term
  OBVIOUS
<1>2. t \in h.led /\ h.base[t] < j /\ j <= Len(h.line[t]) /\ x[i] = h.line[t][i]
  BY <1>1 DEF OnLines
<1>3. t \in Nat /\ h.line[t] \in Seq(Entries(h)) /\ h.base[t] \in Nat
  BY <1>2 DEF IsHistory
<1>4. i \in DOMAIN h.line[t]
  BY <1>2, <1>3
<1>5. h.line[t][i].term = t \/ h.line[t][i].term < t
  BY <1>2, <1>4 DEF LinesOK
<1>6. x[i].term \in Nat
  <2>1. i \in 1..Len(x)
    OBVIOUS
  <2> QED
    BY <2>1, EntryAt
<1> QED
  BY <1>1, <1>2, <1>3, <1>5, <1>6

(* Two logs that have an entry of the same term and index agree up to it.  *)
LEMMA Agree ==
    ASSUME NEW h, NEW x, NEW y, OnLines(h, x), OnLines(h, y), NEW k, NEW t, Has(x, k, t), Has(y, k, t)
    PROVE  \A j \in 1..k : x[j] = y[j]
  BY DEF Has, OnLines

(* Where a line has the entries of an earlier term. *)
LEMMA InBase ==
    ASSUME NEW h, IsHistory(h), LinesOK(h), NEW z \in h.led, NEW k, NEW t, t < z, Has(h.line[z], k, t)
    PROVE  k \in Nat /\ 0 < k /\ k <= h.base[z]
<1>1. z \in Nat /\ h.line[z] \in Seq(Entries(h)) /\ h.base[z] \in Nat
  BY DEF IsHistory
<1>2. k \in 1..Len(h.line[z]) /\ h.line[z][k].term = t
  BY <1>1 DEF Has
<1>3. h.line[z][k].term \in Nat
  BY <1>1, <1>2, EntryAt
<1>4. IF k > h.base[z] THEN h.line[z][k].term = z ELSE h.line[z][k].term < z
  BY <1>2 DEF LinesOK
<1> QED
  BY <1>1, <1>2, <1>3, <1>4

-----------------------------------------------------------------------------
(* Memberships that are near each other.                                   *)

LEMMA TermAtIs ==
    ASSUME NEW h, NEW x \in Seq(Entries(h)), NEW i \in 0..Len(x)
    PROVE  /\ TermAt(x, i) \in Nat
           /\ i > 0 => i \in DOMAIN x /\ TermAt(x, i) = x[i].term
           /\ i = 0 => TermAt(x, i) = 0
<1>1. CASE i = 0
  BY <1>1 DEF TermAt, NO_INDEX
<1>2. CASE i > 0
  <2>1. i \in 1..Len(x)
    BY <1>2
  <2>2. i \in DOMAIN x /\ x[i].term \in Nat
    BY <2>1, EntryAt
  <2> QED
    BY <1>2, <2>2 DEF TermAt, NO_INDEX
<1> QED
  BY <1>1, <1>2

(* The membership in force with n entries of x is not the later one, or a  *)
(* commitment that was made before it was proposed is among the first m    *)
(* entries of y.                                                           *)
Reaches(h, x, n, y, m) ==
    LET i == ChangeIndex(x, n)
        j == ChangeIndex(y, m)
    IN (i > 0 /\ (TermAt(y, j) < TermAt(x, i) \/ (TermAt(y, j) = TermAt(x, i) /\ j < i)))
       => \E c : /\ Supports(h, c, TermAt(x, i), i)
                 /\ c.index <= m /\ Has(y, c.index, TermAt(x, i))

(* A later membership that reaches y is one server away from y's.  Nothing *)
(* changed in y after the supporting commitment: such a change would be on *)
(* the same line, before the later one.                                    *)
LEMMA Near ==
    ASSUME NEW h, HistoryOK(h), NEW x \in Seq(Entries(h)), NEW y \in Seq(Entries(h)),
           OnLines(h, x), OnLines(h, y), NEW n \in 0..Len(x), NEW m \in 0..Len(y),
           NEW i, i = ChangeIndex(x, n), NEW j, j = ChangeIndex(y, m), i > 0,
           TermAt(y, j) < TermAt(x, i) \/ (TermAt(y, j) = TermAt(x, i) /\ j < i),
           NEW c, Supports(h, c, TermAt(x, i), i), c.index <= m, Has(y, c.index, TermAt(x, i))
    PROVE  OneApart(MembersAt(h, x, n), MembersAt(h, y, m))
<1>1. PICK u : u = TermAt(x, i)
  OBVIOUS
<1>2. PICK k : k = c.index
  OBVIOUS
<1>3. i \in 0..n /\ NoChange(x, i, n) /\ x[i].members # {} /\ n \in Nat /\ m \in Nat
  BY ChangeFacts
<1>4. j \in 0..m /\ NoChange(y, j, m)
  BY <1>3, ChangeFacts
<1>5. i \in 0..Len(x) /\ j \in 0..Len(y)
  BY <1>3, <1>4
<1>6. i \in DOMAIN x /\ u = x[i].term /\ TermAt(x, i) \in Nat /\ TermAt(y, j) \in Nat
  BY <1>1, <1>5, TermAtIs
<1>7. IsHistory(h) /\ LinesOK(h) /\ ChangesOK(h)
  BY DEF HistoryOK
<1>8. u \in h.led /\ h.base[u] < i /\ i <= Len(h.line[u]) /\ \A jj \in 1..i : x[jj] = h.line[u][jj]
  BY <1>6 DEF OnLines
<1>9. /\ k < i /\ NoChange(h.line[u], k, i - 1) /\ k \in Nat
      /\ k \in DOMAIN y /\ y[k].term = u /\ k <= m
  <2>1. c \in h.commits
    BY DEF Supports
  <2>2. k \in Nat
    BY <1>2, <1>7, <2>1 DEF IsHistory
  <2> QED
    BY <1>1, <1>2, <2>2 DEF Supports, Has
<1>10. \A jj \in 1..k : y[jj] = h.line[u][jj]
  BY <1>9 DEF OnLines
<1>11. u \in Nat /\ h.base[u] \in Nat /\ h.line[u] \in Seq(Entries(h))
  BY <1>7, <1>8 DEF IsHistory
<1>12. OneApart(h.line[u][i].members, MembersAt(h, h.line[u], i - 1))
  <2>1. i \in (h.base[u] + 1)..Len(h.line[u])
    BY <1>3, <1>8, <1>11
  <2>2. x[i] = h.line[u][i]
    BY <1>3, <1>8
  <2> QED
    BY <1>3, <1>7, <1>8, <2>1, <2>2 DEF ChangesOK
<1>13. MembersAt(h, x, n) = h.line[u][i].members
  BY <1>3, <1>8 DEF MembersAt
<1>14. MembersAt(h, h.line[u], i - 1) = MembersAt(h, h.line[u], k)
  <2>1. i - 1 \in Nat /\ k \in 0..(i - 1)
    BY <1>3, <1>9
  <2> QED
    BY <1>9, <2>1, QuietMembers
<1>15. MembersAt(h, h.line[u], k) = MembersAt(h, y, k)
  BY <1>9, <1>10, SameChanges
<1>16. MembersAt(h, y, m) = MembersAt(h, y, k)
  <2>1. NoChange(y, k, m)
    <3>1. SUFFICES ASSUME NEW jj \in (k + 1)..m, y[jj].members # {} PROVE FALSE
      BY DEF NoChange
    <3>2. jj <= j /\ k < j /\ j > 0
      BY <1>3, <1>4, <1>9, <3>1 DEF NoChange
    <3>3. j \in DOMAIN y /\ TermAt(y, j) = y[j].term
      BY <1>5, <3>2, TermAtIs
    <3>4. y[k].term <= y[j].term
      BY <1>7, <1>9, <3>2, <3>3, Sorted
    <3>5. y[j].term = u /\ j < i
      BY <1>1, <1>6, <1>9, <3>3, <3>4
    <3>6. y[j] = h.line[u][j]
      BY <1>5, <3>2, <3>3, <3>5 DEF OnLines
    <3>7. j \in (k + 1)..(i - 1)
      BY <1>3, <1>4, <1>9, <3>2, <3>5
    <3>8. y[j].members = {}
      BY <1>9, <3>6, <3>7 DEF NoChange
    <3>9. y[j].members # {}
      BY <1>3, <3>2, ChangeFacts
    <3> QED
      BY <3>8, <3>9
  <2>2. k \in 0..m
    BY <1>9
  <2> QED
    BY <1>3, <2>1, <2>2, QuietMembers
<1> QED
  BY <1>12, <1>13, <1>14, <1>15, <1>16

LEMMA SameChange ==
    ASSUME NEW h, HistoryOK(h), NEW x \in Seq(Entries(h)), NEW y \in Seq(Entries(h)),
           OnLines(h, x), OnLines(h, y), NEW n \in 0..Len(x), NEW m \in 0..Len(y),
           ChangeIndex(x, n) = ChangeIndex(y, m),
           TermAt(x, ChangeIndex(x, n)) = TermAt(y, ChangeIndex(y, m))
    PROVE  MembersAt(h, x, n) = MembersAt(h, y, m)
<1>1. PICK i : i = ChangeIndex(x, n)
  OBVIOUS
<1>2. i \in 0..n /\ i \in 0..m
  BY <1>1, ChangeFacts
<1>3. CASE i = 0
  BY <1>1, <1>3 DEF MembersAt
<1>4. CASE i > 0
  <2>1. i \in 0..Len(x) /\ i \in 0..Len(y)
    BY <1>2
  <2>2. Has(x, i, x[i].term) /\ Has(y, i, x[i].term)
    BY <1>1, <1>4, <2>1, TermAtIs DEF Has
  <2>3. x[i] = y[i]
    BY <1>2, <1>4, <2>2, Agree
  <2> QED
    BY <1>1, <1>4, <2>3 DEF MembersAt
<1> QED
  BY <1>2, <1>3, <1>4

(* Memberships of which each reaches the other's log have no disjoint      *)
(* majorities.                                                             *)
LEMMA Overlap ==
    ASSUME NEW h, HistoryOK(h), NEW x \in Seq(Entries(h)), NEW y \in Seq(Entries(h)),
           OnLines(h, x), OnLines(h, y), NEW n \in 0..Len(x), NEW m \in 0..Len(y),
           Reaches(h, x, n, y, m), Reaches(h, y, m, x, n),
           NEW A, NEW B, IsMajority(A, MembersAt(h, x, n)), IsMajority(B, MembersAt(h, y, m))
    PROVE  A \cap B # {}
<1>1. PICK i : i = ChangeIndex(x, n)
  OBVIOUS
<1>2. PICK j : j = ChangeIndex(y, m)
  OBVIOUS
<1>3. i \in 0..n /\ j \in 0..m
  BY <1>1, <1>2, ChangeFacts
<1>4. i \in 0..Len(x) /\ j \in 0..Len(y) /\ i \in Nat /\ j \in Nat
  BY <1>3
<1>5. TermAt(x, i) \in Nat /\ TermAt(y, j) \in Nat
  BY <1>4, TermAtIs
<1>6. /\ i = 0 => TermAt(x, i) = 0
      /\ j = 0 => TermAt(y, j) = 0
  BY <1>4, TermAtIs
<1>7. /\ i > 0 => TermAt(x, i) > 0
      /\ j > 0 => TermAt(y, j) > 0
  <2>1. i > 0 => x[i].term \in h.led /\ TermAt(x, i) = x[i].term
    BY <1>4, TermAtIs DEF OnLines
  <2>2. j > 0 => y[j].term \in h.led /\ TermAt(y, j) = y[j].term
    BY <1>4, TermAtIs DEF OnLines
  <2>3. \A t \in h.led : t \in Nat /\ t > 0
    <3>1. h.led \in SUBSET (Nat \ {0})
      BY DEF HistoryOK, IsHistory
    <3> QED
      BY <3>1
  <2> QED
    BY <2>1, <2>2, <2>3
<1> DEFINE near == \/ OneApart(MembersAt(h, x, n), MembersAt(h, y, m))
                   \/ OneApart(MembersAt(h, y, m), MembersAt(h, x, n))
                   \/ MembersAt(h, x, n) = MembersAt(h, y, m)
<1>8. ASSUME TermAt(y, j) < TermAt(x, i) \/ (TermAt(y, j) = TermAt(x, i) /\ j < i)
      PROVE  near
  <2>1. i > 0
    BY <1>4, <1>5, <1>6, <1>8
  <2>2. PICK c : Supports(h, c, TermAt(x, i), i) /\ c.index <= m /\ Has(y, c.index, TermAt(x, i))
    BY <1>1, <1>2, <1>8, <2>1 DEF Reaches
  <2>3. OneApart(MembersAt(h, x, n), MembersAt(h, y, m))
    BY <1>1, <1>2, <1>8, <2>1, <2>2, Near
  <2> QED
    BY <2>3
<1>9. ASSUME TermAt(x, i) < TermAt(y, j) \/ (TermAt(x, i) = TermAt(y, j) /\ i < j)
      PROVE  near
  <2>1. j > 0
    BY <1>4, <1>5, <1>6, <1>9
  <2>2. PICK c : Supports(h, c, TermAt(y, j), j) /\ c.index <= n /\ Has(x, c.index, TermAt(y, j))
    BY <1>1, <1>2, <1>9, <2>1 DEF Reaches
  <2>3. OneApart(MembersAt(h, y, m), MembersAt(h, x, n))
    BY <1>1, <1>2, <1>9, <2>1, <2>2, Near
  <2> QED
    BY <2>3
<1>10. ASSUME TermAt(x, i) = TermAt(y, j), i = j
       PROVE  near
  <2>1. /\ ChangeIndex(x, n) = ChangeIndex(y, m)
        /\ TermAt(x, ChangeIndex(x, n)) = TermAt(y, ChangeIndex(y, m))
    BY <1>1, <1>2, <1>10
  <2>2. MembersAt(h, x, n) = MembersAt(h, y, m)
    BY <2>1, SameChange
  <2> QED
    BY <2>2
<1>11. near
  <2> HIDE DEF near
  <2> QED
    BY <1>4, <1>5, <1>8, <1>9, <1>10
<1>12. IsFiniteSet(MembersAt(h, x, n)) /\ IsFiniteSet(MembersAt(h, y, m))
  BY MembersAreServers DEF HistoryOK
<1> QED
  BY <1>11, <1>12, NearMajorities

-----------------------------------------------------------------------------
LEMMA LineFacts ==
    ASSUME NEW h, HistoryOK(h), NEW t \in h.led
    PROVE  /\ t \in Nat /\ t > 0 /\ h.line[t] \in Seq(Entries(h)) /\ OnLines(h, h.line[t])
           /\ h.base[t] \in Nat /\ Len(h.line[t]) \in Nat /\ h.base[t] < Len(h.line[t])
           /\ h.leader[t] \in h.server /\ h.quorum[t] \in SUBSET h.server
<1>1. h.led \in SUBSET (Nat \ {0})
  BY DEF HistoryOK, IsHistory
<1>2. t \in Nat /\ t > 0
  BY <1>1
<1>3. h.line[t] \in Seq(Entries(h)) /\ h.base[t] \in Nat /\ h.leader[t] \in h.server /\ h.quorum[t] \in SUBSET h.server
  BY <1>2 DEF HistoryOK, IsHistory
<1>4. OnLines(h, h.line[t]) /\ h.base[t] < Len(h.line[t])
  BY DEF HistoryOK, LinesOK
<1> QED
  BY <1>2, <1>3, <1>4

LEMMA CommitFacts ==
    ASSUME NEW h, HistoryOK(h), NEW c \in h.commits
    PROVE  /\ c.term \in h.led /\ c.term \in Nat /\ c.index \in Nat /\ c.length \in Nat
           /\ c.quorum \in SUBSET h.server
           /\ h.base[c.term] < c.index /\ c.index <= c.length /\ c.length <= Len(h.line[c.term])
           /\ c.index \in 1..Len(h.line[c.term]) /\ c.length \in (h.base[c.term] + 1)..Len(h.line[c.term])
           /\ h.line[c.term][c.index].term = c.term
           /\ IsMajority(c.quorum, MembersAt(h, h.line[c.term], c.length))
<1>1. c \in [term : Nat, index : Nat, length : Nat, quorum : SUBSET h.server]
  BY DEF HistoryOK, IsHistory
<1>2. c.term \in Nat /\ c.index \in Nat /\ c.length \in Nat /\ c.quorum \in SUBSET h.server
  BY <1>1
<1>3. /\ c.term \in h.led /\ h.base[c.term] < c.index /\ c.index <= c.length /\ c.length <= Len(h.line[c.term])
      /\ IsMajority(c.quorum, MembersAt(h, h.line[c.term], c.length))
  BY DEF HistoryOK, CommitsOK
<1>4. h.base[c.term] \in Nat /\ Len(h.line[c.term]) \in Nat /\ h.line[c.term] \in Seq(Entries(h))
  BY <1>3, LineFacts
<1>5. c.index \in 1..Len(h.line[c.term]) /\ c.length \in (h.base[c.term] + 1)..Len(h.line[c.term])
  BY <1>2, <1>3, <1>4
<1>6. c.index \in DOMAIN h.line[c.term]
  BY <1>4, <1>5
<1>7. h.line[c.term][c.index].term = c.term
  BY <1>2, <1>3, <1>4, <1>6 DEF HistoryOK, LinesOK
<1> QED
  BY <1>2, <1>3, <1>5, <1>7

LEMMA BallotFacts ==
    ASSUME NEW h, HistoryOK(h), NEW t \in Nat, NEW v \in h.server
    PROVE  h.ballot[t][v] \in Seq(Entries(h)) /\ OnLines(h, h.ballot[t][v])
<1>1. h.ballot \in [Nat -> [h.server -> Seq(Entries(h))]]
  BY DEF HistoryOK, IsHistory
<1>2. h.ballot[t] \in [h.server -> Seq(Entries(h))]
  BY <1>1
<1>3. h.ballot[t][v] \in Seq(Entries(h))
  BY <1>2
<1> QED
  BY <1>3 DEF HistoryOK, BallotsOK

(* The leader of t, with n entries, and a log that has nothing of a later  *)
(* term: y is on h's lines, its first m entries have all that was          *)
(* committed before t, and what the memberships proposed in t rest on.     *)
IsRival(h, t, n, y, m) ==
    /\ \A j \in 1..m : y[j].term <= t /\ (y[j].term = t => j <= n)
    /\ \A c \in h.commits : c.term < t => c.index <= m /\ Has(y, c.index, c.term)
    /\ \A i \in (h.base[t] + 1)..n : h.line[t][i].members # {} =>
         \E c : Supports(h, c, t, i) /\ c.index <= m /\ Has(y, c.index, t)

LEMMA LeaderReaches ==
    ASSUME NEW h, HistoryOK(h), NEW t \in h.led, NEW n \in (h.base[t] + 1)..Len(h.line[t]),
           NEW y \in Seq(Entries(h)), OnLines(h, y), NEW m \in 0..Len(y), IsRival(h, t, n, y, m)
    PROVE  Reaches(h, h.line[t], n, y, m)
<1> DEFINE x == h.line[t]
<1>1. IsHistory(h) /\ LinesOK(h) /\ ChangesOK(h)
  BY DEF HistoryOK
<1>2. t \in Nat /\ x \in Seq(Entries(h)) /\ h.base[t] \in Nat /\ OnLines(h, x) /\ n \in Nat
  <2>1. t \in Nat /\ x \in Seq(Entries(h)) /\ h.base[t] \in Nat /\ OnLines(h, x) /\ Len(x) \in Nat
    BY LineFacts
  <2> QED
    BY <2>1
<1>3. PICK i : i = ChangeIndex(x, n)
  OBVIOUS
<1>4. i \in 0..n /\ (i = 0 \/ x[i].members # {})
  BY <1>2, <1>3, ChangeFacts
<1>5. ASSUME i > 0
      PROVE  \E c : /\ Supports(h, c, TermAt(x, i), i)
                    /\ c.index <= m /\ Has(y, c.index, TermAt(x, i))
  <2>1. i \in 1..Len(x)
    BY <1>4, <1>5
  <2>2. i \in DOMAIN x /\ TermAt(x, i) = x[i].term
    BY <1>2, <2>1, TermAtIs
  <2>3. CASE i > h.base[t]
    <3>1. x[i].term = t
      BY <1>1, <2>2, <2>3 DEF LinesOK
    <3>2. i \in (h.base[t] + 1)..n
      BY <1>2, <1>4, <2>3
    <3> QED
      BY <1>4, <1>5, <2>2, <3>1, <3>2 DEF IsRival
  <2>4. CASE i <= h.base[t]
    <3>1. PICK u : u = x[i].term
      OBVIOUS
    <3>2. u < t
      BY <1>1, <1>2, <2>1, <2>2, <2>4, <3>1 DEF LinesOK
    <3>3. /\ u \in h.led /\ h.base[u] < i /\ i <= Len(h.line[u])
          /\ \A j \in 1..i : x[j] = h.line[u][j]
      BY <1>2, <2>2, <3>1 DEF OnLines
    <3>4. x[i] = h.line[u][i] /\ i \in (h.base[u] + 1)..Len(h.line[u])
      <4>1. h.base[u] \in Nat /\ Len(h.line[u]) \in Nat
        BY <3>3, LineFacts
      <4> QED
        BY <2>1, <3>3, <4>1
    <3>5. PICK c \in h.commits : Supports(h, c, u, i)
      BY <1>1, <1>4, <1>5, <3>3, <3>4 DEF ChangesOK
    <3>6. c.term = u
      BY <3>5 DEF Supports
    <3>7. c.index <= m /\ Has(y, c.index, u)
      BY <3>2, <3>5, <3>6 DEF IsRival
    <3> QED
      BY <2>2, <3>1, <3>5, <3>7
  <2> QED
    BY <1>2, <2>1, <2>3, <2>4
<1> QED
  BY <1>3, <1>5 DEF Reaches

LEMMA RivalReaches ==
    ASSUME NEW h, HistoryOK(h), NEW t \in h.led, NEW n \in (h.base[t] + 1)..Len(h.line[t]),
           NEW y \in Seq(Entries(h)), OnLines(h, y), NEW m \in 0..Len(y), IsRival(h, t, n, y, m)
    PROVE  Reaches(h, y, m, h.line[t], n)
<1> DEFINE x == h.line[t]
<1>1. IsHistory(h) /\ LinesOK(h) /\ ChangesOK(h) /\ Complete(h)
  BY DEF HistoryOK
<1>2. t \in Nat /\ x \in Seq(Entries(h)) /\ h.base[t] \in Nat /\ OnLines(h, x) /\ n \in Nat
  <2>1. t \in Nat /\ x \in Seq(Entries(h)) /\ h.base[t] \in Nat /\ OnLines(h, x) /\ Len(x) \in Nat
    BY LineFacts
  <2> QED
    BY <2>1
<1>3. PICK i : i = ChangeIndex(x, n)
  OBVIOUS
<1>4. i \in 0..n /\ NoChange(x, i, n)
  BY <1>2, <1>3, ChangeFacts
<1>5. PICK j : j = ChangeIndex(y, m)
  OBVIOUS
<1>6. j \in 0..m /\ (j = 0 \/ y[j].members # {})
  BY <1>5, ChangeFacts
<1>7. ASSUME j > 0, TermAt(x, i) < TermAt(y, j) \/ (TermAt(x, i) = TermAt(y, j) /\ i < j)
      PROVE  \E c : /\ Supports(h, c, TermAt(y, j), j)
                    /\ c.index <= n /\ Has(x, c.index, TermAt(y, j))
  <2>1. j \in 1..Len(y) /\ j \in 1..m /\ i \in 0..Len(x)
    BY <1>4, <1>6, <1>7
  <2>2. j \in DOMAIN y /\ TermAt(y, j) = y[j].term /\ y[j].term \in Nat
    BY <2>1, TermAtIs
  <2>3. PICK w : w = y[j].term
    OBVIOUS
  <2>4. w <= t /\ (w = t => j <= n) /\ w \in Nat
    BY <2>1, <2>2, <2>3 DEF IsRival
  <2>5. /\ w \in h.led /\ h.base[w] < j /\ j <= Len(h.line[w])
        /\ \A k \in 1..j : y[k] = h.line[w][k]
    BY <2>2, <2>3 DEF OnLines
  <2>6. y[j] = h.line[w][j] /\ j \in (h.base[w] + 1)..Len(h.line[w])
    <3>1. h.base[w] \in Nat /\ Len(h.line[w]) \in Nat
      BY <2>5, LineFacts
    <3> QED
      BY <2>1, <2>5, <3>1
  <2>7. CASE w < t
    <3>1. PICK c \in h.commits : Supports(h, c, w, j)
      BY <1>1, <1>6, <1>7, <2>5, <2>6 DEF ChangesOK
    <3>2. c.term = w
      BY <3>1 DEF Supports
    <3>3. Has(x, c.index, w)
      BY <1>1, <2>7, <3>2 DEF Complete
    <3>4. c.index <= h.base[t] /\ c.index \in Nat
      BY <1>1, <2>7, <3>3, InBase
    <3>5. c.index <= n
      BY <1>2, <3>4
    <3> QED
      BY <2>2, <2>3, <3>1, <3>3, <3>5
  <2>8. CASE w = t
    <3>1. j \in 1..n /\ x[j].members # {}
      BY <1>6, <1>7, <2>1, <2>4, <2>6, <2>8
    <3>2. j <= i /\ i > 0
      BY <1>4, <3>1 DEF NoChange
    <3>3. i \in DOMAIN x /\ TermAt(x, i) = x[i].term
      BY <1>2, <2>1, <3>2, TermAtIs
    <3>4. j \in DOMAIN x /\ x[j].term = t
      BY <1>2, <2>2, <2>3, <2>5, <2>6, <2>8
    <3>5. x[j].term <= x[i].term
      BY <1>1, <1>2, <3>2, <3>3, <3>4, Sorted
    <3>6. x[i].term \in Nat
      BY <1>2, <2>1, <3>3, TermAtIs
    <3> QED
      BY <1>2, <1>4, <1>7, <2>1, <2>2, <2>3, <2>8, <3>2, <3>3, <3>4, <3>5, <3>6
  <2> QED
    BY <1>2, <2>4, <2>7, <2>8
<1> QED
  BY <1>3, <1>5, <1>7 DEF Reaches

LEMMA RivalsOverlap ==
    ASSUME NEW h, HistoryOK(h), NEW t \in h.led, NEW n \in (h.base[t] + 1)..Len(h.line[t]),
           NEW y \in Seq(Entries(h)), OnLines(h, y), NEW m \in 0..Len(y), IsRival(h, t, n, y, m),
           NEW A, NEW B, IsMajority(A, MembersAt(h, h.line[t], n)), IsMajority(B, MembersAt(h, y, m))
    PROVE  A \cap B # {}
<1>1. h.line[t] \in Seq(Entries(h)) /\ OnLines(h, h.line[t]) /\ h.base[t] \in Nat
  BY DEF HistoryOK, IsHistory, LinesOK
<1>2. n \in 0..Len(h.line[t])
  BY <1>1
<1>3. Reaches(h, h.line[t], n, y, m) /\ Reaches(h, y, m, h.line[t], n)
  BY LeaderReaches, RivalReaches
<1> QED
  BY <1>1, <1>2, <1>3, Overlap

(* A log as up to date as one that has entry k of term t, and with nothing *)
(* of a later term, has that entry too.                                    *)
LEMMA UpToDateHas ==
    ASSUME NEW h, HistoryOK(h), NEW t \in h.led, NEW k \in 1..Len(h.line[t]), h.line[t][k].term = t,
           NEW y \in Seq(Entries(h)), OnLines(h, y), NEW m \in 0..Len(y),
           \A j \in 1..m : y[j].term <= t,
           NEW b \in Seq(Entries(h)), OnLines(h, b), Has(b, k, t), IsUpToDate(b, m, TermAt(y, m))
    PROVE  k <= m /\ Has(y, k, t)
<1>1. IsHistory(h) /\ LinesOK(h) /\ t \in Nat /\ h.line[t] \in Seq(Entries(h))
  BY DEF HistoryOK, IsHistory
<1>2. k \in DOMAIN b /\ b[k].term = t /\ Len(b) \in DOMAIN b /\ k <= Len(b) /\ Len(b) \in 0..Len(b)
  BY DEF Has
<1>3. b[k].term <= b[Len(b)].term
  BY <1>1, <1>2, Sorted
<1>4. LastTerm(b) = b[Len(b)].term /\ LastTerm(b) \in Nat
  BY <1>2, TermAtIs DEF LastTerm
<1>5. TermAt(y, m) \in Nat /\ (m > 0 => m \in DOMAIN y /\ TermAt(y, m) = y[m].term) /\ (m = 0 => TermAt(y, m) = 0)
  BY TermAtIs
<1>6. TermAt(y, m) >= t
  BY <1>1, <1>2, <1>3, <1>4, <1>5 DEF IsUpToDate
<1>7. t > 0
  <2>1. h.led \in SUBSET (Nat \ {0})
    BY <1>1 DEF IsHistory
  <2> QED
    BY <2>1
<1>8. m > 0 /\ y[m].term = t
  BY <1>1, <1>5, <1>6, <1>7
<1>9. m >= Len(b)
  BY <1>1, <1>2, <1>3, <1>4, <1>5, <1>8 DEF IsUpToDate
<1>10. y[k] = h.line[t][k] /\ k \in DOMAIN y
  BY <1>2, <1>5, <1>8, <1>9 DEF OnLines
<1> QED
  BY <1>2, <1>9, <1>10 DEF Has

-----------------------------------------------------------------------------
(* Who has what was committed.                                             *)

(* Some leader after t, up to z, did not have entry k of term t. *)
Lost(h, k, t, z) == \E y \in h.led : t < y /\ y <= z /\ ~Has(h.line[y], k, t)

(* A candidate of term z that a majority of its members voted for, with    *)
(* logs that had what they had acknowledged, has all that was committed.   *)
LEMMA WinnerIsComplete ==
    ASSUME NEW h, HistoryOK(h), NEW b \in Seq(Entries(h)), OnLines(h, b), NEW z \in Nat,
           \A j \in DOMAIN b : b[j].term < z,
           NEW Q \in SUBSET h.server, IsMajority(Q, MembersAt(h, b, Len(b))),
           NEW B \in [h.server -> Seq(Entries(h))],
           \A v \in Q : OnLines(h, B[v]) /\ IsUpToDate(B[v], Len(b), LastTerm(b)),
           \A c \in h.commits : \A v \in c.quorum \cap Q : c.term < z => Has(B[v], c.index, c.term)
    PROVE  \A c \in h.commits : c.term < z => Has(b, c.index, c.term)
<1>0. SUFFICES ASSUME NEW c0 \in h.commits, c0.term < z, ~Has(b, c0.index, c0.term)
               PROVE  FALSE
  OBVIOUS
<1> DEFINE Bad == {c \in h.commits : c.term < z /\ ~Has(b, c.index, c.term)}
           T == {c.term : c \in Bad}
<1>1. PICK t \in T : \A u \in T : t <= u
  <2>1. \A c \in h.commits : c.term \in Nat
    BY CommitFacts
  <2>2. T \in SUBSET Nat /\ c0.term \in T
    BY <1>0, <2>1
  <2> HIDE DEF T
  <2> QED
    BY <2>2, Least
<1> DEFINE K == {c.index : c \in {d \in Bad : d.term = t}}
<1>2. PICK k \in K : \A i \in K : k <= i
  <2>1. \A c \in h.commits : c.index \in Nat
    BY CommitFacts
  <2>2. K \in SUBSET Nat /\ K # {}
    BY <1>1, <2>1
  <2> HIDE DEF K
  <2> QED
    BY <2>2, Least
<1>3. PICK c \in h.commits : c.term = t /\ c.index = k /\ t < z /\ ~Has(b, k, t)
  BY <1>2
<1>4. \A d \in h.commits : d.term < z /\ ~Has(b, d.index, d.term) => t <= d.term
  BY <1>1
<1>5. \A d \in h.commits : d.term = t /\ ~Has(b, d.index, t) => k <= d.index
  BY <1>2, <1>3
<1> HIDE DEF Bad, T, K
<1>6. /\ t \in h.led /\ t \in Nat /\ k \in Nat /\ c.length \in Nat
      /\ h.base[t] < k /\ k <= c.length /\ c.length <= Len(h.line[t])
      /\ k \in 1..Len(h.line[t]) /\ c.length \in (h.base[t] + 1)..Len(h.line[t])
      /\ h.line[t][k].term = t /\ IsMajority(c.quorum, MembersAt(h, h.line[t], c.length))
  BY <1>3, CommitFacts
<1>7. ASSUME NEW j \in 1..Len(b)
      PROVE  b[j].term <= t /\ (b[j].term = t => j <= c.length)
  <2>1. PICK w : w = b[j].term
    OBVIOUS
  <2>2. j \in DOMAIN b /\ w \in Nat
    BY <2>1, EntryAt
  <2>3. w \in h.led /\ h.base[w] < j /\ j <= Len(h.line[w]) /\ \A i \in 1..j : b[i] = h.line[w][i]
    BY <2>1, <2>2 DEF OnLines
  <2>4. ASSUME w > t PROVE FALSE
    <3>1. Has(h.line[w], k, t)
      BY <1>3, <2>3, <2>4 DEF HistoryOK, Complete
    <3>2. k <= h.base[w] /\ h.base[w] \in Nat
      BY <2>3, <2>4, <3>1, InBase, LineFacts DEF HistoryOK
    <3>3. k \in 1..j
      BY <1>6, <2>3, <3>2
    <3>4. b[k] = h.line[w][k] /\ k \in DOMAIN b
      BY <2>2, <2>3, <3>3
    <3> QED
      BY <1>3, <3>1, <3>4 DEF Has
  <2>5. ASSUME w = t, ~(j <= c.length) PROVE FALSE
    <3>1. k \in 1..j
      BY <1>6, <2>5
    <3>2. b[k] = h.line[t][k] /\ k \in DOMAIN b
      BY <2>2, <2>3, <2>5, <3>1
    <3> QED
      BY <1>3, <1>6, <3>2 DEF Has
  <2> QED
    BY <1>6, <2>1, <2>2, <2>4, <2>5
<1>8. IsRival(h, t, c.length, b, Len(b))
  <2>1. ASSUME NEW d \in h.commits, d.term < t
        PROVE  d.index <= Len(b) /\ Has(b, d.index, d.term)
    <3>1. d.term \in Nat
      BY CommitFacts
    <3>2. Has(b, d.index, d.term)
      BY <1>3, <1>4, <1>6, <2>1, <3>1
    <3> QED
      BY <3>2 DEF Has
  <2>2. ASSUME NEW i \in (h.base[t] + 1)..c.length, h.line[t][i].members # {}
        PROVE  \E d : Supports(h, d, t, i) /\ d.index <= Len(b) /\ Has(b, d.index, t)
    <3>1. PICK d \in h.commits : Supports(h, d, t, i) /\ d.index < k
      BY <1>3, <2>2 DEF HistoryOK, CommitsOK
    <3>2. d.term = t /\ d.index \in Nat
      BY <3>1, CommitFacts DEF Supports
    <3>3. Has(b, d.index, t)
      BY <1>5, <1>6, <3>1, <3>2
    <3> QED
      BY <3>1, <3>3 DEF Has
  <2> QED
    BY <1>7, <2>1, <2>2 DEF IsRival
<1>9. PICK v \in c.quorum : v \in Q
  <2>1. Len(b) \in 0..Len(b)
    OBVIOUS
  <2>2. c.quorum \cap Q # {}
    BY <1>6, <1>8, <2>1, RivalsOverlap
  <2> QED
    BY <2>2
<1>10. /\ B[v] \in Seq(Entries(h)) /\ OnLines(h, B[v]) /\ Has(B[v], k, t)
       /\ IsUpToDate(B[v], Len(b), TermAt(b, Len(b)))
  BY <1>3, <1>9 DEF LastTerm
<1>11. Has(b, k, t)
  BY <1>6, <1>7, <1>10, UpToDateHas
<1> QED
  BY <1>3, <1>11

(* Its voters and those of a leader of its own term have one in common.    *)
LEMMA WinnersOverlap ==
    ASSUME NEW h, HistoryOK(h), NEW b \in Seq(Entries(h)), OnLines(h, b), NEW z \in h.led,
           \A j \in DOMAIN b : b[j].term < z,
           \A c \in h.commits : c.term < z => Has(b, c.index, c.term),
           NEW Q, IsMajority(Q, MembersAt(h, b, Len(b)))
    PROVE  Q \cap h.quorum[z] # {}
<1> DEFINE x == h.line[z]
           n == h.base[z]
<1>1. z \in Nat /\ x \in Seq(Entries(h)) /\ OnLines(h, x) /\ n \in 0..Len(x) /\ n \in Nat
  <2>1. z \in Nat /\ x \in Seq(Entries(h)) /\ OnLines(h, x) /\ n \in Nat /\ n < Len(x)
    BY LineFacts
  <2> QED
    BY <2>1
<1>2. Len(b) \in 0..Len(b)
  OBVIOUS
<1>3. ASSUME NEW y \in Seq(Entries(h)), OnLines(h, y), NEW m \in 0..Len(y),
             \A j \in 1..m : y[j].term < z,
             NEW i, i = ChangeIndex(y, m), i > 0
      PROVE  \E c \in h.commits : c.term < z /\ c.term = TermAt(y, i) /\ Supports(h, c, TermAt(y, i), i)
  <2>1. i \in 0..m /\ y[i].members # {}
    BY <1>3, ChangeFacts
  <2>2. i \in 1..m /\ i \in 1..Len(y) /\ i \in 0..Len(y)
    BY <1>3, <2>1
  <2>3. i \in DOMAIN y /\ TermAt(y, i) = y[i].term
    BY <1>3, <2>2, TermAtIs
  <2>4. PICK u : u = y[i].term
    OBVIOUS
  <2>5. u \in h.led /\ h.base[u] < i /\ i <= Len(h.line[u]) /\ y[i] = h.line[u][i]
    BY <1>3, <2>2, <2>3, <2>4 DEF OnLines
  <2>6. i \in (h.base[u] + 1)..Len(h.line[u])
    <3>1. h.base[u] \in Nat /\ Len(h.line[u]) \in Nat
      BY <2>5, LineFacts
    <3> QED
      BY <2>2, <2>5, <3>1
  <2>7. PICK c \in h.commits : Supports(h, c, u, i)
    BY <2>1, <2>5, <2>6 DEF HistoryOK, ChangesOK
  <2> QED
    BY <1>3, <2>2, <2>3, <2>4, <2>7 DEF Supports
<1>4. Reaches(h, b, Len(b), x, n)
  <2>1. PICK i : i = ChangeIndex(b, Len(b))
    OBVIOUS
  <2>2. ASSUME i > 0
        PROVE  \E c : Supports(h, c, TermAt(b, i), i) /\ c.index <= n /\ Has(x, c.index, TermAt(b, i))
    <3>1. \A j \in 1..Len(b) : b[j].term < z
      OBVIOUS
    <3>2. PICK c \in h.commits : c.term < z /\ c.term = TermAt(b, i) /\ Supports(h, c, TermAt(b, i), i)
      BY <1>2, <1>3, <2>1, <2>2, <3>1
    <3>3. Has(x, c.index, c.term)
      BY <3>2 DEF HistoryOK, Complete
    <3>4. c.index <= n
      BY <3>2, <3>3, InBase DEF HistoryOK
    <3> QED
      BY <3>2, <3>3, <3>4
  <2> QED
    BY <2>1, <2>2 DEF Reaches
<1>5. Reaches(h, x, n, b, Len(b))
  <2>1. PICK i : i = ChangeIndex(x, n)
    OBVIOUS
  <2>2. ASSUME i > 0
        PROVE  \E c : Supports(h, c, TermAt(x, i), i) /\ c.index <= Len(b) /\ Has(b, c.index, TermAt(x, i))
    <3>1. \A j \in 1..n : x[j].term < z
      <4>1. \A j \in 1..n : j \in DOMAIN x /\ ~(j > n)
        BY <1>1
      <4> QED
        BY <4>1 DEF HistoryOK, LinesOK
    <3>2. PICK c \in h.commits : c.term < z /\ c.term = TermAt(x, i) /\ Supports(h, c, TermAt(x, i), i)
      BY <1>1, <1>3, <2>1, <2>2, <3>1
    <3>3. Has(b, c.index, c.term)
      BY <3>2
    <3> QED
      BY <3>2, <3>3 DEF Has
  <2> QED
    BY <2>1, <2>2 DEF Reaches
<1>6. IsMajority(h.quorum[z], MembersAt(h, x, n))
  BY DEF HistoryOK, BallotsOK
<1> QED
  BY <1>1, <1>2, <1>4, <1>5, <1>6, Overlap

(* What the leader of t commits now, the later leaders there are have: the *)
(* first that had not would have been elected by one who acknowledged it.  *)
LEMMA CommitIsComplete ==
    ASSUME NEW h, HistoryOK(h), NEW t \in h.led, NEW k \in (h.base[t] + 1)..Len(h.line[t]),
           NEW R, IsMajority(R, MembersAt(h, h.line[t], Len(h.line[t]))),
           \A z \in h.led : \A v \in R \cap h.quorum[z] :
              z > t => Has(h.ballot[z][v], k, t) \/ Lost(h, k, t, z - 1)
    PROVE  \A z \in h.led : z > t => Has(h.line[z], k, t)
<1>0. SUFFICES ASSUME NEW z0 \in h.led, z0 > t, ~Has(h.line[z0], k, t)
               PROVE  FALSE
  OBVIOUS
<1> DEFINE T == {z \in h.led : z > t /\ ~Has(h.line[z], k, t)}
           n == Len(h.line[t])
<1>1. PICK z \in T : \A u \in T : z <= u
  <2>1. h.led \in SUBSET Nat
    BY DEF HistoryOK, IsHistory
  <2>2. T \in SUBSET Nat /\ z0 \in T
    BY <1>0, <2>1
  <2> HIDE DEF T
  <2> QED
    BY <2>2, Least
<1>2. z \in h.led /\ z > t /\ ~Has(h.line[z], k, t)
  OBVIOUS
<1>3. \A u \in h.led : u > t /\ ~Has(h.line[u], k, t) => z <= u
  BY <1>1
<1> HIDE DEF T
<1> DEFINE y == h.line[z]
           m == h.base[z]
<1>4. /\ t \in Nat /\ h.base[t] \in Nat /\ n \in Nat /\ h.line[t] \in Seq(Entries(h))
      /\ z \in Nat /\ y \in Seq(Entries(h)) /\ OnLines(h, y) /\ m \in Nat /\ m < Len(y)
  BY <1>2, LineFacts
<1>5. /\ m \in 0..Len(y) /\ n \in (h.base[t] + 1)..Len(h.line[t]) /\ k \in Nat
      /\ k \in 1..Len(h.line[t]) /\ k > h.base[t] /\ k \in DOMAIN h.line[t]
  BY <1>4
<1>6. h.line[t][k].term = t
  BY <1>5 DEF HistoryOK, LinesOK
<1>7. ASSUME NEW j \in 1..m
      PROVE  y[j].term <= t /\ (y[j].term = t => j <= n)
  <2>1. PICK w : w = y[j].term
    OBVIOUS
  <2>2. j \in DOMAIN y /\ j \in 1..Len(y)
    BY <1>4
  <2>3. w \in Nat
    BY <1>4, <2>1, <2>2, EntryAt
  <2>4. w \in h.led /\ h.base[w] < j /\ j <= Len(h.line[w]) /\ \A i \in 1..j : y[i] = h.line[w][i]
    BY <1>4, <2>1, <2>2 DEF OnLines
  <2>5. w < z
    <3>1. ~(j > h.base[z])
      BY <1>4
    <3> QED
      BY <1>2, <2>1, <2>2, <3>1 DEF HistoryOK, LinesOK
  <2>6. ASSUME w > t PROVE FALSE
    <3>1. Has(h.line[w], k, t)
      BY <1>3, <1>4, <2>3, <2>4, <2>5, <2>6
    <3>2. k <= h.base[w] /\ h.base[w] \in Nat
      BY <2>4, <2>6, <3>1, InBase, LineFacts DEF HistoryOK
    <3>3. k \in 1..j
      BY <1>5, <2>4, <3>2
    <3>4. y[k] = h.line[w][k] /\ k \in DOMAIN y
      BY <1>4, <2>2, <2>4, <3>3
    <3> QED
      BY <1>2, <3>1, <3>4 DEF Has
  <2>7. w <= t
    BY <1>4, <2>3, <2>6
  <2>8. w = t => j <= n
    BY <2>4
  <2> QED
    BY <2>1, <2>7, <2>8
<1>8. IsRival(h, t, n, y, m)
  <2>1. ASSUME NEW d \in h.commits, d.term <= t
        PROVE  d.index <= m /\ Has(y, d.index, d.term)
    <3>1. d.term \in Nat /\ d.term < z
      <4>1. d.term \in Nat
        BY CommitFacts
      <4> QED
        BY <1>2, <1>4, <2>1, <4>1
    <3>2. Has(y, d.index, d.term)
      BY <1>2, <3>1 DEF HistoryOK, Complete
    <3> QED
      BY <1>2, <3>1, <3>2, InBase DEF HistoryOK
  <2>2. \A d \in h.commits : d.term < t => d.term <= t
    <3>1. \A d \in h.commits : d.term \in Nat
      BY CommitFacts
    <3> QED
      BY <1>4, <3>1
  <2>3. ASSUME NEW i \in (h.base[t] + 1)..n, h.line[t][i].members # {}
        PROVE  \E d : Supports(h, d, t, i) /\ d.index <= m /\ Has(y, d.index, t)
    <3>1. PICK d \in h.commits : Supports(h, d, t, i)
      BY <2>3 DEF HistoryOK, ChangesOK
    <3>2. d.term = t
      BY <3>1 DEF Supports
    <3> QED
      BY <1>4, <2>1, <3>1, <3>2
  <2> QED
    BY <1>7, <2>1, <2>2, <2>3 DEF IsRival
<1>9. IsMajority(h.quorum[z], MembersAt(h, y, m))
  BY <1>2 DEF HistoryOK, BallotsOK
<1>10. PICK v \in R : v \in h.quorum[z]
  <2>1. R \cap h.quorum[z] # {}
    BY <1>4, <1>5, <1>8, <1>9, RivalsOverlap
  <2> QED
    BY <2>1
<1>11. Has(h.ballot[z][v], k, t)
  <2>1. ~Lost(h, k, t, z - 1)
    <3>1. ASSUME NEW u \in h.led, t < u, u <= z - 1, ~Has(h.line[u], k, t) PROVE FALSE
      <4>1. u \in Nat /\ z <= u
        BY <1>3, <1>4, <3>1, LineFacts
      <4> QED
        BY <1>4, <3>1, <4>1
    <3> QED
      BY <3>1 DEF Lost
  <2> QED
    BY <1>2, <1>10, <2>1
<1>12. /\ h.ballot[z][v] \in Seq(Entries(h)) /\ OnLines(h, h.ballot[z][v])
       /\ IsUpToDate(h.ballot[z][v], m, TermAt(y, m))
  <2>1. v \in h.server
    BY <1>2, <1>10, LineFacts
  <2>2. h.ballot[z][v] \in Seq(Entries(h)) /\ OnLines(h, h.ballot[z][v])
    BY <1>4, <2>1, BallotFacts
  <2>4. IsUpToDate(h.ballot[z][v], m, TermAt(y, m))
    BY <1>2, <1>10 DEF HistoryOK, BallotsOK
  <2> QED
    BY <2>2, <2>4
<1>13. Has(y, k, t)
  BY <1>4, <1>5, <1>6, <1>7, <1>11, <1>12, UpToDateHas
<1> QED
  BY <1>2, <1>13

(* The members that say that the leader of t still leads, and the voters   *)
(* of a later one whose log held nothing later than t.                     *)
LEMMA ReadersOverlap ==
    ASSUME NEW h, HistoryOK(h), NEW t \in h.led, NEW z \in h.led, z > t,
           TermAt(h.line[z], h.base[z]) <= t,
           NEW R, IsMajority(R, MembersAt(h, h.line[t], Len(h.line[t])))
    PROVE  R \cap h.quorum[z] # {}
<1> DEFINE n == Len(h.line[t])
           y == h.line[z]
           m == h.base[z]
<1>1. /\ t \in Nat /\ h.base[t] \in Nat /\ n \in Nat /\ h.base[t] < n /\ h.line[t] \in Seq(Entries(h))
      /\ z \in Nat /\ y \in Seq(Entries(h)) /\ OnLines(h, y) /\ m \in Nat /\ m < Len(y)
  BY LineFacts
<1>2. m \in 0..Len(y) /\ n \in (h.base[t] + 1)..Len(h.line[t])
  BY <1>1
<1>3. ASSUME NEW j \in 1..m
      PROVE  y[j].term <= t /\ (y[j].term = t => j <= n)
  <2>1. j \in DOMAIN y /\ m \in DOMAIN y /\ j <= m /\ m > 0 /\ j \in 1..Len(y)
    BY <1>1
  <2>2. y[j].term <= y[m].term
    BY <1>1, <2>1, Sorted DEF HistoryOK
  <2>3. TermAt(y, m) = y[m].term /\ TermAt(y, m) \in Nat /\ y[j].term \in Nat
    BY <1>1, <1>2, <2>1, TermAtIs, EntryAt
  <2>4. y[j].term = t => j <= n
    BY <1>1, <2>1 DEF OnLines
  <2>5. y[j].term <= t
    <3>1. PICK a, b : a = y[j].term /\ b = y[m].term
      OBVIOUS
    <3>2. a \in Nat /\ b \in Nat /\ a <= b /\ b <= t
      BY <2>2, <2>3, <3>1
    <3>3. a <= t
      BY <1>1, <3>2
    <3> QED
      BY <3>1, <3>3
  <2> QED
    BY <2>4, <2>5
<1>4. IsRival(h, t, n, y, m)
  <2>1. ASSUME NEW d \in h.commits, d.term <= t
        PROVE  d.index <= m /\ Has(y, d.index, d.term)
    <3>1. d.term \in Nat /\ d.term < z
      <4>1. d.term \in Nat
        BY CommitFacts
      <4> QED
        BY <1>1, <2>1, <4>1
    <3>2. Has(y, d.index, d.term)
      BY <3>1 DEF HistoryOK, Complete
    <3> QED
      BY <3>1, <3>2, InBase DEF HistoryOK
  <2>2. \A d \in h.commits : d.term < t => d.term <= t
    <3>1. \A d \in h.commits : d.term \in Nat
      BY CommitFacts
    <3> QED
      BY <1>1, <3>1
  <2>3. ASSUME NEW i \in (h.base[t] + 1)..n, h.line[t][i].members # {}
        PROVE  \E d : Supports(h, d, t, i) /\ d.index <= m /\ Has(y, d.index, t)
    <3>1. PICK d \in h.commits : Supports(h, d, t, i)
      BY <2>3 DEF HistoryOK, ChangesOK
    <3>2. d.term = t
      BY <3>1 DEF Supports
    <3> QED
      BY <1>1, <2>1, <3>1, <3>2
  <2> QED
    BY <1>3, <2>1, <2>2, <2>3 DEF IsRival
<1>5. IsMajority(h.quorum[z], MembersAt(h, y, m))
  BY DEF HistoryOK, BallotsOK
<1> QED
  BY <1>1, <1>2, <1>4, <1>5, RivalsOverlap

-----------------------------------------------------------------------------
(* A history that goes on.                                                 *)

Grown(h, g) ==
    /\ g.server = h.server /\ g.first = h.first
    /\ h.led \subseteq g.led /\ h.commits \subseteq g.commits
    /\ \A t \in h.led :
         /\ g.base[t] = h.base[t] /\ g.leader[t] = h.leader[t] /\ g.quorum[t] = h.quorum[t]
         /\ Len(h.line[t]) <= Len(g.line[t])
         /\ \A j \in 1..Len(h.line[t]) : g.line[t][j] = h.line[t][j]
         /\ \A v \in h.quorum[t] : g.ballot[t][v] = h.ballot[t][v]

LEMMA GrownOnLines ==
    ASSUME NEW h, HistoryOK(h), NEW g, IsHistory(g), Grown(h, g),
           NEW x \in Seq(Entries(h)), OnLines(h, x)
    PROVE  OnLines(g, x)
<1>1. SUFFICES ASSUME NEW i \in DOMAIN x
               PROVE  /\ x[i].term \in g.led /\ g.base[x[i].term] < i /\ i <= Len(g.line[x[i].term])
                      /\ \A j \in 1..i : x[j] = g.line[x[i].term][j]
  BY DEF OnLines
<1>2. PICK t : t = x[i].term
  OBVIOUS
<1>3. t \in h.led /\ h.base[t] < i /\ i <= Len(h.line[t]) /\ \A j \in 1..i : x[j] = h.line[t][j]
  BY <1>2 DEF OnLines
<1>4. /\ g.base[t] = h.base[t] /\ Len(h.line[t]) <= Len(g.line[t]) /\ t \in g.led
      /\ \A j \in 1..Len(h.line[t]) : g.line[t][j] = h.line[t][j]
  BY <1>3 DEF Grown
<1>5. t \in Nat /\ Len(h.line[t]) \in Nat
  BY <1>3, LineFacts
<1>6. Len(g.line[t]) \in Nat
  <2>1. g.line[t] \in Seq(Entries(g))
    BY <1>5 DEF IsHistory
  <2> QED
    BY <2>1
<1>7. i <= Len(g.line[t]) /\ \A j \in 1..i : j \in 1..Len(h.line[t])
  BY <1>3, <1>4, <1>5, <1>6
<1> QED
  BY <1>2, <1>3, <1>4, <1>7

LEMMA GrownMembers ==
    ASSUME NEW h, HistoryOK(h), NEW g, Grown(h, g), NEW t \in h.led, NEW n \in 0..Len(h.line[t])
    PROVE  MembersAt(g, g.line[t], n) = MembersAt(h, h.line[t], n)
<1>1. \A j \in 1..n : g.line[t][j] = h.line[t][j]
  <2>1. Len(h.line[t]) \in Nat
    BY LineFacts
  <2>2. \A j \in 1..n : j \in 1..Len(h.line[t])
    BY <2>1
  <2> QED
    BY <2>2 DEF Grown
<1>2. MembersAt(h, g.line[t], n) = MembersAt(h, h.line[t], n)
  BY <1>1, SameChanges
<1> QED
  BY <1>2 DEF MembersAt, Grown

LEMMA GrownSupports ==
    ASSUME NEW h, HistoryOK(h), NEW g, Grown(h, g), NEW t \in h.led,
           NEW i \in 1..(Len(h.line[t]) + 1), NEW c, Supports(h, c, t, i)
    PROVE  Supports(g, c, t, i)
<1>1. Len(h.line[t]) \in Nat
  BY LineFacts
<1>2. c \in h.commits /\ c.term = t /\ c.index < i /\ NoChange(h.line[t], c.index, i - 1)
  BY DEF Supports
<1>3. c \in g.commits /\ \A j \in 1..Len(h.line[t]) : g.line[t][j] = h.line[t][j]
  BY <1>2 DEF Grown
<1>4. c.index \in Nat
  BY <1>2, CommitFacts
<1>5. \A j \in (c.index + 1)..(i - 1) : j \in 1..Len(h.line[t])
  BY <1>1, <1>4
<1>6. NoChange(g.line[t], c.index, i - 1)
  BY <1>2, <1>3, <1>5 DEF NoChange
<1> QED
  BY <1>2, <1>3, <1>6 DEF Supports

LEMMA GrownHas ==
    ASSUME NEW h, HistoryOK(h), NEW g, IsHistory(g), Grown(h, g), NEW z \in h.led, NEW k, NEW t,
           Has(h.line[z], k, t)
    PROVE  Has(g.line[z], k, t)
<1>1. z \in Nat /\ h.line[z] \in Seq(Entries(h)) /\ Len(h.line[z]) \in Nat
  BY LineFacts
<1>2. g.line[z] \in Seq(Entries(g)) /\ Len(g.line[z]) \in Nat
  <2>1. g.line[z] \in Seq(Entries(g))
    BY <1>1 DEF IsHistory
  <2> QED
    BY <2>1
<1>3. k \in 1..Len(h.line[z]) /\ h.line[z][k].term = t
  BY <1>1 DEF Has
<1>4. g.line[z][k] = h.line[z][k] /\ Len(h.line[z]) <= Len(g.line[z])
  BY <1>3 DEF Grown
<1>5. k \in DOMAIN g.line[z]
  BY <1>1, <1>2, <1>3, <1>4
<1> QED
  BY <1>3, <1>4, <1>5 DEF Has

(* What a leader lacked of an earlier term it never gets. *)
LEMMA GrownLost ==
    ASSUME NEW h, HistoryOK(h), NEW g, IsHistory(g), LinesOK(g), Grown(h, g),
           NEW k, NEW t, NEW z, Lost(h, k, t, z)
    PROVE  Lost(g, k, t, z)
<1>1. PICK y \in h.led : t < y /\ y <= z /\ ~Has(h.line[y], k, t)
  BY DEF Lost
<1>2. y \in g.led /\ g.base[y] = h.base[y] /\ \A j \in 1..Len(h.line[y]) : g.line[y][j] = h.line[y][j]
  BY DEF Grown
<1>3. h.base[y] \in Nat /\ Len(h.line[y]) \in Nat /\ h.base[y] < Len(h.line[y]) /\ h.line[y] \in Seq(Entries(h))
  BY LineFacts
<1>4. ASSUME Has(g.line[y], k, t) PROVE FALSE
  <2>1. k \in Nat /\ 0 < k /\ k <= g.base[y]
    BY <1>1, <1>2, <1>4, InBase
  <2>2. k \in 1..Len(h.line[y])
    BY <1>2, <1>3, <2>1
  <2>3. Has(h.line[y], k, t)
    BY <1>2, <1>3, <1>4, <2>2 DEF Has
  <2> QED
    BY <1>1, <2>3
<1> QED
  BY <1>1, <1>2, <1>4 DEF Lost

(* What was true of the lines and commitments there were is true of them   *)
(* still.                                                                  *)
KeepsLines(h, g) == \A t \in h.led :
    /\ g.base[t] < Len(g.line[t])
    /\ \A i \in 1..Len(h.line[t]) : IF i > g.base[t] THEN g.line[t][i].term = t
                                                    ELSE g.line[t][i].term < t

KeepsBallots(h, g) == \A t \in h.led :
    /\ IsMajority(g.quorum[t], MembersAt(g, g.line[t], g.base[t]))
    /\ \A v \in g.quorum[t] :
         IsUpToDate(g.ballot[t][v], g.base[t], TermAt(g.line[t], g.base[t]))

KeepsChanges(h, g) == \A t \in h.led : \A i \in (h.base[t] + 1)..Len(h.line[t]) :
    g.line[t][i].members # {} =>
      /\ OneApart(g.line[t][i].members, MembersAt(g, g.line[t], i - 1))
      /\ \E c \in g.commits : Supports(g, c, t, i)

KeepsCommits(h, g) == \A c \in h.commits :
    /\ c.term \in g.led /\ g.base[c.term] < c.index /\ c.index <= c.length
    /\ c.length <= Len(g.line[c.term])
    /\ IsMajority(c.quorum, MembersAt(g, g.line[c.term], c.length))
    /\ \A i \in (g.base[c.term] + 1)..c.length : g.line[c.term][i].members # {} =>
         \E d \in g.commits : Supports(g, d, c.term, i) /\ d.index < c.index

KeepsComplete(h, g) == \A c \in h.commits : \A t \in h.led :
    t > c.term => Has(g.line[t], c.index, c.term)

LEMMA GrownKeeps ==
    ASSUME NEW h, HistoryOK(h), NEW g, IsHistory(g), Grown(h, g)
    PROVE  /\ KeepsLines(h, g) /\ KeepsBallots(h, g) /\ KeepsChanges(h, g)
           /\ KeepsCommits(h, g) /\ KeepsComplete(h, g)
<1>1. ASSUME NEW t \in h.led
      PROVE  /\ g.base[t] = h.base[t] /\ h.base[t] \in Nat /\ Len(h.line[t]) \in Nat
             /\ h.base[t] < Len(h.line[t]) /\ Len(h.line[t]) <= Len(g.line[t]) /\ Len(g.line[t]) \in Nat
             /\ \A j \in 1..Len(h.line[t]) : g.line[t][j] = h.line[t][j]
             /\ h.line[t] \in Seq(Entries(h)) /\ g.line[t] \in Seq(Entries(g)) /\ t \in g.led
  <2>1. t \in Nat /\ h.base[t] \in Nat /\ Len(h.line[t]) \in Nat /\ h.base[t] < Len(h.line[t]) /\ h.line[t] \in Seq(Entries(h))
    BY LineFacts
  <2>2. g.line[t] \in Seq(Entries(g))
    BY <2>1 DEF IsHistory
  <2> QED
    BY <2>1, <2>2 DEF Grown
<1>2. ASSUME NEW t \in h.led
      PROVE  /\ g.base[t] < Len(g.line[t])
             /\ \A i \in 1..Len(h.line[t]) : IF i > g.base[t] THEN g.line[t][i].term = t
                                                             ELSE g.line[t][i].term < t
  <2>1. g.base[t] < Len(g.line[t])
    BY <1>1
  <2>2. \A i \in 1..Len(h.line[t]) : i \in DOMAIN h.line[t]
    BY <1>1
  <2>3. \A i \in DOMAIN h.line[t] : IF i > h.base[t] THEN h.line[t][i].term = t
                                                     ELSE h.line[t][i].term < t
    BY DEF HistoryOK, LinesOK
  <2> QED
    BY <1>1, <2>1, <2>2, <2>3
<1>3. ASSUME NEW t \in h.led
      PROVE  /\ IsMajority(g.quorum[t], MembersAt(g, g.line[t], g.base[t]))
             /\ \A v \in g.quorum[t] :
                  IsUpToDate(g.ballot[t][v], g.base[t], TermAt(g.line[t], g.base[t]))
  <2>1. h.base[t] \in 0..Len(h.line[t])
    BY <1>1
  <2>2. MembersAt(g, g.line[t], h.base[t]) = MembersAt(h, h.line[t], h.base[t])
    BY <2>1, GrownMembers
  <2>3. TermAt(g.line[t], h.base[t]) = TermAt(h.line[t], h.base[t])
    BY <1>1, <2>1 DEF TermAt, NO_INDEX
  <2>4. g.quorum[t] = h.quorum[t] /\ \A v \in h.quorum[t] : g.ballot[t][v] = h.ballot[t][v]
    BY DEF Grown
  <2>5. /\ IsMajority(h.quorum[t], MembersAt(h, h.line[t], h.base[t]))
        /\ \A v \in h.quorum[t] : IsUpToDate(h.ballot[t][v], h.base[t], TermAt(h.line[t], h.base[t]))
    BY DEF HistoryOK, BallotsOK
  <2>6. g.base[t] = h.base[t]
    BY <1>1
  <2> QED
    BY <2>2, <2>3, <2>4, <2>5, <2>6
<1>4. ASSUME NEW t \in h.led, NEW i \in (h.base[t] + 1)..Len(h.line[t]), g.line[t][i].members # {}
      PROVE  /\ OneApart(g.line[t][i].members, MembersAt(g, g.line[t], i - 1))
             /\ \E c \in g.commits : Supports(g, c, t, i)
  <2>1. i \in 1..Len(h.line[t]) /\ i - 1 \in 0..Len(h.line[t]) /\ i \in 1..(Len(h.line[t]) + 1)
    BY <1>1
  <2>2. g.line[t][i] = h.line[t][i]
    BY <1>1, <2>1
  <2>3. OneApart(h.line[t][i].members, MembersAt(h, h.line[t], i - 1)) /\ \E c \in h.commits : Supports(h, c, t, i)
    BY <1>4, <2>2 DEF HistoryOK, ChangesOK
  <2>4. MembersAt(g, g.line[t], i - 1) = MembersAt(h, h.line[t], i - 1)
    BY <2>1, GrownMembers
  <2>5. PICK c \in h.commits : Supports(h, c, t, i)
    BY <2>3
  <2>6. Supports(g, c, t, i)
    BY <2>1, <2>5, GrownSupports
  <2>7. c \in g.commits
    BY <2>6 DEF Supports
  <2> QED
    BY <2>2, <2>3, <2>4, <2>6, <2>7
<1>5. ASSUME NEW c \in h.commits
      PROVE  /\ c.term \in g.led /\ g.base[c.term] < c.index /\ c.index <= c.length
             /\ c.length <= Len(g.line[c.term])
             /\ IsMajority(c.quorum, MembersAt(g, g.line[c.term], c.length))
             /\ \A i \in (g.base[c.term] + 1)..c.length : g.line[c.term][i].members # {} =>
                  \E d \in g.commits : Supports(g, d, c.term, i) /\ d.index < c.index
  <2>1. PICK t : t = c.term
    OBVIOUS
  <2>2. /\ t \in h.led /\ h.base[t] < c.index /\ c.index <= c.length /\ c.length <= Len(h.line[t])
        /\ c.length \in Nat /\ IsMajority(c.quorum, MembersAt(h, h.line[t], c.length))
    BY <2>1, CommitFacts
  <2>3. c.length \in 0..Len(h.line[t]) /\ c.length <= Len(g.line[t])
    BY <1>1, <2>2
  <2>4. MembersAt(g, g.line[t], c.length) = MembersAt(h, h.line[t], c.length)
    BY <2>2, <2>3, GrownMembers
  <2>5. ASSUME NEW i \in (h.base[t] + 1)..c.length, g.line[t][i].members # {}
        PROVE  \E d \in g.commits : Supports(g, d, t, i) /\ d.index < c.index
    <3>1. i \in 1..Len(h.line[t]) /\ i \in 1..(Len(h.line[t]) + 1)
      BY <1>1, <2>2
    <3>2. g.line[t][i] = h.line[t][i]
      BY <1>1, <2>2, <3>1
    <3>3. PICK d \in h.commits : Supports(h, d, t, i) /\ d.index < c.index
      BY <2>1, <2>5, <3>2 DEF HistoryOK, CommitsOK
    <3>4. Supports(g, d, t, i)
      BY <2>2, <3>1, <3>3, GrownSupports
    <3> QED
      BY <3>3, <3>4 DEF Supports
  <2>6. g.base[t] = h.base[t] /\ t \in g.led
    BY <1>1, <2>2
  <2> QED
    BY <2>1, <2>2, <2>3, <2>4, <2>5, <2>6
<1>6. ASSUME NEW c \in h.commits, NEW t \in h.led, t > c.term
      PROVE  Has(g.line[t], c.index, c.term)
  <2>1. Has(h.line[t], c.index, c.term)
    BY <1>6 DEF HistoryOK, Complete
  <2> QED
    BY <2>1, GrownHas
<1> QED
  BY <1>2, <1>3, <1>4, <1>5, <1>6
  DEF KeepsLines, KeepsBallots, KeepsChanges, KeepsCommits, KeepsComplete

-----------------------------------------------------------------------------
(* What the actions add to the history.                                    *)

NoOp(t) == [term |-> t, members |-> {}]

(* s wins the election of term t with the log b and the votes Q. *)
Elected(h, t, s, b, Q) ==
    [server |-> h.server, first |-> h.first, led |-> h.led \cup {t},
     leader |-> [h.leader EXCEPT ![t] = s],
     line |-> [h.line EXCEPT ![t] = Append(b, NoOp(t))],
     base |-> [h.base EXCEPT ![t] = Len(b)],
     quorum |-> [h.quorum EXCEPT ![t] = Q],
     ballot |-> h.ballot, commits |-> h.commits]

(* The leader of t appends e. *)
Proposed(h, t, e) ==
    [server |-> h.server, first |-> h.first, led |-> h.led, leader |-> h.leader,
     line |-> [h.line EXCEPT ![t] = Append(h.line[t], e)],
     base |-> h.base, quorum |-> h.quorum, ballot |-> h.ballot, commits |-> h.commits]

(* c is committed. *)
Committed(h, c) ==
    [server |-> h.server, first |-> h.first, led |-> h.led, leader |-> h.leader,
     line |-> h.line, base |-> h.base, quorum |-> h.quorum, ballot |-> h.ballot,
     commits |-> h.commits \cup {c}]

(* v votes in term t, with the log x. *)
Voted(h, t, v, x) ==
    [server |-> h.server, first |-> h.first, led |-> h.led, leader |-> h.leader,
     line |-> h.line, base |-> h.base, quorum |-> h.quorum,
     ballot |-> [h.ballot EXCEPT ![t] = [h.ballot[t] EXCEPT ![v] = x]], commits |-> h.commits]

LEMMA Appended ==
    ASSUME NEW S, NEW x \in Seq(S), NEW e \in S
    PROVE  /\ Append(x, e) \in Seq(S) /\ Len(Append(x, e)) = Len(x) + 1
           /\ \A j \in 1..Len(x) : Append(x, e)[j] = x[j]
           /\ Append(x, e)[Len(x) + 1] = e
  OBVIOUS

ElectedAs(h, g, t, s, b, Q) ==
    /\ g.server = h.server /\ g.first = h.first /\ g.led = h.led \cup {t}
    /\ g.ballot = h.ballot /\ g.commits = h.commits
    /\ g.leader[t] = s /\ g.line[t] = Append(b, NoOp(t)) /\ g.base[t] = Len(b) /\ g.quorum[t] = Q
    /\ \A u \in Nat : u # t => /\ g.leader[u] = h.leader[u] /\ g.line[u] = h.line[u]
                               /\ g.base[u] = h.base[u] /\ g.quorum[u] = h.quorum[u]

LEMMA ElectedFields ==
    ASSUME NEW h, IsHistory(h), NEW t \in Nat, NEW s \in h.server, NEW b \in Seq(Entries(h)),
           NEW Q \in SUBSET h.server, NEW g, g = Elected(h, t, s, b, Q)
    PROVE  /\ ElectedAs(h, g, t, s, b, Q)
           /\ t > 0 => IsHistory(g)
           /\ NoOp(t) \in Entries(h)
<1>1. /\ g.server = h.server /\ g.first = h.first /\ g.led = h.led \cup {t}
      /\ g.ballot = h.ballot /\ g.commits = h.commits
      /\ g.leader = [h.leader EXCEPT ![t] = s] /\ g.line = [h.line EXCEPT ![t] = Append(b, NoOp(t))]
      /\ g.base = [h.base EXCEPT ![t] = Len(b)] /\ g.quorum = [h.quorum EXCEPT ![t] = Q]
  BY DEF Elected
<1>2. Entries(g) = Entries(h) /\ NoOp(t) \in Entries(h)
  BY <1>1 DEF Entries, NoOp
<1>3. Append(b, NoOp(t)) \in Seq(Entries(h)) /\ Len(b) \in Nat
  BY <1>2, Appended
<1>4. /\ h.leader \in [Nat -> h.server] /\ h.line \in [Nat -> Seq(Entries(h))] /\ h.base \in [Nat -> Nat]
      /\ h.quorum \in [Nat -> SUBSET h.server]
  BY DEF IsHistory
<1>5. /\ g.leader \in [Nat -> g.server] /\ g.line \in [Nat -> Seq(Entries(g))] /\ g.base \in [Nat -> Nat]
      /\ g.quorum \in [Nat -> SUBSET g.server]
  <2>1. [h.leader EXCEPT ![t] = s] \in [Nat -> h.server]
    BY <1>4
  <2>2. [h.line EXCEPT ![t] = Append(b, NoOp(t))] \in [Nat -> Seq(Entries(h))]
    BY <1>3, <1>4
  <2>3. [h.base EXCEPT ![t] = Len(b)] \in [Nat -> Nat]
    BY <1>3, <1>4
  <2>4. [h.quorum EXCEPT ![t] = Q] \in [Nat -> SUBSET h.server]
    BY <1>4
  <2> QED
    BY <1>1, <1>2, <2>1, <2>2, <2>3, <2>4, Zenon
<1>6. g.leader[t] = s /\ g.line[t] = Append(b, NoOp(t)) /\ g.base[t] = Len(b) /\ g.quorum[t] = Q
  BY <1>1, <1>4
<1>7. \A u \in Nat : u # t => /\ g.leader[u] = h.leader[u] /\ g.line[u] = h.line[u]
                              /\ g.base[u] = h.base[u] /\ g.quorum[u] = h.quorum[u]
  BY <1>1, <1>4
<1>8. t > 0 => g.led \in SUBSET (Nat \ {0})
  <2>1. h.led \in SUBSET (Nat \ {0})
    BY DEF IsHistory
  <2> QED
    BY <1>1, <2>1
<1>9. t > 0 => IsHistory(g)
  BY <1>1, <1>2, <1>5, <1>8 DEF IsHistory
<1>10. ElectedAs(h, g, t, s, b, Q)
  BY <1>1, <1>6, <1>7 DEF ElectedAs
<1> QED
  BY <1>2, <1>9, <1>10

LEMMA ElectedIsHistory ==
    ASSUME NEW h, HistoryOK(h), NEW t \in Nat, t > 0, t \notin h.led, NEW s \in h.server,
           NEW b \in Seq(Entries(h)), OnLines(h, b), \A j \in DOMAIN b : b[j].term < t,
           NEW Q \in SUBSET h.server, IsMajority(Q, MembersAt(h, b, Len(b))),
           \A v \in Q : IsUpToDate(h.ballot[t][v], Len(b), LastTerm(b)),
           \A c \in h.commits : c.term < t => Has(b, c.index, c.term),
           NEW g, g = Elected(h, t, s, b, Q)
    PROVE  HistoryOK(g) /\ Grown(h, g)
<1>1. /\ g.server = h.server /\ g.first = h.first /\ g.led = h.led \cup {t}
      /\ g.ballot = h.ballot /\ g.commits = h.commits
      /\ g.leader[t] = s /\ g.line[t] = Append(b, NoOp(t)) /\ g.base[t] = Len(b) /\ g.quorum[t] = Q
      /\ \A u \in Nat : u # t => /\ g.leader[u] = h.leader[u] /\ g.line[u] = h.line[u]
                                 /\ g.base[u] = h.base[u] /\ g.quorum[u] = h.quorum[u]
      /\ IsHistory(g) /\ NoOp(t) \in Entries(h)
  <2>1. IsHistory(h)
    BY DEF HistoryOK
  <2>2. ElectedAs(h, g, t, s, b, Q) /\ (t > 0 => IsHistory(g)) /\ NoOp(t) \in Entries(h)
    BY <2>1, ElectedFields
  <2> QED
    BY <2>2 DEF ElectedAs
<1>2. \A u \in h.led : u \in Nat /\ u # t /\ Len(h.line[u]) \in Nat
  BY LineFacts
<1>3. Grown(h, g)
  BY <1>1, <1>2 DEF Grown
<1>0. /\ KeepsLines(h, g) /\ KeepsBallots(h, g) /\ KeepsChanges(h, g)
      /\ KeepsCommits(h, g) /\ KeepsComplete(h, g)
  BY <1>1, <1>3, GrownKeeps
<1> DEFINE x == Append(b, NoOp(t))
           n == Len(b)
<1>4. /\ x \in Seq(Entries(h)) /\ Len(x) = n + 1 /\ n \in Nat
      /\ \A j \in 1..n : x[j] = b[j]
      /\ x[n + 1] = NoOp(t) /\ x[n + 1].term = t /\ x[n + 1].members = {}
      /\ DOMAIN x = 1..(n + 1) /\ DOMAIN b = 1..n
  <2>1. /\ x \in Seq(Entries(h)) /\ Len(x) = n + 1 /\ n \in Nat
        /\ \A j \in 1..n : x[j] = b[j]
        /\ x[n + 1] = NoOp(t)
    BY <1>1, Appended
  <2>2. NoOp(t).term = t /\ NoOp(t).members = {}
    BY DEF NoOp
  <2> QED
    BY <2>1, <2>2
<1> HIDE DEF x, n
<1>5. g.line[t] = x /\ g.base[t] = n
  BY <1>1 DEF x, n
<1>6. OnLines(g, b)
  BY <1>1, <1>3, GrownOnLines
<1>7. LinesOK(g)
  <2>1. ASSUME NEW u \in h.led
        PROVE  /\ g.base[u] < Len(g.line[u])
               /\ \A i \in DOMAIN g.line[u] : IF i > g.base[u] THEN g.line[u][i].term = u
                                                               ELSE g.line[u][i].term < u
               /\ OnLines(g, g.line[u])
    <3>1. g.line[u] = h.line[u] /\ h.line[u] \in Seq(Entries(h)) /\ OnLines(h, h.line[u])
      BY <1>1, <1>2, LineFacts
    <3>2. OnLines(g, h.line[u])
      BY <1>1, <1>3, <3>1, GrownOnLines
    <3>3. DOMAIN g.line[u] = 1..Len(h.line[u])
      BY <3>1
    <3>4. /\ g.base[u] < Len(g.line[u])
          /\ \A i \in 1..Len(h.line[u]) : IF i > g.base[u] THEN g.line[u][i].term = u
                                                           ELSE g.line[u][i].term < u
      BY <1>0 DEF KeepsLines
    <3> QED
      BY <3>1, <3>2, <3>3, <3>4
  <2>2. /\ n < Len(x)
        /\ \A i \in DOMAIN x : IF i > n THEN x[i].term = t ELSE x[i].term < t
    <3>1. \A i \in DOMAIN x : i = n + 1 \/ (i \in 1..n /\ ~(i > n))
      BY <1>4
    <3> QED
      BY <1>4, <3>1
  <2>3. OnLines(g, x)
    <3>1. SUFFICES ASSUME NEW i \in DOMAIN x
                   PROVE  /\ x[i].term \in g.led /\ g.base[x[i].term] < i /\ i <= Len(g.line[x[i].term])
                          /\ \A j \in 1..i : x[j] = g.line[x[i].term][j]
      BY DEF OnLines
    <3>2. CASE i = n + 1
      BY <1>1, <1>4, <1>5, <3>2
    <3>3. CASE i \in 1..n
      <4>1. i \in DOMAIN b /\ x[i] = b[i] /\ \A j \in 1..i : x[j] = b[j]
        BY <1>4, <3>3
      <4> QED
        BY <1>6, <4>1 DEF OnLines
    <3> QED
      BY <1>4, <3>2, <3>3
  <2> QED
    BY <1>1, <1>5, <2>1, <2>2, <2>3 DEF LinesOK
<1>8. BallotsOK(g)
  <2>1. ASSUME NEW u \in Nat, NEW v \in g.server PROVE OnLines(g, g.ballot[u][v])
    <3>1. h.ballot[u][v] \in Seq(Entries(h)) /\ OnLines(h, h.ballot[u][v])
      BY <1>1, BallotFacts
    <3> QED
      BY <1>1, <1>3, <3>1, GrownOnLines
  <2>2. MembersAt(g, x, n) = MembersAt(h, b, n)
    <3>1. MembersAt(h, x, n) = MembersAt(h, b, n)
      BY <1>4, SameChanges
    <3> QED
      BY <1>1, <3>1 DEF MembersAt
  <2>3. TermAt(x, n) = LastTerm(b)
    BY <1>4 DEF LastTerm, TermAt, NO_INDEX, n
  <2>4. /\ IsMajority(g.quorum[t], MembersAt(g, x, n))
        /\ \A v \in g.quorum[t] : IsUpToDate(g.ballot[t][v], n, TermAt(x, n))
    BY <1>1, <2>2, <2>3 DEF n
  <2>5. \A u \in h.led :
         /\ IsMajority(g.quorum[u], MembersAt(g, g.line[u], g.base[u]))
         /\ \A v \in g.quorum[u] : IsUpToDate(g.ballot[u][v], g.base[u], TermAt(g.line[u], g.base[u]))
    BY <1>0 DEF KeepsBallots
  <2> QED
    BY <1>1, <1>5, <2>1, <2>4, <2>5 DEF BallotsOK
<1>9. ChangesOK(g)
  <2>1. ASSUME NEW u \in h.led, NEW i \in (g.base[u] + 1)..Len(g.line[u]), g.line[u][i].members # {}
        PROVE  /\ OneApart(g.line[u][i].members, MembersAt(g, g.line[u], i - 1))
               /\ \E c \in g.commits : Supports(g, c, u, i)
    <3>1. i \in (h.base[u] + 1)..Len(h.line[u])
      BY <1>1, <1>2
    <3> QED
      BY <1>0, <2>1, <3>1 DEF KeepsChanges
  <2>2. ASSUME NEW i \in (n + 1)..Len(x) PROVE x[i].members = {}
    BY <1>4
  <2> QED
    BY <1>1, <1>5, <2>1, <2>2 DEF ChangesOK
<1>10. CommitsOK(g)
  BY <1>0, <1>1 DEF CommitsOK, KeepsCommits
<1>11. Complete(g)
  <2>1. ASSUME NEW c \in h.commits, t > c.term PROVE Has(x, c.index, c.term)
    <3>1. c.term \in Nat
      BY CommitFacts
    <3>2. Has(b, c.index, c.term)
      BY <2>1, <3>1
    <3> QED
      BY <1>4, <3>2 DEF Has
  <2>2. \A c \in h.commits : \A u \in h.led : u > c.term => Has(g.line[u], c.index, c.term)
    BY <1>0 DEF KeepsComplete
  <2> QED
    BY <1>1, <1>5, <2>1, <2>2 DEF Complete
<1> QED
  BY <1>1, <1>3, <1>7, <1>8, <1>9, <1>10, <1>11 DEF HistoryOK

LEMMA ProposedIsHistory ==
    ASSUME NEW h, HistoryOK(h), NEW t \in h.led, NEW e \in Entries(h), e.term = t,
           e.members # {} => /\ OneApart(e.members, MembersAt(h, h.line[t], Len(h.line[t])))
                             /\ \E c : Supports(h, c, t, Len(h.line[t]) + 1),
           NEW g, g = Proposed(h, t, e)
    PROVE  /\ HistoryOK(g) /\ Grown(h, g)
           /\ g.server = h.server /\ g.first = h.first /\ g.led = h.led /\ g.leader = h.leader
           /\ g.base = h.base /\ g.quorum = h.quorum /\ g.ballot = h.ballot /\ g.commits = h.commits
           /\ g.line[t] = Append(h.line[t], e)
           /\ \A u \in Nat : u # t => g.line[u] = h.line[u]
<1>1. /\ g.server = h.server /\ g.first = h.first /\ g.led = h.led /\ g.leader = h.leader
      /\ g.base = h.base /\ g.quorum = h.quorum /\ g.ballot = h.ballot /\ g.commits = h.commits
      /\ g.line = [h.line EXCEPT ![t] = Append(h.line[t], e)]
  BY DEF Proposed
<1> DEFINE x == Append(h.line[t], e)
           n == Len(h.line[t])
<1>2. t \in Nat /\ h.line[t] \in Seq(Entries(h)) /\ OnLines(h, h.line[t]) /\ h.base[t] \in Nat /\ h.base[t] < n /\ n \in Nat
  BY LineFacts
<1>3. /\ x \in Seq(Entries(h)) /\ Len(x) = n + 1
      /\ \A j \in 1..n : x[j] = h.line[t][j]
      /\ x[n + 1] = e /\ DOMAIN x = 1..(n + 1)
  BY <1>2, Appended
<1>4. h.line \in [Nat -> Seq(Entries(h))]
  BY DEF HistoryOK, IsHistory
<1> HIDE DEF x, n
<1>5. g.line[t] = x /\ \A u \in Nat : u # t => g.line[u] = h.line[u]
  BY <1>1, <1>2, <1>4 DEF x
<1>6. IsHistory(g)
  <2>1. [h.line EXCEPT ![t] = Append(h.line[t], e)] \in [Nat -> Seq(Entries(h))]
    BY <1>3, <1>4 DEF x
  <2>2. Entries(g) = Entries(h)
    BY <1>1 DEF Entries
  <2>3. g.line \in [Nat -> Seq(Entries(g))]
    BY <1>1, <2>1, <2>2, Zenon
  <2> QED
    BY <1>1, <2>2, <2>3 DEF HistoryOK, IsHistory
<1>7. Grown(h, g)
  <2>1. ASSUME NEW u \in h.led
        PROVE  Len(h.line[u]) <= Len(g.line[u]) /\ \A j \in 1..Len(h.line[u]) : g.line[u][j] = h.line[u][j]
    <3>1. u \in Nat /\ Len(h.line[u]) \in Nat
      BY LineFacts
    <3>2. CASE u = t
      BY <1>2, <1>3, <1>5, <3>2 DEF n
    <3>3. CASE u # t
      BY <1>5, <3>1, <3>3
    <3> QED
      BY <3>2, <3>3
  <2> QED
    BY <1>1, <2>1 DEF Grown
<1>8. /\ KeepsLines(h, g) /\ KeepsBallots(h, g) /\ KeepsChanges(h, g)
      /\ KeepsCommits(h, g) /\ KeepsComplete(h, g)
  BY <1>6, <1>7, GrownKeeps
<1>9. LinesOK(g)
  <2>1. ASSUME NEW u \in h.led
        PROVE  /\ g.base[u] < Len(g.line[u])
               /\ \A i \in DOMAIN g.line[u] : IF i > g.base[u] THEN g.line[u][i].term = u
                                                               ELSE g.line[u][i].term < u
               /\ OnLines(g, g.line[u])
    <3>1. /\ g.base[u] < Len(g.line[u])
          /\ \A i \in 1..Len(h.line[u]) : IF i > g.base[u] THEN g.line[u][i].term = u
                                                           ELSE g.line[u][i].term < u
      BY <1>8 DEF KeepsLines
    <3>2. u \in Nat /\ h.line[u] \in Seq(Entries(h)) /\ OnLines(h, h.line[u])
      BY LineFacts
    <3>3. OnLines(g, h.line[u])
      BY <1>6, <1>7, <3>2, GrownOnLines
    <3>4. CASE u # t
      <4>1. g.line[u] = h.line[u] /\ DOMAIN g.line[u] = 1..Len(h.line[u])
        BY <1>5, <3>2, <3>4
      <4> QED
        BY <3>1, <3>3, <4>1
    <3>5. CASE u = t
      <4>1. ASSUME NEW i \in DOMAIN x
            PROVE  IF i > g.base[t] THEN x[i].term = t ELSE x[i].term < t
        <5>1. i \in 1..n \/ (i = n + 1 /\ i > g.base[t])
          BY <1>1, <1>2, <1>3
        <5> QED
          BY <1>3, <1>5, <3>1, <3>5, <5>1 DEF n
      <4>2. OnLines(g, x)
        <5>1. SUFFICES ASSUME NEW i \in DOMAIN x
                       PROVE  /\ x[i].term \in g.led /\ g.base[x[i].term] < i /\ i <= Len(g.line[x[i].term])
                              /\ \A j \in 1..i : x[j] = g.line[x[i].term][j]
          BY DEF OnLines
        <5>2. CASE i = n + 1
          BY <1>1, <1>2, <1>3, <1>5, <5>2
        <5>3. CASE i \in 1..n
          <6>1. i \in DOMAIN h.line[t] /\ x[i] = h.line[t][i] /\ \A j \in 1..i : x[j] = h.line[t][j]
            BY <1>2, <1>3, <5>3 DEF n
          <6> QED
            BY <3>3, <3>5, <6>1 DEF OnLines
        <5> QED
          BY <1>2, <1>3, <5>2, <5>3
      <4> QED
        BY <1>5, <3>1, <3>5, <4>1, <4>2
    <3> QED
      BY <3>4, <3>5
  <2> QED
    BY <1>1, <2>1 DEF LinesOK
<1>10. BallotsOK(g)
  <2>1. ASSUME NEW u \in Nat, NEW v \in g.server PROVE OnLines(g, g.ballot[u][v])
    <3>1. h.ballot[u][v] \in Seq(Entries(h)) /\ OnLines(h, h.ballot[u][v])
      BY <1>1, BallotFacts
    <3> QED
      BY <1>1, <1>6, <1>7, <3>1, GrownOnLines
  <2> QED
    BY <1>1, <1>8, <2>1 DEF BallotsOK, KeepsBallots
<1>11. ChangesOK(g)
  <2>1. SUFFICES ASSUME NEW u \in h.led, NEW i \in (g.base[u] + 1)..Len(g.line[u]), g.line[u][i].members # {}
                 PROVE  /\ OneApart(g.line[u][i].members, MembersAt(g, g.line[u], i - 1))
                        /\ \E c \in g.commits : Supports(g, c, u, i)
    BY <1>1 DEF ChangesOK
  <2>2. u \in Nat /\ Len(h.line[u]) \in Nat /\ h.base[u] \in Nat
    BY LineFacts
  <2>3. CASE i <= Len(h.line[u])
    <3>1. i \in (h.base[u] + 1)..Len(h.line[u])
      BY <1>1, <2>2, <2>3
    <3> QED
      BY <1>8, <2>1, <3>1 DEF KeepsChanges
  <2>4. CASE i > Len(h.line[u])
    <3>1. u = t
      BY <1>1, <1>5, <2>2, <2>4
    <3>2. i = n + 1 /\ i - 1 = n
      BY <1>1, <1>2, <1>3, <1>5, <2>2, <2>4, <3>1 DEF n
    <3>3. g.line[u][i] = e
      BY <1>3, <1>5, <3>1, <3>2
    <3>4. MembersAt(g, g.line[t], n) = MembersAt(h, h.line[t], n)
      BY <1>2, <1>7, GrownMembers DEF n
    <3>5. PICK c : Supports(h, c, t, n + 1)
      BY <2>1, <3>3 DEF n
    <3>6. Supports(g, c, t, n + 1)
      BY <1>2, <1>7, <3>5, GrownSupports DEF n
    <3>7. c \in g.commits
      BY <3>6 DEF Supports
    <3>8. OneApart(e.members, MembersAt(h, h.line[t], n))
      BY <2>1, <3>3 DEF n
    <3> QED
      BY <3>1, <3>2, <3>3, <3>4, <3>6, <3>7, <3>8
  <2> QED
    BY <1>1, <2>2, <2>3, <2>4
<1>12. CommitsOK(g) /\ Complete(g)
  BY <1>1, <1>8 DEF CommitsOK, KeepsCommits, Complete, KeepsComplete
<1> QED
  BY <1>1, <1>5, <1>6, <1>7, <1>9, <1>10, <1>11, <1>12 DEF HistoryOK, x

LEMMA MoreCommitsGrow ==
    ASSUME NEW h, NEW g, \A u \in h.led : Len(h.line[u]) \in Nat,
           g.server = h.server, g.first = h.first, g.led = h.led, g.leader = h.leader,
           g.line = h.line, g.base = h.base, g.quorum = h.quorum, g.ballot = h.ballot,
           h.commits \subseteq g.commits
    PROVE  Grown(h, g)
<1>1. \A u \in h.led : Len(h.line[u]) <= Len(g.line[u])
  OBVIOUS
<1> QED
  BY <1>1, Zenon DEF Grown

LEMMA CommittedIsHistory ==
    ASSUME NEW h, HistoryOK(h), NEW t \in h.led, NEW k \in (h.base[t] + 1)..Len(h.line[t]),
           NEW R \in SUBSET h.server, IsMajority(R, MembersAt(h, h.line[t], Len(h.line[t]))),
           \A d \in h.commits : d.term = t => d.index < k,
           \A z \in h.led : z > t => Has(h.line[z], k, t),
           NEW c, c = [term |-> t, index |-> k, length |-> Len(h.line[t]), quorum |-> R],
           NEW g, g = Committed(h, c)
    PROVE  /\ HistoryOK(g) /\ Grown(h, g)
           /\ g.server = h.server /\ g.first = h.first /\ g.led = h.led /\ g.leader = h.leader
           /\ g.line = h.line /\ g.base = h.base /\ g.quorum = h.quorum /\ g.ballot = h.ballot
           /\ g.commits = h.commits \cup {c}
<1>1. /\ g.server = h.server /\ g.first = h.first /\ g.led = h.led /\ g.leader = h.leader
      /\ g.line = h.line /\ g.base = h.base /\ g.quorum = h.quorum /\ g.ballot = h.ballot
      /\ g.commits = h.commits \cup {c}
  BY DEF Committed
<1> DEFINE n == Len(h.line[t])
<1>2. t \in Nat /\ h.line[t] \in Seq(Entries(h)) /\ h.base[t] \in Nat /\ n \in Nat
  BY LineFacts
<1>3. /\ c.term = t /\ c.index = k /\ c.length = n /\ c.quorum = R /\ k \in Nat
      /\ c \in [term : Nat, index : Nat, length : Nat, quorum : SUBSET h.server]
  BY <1>2
<1>4. Entries(g) = Entries(h)
  BY <1>1 DEF Entries
<1>5. IsHistory(g)
  <2>1. h.commits \in SUBSET [term : Nat, index : Nat, length : Nat, quorum : SUBSET h.server]
    BY DEF HistoryOK, IsHistory
  <2>2. g.commits \in SUBSET [term : Nat, index : Nat, length : Nat, quorum : SUBSET g.server]
    BY <1>1, <1>3, <2>1
  <2> QED
    BY <1>1, <1>4, <2>2 DEF HistoryOK, IsHistory
<1>6. Grown(h, g)
  <2>1. \A u \in h.led : Len(h.line[u]) \in Nat
    BY LineFacts
  <2> QED
    BY <1>1, <2>1, MoreCommitsGrow
<1>7. /\ KeepsLines(h, g) /\ KeepsBallots(h, g) /\ KeepsChanges(h, g)
      /\ KeepsCommits(h, g) /\ KeepsComplete(h, g)
  BY <1>5, <1>6, GrownKeeps
<1>8. LinesOK(g) /\ BallotsOK(g)
  <2>1. \A x : OnLines(h, x) => OnLines(g, x)
    BY <1>1 DEF OnLines
  <2>2. LinesOK(g)
    BY <1>1, <2>1 DEF HistoryOK, LinesOK
  <2>3. \A u \in Nat : \A v \in g.server : OnLines(g, g.ballot[u][v])
    BY <1>1, <2>1 DEF HistoryOK, BallotsOK
  <2> QED
    BY <1>1, <1>7, <2>2, <2>3 DEF BallotsOK, KeepsBallots
<1>9. ChangesOK(g)
  BY <1>1, <1>7 DEF ChangesOK, KeepsChanges
<1>10. CommitsOK(g)
  <2>1. /\ t \in g.led /\ g.base[t] < k /\ k <= n /\ n <= Len(g.line[t])
        /\ IsMajority(R, MembersAt(g, g.line[t], n))
    <3>1. MembersAt(g, g.line[t], n) = MembersAt(h, h.line[t], n)
      BY <1>2, <1>6, GrownMembers
    <3> QED
      BY <1>1, <1>2, <1>3, <3>1
  <2>2. ASSUME NEW i \in (g.base[t] + 1)..n, g.line[t][i].members # {}
        PROVE  \E d \in g.commits : Supports(g, d, t, i) /\ d.index < k
    <3>1. i \in (h.base[t] + 1)..Len(h.line[t]) /\ i \in 1..(Len(h.line[t]) + 1)
      BY <1>1, <1>2
    <3>2. PICK d \in h.commits : Supports(h, d, t, i)
      BY <1>1, <2>2, <3>1 DEF HistoryOK, ChangesOK
    <3>3. d.term = t
      BY <3>2 DEF Supports
    <3>4. Supports(g, d, t, i)
      BY <1>6, <3>1, <3>2, GrownSupports
    <3> QED
      BY <1>1, <3>3, <3>4
  <2>3. \A d \in g.commits : d \in h.commits \/ d = c
    BY <1>1
  <2>4. /\ c.term \in g.led /\ g.base[c.term] < c.index /\ c.index <= c.length
        /\ c.length <= Len(g.line[c.term])
        /\ IsMajority(c.quorum, MembersAt(g, g.line[c.term], c.length))
        /\ \A i \in (g.base[c.term] + 1)..c.length : g.line[c.term][i].members # {} =>
             \E d \in g.commits : Supports(g, d, c.term, i) /\ d.index < c.index
    BY <1>3, <2>1, <2>2
  <2> QED
    BY <1>7, <2>3, <2>4 DEF CommitsOK, KeepsCommits
<1>11. Complete(g)
  BY <1>1, <1>3, <1>7 DEF Complete, KeepsComplete
<1> QED
  BY <1>1, <1>5, <1>6, <1>8, <1>9, <1>10, <1>11 DEF HistoryOK

LEMMA VotedIsHistory ==
    ASSUME NEW h, HistoryOK(h), NEW t \in Nat, NEW v \in h.server, t \in h.led => v \notin h.quorum[t],
           NEW x \in Seq(Entries(h)), OnLines(h, x), NEW g, g = Voted(h, t, v, x)
    PROVE  /\ HistoryOK(g) /\ Grown(h, g)
           /\ g.server = h.server /\ g.first = h.first /\ g.led = h.led /\ g.leader = h.leader
           /\ g.line = h.line /\ g.base = h.base /\ g.quorum = h.quorum /\ g.commits = h.commits
           /\ g.ballot[t][v] = x
           /\ \A u \in Nat : \A w \in h.server : u # t \/ w # v => g.ballot[u][w] = h.ballot[u][w]
<1>1. /\ g.server = h.server /\ g.first = h.first /\ g.led = h.led /\ g.leader = h.leader
      /\ g.line = h.line /\ g.base = h.base /\ g.quorum = h.quorum /\ g.commits = h.commits
      /\ g.ballot = [h.ballot EXCEPT ![t] = [h.ballot[t] EXCEPT ![v] = x]]
  BY DEF Voted
<1>2. h.ballot \in [Nat -> [h.server -> Seq(Entries(h))]]
  BY DEF HistoryOK, IsHistory
<1>3. h.ballot[t] \in [h.server -> Seq(Entries(h))]
  BY <1>2
<1>4. PICK f : f = [h.ballot[t] EXCEPT ![v] = x]
  OBVIOUS
<1>5. f \in [h.server -> Seq(Entries(h))] /\ f[v] = x /\ \A w \in h.server : w # v => f[w] = h.ballot[t][w]
  BY <1>3, <1>4
<1>6. g.ballot = [h.ballot EXCEPT ![t] = f]
  BY <1>1, <1>4
<1>7. /\ [h.ballot EXCEPT ![t] = f] \in [Nat -> [h.server -> Seq(Entries(h))]]
      /\ [h.ballot EXCEPT ![t] = f][t] = f
      /\ \A u \in Nat : u # t => [h.ballot EXCEPT ![t] = f][u] = h.ballot[u]
  BY <1>2, <1>5
<1>8. /\ g.ballot \in [Nat -> [h.server -> Seq(Entries(h))]] /\ g.ballot[t] = f
      /\ \A u \in Nat : u # t => g.ballot[u] = h.ballot[u]
  BY <1>6, <1>7, Zenon
<1>9. /\ g.ballot[t][v] = x
      /\ \A u \in Nat : \A w \in h.server : u # t \/ w # v => g.ballot[u][w] = h.ballot[u][w]
  BY <1>5, <1>8
<1>10. Entries(g) = Entries(h)
  BY <1>1 DEF Entries
<1>11. IsHistory(g)
  BY <1>1, <1>8, <1>10 DEF HistoryOK, IsHistory
<1>12. Grown(h, g)
  <2>1. \A u \in h.led : u \in Nat /\ Len(h.line[u]) \in Nat /\ h.quorum[u] \in SUBSET h.server
    BY LineFacts
  <2>2. \A u \in h.led : \A w \in h.quorum[u] : g.ballot[u][w] = h.ballot[u][w]
    BY <1>9, <2>1
  <2> QED
    BY <1>1, <2>1, <2>2 DEF Grown
<1>13. /\ KeepsLines(h, g) /\ KeepsBallots(h, g) /\ KeepsChanges(h, g)
       /\ KeepsCommits(h, g) /\ KeepsComplete(h, g)
  BY <1>11, <1>12, GrownKeeps
<1>14. \A y : OnLines(h, y) => OnLines(g, y)
  BY <1>1 DEF OnLines
<1>15. LinesOK(g)
  BY <1>1, <1>14 DEF HistoryOK, LinesOK
<1>16. BallotsOK(g)
  <2>1. ASSUME NEW u \in Nat, NEW w \in g.server PROVE OnLines(g, g.ballot[u][w])
    <3>1. OnLines(h, h.ballot[u][w])
      BY <1>1 DEF HistoryOK, BallotsOK
    <3>2. g.ballot[u][w] = x \/ g.ballot[u][w] = h.ballot[u][w]
      BY <1>1, <1>9
    <3> QED
      BY <1>14, <3>1, <3>2
  <2> QED
    BY <1>1, <1>13, <2>1 DEF BallotsOK, KeepsBallots
<1>17. ChangesOK(g) /\ CommitsOK(g) /\ Complete(g)
  BY <1>1, <1>13 DEF ChangesOK, KeepsChanges, CommitsOK, KeepsCommits, Complete, KeepsComplete
<1> QED
  BY <1>1, <1>9, <1>11, <1>12, <1>15, <1>16, <1>17 DEF HistoryOK

-----------------------------------------------------------------------------
(* The servers, as the history explains them.                              *)

(* Nobody asks for fewer than two members. *)
AtLeastTwo == \A e \in Settings : e.minMembers >= 2 /\ Cardinality(e.initialMembers) >= 2

TypesOK(h) ==
    /\ {"server", "initialMembers", "minMembers", "restarts"} \subseteq DOMAIN env
    /\ env.server = h.server /\ env.initialMembers = h.first /\ env.minMembers \in Nat
    /\ Nobody \notin h.server
    /\ term \in [h.server -> Nat]
    /\ votedFor \in [h.server -> h.server \cup {Nobody}]
    /\ role \in [h.server -> {"Follower", "Candidate", "Leader"}]
    /\ votes \in [h.server -> SUBSET h.server]
    /\ log \in [h.server -> Seq(Entries(h))]
    /\ matchIndex \in [h.server -> [h.server -> Nat]]
    /\ commitIndex \in [h.server -> Nat]

LeadersOK(h) == \A s \in h.server : role[s] = "Leader" =>
    /\ term[s] \in h.led /\ h.leader[term[s]] = s /\ h.line[term[s]] = log[s]
    /\ \A c \in h.commits : c.term = term[s] => c.index <= commitIndex[s]

LogsOK(h) == \A s \in h.server :
    /\ OnLines(h, log[s])
    /\ \A i \in DOMAIN log[s] : log[s][i].term <= term[s]
    /\ role[s] = "Candidate" => \A i \in DOMAIN log[s] : log[s][i].term < term[s]

VotersOK(h) == \A t \in h.led :
    /\ term[h.leader[t]] >= t
    /\ \A v \in h.quorum[t] : term[v] >= t /\ (term[v] = t => votedFor[v] = h.leader[t])

CandidatesOK(h) == \A c \in h.server : role[c] = "Candidate" =>
    /\ term[c] > 0 /\ (term[c] \in h.led => h.leader[term[c]] # c)
    /\ \A v \in votes[c] :
         /\ term[v] >= term[c]
         /\ term[v] = term[c] => votedFor[v] = c
         /\ IsUpToDate(h.ballot[term[c]][v], Len(log[c]), LastTerm(log[c]))

(* No vote is counted twice in a term. *)
RivalsOK(h) == \A c \in h.server : role[c] = "Candidate" =>
    /\ term[c] \in h.led => votes[c] \cap h.quorum[term[c]] = {}
    /\ \A d \in h.server : role[d] = "Candidate" /\ d # c /\ term[d] = term[c] =>
          votes[c] \cap votes[d] = {}

(* A commit index is covered by a commitment that the log shares. *)
KnownOK(h) == \A s \in h.server :
    /\ commitIndex[s] <= Len(log[s])
    /\ commitIndex[s] > 0 => \E c \in h.commits :
         /\ c.term <= term[s] /\ commitIndex[s] <= c.index
         /\ \A j \in 1..commitIndex[s] : log[s][j] = h.line[c.term][j]

(* v, which acknowledged entry k of term t, has it still, and had it       *)
(* whenever it voted in a later term, unless a leader in between had not.  *)
Holds(h, v, k, t) ==
    /\ term[v] >= t /\ (Has(log[v], k, t) \/ Lost(h, k, t, term[v]))
    /\ \A c \in h.server : role[c] = "Candidate" /\ v \in votes[c] /\ term[c] > t =>
          Has(h.ballot[term[c]][v], k, t) \/ Lost(h, k, t, term[c])
    /\ \A z \in h.led : z > t /\ v \in h.quorum[z] =>
          Has(h.ballot[z][v], k, t) \/ Lost(h, k, t, z - 1)

QuorumsHold(h) == \A c \in h.commits : \A v \in c.quorum : Holds(h, v, c.index, c.term)

MatchesHold(h) == \A l \in h.server : role[l] = "Leader" => \A f \in h.server :
    /\ matchIndex[l][f] <= Len(log[l])
    /\ \A k \in (h.base[term[l]] + 1)..matchIndex[l][f] : Holds(h, f, k, term[l])

ChosenOK(h) ==
    /\ \A e \in chosen : \E c \in h.commits :
         e.index \in 1..c.index /\ e = [index |-> e.index, entry |-> h.line[c.term][e.index]]
    /\ \E b \in Nat : \A e \in chosen : e.index <= b

(* No membership is a single server. *)
WideOK(h) == AtLeastTwo =>
    /\ env.minMembers >= 2 /\ Cardinality(h.first) >= 2
    /\ \A s \in h.server : \A i \in DOMAIN log[s] :
         log[s][i].members # {} => Cardinality(log[s][i].members) >= 2

ServersOK(h) ==
    /\ TypesOK(h) /\ LeadersOK(h) /\ LogsOK(h) /\ VotersOK(h) /\ CandidatesOK(h)
    /\ RivalsOK(h) /\ KnownOK(h) /\ QuorumsHold(h) /\ MatchesHold(h) /\ ChosenOK(h) /\ WideOK(h)

LEMMA StateFacts ==
    ASSUME NEW h, HistoryOK(h), TypesOK(h), NEW s \in h.server
    PROVE  /\ term[s] \in Nat /\ votedFor[s] \in h.server \cup {Nobody} /\ votes[s] \in SUBSET h.server
           /\ role[s] \in {"Follower", "Candidate", "Leader"}
           /\ log[s] \in Seq(Entries(h)) /\ Len(log[s]) \in Nat
           /\ matchIndex[s] \in [h.server -> Nat] /\ commitIndex[s] \in Nat
           /\ Server = h.server /\ InitialMembers = h.first
<1>1. log[s] \in Seq(Entries(h))
  BY DEF TypesOK
<1>2. term[s] \in Nat /\ votedFor[s] \in h.server \cup {Nobody} /\ votes[s] \in SUBSET h.server /\ role[s] \in {"Follower", "Candidate", "Leader"}
  BY DEF TypesOK
<1>3. matchIndex[s] \in [h.server -> Nat] /\ commitIndex[s] \in Nat
  BY DEF TypesOK
<1> QED
  BY <1>1, <1>2, <1>3 DEF TypesOK, Server, InitialMembers

LEMMA MembersIs ==
    ASSUME NEW h, HistoryOK(h), TypesOK(h), NEW s \in h.server
    PROVE  /\ ConfigIndex(s) = ChangeIndex(log[s], Len(log[s]))
           /\ Members(s) = MembersAt(h, log[s], Len(log[s]))
<1>1. log[s] \in Seq(Entries(h)) /\ InitialMembers = h.first
  BY StateFacts
<1>2. DOMAIN log[s] = 1..Len(log[s])
  BY <1>1
<1>3. ConfigIndex(s) = ChangeIndex(log[s], Len(log[s]))
  BY <1>2, Zenon DEF ConfigIndex, ChangeIndex
<1> QED
  BY <1>1, <1>3, Zenon DEF Members, MembersAt

(* Lost is only ever lost more. *)
LEMMA LostLater ==
    ASSUME NEW h, HistoryOK(h), NEW k, NEW t, NEW z \in Nat, NEW w \in Nat, z <= w, Lost(h, k, t, z)
    PROVE  Lost(h, k, t, w)
<1>1. PICK y \in h.led : t < y /\ y <= z /\ ~Has(h.line[y], k, t)
  BY DEF Lost
<1>2. y \in Nat
  BY LineFacts
<1>3. y <= w
  BY <1>1, <1>2
<1> QED
  BY <1>1, <1>3 DEF Lost

-----------------------------------------------------------------------------
(* Steps that move no entry and count none: campaigns, votes, news of a    *)
(* later term, restarts and answers to probes.                             *)

(* The history may record another ballot, and nothing else. *)
SameLines(h, g) ==
    /\ g.server = h.server /\ g.first = h.first /\ g.led = h.led /\ g.leader = h.leader
    /\ g.line = h.line /\ g.base = h.base /\ g.quorum = h.quorum /\ g.commits = h.commits
    /\ \A z \in h.led : \A v \in h.quorum[z] : g.ballot[z][v] = h.ballot[z][v]

(* v has no vote left in c's term once it has given it to c.               *)
IsFirstVote(h, c, v) ==
    /\ term'[c] \in h.led => v \notin h.quorum[term'[c]]
    /\ \A d \in h.server : role[d] = "Candidate" /\ d # c /\ term[d] = term'[c] => v \notin votes[d]

(* c counts v's vote after the step, as it did, or for v's log as it is.   *)
Counts(h, g, c, v) ==
    /\ term'[v] >= term'[c]
    /\ term'[v] = term'[c] => votedFor'[v] = c
    /\ IsUpToDate(g.ballot[term'[c]][v], Len(log[c]), LastTerm(log[c]))
    /\ \/ /\ role[c] = "Candidate" /\ v \in votes[c] /\ term[c] = term'[c]
          /\ g.ballot[term'[c]][v] = h.ballot[term'[c]][v]
       \/ /\ term[v] <= term'[c] /\ term'[v] = term'[c] /\ IsFirstVote(h, c, v)
          /\ g.ballot[term'[c]][v] = log[v]

Campaigns(h, g, c) ==
    /\ term'[c] > 0 /\ (term'[c] \in h.led => h.leader[term'[c]] # c)
    /\ \A i \in DOMAIN log[c] : log[c][i].term < term'[c]
    /\ \A v \in votes'[c] : Counts(h, g, c, v)

Calm(h, g) ==
    /\ TypesOK(h)' /\ env'.minMembers = env.minMembers
    /\ UNCHANGED <<log, matchIndex, chosen>>
    /\ \A s \in h.server :
         /\ term'[s] >= term[s]
         /\ term'[s] = term[s] => votedFor'[s] = votedFor[s] \/ votedFor[s] = Nobody
         /\ commitIndex'[s] \in {0, commitIndex[s]}
         /\ role'[s] = "Leader" => /\ role[s] = "Leader" /\ term'[s] = term[s]
                                   /\ commitIndex'[s] = commitIndex[s]
         /\ role'[s] = "Candidate" => Campaigns(h, g, s)

LEMMA CalmHolds ==
    ASSUME NEW h, HistoryOK(h), TypesOK(h), NEW g, SameLines(h, g), Calm(h, g),
           NEW v \in h.server, NEW k, NEW t \in Nat, Holds(h, v, k, t)
    PROVE  Holds(g, v, k, t)'
<1>1. /\ term[v] \in Nat /\ term'[v] \in Nat /\ term'[v] >= term[v] /\ log' = log
  BY DEF Calm, TypesOK
<1>2. \A z : Lost(h, k, t, z) <=> Lost(g, k, t, z)
  BY DEF SameLines, Lost
<1>3. term'[v] >= t /\ (Has(log'[v], k, t) \/ Lost(g, k, t, term'[v]))
  <2>1. term[v] >= t /\ (Has(log[v], k, t) \/ Lost(h, k, t, term[v]))
    BY DEF Holds
  <2>2. Lost(h, k, t, term[v]) => Lost(h, k, t, term'[v])
    BY <1>1, LostLater
  <2> QED
    BY <1>1, <1>2, <2>1, <2>2
<1>4. ASSUME NEW c \in h.server, role'[c] = "Candidate", v \in votes'[c], term'[c] > t
      PROVE  Has(g.ballot[term'[c]][v], k, t) \/ Lost(g, k, t, term'[c])
  <2>1. Counts(h, g, c, v) /\ term'[c] \in Nat
    BY <1>4 DEF Calm, Campaigns, TypesOK
  <2>2. ASSUME role[c] = "Candidate", v \in votes[c], term[c] = term'[c],
               g.ballot[term'[c]][v] = h.ballot[term'[c]][v]
        PROVE  Has(g.ballot[term'[c]][v], k, t) \/ Lost(h, k, t, term'[c])
    BY <1>4, <2>2 DEF Holds
  <2>3. ASSUME term[v] <= term'[c], g.ballot[term'[c]][v] = log[v]
        PROVE  Has(g.ballot[term'[c]][v], k, t) \/ Lost(h, k, t, term'[c])
    <3>1. Lost(h, k, t, term[v]) => Lost(h, k, t, term'[c])
      BY <1>1, <2>1, <2>3, LostLater
    <3> QED
      BY <2>3, <3>1 DEF Holds
  <2> QED
    BY <1>2, <2>1, <2>2, <2>3 DEF Counts
<1>5. ASSUME NEW z \in h.led, z > t, v \in h.quorum[z]
      PROVE  Has(g.ballot[z][v], k, t) \/ Lost(g, k, t, z - 1)
  BY <1>2, <1>5 DEF SameLines, Holds
<1>6. g.server = h.server /\ g.led = h.led /\ g.quorum = h.quorum
  BY DEF SameLines
<1> QED
  BY <1>3, <1>4, <1>5, <1>6 DEF Holds

LEMMA CalmStep ==
    ASSUME NEW h, HistoryOK(h), ServersOK(h), NEW g, SameLines(h, g), Calm(h, g)
    PROVE  ServersOK(g)'
<1>1. /\ g.server = h.server /\ g.first = h.first /\ g.led = h.led /\ g.leader = h.leader
      /\ g.line = h.line /\ g.base = h.base /\ g.quorum = h.quorum /\ g.commits = h.commits
  BY DEF SameLines
<1>2. log' = log /\ matchIndex' = matchIndex /\ chosen' = chosen
  BY DEF Calm
<1>3. TypesOK(h) /\ TypesOK(h)'
  BY DEF Calm, ServersOK
<1>4. \A s \in h.server : /\ term[s] \in Nat /\ term'[s] \in Nat /\ term'[s] >= term[s]
                          /\ commitIndex[s] \in Nat /\ commitIndex'[s] \in {0, commitIndex[s]}
                          /\ log[s] \in Seq(Entries(h))
  BY <1>3 DEF Calm, TypesOK
<1>5. TypesOK(g)'
  BY <1>1, <1>3 DEF TypesOK, Entries
<1>6. LeadersOK(g)'
  BY <1>1, <1>2 DEF ServersOK, LeadersOK, Calm
<1>7. LogsOK(g)'
  <2>1. ASSUME NEW s \in h.server PROVE OnLines(g, log[s])
    <3>1. OnLines(h, log[s])
      BY DEF ServersOK, LogsOK
    <3> QED
      BY <1>1, <3>1 DEF OnLines
  <2>2. ASSUME NEW s \in h.server, NEW i \in DOMAIN log[s] PROVE log[s][i].term <= term'[s]
    <3>1. i \in 1..Len(log[s])
      BY <1>4
    <3>2. log[s][i].term \in Nat
      BY <1>4, <3>1, EntryAt
    <3> QED
      BY <1>4, <3>2 DEF ServersOK, LogsOK
  <2>3. ASSUME NEW s \in h.server, role'[s] = "Candidate", NEW i \in DOMAIN log[s]
        PROVE  log[s][i].term < term'[s]
    BY <2>3 DEF Calm, Campaigns
  <2> QED
    BY <1>1, <1>2, <2>1, <2>2, <2>3 DEF LogsOK
<1>8. VotersOK(g)'
  <2>1. ASSUME NEW t \in h.led PROVE term'[h.leader[t]] >= t
    <3>1. t \in Nat /\ h.leader[t] \in h.server
      BY LineFacts
    <3> QED
      BY <1>4, <3>1 DEF ServersOK, VotersOK
  <2>2. ASSUME NEW t \in h.led, NEW v \in h.quorum[t]
        PROVE  term'[v] >= t /\ (term'[v] = t => votedFor'[v] = h.leader[t])
    <3>1. t \in Nat /\ h.leader[t] \in h.server /\ v \in h.server
      BY LineFacts
    <3>2. term[v] >= t /\ (term[v] = t => votedFor[v] = h.leader[t])
      BY DEF ServersOK, VotersOK
    <3>3. term'[v] >= t /\ (term'[v] = t => term[v] = t /\ term'[v] = term[v])
      BY <1>4, <3>1, <3>2
    <3>4. Nobody \notin h.server
      BY <1>3 DEF TypesOK
    <3>5. term'[v] = term[v] => votedFor'[v] = votedFor[v] \/ votedFor[v] = Nobody
      BY <3>1 DEF Calm
    <3> QED
      BY <3>1, <3>2, <3>3, <3>4, <3>5
  <2> QED
    BY <1>1, <2>1, <2>2 DEF VotersOK
<1>9. CandidatesOK(g)'
  BY <1>1, <1>2 DEF Calm, Campaigns, Counts, CandidatesOK
<1>10. KnownOK(g)'
  <2>1. ASSUME NEW s \in h.server
        PROVE  /\ commitIndex'[s] <= Len(log[s])
               /\ commitIndex'[s] > 0 => commitIndex'[s] = commitIndex[s]
    BY <1>4 DEF ServersOK, KnownOK
  <2>2. ASSUME NEW s \in h.server, commitIndex'[s] > 0
        PROVE  \E c \in h.commits :
                  /\ c.term <= term'[s] /\ commitIndex'[s] <= c.index
                  /\ \A j \in 1..commitIndex'[s] : log[s][j] = h.line[c.term][j]
    <3>1. PICK c \in h.commits :
                  /\ c.term <= term[s] /\ commitIndex[s] <= c.index
                  /\ \A j \in 1..commitIndex[s] : log[s][j] = h.line[c.term][j]
      BY <2>1, <2>2 DEF ServersOK, KnownOK
    <3>2. c.term \in Nat
      BY CommitFacts
    <3>3. c.term <= term'[s]
      BY <1>4, <3>1, <3>2
    <3> QED
      BY <2>1, <2>2, <3>1, <3>3
  <2> QED
    BY <1>1, <1>2, <2>1, <2>2 DEF KnownOK
<1>11. QuorumsHold(g)'
  <2>1. ASSUME NEW c \in h.commits, NEW v \in c.quorum PROVE Holds(g, v, c.index, c.term)'
    <3>1. c.term \in Nat /\ v \in h.server
      BY CommitFacts
    <3>2. Holds(h, v, c.index, c.term)
      BY DEF ServersOK, QuorumsHold
    <3> QED
      BY <1>3, <3>1, <3>2, CalmHolds
  <2> QED
    BY <1>1, <2>1 DEF QuorumsHold
<1>12. MatchesHold(g)'
  <2>1. ASSUME NEW l \in h.server, role'[l] = "Leader", NEW f \in h.server,
               NEW k \in (h.base[term'[l]] + 1)..matchIndex[l][f]
        PROVE  Holds(g, f, k, term[l])'
    <3>1. role[l] = "Leader" /\ term'[l] = term[l]
      BY <2>1 DEF Calm
    <3>2. Holds(h, f, k, term[l])
      BY <2>1, <3>1 DEF ServersOK, MatchesHold
    <3>3. PICK t \in Nat : t = term[l]
      BY <1>4
    <3>4. Holds(g, f, k, t)'
      BY <1>3, <3>2, <3>3, CalmHolds
    <3> QED
      BY <3>1, <3>3, <3>4 DEF Holds
  <2>2. ASSUME NEW l \in h.server, role'[l] = "Leader", NEW f \in h.server
        PROVE  matchIndex[l][f] <= Len(log[l])
    BY <2>2 DEF Calm, ServersOK, MatchesHold
  <2> QED
    BY <1>1, <1>2, <2>1, <2>2 DEF MatchesHold
<1>13. ChosenOK(g)'
  BY <1>1, <1>2 DEF ServersOK, ChosenOK
<1>14. WideOK(g)'
  BY <1>1, <1>2 DEF ServersOK, WideOK, Calm
<1>15. RivalsOK(g)'
  <2>1. ASSUME NEW c \in h.server, role'[c] = "Candidate", NEW v \in votes'[c]
        PROVE  /\ term'[v] = term'[c] => votedFor'[v] = c
               /\ \/ role[c] = "Candidate" /\ v \in votes[c] /\ term[c] = term'[c]
                  \/ term'[v] = term'[c] /\ IsFirstVote(h, c, v)
    BY <2>1 DEF Calm, Campaigns, Counts
  <2>2. ASSUME NEW c \in h.server, role'[c] = "Candidate", term'[c] \in h.led,
               NEW v \in votes'[c], v \in h.quorum[term'[c]]
        PROVE  FALSE
    BY <2>1, <2>2 DEF ServersOK, RivalsOK, IsFirstVote
  <2>3. ASSUME NEW c \in h.server, role'[c] = "Candidate", NEW d \in h.server, role'[d] = "Candidate",
               d # c, term'[d] = term'[c], NEW v \in votes'[c], v \in votes'[d]
        PROVE  FALSE
    BY <2>1, <2>3 DEF ServersOK, RivalsOK, IsFirstVote
  <2> QED
    BY <1>1, <2>2, <2>3 DEF RivalsOK
<1> QED
  BY <1>5, <1>6, <1>7, <1>8, <1>9, <1>10, <1>11, <1>12, <1>13, <1>14, <1>15 DEF ServersOK

(* After the step, a history that has grown explains the servers.          *)
Explains(h, g) ==
    /\ HistoryOK(g) /\ Grown(h, g) /\ ServersOK(g)'
    /\ \/ g.led = h.led
       \/ \E s \in h.server : g.led = h.led \cup {term'[s]} /\ role'[s] = "Leader"

LEMMA GrownSelf ==
    ASSUME NEW h, HistoryOK(h)
    PROVE  Grown(h, h) /\ SameLines(h, h)
<1>1. \A t \in h.led : Len(h.line[t]) \in Nat
  BY LineFacts
<1> QED
  BY <1>1 DEF Grown, SameLines

(* A candidate that the step leaves alone, and whose voters it leaves      *)
(* alone or takes to a later term. *)
LEMMA StillCampaigns ==
    ASSUME NEW h, HistoryOK(h), ServersOK(h), NEW g, NEW c \in h.server,
           role[c] = "Candidate", term'[c] = term[c], votes'[c] = votes[c],
           \A v \in votes[c] :
             /\ term'[v] \in Nat /\ term'[v] >= term[v]
             /\ term'[v] = term[v] => votedFor'[v] = votedFor[v]
             /\ g.ballot[term[c]][v] = h.ballot[term[c]][v]
    PROVE  Campaigns(h, g, c)
<1>1. TypesOK(h)
  BY DEF ServersOK
<1>2. term[c] \in Nat /\ votes[c] \in SUBSET h.server
  BY <1>1, StateFacts
<1>3. ASSUME NEW v \in votes[c] PROVE Counts(h, g, c, v)
  <2>1. /\ term[v] >= term[c]
        /\ term[v] = term[c] => votedFor[v] = c
        /\ IsUpToDate(h.ballot[term[c]][v], Len(log[c]), LastTerm(log[c]))
    BY DEF ServersOK, CandidatesOK
  <2>2. term[v] \in Nat
    BY <1>1, <1>2, StateFacts
  <2>3. term'[v] >= term'[c] /\ (term'[v] = term'[c] => term'[v] = term[v] /\ term[v] = term[c])
    BY <1>2, <2>1, <2>2
  <2> QED
    BY <2>1, <2>3 DEF Counts
<1> QED
  BY <1>3 DEF Campaigns, ServersOK, CandidatesOK, LogsOK

LEMMA SameBallots ==
    ASSUME NEW h, HistoryOK(h), ServersOK(h), Calm(h, h)
    PROVE  Explains(h, h)
<1>1. SameLines(h, h) /\ Grown(h, h)
  BY GrownSelf
<1>2. ServersOK(h)'
  BY <1>1, CalmStep
<1> QED
  BY <1>1, <1>2 DEF Explains

LEMMA OtherBallot ==
    ASSUME NEW h, HistoryOK(h), ServersOK(h), NEW t \in Nat, NEW v \in h.server,
           t \in h.led => v \notin h.quorum[t],
           NEW g, g = Voted(h, t, v, log[v]), Calm(h, g)
    PROVE  Explains(h, g)
<1>1. TypesOK(h) /\ OnLines(h, log[v])
  BY DEF ServersOK, LogsOK
<1>2. PICK x : x = log[v]
  OBVIOUS
<1>3. x \in Seq(Entries(h)) /\ OnLines(h, x) /\ g = Voted(h, t, v, x)
  BY <1>1, <1>2, StateFacts
<1>4. /\ HistoryOK(g) /\ Grown(h, g)
      /\ g.server = h.server /\ g.first = h.first /\ g.led = h.led /\ g.leader = h.leader
      /\ g.line = h.line /\ g.base = h.base /\ g.quorum = h.quorum /\ g.commits = h.commits
  BY <1>3, VotedIsHistory
<1>5. SameLines(h, g)
  BY <1>4 DEF SameLines, Grown
<1>6. ServersOK(g)'
  BY <1>5, CalmStep
<1> QED
  BY <1>4, <1>6 DEF Explains

LEMMA HearOfTermStep ==
    ASSUME NEW h, HistoryOK(h), ServersOK(h), NEW s \in h.server, NEW p \in h.server,
           HearOfTerm(s, p)
    PROVE  Explains(h, h)
<1>1. TypesOK(h)
  BY DEF ServersOK
<1>2. \A x \in h.server : term[x] \in Nat /\ votes[x] \in SUBSET h.server
  BY <1>1, StateFacts
<1>3. TypesOK(h)'
  BY <1>1 DEF TypesOK, HearOfTerm, AdoptTerm
<1>4. /\ UNCHANGED <<log, matchIndex, chosen, commitIndex, env>>
      /\ term'[s] = term[p] /\ term[p] > term[s] /\ role'[s] = "Follower"
      /\ \A x \in h.server : x # s => /\ term'[x] = term[x] /\ votedFor'[x] = votedFor[x]
                                      /\ role'[x] = role[x] /\ votes'[x] = votes[x]
  BY <1>1 DEF TypesOK, HearOfTerm, AdoptTerm
<1>5. ASSUME NEW c \in h.server, role'[c] = "Candidate" PROVE Campaigns(h, h, c)
  <2>1. \A v \in votes[c] : /\ term'[v] \in Nat /\ term'[v] >= term[v]
                            /\ term'[v] = term[v] => votedFor'[v] = votedFor[v]
    BY <1>2, <1>4
  <2> QED
    BY <1>4, <1>5, <2>1, StillCampaigns
<1>6. Calm(h, h)
  BY <1>2, <1>3, <1>4, <1>5 DEF Calm
<1> QED
  BY <1>6, SameBallots

LEMMA RestartStep ==
    ASSUME NEW h, HistoryOK(h), ServersOK(h), NEW s \in h.server, Restart(s)
    PROVE  Explains(h, h)
<1>1. TypesOK(h)
  BY DEF ServersOK
<1>2. \A x \in h.server : term[x] \in Nat /\ votes[x] \in SUBSET h.server
  BY <1>1, StateFacts
<1>3. /\ DOMAIN env' = DOMAIN env /\ env'.server = env.server
      /\ env'.initialMembers = env.initialMembers /\ env'.minMembers = env.minMembers
  BY <1>1 DEF TypesOK, Restart
<1>4. TypesOK(h)'
  BY <1>1, <1>3 DEF TypesOK, Restart
<1>5. /\ UNCHANGED <<log, matchIndex, chosen, term, votedFor>>
      /\ role'[s] = "Follower" /\ commitIndex'[s] = 0
      /\ \A x \in h.server : x # s => /\ commitIndex'[x] = commitIndex[x]
                                      /\ role'[x] = role[x] /\ votes'[x] = votes[x]
  BY <1>1 DEF TypesOK, Restart
<1>6. ASSUME NEW c \in h.server, role'[c] = "Candidate" PROVE Campaigns(h, h, c)
  <2>1. \A v \in votes[c] : /\ term'[v] \in Nat /\ term'[v] >= term[v]
                            /\ term'[v] = term[v] => votedFor'[v] = votedFor[v]
    BY <1>2, <1>5
  <2> QED
    BY <1>5, <1>6, <2>1, StillCampaigns
<1>7. Calm(h, h)
  BY <1>2, <1>3, <1>4, <1>5, <1>6 DEF Calm
<1> QED
  BY <1>7, SameBallots

LEMMA AnswerStep ==
    ASSUME NEW h, HistoryOK(h), ServersOK(h), NEW r, NEW f \in h.server, AnswerProbe(r, f)
    PROVE  Explains(h, h)
<1>1. TypesOK(h)
  BY DEF ServersOK
<1>2. \A x \in h.server : term[x] \in Nat /\ votes[x] \in SUBSET h.server
  BY <1>1, StateFacts
<1>3. TypesOK(h)'
  BY <1>1 DEF TypesOK, AnswerProbe
<1>4. /\ UNCHANGED <<log, matchIndex, chosen, term, votedFor, commitIndex, env>>
      /\ role'[f] = "Follower"
      /\ \A x \in h.server : x # f => role'[x] = role[x] /\ votes'[x] = votes[x]
  BY <1>1 DEF TypesOK, AnswerProbe
<1>5. ASSUME NEW c \in h.server, role'[c] = "Candidate" PROVE Campaigns(h, h, c)
  <2>1. \A v \in votes[c] : /\ term'[v] \in Nat /\ term'[v] >= term[v]
                            /\ term'[v] = term[v] => votedFor'[v] = votedFor[v]
    BY <1>2, <1>4
  <2> QED
    BY <1>4, <1>5, <2>1, StillCampaigns
<1>6. Calm(h, h)
  BY <1>2, <1>3, <1>4, <1>5 DEF Calm
<1> QED
  BY <1>6, SameBallots

LEMMA UpToDateItself ==
    ASSUME NEW h, NEW x \in Seq(Entries(h))
    PROVE  IsUpToDate(x, Len(x), LastTerm(x))
<1>1. Len(x) \in Nat
  OBVIOUS
<1> QED
  BY <1>1 DEF IsUpToDate

LEMMA CampaignStep ==
    ASSUME NEW h, HistoryOK(h), ServersOK(h), NEW s \in h.server, Campaign(s)
    PROVE  \E g : Explains(h, g)
<1>1. TypesOK(h)
  BY DEF ServersOK
<1>2. \A x \in h.server : /\ term[x] \in Nat /\ votes[x] \in SUBSET h.server
                          /\ log[x] \in Seq(Entries(h))
  BY <1>1, StateFacts
<1>3. TypesOK(h)'
  BY <1>1 DEF TypesOK, Campaign
<1>4. /\ UNCHANGED <<log, matchIndex, chosen, commitIndex, env>>
      /\ term'[s] = term[s] + 1 /\ role'[s] = "Candidate" /\ votedFor'[s] = s /\ votes'[s] = {s}
      /\ \A x \in h.server : x # s => /\ term'[x] = term[x] /\ votedFor'[x] = votedFor[x]
                                      /\ role'[x] = role[x] /\ votes'[x] = votes[x]
  BY <1>1 DEF TypesOK, Campaign
<1>5. PICK t \in Nat : t = term[s] + 1
  BY <1>2
<1>6. t \in h.led => s \notin h.quorum[t] /\ h.leader[t] # s
  BY <1>2, <1>5 DEF ServersOK, VotersOK
<1>7. PICK g : g = Voted(h, t, s, log[s])
  OBVIOUS
<1>8. PICK x : x = log[s]
  OBVIOUS
<1>9. OnLines(h, x) /\ x \in Seq(Entries(h)) /\ g = Voted(h, t, s, x)
  BY <1>2, <1>7, <1>8 DEF ServersOK, LogsOK
<1>10. /\ g.ballot[t][s] = x
       /\ \A u \in Nat : \A w \in h.server : u # t \/ w # s => g.ballot[u][w] = h.ballot[u][w]
  BY <1>6, <1>9, VotedIsHistory
<1>11. Campaigns(h, g, s)
  <2>1. \A i \in DOMAIN log[s] : log[s][i].term < term'[s]
    <3>1. ASSUME NEW i \in DOMAIN log[s] PROVE log[s][i].term < term'[s]
      <4>1. i \in 1..Len(log[s])
        BY <1>2
      <4>2. log[s][i].term \in Nat
        BY <1>2, <4>1, EntryAt
      <4>3. log[s][i].term <= term[s]
        BY DEF ServersOK, LogsOK
      <4> QED
        BY <1>2, <1>4, <4>2, <4>3
    <3> QED
      BY <3>1
  <2>2. Counts(h, g, s, s)
    <3>1. IsUpToDate(x, Len(log[s]), LastTerm(log[s]))
      BY <1>8, <1>9, UpToDateItself
    <3>2. g.ballot[term'[s]][s] = x /\ term[s] <= term'[s] /\ term'[s] >= term'[s]
      BY <1>2, <1>4, <1>5, <1>10
    <3>3. \A d \in h.server : role[d] = "Candidate" /\ term[d] = term'[s] => s \notin votes[d]
      BY <1>2, <1>4 DEF ServersOK, CandidatesOK
    <3>4. IsFirstVote(h, s, s)
      BY <1>4, <1>5, <1>6, <3>3 DEF IsFirstVote
    <3> QED
      BY <1>4, <1>8, <3>1, <3>2, <3>4 DEF Counts
  <2> QED
    BY <1>2, <1>4, <1>5, <1>6, <2>1, <2>2 DEF Campaigns
<1>12. ASSUME NEW c \in h.server, role'[c] = "Candidate", c # s PROVE Campaigns(h, g, c)
  <2>1. \A v \in votes[c] : term[v] >= term[c]
    BY <1>4, <1>12 DEF ServersOK, CandidatesOK
  <2>2. \A v \in votes[c] : /\ term'[v] \in Nat /\ term'[v] >= term[v]
                            /\ term'[v] = term[v] => votedFor'[v] = votedFor[v]
                            /\ term[c] # t \/ v # s
    BY <1>2, <1>4, <1>5, <2>1
  <2>3. \A v \in votes[c] : g.ballot[term[c]][v] = h.ballot[term[c]][v]
    BY <1>2, <1>10, <2>2
  <2> QED
    BY <1>4, <1>12, <2>2, <2>3, StillCampaigns
<1>13. Calm(h, g)
  <2>1. \A c \in h.server : role'[c] = "Candidate" => Campaigns(h, g, c)
    BY <1>11, <1>12
  <2> QED
    BY <1>2, <1>3, <1>4, <2>1 DEF Calm
<1> QED
  BY <1>6, <1>7, <1>13, OtherBallot

LEMMA RequestVoteStep ==
    ASSUME NEW h, HistoryOK(h), ServersOK(h), NEW v \in h.server, NEW c \in h.server,
           RequestVote(v, c)
    PROVE  \E g : Explains(h, g)
<1> DEFINE grants == /\ term[v] < term[c] \/ (role[v] # "Leader" /\ votedFor[v] \in {Nobody, c})
                     /\ IsUpToDate(log[v], Len(log[c]), LastTerm(log[c]))
<1>1. TypesOK(h) /\ Server = h.server /\ Nobody \notin h.server
  BY StateFacts DEF ServersOK, TypesOK
<1>2. \A x \in h.server : /\ term[x] \in Nat /\ votes[x] \in SUBSET h.server
                          /\ log[x] \in Seq(Entries(h))
  BY <1>1, StateFacts
<1>3. PICK yes \in BOOLEAN : yes = grants
  OBVIOUS
<1>4. /\ UNCHANGED <<log, matchIndex, chosen, commitIndex, env>>
      /\ role[c] = "Candidate" /\ v # c
      /\ term[v] < term[c] \/ (term[v] = term[c] /\ yes /\ v \notin votes[c])
      /\ term' = [term EXCEPT ![v] = term[c]]
      /\ votedFor' = [votedFor EXCEPT ![v] = IF yes THEN c
                                             ELSE IF term[v] < term[c] THEN Nobody ELSE @]
      /\ role' = [role EXCEPT ![v] = IF term[v] < term[c] THEN "Follower" ELSE @]
      /\ votes' = [s \in Server |->
                      IF s = c /\ yes THEN votes[c] \cup {v}
                      ELSE IF s = v /\ term[v] < term[c] THEN {} ELSE votes[s]]
  BY <1>3 DEF RequestVote
<1>5. /\ yes => /\ term[v] < term[c] \/ votedFor[v] \in {Nobody, c}
                /\ IsUpToDate(log[v], Len(log[c]), LastTerm(log[c]))
  BY <1>3
<1> HIDE DEF grants
<1>6. /\ term'[v] = term[c] /\ votedFor'[v] = (IF yes THEN c ELSE Nobody)
      /\ term[v] < term[c] => role'[v] = "Follower"
      /\ term[v] = term[c] => role'[v] = role[v] /\ votes'[v] = votes[v] /\ yes
      /\ votes'[c] = IF yes THEN votes[c] \cup {v} ELSE votes[c]
      /\ role'[c] = role[c] /\ term'[c] = term[c]
      /\ \A x \in h.server : x # v => /\ term'[x] = term[x] /\ votedFor'[x] = votedFor[x]
                                      /\ role'[x] = role[x]
      /\ \A x \in h.server : x # v /\ x # c => votes'[x] = votes[x]
  BY <1>1, <1>2, <1>4 DEF TypesOK
<1>7. TypesOK(h)'
  <2>1. /\ term' \in [h.server -> Nat] /\ votedFor' \in [h.server -> h.server \cup {Nobody}]
        /\ role' \in [h.server -> {"Follower", "Candidate", "Leader"}]
    BY <1>1, <1>4 DEF TypesOK
  <2>2. votes' \in [h.server -> SUBSET h.server]
    BY <1>1, <1>2, <1>4
  <2> QED
    BY <1>1, <1>4, <2>1, <2>2 DEF TypesOK
<1>8. PICK t \in Nat : t = term[c]
  BY <1>2
<1>9. term[v] <= t /\ v \notin votes[c]
  BY <1>2, <1>4, <1>8 DEF ServersOK, CandidatesOK
<1>10. ASSUME yes, NEW d \in h.server, role[d] = "Candidate", d # c, v \in votes[d]
       PROVE  term[d] < t
  <2>1. term[v] >= term[d] /\ (term[v] = term[d] => votedFor[v] = d)
    BY <1>10 DEF ServersOK, CandidatesOK
  <2> QED
    BY <1>1, <1>2, <1>5, <1>8, <1>9, <1>10, <2>1
<1>11. ASSUME yes, t \in h.led PROVE v \notin h.quorum[t]
  <2>1. h.leader[t] # c /\ h.leader[t] \in h.server
    BY <1>4, <1>8, <1>11, LineFacts DEF ServersOK, CandidatesOK
  <2>2. SUFFICES ASSUME v \in h.quorum[t] PROVE FALSE
    OBVIOUS
  <2>3. term[v] >= t /\ (term[v] = t => votedFor[v] = h.leader[t])
    BY <1>11, <2>2 DEF ServersOK, VotersOK
  <2> QED
    BY <1>1, <1>2, <1>5, <1>8, <1>9, <1>11, <2>1, <2>3
<1>12. \A x \in h.server :
         /\ term'[x] \in Nat /\ term'[x] >= term[x]
         /\ term'[x] = term[x] => votedFor'[x] = votedFor[x] \/ (x = v /\ yes /\ term[v] = t)
         /\ x = v /\ yes /\ term[v] = t => votedFor[x] \in {Nobody, c} /\ votedFor'[x] = c
  BY <1>2, <1>4, <1>5, <1>6, <1>8, <1>9
<1>13. ASSUME NEW g, Campaigns(h, g, c),
              \A d \in h.server : role'[d] = "Candidate" /\ d # c => Campaigns(h, g, d)
       PROVE  Calm(h, g)
  <2>1. \A d \in h.server : role'[d] = "Candidate" => Campaigns(h, g, d)
    BY <1>13
  <2>2. \A x \in h.server : role'[x] = "Leader" => role[x] = "Leader" /\ term'[x] = term[x]
    BY <1>2, <1>4, <1>6
  <2>3. \A x \in h.server :
         term'[x] = term[x] => votedFor'[x] = votedFor[x] \/ votedFor[x] = Nobody
    BY <1>12
  <2> QED
    BY <1>4, <1>7, <1>12, <2>1, <2>2, <2>3 DEF Calm
<1>14. CASE ~yes
  <2>1. ASSUME NEW d \in h.server, role'[d] = "Candidate" PROVE Campaigns(h, h, d)
    <3>1. role[d] = "Candidate" /\ term'[d] = term[d] /\ votes'[d] = votes[d]
      BY <1>4, <1>6, <1>14, <2>1
    <3>2. \A w \in votes[d] : /\ term'[w] \in Nat /\ term'[w] >= term[w]
                              /\ term'[w] = term[w] => votedFor'[w] = votedFor[w]
      BY <1>2, <1>12, <1>14
    <3> QED
      BY <3>1, <3>2, StillCampaigns
  <2>2. role'[c] = "Candidate"
    BY <1>4, <1>6
  <2>3. Calm(h, h)
    BY <1>13, <2>1, <2>2
  <2> QED
    BY <2>3, SameBallots
<1>15. CASE yes
  <2>1. PICK g : g = Voted(h, t, v, log[v])
    OBVIOUS
  <2>2. PICK x : x = log[v]
    OBVIOUS
  <2>3. OnLines(h, x) /\ x \in Seq(Entries(h)) /\ g = Voted(h, t, v, x)
    BY <1>2, <2>1, <2>2 DEF ServersOK, LogsOK
  <2>4. /\ g.ballot[t][v] = x
        /\ \A u \in Nat : \A w \in h.server : u # t \/ w # v => g.ballot[u][w] = h.ballot[u][w]
    BY <1>11, <1>15, <2>3, VotedIsHistory
  <2>5. Campaigns(h, g, c)
    <3>1. ASSUME NEW w \in votes[c] PROVE Counts(h, g, c, w)
      <4>1. w \in h.server /\ w # v
        BY <1>2, <1>9
      <4>2. term'[w] = term[w] /\ votedFor'[w] = votedFor[w] /\ g.ballot[t][w] = h.ballot[t][w]
        BY <1>6, <2>4, <4>1
      <4> QED
        BY <1>4, <1>6, <1>8, <4>2 DEF ServersOK, CandidatesOK, Counts
    <3>2. Counts(h, g, c, v)
      <4>1. \A d \in h.server : role[d] = "Candidate" /\ d # c /\ term[d] = t => v \notin votes[d]
        BY <1>10, <1>15
      <4>2. IsFirstVote(h, c, v)
        BY <1>6, <1>8, <1>11, <1>15, <4>1 DEF IsFirstVote
      <4> QED
        BY <1>2, <1>5, <1>6, <1>8, <1>9, <1>15, <2>2, <2>4, <4>2 DEF Counts
    <3> QED
      BY <1>4, <1>6, <1>15, <3>1, <3>2 DEF Campaigns, ServersOK, CandidatesOK, LogsOK
  <2>6. ASSUME NEW d \in h.server, role'[d] = "Candidate", d # c PROVE Campaigns(h, g, d)
    <3>1. role[d] = "Candidate" /\ term'[d] = term[d] /\ votes'[d] = votes[d]
      BY <1>4, <1>6, <2>6
    <3>2. v \in votes[d] => term[d] < t
      BY <1>10, <1>15, <2>6, <3>1
    <3>3. \A w \in votes[d] : w \in h.server /\ term[w] >= term[d]
      BY <1>2, <3>1 DEF ServersOK, CandidatesOK
    <3>4. ASSUME NEW w \in votes[d] PROVE Counts(h, g, d, w)
      <4>1. /\ term[w] >= term[d] /\ (term[w] = term[d] => votedFor[w] = d)
            /\ IsUpToDate(h.ballot[term[d]][w], Len(log[d]), LastTerm(log[d]))
        BY <3>1 DEF ServersOK, CandidatesOK
      <4>2. term[d] \in Nat /\ (w # v \/ term[d] # t)
        BY <1>2, <3>2, <1>8
      <4>3. g.ballot[term[d]][w] = h.ballot[term[d]][w]
        BY <2>4, <3>3, <4>2
      <4>4. CASE w # v
        BY <1>6, <3>1, <3>3, <4>1, <4>3, <4>4 DEF Counts
      <4>5. CASE w = v
        <5>1. term'[w] > term'[d]
          BY <1>2, <1>6, <1>8, <3>1, <3>2, <4>2, <4>5
        <5> QED
          BY <1>2, <1>12, <3>1, <4>1, <4>3, <5>1 DEF Counts
      <4> QED
        BY <4>4, <4>5
    <3> QED
      BY <3>1, <3>4 DEF Campaigns, ServersOK, CandidatesOK, LogsOK
  <2>7. Calm(h, g)
    BY <1>13, <2>5, <2>6
  <2> QED
    BY <1>11, <1>15, <2>1, <2>7, OtherBallot
<1> QED
  BY <1>14, <1>15

-----------------------------------------------------------------------------
(* An append: what a follower with log x holds once it has the first n     *)
(* entries of the leader's log y.                                          *)

Received(x, y, n) ==
    IF Len(x) >= n /\ SubSeq(x, 1, n) = SubSeq(y, 1, n) THEN x ELSE SubSeq(y, 1, n)

IsReceived(w, x, y, n) ==
    /\ Len(w) \in Nat /\ n <= Len(w) /\ (w = x \/ Len(w) = n)
    /\ \A j \in 1..n : w[j] = y[j]
    /\ (n <= Len(x) /\ \A j \in 1..n : x[j] = y[j]) => w = x

LEMMA ReceivedFacts ==
    ASSUME NEW S, NEW x \in Seq(S), NEW y \in Seq(S), NEW n \in 0..Len(y)
    PROVE  Received(x, y, n) \in Seq(S) /\ IsReceived(Received(x, y, n), x, y, n)
<1>0. PICK w : w = Received(x, y, n)
  OBVIOUS
<1>s. SUFFICES w \in Seq(S) /\ IsReceived(w, x, y, n)
  BY <1>0, Zenon
<1>1. Len(x) \in Nat /\ Len(y) \in Nat /\ n \in Nat /\ n <= Len(y)
  OBVIOUS
<1>2. /\ SubSeq(y, 1, n) \in Seq(S) /\ Len(SubSeq(y, 1, n)) = n
      /\ \A j \in 1..n : SubSeq(y, 1, n)[j] = y[j]
  BY <1>1
<1>3. ASSUME n <= Len(x)
      PROVE  /\ SubSeq(x, 1, n) \in Seq(S) /\ Len(SubSeq(x, 1, n)) = n
             /\ \A j \in 1..n : SubSeq(x, 1, n)[j] = x[j]
  BY <1>1, <1>3
<1>4. ASSUME n <= Len(x), \A j \in 1..n : x[j] = y[j] PROVE SubSeq(x, 1, n) = SubSeq(y, 1, n)
  <2> DEFINE p == SubSeq(x, 1, n)
             q == SubSeq(y, 1, n)
  <2>1. p \in Seq(S) /\ q \in Seq(S) /\ Len(p) = Len(q) /\ \A j \in 1..Len(p) : p[j] = q[j]
    BY <1>1, <1>2, <1>3, <1>4
  <2> HIDE DEF p, q
  <2>2. p = q
    BY <2>1
  <2> QED
    BY <2>2 DEF p, q
<1>5. CASE Len(x) >= n /\ SubSeq(x, 1, n) = SubSeq(y, 1, n)
  <2>1. w = x
    BY <1>0, <1>5 DEF Received
  <2>2. \A j \in 1..n : x[j] = y[j]
    BY <1>1, <1>2, <1>3, <1>5
  <2> QED
    BY <1>1, <1>5, <2>1, <2>2 DEF IsReceived
<1>6. CASE ~(Len(x) >= n /\ SubSeq(x, 1, n) = SubSeq(y, 1, n))
  <2>1. w = SubSeq(y, 1, n)
    BY <1>0, <1>6 DEF Received
  <2> QED
    BY <1>1, <1>2, <1>4, <1>6, <2>1 DEF IsReceived
<1> QED
  BY <1>5, <1>6

LEMMA ReceivedKeeps ==
    ASSUME NEW h, HistoryOK(h), NEW t \in h.led, NEW n \in 0..Len(h.line[t]),
           NEW x \in Seq(Entries(h)), OnLines(h, x), \A i \in DOMAIN x : x[i].term <= t,
           NEW w, w = Received(x, h.line[t], n)
    PROVE  /\ OnLines(h, w) /\ \A i \in DOMAIN w : w[i].term <= t
           /\ \A k : \A u : Has(x, k, u) => Has(w, k, u) \/ Lost(h, k, u, t)
<1>1. PICK y : y = h.line[t]
  OBVIOUS
<1>2. y \in Seq(Entries(h)) /\ OnLines(h, y) /\ t \in Nat /\ Len(y) \in Nat /\ h.base[t] \in Nat
  BY <1>1, LineFacts
<1>3. w = Received(x, y, n) /\ n \in 0..Len(y)
  BY <1>1
<1>4. /\ w \in Seq(Entries(h)) /\ Len(w) \in Nat /\ n <= Len(w) /\ (w = x \/ Len(w) = n)
      /\ \A j \in 1..n : w[j] = y[j]
      /\ (n <= Len(x) /\ \A j \in 1..n : x[j] = y[j]) => w = x
  <2>1. Received(x, y, n) \in Seq(Entries(h)) /\ IsReceived(Received(x, y, n), x, y, n)
    BY <1>2, <1>3, ReceivedFacts
  <2> QED
    BY <1>3, <2>1 DEF IsReceived
<1>5. \A i \in DOMAIN y : y[i].term <= t
  <2>1. ASSUME NEW i \in DOMAIN y PROVE y[i].term <= t
    <3>1. IF i > h.base[t] THEN y[i].term = t ELSE y[i].term < t
      BY <1>1 DEF HistoryOK, LinesOK
    <3>2. y[i].term \in Nat
      <4>1. i \in 1..Len(y)
        BY <1>2
      <4> QED
        BY <1>2, <4>1, EntryAt
    <3> QED
      BY <1>2, <3>1, <3>2
  <2> QED
    BY <2>1
<1>6. CASE w = x
  BY <1>6
<1>7. CASE w # x
  <2>1. Len(w) = n /\ n \in Nat /\ n <= Len(y) /\ DOMAIN w = 1..n /\ DOMAIN y = 1..Len(y)
    <3>1. Len(w) = n /\ n \in Nat /\ n <= Len(y)
      BY <1>2, <1>3, <1>4, <1>7
    <3>2. DOMAIN w = 1..Len(w) /\ DOMAIN y = 1..Len(y)
      BY <1>2, <1>4
    <3> QED
      BY <3>1, <3>2
  <2>2. \A i \in DOMAIN w : i \in DOMAIN y /\ w[i] = y[i]
    BY <1>2, <1>4, <2>1
  <2>3. OnLines(h, w)
    <3>1. ASSUME NEW i \in DOMAIN w
          PROVE  /\ w[i].term \in h.led /\ h.base[w[i].term] < i /\ i <= Len(h.line[w[i].term])
                 /\ \A j \in 1..i : w[j] = h.line[w[i].term][j]
      <4>1. /\ y[i].term \in h.led /\ h.base[y[i].term] < i /\ i <= Len(h.line[y[i].term])
            /\ \A j \in 1..i : y[j] = h.line[y[i].term][j]
        BY <1>2, <2>2 DEF OnLines
      <4>2. \A j \in 1..i : w[j] = y[j]
        BY <2>1, <2>2
      <4> QED
        BY <2>2, <4>1, <4>2
    <3> QED
      BY <3>1 DEF OnLines
  <2>4. \A i \in DOMAIN w : w[i].term <= t
    BY <1>5, <2>2
  <2>5. ASSUME NEW k, NEW u, Has(x, k, u), ~Has(w, k, u) PROVE Lost(h, k, u, t)
    <3>1. k \in Nat /\ k > 0 /\ k <= Len(x) /\ Len(x) \in Nat /\ x[k].term = u /\ u <= t
      BY <2>5 DEF Has
    <3>2. ~Has(y, k, u)
      <4>1. SUFFICES ASSUME Has(y, k, u) PROVE FALSE
        OBVIOUS
      <4>2. \A j \in 1..k : x[j] = y[j]
        BY <1>2, <2>5, <4>1, Agree
      <4>3. CASE k <= n
        BY <1>4, <2>1, <2>5, <3>1, <4>1, <4>3 DEF Has
      <4>4. CASE k > n
        BY <1>4, <1>7, <2>1, <3>1, <4>2, <4>4
      <4> QED
        BY <2>1, <3>1, <4>3, <4>4
    <3>3. u # t
      <4>1. SUFFICES ASSUME u = t PROVE FALSE
        OBVIOUS
      <4>2. k <= Len(y) /\ x[k] = y[k]
        BY <1>1, <2>5, <3>1, <4>1 DEF OnLines, Has
      <4>3. k \in DOMAIN y
        BY <2>1, <3>1, <4>2
      <4> QED
        BY <3>1, <3>2, <4>2, <4>3 DEF Has
    <3>4. u \in Nat
      <4>1. k \in 1..Len(x)
        BY <3>1
      <4> QED
        BY <3>1, <4>1, EntryAt
    <3> QED
      BY <1>1, <1>2, <3>1, <3>2, <3>3, <3>4 DEF Lost
  <2> QED
    BY <2>3, <2>4, <2>5
<1> QED
  BY <1>6, <1>7

(* What an append of term t to f changes. *)
Appends(h, l, f, n, t) ==
    /\ t \in h.led /\ h.leader[t] = l /\ h.line[t] = log[l] /\ t = term[l] /\ role[l] = "Leader"
    /\ n \in 0..Len(h.line[t]) /\ f # l /\ term[f] <= t
    /\ UNCHANGED <<chosen, env>>
    /\ term'[f] = t /\ (term[f] = t => votedFor'[f] = votedFor[f]) /\ role'[f] = "Follower"
    /\ log'[f] = Received(log[f], h.line[t], n)
    /\ matchIndex'[l][f] = Max({matchIndex[l][f], n})
    /\ commitIndex'[f] = Max({commitIndex[f], Min({commitIndex[l], n})})
    /\ \A x \in h.server : x # f =>
         /\ term'[x] = term[x] /\ votedFor'[x] = votedFor[x] /\ role'[x] = role[x]
         /\ votes'[x] = votes[x] /\ log'[x] = log[x] /\ commitIndex'[x] = commitIndex[x]
    /\ \A x \in h.server : \A y \in h.server :
         x # l \/ y # f => matchIndex'[x][y] = matchIndex[x][y]

LEMMA AppendIs ==
    ASSUME NEW h, HistoryOK(h), ServersOK(h), NEW l \in h.server, NEW f \in h.server,
           NEW n \in 0..Len(log[l]), AppendEntries(l, f, n)
    PROVE  \E t \in Nat : Appends(h, l, f, n, t) /\ TypesOK(h)'
<1>1. TypesOK(h)
  BY DEF ServersOK
<1>2. \A x \in h.server : /\ term[x] \in Nat /\ votes[x] \in SUBSET h.server
                          /\ log[x] \in Seq(Entries(h)) /\ commitIndex[x] \in Nat
                          /\ matchIndex[x] \in [h.server -> Nat]
  BY <1>1, StateFacts
<1>3. PICK t \in Nat : t = term[l]
  BY <1>2
<1>4. role[l] = "Leader" /\ f # l /\ term[f] <= t /\ UNCHANGED <<chosen, env>>
  BY <1>3 DEF AppendEntries
<1>5. t \in h.led /\ h.leader[t] = l /\ h.line[t] = log[l]
  BY <1>3, <1>4 DEF ServersOK, LeadersOK
<1>6. /\ term' = [term EXCEPT ![f] = t]
      /\ votedFor' = [votedFor EXCEPT ![f] = IF t > term[f] THEN Nobody ELSE @]
      /\ role' = [role EXCEPT ![f] = "Follower"]
      /\ votes' = [votes EXCEPT ![f] = {}]
  BY <1>3 DEF AppendEntries, AdoptTerm
<1>7. /\ term' \in [h.server -> Nat] /\ votedFor' \in [h.server -> h.server \cup {Nobody}]
      /\ role' \in [h.server -> {"Follower", "Candidate", "Leader"}]
      /\ votes' \in [h.server -> SUBSET h.server]
  BY <1>1, <1>6 DEF TypesOK
<1>8. /\ term'[f] = t /\ (term[f] = t => votedFor'[f] = votedFor[f]) /\ role'[f] = "Follower"
      /\ \A x \in h.server : x # f =>
         /\ term'[x] = term[x] /\ votedFor'[x] = votedFor[x] /\ role'[x] = role[x]
         /\ votes'[x] = votes[x]
  BY <1>1, <1>2, <1>6 DEF TypesOK
<1>9. PICK w : w = Received(log[f], log[l], n)
  OBVIOUS
<1>10. w \in Seq(Entries(h))
  BY <1>2, <1>9, ReceivedFacts
<1>11. log' \in [h.server -> Seq(Entries(h))] /\ log'[f] = w /\ \A x \in h.server : x # f => log'[x] = log[x]
  <2>1. CASE Len(log[f]) >= n /\ SubSeq(log[f], 1, n) = SubSeq(log[l], 1, n)
    <3>1. log' = log
      BY <2>1 DEF AppendEntries
    <3>2. w = log[f]
      BY <1>9, <2>1 DEF Received
    <3> QED
      BY <1>1, <3>1, <3>2 DEF TypesOK
  <2>2. CASE ~(Len(log[f]) >= n /\ SubSeq(log[f], 1, n) = SubSeq(log[l], 1, n))
    <3>1. log' = [log EXCEPT ![f] = SubSeq(log[l], 1, n)]
      BY <2>2 DEF AppendEntries
    <3>2. w = SubSeq(log[l], 1, n)
      BY <1>9, <2>2 DEF Received
    <3>3. log' = [log EXCEPT ![f] = w] /\ log \in [h.server -> Seq(Entries(h))]
      BY <1>1, <3>1, <3>2 DEF TypesOK
    <3> QED
      BY <1>10, <3>3, Zenon
  <2> QED
    BY <2>1, <2>2
<1>12. PICK m \in Nat : m = Max({matchIndex[l][f], n})
  <2>1. matchIndex[l][f] \in Nat /\ n \in Nat
    BY <1>2
  <2> QED
    BY <2>1, MaxOfTwo
<1>13. /\ matchIndex' \in [h.server -> [h.server -> Nat]] /\ matchIndex'[l][f] = m
       /\ \A x \in h.server : \A y \in h.server :
            x # l \/ y # f => matchIndex'[x][y] = matchIndex[x][y]
  <2>1. matchIndex \in [h.server -> [h.server -> Nat]]
    BY <1>1 DEF TypesOK
  <2>2. matchIndex' = [matchIndex EXCEPT ![l][f] = m]
    BY <1>12 DEF AppendEntries
  <2> QED
    BY <2>1, <2>2
<1>14. PICK i \in Nat : i = Max({commitIndex[f], Min({commitIndex[l], n})})
  <2>1. commitIndex[f] \in Nat /\ commitIndex[l] \in Nat /\ n \in Nat
    BY <1>2
  <2>2. PICK j \in Nat : j = Min({commitIndex[l], n})
    BY <2>1, MinOfTwo
  <2> QED
    BY <2>1, <2>2, MaxOfTwo
<1>15. /\ commitIndex' \in [h.server -> Nat] /\ commitIndex'[f] = i
       /\ \A x \in h.server : x # f => commitIndex'[x] = commitIndex[x]
  <2>1. commitIndex \in [h.server -> Nat]
    BY <1>1 DEF TypesOK
  <2>2. commitIndex' = [commitIndex EXCEPT ![f] = i]
    BY <1>14 DEF AppendEntries, FollowCommit
  <2> QED
    BY <2>1, <2>2
<1>16. TypesOK(h)'
  BY <1>1, <1>4, <1>7, <1>11, <1>13, <1>15 DEF TypesOK
<1>17. Appends(h, l, f, n, t)
  BY <1>3, <1>4, <1>5, <1>8, <1>9, <1>11, <1>12, <1>13, <1>14, <1>15 DEF Appends
<1> QED
  BY <1>16, <1>17

(* The follower's log after an append. *)
LEMMA AppendLog ==
    ASSUME NEW h, HistoryOK(h), ServersOK(h), NEW l \in h.server, NEW f \in h.server,
           NEW n, NEW t \in Nat, Appends(h, l, f, n, t), TypesOK(h)'
    PROVE  /\ log'[f] \in Seq(Entries(h)) /\ IsReceived(log'[f], log[f], log[l], n)
           /\ OnLines(h, log'[f]) /\ \A i \in DOMAIN log'[f] : log'[f][i].term <= t
           /\ \A k : \A u : Has(log[f], k, u) => Has(log'[f], k, u) \/ Lost(h, k, u, t)
<1>1. TypesOK(h)
  BY DEF ServersOK
<1>2. /\ t \in h.led /\ n \in 0..Len(h.line[t]) /\ h.line[t] = log[l]
      /\ log'[f] = Received(log[f], h.line[t], n) /\ term[f] <= t
  BY DEF Appends
<1>3. PICK x : x = log[f]
  OBVIOUS
<1>4. PICK w : w = log'[f]
  OBVIOUS
<1>5. x \in Seq(Entries(h)) /\ log[l] \in Seq(Entries(h)) /\ term[f] \in Nat
  BY <1>1, <1>3, StateFacts
<1>6. OnLines(h, x) /\ \A i \in DOMAIN x : x[i].term <= t
  <2>1. ASSUME NEW i \in DOMAIN x PROVE x[i].term <= t
    <3>1. i \in 1..Len(x)
      BY <1>5
    <3>2. x[i].term \in Nat
      BY <1>5, <3>1, EntryAt
    <3>3. x[i].term <= term[f]
      BY <1>3 DEF ServersOK, LogsOK
    <3> QED
      BY <1>2, <1>5, <3>2, <3>3
  <2> QED
    BY <1>3, <2>1 DEF ServersOK, LogsOK
<1>7. w = Received(x, h.line[t], n)
  BY <1>2, <1>3, <1>4
<1>8. /\ OnLines(h, w) /\ \A i \in DOMAIN w : w[i].term <= t
      /\ \A k : \A u : Has(x, k, u) => Has(w, k, u) \/ Lost(h, k, u, t)
  BY <1>2, <1>5, <1>6, <1>7, ReceivedKeeps
<1>9. w \in Seq(Entries(h)) /\ IsReceived(w, x, log[l], n)
  BY <1>2, <1>5, <1>7, ReceivedFacts
<1> QED
  BY <1>3, <1>4, <1>8, <1>9

LEMMA AppendHolds ==
    ASSUME NEW h, HistoryOK(h), ServersOK(h), NEW l \in h.server, NEW f \in h.server,
           NEW n, NEW t \in Nat, Appends(h, l, f, n, t), TypesOK(h)',
           NEW v \in h.server, NEW k, NEW u \in Nat, Holds(h, v, k, u)
    PROVE  Holds(h, v, k, u)'
<1>1. TypesOK(h)
  BY DEF ServersOK
<1>2. \A x \in h.server : term[x] \in Nat
  BY <1>1, StateFacts
<1>3. /\ term[f] <= t /\ term'[f] = t /\ role'[f] = "Follower"
      /\ \A x \in h.server : x # f =>
           /\ term'[x] = term[x] /\ role'[x] = role[x] /\ votes'[x] = votes[x] /\ log'[x] = log[x]
  BY DEF Appends
<1>4. term[v] >= u /\ (Has(log[v], k, u) \/ Lost(h, k, u, term[v]))
  BY DEF Holds
<1>5. term'[v] >= u /\ (Has(log'[v], k, u) \/ Lost(h, k, u, term'[v]))
  <2>1. CASE v # f
    BY <1>3, <1>4, <2>1
  <2>2. CASE v = f
    <3>1. Has(log[f], k, u) => Has(log'[f], k, u) \/ Lost(h, k, u, t)
      BY AppendLog
    <3>2. Lost(h, k, u, term[f]) => Lost(h, k, u, t)
      BY <1>2, <1>3, LostLater
    <3> QED
      BY <1>2, <1>3, <1>4, <2>2, <3>1, <3>2
  <2> QED
    BY <2>1, <2>2
<1>6. ASSUME NEW c \in h.server, role'[c] = "Candidate", v \in votes'[c], term'[c] > u
      PROVE  Has(h.ballot[term'[c]][v], k, u) \/ Lost(h, k, u, term'[c])
  <2>1. role[c] = "Candidate" /\ v \in votes[c] /\ term'[c] = term[c]
    BY <1>3, <1>6
  <2> QED
    BY <1>6, <2>1 DEF Holds
<1> QED
  BY <1>5, <1>6 DEF Holds

(* The follower's commit index after an append. *)
LEMMA AppendKnown ==
    ASSUME NEW h, HistoryOK(h), ServersOK(h), NEW l \in h.server, NEW f \in h.server,
           NEW n, NEW t \in Nat, Appends(h, l, f, n, t), TypesOK(h)'
    PROVE  /\ commitIndex'[f] <= Len(log'[f])
           /\ commitIndex'[f] > 0 => \E c \in h.commits :
                /\ c.term <= t /\ commitIndex'[f] <= c.index
                /\ \A j \in 1..commitIndex'[f] : log'[f][j] = h.line[c.term][j]
<1>1. TypesOK(h)
  BY DEF ServersOK
<1>2. /\ term[f] \in Nat /\ term[l] \in Nat /\ commitIndex[f] \in Nat /\ commitIndex[l] \in Nat
      /\ log[l] \in Seq(Entries(h)) /\ log[f] \in Seq(Entries(h))
      /\ Len(log[l]) \in Nat /\ Len(log[f]) \in Nat
  BY <1>1, StateFacts
<1>3. /\ t \in h.led /\ h.line[t] = log[l] /\ t = term[l] /\ term[f] <= t
      /\ n \in Nat /\ n <= Len(log[l])
      /\ commitIndex'[f] = Max({commitIndex[f], Min({commitIndex[l], n})})
  BY <1>2 DEF Appends
<1>4. PICK w : w = log'[f]
  OBVIOUS
<1>5. /\ w \in Seq(Entries(h)) /\ Len(w) \in Nat /\ n <= Len(w) /\ (w = log[f] \/ Len(w) = n)
      /\ \A j \in 1..n : w[j] = log[l][j]
      /\ (n <= Len(log[f]) /\ \A j \in 1..n : log[f][j] = log[l][j]) => w = log[f]
  BY <1>4, AppendLog DEF IsReceived
<1>6. PICK m \in Nat : m = Min({commitIndex[l], n}) /\ m <= n /\ m <= commitIndex[l]
  BY <1>2, <1>3, MinOfTwo
<1>7. commitIndex'[f] \in {commitIndex[f], m}
  BY <1>2, <1>3, <1>6, MaxOfTwo
<1>8. ASSUME m > 0
      PROVE  \E c \in h.commits : /\ c.term <= t /\ m <= c.index
                                  /\ \A j \in 1..m : w[j] = h.line[c.term][j]
  <2>1. commitIndex[l] > 0
    BY <1>2, <1>6, <1>8
  <2>2. PICK c \in h.commits :
             /\ c.term <= term[l] /\ commitIndex[l] <= c.index
             /\ \A j \in 1..commitIndex[l] : log[l][j] = h.line[c.term][j]
    BY <2>1 DEF ServersOK, KnownOK
  <2>3. c.index \in Nat
    BY CommitFacts
  <2>4. m <= c.index /\ c.term <= t
    BY <1>2, <1>3, <1>6, <2>2, <2>3
  <2>5. ASSUME NEW j \in 1..m PROVE w[j] = h.line[c.term][j]
    <3>1. j \in 1..n /\ j \in 1..commitIndex[l]
      BY <1>2, <1>3, <1>6
    <3> QED
      BY <1>5, <2>2, <3>1
  <2> QED
    BY <2>4, <2>5
<1>9. ASSUME commitIndex[f] > 0
      PROVE  /\ commitIndex[f] <= Len(w)
             /\ \E c \in h.commits : /\ c.term <= t /\ commitIndex[f] <= c.index
                                     /\ \A j \in 1..commitIndex[f] : w[j] = h.line[c.term][j]
  <2>1. PICK i \in Nat : i = commitIndex[f] /\ i > 0
    BY <1>2, <1>9
  <2>2. PICK c \in h.commits : /\ c.term <= term[f] /\ i <= c.index
                               /\ \A j \in 1..i : log[f][j] = h.line[c.term][j]
    BY <1>9, <2>1 DEF ServersOK, KnownOK
  <2>3. /\ c.index \in Nat /\ c.term \in Nat /\ c.term \in h.led
        /\ c.index \in 1..Len(h.line[c.term]) /\ h.line[c.term][c.index].term = c.term
    BY CommitFacts
  <2>4. c.term <= t /\ i <= Len(log[f])
    BY <1>2, <1>3, <2>1, <2>2, <2>3 DEF ServersOK, KnownOK
  <2>5. \A j \in 1..c.index : h.line[t][j] = h.line[c.term][j]
    <3>1. CASE c.term = t
      BY <3>1
    <3>2. CASE c.term < t
      <4>1. Has(h.line[t], c.index, c.term)
        BY <1>3, <3>2 DEF HistoryOK, Complete
      <4>2. OnLines(h, h.line[t])
        BY <1>3, LineFacts
      <4> QED
        BY <4>1, <4>2 DEF OnLines, Has
    <3> QED
      BY <2>3, <2>4, <3>1, <3>2
  <2>6. \A j \in 1..i : log[f][j] = log[l][j] /\ log[l][j] = h.line[c.term][j]
    BY <1>3, <2>1, <2>2, <2>3, <2>5
  <2>7. CASE i <= n
    BY <1>3, <1>5, <2>1, <2>2, <2>4, <2>6, <2>7
  <2>8. CASE i > n
    <3>1. w = log[f]
      BY <1>2, <1>3, <1>5, <2>1, <2>4, <2>6, <2>8
    <3> QED
      BY <2>1, <2>2, <2>4, <3>1
  <2> QED
    BY <1>3, <2>1, <2>7, <2>8
<1>10. commitIndex'[f] <= Len(w)
  BY <1>2, <1>3, <1>5, <1>6, <1>7, <1>9
<1> QED
  BY <1>2, <1>4, <1>7, <1>8, <1>9, <1>10

LEMMA AppendEntriesStep ==
    ASSUME NEW h, HistoryOK(h), ServersOK(h), NEW l \in h.server, NEW f \in h.server,
           NEW n \in 0..Len(log[l]), AppendEntries(l, f, n)
    PROVE  Explains(h, h)
<1>1. TypesOK(h)
  BY DEF ServersOK
<1>2. PICK t \in Nat : Appends(h, l, f, n, t) /\ TypesOK(h)'
  BY AppendIs
<1>3. \A x \in h.server : /\ term[x] \in Nat /\ term'[x] \in Nat /\ votes[x] \in SUBSET h.server
                          /\ log[x] \in Seq(Entries(h)) /\ Len(log[x]) \in Nat
                          /\ \A y \in h.server : matchIndex[x][y] \in Nat
  <2>1. ASSUME NEW x \in h.server
        PROVE  /\ term[x] \in Nat /\ votes[x] \in SUBSET h.server /\ matchIndex[x] \in [h.server -> Nat]
               /\ log[x] \in Seq(Entries(h)) /\ Len(log[x]) \in Nat
    BY <1>1, StateFacts
  <2>2. \A x \in h.server : term'[x] \in Nat
    BY <1>2 DEF TypesOK
  <2> QED
    BY <2>1, <2>2
<1>4. /\ t \in h.led /\ h.leader[t] = l /\ h.line[t] = log[l] /\ t = term[l] /\ role[l] = "Leader"
      /\ n \in Nat /\ n <= Len(log[l]) /\ f # l /\ term[f] <= t
      /\ chosen' = chosen /\ env' = env
      /\ term'[f] = t /\ (term[f] = t => votedFor'[f] = votedFor[f]) /\ role'[f] = "Follower"
      /\ matchIndex'[l][f] = Max({matchIndex[l][f], n})
  BY <1>2, <1>3 DEF Appends
<1>5. /\ \A x \in h.server : x # f =>
           /\ term'[x] = term[x] /\ votedFor'[x] = votedFor[x] /\ role'[x] = role[x]
           /\ votes'[x] = votes[x] /\ log'[x] = log[x] /\ commitIndex'[x] = commitIndex[x]
      /\ \A x \in h.server : \A y \in h.server :
           x # l \/ y # f => matchIndex'[x][y] = matchIndex[x][y]
  BY <1>2 DEF Appends
<1>6. /\ log'[f] \in Seq(Entries(h)) /\ IsReceived(log'[f], log[f], log[l], n)
      /\ OnLines(h, log'[f]) /\ \A i \in DOMAIN log'[f] : log'[f][i].term <= t
  BY <1>2, AppendLog
<1>7. LeadersOK(h)'
  BY <1>4, <1>5 DEF ServersOK, LeadersOK
<1>8. LogsOK(h)'
  BY <1>4, <1>5, <1>6 DEF ServersOK, LogsOK
<1>9. VotersOK(h)'
  <2>1. ASSUME NEW u \in h.led PROVE term'[h.leader[u]] >= u
    <3>1. u \in Nat /\ h.leader[u] \in h.server
      BY LineFacts
    <3>2. term[h.leader[u]] >= u
      BY DEF ServersOK, VotersOK
    <3> QED
      BY <1>3, <1>4, <1>5, <3>1, <3>2
  <2>2. ASSUME NEW u \in h.led, NEW v \in h.quorum[u]
        PROVE  term'[v] >= u /\ (term'[v] = u => votedFor'[v] = h.leader[u])
    <3>1. u \in Nat /\ v \in h.server
      BY LineFacts
    <3>2. term[v] >= u /\ (term[v] = u => votedFor[v] = h.leader[u])
      BY DEF ServersOK, VotersOK
    <3> QED
      BY <1>3, <1>4, <1>5, <3>1, <3>2
  <2> QED
    BY <2>1, <2>2 DEF VotersOK
<1>10. CandidatesOK(h)'
  <2>1. ASSUME NEW c \in h.server, role'[c] = "Candidate"
        PROVE  /\ c # f /\ role[c] = "Candidate" /\ term'[c] = term[c] /\ votes'[c] = votes[c]
               /\ log'[c] = log[c]
    BY <1>4, <1>5, <2>1
  <2>2. ASSUME NEW c \in h.server, role'[c] = "Candidate", NEW v \in votes[c]
        PROVE  /\ term'[v] >= term[c] /\ (term'[v] = term[c] => votedFor'[v] = c)
               /\ IsUpToDate(h.ballot[term[c]][v], Len(log[c]), LastTerm(log[c]))
    <3>1. role[c] = "Candidate" /\ v \in h.server
      BY <1>3, <2>1, <2>2
    <3>2. /\ term[v] >= term[c] /\ (term[v] = term[c] => votedFor[v] = c)
          /\ IsUpToDate(h.ballot[term[c]][v], Len(log[c]), LastTerm(log[c]))
      BY <3>1 DEF ServersOK, CandidatesOK
    <3> QED
      BY <1>3, <1>4, <1>5, <3>1, <3>2
  <2>3. ASSUME NEW c \in h.server, role'[c] = "Candidate"
        PROVE  term[c] > 0 /\ (term[c] \in h.led => h.leader[term[c]] # c)
    BY <2>1, <2>3 DEF ServersOK, CandidatesOK
  <2> QED
    BY <2>1, <2>2, <2>3 DEF CandidatesOK
<1>11. KnownOK(h)'
  <2>1. /\ commitIndex'[f] <= Len(log'[f])
        /\ commitIndex'[f] > 0 => \E c \in h.commits :
             /\ c.term <= term'[f] /\ commitIndex'[f] <= c.index
             /\ \A j \in 1..commitIndex'[f] : log'[f][j] = h.line[c.term][j]
    BY <1>2, <1>4, AppendKnown
  <2> QED
    BY <1>5, <2>1 DEF ServersOK, KnownOK
<1>12. QuorumsHold(h)'
  <2>1. ASSUME NEW c \in h.commits, NEW v \in c.quorum PROVE Holds(h, v, c.index, c.term)'
    <3>1. c.term \in Nat /\ v \in h.server
      BY CommitFacts
    <3>2. Holds(h, v, c.index, c.term)
      BY DEF ServersOK, QuorumsHold
    <3> QED
      BY <1>2, <3>1, <3>2, AppendHolds
  <2> QED
    BY <2>1 DEF QuorumsHold
<1>13. ASSUME NEW k \in (h.base[t] + 1)..n PROVE Holds(h, f, k, t)'
  <2>1. h.base[t] \in Nat
    BY <1>4, LineFacts
  <2>2. k \in 1..n /\ k > h.base[t] /\ k \in 1..Len(log[l])
    BY <1>3, <1>4, <2>1
  <2>3. k \in DOMAIN log[l]
    BY <1>3, <2>2
  <2>4. log[l][k].term = t
    BY <1>4, <2>2, <2>3 DEF HistoryOK, LinesOK
  <2>5. log'[f][k] = log[l][k] /\ k \in DOMAIN log'[f]
    BY <1>4, <1>6, <2>2 DEF IsReceived
  <2>6. Has(log'[f], k, t)
    BY <2>4, <2>5 DEF Has
  <2>7. ASSUME NEW c \in h.server, role'[c] = "Candidate", f \in votes'[c], term'[c] > t
        PROVE  FALSE
    <3>1. term'[f] >= term'[c]
      BY <1>10, <2>7 DEF CandidatesOK
    <3> QED
      BY <1>3, <1>4, <2>7, <3>1
  <2>8. ASSUME NEW z \in h.led, z > t, f \in h.quorum[z] PROVE FALSE
    <3>1. z \in Nat
      BY LineFacts
    <3>2. term[f] >= z
      BY <2>8 DEF ServersOK, VotersOK
    <3> QED
      BY <1>3, <1>4, <2>8, <3>1, <3>2
  <2>9. term'[f] >= t
    BY <1>4
  <2> QED
    BY <2>6, <2>7, <2>8, <2>9 DEF Holds
<1>14. MatchesHold(h)'
  <2>1. ASSUME NEW s \in h.server, role'[s] = "Leader"
        PROVE  s # f /\ role[s] = "Leader" /\ term'[s] = term[s] /\ log'[s] = log[s]
    BY <1>4, <1>5, <2>1
  <2>2. ASSUME NEW s \in h.server, role'[s] = "Leader", NEW p \in h.server,
               NEW k \in (h.base[term[s]] + 1)..matchIndex[s][p]
        PROVE  Holds(h, p, k, term[s])'
    <3>1. Holds(h, p, k, term[s])
      BY <2>1, <2>2 DEF ServersOK, MatchesHold
    <3>2. PICK u \in Nat : u = term[s]
      BY <1>3
    <3>3. Holds(h, p, k, u)'
      BY <1>2, <3>1, <3>2, AppendHolds
    <3> QED
      BY <2>1, <2>2, <3>2, <3>3 DEF Holds
  <2>3. matchIndex'[l][f] \in {matchIndex[l][f], n}
    <3>1. PICK m \in Nat : m = matchIndex[l][f]
      BY <1>3
    <3>2. Max({m, n}) = IF m >= n THEN m ELSE n
      BY <1>4, MaxOfTwo
    <3> QED
      BY <1>4, <3>1, <3>2
  <2>4. ASSUME NEW s \in h.server, role'[s] = "Leader", NEW p \in h.server
        PROVE  matchIndex'[s][p] <= Len(log'[s])
    <3>1. matchIndex[s][p] <= Len(log[s])
      BY <2>1, <2>4 DEF ServersOK, MatchesHold
    <3>2. matchIndex'[s][p] = matchIndex[s][p] \/ (s = l /\ matchIndex'[s][p] = n)
      BY <1>5, <2>3
    <3> QED
      BY <1>4, <2>1, <2>4, <3>1, <3>2
  <2>5. ASSUME NEW s \in h.server, role'[s] = "Leader", NEW p \in h.server,
               NEW k \in (h.base[term'[s]] + 1)..matchIndex'[s][p]
        PROVE  Holds(h, p, k, term[s])'
    <3>1. term'[s] = term[s]
      BY <2>1, <2>5
    <3>2. CASE matchIndex'[s][p] = matchIndex[s][p]
      BY <2>2, <2>5, <3>1, <3>2
    <3>3. CASE s = l /\ p = f /\ matchIndex'[s][p] = n
      <4>1. Holds(h, f, k, t)'
        BY <1>4, <1>13, <2>5, <3>1, <3>3
      <4> QED
        BY <1>4, <3>1, <3>3, <4>1 DEF Holds
    <3> QED
      BY <1>5, <2>3, <3>2, <3>3
  <2> QED
    BY <2>4, <2>5 DEF MatchesHold
<1>15. ChosenOK(h)'
  BY <1>4 DEF ServersOK, ChosenOK
<1>16. WideOK(h)'
  <2>1. ASSUME AtLeastTwo, NEW i \in DOMAIN log'[f], log'[f][i].members # {}
        PROVE  Cardinality(log'[f][i].members) >= 2
    <3>1. CASE log'[f] = log[f]
      BY <2>1, <3>1 DEF ServersOK, WideOK
    <3>2. CASE Len(log'[f]) = n
      <4>1. i \in 1..n
        BY <1>6, <3>2
      <4>2. i \in DOMAIN log[l] /\ log'[f][i] = log[l][i]
        BY <1>3, <1>4, <1>6, <4>1 DEF IsReceived
      <4> QED
        BY <2>1, <4>2 DEF ServersOK, WideOK
    <3> QED
      BY <1>6, <3>1, <3>2 DEF IsReceived
  <2>2. AtLeastTwo' <=> AtLeastTwo
    BY DEF AtLeastTwo
  <2> QED
    BY <1>4, <1>5, <2>1, <2>2 DEF ServersOK, WideOK
<1>17. RivalsOK(h)'
  <2>1. ASSUME NEW c \in h.server, role'[c] = "Candidate"
        PROVE  role[c] = "Candidate" /\ term'[c] = term[c] /\ votes'[c] = votes[c]
    BY <1>4, <1>5, <2>1
  <2> QED
    BY <2>1 DEF ServersOK, RivalsOK
<1>18. ServersOK(h)'
  BY <1>2, <1>7, <1>8, <1>9, <1>10, <1>11, <1>12, <1>14, <1>15, <1>16, <1>17 DEF ServersOK
<1> QED
  BY <1>18, GrownSelf DEF Explains

-----------------------------------------------------------------------------
(* An election won: the winner's log has every entry committed before, and *)
(* the term had no leader.                                                 *)

LEMMA WinnerIsNew ==
    ASSUME NEW h, HistoryOK(h), ServersOK(h), NEW s \in h.server, role[s] = "Candidate",
           IsMajority(votes[s], Members(s)), NEW t, t = term[s], NEW b, b = log[s], NEW Q, Q = votes[s]
    PROVE  /\ t \in Nat /\ t > 0 /\ t \notin h.led /\ b \in Seq(Entries(h)) /\ OnLines(h, b)
           /\ Q \in SUBSET h.server /\ IsMajority(Q, MembersAt(h, b, Len(b)))
           /\ \A j \in DOMAIN b : b[j].term < t
           /\ \A v \in Q : IsUpToDate(h.ballot[t][v], Len(b), LastTerm(b))
           /\ \A c \in h.commits : c.term < t => Has(b, c.index, c.term)
<1>1. TypesOK(h)
  BY DEF ServersOK
<1>2. t \in Nat /\ b \in Seq(Entries(h)) /\ Q \in SUBSET h.server
  BY <1>1, StateFacts
<1>3. IsMajority(Q, MembersAt(h, b, Len(b)))
  BY <1>1, MembersIs
<1>4. t > 0 /\ \A v \in Q : IsUpToDate(h.ballot[t][v], Len(b), LastTerm(b))
  BY DEF ServersOK, CandidatesOK
<1>5. OnLines(h, b) /\ \A j \in DOMAIN b : b[j].term < t
  BY DEF ServersOK, LogsOK
<1>6. PICK B : B = h.ballot[t]
  OBVIOUS
<1>7. B \in [h.server -> Seq(Entries(h))]
  BY <1>2, <1>6 DEF HistoryOK, IsHistory
<1>8. \A v \in Q : OnLines(h, B[v]) /\ IsUpToDate(B[v], Len(b), LastTerm(b))
  BY <1>2, <1>4, <1>6, BallotFacts
<1>9. ASSUME NEW c \in h.commits, NEW v \in c.quorum \cap Q, c.term < t
      PROVE  Has(B[v], c.index, c.term)
  <2>1. Holds(h, v, c.index, c.term)
    BY DEF ServersOK, QuorumsHold
  <2>2. Has(h.ballot[t][v], c.index, c.term) \/ Lost(h, c.index, c.term, t)
    BY <1>9, <2>1 DEF Holds
  <2>3. ~Lost(h, c.index, c.term, t)
    <3>1. \A y \in h.led : c.term < y => Has(h.line[y], c.index, c.term)
      BY LineFacts, CommitFacts DEF HistoryOK, Complete
    <3> QED
      BY <3>1 DEF Lost
  <2> QED
    BY <1>6, <2>2, <2>3
<1>10. \A c \in h.commits : c.term < t => Has(b, c.index, c.term)
  BY <1>2, <1>3, <1>5, <1>7, <1>8, <1>9, WinnerIsComplete
<1>11. t \notin h.led
  <2>1. SUFFICES ASSUME t \in h.led PROVE FALSE
    OBVIOUS
  <2>2. Q \cap h.quorum[t] # {}
    BY <1>2, <1>3, <1>5, <1>10, <2>1, WinnersOverlap
  <2> QED
    BY <2>1, <2>2 DEF ServersOK, RivalsOK
<1> QED
  BY <1>2, <1>3, <1>4, <1>5, <1>10, <1>11

(* What an acknowledgement promised is not lost in a term that is new.     *)
LEMMA WinHolds ==
    ASSUME NEW h, HistoryOK(h), TypesOK(h), NEW s \in h.server, NEW t \in Nat, t = term[s],
           t \notin h.led, NEW g, HistoryOK(g), Grown(h, g),
           g.led = h.led \cup {t}, g.quorum[t] = votes[s], g.ballot = h.ballot, role[s] = "Candidate",
           term' = term, votes' = votes, \A c \in h.server : role'[c] = "Candidate" => role[c] = "Candidate",
           NEW v \in h.server, NEW k, NEW u \in Nat,
           Has(log[v], k, u) => Has(log'[v], k, u), Holds(h, v, k, u)
    PROVE  Holds(g, v, k, u)'
<1>1. \A z : Lost(h, k, u, z) => Lost(g, k, u, z)
  BY GrownLost DEF HistoryOK
<1>2. term'[v] >= u /\ (Has(log'[v], k, u) \/ Lost(g, k, u, term'[v]))
  BY <1>1 DEF Holds
<1>3. g.server = h.server /\ \A z \in h.led : g.quorum[z] = h.quorum[z]
  BY DEF Grown
<1>4. ASSUME NEW c \in h.server, role'[c] = "Candidate", v \in votes'[c], term'[c] > u
      PROVE  Has(g.ballot[term'[c]][v], k, u) \/ Lost(g, k, u, term'[c])
  BY <1>1, <1>4 DEF Holds
<1>5. ASSUME NEW z \in g.led, z > u, v \in g.quorum[z]
      PROVE  Has(g.ballot[z][v], k, u) \/ Lost(g, k, u, z - 1)
  <2>1. CASE z \in h.led
    BY <1>1, <1>3, <1>5, <2>1 DEF Holds
  <2>2. CASE z = t
    <3>1. Has(h.ballot[t][v], k, u) \/ Lost(h, k, u, t)
      BY <1>5, <2>2 DEF Holds
    <3>2. Lost(h, k, u, t) => Lost(h, k, u, t - 1)
      <4>1. SUFFICES ASSUME Lost(h, k, u, t) PROVE Lost(h, k, u, t - 1)
        OBVIOUS
      <4>2. PICK y \in h.led : u < y /\ y <= t /\ ~Has(h.line[y], k, u)
        BY <4>1 DEF Lost
      <4>3. y \in Nat /\ y # t
        BY LineFacts
      <4>4. y <= t - 1
        BY <4>2, <4>3
      <4> QED
        BY <4>2, <4>4 DEF Lost
    <3> QED
      BY <1>1, <2>2, <3>1, <3>2
  <2> QED
    BY <2>1, <2>2
<1> QED
  BY <1>2, <1>3, <1>4, <1>5 DEF Holds

LEMMA WinStep ==
    ASSUME NEW h, HistoryOK(h), ServersOK(h), NEW s \in h.server, Win(s)
    PROVE  \E g : Explains(h, g)
<1>1. TypesOK(h) /\ Server = h.server
  BY StateFacts DEF ServersOK
<1>2. PICK t : t = term[s]
  OBVIOUS
<1>3. PICK b : b = log[s]
  OBVIOUS
<1>4. PICK Q : Q = votes[s]
  OBVIOUS
<1>5. role[s] = "Candidate" /\ IsMajority(votes[s], Members(s))
  BY DEF Win
<1>6. /\ t \in Nat /\ t > 0 /\ t \notin h.led /\ b \in Seq(Entries(h)) /\ OnLines(h, b)
      /\ Q \in SUBSET h.server /\ IsMajority(Q, MembersAt(h, b, Len(b)))
      /\ \A j \in DOMAIN b : b[j].term < t
      /\ \A v \in Q : IsUpToDate(h.ballot[t][v], Len(b), LastTerm(b))
      /\ \A c \in h.commits : c.term < t => Has(b, c.index, c.term)
  BY <1>2, <1>3, <1>4, <1>5, WinnerIsNew
<1>7. PICK g : g = Elected(h, t, s, b, Q)
  OBVIOUS
<1>8. HistoryOK(g) /\ Grown(h, g)
  BY <1>6, <1>7, ElectedIsHistory
<1>9. /\ g.server = h.server /\ g.first = h.first /\ g.led = h.led \cup {t}
      /\ g.ballot = h.ballot /\ g.commits = h.commits
      /\ g.leader[t] = s /\ g.line[t] = Append(b, NoOp(t)) /\ g.base[t] = Len(b) /\ g.quorum[t] = Q
      /\ \A u \in Nat : u # t => /\ g.leader[u] = h.leader[u] /\ g.line[u] = h.line[u]
                                 /\ g.base[u] = h.base[u] /\ g.quorum[u] = h.quorum[u]
      /\ NoOp(t) \in Entries(h)
  <2>1. /\ IsHistory(h) /\ t \in Nat /\ b \in Seq(Entries(h)) /\ Q \in SUBSET h.server
    BY <1>6 DEF HistoryOK
  <2>2. ElectedAs(h, g, t, s, b, Q) /\ NoOp(t) \in Entries(h)
    BY <2>1, <1>7, ElectedFields
  <2> QED
    BY <2>2 DEF ElectedAs
<1>10. \A u \in h.led : /\ u \in Nat /\ u # t /\ g.leader[u] = h.leader[u] /\ g.line[u] = h.line[u]
                        /\ g.base[u] = h.base[u] /\ g.quorum[u] = h.quorum[u]
  BY <1>6, <1>9, LineFacts
<1>11. \A c \in h.commits : c.term \in h.led /\ c.term \in Nat /\ c.quorum \in SUBSET h.server
  BY CommitFacts
<1>12. PICK x : x = Append(b, NoOp(t))
  OBVIOUS
<1>13. /\ x \in Seq(Entries(h)) /\ Len(x) = Len(b) + 1 /\ Len(b) \in Nat
       /\ \A j \in 1..Len(b) : x[j] = b[j]
       /\ x[Len(b) + 1] = NoOp(t)
  BY <1>6, <1>9, <1>12, Appended
<1>14. /\ term' = term /\ votedFor' = votedFor /\ votes' = votes /\ commitIndex' = commitIndex
       /\ chosen' = chosen /\ env' = env
       /\ role' = [role EXCEPT ![s] = "Leader"]
       /\ log' = [log EXCEPT ![s] = x]
       /\ matchIndex' = [matchIndex EXCEPT ![s] = [p \in h.server |-> 0]]
  BY <1>1, <1>2, <1>3, <1>12 DEF Win, NoOp
<1>15. /\ role' \in [h.server -> {"Follower", "Candidate", "Leader"}] /\ role'[s] = "Leader"
       /\ \A y \in h.server : y # s => role'[y] = role[y]
  BY <1>1, <1>14 DEF TypesOK
<1>16. /\ log' \in [h.server -> Seq(Entries(h))] /\ log'[s] = x
       /\ \A y \in h.server : y # s => log'[y] = log[y]
  <2>1. log \in [h.server -> Seq(Entries(h))]
    BY <1>1 DEF TypesOK
  <2> QED
    BY <1>13, <1>14, <2>1
<1>17. /\ matchIndex' \in [h.server -> [h.server -> Nat]] /\ \A p \in h.server : matchIndex'[s][p] = 0
       /\ \A y \in h.server : y # s => matchIndex'[y] = matchIndex[y]
  <2>1. matchIndex \in [h.server -> [h.server -> Nat]] /\ [p \in h.server |-> 0] \in [h.server -> Nat]
    BY <1>1 DEF TypesOK
  <2>2. PICK zero : zero = [p \in h.server |-> 0]
    OBVIOUS
  <2> QED
    BY <1>14, <2>1, <2>2
<1>18. TypesOK(g)'
  <2>1. TypesOK(h)'
    BY <1>1, <1>14, <1>15, <1>16, <1>17 DEF TypesOK
  <2> QED
    BY <1>9, <2>1 DEF TypesOK, Entries
<1>19. LeadersOK(g)'
  <2>1. ASSUME NEW y \in h.server, role'[y] = "Leader"
        PROVE  /\ term[y] \in g.led /\ g.leader[term[y]] = y /\ g.line[term[y]] = log'[y]
               /\ \A c \in h.commits : c.term = term[y] => c.index <= commitIndex[y]
    <3>1. CASE y = s
      BY <1>2, <1>6, <1>9, <1>11, <1>12, <1>16, <3>1
    <3>2. CASE y # s
      <4>1. /\ term[y] \in h.led /\ h.leader[term[y]] = y /\ h.line[term[y]] = log[y]
            /\ \A c \in h.commits : c.term = term[y] => c.index <= commitIndex[y]
        BY <1>15, <2>1, <3>2 DEF ServersOK, LeadersOK
      <4> QED
        BY <1>9, <1>10, <1>16, <3>2, <4>1
    <3> QED
      BY <3>1, <3>2
  <2> QED
    BY <1>9, <1>14, <2>1 DEF LeadersOK
<1>20. \A y \in h.server : log[y] \in Seq(Entries(h)) /\ OnLines(h, log[y]) /\ term[y] \in Nat /\ commitIndex[y] \in Nat
  BY <1>1, StateFacts DEF ServersOK, LogsOK
<1>21. LogsOK(g)'
  <2>1. ASSUME NEW y \in h.server, y # s PROVE OnLines(g, log'[y])
    <3>1. PICK w : w = log[y]
      OBVIOUS
    <3>2. OnLines(g, w)
      BY <1>8, <1>20, <3>1, GrownOnLines DEF HistoryOK
    <3> QED
      BY <1>16, <2>1, <3>1, <3>2
  <2>2. OnLines(g, log'[s]) /\ \A i \in DOMAIN log'[s] : log'[s][i].term <= term[s]
    <3>1. t \in g.led
      BY <1>9
    <3>2. OnLines(g, x)
      <4>1. g.line[t] = x
        BY <1>9, <1>12
      <4>2. OnLines(g, g.line[t])
        BY <1>8, <3>1 DEF HistoryOK, LinesOK
      <4> QED
        BY <4>1, <4>2
    <3>3. ASSUME NEW i \in DOMAIN x PROVE x[i].term <= t
      <4>1. i \in 1..(Len(b) + 1)
        BY <1>13
      <4>2. CASE i \in 1..Len(b)
        <5>1. i \in DOMAIN b /\ x[i] = b[i]
          BY <1>6, <1>13, <4>2
        <5>2. b[i].term \in Nat
          BY <1>6, <4>2, EntryAt
        <5> QED
          BY <1>6, <5>1, <5>2
      <4>3. CASE i = Len(b) + 1
        BY <1>6, <1>13, <4>3 DEF NoOp
      <4> QED
        BY <1>13, <4>1, <4>2, <4>3
    <3> QED
      BY <1>2, <1>16, <3>2, <3>3
  <2> QED
    BY <1>9, <1>14, <1>15, <1>16, <2>1, <2>2 DEF ServersOK, LogsOK
<1>22. VotersOK(g)'
  <2>1. \A v \in Q : term[v] >= t /\ (term[v] = t => votedFor[v] = s)
    BY <1>2, <1>4, <1>5 DEF ServersOK, CandidatesOK
  <2>2. t >= t
    BY <1>6
  <2> QED
    BY <1>2, <1>9, <1>10, <1>14, <2>1, <2>2 DEF ServersOK, VotersOK
<1>23. CandidatesOK(g)'
  <2>1. ASSUME NEW c \in h.server, role'[c] = "Candidate"
        PROVE  c # s /\ role[c] = "Candidate" /\ log'[c] = log[c] /\ term[c] > 0
    BY <1>15, <1>16, <2>1 DEF ServersOK, CandidatesOK
  <2>2. ASSUME NEW c \in h.server, role'[c] = "Candidate", term[c] \in g.led PROVE g.leader[term[c]] # c
    BY <1>9, <1>10, <2>1, <2>2 DEF ServersOK, CandidatesOK
  <2> QED
    BY <1>9, <1>14, <2>1, <2>2 DEF ServersOK, CandidatesOK
<1>24. RivalsOK(g)'
  <2>1. ASSUME NEW c \in h.server, role'[c] = "Candidate" PROVE c # s /\ role[c] = "Candidate"
    BY <1>15, <2>1
  <2>2. ASSUME NEW c \in h.server, role'[c] = "Candidate", term[c] \in g.led
        PROVE  votes[c] \cap g.quorum[term[c]] = {}
    <3>1. CASE term[c] = t
      BY <1>2, <1>4, <1>5, <1>9, <2>1, <2>2, <3>1 DEF ServersOK, RivalsOK
    <3>2. CASE term[c] \in h.led
      BY <1>10, <2>1, <2>2, <3>2 DEF ServersOK, RivalsOK
    <3> QED
      BY <1>9, <2>2, <3>1, <3>2
  <2> QED
    BY <1>9, <1>14, <2>1, <2>2 DEF ServersOK, RivalsOK
<1>25. KnownOK(g)'
  <2>1. ASSUME NEW y \in h.server
        PROVE  commitIndex[y] <= Len(log'[y]) /\ \A j \in 1..commitIndex[y] : log'[y][j] = log[y][j]
    <3>1. commitIndex[y] <= Len(log[y])
      BY DEF ServersOK, KnownOK
    <3>2. CASE y # s
      BY <1>16, <3>1, <3>2
    <3>3. CASE y = s
      <4>1. PICK m \in Nat : m = commitIndex[s] /\ m <= Len(b)
        BY <1>3, <1>20, <3>1, <3>3
      <4>2. m <= Len(x) /\ \A j \in 1..m : x[j] = b[j]
        BY <1>13, <4>1
      <4> QED
        BY <1>3, <1>16, <3>3, <4>1, <4>2
    <3> QED
      BY <3>2, <3>3
  <2> QED
    BY <1>9, <1>10, <1>11, <1>14, <2>1 DEF ServersOK, KnownOK
<1>26. ASSUME NEW v \in h.server, NEW k, NEW u \in Nat, Holds(h, v, k, u) PROVE Holds(g, v, k, u)'
  <2>1. Has(log[v], k, u) => Has(log'[v], k, u)
    <3>1. ASSUME Has(b, k, u) PROVE Has(x, k, u)
      <4>1. k \in 1..Len(b) /\ b[k].term = u
        BY <1>6, <3>1 DEF Has
      <4>2. k \in DOMAIN x /\ x[k] = b[k]
        BY <1>13, <4>1
      <4> QED
        BY <4>1, <4>2 DEF Has
    <3> QED
      BY <1>3, <1>16, <3>1
  <2>2. \A c \in h.server : role'[c] = "Candidate" => role[c] = "Candidate"
    BY <1>15
  <2>3. g.led = h.led \cup {t} /\ g.quorum[t] = votes[s] /\ g.ballot = h.ballot
    BY <1>4, <1>9
  <2> QED
    BY <1>1, <1>2, <1>5, <1>6, <1>8, <1>14, <1>26, <2>1, <2>2, <2>3, WinHolds
<1>27. QuorumsHold(g)'
  <2>1. ASSUME NEW c \in h.commits, NEW v \in c.quorum PROVE Holds(g, v, c.index, c.term)'
    <3>1. Holds(h, v, c.index, c.term)
      BY DEF ServersOK, QuorumsHold
    <3> QED
      BY <1>11, <1>26, <3>1
  <2> QED
    BY <1>9, <2>1 DEF QuorumsHold
<1>28. MatchesHold(g)'
  <2>1. ASSUME NEW l \in h.server, role'[l] = "Leader", l # s, NEW f \in h.server
        PROVE  /\ matchIndex[l][f] <= Len(log[l])
               /\ \A k \in (h.base[term[l]] + 1)..matchIndex[l][f] : Holds(g, f, k, term[l])'
    <3>1. role[l] = "Leader"
      BY <1>15, <2>1
    <3>2. ASSUME NEW k \in (h.base[term[l]] + 1)..matchIndex[l][f] PROVE Holds(g, f, k, term[l])'
      <4>1. Holds(h, f, k, term[l])
        BY <3>1 DEF ServersOK, MatchesHold
      <4>2. PICK u \in Nat : u = term[l]
        BY <1>20
      <4>3. Holds(g, f, k, u)'
        BY <1>26, <4>1, <4>2
      <4> QED
        BY <1>14, <4>2, <4>3 DEF Holds
    <3> QED
      BY <3>1, <3>2 DEF ServersOK, MatchesHold
  <2>2. ASSUME NEW l \in h.server, role'[l] = "Leader", l # s PROVE g.base[term[l]] = h.base[term[l]]
    BY <1>10, <1>15, <2>2 DEF ServersOK, LeadersOK
  <2>3. \A f \in h.server : matchIndex'[s][f] <= Len(log'[s]) /\ (g.base[term[s]] + 1)..matchIndex'[s][f] = {}
    <3>1. Len(x) >= 0 /\ (Len(b) + 1)..0 = {}
      BY <1>13
    <3> QED
      BY <1>2, <1>9, <1>16, <1>17, <3>1
  <2>4. ASSUME NEW l \in h.server, role'[l] = "Leader", NEW f \in h.server
        PROVE  /\ matchIndex'[l][f] <= Len(log'[l])
               /\ \A k \in (g.base[term'[l]] + 1)..matchIndex'[l][f] : Holds(g, f, k, term[l])'
    <3>1. CASE l = s
      BY <1>14, <2>3, <3>1
    <3>2. CASE l # s
      BY <1>14, <1>16, <1>17, <2>1, <2>2, <2>4, <3>2
    <3> QED
      BY <3>1, <3>2
  <2> QED
    BY <1>9, <2>4 DEF MatchesHold
<1>29. ChosenOK(g)'
  BY <1>9, <1>10, <1>11, <1>14 DEF ServersOK, ChosenOK
<1>30. WideOK(g)'
  <2>1. ASSUME AtLeastTwo, NEW i \in DOMAIN x, x[i].members # {} PROVE Cardinality(x[i].members) >= 2
    <3>1. i \in 1..(Len(b) + 1) /\ i # Len(b) + 1
      BY <1>13, <2>1 DEF NoOp
    <3>2. i \in DOMAIN b /\ x[i] = b[i]
      BY <1>6, <1>13, <3>1
    <3> QED
      BY <1>3, <2>1, <3>2 DEF ServersOK, WideOK
  <2> QED
    BY <1>9, <1>14, <1>16, <2>1 DEF ServersOK, WideOK
<1>31. ServersOK(g)'
  BY <1>18, <1>19, <1>21, <1>22, <1>23, <1>24, <1>25, <1>27, <1>28, <1>29, <1>30 DEF ServersOK
<1>32. g.led = h.led \cup {term'[s]} /\ role'[s] = "Leader"
  BY <1>2, <1>9, <1>14, <1>15
<1> QED
  BY <1>8, <1>31, <1>32 DEF Explains

-----------------------------------------------------------------------------
(* A commitment: those who acknowledged the entry hold it, so every later  *)
(* leader has it.                                                          *)

Counted(h, l, t, k, R) ==
    /\ t = term[l] /\ role[l] = "Leader" /\ t \in h.led /\ h.leader[t] = l /\ h.line[t] = log[l]
    /\ k \in (h.base[t] + 1)..Len(log[l]) /\ k > commitIndex[l]
    /\ R \in SUBSET h.server /\ IsMajority(R, MembersAt(h, h.line[t], Len(h.line[t])))
    /\ \A v \in R : Holds(h, v, k, t)
    /\ UNCHANGED <<term, votedFor, votes, log, matchIndex, env>>
    /\ commitIndex' = [commitIndex EXCEPT ![l] = k]
    /\ chosen' = chosen \cup {[index |-> i, entry |-> log[l][i]] : i \in 1..k}
    /\ role' \in [h.server -> {"Follower", "Candidate", "Leader"}]
    /\ \A s \in h.server : role'[s] = role[s] \/ (s = l /\ role'[s] = "Follower")

LEMMA LeaderHolds ==
    ASSUME NEW h, HistoryOK(h), ServersOK(h), NEW l \in h.server, role[l] = "Leader",
           NEW t, t = term[l], NEW k, Has(log[l], k, t)
    PROVE  Holds(h, l, k, t)
<1>1. term[l] \in Nat /\ \A c \in h.server : term[c] \in Nat
  BY StateFacts DEF ServersOK
<1>2. ASSUME NEW c \in h.server, role[c] = "Candidate", l \in votes[c], term[c] > t PROVE FALSE
  <2>1. term[l] >= term[c]
    BY <1>2 DEF ServersOK, CandidatesOK
  <2> QED
    BY <1>1, <1>2, <2>1
<1>3. ASSUME NEW z \in h.led, z > t, l \in h.quorum[z] PROVE FALSE
  <2>1. term[l] >= z
    BY <1>3 DEF ServersOK, VotersOK
  <2>2. z \in Nat
    BY LineFacts
  <2> QED
    BY <1>1, <1>3, <2>1, <2>2
<1>4. term[l] >= t
  BY <1>1
<1> QED
  BY <1>2, <1>3, <1>4 DEF Holds

LEMMA CountIs ==
    ASSUME NEW h, HistoryOK(h), ServersOK(h), NEW l \in h.server, MaybeCommit(l)
    PROVE  \E t \in Nat : \E k \in Nat : \E R : Counted(h, l, t, k, R)
<1> DEFINE held(i) == {s \in Members(l) : Acknowledged(l, s, Members(l)) >= i}
           S == {0} \cup {i \in DOMAIN log[l] : IsMajority(held(i), Members(l))}
<1>1. TypesOK(h)
  BY DEF ServersOK
<1>2. PICK k : k = Max(S)
  OBVIOUS
<1>3. /\ role[l] = "Leader" /\ k > commitIndex[l] /\ log[l][k].term = term[l]
      /\ commitIndex' = [commitIndex EXCEPT ![l] = k]
      /\ chosen' = chosen \cup {[index |-> i, entry |-> log[l][i]] : i \in 1..k}
      /\ role' = [role EXCEPT ![l] = IF l \notin Members(l) /\ ConfigIndex(l) <= k THEN "Follower" ELSE @]
      /\ UNCHANGED <<term, votedFor, votes, log, matchIndex, env>>
  BY <1>2 DEF MaybeCommit
<1>4. /\ term[l] \in Nat /\ log[l] \in Seq(Entries(h)) /\ Len(log[l]) \in Nat /\ commitIndex[l] \in Nat
      /\ matchIndex[l] \in [h.server -> Nat]
  BY <1>1, StateFacts
<1>5. PICK t \in Nat : t = term[l]
  BY <1>4
<1>6. t \in h.led /\ h.leader[t] = l /\ h.line[t] = log[l]
  BY <1>3, <1>5 DEF ServersOK, LeadersOK
<1>7. h.base[t] \in Nat
  BY <1>6, LineFacts
<1>8. k \in S /\ S \in SUBSET Nat
  <2>1. DOMAIN log[l] = 1..Len(log[l])
    BY <1>4
  <2>2. S \in SUBSET Nat /\ 0 \in S /\ \A x \in S : x <= Len(log[l])
    BY <1>4, <2>1
  <2> HIDE DEF S
  <2> QED
    BY <1>2, <1>4, <2>2, Greatest
<1>9. PICK R : R = held(k)
  OBVIOUS
<1>10. k \in Nat /\ k \in DOMAIN log[l] /\ IsMajority(R, Members(l)) /\ k > 0
  <2>1. k \in Nat /\ k > 0
    BY <1>3, <1>4, <1>8
  <2> QED
    BY <1>8, <1>9, <2>1
<1>11. k \in 1..Len(log[l]) /\ k > h.base[t]
  <2>1. k \in 1..Len(log[l])
    BY <1>4, <1>10
  <2>2. IF k > h.base[t] THEN log[l][k].term = t ELSE log[l][k].term < t
    BY <1>6, <1>10 DEF HistoryOK, LinesOK
  <2> QED
    BY <1>3, <1>5, <2>1, <2>2
<1>12. k \in (h.base[t] + 1)..Len(log[l])
  BY <1>4, <1>7, <1>11
<1>13. Members(l) = MembersAt(h, log[l], Len(log[l])) /\ Members(l) \in SUBSET h.server
  <2>1. Members(l) = MembersAt(h, log[l], Len(log[l]))
    BY <1>1, MembersIs
  <2>2. PICK x : x = log[l]
    OBVIOUS
  <2>3. Len(x) \in Nat /\ Len(x) <= Len(x) /\ x \in Seq(Entries(h))
    BY <1>4, <2>2
  <2>4. MembersAt(h, x, Len(x)) \in SUBSET h.server
    BY <2>3, MembersAreServers DEF HistoryOK
  <2> QED
    BY <2>1, <2>2, <2>4
<1>14. R \in SUBSET h.server /\ IsMajority(R, MembersAt(h, h.line[t], Len(h.line[t])))
  BY <1>6, <1>9, <1>10, <1>13
<1>15. ASSUME NEW v \in R PROVE Holds(h, v, k, t)
  <2>1. CASE v = l
    <3>1. Has(log[l], k, t)
      BY <1>3, <1>5, <1>10 DEF Has
    <3> QED
      BY <1>3, <1>5, <2>1, <3>1, LeaderHolds
  <2>2. CASE v # l
    <3>1. v \in h.server /\ matchIndex[l][v] >= k /\ matchIndex[l][v] \in Nat
      BY <1>4, <1>9, <1>14, <2>2 DEF Acknowledged
    <3>2. k \in (h.base[t] + 1)..matchIndex[l][v]
      BY <1>7, <1>11, <3>1
    <3> QED
      BY <1>3, <1>5, <3>1, <3>2 DEF ServersOK, MatchesHold
  <2> QED
    BY <2>1, <2>2
<1>16. /\ role' \in [h.server -> {"Follower", "Candidate", "Leader"}]
       /\ \A s \in h.server : role'[s] = role[s] \/ (s = l /\ role'[s] = "Follower")
  BY <1>1, <1>3 DEF TypesOK
<1>17. Counted(h, l, t, k, R)
  BY <1>3, <1>5, <1>6, <1>12, <1>14, <1>15, <1>16 DEF Counted
<1> QED
  BY <1>10, <1>17

LEMMA MaybeCommitStep ==
    ASSUME NEW h, HistoryOK(h), ServersOK(h), NEW l \in h.server, MaybeCommit(l)
    PROVE  \E g : Explains(h, g)
<1>1. TypesOK(h)
  BY DEF ServersOK
<1>2. PICK t, k, R : t \in Nat /\ k \in Nat /\ Counted(h, l, t, k, R)
  BY CountIs
<1>3. /\ t = term[l] /\ role[l] = "Leader" /\ t \in h.led /\ h.leader[t] = l /\ h.line[t] = log[l]
      /\ k \in (h.base[t] + 1)..Len(h.line[t]) /\ k > commitIndex[l]
      /\ R \in SUBSET h.server /\ IsMajority(R, MembersAt(h, h.line[t], Len(h.line[t])))
      /\ \A v \in R : Holds(h, v, k, t)
  BY <1>2 DEF Counted
<1>4. /\ term' = term /\ votedFor' = votedFor /\ votes' = votes /\ log' = log
      /\ matchIndex' = matchIndex /\ env' = env
      /\ commitIndex' = [commitIndex EXCEPT ![l] = k]
      /\ chosen' = chosen \cup {[index |-> i, entry |-> log[l][i]] : i \in 1..k}
      /\ role' \in [h.server -> {"Follower", "Candidate", "Leader"}]
      /\ \A s \in h.server : role'[s] = role[s] \/ (s = l /\ role'[s] = "Follower")
  BY <1>2 DEF Counted
<1>5. \A s \in h.server : term[s] \in Nat /\ commitIndex[s] \in Nat /\ Len(log[s]) \in Nat
  BY <1>1, StateFacts
<1>6. /\ commitIndex' \in [h.server -> Nat] /\ commitIndex'[l] = k
      /\ \A s \in h.server : s # l => commitIndex'[s] = commitIndex[s]
  BY <1>1, <1>2, <1>4 DEF TypesOK
<1>7. \A z \in h.led : z > t => Has(h.line[z], k, t)
  <2>1. \A z \in h.led : \A v \in R \cap h.quorum[z] :
           z > t => Has(h.ballot[z][v], k, t) \/ Lost(h, k, t, z - 1)
    BY <1>3 DEF Holds
  <2> QED
    BY <1>3, <2>1, CommitIsComplete
<1>8. \A d \in h.commits : d.term = t => d.index < k
  <2>1. ASSUME NEW d \in h.commits, d.term = t PROVE d.index < k
    <3>1. d.index \in Nat
      BY CommitFacts
    <3>2. d.index <= commitIndex[l]
      BY <1>3, <2>1 DEF ServersOK, LeadersOK
    <3> QED
      BY <1>3, <1>5, <3>1, <3>2
  <2> QED
    BY <2>1
<1>9. PICK c : c = [term |-> t, index |-> k, length |-> Len(h.line[t]), quorum |-> R]
  OBVIOUS
<1>10. PICK g : g = Committed(h, c)
  OBVIOUS
<1>11. /\ HistoryOK(g) /\ Grown(h, g)
       /\ g.server = h.server /\ g.first = h.first /\ g.led = h.led /\ g.leader = h.leader
       /\ g.line = h.line /\ g.base = h.base /\ g.quorum = h.quorum /\ g.ballot = h.ballot
       /\ g.commits = h.commits \cup {c}
  <2>1. HistoryOK(g) /\ Grown(h, g)
    BY <1>3, <1>7, <1>8, <1>9, <1>10, CommittedIsHistory, Zenon
  <2> QED
    BY <1>10, <2>1 DEF Committed
<1>12. c.term = t /\ c.index = k /\ c.quorum = R /\ c \in g.commits /\ h.commits \subseteq g.commits
  BY <1>9, <1>11
<1>13. TypesOK(g)'
  <2>1. TypesOK(h)'
    BY <1>1, <1>4, <1>6 DEF TypesOK
  <2> QED
    BY <1>11, <2>1 DEF TypesOK, Entries
<1>14. \A s \in h.server : /\ role'[s] = "Leader" => role[s] = "Leader"
                           /\ role'[s] = "Candidate" => role[s] = "Candidate"
  BY <1>4
<1>15. LeadersOK(g)'
  <2>1. ASSUME NEW s \in h.server, role'[s] = "Leader", NEW d \in g.commits, d.term = term[s]
        PROVE  d.index <= commitIndex'[s]
    <3>1. role[s] = "Leader"
      BY <1>14, <2>1
    <3>2. CASE d = c
      <4>1. s = l
        BY <1>3, <1>12, <2>1, <3>1, <3>2 DEF ServersOK, LeadersOK
      <4> QED
        BY <1>6, <1>12, <3>2, <4>1
    <3>3. CASE d \in h.commits
      <4>1. d.index <= commitIndex[s] /\ d.index \in Nat
        BY <2>1, <3>1, <3>3, CommitFacts DEF ServersOK, LeadersOK
      <4>2. commitIndex[s] <= commitIndex'[s] /\ commitIndex'[s] \in Nat
        BY <1>3, <1>5, <1>6
      <4> QED
        BY <1>5, <4>1, <4>2
    <3> QED
      BY <1>11, <2>1, <3>2, <3>3
  <2> QED
    BY <1>4, <1>11, <1>14, <2>1 DEF ServersOK, LeadersOK
<1>16. LogsOK(g)' /\ VotersOK(g)'
  <2>1. \A s \in h.server : OnLines(h, log[s]) => OnLines(g, log[s])
    BY <1>11 DEF OnLines
  <2> QED
    BY <1>4, <1>11, <1>14, <2>1 DEF ServersOK, LogsOK, VotersOK
<1>17. CandidatesOK(g)' /\ RivalsOK(g)'
  BY <1>4, <1>11, <1>14 DEF ServersOK, CandidatesOK, RivalsOK
<1>18. KnownOK(g)'
  <2>1. ASSUME NEW s \in h.server, s # l
        PROVE  /\ commitIndex'[s] <= Len(log[s])
               /\ commitIndex'[s] > 0 => \E d \in g.commits :
                    /\ d.term <= term[s] /\ commitIndex'[s] <= d.index
                    /\ \A j \in 1..commitIndex'[s] : log[s][j] = h.line[d.term][j]
    BY <1>6, <1>12, <2>1 DEF ServersOK, KnownOK
  <2>2. /\ commitIndex'[l] <= Len(log[l])
        /\ c.term <= term[l] /\ commitIndex'[l] <= c.index
        /\ \A j \in 1..commitIndex'[l] : log[l][j] = h.line[c.term][j]
    <3>1. h.base[t] \in Nat
      BY <1>3, LineFacts
    <3> QED
      BY <1>3, <1>5, <1>6, <1>12, <3>1
  <2>3. ASSUME NEW s \in h.server
        PROVE  /\ commitIndex'[s] <= Len(log[s])
               /\ commitIndex'[s] > 0 => \E d \in g.commits :
                    /\ d.term <= term[s] /\ commitIndex'[s] <= d.index
                    /\ \A j \in 1..commitIndex'[s] : log[s][j] = h.line[d.term][j]
    BY <1>12, <2>1, <2>2
  <2> QED
    BY <1>4, <1>11, <2>3 DEF KnownOK
<1>19. ASSUME NEW v \in h.server, NEW i, NEW u, Holds(h, v, i, u) PROVE Holds(g, v, i, u)'
  <2>1. \A z : Lost(h, i, u, z) <=> Lost(g, i, u, z)
    BY <1>11 DEF Lost
  <2> QED
    BY <1>4, <1>11, <1>14, <1>19, <2>1 DEF Holds
<1>20. QuorumsHold(g)'
  <2>1. ASSUME NEW d \in g.commits, NEW v \in d.quorum PROVE Holds(g, v, d.index, d.term)'
    <3>1. v \in h.server
      BY <1>11, CommitFacts
    <3>2. Holds(h, v, d.index, d.term)
      BY <1>3, <1>11, <1>12 DEF ServersOK, QuorumsHold
    <3> QED
      BY <1>19, <3>1, <3>2
  <2> QED
    BY <2>1 DEF QuorumsHold
<1>21. MatchesHold(g)'
  <2>1. ASSUME NEW s \in h.server, role'[s] = "Leader", NEW f \in h.server,
               NEW i \in (h.base[term[s]] + 1)..matchIndex[s][f]
        PROVE  Holds(g, f, i, term[s])'
    <3>1. Holds(h, f, i, term[s])
      BY <1>14, <2>1 DEF ServersOK, MatchesHold
    <3>2. PICK u : u = term[s]
      OBVIOUS
    <3>3. Holds(g, f, i, u)'
      BY <1>19, <3>1, <3>2
    <3> QED
      BY <1>4, <3>2, <3>3 DEF Holds
  <2> QED
    BY <1>4, <1>11, <1>14, <2>1 DEF ServersOK, MatchesHold
<1>22. ChosenOK(g)'
  <2>1. ASSUME NEW e \in chosen'
        PROVE  \E d \in g.commits :
                 e.index \in 1..d.index /\ e = [index |-> e.index, entry |-> h.line[d.term][e.index]]
    <3>1. CASE e \in chosen
      BY <1>12, <3>1 DEF ServersOK, ChosenOK
    <3>2. CASE e \in {[index |-> i, entry |-> log[l][i]] : i \in 1..k}
      <4>1. PICK i \in 1..k : e = [index |-> i, entry |-> log[l][i]]
        BY <3>2
      <4>2. e.index = i /\ e = [index |-> e.index, entry |-> h.line[c.term][e.index]]
        BY <1>3, <1>12, <4>1
      <4> QED
        BY <1>12, <4>2
    <3> QED
      BY <1>4, <3>1, <3>2
  <2>2. \E b \in Nat : \A e \in chosen' : e.index <= b
    <3>1. PICK b \in Nat : \A e \in chosen : e.index <= b
      BY DEF ServersOK, ChosenOK
    <3>2. ASSUME NEW e \in chosen' PROVE e.index \in Int /\ (e.index <= b \/ e.index <= k)
      <4>1. PICK d \in g.commits : e.index \in 1..d.index
        BY <2>1
      <4>2. e \in chosen \/ \E i \in 1..k : e = [index |-> i, entry |-> log[l][i]]
        BY <1>4
      <4>3. e \in chosen \/ e.index \in 1..k
        BY <4>2
      <4> QED
        BY <3>1, <4>1, <4>3
    <3>3. \A e \in chosen' : e.index <= b + k
      BY <1>2, <3>2
    <3>4. b + k \in Nat
      BY <1>2
    <3> QED
      BY <3>3, <3>4
  <2> QED
    BY <1>11, <2>1, <2>2 DEF ChosenOK
<1>23. WideOK(g)'
  BY <1>4, <1>11 DEF ServersOK, WideOK
<1>24. ServersOK(g)'
  BY <1>13, <1>15, <1>16, <1>17, <1>18, <1>20, <1>21, <1>22, <1>23 DEF ServersOK
<1> QED
  BY <1>11, <1>24 DEF Explains

-----------------------------------------------------------------------------
(* A change of the members: the leader has committed an entry of its own   *)
(* term since the last one.                                                *)

LEMMA SettledSupports ==
    ASSUME NEW h, HistoryOK(h), ServersOK(h), NEW l \in h.server, role[l] = "Leader",
           TermIsSettled(l), NoChangePending(l), NEW t, t = term[l]
    PROVE  \E c : Supports(h, c, t, Len(h.line[t]) + 1)
<1>1. TypesOK(h)
  BY DEF ServersOK
<1>2. /\ term[l] \in Nat /\ log[l] \in Seq(Entries(h)) /\ Len(log[l]) \in Nat /\ commitIndex[l] \in Nat
  BY <1>1, StateFacts
<1>3. t \in h.led /\ h.line[t] = log[l] /\ t \in Nat /\ t > 0
  <2>1. t \in h.led /\ h.line[t] = log[l]
    BY DEF ServersOK, LeadersOK
  <2> QED
    BY <2>1, LineFacts
<1>4. PICK i \in Nat : i = commitIndex[l] /\ i <= Len(log[l])
  BY <1>2 DEF ServersOK, KnownOK
<1>5. PICK x : x = log[l]
  OBVIOUS
<1>6. x \in Seq(Entries(h)) /\ i \in 0..Len(x) /\ TermAt(x, i) = t
  BY <1>2, <1>4, <1>5 DEF TermIsSettled
<1>7. i > 0 /\ i \in DOMAIN x /\ x[i].term = t
  BY <1>3, <1>4, <1>6, TermAtIs
<1>8. PICK c \in h.commits : /\ c.term <= term[l] /\ i <= c.index
                             /\ \A j \in 1..i : log[l][j] = h.line[c.term][j]
  BY <1>4, <1>7 DEF ServersOK, KnownOK
<1>9. c.term \in h.led /\ c.term \in Nat /\ c.index \in Nat /\ c.index \in 1..Len(h.line[c.term])
  BY CommitFacts
<1>10. c.term = t
  <2>1. h.line[c.term] \in Seq(Entries(h)) /\ h.base[c.term] \in Nat /\ Len(h.line[c.term]) \in Nat
    BY <1>9, LineFacts
  <2>2. i \in 1..Len(h.line[c.term])
    BY <1>4, <1>7, <1>8, <1>9, <2>1
  <2>3. i \in DOMAIN h.line[c.term]
    BY <2>1, <2>2
  <2>4. IF i > h.base[c.term] THEN h.line[c.term][i].term = c.term ELSE h.line[c.term][i].term < c.term
    BY <1>9, <2>3 DEF HistoryOK, LinesOK
  <2>5. h.line[c.term][i].term = t
    BY <1>4, <1>5, <1>7, <1>8
  <2> QED
    BY <1>2, <1>3, <1>8, <1>9, <2>4, <2>5
<1>11. c.index = i
  <2>1. c.index <= commitIndex[l]
    BY <1>10 DEF ServersOK, LeadersOK
  <2> QED
    BY <1>4, <1>8, <1>9, <2>1
<1>12. NoChange(x, i, Len(x))
  <2>1. ChangeIndex(x, Len(x)) <= i
    BY <1>1, <1>4, <1>5, MembersIs DEF NoChangePending
  <2>2. ChangeIndex(x, Len(x)) \in 0..Len(x) /\ NoChange(x, ChangeIndex(x, Len(x)), Len(x))
    BY <1>2, <1>5, ChangeFacts
  <2>3. PICK m \in Nat : m = ChangeIndex(x, Len(x))
    BY <2>2
  <2> QED
    BY <1>2, <1>5, <2>1, <2>2, <2>3 DEF NoChange
<1>13. i < Len(x) + 1 /\ (Len(x) + 1) - 1 = Len(x)
  BY <1>2, <1>4, <1>5
<1> QED
  BY <1>3, <1>5, <1>10, <1>11, <1>12, <1>13 DEF Supports

LEMMA ProposeHolds ==
    ASSUME NEW h, HistoryOK(h), TypesOK(h), NEW g, HistoryOK(g), Grown(h, g),
           g.led = h.led, g.ballot = h.ballot, g.quorum = h.quorum,
           UNCHANGED <<term, role, votes>>,
           NEW v \in h.server, NEW k, NEW u \in Nat,
           Has(log[v], k, u) => Has(log'[v], k, u), Holds(h, v, k, u)
    PROVE  Holds(g, v, k, u)'
<1>1. \A z : Lost(h, k, u, z) => Lost(g, k, u, z)
  BY GrownLost DEF HistoryOK
<1>2. g.server = h.server
  BY DEF Grown
<1> QED
  BY <1>1, <1>2 DEF Holds

LEMMA ProposeStep ==
    ASSUME NEW h, HistoryOK(h), ServersOK(h), NEW l \in h.server, NEW members \in SUBSET h.server,
           ProposeMembership(l, members)
    PROVE  \E g : Explains(h, g)
<1>1. TypesOK(h) /\ Server = h.server
  BY StateFacts DEF ServersOK
<1>2. /\ role[l] = "Leader" /\ TermIsSettled(l) /\ NoChangePending(l)
      /\ Cardinality(members) >= env.minMembers /\ OneApart(members, Members(l))
  BY DEF ProposeMembership, MinMembers, OneApart
<1>3. \A s \in h.server : /\ term[s] \in Nat /\ commitIndex[s] \in Nat /\ log[s] \in Seq(Entries(h))
                          /\ Len(log[s]) \in Nat /\ matchIndex[s] \in [h.server -> Nat]
                          /\ OnLines(h, log[s])
  BY <1>1, StateFacts DEF ServersOK, LogsOK
<1>4. PICK t \in Nat : t = term[l]
  BY <1>3
<1>5. t \in h.led /\ h.leader[t] = l /\ h.line[t] = log[l]
  BY <1>2, <1>4 DEF ServersOK, LeadersOK
<1>6. PICK b : b = log[l]
  OBVIOUS
<1>7. PICK e : e = [term |-> t, members |-> members]
  OBVIOUS
<1>8. e \in Entries(h) /\ e.term = t /\ e.members = members /\ b \in Seq(Entries(h)) /\ Len(b) \in Nat
  BY <1>3, <1>6, <1>7 DEF Entries
<1>9. OneApart(e.members, MembersAt(h, h.line[t], Len(h.line[t])))
  BY <1>1, <1>2, <1>5, <1>8, MembersIs
<1>10. \E c : Supports(h, c, t, Len(h.line[t]) + 1)
  BY <1>2, <1>4, SettledSupports
<1>11. PICK g : g = Proposed(h, t, e)
  OBVIOUS
<1>12. HistoryOK(g) /\ Grown(h, g)
  BY <1>5, <1>8, <1>9, <1>10, <1>11, ProposedIsHistory, Zenon
<1>13. PICK x : x = Append(b, e)
  OBVIOUS
<1>14. /\ x \in Seq(Entries(h)) /\ Len(x) = Len(b) + 1 /\ x[Len(b) + 1] = e
       /\ \A j \in 1..Len(b) : x[j] = b[j]
  BY <1>8, <1>13, Appended
<1>15. /\ g.server = h.server /\ g.first = h.first /\ g.led = h.led /\ g.leader = h.leader
       /\ g.base = h.base /\ g.quorum = h.quorum /\ g.ballot = h.ballot /\ g.commits = h.commits
       /\ g.line = [h.line EXCEPT ![t] = x] /\ h.line \in [Nat -> Seq(Entries(h))]
  BY <1>5, <1>6, <1>11, <1>13 DEF Proposed, HistoryOK, IsHistory
<1>16. g.line[t] = x /\ \A u \in Nat : u # t => g.line[u] = h.line[u]
  BY <1>15
<1>17. /\ term' = term /\ votedFor' = votedFor /\ role' = role /\ votes' = votes
       /\ commitIndex' = commitIndex /\ chosen' = chosen /\ env' = env
       /\ log' = [log EXCEPT ![l] = x]
       /\ matchIndex' = [matchIndex EXCEPT ![l] =
                           [s \in h.server |-> IF s \in members THEN matchIndex[l][s] ELSE 0]]
  BY <1>1, <1>4, <1>6, <1>7, <1>13 DEF ProposeMembership, ballotVars
<1>18. /\ log' \in [h.server -> Seq(Entries(h))] /\ log'[l] = x
       /\ \A s \in h.server : s # l => log'[s] = log[s]
  <2>1. log \in [h.server -> Seq(Entries(h))]
    BY <1>1 DEF TypesOK
  <2> QED
    BY <1>14, <1>17, <2>1
<1>19. /\ matchIndex' \in [h.server -> [h.server -> Nat]]
       /\ \A s \in h.server : s # l => matchIndex'[s] = matchIndex[s]
       /\ \A f \in h.server : matchIndex'[l][f] \in {matchIndex[l][f], 0}
  <2>1. PICK m : m = [s \in h.server |-> IF s \in members THEN matchIndex[l][s] ELSE 0]
    OBVIOUS
  <2>2. m \in [h.server -> Nat] /\ \A f \in h.server : m[f] \in {matchIndex[l][f], 0}
    BY <1>3, <2>1
  <2>3. matchIndex \in [h.server -> [h.server -> Nat]] /\ matchIndex' = [matchIndex EXCEPT ![l] = m]
    BY <1>1, <1>17, <2>1 DEF TypesOK
  <2> QED
    BY <2>2, <2>3
<1>20. TypesOK(g)'
  <2>1. TypesOK(h)'
    BY <1>1, <1>17, <1>18, <1>19 DEF TypesOK
  <2> QED
    BY <1>15, <2>1 DEF TypesOK, Entries
<1>21. LeadersOK(g)'
  <2>1. ASSUME NEW s \in h.server, role[s] = "Leader" PROVE g.line[term[s]] = log'[s]
    <3>1. term[s] \in h.led /\ h.leader[term[s]] = s /\ h.line[term[s]] = log[s]
      BY <2>1 DEF ServersOK, LeadersOK
    <3>2. CASE s = l
      BY <1>4, <1>16, <1>18, <3>2
    <3>3. CASE s # l
      <4>1. term[s] # t /\ term[s] \in Nat
        BY <1>3, <1>5, <3>1, <3>3
      <4> QED
        BY <1>16, <1>18, <3>1, <3>3, <4>1
    <3> QED
      BY <3>2, <3>3
  <2> QED
    BY <1>15, <1>17, <2>1 DEF ServersOK, LeadersOK
<1>22. LogsOK(g)'
  <2>1. ASSUME NEW s \in h.server, s # l PROVE OnLines(g, log'[s])
    <3>1. PICK w : w = log[s]
      OBVIOUS
    <3>2. OnLines(g, w)
      BY <1>3, <1>12, <3>1, GrownOnLines DEF HistoryOK
    <3> QED
      BY <1>18, <2>1, <3>1, <3>2
  <2>2. OnLines(g, log'[l])
    BY <1>5, <1>12, <1>15, <1>16, <1>18 DEF HistoryOK, LinesOK
  <2>3. ASSUME NEW i \in DOMAIN log'[l] PROVE log'[l][i].term <= term[l]
    <3>1. i \in 1..(Len(b) + 1)
      BY <1>14, <1>18
    <3>2. CASE i \in 1..Len(b)
      BY <1>6, <1>8, <1>14, <1>18, <3>2 DEF ServersOK, LogsOK
    <3>3. CASE i = Len(b) + 1
      BY <1>4, <1>8, <1>14, <1>18, <3>3
    <3> QED
      BY <1>8, <3>1, <3>2, <3>3
  <2> QED
    BY <1>2, <1>15, <1>17, <1>18, <2>1, <2>2, <2>3 DEF ServersOK, LogsOK
<1>23. VotersOK(g)' /\ RivalsOK(g)'
  BY <1>15, <1>17 DEF ServersOK, VotersOK, RivalsOK
<1>24. CandidatesOK(g)'
  <2>1. \A c \in h.server : role[c] = "Candidate" => log'[c] = log[c]
    BY <1>2, <1>18
  <2>2. CandidatesOK(g)
    BY <1>15 DEF ServersOK, CandidatesOK
  <2>3. ASSUME NEW c \in g.server, role'[c] = "Candidate"
        PROVE  /\ term'[c] > 0 /\ (term'[c] \in g.led => g.leader[term'[c]] # c)
               /\ \A v \in votes'[c] :
                    /\ term'[v] >= term'[c] /\ (term'[v] = term'[c] => votedFor'[v] = c)
                    /\ IsUpToDate(g.ballot[term'[c]][v], Len(log'[c]), LastTerm(log'[c]))
    <3>1. log'[c] = log[c] /\ role[c] = "Candidate"
      BY <1>15, <1>17, <2>1, <2>3
    <3>2. /\ term[c] > 0 /\ (term[c] \in g.led => g.leader[term[c]] # c)
          /\ \A v \in votes[c] :
               /\ term[v] >= term[c] /\ (term[v] = term[c] => votedFor[v] = c)
               /\ IsUpToDate(g.ballot[term[c]][v], Len(log[c]), LastTerm(log[c]))
      BY <2>2, <2>3, <3>1 DEF CandidatesOK
    <3> QED
      BY <1>17, <3>1, <3>2
  <2> QED
    BY <2>3 DEF CandidatesOK
<1>25. \A c \in h.commits : /\ c.term \in Nat /\ c.index \in Nat /\ c.quorum \in SUBSET h.server
                            /\ \A j \in 1..c.index : g.line[c.term][j] = h.line[c.term][j]
  <2>1. ASSUME NEW c \in h.commits
        PROVE  /\ c.term \in Nat /\ c.index \in Nat /\ c.quorum \in SUBSET h.server
               /\ \A j \in 1..c.index : g.line[c.term][j] = h.line[c.term][j]
    <3>1. /\ c.term \in h.led /\ c.term \in Nat /\ c.index \in Nat /\ c.quorum \in SUBSET h.server
          /\ c.index \in 1..Len(h.line[c.term])
      BY CommitFacts
    <3>2. Len(h.line[c.term]) \in Nat
      BY <3>1, LineFacts
    <3>3. \A j \in 1..Len(h.line[c.term]) : g.line[c.term][j] = h.line[c.term][j]
      BY <1>12, <3>1 DEF Grown
    <3> QED
      BY <3>1, <3>2, <3>3
  <2> QED
    BY <2>1, Zenon
<1>26. KnownOK(g)'
  <2>1. ASSUME NEW s \in h.server
        PROVE  /\ commitIndex[s] <= Len(log[s]) /\ commitIndex[s] <= Len(log'[s])
               /\ \A j \in 1..commitIndex[s] : log'[s][j] = log[s][j]
    <3>1. PICK i \in Nat : i = commitIndex[s] /\ i <= Len(log[s])
      BY <1>3 DEF ServersOK, KnownOK
    <3>2. CASE s # l
      BY <1>18, <3>1, <3>2
    <3>3. CASE s = l
      <4>1. i <= Len(x) /\ \A j \in 1..i : x[j] = b[j]
        BY <1>6, <1>8, <1>14, <3>1, <3>3
      <4> QED
        BY <1>6, <1>18, <3>1, <3>3, <4>1
    <3> QED
      BY <3>2, <3>3
  <2>2. ASSUME NEW s \in h.server, commitIndex[s] > 0
        PROVE  \E c \in h.commits :
                 /\ c.term <= term[s] /\ commitIndex[s] <= c.index
                 /\ \A j \in 1..commitIndex[s] : log'[s][j] = g.line[c.term][j]
    <3>1. PICK c \in h.commits :
                 /\ c.term <= term[s] /\ commitIndex[s] <= c.index
                 /\ \A j \in 1..commitIndex[s] : log[s][j] = h.line[c.term][j]
      BY <2>2 DEF ServersOK, KnownOK
    <3>2. \A j \in 1..commitIndex[s] : j \in 1..c.index
      BY <1>3, <1>25, <3>1
    <3> QED
      BY <1>25, <2>1, <3>1, <3>2
  <2> QED
    BY <1>15, <1>17, <2>1, <2>2 DEF KnownOK
<1>27. ASSUME NEW v \in h.server, NEW k, NEW u \in Nat, Holds(h, v, k, u) PROVE Holds(g, v, k, u)'
  <2>1. Has(log[v], k, u) => Has(log'[v], k, u)
    <3>1. ASSUME Has(b, k, u) PROVE Has(x, k, u)
      <4>1. k \in 1..Len(b) /\ b[k].term = u
        BY <1>8, <3>1 DEF Has
      <4>2. k \in DOMAIN x /\ x[k] = b[k]
        BY <1>8, <1>14, <4>1
      <4> QED
        BY <4>1, <4>2 DEF Has
    <3> QED
      BY <1>6, <1>18, <3>1
  <2> QED
    BY <1>1, <1>12, <1>15, <1>17, <1>27, <2>1, ProposeHolds
<1>28. QuorumsHold(g)'
  <2>1. ASSUME NEW c \in h.commits, NEW v \in c.quorum PROVE Holds(g, v, c.index, c.term)'
    <3>1. Holds(h, v, c.index, c.term)
      BY DEF ServersOK, QuorumsHold
    <3> QED
      BY <1>25, <1>27, <3>1
  <2> QED
    BY <1>15, <2>1 DEF QuorumsHold
<1>29. MatchesHold(g)'
  <2>1. ASSUME NEW s \in h.server, role[s] = "Leader", NEW f \in h.server,
               NEW k \in (h.base[term[s]] + 1)..matchIndex[s][f]
        PROVE  Holds(g, f, k, term[s])'
    <3>1. Holds(h, f, k, term[s])
      BY <2>1 DEF ServersOK, MatchesHold
    <3>2. PICK u \in Nat : u = term[s]
      BY <1>3
    <3>3. Holds(g, f, k, u)'
      BY <1>27, <3>1, <3>2
    <3> QED
      BY <1>17, <3>2, <3>3 DEF Holds
  <2>2. ASSUME NEW s \in h.server, role[s] = "Leader", NEW f \in h.server
        PROVE  /\ matchIndex'[s][f] <= Len(log'[s])
               /\ matchIndex'[s][f] = matchIndex[s][f] \/ (h.base[term[s]] + 1)..matchIndex'[s][f] = {}
    <3>1. matchIndex[s][f] <= Len(log[s]) /\ matchIndex[s][f] \in Nat
      BY <1>3, <2>2 DEF ServersOK, MatchesHold
    <3>2. CASE s # l
      BY <1>18, <1>19, <3>1, <3>2
    <3>3. CASE s = l
      <4>1. h.base[t] \in Nat
        BY <1>5, LineFacts
      <4>2. matchIndex'[l][f] = matchIndex[l][f] \/ matchIndex'[l][f] = 0
        BY <1>19
      <4>3. (h.base[t] + 1)..0 = {}
        BY <4>1
      <4> QED
        BY <1>4, <1>6, <1>8, <1>14, <1>18, <3>1, <3>3, <4>2, <4>3
    <3> QED
      BY <3>2, <3>3
  <2> QED
    BY <1>15, <1>17, <2>1, <2>2 DEF MatchesHold
<1>30. ChosenOK(g)'
  <2>1. ASSUME NEW d \in chosen
        PROVE  \E c \in h.commits :
                 d.index \in 1..c.index /\ d = [index |-> d.index, entry |-> g.line[c.term][d.index]]
    <3>1. PICK c \in h.commits :
                 d.index \in 1..c.index /\ d = [index |-> d.index, entry |-> h.line[c.term][d.index]]
      BY DEF ServersOK, ChosenOK
    <3>2. g.line[c.term][d.index] = h.line[c.term][d.index]
      BY <1>25, <3>1
    <3> QED
      BY <3>1, <3>2, Zenon
  <2> QED
    BY <1>15, <1>17, <2>1 DEF ServersOK, ChosenOK
<1>31. WideOK(g)'
  <2>1. ASSUME AtLeastTwo, NEW i \in DOMAIN x, x[i].members # {} PROVE Cardinality(x[i].members) >= 2
    <3>1. i \in 1..(Len(b) + 1)
      BY <1>14
    <3>2. CASE i \in 1..Len(b)
      <4>1. i \in DOMAIN b /\ x[i] = b[i]
        BY <1>8, <1>14, <3>2
      <4> QED
        BY <1>6, <2>1, <4>1 DEF ServersOK, WideOK
    <3>3. CASE i = Len(b) + 1
      <4>1. env.minMembers >= 2 /\ env.minMembers \in Nat
        BY <1>1, <2>1 DEF ServersOK, WideOK, TypesOK
      <4>2. IsFiniteSet(members)
        BY <1>12, FS_Subset DEF HistoryOK, IsHistory, Grown
      <4>3. Cardinality(members) \in Nat
        BY <4>2, FS_CardinalityType
      <4> QED
        BY <1>2, <1>8, <1>14, <3>3, <4>1, <4>3
    <3> QED
      BY <1>8, <3>1, <3>2, <3>3
  <2> QED
    BY <1>15, <1>17, <1>18, <2>1 DEF ServersOK, WideOK
<1>32. ServersOK(g)'
  BY <1>20, <1>21, <1>22, <1>23, <1>24, <1>26, <1>28, <1>29, <1>30, <1>31 DEF ServersOK
<1> QED
  BY <1>12, <1>15, <1>32 DEF Explains

LEMMA ServerStep ==
    ASSUME NEW h, HistoryOK(h), ServersOK(h), MemberStep
    PROVE  \E g : Explains(h, g)
<1>1. Server = h.server
  BY DEF ServersOK, TypesOK, Server
<1>2. PICK s \in h.server :
        \/ Campaign(s) \/ Win(s) \/ MaybeCommit(s) \/ Restart(s)
        \/ \E members \in SUBSET h.server : ProposeMembership(s, members)
        \/ \E p \in h.server : \/ RequestVote(s, p) \/ HearOfTerm(s, p)
                               \/ \E n \in 0..Len(log[s]) : AppendEntries(s, p, n)
  BY <1>1 DEF MemberStep
<1>3. CASE Campaign(s)
  BY <1>3, CampaignStep
<1>4. CASE Win(s)
  BY <1>4, WinStep
<1>5. CASE MaybeCommit(s)
  BY <1>5, MaybeCommitStep
<1>6. CASE Restart(s)
  BY <1>6, RestartStep
<1>7. CASE \E members \in SUBSET h.server : ProposeMembership(s, members)
  BY <1>7, ProposeStep
<1>8. ASSUME NEW p \in h.server, RequestVote(s, p) PROVE \E g : Explains(h, g)
  BY <1>8, RequestVoteStep
<1>9. ASSUME NEW p \in h.server, HearOfTerm(s, p) PROVE \E g : Explains(h, g)
  BY <1>9, HearOfTermStep
<1>10. ASSUME NEW p \in h.server, NEW n \in 0..Len(log[s]), AppendEntries(s, p, n)
       PROVE  \E g : Explains(h, g)
  BY <1>10, AppendEntriesStep
<1> QED
  BY <1>2, <1>3, <1>4, <1>5, <1>6, <1>7, <1>8, <1>9, <1>10

LEMMA NoServerStep ==
    ASSUME NEW h, ServersOK(h), UNCHANGED vars
    PROVE  ServersOK(h)'
<1>1. /\ term' = term /\ votedFor' = votedFor /\ role' = role /\ votes' = votes /\ log' = log
      /\ matchIndex' = matchIndex /\ commitIndex' = commitIndex /\ chosen' = chosen /\ env' = env
  BY DEF vars, ballotVars
<1>2. TypesOK(h)' /\ LeadersOK(h)' /\ LogsOK(h)' /\ VotersOK(h)'
  BY <1>1 DEF ServersOK, TypesOK, LeadersOK, LogsOK, VotersOK
<1>3. CandidatesOK(h)' /\ RivalsOK(h)' /\ KnownOK(h)'
  BY <1>1 DEF ServersOK, CandidatesOK, RivalsOK, KnownOK
<1>4. QuorumsHold(h)' /\ MatchesHold(h)'
  BY <1>1 DEF ServersOK, QuorumsHold, MatchesHold, Holds
<1>5. ChosenOK(h)' /\ WideOK(h)'
  BY <1>1 DEF ServersOK, ChosenOK, WideOK
<1> QED
  BY <1>2, <1>3, <1>4, <1>5 DEF ServersOK

-----------------------------------------------------------------------------
(* The reads. One that its leader has been asked for after a later term    *)
(* had a leader has, among the later terms, one whose voters say no.       *)

Refuses(h, r, z) ==
    /\ z > term[r.leader] /\ TermAt(h.line[z], h.base[z]) <= term[r.leader]
    /\ r.acks \cap h.quorum[z] = {}

ReadOK(h, r) ==
    /\ r = [id |-> r.id, leader |-> r.leader, index |-> r.index, floor |-> r.floor,
            led |-> r.led, acks |-> r.acks, confirmed |-> r.confirmed]
    /\ r.leader \in h.server /\ role[r.leader] = "Leader" /\ r.led \in Nat
    /\ r.led <= term[r.leader] => r.index >= r.floor
    /\ r.led > term[r.leader] => \E z \in h.led : Refuses(h, r, z)
    /\ AtLeastTwo => (r.confirmed => r.led <= term[r.leader])

LedOK(h) == ledTerm \in Nat /\ (ledTerm = 0 \/ ledTerm \in h.led) /\ \A t \in h.led : t <= ledTerm

ReadsOK(h) == LedOK(h) /\ \A r \in reads : ReadOK(h, r)

LEMMA KeepsReads ==
    ASSUME NEW h, HistoryOK(h), ServersOK(h), NEW g, HistoryOK(g), Grown(h, g), NEW r, ReadOK(h, r),
           role'[r.leader] = "Leader", term'[r.leader] = term[r.leader]
    PROVE  ReadOK(g, r)'
<1>1. g.server = h.server /\ h.led \subseteq g.led
  BY DEF Grown
<1>2. ASSUME NEW z \in h.led, Refuses(h, r, z) PROVE Refuses(g, r, z)'
  <2>1. /\ g.base[z] = h.base[z] /\ g.quorum[z] = h.quorum[z]
        /\ \A j \in 1..Len(h.line[z]) : g.line[z][j] = h.line[z][j]
    BY DEF Grown
  <2>2. /\ h.base[z] \in Nat /\ Len(h.line[z]) \in Nat /\ h.base[z] < Len(h.line[z])
        /\ h.line[z] \in Seq(Entries(h))
    BY LineFacts
  <2>3. g.line[z] \in Seq(Entries(g)) /\ Len(g.line[z]) \in Nat /\ g.base[z] < Len(g.line[z])
    BY <1>1, LineFacts
  <2>4. TermAt(g.line[z], g.base[z]) = TermAt(h.line[z], h.base[z])
    <3>1. /\ h.base[z] \in 0..Len(h.line[z]) /\ h.base[z] \in 0..Len(g.line[z])
      BY <2>1, <2>2, <2>3
    <3>2. CASE h.base[z] = 0
      BY <2>1, <2>2, <2>3, <3>1, <3>2, TermAtIs
    <3>3. CASE h.base[z] > 0
      <4>1. g.line[z][h.base[z]] = h.line[z][h.base[z]]
        BY <2>1, <2>2, <3>1, <3>3
      <4>2. TermAt(h.line[z], h.base[z]) = h.line[z][h.base[z]].term
        BY <2>2, <3>1, <3>3, TermAtIs
      <4>3. TermAt(g.line[z], h.base[z]) = g.line[z][h.base[z]].term
        BY <2>3, <3>1, <3>3, TermAtIs
      <4> QED
        BY <2>1, <4>1, <4>2, <4>3
    <3> QED
      BY <2>2, <3>2, <3>3
  <2> QED
    BY <1>2, <2>1, <2>4 DEF Refuses
<1>3. AtLeastTwo' <=> AtLeastTwo
  BY DEF AtLeastTwo
<1> QED
  BY <1>1, <1>2, <1>3 DEF ReadOK

LEMMA ReadMemberStep ==
    ASSUME NEW h, HistoryOK(h), ServersOK(h), ReadsOK(h),
           MemberStep, reads' = Pending(reads), Leaders
    PROVE  \E g : HistoryOK(g) /\ ServersOK(g)' /\ ReadsOK(g)'
<1>1. PICK g : Explains(h, g)
  BY ServerStep
<1>2. HistoryOK(g) /\ Grown(h, g) /\ ServersOK(g)'
  BY <1>1 DEF Explains
<1>3. ASSUME NEW r \in reads' PROVE ReadOK(g, r)'
  <2>1. r \in reads /\ role'[r.leader] = "Leader" /\ term'[r.leader] = term[r.leader]
    BY DEF Pending
  <2>2. ReadOK(h, r)
    BY <2>1 DEF ReadsOK
  <2> QED
    BY <1>2, <2>1, <2>2, KeepsReads
<1>4. LedOK(g)'
  <2>1. PICK S : S = {ledTerm} \cup {term'[l] : l \in {s \in Server : role'[s] = "Leader"}}
    OBVIOUS
  <2>2. Server = h.server /\ g.server = h.server
    BY <1>2 DEF ServersOK, TypesOK, Server, Grown
  <2>3. \A l \in h.server : role'[l] = "Leader" => term'[l] \in g.led
    BY <1>2, <2>2 DEF ServersOK, LeadersOK
  <2>4. \A t \in g.led : t \in Nat
    BY <1>2, LineFacts
  <2>5. ledTerm \in Nat /\ (ledTerm = 0 \/ ledTerm \in h.led) /\ \A t \in h.led : t <= ledTerm
    BY DEF ReadsOK, LedOK
  <2>6. \A x \in S : x = ledTerm \/ x \in g.led
    BY <2>1, <2>2, <2>3
  <2>7. \E b \in Nat : /\ \A x \in g.led : x <= b
                       /\ ledTerm <= b
                       /\ \A x \in g.led : x <= ledTerm \/ x \in S
    <3>1. CASE g.led = h.led
      BY <2>5, <3>1
    <3>2. CASE \E s \in h.server : g.led = h.led \cup {term'[s]} /\ role'[s] = "Leader"
      <4>1. PICK s \in h.server : g.led = h.led \cup {term'[s]} /\ role'[s] = "Leader"
        BY <3>2
      <4>2. PICK u \in Nat : u = term'[s] /\ u \in S
        BY <2>1, <2>2, <2>4, <4>1
      <4>3. \A x \in g.led : x \in Nat /\ (x <= ledTerm \/ x = u)
        BY <2>4, <2>5, <4>1, <4>2
      <4>4. /\ ledTerm + u \in Nat /\ ledTerm <= ledTerm + u
            /\ \A x \in g.led : x <= ledTerm + u
            /\ \A x \in g.led : x <= ledTerm \/ x \in S
        BY <2>5, <4>2, <4>3
      <4> QED
        BY <4>4
    <3> QED
      BY <1>1, <3>1, <3>2 DEF Explains
  <2>8. S \in SUBSET Nat /\ S # {} /\ ledTerm \in S
    BY <2>1, <2>4, <2>5, <2>6
  <2>9. Max(S) \in S /\ \A x \in S : x <= Max(S)
    BY <2>6, <2>7, <2>8, Greatest
  <2>10. ledTerm' = Max(S)
    BY <2>1 DEF Leaders
  <2>11. ledTerm' \in Nat /\ (ledTerm' = 0 \/ ledTerm' \in g.led) /\ ledTerm <= ledTerm'
    BY <1>2, <2>5, <2>6, <2>8, <2>9, <2>10 DEF Grown
  <2>12. ASSUME NEW t \in g.led PROVE t <= ledTerm'
    <3>1. t \in Nat /\ (t <= ledTerm \/ t \in S)
      BY <2>4, <2>7
    <3> QED
      BY <2>5, <2>9, <2>10, <2>11, <3>1
  <2> QED
    BY <2>11, <2>12 DEF LedOK
<1> QED
  BY <1>2, <1>3, <1>4 DEF ReadsOK

(* A leader that has committed in its own term, and that no later leader   *)
(* has replaced, knows of every commitment.                                *)
LEMMA SettledKnowsAll ==
    ASSUME NEW h, HistoryOK(h), ServersOK(h), NEW l \in h.server, role[l] = "Leader", TermIsSettled(l),
           \A y \in h.led : y <= term[l], NEW e \in chosen
    PROVE  e.index \in Nat /\ e.index <= commitIndex[l]
<1>1. TypesOK(h)
  BY DEF ServersOK
<1>2. /\ term[l] \in Nat /\ log[l] \in Seq(Entries(h)) /\ Len(log[l]) \in Nat /\ commitIndex[l] \in Nat
  BY <1>1, StateFacts
<1>3. PICK t \in Nat : t = term[l]
  BY <1>2
<1>4. t \in h.led /\ h.line[t] = log[l]
  BY <1>3 DEF ServersOK, LeadersOK
<1>5. t > 0 /\ h.base[t] \in Nat
  BY <1>4, LineFacts
<1>6. PICK i \in Nat : i = commitIndex[l] /\ i <= Len(log[l])
  BY <1>2 DEF ServersOK, KnownOK
<1>7. PICK x : x = log[l]
  OBVIOUS
<1>8. x \in Seq(Entries(h)) /\ i \in 0..Len(x) /\ TermAt(x, i) = t
  BY <1>2, <1>3, <1>6, <1>7 DEF TermIsSettled
<1>9. i > 0 /\ i \in DOMAIN x /\ x[i].term = t
  BY <1>5, <1>6, <1>8, TermAtIs
<1>10. i > h.base[t]
  <2>1. IF i > h.base[t] THEN x[i].term = t ELSE x[i].term < t
    BY <1>4, <1>7, <1>9 DEF HistoryOK, LinesOK
  <2> QED
    BY <1>9, <2>1
<1>11. PICK c \in h.commits : e.index \in 1..c.index
  BY DEF ServersOK, ChosenOK
<1>12. c.term \in h.led /\ c.term \in Nat /\ c.index \in Nat
  BY CommitFacts
<1>13. c.index <= i
  <2>1. CASE c.term = t
    BY <1>3, <1>6, <2>1 DEF ServersOK, LeadersOK
  <2>2. CASE c.term < t
    <3>1. Has(h.line[t], c.index, c.term)
      BY <1>4, <2>2 DEF HistoryOK, Complete
    <3>2. c.index <= h.base[t]
      BY <1>4, <2>2, <3>1, InBase DEF HistoryOK
    <3> QED
      BY <1>5, <1>10, <1>12, <3>2
  <2> QED
    BY <1>3, <1>12, <2>1, <2>2
<1> QED
  BY <1>6, <1>11, <1>12, <1>13

(* Once a later term has had a leader, the first one that had was elected  *)
(* by servers whose logs end no later than this term.                      *)
LEMMA FirstLater ==
    ASSUME NEW h, HistoryOK(h), NEW t \in Nat, NEW y \in h.led, y > t
    PROVE  \E z \in h.led : z > t /\ TermAt(h.line[z], h.base[z]) <= t
<1>1. PICK T : T = {x \in h.led : x > t}
  OBVIOUS
<1>2. T \in SUBSET Nat /\ y \in T
  BY <1>1, LineFacts
<1>3. PICK z \in T : \A x \in T : z <= x
  BY <1>2, Least
<1>4. z \in h.led /\ z > t /\ z \in Nat
  BY <1>1, <1>2, <1>3
<1>5. /\ h.line[z] \in Seq(Entries(h)) /\ OnLines(h, h.line[z])
      /\ h.base[z] \in Nat /\ Len(h.line[z]) \in Nat /\ h.base[z] < Len(h.line[z])
  BY <1>4, LineFacts
<1>6. PICK b \in Nat : b = h.base[z]
  BY <1>5
<1>7. b \in 0..Len(h.line[z])
  BY <1>5, <1>6
<1>8. CASE b = 0
  <2>1. TermAt(h.line[z], b) = 0
    BY <1>5, <1>7, <1>8, TermAtIs
  <2> QED
    BY <1>4, <1>6, <2>1
<1>9. CASE b > 0
  <2>1. b \in DOMAIN h.line[z] /\ TermAt(h.line[z], b) = h.line[z][b].term
    BY <1>5, <1>7, <1>9, TermAtIs
  <2>2. PICK u : u = h.line[z][b].term
    OBVIOUS
  <2>3. u \in h.led /\ u < z
    BY <1>4, <1>5, <1>6, <2>1, <2>2 DEF HistoryOK, LinesOK, OnLines
  <2>4. u \in Nat
    BY <2>3, LineFacts
  <2>5. ~(u > t)
    BY <1>1, <1>3, <1>4, <2>3, <2>4
  <2> QED
    BY <1>4, <1>6, <2>1, <2>2, <2>4, <2>5
<1> QED
  BY <1>6, <1>8, <1>9

LEMMA WideMembers ==
    ASSUME NEW h, HistoryOK(h), ServersOK(h), AtLeastTwo, NEW l \in h.server
    PROVE  ~NeedsNoProbe(l)
<1>1. TypesOK(h)
  BY DEF ServersOK
<1>2. log[l] \in Seq(Entries(h)) /\ Len(log[l]) \in Nat
  BY <1>1, StateFacts
<1>3. PICK x : x = log[l]
  OBVIOUS
<1>4. Members(l) = MembersAt(h, x, Len(x))
  BY <1>1, <1>3, MembersIs
<1>5. PICK i : i = ChangeIndex(x, Len(x))
  OBVIOUS
<1>6. i \in 0..Len(x) /\ (i = 0 \/ x[i].members # {})
  BY <1>2, <1>3, <1>5, ChangeFacts
<1>7. Cardinality(h.first) >= 2 /\ \A j \in DOMAIN x : x[j].members # {} => Cardinality(x[j].members) >= 2
  BY <1>3 DEF ServersOK, WideOK
<1>8. Cardinality(Members(l)) >= 2
  <2>1. CASE i = 0
    BY <1>4, <1>5, <1>7, <2>1 DEF MembersAt
  <2>2. CASE i # 0
    <3>1. i \in DOMAIN x
      BY <1>2, <1>3, <1>6, <2>2
    <3> QED
      BY <1>4, <1>5, <1>6, <1>7, <2>2, <3>1 DEF MembersAt
  <2> QED
    BY <2>1, <2>2
<1> QED
  BY <1>8 DEF NeedsNoProbe

LEMMA RequestReadStep ==
    ASSUME NEW h, HistoryOK(h), ServersOK(h), ReadsOK(h), NEW l \in h.server, RequestRead(l)
    PROVE  ServersOK(h)' /\ ReadsOK(h)'
<1>1. role[l] = "Leader" /\ TermIsSettled(l) /\ UNCHANGED vars /\ ledTerm' = ledTerm
  BY DEF RequestRead
<1>2. ServersOK(h)'
  BY <1>1, NoServerStep
<1>3. role' = role /\ term' = term
  BY <1>1 DEF vars, ballotVars
<1>4. PICK n : n = 1 + Max({0} \cup {r.id : r \in reads})
  OBVIOUS
<1>5. PICK S : S = {0} \cup {c.index : c \in chosen}
  OBVIOUS
<1>6. PICK q : q = [id |-> n, leader |-> l, index |-> commitIndex[l], floor |-> Max(S),
                    led |-> ledTerm, acks |-> {}, confirmed |-> NeedsNoProbe(l)]
  OBVIOUS
<1>7. reads' = reads \cup {q}
  BY <1>4, <1>5, <1>6 DEF RequestRead
<1>8. term[l] \in Nat /\ commitIndex[l] \in Nat
  BY StateFacts DEF ServersOK
<1>9. ledTerm \in Nat /\ (ledTerm = 0 \/ ledTerm \in h.led) /\ \A t \in h.led : t \in Nat /\ t <= ledTerm
  BY LineFacts DEF ReadsOK, LedOK
<1>10. ASSUME ledTerm <= term[l] PROVE commitIndex[l] >= Max(S)
  <2>1. \A y \in h.led : y <= term[l]
    BY <1>8, <1>9, <1>10
  <2>2. \A e \in chosen : e.index \in Nat /\ e.index <= commitIndex[l]
    BY <1>1, <2>1, SettledKnowsAll
  <2>3. S \in SUBSET Nat /\ S # {} /\ \A x \in S : x <= commitIndex[l]
    BY <1>5, <1>8, <2>2
  <2>4. Max(S) \in S
    BY <1>8, <2>3, Greatest
  <2> QED
    BY <1>8, <2>3, <2>4
<1>11. ASSUME ledTerm > term[l] PROVE \E z \in h.led : Refuses(h, q, z)
  <2>1. ledTerm \in h.led
    BY <1>8, <1>9, <1>11
  <2>2. PICK z \in h.led : z > term[l] /\ TermAt(h.line[z], h.base[z]) <= term[l]
    BY <1>8, <1>11, <2>1, FirstLater
  <2> QED
    BY <1>6, <2>2 DEF Refuses
<1>12. AtLeastTwo => ~NeedsNoProbe(l)
  BY WideMembers
<1>13. q.leader = l /\ q.index = commitIndex[l] /\ q.floor = Max(S) /\ q.led = ledTerm /\ q.confirmed = NeedsNoProbe(l)
  BY <1>6
<1>14. ReadOK(h, q)
  <2>1. q = [id |-> q.id, leader |-> q.leader, index |-> q.index, floor |-> q.floor,
             led |-> q.led, acks |-> q.acks, confirmed |-> q.confirmed]
    BY <1>6
  <2> QED
    BY <1>1, <1>9, <1>10, <1>11, <1>12, <1>13, <2>1 DEF ReadOK
<1>15. ASSUME NEW r \in reads' PROVE ReadOK(h, r)'
  <2>1. ReadOK(h, r)
    BY <1>7, <1>14 DEF ReadsOK
  <2>2. role'[r.leader] = "Leader" /\ term'[r.leader] = term[r.leader]
    BY <1>3, <2>1 DEF ReadOK
  <2> QED
    BY <2>1, <2>2, KeepsReads, GrownSelf
<1> QED
  BY <1>1, <1>2, <1>9, <1>15 DEF ReadsOK, LedOK

LEMMA ServeReadStep ==
    ASSUME NEW h, HistoryOK(h), ServersOK(h), ReadsOK(h), NEW r \in reads, ServeRead(r)
    PROVE  ServersOK(h)' /\ ReadsOK(h)'
<1>1. UNCHANGED vars /\ ledTerm' = ledTerm /\ reads' \subseteq reads
  BY DEF ServeRead
<1>2. ServersOK(h)'
  BY <1>1, NoServerStep
<1>3. role' = role /\ term' = term
  BY <1>1 DEF vars, ballotVars
<1>4. ASSUME NEW q \in reads' PROVE ReadOK(h, q)'
  <2>1. ReadOK(h, q)
    BY <1>1 DEF ReadsOK
  <2>2. role'[q.leader] = "Leader" /\ term'[q.leader] = term[q.leader]
    BY <1>3, <2>1 DEF ReadOK
  <2> QED
    BY <2>1, <2>2, KeepsReads, GrownSelf
<1> QED
  BY <1>1, <1>2, <1>4 DEF ReadsOK, LedOK

LEMMA AnswerProbeStep ==
    ASSUME NEW h, HistoryOK(h), ServersOK(h), ReadsOK(h), NEW r \in reads, NEW f \in h.server,
           AnswerProbe(r, f)
    PROVE  ServersOK(h)' /\ ReadsOK(h)'
<1>1. ServersOK(h)'
  BY AnswerStep DEF Explains
<1>2. PICK l : l = r.leader
  OBVIOUS
<1>3. PICK acks : acks = r.acks \cup {f}
  OBVIOUS
<1>4. PICK q : q = [r EXCEPT !.acks = acks, !.confirmed = @ \/ IsConfirmed(l, acks)]
  OBVIOUS
<1>5. /\ f # l /\ term[f] = term[l] /\ role[f] # "Leader"
      /\ reads' = (reads \ {r}) \cup {q}
      /\ role' = [role EXCEPT ![f] = "Follower"] /\ term' = term /\ ledTerm' = ledTerm
  BY <1>2, <1>3, <1>4 DEF AnswerProbe
<1>6. ReadOK(h, r) /\ l \in h.server /\ role[l] = "Leader"
  BY <1>2 DEF ReadsOK, ReadOK
<1>7. /\ q = [id |-> q.id, leader |-> q.leader, index |-> q.index, floor |-> q.floor,
              led |-> q.led, acks |-> q.acks, confirmed |-> q.confirmed]
      /\ q.leader = l /\ q.index = r.index /\ q.floor = r.floor /\ q.led = r.led
      /\ q.acks = acks /\ q.confirmed = (r.confirmed \/ IsConfirmed(l, acks))
  <2>1. r = [id |-> r.id, leader |-> r.leader, index |-> r.index, floor |-> r.floor,
             led |-> r.led, acks |-> r.acks, confirmed |-> r.confirmed]
    BY <1>6 DEF ReadOK
  <2>2. PICK ok : ok = (r.confirmed \/ IsConfirmed(l, acks))
    OBVIOUS
  <2>3. q = [r EXCEPT !.acks = acks, !.confirmed = ok]
    BY <1>4, <2>2
  <2>4. q = [id |-> r.id, leader |-> r.leader, index |-> r.index, floor |-> r.floor,
             led |-> r.led, acks |-> acks, confirmed |-> ok]
    BY <2>1, <2>3
  <2> QED
    BY <1>2, <2>2, <2>4
<1>8. TypesOK(h) /\ term[l] \in Nat /\ log[l] \in Seq(Entries(h))
  BY <1>6, StateFacts DEF ServersOK
<1>9. PICK t \in Nat : t = term[l]
  BY <1>8
<1>10. t \in h.led /\ h.line[t] = log[l]
  BY <1>6, <1>9 DEF ServersOK, LeadersOK
<1>11. ASSUME NEW z \in h.led, z > t, NEW v \in h.quorum[z], term[v] = t PROVE FALSE
  <2>1. z \in Nat
    BY LineFacts
  <2>2. term[v] >= z
    BY DEF ServersOK, VotersOK
  <2> QED
    BY <1>11, <2>1, <2>2
<1>12. ASSUME NEW z \in h.led, Refuses(h, r, z)
       PROVE  Refuses(h, q, z) /\ ~IsConfirmed(l, acks)
  <2>1. z > t /\ TermAt(h.line[z], h.base[z]) <= t /\ r.acks \cap h.quorum[z] = {}
    BY <1>2, <1>9, <1>12 DEF Refuses
  <2>2. f \notin h.quorum[z] /\ l \notin h.quorum[z]
    BY <1>5, <1>9, <1>11, <2>1
  <2>3. acks \cap h.quorum[z] = {} /\ (acks \cup {l}) \cap h.quorum[z] = {}
    BY <1>3, <2>1, <2>2
  <2>4. Refuses(h, q, z)
    BY <1>7, <1>9, <2>1, <2>3 DEF Refuses
  <2>5. ~IsConfirmed(l, acks)
    <3>1. SUFFICES ASSUME IsConfirmed(l, acks) PROVE FALSE
      OBVIOUS
    <3>2. PICK R : R = acks \cup {l}
      OBVIOUS
    <3>3. IsMajority(R, MembersAt(h, h.line[t], Len(h.line[t])))
      BY <1>6, <1>8, <1>10, <3>1, <3>2, MembersIs DEF IsConfirmed
    <3>4. R \cap h.quorum[z] # {}
      BY <1>10, <2>1, <3>3, ReadersOverlap
    <3> QED
      BY <2>3, <3>2, <3>4
  <2> QED
    BY <2>4, <2>5
<1>13. ReadOK(h, q)
  <2>1. r.led \in Nat /\ (r.led <= t \/ r.led > t)
    BY <1>6 DEF ReadOK
  <2>2. CASE r.led <= t
    BY <1>2, <1>6, <1>7, <1>9, <2>1, <2>2 DEF ReadOK
  <2>3. CASE r.led > t
    <3>1. PICK z \in h.led : Refuses(h, r, z)
      BY <1>2, <1>6, <1>9, <2>3 DEF ReadOK
    <3>2. Refuses(h, q, z) /\ ~IsConfirmed(l, acks)
      BY <1>12, <3>1
    <3>3. ~(r.led <= t)
      BY <2>1, <2>3
    <3>4. AtLeastTwo => ~q.confirmed
      BY <1>2, <1>6, <1>7, <1>9, <3>2, <3>3 DEF ReadOK
    <3> QED
      BY <1>2, <1>6, <1>7, <1>9, <2>1, <2>3, <3>2, <3>3, <3>4 DEF ReadOK
  <2> QED
    BY <2>1, <2>2, <2>3
<1>14. ASSUME NEW p \in reads' PROVE ReadOK(h, p)'
  <2>1. ReadOK(h, p)
    BY <1>5, <1>13 DEF ReadsOK
  <2>2. p.leader \in h.server /\ role[p.leader] = "Leader" /\ p.leader # f
    BY <1>5, <2>1 DEF ReadOK
  <2>3. role'[p.leader] = "Leader" /\ term'[p.leader] = term[p.leader]
    BY <1>5, <1>8, <2>2 DEF TypesOK
  <2> QED
    BY <2>1, <2>3, KeepsReads, GrownSelf
<1> QED
  BY <1>1, <1>5, <1>14 DEF ReadsOK, LedOK

-----------------------------------------------------------------------------
(* The history at the start: no leader yet, or the first one, elected by   *)
(* all.                                                                    *)

Start(e, L, s) ==
    [server |-> e.server, first |-> e.initialMembers, led |-> L,
     leader |-> [t \in Nat |-> s], line |-> [t \in Nat |-> <<NoOp(1)>>],
     base |-> [t \in Nat |-> 0], quorum |-> [t \in Nat |-> e.server],
     ballot |-> [t \in Nat |-> [v \in e.server |-> <<>>]], commits |-> {}]

LEMMA StartFields ==
    ASSUME NEW e, NEW L, NEW s, NEW h, h = Start(e, L, s)
    PROVE  /\ h.server = e.server /\ h.first = e.initialMembers /\ h.led = L /\ h.commits = {}
           /\ \A t \in Nat : /\ h.leader[t] = s /\ h.line[t] = <<NoOp(1)>> /\ h.base[t] = 0
                             /\ h.quorum[t] = e.server
                             /\ \A v \in e.server : h.ballot[t][v] = <<>>
<1>1. /\ h.server = e.server /\ h.first = e.initialMembers /\ h.led = L /\ h.commits = {}
      /\ h.leader = [t \in Nat |-> s] /\ h.line = [t \in Nat |-> <<NoOp(1)>>]
      /\ h.base = [t \in Nat |-> 0] /\ h.quorum = [t \in Nat |-> e.server]
      /\ h.ballot = [t \in Nat |-> [v \in e.server |-> <<>>]]
  BY DEF Start
<1> QED
  BY <1>1

LEMMA StartIsHistory ==
    ASSUME NEW e \in Settings, NEW L, L \in {{}, {1}}, NEW s \in e.server, NEW h, h = Start(e, L, s)
    PROVE  HistoryOK(h)
<1>1. /\ IsFiniteSet(e.server) /\ e.initialMembers \in (SUBSET e.server) \ {{}}
  BY MembershipAssumption
<1>2. /\ h.server = e.server /\ h.first = e.initialMembers /\ h.led = L /\ h.commits = {}
      /\ \A t \in Nat : /\ h.leader[t] = s /\ h.line[t] = <<NoOp(1)>> /\ h.base[t] = 0
                        /\ h.quorum[t] = e.server
                        /\ \A v \in e.server : h.ballot[t][v] = <<>>
  BY StartFields
<1>3. PICK x : x = <<NoOp(1)>>
  OBVIOUS
<1>4. x \in Seq(Entries(h)) /\ Len(x) = 1 /\ x[1] = NoOp(1) /\ DOMAIN x = 1..1
  <2>1. NoOp(1) \in Entries(h)
    BY DEF NoOp, Entries
  <2> QED
    BY <1>3, <2>1
<1>5. \A t \in L : t = 1 /\ h.line[t] = x /\ h.base[t] = 0
  BY <1>2, <1>3
<1>6. IsHistory(h)
  <2>1. /\ h.leader \in [Nat -> h.server] /\ h.base \in [Nat -> Nat] /\ h.quorum \in [Nat -> SUBSET h.server]
    BY DEF Start
  <2>2. h.line \in [Nat -> Seq(Entries(h))]
    <3>1. h.line = [t \in Nat |-> x]
      BY <1>3 DEF Start
    <3> QED
      BY <1>4, <3>1
  <2>3. h.ballot \in [Nat -> [h.server -> Seq(Entries(h))]]
    <3>1. PICK b : b = [v \in e.server |-> <<>>]
      OBVIOUS
    <3>2. b \in [h.server -> Seq(Entries(h))]
      BY <1>2, <3>1
    <3>3. h.ballot = [t \in Nat |-> b]
      BY <3>1 DEF Start
    <3> QED
      BY <3>2, <3>3
  <2>4. h.commits \in SUBSET [term : Nat, index : Nat, length : Nat, quorum : SUBSET h.server]
    BY <1>2
  <2>5. IsFiniteSet(h.server) /\ h.first \in SUBSET h.server /\ h.led \in SUBSET (Nat \ {0})
    BY <1>1, <1>2
  <2> QED
    BY <2>1, <2>2, <2>3, <2>4, <2>5 DEF IsHistory
<1>7. 1 \in L => OnLines(h, x)
  <2>1. SUFFICES ASSUME 1 \in L PROVE OnLines(h, x)
    OBVIOUS
  <2>2. h.led = L /\ h.line[1] = x /\ h.base[1] = 0 /\ x[1].term = 1
    BY <1>2, <1>4, <1>5, <2>1 DEF NoOp
  <2>3. \A i \in DOMAIN x : i = 1
    BY <1>4
  <2>4. ASSUME NEW i \in DOMAIN x
        PROVE  /\ x[i].term \in h.led /\ h.base[x[i].term] < i /\ i <= Len(h.line[x[i].term])
               /\ \A j \in 1..i : x[j] = h.line[x[i].term][j]
    <3>1. i = 1 /\ x[i].term = 1
      BY <2>2, <2>3
    <3> QED
      BY <1>4, <2>1, <2>2, <3>1
  <2> QED
    BY <2>4 DEF OnLines
<1>8. LinesOK(h)
  BY <1>2, <1>4, <1>5, <1>7 DEF LinesOK, NoOp
<1>9. BallotsOK(h)
  <2>1. ASSUME NEW t \in Nat, NEW v \in h.server PROVE OnLines(h, h.ballot[t][v])
    BY <1>2 DEF OnLines
  <2>2. ASSUME NEW t \in L PROVE IsMajority(h.quorum[t], MembersAt(h, h.line[t], h.base[t]))
    <3>1. ChangeIndex(x, 0) = 0
      BY ChangeFacts
    <3>2. MembersAt(h, x, 0) = e.initialMembers
      BY <1>2, <3>1 DEF MembersAt
    <3>3. e.server \cap e.initialMembers = e.initialMembers
      BY <1>1
    <3>4. IsFiniteSet(e.initialMembers)
      BY <1>1, FS_Subset
    <3>5. Cardinality(e.initialMembers) \in Nat /\ Cardinality(e.initialMembers) # 0
      BY <1>1, <3>4, FS_CardinalityType, FS_EmptySet
    <3>6. PICK n \in Nat : n = Cardinality(e.initialMembers) /\ n # 0
      BY <3>5
    <3>7. 2 * n > n
      BY <3>6
    <3>8. h.quorum[t] = e.server /\ MembersAt(h, h.line[t], h.base[t]) = e.initialMembers
      BY <1>2, <1>5, <3>2
    <3> QED
      BY <3>3, <3>6, <3>7, <3>8 DEF IsMajority
  <2>3. ASSUME NEW t \in L, NEW v \in e.server
        PROVE  IsUpToDate(h.ballot[t][v], h.base[t], TermAt(h.line[t], h.base[t]))
    BY <1>2, <1>5 DEF IsUpToDate, LastTerm, TermAt, NO_INDEX
  <2> QED
    BY <1>2, <1>5, <2>1, <2>2, <2>3 DEF BallotsOK
<1>10. ChangesOK(h)
  BY <1>2, <1>4, <1>5 DEF ChangesOK, NoOp
<1>11. CommitsOK(h) /\ Complete(h)
  BY <1>2 DEF CommitsOK, Complete
<1> QED
  BY <1>6, <1>8, <1>9, <1>10, <1>11 DEF HistoryOK

LEMMA InitExplained ==
    ASSUME ReadInit
    PROVE  \E h : HistoryOK(h) /\ ServersOK(h) /\ ReadsOK(h)
<1>1. PICK e \in Settings : e = env
  BY DEF ReadInit, Init
<1>2. /\ {"server", "initialMembers", "minMembers", "restarts"} \subseteq DOMAIN e
      /\ IsFiniteSet(e.server) /\ Nobody \notin e.server /\ e.firstLeader \in e.server \cup {Nobody}
      /\ e.initialMembers \in (SUBSET e.server) \ {{}} /\ e.minMembers \in Nat
  BY MembershipAssumption
<1>3. PICK first : first = e.firstLeader
  OBVIOUS
<1>4. PICK L : L = IF first = Nobody THEN {} ELSE {1}
  OBVIOUS
<1>5. PICK s \in e.server : first # Nobody => s = first
  BY <1>2, <1>3
<1>6. PICK h : h = Start(e, L, s)
  OBVIOUS
<1>7. L \in {{}, {1}}
  BY <1>4
<1>8. HistoryOK(h)
  BY <1>6, <1>7, StartIsHistory
<1>9. /\ h.server = e.server /\ h.first = e.initialMembers /\ h.led = L /\ h.commits = {}
      /\ \A t \in Nat : /\ h.leader[t] = s /\ h.line[t] = <<NoOp(1)>> /\ h.base[t] = 0
                        /\ h.quorum[t] = e.server
                        /\ \A v \in e.server : h.ballot[t][v] = <<>>
  BY <1>6, StartFields
<1>10. PICK x : x = <<NoOp(1)>>
  OBVIOUS
<1>11. x \in Seq(Entries(h)) /\ Len(x) = 1 /\ x[1] = NoOp(1) /\ DOMAIN x = 1..1
  <2>1. NoOp(1) \in Entries(h)
    BY DEF NoOp, Entries
  <2> QED
    BY <1>10, <2>1
<1>12. /\ term = [v \in h.server |-> IF first = Nobody THEN 0 ELSE 1]
       /\ votedFor = [v \in h.server |-> first]
       /\ role = [v \in h.server |-> IF v = first THEN "Leader" ELSE "Follower"]
       /\ votes = [v \in h.server |-> IF v = first THEN h.server ELSE {}]
       /\ log = [v \in h.server |-> IF v = first THEN x ELSE <<>>]
       /\ matchIndex = [v \in h.server |-> [p \in h.server |-> 0]]
       /\ commitIndex = [v \in h.server |-> 0]
       /\ chosen = {} /\ reads = {} /\ ledTerm = (IF first = Nobody THEN 0 ELSE 1)
  BY <1>1, <1>3, <1>9, <1>10 DEF ReadInit, Init, Server, NoOp
<1>13. TypesOK(h)
  <2>1. log \in [h.server -> Seq(Entries(h))]
    BY <1>11, <1>12
  <2>2. /\ term \in [h.server -> Nat] /\ votedFor \in [h.server -> h.server \cup {Nobody}]
        /\ role \in [h.server -> {"Follower", "Candidate", "Leader"}]
        /\ votes \in [h.server -> SUBSET h.server]
        /\ matchIndex \in [h.server -> [h.server -> Nat]]
        /\ commitIndex \in [h.server -> Nat]
    BY <1>2, <1>3, <1>9, <1>12
  <2> QED
    BY <1>1, <1>2, <1>9, <2>1, <2>2 DEF TypesOK
<1>14. \A v \in h.server :
         /\ v # Nobody /\ role[v] # "Candidate"
         /\ role[v] = "Leader" => /\ v = first /\ first # Nobody /\ s = v /\ L = {1} /\ log[v] = x
                                  /\ term[v] = 1
         /\ commitIndex[v] = 0 /\ \A p \in h.server : matchIndex[v][p] = 0
         /\ log[v] = <<>> \/ (log[v] = x /\ L = {1} /\ term[v] = 1)
  BY <1>2, <1>4, <1>5, <1>9, <1>12
<1>15. LeadersOK(h)
  BY <1>9, <1>10, <1>14 DEF LeadersOK
<1>16. LogsOK(h)
  <2>1. L = {1} => OnLines(h, x)
    <3>1. 1 \in L => h.line[1] = x
      BY <1>9, <1>10
    <3> QED
      BY <1>8, <1>9, <3>1 DEF HistoryOK, LinesOK
  <2>2. OnLines(h, <<>>)
    BY DEF OnLines
  <2>3. \A i \in DOMAIN x : x[i].term <= 1
    BY <1>11 DEF NoOp
  <2> QED
    BY <1>14, <2>1, <2>2, <2>3 DEF LogsOK
<1>17. VotersOK(h)
  BY <1>4, <1>5, <1>9, <1>12 DEF VotersOK
<1>18. CandidatesOK(h) /\ RivalsOK(h)
  BY <1>14 DEF CandidatesOK, RivalsOK
<1>19. KnownOK(h)
  BY <1>11, <1>14 DEF KnownOK
<1>20. QuorumsHold(h)
  BY <1>9 DEF QuorumsHold
<1>21. MatchesHold(h)
  BY <1>9, <1>11, <1>14 DEF MatchesHold
<1>22. ChosenOK(h)
  BY <1>12 DEF ChosenOK
<1>23. WideOK(h)
  <2>1. \A v \in h.server : \A i \in DOMAIN log[v] : log[v][i].members = {}
    BY <1>11, <1>14 DEF NoOp
  <2> QED
    BY <1>1, <1>9, <2>1 DEF WideOK, AtLeastTwo
<1>24. ServersOK(h)
  BY <1>13, <1>15, <1>16, <1>17, <1>18, <1>19, <1>20, <1>21, <1>22, <1>23 DEF ServersOK
<1>25. ReadsOK(h)
  BY <1>4, <1>9, <1>12 DEF ReadsOK, LedOK
<1> QED
  BY <1>8, <1>24, <1>25

-----------------------------------------------------------------------------
(* The inductive invariant: some history explains the servers and reads.   *)
Explained == \E h : HistoryOK(h) /\ ServersOK(h) /\ ReadsOK(h)

LEMMA StepExplained ==
    ASSUME Explained, [Next]_readVars
    PROVE  Explained'
<1>1. PICK h : HistoryOK(h) /\ ServersOK(h) /\ ReadsOK(h)
  BY DEF Explained
<1>2. Server = h.server
  BY <1>1 DEF ServersOK, TypesOK, Server
<1>3. SUFFICES \E g : HistoryOK(g) /\ ServersOK(g)' /\ ReadsOK(g)'
  BY DEF Explained
<1>4. CASE MemberStep /\ reads' = Pending(reads) /\ Leaders
  BY <1>1, <1>4, ReadMemberStep
<1>5. CASE \E l \in Server : RequestRead(l)
  BY <1>1, <1>2, <1>5, RequestReadStep
<1>6. CASE \E r \in reads : ServeRead(r)
  BY <1>1, <1>6, ServeReadStep
<1>7. CASE \E r \in reads : \E f \in Server : AnswerProbe(r, f)
  BY <1>1, <1>2, <1>7, AnswerProbeStep
<1>8. CASE UNCHANGED readVars
  <2>1. UNCHANGED vars /\ reads' = reads /\ ledTerm' = ledTerm
    BY <1>8 DEF readVars
  <2>2. ServersOK(h)'
    BY <1>1, <2>1, NoServerStep
  <2>3. role' = role /\ term' = term
    BY <2>1 DEF vars, ballotVars
  <2>4. ASSUME NEW r \in reads PROVE ReadOK(h, r)'
    <3>1. ReadOK(h, r)
      BY <1>1 DEF ReadsOK
    <3>2. role'[r.leader] = "Leader" /\ term'[r.leader] = term[r.leader]
      BY <2>3, <3>1 DEF ReadOK
    <3> QED
      BY <1>1, <3>1, <3>2, KeepsReads, GrownSelf
  <2>5. ReadsOK(h)'
    BY <1>1, <2>1, <2>4 DEF ReadsOK, LedOK
  <2> QED
    BY <1>1, <2>2, <2>5
<1> QED
  BY <1>4, <1>5, <1>6, <1>7, <1>8 DEF Next

(* In every reachable state there is a history of elections, votes and     *)
(* commitments, each counted by the members its leader had then, that      *)
(* explains the servers and the pending reads.                             *)
THEOREM AlwaysExplained == ReadSpec => []Explained
<1>1. ReadInit => Explained
  BY InitExplained DEF Explained
<1>2. Explained /\ [Next]_readVars => Explained'
  BY StepExplained
<1> QED
  BY <1>1, <1>2, PTL DEF ReadSpec

(* However the membership changes, and whichever members each candidate    *)
(* counts its votes by (`quorum`, `member_votes`), a term has one leader.  *)
THEOREM TermsHaveOneLeader == ReadSpec => []OneLeaderPerTerm
<1>1. Explained => OneLeaderPerTerm
  <2>1. SUFFICES ASSUME NEW h, ServersOK(h) PROVE OneLeaderPerTerm
    BY DEF Explained
  <2>2. Server = h.server
    BY <2>1 DEF ServersOK, TypesOK, Server
  <2> QED
    BY <2>1, <2>2 DEF OneLeaderPerTerm, ServersOK, LeadersOK
<1> QED
  BY <1>1, AlwaysExplained, PTL

(* What `maybe_commit` declares committed by one membership is never       *)
(* replaced by what it declares under another: with one change at a time,  *)
(* and none before an entry of the leader's own term is committed          *)
(* (`propose_membership`), any two majorities that count still meet.       *)
THEOREM CommitmentsAgree == ReadSpec => []CommitsAgree
<1>1. Explained => CommitsAgree
  <2>1. SUFFICES ASSUME NEW h, HistoryOK(h), ServersOK(h) PROVE CommitsAgree
    BY DEF Explained
  <2>2. ASSUME NEW c \in h.commits, NEW d \in h.commits, c.term <= d.term, NEW i \in 1..c.index
        PROVE  h.line[c.term][i] = h.line[d.term][i]
    <3>1. c.term \in Nat /\ d.term \in Nat /\ d.term \in h.led /\ c.index \in Nat
      BY <2>1, CommitFacts
    <3>2. CASE c.term = d.term
      BY <3>2
    <3>3. CASE c.term < d.term
      <4>1. Has(h.line[d.term], c.index, c.term)
        BY <2>1, <3>1, <3>3 DEF HistoryOK, Complete
      <4>2. OnLines(h, h.line[d.term])
        BY <2>1, <3>1 DEF HistoryOK, LinesOK
      <4> QED
        BY <4>1, <4>2 DEF OnLines, Has
    <3> QED
      BY <2>2, <3>1, <3>2, <3>3
  <2>3. ASSUME NEW a \in chosen, NEW b \in chosen, a.index = b.index PROVE a = b
    <3>1. PICK c \in h.commits :
            a.index \in 1..c.index /\ a = [index |-> a.index, entry |-> h.line[c.term][a.index]]
      BY <2>1 DEF ServersOK, ChosenOK
    <3>2. PICK d \in h.commits :
            b.index \in 1..d.index /\ b = [index |-> b.index, entry |-> h.line[d.term][b.index]]
      BY <2>1 DEF ServersOK, ChosenOK
    <3>3. c.term \in Nat /\ d.term \in Nat
      BY <2>1, CommitFacts
    <3>4. h.line[c.term][a.index] = h.line[d.term][a.index]
      BY <2>2, <2>3, <3>1, <3>2, <3>3
    <3> QED
      BY <2>3, <3>1, <3>2, <3>4, Zenon
  <2> QED
    BY <2>3 DEF CommitsAgree
<1> QED
  BY <1>1, AlwaysExplained, PTL

(* While nobody asks for a membership of one, a read that its leader's     *)
(* members confirm (`on_read_probe_resp`, `take_ready_reads`) misses       *)
(* nothing that was committed before it arrived, whatever became of the    *)
(* leader and of the membership since.                                     *)
THEOREM ConfirmedReadsAreFresh ==
    ASSUME AtLeastTwo
    PROVE  ReadSpec => []ReadsAreFresh
<1>1. Explained => ReadsAreFresh
  BY DEF Explained, ReadsOK, ReadOK, ReadsAreFresh
<1> QED
  BY <1>1, AlwaysExplained, PTL

(* Under the same condition, a leader that a later term had replaced when  *)
(* the read arrived never gets it confirmed: `check_reads` raises no false *)
(* alarm.                                                                  *)
THEOREM DeposedConfirmNothing ==
    ASSUME AtLeastTwo
    PROVE  ReadSpec => []DeposedAnswerNothing
<1>1. Explained => DeposedAnswerNothing
  BY DEF Explained, ReadsOK, ReadOK, DeposedAnswerNothing
<1> QED
  BY <1>1, AlwaysExplained, PTL
===============================================================================
