--------------------------- MODULE SnapshotsSafety ---------------------------
(***************************************************************************)
(* Proofs about Snapshots: what the log has dropped is covered by a        *)
(* snapshot, whenever the power goes; and a node that has nothing in       *)
(* flight claims all of its log.                                           *)
(***************************************************************************)
EXTENDS Snapshots, WellFoundedInduction, TLAPS

-----------------------------------------------------------------------------
(* Operators. *)

(* Every nonempty set of natural numbers has a least element. *)
LEMMA Least ==
    ASSUME NEW T \in SUBSET Nat, T # {}
    PROVE  \E n \in T : \A k \in T : n <= k
<1> DEFINE R == OpToRel(<, Nat)
<1>1. R = {ss \in Nat \X Nat : ss[1] < ss[2]}
  BY DEF OpToRel
<1>2. \A k, n \in Nat : k < n => <<k, n>> \in R
  BY <1>1
<1>3. IsWellFoundedOn(R, Nat)
  BY NatLessThanWellFounded
<1> HIDE DEF R
<1>4. PICK n \in T : \A k \in T : ~ <<k, n>> \in R
  BY <1>3, WFMin
<1>5. ASSUME NEW k \in T PROVE n <= k
  <2>1. k \in Nat /\ n \in Nat
    OBVIOUS
  <2>2. ~(k < n)
    BY <2>1, <1>2, <1>4
  <2> QED
    BY <2>1, <2>2
<1> QED
  BY <1>5

LEMMA MinNat ==
    ASSUME NEW S \in SUBSET Nat, S # {}
    PROVE  Min(S) \in S /\ \A y \in S : Min(S) <= y
<1>1. PICK x \in S : \A y \in S : x <= y
  BY Least
<1> QED
  BY <1>1 DEF Min

(* A bounded set of natural numbers has a greatest element. *)
LEMMA MaxNat ==
    ASSUME NEW S \in SUBSET Nat, S # {}, NEW b \in Nat, \A x \in S : x <= b
    PROVE  Max(S) \in S /\ \A y \in S : y <= Max(S)
<1>1. PICK T : T = {c \in Nat : \A x \in S : x <= c}
  OBVIOUS
<1>2. T \in SUBSET Nat /\ b \in T
  BY <1>1
<1>3. PICK c \in T : \A k \in T : c <= k
  BY <1>2, Least
<1>4. c \in S
  <2>1. SUFFICES ASSUME c \notin S PROVE FALSE
    OBVIOUS
  <2>2. PICK x \in S : TRUE
    OBVIOUS
  <2>3. \A y \in S : y \in Nat /\ c \in Nat /\ y <= c /\ y # c
    BY <1>1, <1>2, <1>3, <2>1
  <2>4. c - 1 \in Nat /\ \A y \in S : y <= c - 1
    BY <2>2, <2>3
  <2>5. c - 1 \in T
    BY <2>4, <1>1
  <2> QED
    BY <2>3, <2>2, <2>5, <1>3
<1>5. \A y \in S : y <= c
  BY <1>1, <1>3
<1>6. \E x \in S : \A y \in S : x >= y
  BY <1>2, <1>4, <1>5
<1>7. Max(S) \in S /\ \A y \in S : Max(S) >= y
  BY <1>6 DEF Max
<1> QED
  BY <1>7

LEMMA MaxPair ==
    ASSUME NEW a \in Int, NEW b \in Int
    PROVE  Max({a, b}) = IF a >= b THEN a ELSE b
<1>1. \E x \in {a, b} : \A y \in {a, b} : x >= y
  OBVIOUS
<1>2. Max({a, b}) \in {a, b} /\ \A y \in {a, b} : Max({a, b}) >= y
  BY <1>1 DEF Max
<1> QED
  BY <1>2

LEMMA MinPair ==
    ASSUME NEW a \in Int, NEW b \in Int
    PROVE  Min({a, b}) = IF a <= b THEN a ELSE b
<1>1. \E x \in {a, b} : \A y \in {a, b} : x <= y
  OBVIOUS
<1>2. Min({a, b}) \in {a, b} /\ \A y \in {a, b} : Min({a, b}) <= y
  BY <1>1 DEF Min
<1> QED
  BY <1>2

Covered(parked, i) == \E r \in parked : r.from <= i /\ i <= r.to

(* The claim advances to the first index that no parked range covers. *)
LEMMA AdvanceFacts ==
    ASSUME NEW at \in Nat, NEW parked, NEW cap \in Nat, at <= cap,
           NEW a, a = AdvanceDurable(at, parked, cap)
    PROVE  /\ a \in Nat /\ at <= a /\ a <= cap
           /\ a < cap => ~Covered(parked, a + 1)
<1>1. PICK S : S = {at} \cup {d1 \in (at + 1)..cap :
              \A i \in (at + 1)..d1 : \E r \in parked : r.from <= i /\ i <= r.to}
  OBVIOUS
<1>2. S \in SUBSET Nat /\ S # {} /\ at \in S /\ \A x \in S : x <= cap
  BY <1>1
<1>3. a = Max(S)
  BY <1>1 DEF AdvanceDurable
<1>4. a \in S /\ \A y \in S : y <= a
  BY <1>2, <1>3, MaxNat
<1>5. ASSUME a < cap, Covered(parked, a + 1) PROVE FALSE
  <2>1. \A i \in (at + 1)..(a + 1) : \E r \in parked : r.from <= i /\ i <= r.to
    <3> SUFFICES ASSUME NEW i \in (at + 1)..(a + 1)
                 PROVE  \E r \in parked : r.from <= i /\ i <= r.to
      OBVIOUS
    <3>1. CASE i = a + 1
      BY <3>1, <1>5 DEF Covered
    <3>2. CASE i # a + 1
      <4>1. a \in Nat /\ i \in (at + 1)..a /\ a # at
        BY <3>2, <1>2, <1>4
      <4>2. \A j \in (at + 1)..a : \E r \in parked : r.from <= j /\ j <= r.to
        BY <4>1, <1>1, <1>4
      <4> QED
        BY <4>1, <4>2
    <3> QED
      BY <3>1, <3>2
  <2>2. a + 1 \in (at + 1)..cap
    BY <1>2, <1>4, <1>5
  <2>3. a + 1 \in S
    BY <2>1, <2>2, <1>1
  <2> QED
    BY <2>3, <1>2, <1>4
<1> QED
  BY <1>2, <1>4, <1>5

-----------------------------------------------------------------------------
(* Types. *)

Rec == [index : Nat, term : Nat]
Cell == {Damaged} \cup Rec
Write == [op : {"setLen"}, len : Int] \cup [op : {"data"}, at : Int, recs : Seq(Rec)]
Snap == [seq : Nat, index : Nat \ {0}, term : Int, file : Files]
LogBatch == [kind : {"log"}, from : Int, to : Int, syncing : BOOLEAN]
SnapBatch == [kind : {"taken", "installed"}, snap : Snap, syncing : BOOLEAN]
Batch == LogBatch \cup SnapBatch
ParkedRange == [from : Int, to : Int]

Node == [snap : Nat, snapTerm : Int, ents : Seq(Int), base : Int, commit : Nat, durable : Nat,
         parked : SUBSET ParkedRange, batches : Seq(Batch), seq : Nat, highest : Nat,
         inFlight : BOOLEAN, file : {"none", "A", "B"}]

Disk == [cells : Seq(Cell), pending : Seq(Write), files : [Files -> Snap \cup {Nothing}],
         writing : Snap \cup {Nothing}]

EnvOK ==
    /\ {"leaderLog", "leaderCommit", "threshold", "mayLose", "maxInFlight",
        "maxSnapshots", "maxCrashes", "crashes"} \subseteq DOMAIN env
    /\ DOMAIN LeaderLog \subseteq Nat
    /\ \A t \in DOMAIN LeaderLog : /\ LeaderLog[t] \in Seq(1..t)
                                   /\ LeaderCommit[t] \in 0..Len(LeaderLog[t])

LEMMA NodeFacts ==
    ASSUME NEW n \in Node
    PROVE  /\ n.snap \in Nat /\ n.ents \in Seq(Int) /\ n.commit \in Nat /\ n.durable \in Nat
           /\ Len(n.ents) \in Nat /\ LastIndex(n) = n.snap + Len(n.ents) /\ LastIndex(n) \in Nat
           /\ n.snapTerm \in Int /\ n.base \in Int
           /\ n.parked \in SUBSET ParkedRange /\ n.batches \in Seq(Batch)
           /\ DOMAIN n.batches = 1..Len(n.batches) /\ Len(n.batches) \in Nat
           /\ n.seq \in Nat /\ n.highest \in Nat /\ n.inFlight \in BOOLEAN
           /\ n.file \in {"none", "A", "B"}
BY DEF Node, LastIndex

LEMMA TermAtType ==
    ASSUME NEW n \in Node, NEW i \in Nat
    PROVE  /\ TermAt(n, i) \in Int
           /\ TermAt(n, i) # -1 => i = 0 \/ (n.snap <= i /\ i <= LastIndex(n))
<1>1. CASE i = 0
  BY <1>1 DEF TermAt
<1>2. CASE i # 0 /\ i = n.snap
  BY <1>2, NodeFacts DEF TermAt
<1>3. CASE i # 0 /\ i # n.snap /\ i \in (n.snap + 1)..LastIndex(n)
  <2>1. i - n.snap \in 1..Len(n.ents)
    BY <1>3, NodeFacts
  <2>2. n.ents[i - n.snap] \in Int
    BY <2>1, NodeFacts
  <2> QED
    BY <1>3, <2>2, NodeFacts DEF TermAt
<1>4. CASE i # 0 /\ i # n.snap /\ i \notin (n.snap + 1)..LastIndex(n)
  BY <1>4 DEF TermAt
<1> QED
  BY <1>1, <1>2, <1>3, <1>4

(* What is written to the file leaves cells in it. *)
LEMMA ApplyType ==
    ASSUME NEW cells \in Seq(Cell), NEW w \in Write
    PROVE  Apply(cells, w) \in Seq(Cell)
<1>1. ASSUME NEW k \in Int, NEW g, g = [i \in 1..k |-> g[i]], \A i \in 1..k : g[i] \in Cell
      PROVE  g \in Seq(Cell)
  <2>1. CASE k \in Nat
    BY <1>1, <2>1
  <2>2. CASE k \notin Nat
    <3>1. 1..k = {}
      BY <2>2
    <3>2. g = <<>>
      BY <1>1, <3>1
    <3> QED
      BY <3>2
  <2> QED
    BY <2>1, <2>2
<1>2. Damaged \in Cell /\ \A i \in DOMAIN cells : cells[i] \in Cell
  BY DEF Cell
<1>3. CASE w.op = "setLen"
  <2>1. w.len \in Int
    BY <1>3 DEF Write
  <2>2. PICK g : g = [i \in 1..w.len |-> IF i \in DOMAIN cells THEN cells[i] ELSE Damaged]
    OBVIOUS
  <2>3. g = [i \in 1..w.len |-> g[i]] /\ \A i \in 1..w.len : g[i] \in Cell
    BY <2>2, <1>2
  <2>4. g \in Seq(Cell)
    BY <2>1, <2>3, <1>1
  <2> QED
    BY <1>3, <2>2, <2>4 DEF Apply
<1>4. CASE w.op # "setLen"
  <2>1. w.at \in Int /\ w.recs \in Seq(Rec)
    BY <1>4 DEF Write
  <2>2. PICK end : end = w.at + Len(w.recs) - 1
    OBVIOUS
  <2>3. PICK k : k = Max({end, Len(cells)})
    OBVIOUS
  <2>4. end \in Int /\ k \in Int
    BY <2>1, <2>2, <2>3, MaxPair
  <2>5. PICK g : g = [i \in 1..k |-> IF i \in w.at..end THEN w.recs[i - w.at + 1]
                                     ELSE IF i \in DOMAIN cells THEN cells[i] ELSE Damaged]
    OBVIOUS
  <2>6. \A i \in 1..k : g[i] \in Cell
    <3> SUFFICES ASSUME NEW i \in 1..k PROVE g[i] \in Cell
      OBVIOUS
    <3>1. CASE i \in w.at..end
      <4>1. i - w.at + 1 \in 1..Len(w.recs)
        BY <2>1, <2>2, <2>4, <3>1
      <4>2. w.recs[i - w.at + 1] \in Rec
        BY <2>1, <4>1
      <4> QED
        BY <2>5, <3>1, <4>2 DEF Cell
    <3>2. CASE i \notin w.at..end
      BY <2>5, <3>2, <1>2
    <3> QED
      BY <3>1, <3>2
  <2>7. g \in Seq(Cell)
    BY <2>4, <2>5, <2>6, <1>1
  <2> QED
    BY <1>4, <2>2, <2>3, <2>5, <2>7 DEF Apply
<1> QED
  BY <1>3, <1>4

(* The function that ApplySome is defined by. *)
Applies(g, cells, ws, kept, n) ==
    g = [i \in 0..n |-> IF i = 0 THEN cells
                        ELSE IF i \in kept THEN Apply(g[i - 1], ws[i]) ELSE g[i - 1]]

LEMMA AppliesExists ==
    ASSUME NEW cells, NEW ws, NEW kept, NEW n \in Nat
    PROVE  \E g : Applies(g, cells, ws, kept, n)
<1> DEFINE T == {k \in Nat : ~ \E g : Applies(g, cells, ws, kept, k)}
<1> SUFFICES ASSUME T # {} PROVE FALSE
  OBVIOUS
<1>1. PICK k \in T : \A j \in T : k <= j
  BY Least
<1>2. k # 0
  <2> DEFINE h == [i \in 0..0 |-> cells]
  <2>1. h = [i \in 0..0 |-> IF i = 0 THEN cells
                            ELSE IF i \in kept THEN Apply(h[i - 1], ws[i]) ELSE h[i - 1]]
    OBVIOUS
  <2>2. Applies(h, cells, ws, kept, 0)
    BY <2>1 DEF Applies
  <2> QED
    BY <2>2
<1>3. k - 1 \in Nat /\ k - 1 \notin T
  BY <1>1, <1>2
<1>4. PICK g : Applies(g, cells, ws, kept, k - 1)
  BY <1>3
<1> DEFINE h == [i \in 0..k |-> IF i = k
                                THEN IF k \in kept THEN Apply(g[k - 1], ws[k]) ELSE g[k - 1]
                                ELSE g[i]]
<1>5. \A i \in 0..k : h[i] = IF i = 0 THEN cells
                             ELSE IF i \in kept THEN Apply(h[i - 1], ws[i]) ELSE h[i - 1]
  BY <1>2, <1>3, <1>4 DEF Applies
<1>6. h = [i \in 0..k |-> IF i = 0 THEN cells
                          ELSE IF i \in kept THEN Apply(h[i - 1], ws[i]) ELSE h[i - 1]]
  BY <1>5
<1>7. Applies(h, cells, ws, kept, k)
  BY <1>6 DEF Applies
<1> QED
  BY <1>7

LEMMA ApplySomeType ==
    ASSUME NEW cells \in Seq(Cell), NEW ws \in Seq(Write), NEW kept
    PROVE  ApplySome(cells, ws, kept) \in Seq(Cell)
<1>1. PICK n \in Nat : n = Len(ws)
  OBVIOUS
<1> DEFINE a == CHOOSE g : Applies(g, cells, ws, kept, n)
<1>2. Applies(a, cells, ws, kept, n)
  BY AppliesExists
<1>3. ApplySome(cells, ws, kept) = a[n]
  BY <1>1 DEF ApplySome, Applies
<1> HIDE DEF a
<1> DEFINE T == {k \in Nat : k <= n /\ a[k] \notin Seq(Cell)}
<1>4. ASSUME T # {} PROVE FALSE
  <2>1. PICK k \in T : \A j \in T : k <= j
    BY <1>4, Least
  <2>2. k # 0
    BY <1>2 DEF Applies
  <2>3. k - 1 \in Nat /\ k - 1 \notin T /\ k \in 1..n /\ k - 1 <= n
    BY <2>1, <2>2
  <2>4. a[k - 1] \in Seq(Cell) /\ ws[k] \in Write
    BY <2>3, <1>1
  <2>5. a[k] = IF k \in kept THEN Apply(a[k - 1], ws[k]) ELSE a[k - 1]
    BY <1>2, <2>2, <2>3 DEF Applies
  <2>6. Apply(a[k - 1], ws[k]) \in Seq(Cell)
    BY <2>4, ApplyType
  <2> QED
    BY <2>4, <2>5, <2>6
<1>5. n \notin T
  BY <1>4
<1> QED
  BY <1>3, <1>5

LEMMA SyncType ==
    ASSUME NEW dd \in Disk, NEW u, u = Sync(dd)
    PROVE  u \in Disk /\ u.files = dd.files /\ u.writing = dd.writing
<1>1. PICK c : c = ApplyAll(dd.cells, dd.pending)
  OBVIOUS
<1>2. c \in Seq(Cell)
  BY <1>1, ApplySomeType DEF ApplyAll, Disk
<1>3. PICK e : e = <<>>
  OBVIOUS
<1>4. e \in Seq(Write)
  BY <1>3
<1>5. u = [dd EXCEPT !.cells = c, !.pending = e]
  BY <1>1, <1>3 DEF Sync
<1>6. u \in Disk
  BY <1>2, <1>4, <1>5 DEF Disk
<1> QED
  BY <1>5, <1>6 DEF Disk

LEMMA ReadType ==
    ASSUME NEW cells \in Seq(Cell), NEW found, found = ReadRecords(cells)
    PROVE  found \in Seq(Rec)
<1>1. PICK S : S = {0} \cup {i \in DOMAIN cells :
        \A j \in 1..i : /\ cells[j] # Damaged
                        /\ cells[j].index = cells[1].index + j - 1
                        /\ j > 1 => cells[j - 1].term <= cells[j].term}
  OBVIOUS
<1>2. S \in SUBSET Nat /\ S # {} /\ \A x \in S : x <= Len(cells)
  BY <1>1
<1>3. PICK k : k = Max(S)
  OBVIOUS
<1>4. k \in S /\ k \in Nat /\ k <= Len(cells)
  <2>1. Len(cells) \in Nat
    OBVIOUS
  <2>2. k \in S
    BY <2>1, <1>2, <1>3, MaxNat
  <2> QED
    BY <2>2, <1>2
<1>5. \A j \in 1..k : cells[j] \in Rec
  <2> SUFFICES ASSUME NEW j \in 1..k PROVE cells[j] \in Rec
    OBVIOUS
  <2>1. k # 0
    BY <1>4
  <2>2. cells[j] # Damaged
    BY <2>1, <1>1, <1>4
  <2>3. cells[j] \in Cell
    BY <1>4
  <2> QED
    BY <2>2, <2>3 DEF Cell
<1>6. found = SubSeq(cells, 1, k)
  BY <1>1, <1>3 DEF ReadRecords
<1>7. found = [j \in 1..k |-> cells[j]]
  BY <1>4, <1>6
<1> QED
  BY <1>4, <1>5, <1>7

LEMMA ContinuesType ==
    ASSUME NEW found \in Seq(Rec), NEW i \in Nat, NEW u, u = Continues(found, i)
    PROVE  u \in Seq(Rec) /\ (u # <<>> => Len(found) > 0)
<1>1. PICK S : S = {k \in DOMAIN found : found[k].index > i}
  OBVIOUS
<1>2. S \in SUBSET Nat
  BY <1>1
<1>3. CASE S # {} /\ found[Min(S)].index = i + 1
  <2>1. PICK k : k = Min(S)
    OBVIOUS
  <2>2. k \in DOMAIN found
    BY <2>1, <1>1, <1>2, <1>3, MinNat
  <2>3. u = SubSeq(found, k, Len(found))
    BY <1>1, <1>3, <2>1 DEF Continues
  <2> QED
    BY <2>2, <2>3
<1>4. CASE ~(S # {} /\ found[Min(S)].index = i + 1)
  <2>1. u = <<>>
    BY <1>1, <1>4 DEF Continues
  <2> QED
    BY <2>1
<1> QED
  BY <1>3, <1>4

-----------------------------------------------------------------------------
(* The invariant.                                                          *)

IsSnap(b) == b.kind # "log"

(* A snapshot under way goes to the file that does not hold the newest,    *)
(* and replaces nothing that is newer.                                     *)
UnderWay(n, dd, b) ==
    /\ n.inFlight /\ b.snap.file # n.file
    /\ n.snap <= b.snap.index /\ b.snap.index <= n.highest
    /\ b.kind = "taken" => b.snap.index <= n.commit
    /\ b.kind = "installed" => b.snap.term \in Nat
    /\ IF b.syncing THEN dd.files[b.snap.file] = b.snap /\ dd.writing = Nothing
       ELSE dd.writing = b.snap

(* The file that holds the newest snapshot covers what was compacted, and  *)
(* is not the one that is written.                                         *)
FilesInv(n, dd) ==
    /\ \A f \in Files : dd.files[f].index # 0 => dd.files[f].file = f
    /\ IF n.file = "none" THEN n.snap = 0 ELSE dd.files[n.file].index >= n.snap
    /\ n.snap <= n.highest /\ n.snap <= n.commit
    /\ dd.writing.index # 0 => dd.writing.file # n.file
    /\ \A k \in DOMAIN n.batches : IsSnap(n.batches[k]) => UnderWay(n, dd, n.batches[k])
    /\ \A j, k \in DOMAIN n.batches : IsSnap(n.batches[j]) /\ IsSnap(n.batches[k]) => j = k

InFlight(q, i) == \E k \in DOMAIN q : q[k].kind = "log" /\ q[k].from <= i /\ i <= q[k].to

(* What is not claimed is parked behind a gap or in flight. *)
LogInv(n) ==
    /\ n.durable <= LastIndex(n)
    /\ \A r \in n.parked : r.to <= LastIndex(n)
    /\ \A i \in (n.durable + 1)..LastIndex(n) : Covered(n.parked, i) \/ InFlight(n.batches, i)
    /\ n.durable < LastIndex(n) => ~Covered(n.parked, n.durable + 1)

LEMMA DiskFacts ==
    ASSUME NEW dd \in Disk
    PROVE  /\ dd.cells \in Seq(Cell) /\ dd.pending \in Seq(Write)
           /\ dd.files \in [Files -> Snap \cup {Nothing}]
           /\ dd.writing \in Snap \cup {Nothing}
           /\ "none" \notin Files
           /\ dd.writing.index \in Nat /\ \A f \in Files : dd.files[f].index \in Nat
           /\ dd.writing.index # 0 => dd.writing \in Snap
           /\ \A f \in Files : dd.files[f].index # 0 => dd.files[f] \in Snap
<1>1. /\ dd.cells \in Seq(Cell) /\ dd.pending \in Seq(Write)
      /\ dd.files \in [Files -> Snap \cup {Nothing}]
      /\ dd.writing \in Snap \cup {Nothing}
  BY DEF Disk
<1>2. \A s \in Snap \cup {Nothing} : s.index \in Nat /\ (s.index # 0 => s \in Snap)
  BY DEF Snap, Nothing
<1>3. "none" \notin Files
  BY DEF Files
<1> QED
  BY <1>1, <1>2, <1>3

(* What comes back after a crash is the better of the two files. *)
LEMMA PickFacts ==
    ASSUME NEW files \in [Files -> Snap \cup {Nothing}], NEW s, s = Pick(files)
    PROVE  /\ s \in Snap \cup {Nothing} /\ \E f \in Files : s = files[f]
           /\ \A f \in Files : s.index >= files[f].index
<1>1. files["A"] \in Snap \cup {Nothing} /\ files["B"] \in Snap \cup {Nothing}
  BY DEF Files
<1>2. files["A"].index \in Nat /\ files["B"].index \in Nat
  BY <1>1 DEF Snap, Nothing
<1>3. CASE Newer(files["A"], files["B"])
  BY <1>1, <1>2, <1>3 DEF Newer, Pick, Files
<1>4. CASE ~Newer(files["A"], files["B"])
  BY <1>1, <1>2, <1>4 DEF Newer, Pick, Files
<1> QED
  BY <1>3, <1>4

LEMMA RecoveredFacts ==
    ASSUME NEW cells \in Seq(Cell), NEW files \in [Files -> Snap \cup {Nothing}],
           \A f \in Files : files[f].index # 0 => files[f].file = f,
           NEW n, n = Recovered(cells, files),
           NEW dd, dd = [cells |-> cells, pending |-> <<>>, files |-> files, writing |-> Nothing]
    PROVE  n \in Node /\ dd \in Disk /\ FilesInv(n, dd) /\ LogInv(n)
<1>1. PICK best : best = Pick(files)
  OBVIOUS
<1>2. PICK found : found = ReadRecords(cells)
  OBVIOUS
<1>3. best.index \in Nat /\ (best.index # 0 => best \in Snap)
  BY <1>1, PickFacts DEF Snap, Nothing
<1>4. PICK usable : usable = Continues(found, best.index)
  OBVIOUS
<1>5. found \in Seq(Rec) /\ usable \in Seq(Rec) /\ (usable # <<>> => Len(found) > 0)
  BY <1>2, <1>3, <1>4, ReadType, ContinuesType
<1>6. n = [snap |-> best.index,
           snapTerm |-> IF best.index = 0 THEN 0 ELSE best.term,
           ents |-> [i \in DOMAIN usable |-> usable[i].term],
           base |-> IF usable = <<>> THEN best.index ELSE found[1].index - 1,
           commit |-> best.index,
           durable |-> best.index + Len(usable),
           parked |-> {},
           batches |-> <<>>,
           seq |-> IF best.index = 0 THEN 1 ELSE best.seq + 1,
           highest |-> best.index,
           inFlight |-> FALSE,
           file |-> IF best.index = 0 THEN "none" ELSE best.file]
  BY <1>1, <1>2, <1>4 DEF Recovered
<1>7. /\ n.snap = best.index /\ n.ents = [i \in DOMAIN usable |-> usable[i].term]
      /\ n.commit = best.index /\ n.durable = best.index + Len(usable) /\ n.parked = {}
      /\ n.batches = <<>> /\ n.highest = best.index
      /\ n.file = IF best.index = 0 THEN "none" ELSE best.file
  BY <1>6
<1>8. Len(usable) \in Nat /\ DOMAIN usable = 1..Len(usable) /\ \A i \in 1..Len(usable) : usable[i] \in Rec
  BY <1>5
<1>9. \A r \in Rec : r.term \in Int /\ r.index \in Int
  BY DEF Rec
<1>10. n.ents \in Seq(Int) /\ Len(n.ents) = Len(usable)
  <2>1. n.ents = [i \in 1..Len(usable) |-> usable[i].term]
    BY <1>7, <1>8
  <2>2. \A i \in 1..Len(usable) : usable[i].term \in Int
    BY <1>8, <1>9
  <2> QED
    BY <2>1, <2>2, <1>8
<1>11. n.base \in Int
  <2>1. CASE usable = <<>>
    BY <1>3, <1>6, <2>1
  <2>2. CASE usable # <<>>
    <3>1. found[1] \in Rec
      BY <1>5, <2>2
    <3> QED
      BY <1>6, <1>9, <2>2, <3>1
  <2> QED
    BY <2>1, <2>2
<1>12. n \in Node
  <2>1. n.snapTerm \in Int /\ n.seq \in Nat /\ n.file \in {"none", "A", "B"}
    BY <1>3, <1>6 DEF Snap, Files
  <2>2. n.snap \in Nat /\ n.commit \in Nat /\ n.durable \in Nat /\ n.highest \in Nat
    BY <1>3, <1>7, <1>8
  <2>3. n.parked \in SUBSET ParkedRange /\ n.batches \in Seq(Batch) /\ n.inFlight \in BOOLEAN
    BY <1>6
  <2>4. n = [snap |-> n.snap, snapTerm |-> n.snapTerm, ents |-> n.ents, base |-> n.base,
             commit |-> n.commit, durable |-> n.durable, parked |-> n.parked,
             batches |-> n.batches, seq |-> n.seq, highest |-> n.highest,
             inFlight |-> n.inFlight, file |-> n.file]
    BY <1>6
  <2> QED
    BY <2>1, <2>2, <2>3, <2>4, <1>10, <1>11 DEF Node
<1>13. dd \in Disk
  BY DEF Disk
<1>14. FilesInv(n, dd)
  <2>1. DOMAIN n.batches = {}
    BY <1>7
  <2>2. dd.files = files /\ dd.writing.index = 0
    BY DEF Nothing
  <2>3. PICK f \in Files : best = files[f]
    BY <1>1, PickFacts
  <2>4. IF n.file = "none" THEN n.snap = 0 ELSE dd.files[n.file].index >= n.snap
    <3>1. CASE best.index = 0
      BY <3>1, <1>7
    <3>2. CASE best.index # 0
      <4>1. best.file = f /\ n.file = f
        BY <2>3, <3>2, <1>7
      <4> QED
        BY <4>1, <2>2, <2>3, <1>3, <1>7 DEF Files
    <3> QED
      BY <3>1, <3>2
  <2> QED
    BY <2>1, <2>2, <2>4, <1>3, <1>7 DEF FilesInv
<1>15. LogInv(n)
  <2>1. LastIndex(n) = n.durable /\ n.durable \in Nat
    BY <1>3, <1>7, <1>8, <1>10 DEF LastIndex
  <2> QED
    BY <2>1, <1>7 DEF LogInv
<1> QED
  BY <1>12, <1>13, <1>14, <1>15

-----------------------------------------------------------------------------
(* Writing a snapshot, and `drain`.                                        *)

LEMMA SameLog ==
    ASSUME NEW n, NEW u, LogInv(n), u.snap = n.snap, u.ents = n.ents, u.durable = n.durable,
           u.parked = n.parked, \A i : InFlight(n.batches, i) => InFlight(u.batches, i)
    PROVE  LogInv(u)
<1>1. LastIndex(u) = LastIndex(n)
  BY DEF LastIndex
<1> QED
  BY <1>1 DEF LogInv

LEMMA WriterType ==
    ASSUME NEW n \in Node, NEW a \in Nat, NEW h \in Nat, NEW q \in Seq(Batch)
    PROVE  [n EXCEPT !.seq = a, !.highest = h, !.inFlight = TRUE, !.batches = q] \in Node
BY DEF Node

LEMMA WriteKeeps ==
    ASSUME NEW n \in Node, NEW dd \in Disk, FilesInv(n, dd), ~n.inFlight,
           NEW kind \in {"taken", "installed"}, NEW index \in Nat \ {0}, n.snap <= index,
           NEW t \in Int, kind = "taken" => index <= n.commit, kind = "installed" => t \in Nat,
           NEW r, r = WriteSnapshot([m |-> n, d |-> dd], kind, index, t)
    PROVE  /\ r.m \in Node /\ r.d \in Disk /\ FilesInv(r.m, r.d) /\ (LogInv(n) => LogInv(r.m))
           /\ r.m.commit = n.commit /\ r.m.snap = n.snap /\ r.m.ents = n.ents
<1>1. PICK file : file = NextSnapshotFile(n)
  OBVIOUS
<1>2. file \in Files /\ file # n.file
  BY <1>1, NodeFacts DEF NextSnapshotFile, Files
<1>3. PICK snap : snap = [seq |-> n.seq, index |-> index, term |-> t, file |-> file]
  OBVIOUS
<1>4. snap \in Snap /\ snap.index = index /\ snap.term = t /\ snap.file = file
  BY <1>2, <1>3, NodeFacts DEF Snap
<1>5. PICK b : b = [kind |-> kind, snap |-> snap, syncing |-> FALSE]
  OBVIOUS
<1>6. b \in Batch /\ b.kind = kind /\ b.snap = snap /\ b.syncing = FALSE
  BY <1>4, <1>5 DEF Batch, SnapBatch
<1>7. PICK q : q = Append(n.batches, b)
  OBVIOUS
<1>8. PICK h : h = Max({n.highest, index})
  OBVIOUS
<1>9. h \in Nat /\ n.highest <= h /\ index <= h
  <2>1. n.highest \in Nat
    BY NodeFacts
  <2>2. h = IF n.highest >= index THEN n.highest ELSE index
    BY <2>1, <1>8, MaxPair
  <2> QED
    BY <2>1, <2>2
<1>10. /\ r.m = [n EXCEPT !.seq = n.seq + 1, !.highest = h, !.inFlight = TRUE, !.batches = q]
       /\ r.d = [dd EXCEPT !.writing = snap]
  BY <1>1, <1>3, <1>5, <1>7, <1>8 DEF WriteSnapshot
<1>11. /\ q \in Seq(Batch) /\ DOMAIN q = DOMAIN n.batches \cup {Len(n.batches) + 1}
       /\ \A k \in DOMAIN n.batches : q[k] = n.batches[k]
       /\ q[Len(n.batches) + 1] = b
       /\ \A i : InFlight(n.batches, i) => InFlight(q, i)
  <2>1. n.batches \in Seq(Batch)
    BY NodeFacts
  <2> QED
    <3>1. b \in Batch
      BY <1>6
    <3>2. q = Append(n.batches, b)
      BY <1>7
    <3>3. q \in Seq(Batch)
      BY <2>1, <3>1, <3>2
    <3>4. /\ DOMAIN q = DOMAIN n.batches \cup {Len(n.batches) + 1}
          /\ \A k \in DOMAIN n.batches : q[k] = n.batches[k]
          /\ q[Len(n.batches) + 1] = b
      BY <2>1, <3>1, <3>2
    <3>5. \A i : InFlight(n.batches, i) => InFlight(q, i)
      BY <3>4 DEF InFlight
    <3> QED
      BY <3>3, <3>4, <3>5
<1>12. r.m \in Node
  <2>1. n.seq + 1 \in Nat
    BY NodeFacts
  <2> QED
    <3>1. h \in Nat /\ q \in Seq(Batch)
      BY <1>9, <1>11
    <3>2. [n EXCEPT !.seq = n.seq + 1, !.highest = h, !.inFlight = TRUE, !.batches = q] \in Node
      BY <2>1, <3>1, WriterType
    <3> QED
      BY <3>2, <1>10
<1>13. /\ r.m.commit = n.commit /\ r.m.snap = n.snap /\ r.m.ents = n.ents
       /\ r.m.durable = n.durable /\ r.m.parked = n.parked /\ r.m.batches = q
       /\ r.m.highest = h /\ r.m.inFlight = TRUE /\ r.m.file = n.file
  BY <1>10 DEF Node
<1>14. r.d \in Disk /\ r.d.files = dd.files /\ r.d.writing = snap
  BY <1>4, <1>10 DEF Disk
<1>15. \A k \in DOMAIN n.batches : ~IsSnap(n.batches[k])
  BY DEF FilesInv, UnderWay
<1>16. UnderWay(r.m, r.d, b)
  BY <1>2, <1>4, <1>6, <1>9, <1>13, <1>14 DEF UnderWay
<1>17. FilesInv(r.m, r.d)
  <2>1. \A k \in DOMAIN q : IsSnap(q[k]) => k = Len(n.batches) + 1
    BY <1>11, <1>15
  <2>2. \A k \in DOMAIN q : IsSnap(q[k]) => UnderWay(r.m, r.d, q[k])
    BY <2>1, <1>11, <1>16
  <2>3. n.snap <= h
    BY <1>9, NodeFacts DEF FilesInv
  <2> QED
    BY <2>1, <2>2, <2>3, <1>2, <1>4, <1>13, <1>14 DEF FilesInv
<1>18. LogInv(n) => LogInv(r.m)
  BY <1>11, <1>13, SameLog
<1> QED
  BY <1>12, <1>13, <1>14, <1>17, <1>18

(* What a handler leaves before `drain` is as good after it. *)
LEMMA DrainKeeps ==
    ASSUME NEW n \in Node, NEW dd \in Disk, FilesInv(n, dd),
           NEW r, r = Drain([m |-> n, d |-> dd])
    PROVE  /\ r.m \in Node /\ r.d \in Disk /\ FilesInv(r.m, r.d) /\ (LogInv(n) => LogInv(r.m))
           /\ r.m.commit = n.commit
<1>1. PICK s : s = [m |-> n, d |-> dd]
  OBVIOUS
<1>2. s.m = n /\ s.d = dd
  BY <1>1
<1>3. CASE ~WantsSnapshot(n)
  BY <1>1, <1>2, <1>3 DEF Drain
<1>4. CASE WantsSnapshot(n)
  <2>1. ~n.inFlight /\ n.commit > n.snap
    BY <1>4 DEF WantsSnapshot, MayWrite
  <2>2. n.commit \in Nat \ {0} /\ n.snap <= n.commit
    BY <2>1, NodeFacts
  <2>3. PICK t : t = TermAt(n, n.commit)
    OBVIOUS
  <2>4. t \in Int
    BY <2>2, <2>3, TermAtType
  <2>5. r = WriteSnapshot([m |-> n, d |-> dd], "taken", n.commit, t)
    BY <1>1, <1>2, <1>4, <2>3 DEF Drain
  <2> QED
    BY <2>1, <2>2, <2>4, <2>5, WriteKeeps
<1> QED
  BY <1>3, <1>4

(* The state, and the settings it is in. *)
FilesOK == EnvOK /\ m \in Node /\ d \in Disk /\ FilesInv(m, d)

LEMMA HandleKeeps ==
    ASSUME EnvOK, NEW n \in Node, NEW dd \in Disk, FilesInv(n, dd), Handle([m |-> n, d |-> dd])
    PROVE  FilesOK' /\ (LogInv(n) => LogInv(m)')
<1>1. PICK r : r = Drain([m |-> n, d |-> dd])
  OBVIOUS
<1>2. m' = r.m /\ d' = r.d /\ env' = env
  BY <1>1 DEF Handle
<1>3. EnvOK'
  BY <1>2 DEF EnvOK, LeaderLog, LeaderCommit
<1>4. r.m \in Node /\ r.d \in Disk /\ FilesInv(r.m, r.d) /\ (LogInv(n) => LogInv(r.m))
  BY <1>1, DrainKeeps
<1>5. FilesInv(m, d)' /\ (LogInv(n) => LogInv(m)')
  BY <1>2, <1>4 DEF FilesInv, LogInv, LastIndex, UnderWay, IsSnap, InFlight
<1> QED
  BY <1>2, <1>3, <1>4, <1>5 DEF FilesOK

-----------------------------------------------------------------------------
(* An append.                                                              *)

LEMMA SameFiles ==
    ASSUME NEW n \in Node, NEW u \in Node, NEW dd, NEW ee, FilesInv(n, dd),
           ee.files = dd.files, ee.writing = dd.writing,
           u.snap = n.snap, u.highest = n.highest, u.file = n.file, u.inFlight = n.inFlight,
           n.commit <= u.commit,
           \A k \in DOMAIN u.batches : IsSnap(u.batches[k]) =>
             k \in DOMAIN n.batches /\ u.batches[k] = n.batches[k]
    PROVE  FilesInv(u, ee)
<1>1. n.snap \in Nat /\ n.commit \in Nat /\ u.commit \in Nat
  BY NodeFacts
<1>2. ASSUME NEW k \in DOMAIN u.batches, IsSnap(u.batches[k])
      PROVE  UnderWay(u, ee, u.batches[k])
  <2>1. PICK b : b = n.batches[k]
    OBVIOUS
  <2>2. k \in DOMAIN n.batches /\ u.batches[k] = b /\ IsSnap(b)
    BY <1>2, <2>1
  <2>4. UnderWay(n, dd, b)
    BY <2>1, <2>2 DEF FilesInv
  <2>5. b \in Batch
    <3>1. n.batches \in Seq(Batch)
      BY NodeFacts
    <3> QED
      BY <3>1, <2>1, <2>2
  <2>3. b.kind = "taken" => b.snap.index \in Nat
    BY <2>5 DEF Batch, LogBatch, SnapBatch, Snap
  <2> QED
    BY <2>2, <2>3, <2>4, <1>1 DEF UnderWay
<1>3. n.snap <= u.commit
  BY <1>1 DEF FilesInv
<1> QED
  BY <1>2, <1>3 DEF FilesInv

(* `from` and `start` of OnAppendEntries, in the log lg of the leader. *)
IsFrom(n, prev, from) == from = Max({prev, n.snap})
Differs(n, lg, from, last) == {last + 1} \cup {i \in (from + 1)..last : TermAt(n, i) # lg[i]}
IsStart(n, lg, from, last, start) == start = Min(Differs(n, lg, from, last))

(* The first new entry of an append is above the snapshot and leaves no    *)
(* gap after the log.                                                      *)
LEMMA FromFacts ==
    ASSUME NEW n \in Node, NEW lg, NEW top \in Nat, NEW len \in Nat,
           \A i \in 1..len : lg[i] \in 1..top, NEW prev \in Nat, prev <= len,
           prev < n.snap \/ TermAt(n, prev) = (IF prev = 0 THEN 0 ELSE lg[prev]),
           NEW from, IsFrom(n, prev, from)
    PROVE  from \in Nat /\ n.snap <= from /\ prev <= from /\ from <= LastIndex(n)
<1>1. n.snap \in Nat /\ LastIndex(n) \in Nat /\ n.snap <= LastIndex(n)
  BY NodeFacts
<1>2. from = IF prev >= n.snap THEN prev ELSE n.snap
  BY <1>1, MaxPair DEF IsFrom
<1>3. CASE prev < n.snap
  BY <1>1, <1>2, <1>3
<1>4. CASE ~(prev < n.snap)
  <2>1. TermAt(n, prev) # -1
    <3>1. CASE prev = 0
      BY <1>4, <3>1
    <3>2. CASE prev # 0
      <4>1. lg[prev] \in 1..top
        BY <3>2
      <4> QED
        BY <1>4, <3>2, <4>1
    <3> QED
      BY <3>1, <3>2
  <2>2. prev = 0 \/ prev <= LastIndex(n)
    BY <2>1, TermAtType
  <2> QED
    BY <1>1, <1>2, <1>4, <2>2
<1> QED
  BY <1>3, <1>4

LEMMA StartFacts ==
    ASSUME NEW n \in Node, NEW lg, NEW top \in Nat, NEW len \in Nat,
           \A i \in 1..len : lg[i] \in 1..top, NEW last \in Nat, last <= len,
           NEW from \in Nat, n.snap <= from, from <= LastIndex(n),
           NEW start, IsStart(n, lg, from, last, start)
    PROVE  /\ start \in Nat /\ start <= last + 1
           /\ start <= last => n.snap < start /\ start <= LastIndex(n) + 1 /\ from < start
<1>1. n.snap \in Nat /\ LastIndex(n) \in Nat
  BY NodeFacts
<1>2. PICK S : S = Differs(n, lg, from, last)
  OBVIOUS
<1>3. S \in SUBSET Nat /\ last + 1 \in S
  BY <1>2 DEF Differs
<1>4. start \in S /\ \A y \in S : start <= y
  BY <1>2, <1>3, MinNat DEF IsStart
<1>5. start = last + 1 \/ start \in (from + 1)..last
  BY <1>2, <1>4 DEF Differs
<1>6. ASSUME start <= last, ~(start <= LastIndex(n) + 1) PROVE FALSE
  <2>1. PICK x \in Nat : x = LastIndex(n) + 1
    BY <1>1
  <2>2. start \in Nat
    BY <1>3, <1>4
  <2>3. x \in (from + 1)..last /\ x \in 1..len
    BY <2>1, <2>2, <1>1, <1>6
  <2>4. TermAt(n, x) = -1
    <3>1. x # 0 /\ x # n.snap /\ x \notin (n.snap + 1)..LastIndex(n)
      <4>1. n.snap <= LastIndex(n)
        BY NodeFacts
      <4> QED
        BY <4>1, <2>1, <1>1
    <3> QED
      BY <3>1 DEF TermAt
  <2>5. lg[x] # -1
    <3>1. lg[x] \in 1..top
      BY <2>3
    <3> QED
      BY <3>1
  <2>6. x \in S
    BY <2>3, <2>4, <2>5, <1>2 DEF Differs
  <2> QED
    BY <2>1, <2>2, <2>6, <1>4, <1>6
<1>7. start \in Nat
  BY <1>3, <1>4
<1> QED
  BY <1>1, <1>5, <1>6, <1>7

LEMMA MakeSeq ==
    ASSUME NEW S, NEW k \in Nat, NEW g \in [1..k -> S]
    PROVE  g \in Seq(S) /\ Len(g) = k /\ DOMAIN g = 1..k
OBVIOUS

ClampsTo(q, p, cap) ==
    /\ p \in Seq(Batch) /\ DOMAIN p = DOMAIN q
    /\ \A k \in DOMAIN p : IsSnap(p[k]) => p[k] = q[k]
    /\ \A i \in Int : i <= cap /\ InFlight(q, i) => InFlight(p, i)

LEMMA CutBatches ==
    ASSUME NEW q \in Seq(Batch), NEW at \in Int, NEW cap \in Int, cap = at - 1,
           NEW p, p = CutQueue(q, at)
    PROVE  ClampsTo(q, p, cap)
<1>1. ASSUME NEW k \in DOMAIN q
      PROVE  /\ p[k] \in Batch /\ (IsSnap(p[k]) => p[k] = q[k])
             /\ \A i \in Int : q[k].kind = "log" /\ q[k].from <= i /\ i <= q[k].to /\ i <= cap
                               => p[k].kind = "log" /\ p[k].from <= i /\ i <= p[k].to
  <2>1. q[k] \in Batch
    OBVIOUS
  <2>2. CASE q[k].kind = "log"
    <3>1. PICK b : b = q[k]
      OBVIOUS
    <3>2. b \in LogBatch
      BY <3>1, <2>1, <2>2 DEF Batch, SnapBatch
    <3>3. PICK x : x = Min({b.to, cap})
      OBVIOUS
    <3>4. b.to \in Int /\ b.from \in Int
      BY <3>2 DEF LogBatch
    <3>5. x = IF b.to <= cap THEN b.to ELSE cap
      BY <3>3, <3>4, MinPair
    <3>6. x \in Int
      BY <3>4, <3>5
    <3>7. p[k] = [b EXCEPT !.to = x]
      BY <3>1, <3>3, <2>2 DEF CutQueue
    <3>8. p[k] \in LogBatch /\ p[k].kind = "log" /\ p[k].from = b.from /\ p[k].to = x
      BY <3>2, <3>6, <3>7 DEF LogBatch
    <3> QED
      BY <3>1, <3>4, <3>5, <3>8 DEF Batch, IsSnap
  <2>3. CASE q[k].kind # "log"
    BY <2>1, <2>3 DEF CutQueue
  <2> QED
    BY <2>2, <2>3
<1>2. p \in Seq(Batch) /\ DOMAIN p = DOMAIN q
  <2>1. DOMAIN q = 1..Len(q) /\ Len(q) \in Nat
    OBVIOUS
  <2>2. p = [k \in 1..Len(q) |-> p[k]]
    BY <2>1 DEF CutQueue
  <2>3. \A k \in 1..Len(q) : p[k] \in Batch
    BY <2>1, <1>1
  <2>4. p \in [1..Len(q) -> Batch]
    BY <2>2, <2>3
  <2> QED
    BY <2>1, <2>4, MakeSeq
<1> QED
  BY <1>1, <1>2 DEF InFlight, ClampsTo

LEMMA ClampFacts ==
    ASSUME NEW parked, \A r \in parked : r \in ParkedRange, NEW cap \in Int,
           NEW c, c = ClampParked(parked, cap)
    PROVE  /\ \A r \in c : r \in ParkedRange /\ r.to <= cap
           /\ \A i \in Int : i <= cap => (Covered(c, i) <=> Covered(parked, i))
<1>1. c = {[from |-> r.from, to |-> Min({r.to, cap})] : r \in {q \in parked : q.from <= cap}}
  BY DEF ClampParked
<1>2. \A r \in parked : r.from \in Int /\ r.to \in Int
  BY DEF ParkedRange
<1>3. \A r \in parked : Min({r.to, cap}) = IF r.to <= cap THEN r.to ELSE cap
  BY <1>2, MinPair
<1>4. ASSUME NEW r \in c
      PROVE  \E q \in parked : /\ q.from <= cap /\ r.from = q.from
                               /\ r.to = (IF q.to <= cap THEN q.to ELSE cap)
                               /\ r = [from |-> r.from, to |-> r.to]
  <2>1. PICK q \in {x \in parked : x.from <= cap} :
          r = [from |-> q.from, to |-> Min({q.to, cap})]
    BY <1>1
  <2> QED
    BY <2>1, <1>3
<1>5. ASSUME NEW q \in parked, q.from <= cap
      PROVE  \E r \in c : r.from = q.from /\ r.to = (IF q.to <= cap THEN q.to ELSE cap)
  <2>1. PICK r : r = [from |-> q.from, to |-> Min({q.to, cap})]
    OBVIOUS
  <2>2. r \in c
    BY <2>1, <1>1, <1>5
  <2>3. r.from = q.from /\ r.to = (IF q.to <= cap THEN q.to ELSE cap)
    BY <2>1, <1>3
  <2> QED
    BY <2>2, <2>3
<1>6. ASSUME NEW r \in c PROVE r \in ParkedRange /\ r.to <= cap
  <2>1. PICK q \in parked : /\ q.from <= cap /\ r.from = q.from
                            /\ r.to = (IF q.to <= cap THEN q.to ELSE cap)
                            /\ r = [from |-> r.from, to |-> r.to]
    BY <1>4
  <2>2. r.from \in Int /\ r.to \in Int /\ r.to <= cap
    BY <2>1, <1>2
  <2> QED
    BY <2>1, <2>2 DEF ParkedRange
<1>7. ASSUME NEW i \in Int, i <= cap, Covered(c, i) PROVE Covered(parked, i)
  <2>1. PICK r \in c : r.from <= i /\ i <= r.to
    BY <1>7 DEF Covered
  <2>2. PICK q \in parked : r.from = q.from /\ r.to = (IF q.to <= cap THEN q.to ELSE cap)
    BY <1>4
  <2>3. q.from <= i /\ i <= q.to
    BY <2>1, <2>2, <1>2, <1>7
  <2> QED
    BY <2>3 DEF Covered
<1>8. ASSUME NEW i \in Int, i <= cap, Covered(parked, i) PROVE Covered(c, i)
  <2>1. PICK q \in parked : q.from <= i /\ i <= q.to
    BY <1>8 DEF Covered
  <2>2. q.from <= cap
    BY <2>1, <1>2, <1>8
  <2>3. PICK r \in c : r.from = q.from /\ r.to = (IF q.to <= cap THEN q.to ELSE cap)
    BY <2>2, <1>5
  <2>4. r.from <= i /\ i <= r.to
    BY <2>1, <2>3, <1>2, <1>8
  <2> QED
    BY <2>4 DEF Covered
<1> QED
  BY <1>6, <1>7, <1>8

LEMMA CutterType ==
    ASSUME NEW n \in Node, NEW es \in Seq(Int), NEW at \in Nat, NEW ps \in SUBSET ParkedRange,
           NEW q \in Seq(Batch)
    PROVE  [n EXCEPT !.ents = es, !.durable = at, !.parked = ps, !.batches = q] \in Node
BY DEF Node

(* All but the log and the log batches in flight. *)
SameButLog(u, n) ==
    /\ u.snap = n.snap /\ u.highest = n.highest /\ u.file = n.file
    /\ u.inFlight = n.inFlight /\ u.commit = n.commit
    /\ \A k \in DOMAIN u.batches : IsSnap(u.batches[k]) =>
         k \in DOMAIN n.batches /\ u.batches[k] = n.batches[k]

(* A log that is cut keeps what is known of the rest of it. *)
LEMMA CutFacts ==
    ASSUME NEW n \in Node, NEW at \in Nat, n.snap < at, at <= LastIndex(n) + 1,
           NEW u, u = Cut(n, at)
    PROVE  /\ u \in Node /\ LastIndex(u) = at - 1 /\ SameButLog(u, n)
           /\ LogInv(n) => LogInv(u)
<1>1. /\ n.snap \in Nat /\ n.durable \in Nat /\ n.ents \in Seq(Int) /\ Len(n.ents) \in Nat
      /\ LastIndex(n) = n.snap + Len(n.ents) /\ LastIndex(n) \in Nat
      /\ n.parked \in SUBSET ParkedRange /\ n.batches \in Seq(Batch)
  BY NodeFacts
<1>2. PICK cap \in Nat : cap = at - 1
  BY <1>1
<1>3. PICK es : es = SubSeq(n.ents, 1, at - n.snap - 1)
  OBVIOUS
<1>4. PICK du : du = Min({n.durable, cap})
  OBVIOUS
<1>5. PICK ps : ps = ClampParked(n.parked, cap)
  OBVIOUS
<1>6. PICK q : q = CutQueue(n.batches, at)
  OBVIOUS
<1>7. u = [n EXCEPT !.ents = es, !.durable = du, !.parked = ps, !.batches = q]
  BY <1>2, <1>3, <1>4, <1>5, <1>6 DEF Cut
<1>8. es \in Seq(Int) /\ Len(es) = at - n.snap - 1
  <2>1. PICK k \in Nat : k = at - n.snap - 1
    BY <1>1
  <2>2. k <= Len(n.ents)
    BY <2>1, <1>1
  <2>3. es = [j \in 1..k |-> n.ents[j]]
    BY <2>1, <2>2, <1>1, <1>3
  <2>4. \A j \in 1..k : n.ents[j] \in Int
    BY <2>2, <1>1
  <2> QED
    BY <2>1, <2>3, <2>4
<1>9. du = IF n.durable <= cap THEN n.durable ELSE cap
  BY <1>1, <1>4, MinPair
<1>10. du \in Nat
  BY <1>1, <1>9
<1>11. /\ \A r \in ps : r \in ParkedRange /\ r.to <= cap
       /\ \A i \in Int : i <= cap => (Covered(ps, i) <=> Covered(n.parked, i))
  <2>1. (\A r \in n.parked : r \in ParkedRange) /\ cap \in Int
    BY <1>1
  <2> QED
    BY <2>1, <1>5, ClampFacts
<1>12. /\ q \in Seq(Batch) /\ DOMAIN q = DOMAIN n.batches
       /\ \A k \in DOMAIN q : IsSnap(q[k]) => q[k] = n.batches[k]
       /\ \A i \in Int : i <= cap /\ InFlight(n.batches, i) => InFlight(q, i)
  <2>1. n.batches \in Seq(Batch) /\ cap \in Int /\ at \in Int
    BY <1>1
  <2>2. PICK old : old = n.batches
    OBVIOUS
  <2>3. ClampsTo(old, q, cap)
    BY <2>1, <2>2, <1>2, <1>6, CutBatches
  <2> QED
    BY <2>2, <2>3 DEF ClampsTo
<1>13. /\ u \in Node /\ u.ents = es /\ u.durable = du /\ u.parked = ps /\ u.batches = q
       /\ u.snap = n.snap /\ u.highest = n.highest /\ u.file = n.file
       /\ u.inFlight = n.inFlight /\ u.commit = n.commit /\ u.base = n.base
  <2>1. es \in Seq(Int) /\ ps \in SUBSET ParkedRange /\ q \in Seq(Batch)
    BY <1>8, <1>11, <1>12
  <2>2. [n EXCEPT !.ents = es, !.durable = du, !.parked = ps, !.batches = q] \in Node
    BY <2>1, <1>10, CutterType
  <2> QED
    BY <2>2, <1>7 DEF Node
<1>14. LastIndex(u) = at - 1 /\ LastIndex(u) = cap
  BY <1>1, <1>2, <1>8, <1>13 DEF LastIndex
<1>15. ASSUME LogInv(n) PROVE LogInv(u)
  <2>1. \A i \in (n.durable + 1)..LastIndex(n) : Covered(n.parked, i) \/ InFlight(n.batches, i)
    BY <1>15 DEF LogInv
  <2>2. ASSUME NEW i \in (du + 1)..cap PROVE Covered(ps, i) \/ InFlight(q, i)
    <3>1. i \in Int /\ i <= cap /\ i \in (n.durable + 1)..LastIndex(n)
      BY <1>1, <1>2, <1>9, <2>2
    <3> QED
      BY <3>1, <2>1, <1>11, <1>12
  <2>3. ASSUME du < cap PROVE ~Covered(ps, du + 1)
    <3>1. du = n.durable /\ n.durable < LastIndex(n) /\ du + 1 \in Int /\ du + 1 <= cap
      BY <1>1, <1>2, <1>9, <2>3
    <3>2. ~Covered(n.parked, n.durable + 1)
      BY <3>1, <1>15 DEF LogInv
    <3> QED
      BY <3>1, <3>2, <1>11
  <2>4. du <= cap
    BY <1>1, <1>9
  <2> QED
    BY <2>2, <2>3, <2>4, <1>11, <1>13, <1>14 DEF LogInv
<1>16. SameButLog(u, n)
  BY <1>12, <1>13 DEF SameButLog
<1> QED
  BY <1>13, <1>14, <1>15, <1>16

LEMMA GrowerType ==
    ASSUME NEW n \in Node, NEW es \in Seq(Int), NEW q \in Seq(Batch)
    PROVE  [n EXCEPT !.ents = es, !.batches = q] \in Node
BY DEF Node

Grown(n, es, b) == [n EXCEPT !.ents = @ \o es, !.batches = Append(@, b)]

LEMMA Concat ==
    ASSUME NEW x \in Seq(Int), NEW y \in Seq(Int), NEW z, z = x \o y
    PROVE  z \in Seq(Int) /\ Len(z) = Len(x) + Len(y)
OBVIOUS

LEMMA Shift ==
    ASSUME NEW z \in Nat, NEW y \in Nat, NEW x \in Nat, NEW st \in Nat, NEW la \in Nat,
           st = (z + y) + 1, x = la + 1 - st
    PROVE  z + (y + x) = la
OBVIOUS

(* What is appended is in flight. *)
LEMMA GrowFacts ==
    ASSUME NEW n \in Node, NEW es \in Seq(Int), NEW start \in Nat, NEW last \in Nat,
           start = LastIndex(n) + 1, start <= last, Len(es) = last + 1 - start, NEW b,
           b = [kind |-> "log", from |-> start, to |-> last, syncing |-> FALSE],
           NEW u, u = Grown(n, es, b)
    PROVE  /\ u \in Node /\ LastIndex(u) = last /\ SameButLog(u, n)
           /\ LogInv(n) => LogInv(u)
<1>1. /\ n.snap \in Nat /\ n.durable \in Nat /\ n.ents \in Seq(Int) /\ Len(n.ents) \in Nat
      /\ LastIndex(n) = n.snap + Len(n.ents) /\ LastIndex(n) \in Nat
  BY NodeFacts
<1>2. n.batches \in Seq(Batch) /\ \A r \in n.parked : r.from \in Int /\ r.to \in Int
  <2>1. n.batches \in Seq(Batch) /\ n.parked \in SUBSET ParkedRange
    BY NodeFacts
  <2> QED
    BY <2>1 DEF ParkedRange
<1>3. b \in Batch /\ b.kind = "log" /\ b.from = start /\ b.to = last
  BY DEF Batch, LogBatch
<1>4. PICK e : e = n.ents \o es
  OBVIOUS
<1>5. e \in Seq(Int) /\ Len(e) = Len(n.ents) + Len(es)
  <2>1. n.ents \in Seq(Int)
    BY <1>1
  <2> QED
    BY <2>1, <1>4, Concat
<1>6. PICK q : q = Append(n.batches, b)
  OBVIOUS
<1>7. /\ q \in Seq(Batch) /\ DOMAIN q = DOMAIN n.batches \cup {Len(n.batches) + 1}
      /\ \A k \in DOMAIN n.batches : q[k] = n.batches[k]
      /\ q[Len(n.batches) + 1] = b
  BY <1>2, <1>3, <1>6
<1>8. u = [n EXCEPT !.ents = e, !.batches = q]
  BY <1>4, <1>6 DEF Grown
<1>9. u \in Node
  <2>1. e \in Seq(Int) /\ q \in Seq(Batch)
    BY <1>5, <1>7
  <2>2. [n EXCEPT !.ents = e, !.batches = q] \in Node
    BY <2>1, GrowerType
  <2> QED
    BY <2>2, <1>8
<1>10. /\ u.ents = e /\ u.batches = q /\ u.snap = n.snap /\ u.highest = n.highest
       /\ u.file = n.file /\ u.inFlight = n.inFlight /\ u.commit = n.commit
       /\ u.durable = n.durable /\ u.parked = n.parked
  BY <1>8 DEF Node
<1>11. LastIndex(u) = last
  <2>1. PICK x \in Nat : x = Len(es)
    OBVIOUS
  <2>2. PICK y \in Nat : y = Len(n.ents)
    BY <1>1
  <2>3. LastIndex(u) = n.snap + (y + x)
    BY <2>1, <2>2, <1>5, <1>10 DEF LastIndex
  <2>4. x = last + 1 - start /\ n.snap \in Nat
    BY <2>1, <1>1
  <2>5. start = (n.snap + y) + 1
    BY <2>2, <1>1
  <2>6. PICK z \in Nat : z = n.snap
    BY <2>4
  <2>7. z + (y + x) = last
    <3>1. start = (z + y) + 1
      BY <2>5, <2>6
    <3>2. x = last + 1 - start
      BY <2>4
    <3> QED
      BY <3>1, <3>2, Shift
  <2> QED
    BY <2>3, <2>6, <2>7
<1>12. ASSUME NEW k \in DOMAIN q, IsSnap(q[k])
       PROVE  k \in DOMAIN n.batches /\ q[k] = n.batches[k]
  BY <1>3, <1>7, <1>12 DEF IsSnap
<1>13. ASSUME LogInv(n) PROVE LogInv(u)
  <2>1. /\ n.durable <= LastIndex(n) /\ \A r \in n.parked : r.to <= LastIndex(n)
        /\ \A i \in (n.durable + 1)..LastIndex(n) : Covered(n.parked, i) \/ InFlight(n.batches, i)
        /\ n.durable < LastIndex(n) => ~Covered(n.parked, n.durable + 1)
    BY <1>13 DEF LogInv
  <2>2. ASSUME NEW i \in (n.durable + 1)..last PROVE Covered(n.parked, i) \/ InFlight(q, i)
    <3>1. CASE i <= LastIndex(n)
      <4>1. Covered(n.parked, i) \/ InFlight(n.batches, i)
        BY <3>1, <2>1, <1>1
      <4> QED
        BY <4>1, <1>7 DEF InFlight
    <3>2. CASE ~(i <= LastIndex(n))
      <4>1. start <= i /\ i <= last
        BY <3>2, <1>1
      <4> QED
        BY <4>1, <1>3, <1>7 DEF InFlight
    <3> QED
      BY <3>1, <3>2
  <2>3. ASSUME Covered(n.parked, n.durable + 1) PROVE FALSE
    <3>1. n.durable = LastIndex(n)
      BY <2>1, <2>3, <1>1
    <3>2. PICK r \in n.parked : n.durable + 1 <= r.to
      BY <2>3 DEF Covered
    <3> QED
      BY <3>1, <3>2, <2>1, <1>1, <1>2
  <2>4. n.durable <= last /\ \A r \in n.parked : r.to <= last
    <3>1. PICK x \in Nat : x = LastIndex(n)
      BY <1>1
    <3>2. x <= last /\ n.durable <= x /\ n.durable \in Nat
      BY <3>1, <2>1, <1>1
    <3>3. \A r \in n.parked : r.to <= x /\ r.to \in Int
      BY <3>1, <2>1, <1>2
    <3> QED
      BY <3>2, <3>3
  <2> QED
    BY <2>2, <2>3, <2>4, <1>10, <1>11 DEF LogInv
<1>14. SameButLog(u, n)
  BY <1>10, <1>12 DEF SameButLog
<1> QED
  BY <1>9, <1>11, <1>13, <1>14

LEMMA CommitFacts ==
    ASSUME NEW n \in Node, NEW c \in Nat, NEW u, u = [n EXCEPT !.commit = c]
    PROVE  /\ u \in Node /\ u.commit = c
           /\ u.snap = n.snap /\ u.highest = n.highest /\ u.file = n.file /\ u.ents = n.ents
           /\ u.inFlight = n.inFlight /\ u.batches = n.batches
           /\ LogInv(n) => LogInv(u)
<1>1. u \in Node
  BY DEF Node
<1>2. /\ u.commit = c /\ u.snap = n.snap /\ u.highest = n.highest /\ u.file = n.file
      /\ u.ents = n.ents /\ u.inFlight = n.inFlight /\ u.batches = n.batches
      /\ u.durable = n.durable /\ u.parked = n.parked
  BY DEF Node
<1> QED
  BY <1>1, <1>2, SameLog

LEMMA WritesType ==
    ASSUME NEW w1 \in Write, NEW w2 \in Write, NEW old \in Seq(Write), NEW both \in BOOLEAN,
           NEW ws, ws = (IF both THEN <<w1>> ELSE <<>>) \o <<w2>>
    PROVE  old \o ws \in Seq(Write)
<1>1. CASE both
  <2>1. <<w1>> \in Seq(Write) /\ <<w2>> \in Seq(Write)
    OBVIOUS
  <2>2. ws = <<w1>> \o <<w2>>
    BY <1>1
  <2> QED
    BY <2>1, <2>2
<1>2. CASE ~both
  <2>1. PICK e : e = <<>>
    OBVIOUS
  <2>2. e \in Seq(Write) /\ <<w2>> \in Seq(Write)
    BY <2>1
  <2>3. ws = e \o <<w2>>
    BY <1>2, <2>1
  <2> QED
    BY <2>2, <2>3
<1> QED
  BY <1>1, <1>2

Records(lg, start, last) ==
    [i \in 1..(last + 1 - start) |-> [index |-> start + i - 1, term |-> lg[start + i - 1]]]

LEMMA RecsType ==
    ASSUME NEW lg, NEW top \in Nat, NEW len \in Nat, \A i \in 1..len : lg[i] \in 1..top,
           NEW start \in Nat \ {0}, NEW last \in Nat, start <= last, last <= len,
           NEW r, r = Records(lg, start, last)
    PROVE  r \in Seq(Rec)
<1>1. PICK k \in Nat : k = last + 1 - start
  OBVIOUS
<1>2. ASSUME NEW i \in 1..k PROVE r[i] \in Rec
  <2>1. start + i - 1 \in 1..len
    BY <1>1
  <2>2. lg[start + i - 1] \in Nat /\ start + i - 1 \in Nat
    BY <2>1
  <2>3. r[i] = [index |-> start + i - 1, term |-> lg[start + i - 1]]
    BY <1>1 DEF Records
  <2> QED
    BY <2>2, <2>3 DEF Rec
<1>3. r = [i \in 1..k |-> r[i]]
  BY <1>1 DEF Records
<1>4. r \in [1..k -> Rec]
  BY <1>2, <1>3
<1> QED
  BY <1>4, MakeSeq

LEMMA EntsType ==
    ASSUME NEW lg \in Seq(Int), NEW start \in Nat \ {0}, NEW last \in Nat, start <= last,
           last <= Len(lg), NEW es, es = SubSeq(lg, start, last)
    PROVE  es \in Seq(Int) /\ Len(es) = last + 1 - start
<1>1. PICK k \in Nat : k = last + 1 - start
  OBVIOUS
<1>2. es = [i \in 1..k |-> lg[start + i - 1]]
  BY <1>1
<1>3. ASSUME NEW i \in 1..k PROVE es[i] \in Int
  <2>1. start + i - 1 \in 1..Len(lg)
    BY <1>1
  <2> QED
    BY <2>1, <1>2
<1>4. es = [i \in 1..k |-> es[i]]
  BY <1>2
<1>5. es \in [1..k -> Int]
  BY <1>3, <1>4
<1> QED
  BY <1>1, <1>5, MakeSeq

LEMMA AppendedFacts ==
    ASSUME NEW n \in Node, NEW lg \in Seq(Int), NEW start \in Nat, NEW last \in Nat,
           start <= last, last <= Len(lg), n.snap < start, start <= LastIndex(n) + 1,
           NEW kept, kept = IF start <= LastIndex(n) THEN Cut(n, start) ELSE n,
           NEW b, b = [kind |-> "log", from |-> start, to |-> last, syncing |-> FALSE],
           NEW u, u = Grown(kept, SubSeq(lg, start, last), b)
    PROVE  /\ u \in Node /\ LastIndex(u) = last /\ SameButLog(u, n)
           /\ LogInv(n) => LogInv(u)
<1>1. n.snap \in Nat /\ LastIndex(n) \in Nat
  BY NodeFacts
<1>2. /\ kept \in Node /\ start = LastIndex(kept) + 1 /\ SameButLog(kept, n)
      /\ LogInv(n) => LogInv(kept)
  <2>1. CASE start <= LastIndex(n)
    <3>1. kept = Cut(n, start)
      BY <2>1
    <3>2. /\ kept \in Node /\ LastIndex(kept) = start - 1 /\ SameButLog(kept, n)
          /\ LogInv(n) => LogInv(kept)
      BY <3>1, CutFacts
    <3>3. start = LastIndex(kept) + 1
      BY <3>2
    <3> QED
      BY <3>2, <3>3
  <2>2. CASE ~(start <= LastIndex(n))
    <3>1. kept = n
      BY <2>2
    <3>2. start = LastIndex(n) + 1
      BY <2>2, <1>1
    <3> QED
      BY <3>1, <3>2 DEF SameButLog
  <2> QED
    BY <2>1, <2>2
<1>3. PICK es : es = SubSeq(lg, start, last)
  OBVIOUS
<1>4. start \in Nat \ {0}
  BY <1>1
<1>5. es \in Seq(Int) /\ Len(es) = last + 1 - start
  BY <1>3, <1>4, EntsType
<1>6. u = Grown(kept, es, b)
  BY <1>3
<1>7. /\ u \in Node /\ LastIndex(u) = last /\ SameButLog(u, kept)
      /\ LogInv(kept) => LogInv(u)
  <2>1. kept \in Node /\ start = LastIndex(kept) + 1
    BY <1>2
  <2> QED
    BY <2>1, <1>5, <1>6, GrowFacts
<1>8. SameButLog(u, n)
  BY <1>2, <1>7 DEF SameButLog
<1> QED
  BY <1>2, <1>7, <1>8

(* What follows from the settings for the leader of a term. *)
LEMMA LeaderFacts ==
    ASSUME EnvOK, NEW t \in DOMAIN LeaderLog, NEW lg, lg = LeaderLog[t]
    PROVE  /\ t \in Nat /\ lg \in Seq(Int) /\ Len(lg) \in Nat
           /\ \A i \in 1..Len(lg) : lg[i] \in 1..t
           /\ LeaderCommit[t] \in 0..Len(lg)
<1>1. t \in Nat /\ lg \in Seq(1..t) /\ LeaderCommit[t] \in 0..Len(lg)
  BY DEF EnvOK
<1>2. Len(lg) \in Nat /\ (\A i \in 1..Len(lg) : lg[i] \in 1..t) /\ DOMAIN lg = 1..Len(lg)
  BY <1>1
<1>3. lg \in [1..Len(lg) -> Int]
  BY <1>1, <1>2
<1> QED
  BY <1>1, <1>2, <1>3, MakeSeq

(* Once the log is as the append leaves it, the commit index may rise. *)
LEMMA RaiseKeeps ==
    ASSUME NEW n \in Node, NEW u \in Node, SameButLog(u, n), NEW c \in Nat, u.commit <= c,
           NEW v, v = [u EXCEPT !.commit = c], NEW dd, NEW ee, FilesInv(n, dd),
           ee.files = dd.files, ee.writing = dd.writing
    PROVE  v \in Node /\ FilesInv(v, ee) /\ (LogInv(u) => LogInv(v))
<1>1. /\ v \in Node /\ v.commit = c
      /\ v.snap = u.snap /\ v.highest = u.highest /\ v.file = u.file /\ v.ents = u.ents
      /\ v.inFlight = u.inFlight /\ v.batches = u.batches
      /\ LogInv(u) => LogInv(v)
  BY CommitFacts
<1>2. /\ v.snap = n.snap /\ v.highest = n.highest /\ v.file = n.file
      /\ v.inFlight = n.inFlight /\ n.commit <= v.commit
      /\ \A k \in DOMAIN v.batches : IsSnap(v.batches[k]) =>
           k \in DOMAIN n.batches /\ v.batches[k] = n.batches[k]
  BY <1>1 DEF SameButLog
<1>3. v \in Node
  BY <1>1
<1>4. FilesInv(v, ee)
  BY <1>2, <1>3, SameFiles
<1> QED
  BY <1>1, <1>4

LEMMA AppendStep ==
    ASSUME FilesOK, NEW t \in DOMAIN LeaderLog, NEW prev \in 0..Len(LeaderLog[t]),
           NEW last \in prev..Len(LeaderLog[t]), NEW c \in {0, LeaderCommit[t]},
           OnAppendEntries(t, prev, last, c)
    PROVE  FilesOK' /\ (LogInv(m) => LogInv(m)')
<1> DEFINE lg == LeaderLog[t]
           from == Max({prev, m.snap})
           start == Min({last + 1} \cup {i \in (from + 1)..last : TermAt(m, i) # lg[i]})
           conflict == start <= LastIndex(m)
           kept == IF conflict THEN Cut(m, start) ELSE m
           b == [kind |-> "log", from |-> start, to |-> last, syncing |-> FALSE]
           grown == [kept EXCEPT !.ents = @ \o SubSeq(lg, start, last),
                                 !.batches = Append(@, b)]
           n == IF start <= last THEN grown ELSE m
           w1 == [op |-> "setLen", len |-> start - 1 - m.base]
           recs == [i \in 1..(last + 1 - start) |->
                      [index |-> start + i - 1, term |-> lg[start + i - 1]]]
           w2 == [op |-> "data", at |-> start - m.base, recs |-> recs]
           writes == (IF conflict THEN <<w1>> ELSE <<>>) \o <<w2>>
           cc == Max({n.commit, Min({c, last, LastIndex(n)})})
           ee == IF start <= last THEN [d EXCEPT !.pending = @ \o writes] ELSE d
           v == [n EXCEPT !.commit = cc]
<1>1. /\ prev < m.snap \/ TermAt(m, prev) = (IF prev = 0 THEN 0 ELSE lg[prev])
      /\ Handle([m |-> v, d |-> ee])
  BY DEF OnAppendEntries
<1>2. IsFrom(m, prev, from)
  BY DEF IsFrom
<1>3. IsStart(m, lg, from, last, start)
  BY DEF IsStart, Differs
<1>4. grown = Grown(kept, SubSeq(lg, start, last), b)
  BY DEF Grown
<1> HIDE DEF from, start, grown, lg
<1>5. EnvOK /\ m \in Node /\ d \in Disk /\ FilesInv(m, d)
  BY DEF FilesOK
<1>6. /\ t \in Nat /\ lg \in Seq(Int) /\ Len(lg) \in Nat
      /\ \A i \in 1..Len(lg) : lg[i] \in 1..t
      /\ LeaderCommit[t] \in 0..Len(lg)
  BY <1>5, LeaderFacts DEF lg
<1>7. prev \in Nat /\ last \in Nat /\ c \in Nat /\ prev <= Len(lg) /\ last <= Len(lg)
  BY <1>6 DEF lg
<1>8. from \in Nat /\ m.snap <= from /\ from <= LastIndex(m)
  BY <1>1, <1>2, <1>5, <1>6, <1>7, FromFacts
<1>9. /\ start \in Nat
      /\ start <= last => m.snap < start /\ start <= LastIndex(m) + 1
  BY <1>3, <1>5, <1>6, <1>7, <1>8, StartFacts
<1>10. n \in Node /\ SameButLog(n, m) /\ (LogInv(m) => LogInv(n))
  <2>1. CASE start <= last
    <3> HIDE DEF b, kept
    <3>1. n = grown
      BY <2>1
    <3>2. b = [kind |-> "log", from |-> start, to |-> last, syncing |-> FALSE]
      BY DEF b
    <3>3. kept = IF start <= LastIndex(m) THEN Cut(m, start) ELSE m
      BY DEF kept
    <3> HIDE DEF n
    <3> QED
      BY <2>1, <3>1, <3>2, <3>3, <1>4, <1>5, <1>6, <1>7, <1>9, AppendedFacts
  <2>2. CASE ~(start <= last)
    <3>1. n = m
      BY <2>2
    <3> HIDE DEF n
    <3> QED
      BY <3>1, <1>5 DEF SameButLog
  <2> QED
    BY <2>1, <2>2
<1>11. ee \in Disk /\ ee.files = d.files /\ ee.writing = d.writing
  <2>1. CASE start <= last
    <3>1. m.base \in Int /\ m.snap \in Nat
      BY <1>5, NodeFacts
    <3>2. start \in Nat \ {0}
      BY <2>1, <3>1, <1>9
    <3>3. recs \in Seq(Rec)
      <4>1. PICK r : r = recs
        OBVIOUS
      <4> HIDE DEF recs
      <4>2. r = Records(lg, start, last)
        BY <4>1 DEF recs, Records
      <4>3. PICK len \in Nat : len = Len(lg)
        BY <1>6
      <4>4. t \in Nat /\ last \in Nat /\ last <= len /\ \A i \in 1..len : lg[i] \in 1..t
        BY <4>3, <1>6, <1>7
      <4>5. r \in Seq(Rec)
        BY <4>2, <4>4, <3>2, <2>1, RecsType
      <4> QED
        BY <4>1, <4>5
    <3> HIDE DEF recs
    <3>4. w1 \in Write /\ w2 \in Write
      BY <3>1, <3>2, <3>3 DEF Write
    <3> HIDE DEF w1, w2, conflict
    <3>5. d.pending \in Seq(Write)
      BY <1>5, DiskFacts
    <3>6. conflict \in BOOLEAN
      BY DEF conflict
    <3>7. d.pending \o writes \in Seq(Write)
      BY <3>4, <3>5, <3>6, WritesType
    <3> HIDE DEF writes
    <3>8. ee = [d EXCEPT !.pending = d.pending \o writes]
      BY <2>1
    <3> HIDE DEF ee
    <3> QED
      BY <3>7, <3>8, <1>5 DEF Disk
  <2>2. CASE ~(start <= last)
    <3>1. ee = d
      BY <2>2
    <3> HIDE DEF ee
    <3> QED
      BY <3>1, <1>5
  <2> QED
    BY <2>1, <2>2
<1> HIDE DEF n, ee
<1>12. cc \in Nat /\ n.commit <= cc
  <2>1. PICK x : x = Min({c, last, LastIndex(n)})
    OBVIOUS
  <2>2. n.commit \in Nat /\ LastIndex(n) \in Nat
    BY <1>10, NodeFacts
  <2>3. PICK S : S = {c, last, LastIndex(n)}
    OBVIOUS
  <2>4. S \in SUBSET Nat /\ S # {}
    BY <2>2, <2>3, <1>7
  <2>5. x \in S
    BY <2>1, <2>3, <2>4, MinNat
  <2>6. x \in Nat
    BY <2>4, <2>5
  <2>7. cc = IF n.commit >= x THEN n.commit ELSE x
    <3>1. cc = Max({n.commit, x})
      BY <2>1
    <3> HIDE DEF cc
    <3>2. n.commit \in Int /\ x \in Int
      BY <2>2, <2>6
    <3> QED
      BY <3>1, <3>2, MaxPair
  <2> QED
    BY <2>2, <2>6, <2>7
<1> HIDE DEF cc
<1>13. v \in Node /\ FilesInv(v, ee) /\ (LogInv(n) => LogInv(v))
  <2>1. PICK u : u = v
    OBVIOUS
  <2>2. u = [n EXCEPT !.commit = cc]
    BY <2>1
  <2> HIDE DEF v
  <2>3. u \in Node /\ FilesInv(u, ee) /\ (LogInv(n) => LogInv(u))
    BY <2>2, <1>5, <1>10, <1>11, <1>12, RaiseKeeps
  <2> QED
    BY <2>1, <2>3
<1> HIDE DEF v
<1>14. FilesOK' /\ (LogInv(v) => LogInv(m)')
  BY <1>1, <1>5, <1>11, <1>13, HandleKeeps
<1> QED
  BY <1>10, <1>13, <1>14

-----------------------------------------------------------------------------
(* A snapshot from a leader, and syncs.                                    *)

LEMMA InstallStep ==
    ASSUME FilesOK, NEW t \in DOMAIN LeaderLog, NEW index \in 1..LeaderCommit[t],
           OnInstallSnapshot(t, index)
    PROVE  FilesOK' /\ (LogInv(m) => LogInv(m)')
<1>1. EnvOK /\ m \in Node /\ d \in Disk /\ FilesInv(m, d)
  BY DEF FilesOK
<1>2. PICK lg : lg = LeaderLog[t]
  OBVIOUS
<1>3. /\ Len(lg) \in Nat /\ LeaderCommit[t] \in 0..Len(lg) /\ t \in Nat
      /\ \A i \in 1..Len(lg) : lg[i] \in 1..t
  BY <1>1, <1>2, LeaderFacts
<1>4. index \in Nat \ {0} /\ index \in 1..Len(lg)
  BY <1>3
<1>5. lg[index] \in Nat
  <2>1. lg[index] \in 1..t
    BY <1>3, <1>4
  <2> QED
    BY <2>1, <1>3
<1>6. PICK r : r = WriteSnapshot([m |-> m, d |-> d], "installed", index, lg[index])
  OBVIOUS
<1>7. Handle(r) /\ index > m.highest /\ ~m.inFlight
  BY <1>2, <1>6 DEF OnInstallSnapshot, MayWrite
<1>8. m.snap <= index
  <2>1. m.snap \in Nat /\ m.highest \in Nat
    BY <1>1, NodeFacts
  <2>2. m.snap <= m.highest
    BY <1>1 DEF FilesInv
  <2> QED
    BY <2>1, <2>2, <1>4, <1>7
<1>9. PICK x : x = lg[index]
  OBVIOUS
<1>10. /\ r.m \in Node /\ r.d \in Disk /\ FilesInv(r.m, r.d) /\ (LogInv(m) => LogInv(r.m))
  <2>1. r = WriteSnapshot([m |-> m, d |-> d], "installed", index, x) /\ x \in Nat /\ x \in Int
    BY <1>5, <1>6, <1>9
  <2> QED
    BY <2>1, <1>1, <1>4, <1>7, <1>8, WriteKeeps
<1>11. r = [m |-> r.m, d |-> r.d]
  BY <1>6 DEF WriteSnapshot
<1>12. PICK n : n = r.m
  OBVIOUS
<1>13. PICK dd : dd = r.d
  OBVIOUS
<1>14. Handle([m |-> n, d |-> dd])
  BY <1>7, <1>11, <1>12, <1>13
<1>15. n \in Node /\ dd \in Disk /\ FilesInv(n, dd) /\ (LogInv(m) => LogInv(n))
  BY <1>10, <1>12, <1>13
<1>16. FilesOK' /\ (LogInv(n) => LogInv(m)')
  BY <1>1, <1>14, <1>15, HandleKeeps
<1> QED
  BY <1>15, <1>16

LEMMA QueueType ==
    ASSUME NEW n \in Node, NEW q \in Seq(Batch), NEW u, u = [n EXCEPT !.batches = q]
    PROVE  /\ u \in Node /\ u.batches = q /\ u.snap = n.snap /\ u.highest = n.highest
           /\ u.file = n.file /\ u.inFlight = n.inFlight /\ u.commit = n.commit
           /\ u.ents = n.ents /\ u.durable = n.durable /\ u.parked = n.parked
BY DEF Node

IssuedAs(n, u, k, b, c) ==
    /\ u \in Node /\ u.snap = n.snap /\ u.highest = n.highest
    /\ u.file = n.file /\ u.inFlight = n.inFlight /\ u.commit = n.commit
    /\ DOMAIN u.batches = DOMAIN n.batches /\ u.batches[k] = c
    /\ \A j \in DOMAIN n.batches : j # k => u.batches[j] = n.batches[j]
    /\ b \in Batch /\ c.kind = b.kind /\ c.syncing = TRUE
    /\ IsSnap(b) => b.snap \in Snap /\ c.snap = b.snap

Issued(n, k) == [n EXCEPT !.batches[k].syncing = TRUE]

LEMMA IssueFacts ==
    ASSUME NEW n \in Node, NEW k \in DOMAIN n.batches, NEW b, b = n.batches[k],
           NEW c, c = [b EXCEPT !.syncing = TRUE],
           NEW u, u = Issued(n, k)
    PROVE  /\ IssuedAs(n, u, k, b, c)
           /\ LogInv(n) => LogInv(u)
<1>1. n.batches \in Seq(Batch)
  BY NodeFacts
<1>2. b \in Batch
  BY <1>1
<1>3. c \in Batch /\ c.kind = b.kind /\ c.syncing = TRUE /\ (IsSnap(b) => b.snap \in Snap /\ c.snap = b.snap)
      /\ (~IsSnap(b) => c.from = b.from /\ c.to = b.to)
  <2>1. CASE b \in LogBatch
    BY <2>1 DEF LogBatch, Batch, IsSnap
  <2>2. CASE b \in SnapBatch
    BY <2>2 DEF SnapBatch, Batch, IsSnap
  <2> QED
    BY <2>1, <2>2, <1>2 DEF Batch
<1>4. PICK q : q = [n.batches EXCEPT ![k] = c]
  OBVIOUS
<1>5. /\ q \in Seq(Batch) /\ DOMAIN q = DOMAIN n.batches /\ q[k] = c
      /\ \A j \in DOMAIN n.batches : j # k => q[j] = n.batches[j]
  BY <1>1, <1>3, <1>4
<1>6. u = [n EXCEPT !.batches = q]
  BY <1>4 DEF Issued
<1>7. /\ u \in Node /\ u.batches = q /\ u.snap = n.snap /\ u.highest = n.highest
      /\ u.file = n.file /\ u.inFlight = n.inFlight /\ u.commit = n.commit
      /\ u.ents = n.ents /\ u.durable = n.durable /\ u.parked = n.parked
  <2>1. q \in Seq(Batch)
    BY <1>5
  <2> QED
    BY <2>1, <1>6, QueueType
<1>8. ASSUME NEW i, InFlight(n.batches, i) PROVE InFlight(q, i)
  <2>1. PICK j \in DOMAIN n.batches :
          n.batches[j].kind = "log" /\ n.batches[j].from <= i /\ i <= n.batches[j].to
    BY <1>8 DEF InFlight
  <2>2. CASE j = k
    <3>1. c.kind = "log" /\ c.from <= i /\ i <= c.to
      BY <2>1, <2>2, <1>3 DEF IsSnap
    <3> QED
      BY <3>1, <1>5 DEF InFlight
  <2>3. CASE j # k
    <3>1. j \in DOMAIN q /\ q[j] = n.batches[j]
      BY <2>3, <1>5
    <3> QED
      BY <3>1, <2>1 DEF InFlight
  <2> QED
    BY <2>2, <2>3
<1>9. LogInv(n) => LogInv(u)
  BY <1>7, <1>8, SameLog
<1>10. IssuedAs(n, u, k, b, c)
  BY <1>2, <1>3, <1>5, <1>7 DEF IssuedAs
<1> QED
  BY <1>9, <1>10

(* A snapshot reaches its file: the file of the newest is another one. *)
LEMMA WrittenKeeps ==
    ASSUME NEW n \in Node, NEW dd \in Disk, FilesInv(n, dd),
           NEW k \in DOMAIN n.batches, NEW b, b = n.batches[k], IsSnap(b), ~b.syncing,
           NEW u, u = Issued(n, k), NEW s, s = b.snap,
           NEW ee, ee = [dd EXCEPT !.files[s.file] = s, !.writing = Nothing]
    PROVE  ee \in Disk /\ FilesInv(u, ee)
<1>1. PICK c : c = [b EXCEPT !.syncing = TRUE]
  OBVIOUS
<1>2. /\ u \in Node /\ u.snap = n.snap /\ u.highest = n.highest
      /\ u.file = n.file /\ u.inFlight = n.inFlight /\ u.commit = n.commit
      /\ DOMAIN u.batches = DOMAIN n.batches /\ u.batches[k] = c
      /\ \A j \in DOMAIN n.batches : j # k => u.batches[j] = n.batches[j]
      /\ b \in Batch /\ c.kind = b.kind /\ c.syncing = TRUE
      /\ IsSnap(b) => b.snap \in Snap /\ c.snap = b.snap
  <2>1. IssuedAs(n, u, k, b, c)
    BY <1>1, IssueFacts
  <2> QED
    BY <2>1 DEF IssuedAs
<1>3. s \in Snap /\ c.snap = s
  BY <1>2
<1>4. s.file \in Files /\ s.index \in Nat /\ s.index # 0
  BY <1>3 DEF Snap
<1>5. /\ dd.files \in [Files -> Snap \cup {Nothing}] /\ "none" \notin Files
  BY DiskFacts
<1>6. PICK fs : fs = [dd.files EXCEPT ![s.file] = s]
  OBVIOUS
<1>7. /\ fs \in [Files -> Snap \cup {Nothing}] /\ fs[s.file] = s
      /\ \A f \in Files : f # s.file => fs[f] = dd.files[f]
  BY <1>3, <1>4, <1>5, <1>6
<1>8. ee = [dd EXCEPT !.files = fs, !.writing = Nothing]
  BY <1>6
<1>9. ee \in Disk /\ ee.files = fs /\ ee.writing = Nothing
  BY <1>7, <1>8 DEF Disk
<1>10. UnderWay(n, dd, b)
  BY DEF FilesInv
<1>11. UnderWay(u, ee, c)
  BY <1>2, <1>3, <1>7, <1>9, <1>10 DEF UnderWay
<1>12. ASSUME NEW j \in DOMAIN u.batches, IsSnap(u.batches[j]) PROVE j = k
  <2>1. CASE j # k
    <3>1. j \in DOMAIN n.batches /\ IsSnap(n.batches[j])
      BY <2>1, <1>2, <1>12
    <3>2. IsSnap(n.batches[k])
      OBVIOUS
    <3> QED
      BY <3>1, <3>2 DEF FilesInv
  <2> QED
    BY <2>1
<1>13. \A f \in Files : ee.files[f].index # 0 => ee.files[f].file = f
  BY <1>7, <1>9 DEF FilesInv
<1>14. IF u.file = "none" THEN u.snap = 0 ELSE ee.files[u.file].index >= u.snap
  <2>1. CASE n.file = "none"
    BY <2>1, <1>2 DEF FilesInv
  <2>2. CASE n.file # "none"
    <3>1. n.file \in Files /\ n.file # s.file
      <4>1. n.file \in {"none", "A", "B"}
        BY NodeFacts
      <4> QED
        BY <4>1, <2>2, <1>10 DEF UnderWay, Files
    <3>2. fs[n.file] = dd.files[n.file]
      BY <3>1, <1>7
    <3>3. dd.files[n.file].index >= n.snap
      BY <2>2 DEF FilesInv
    <3> QED
      BY <2>2, <3>2, <3>3, <1>2, <1>9
  <2> QED
    BY <2>1, <2>2
<1>15. u.snap <= u.highest /\ u.snap <= u.commit /\ ee.writing.index = 0
  BY <1>2, <1>9 DEF FilesInv, Nothing
<1>16. \A j \in DOMAIN u.batches : IsSnap(u.batches[j]) => UnderWay(u, ee, u.batches[j])
  BY <1>2, <1>11, <1>12
<1> QED
  BY <1>9, <1>12, <1>13, <1>14, <1>15, <1>16 DEF FilesInv

LEMMA IssueStep ==
    ASSUME FilesOK, NEW k \in DOMAIN m.batches, IssueSync(k)
    PROVE  FilesOK' /\ (LogInv(m) => LogInv(m)')
<1>1. EnvOK /\ m \in Node /\ d \in Disk /\ FilesInv(m, d)
  BY DEF FilesOK
<1>2. PICK b : b = m.batches[k]
  OBVIOUS
<1>3. PICK u : u = Issued(m, k)
  OBVIOUS
<1>4. /\ ~b.syncing /\ m' = u /\ UNCHANGED env
      /\ d' = IF b.kind = "log" THEN Sync(d)
              ELSE [d EXCEPT !.files[b.snap.file] = b.snap, !.writing = Nothing]
  BY <1>2, <1>3 DEF IssueSync, Issued
<1>5. PICK c : c = [b EXCEPT !.syncing = TRUE]
  OBVIOUS
<1>6. /\ u \in Node /\ u.snap = m.snap /\ u.highest = m.highest
      /\ u.file = m.file /\ u.inFlight = m.inFlight /\ u.commit = m.commit
      /\ DOMAIN u.batches = DOMAIN m.batches /\ u.batches[k] = c
      /\ \A j \in DOMAIN m.batches : j # k => u.batches[j] = m.batches[j]
      /\ b \in Batch /\ c.kind = b.kind /\ c.syncing = TRUE
      /\ IsSnap(b) => b.snap \in Snap /\ c.snap = b.snap
      /\ LogInv(m) => LogInv(u)
  <2>1. IssuedAs(m, u, k, b, c) /\ (LogInv(m) => LogInv(u))
    BY <1>1, <1>2, <1>3, <1>5, IssueFacts
  <2> QED
    BY <2>1 DEF IssuedAs
<1>7. PICK ee : ee = d'
  OBVIOUS
<1>8. ee \in Disk /\ FilesInv(u, ee)
  <2>1. CASE b.kind = "log"
    <3>1. ee = Sync(d)
      BY <2>1, <1>4, <1>7
    <3>2. ee \in Disk /\ ee.files = d.files /\ ee.writing = d.writing
      BY <3>1, <1>1, SyncType
    <3>3. ASSUME NEW j \in DOMAIN u.batches, IsSnap(u.batches[j])
          PROVE  j \in DOMAIN m.batches /\ u.batches[j] = m.batches[j]
      BY <2>1, <3>3, <1>6 DEF IsSnap
    <3>4. m.commit <= u.commit
      BY <1>1, <1>6, NodeFacts
    <3> QED
      BY <3>2, <3>3, <3>4, <1>1, <1>6, SameFiles
  <2>2. CASE b.kind # "log"
    <3>1. PICK s : s = b.snap
      OBVIOUS
    <3>2. ee = [d EXCEPT !.files[s.file] = s, !.writing = Nothing]
      BY <2>2, <3>1, <1>4, <1>7
    <3>3. IsSnap(b)
      BY <2>2 DEF IsSnap
    <3> QED
      BY <3>1, <3>2, <3>3, <1>1, <1>2, <1>3, <1>4, WrittenKeeps
  <2> QED
    BY <2>1, <2>2
<1>9. EnvOK'
  BY <1>1, <1>4 DEF EnvOK, LeaderLog, LeaderCommit
<1>10. FilesInv(m, d)' /\ (LogInv(m) => LogInv(m)')
  BY <1>4, <1>6, <1>7, <1>8 DEF FilesInv, LogInv, LastIndex, UnderWay, IsSnap, InFlight
<1> QED
  BY <1>4, <1>6, <1>7, <1>8, <1>9, <1>10 DEF FilesOK

-----------------------------------------------------------------------------
(* A sync is confirmed.                                                    *)

(* The position in queue of what is at j without its k-th. *)
Before(k, j) == IF j < k THEN j ELSE j + 1

LEMMA WithoutFacts ==
    ASSUME NEW q \in Seq(Batch), NEW k \in DOMAIN q, NEW p, p = Without(q, k)
    PROVE  /\ p \in Seq(Batch)
           /\ \A j \in DOMAIN p : Before(k, j) \in DOMAIN q /\ Before(k, j) # k
                                  /\ p[j] = q[Before(k, j)]
           /\ \A i, j \in DOMAIN p : Before(k, i) = Before(k, j) => i = j
           /\ \A i : InFlight(q, i) =>
                InFlight(p, i) \/ (q[k].kind = "log" /\ q[k].from <= i /\ i <= q[k].to)
<1>1. PICK len \in Nat : len = Len(q) /\ DOMAIN q = 1..len
  OBVIOUS
<1>2. k \in 1..len /\ len - 1 \in Nat
  BY <1>1
<1>3. DOMAIN p = 1..(len - 1) /\ \A j \in 1..(len - 1) : p[j] = q[Before(k, j)]
  BY <1>1 DEF Without, Before
<1>4. \A j \in 1..(len - 1) : Before(k, j) \in 1..len /\ Before(k, j) # k
  BY <1>2 DEF Before
<1>5. \A i, j \in 1..(len - 1) : Before(k, i) = Before(k, j) => i = j
  BY <1>2 DEF Before
<1>6. \A j \in 1..(len - 1) : p[j] \in Batch
  <2>1. \A j \in 1..len : q[j] \in Batch
    BY <1>1
  <2> QED
    BY <2>1, <1>3, <1>4
<1>7. p \in Seq(Batch)
  <2>1. p = [j \in 1..(len - 1) |-> p[j]]
    BY <1>1 DEF Without
  <2>2. p \in [1..(len - 1) -> Batch]
    BY <2>1, <1>6
  <2> QED
    BY <2>2, <1>2, MakeSeq
<1>8. ASSUME NEW i, InFlight(q, i)
      PROVE  InFlight(p, i) \/ (q[k].kind = "log" /\ q[k].from <= i /\ i <= q[k].to)
  <2>1. PICK j \in 1..len : q[j].kind = "log" /\ q[j].from <= i /\ i <= q[j].to
    BY <1>1, <1>8 DEF InFlight
  <2>2. CASE j = k
    BY <2>1, <2>2
  <2>3. CASE j # k
    <3>1. PICK x : x = IF j < k THEN j ELSE j - 1
      OBVIOUS
    <3>2. x \in 1..(len - 1) /\ Before(k, x) = j
      BY <2>3, <3>1, <1>2 DEF Before
    <3>3. p[x] = q[j]
      BY <3>2, <1>3
    <3> QED
      BY <2>1, <3>2, <3>3, <1>3 DEF InFlight
  <2> QED
    BY <2>2, <2>3
<1> QED
  BY <1>1, <1>3, <1>4, <1>5, <1>7, <1>8

(* What is not claimed is parked, in flight, or in batch b. *)
LogInvBut(n, b) ==
    /\ n.durable <= LastIndex(n)
    /\ \A r \in n.parked : r.to <= LastIndex(n)
    /\ \A i \in (n.durable + 1)..LastIndex(n) :
         Covered(n.parked, i) \/ InFlight(n.batches, i)
         \/ (b.kind = "log" /\ b.from <= i /\ i <= b.to)
    /\ n.durable < LastIndex(n) => ~Covered(n.parked, n.durable + 1)

NoSnaps(n) == \A j \in DOMAIN n.batches : ~IsSnap(n.batches[j])

SameButQueue(u, n) ==
    /\ u.snap = n.snap /\ u.highest = n.highest /\ u.file = n.file
    /\ u.inFlight = n.inFlight /\ u.commit = n.commit /\ u.ents = n.ents
    /\ u.durable = n.durable /\ u.parked = n.parked /\ u.snapTerm = n.snapTerm

LEMMA DropFacts ==
    ASSUME NEW n \in Node, NEW dd \in Disk, FilesInv(n, dd),
           NEW k \in DOMAIN n.batches, NEW b, b = n.batches[k],
           NEW u, u = [n EXCEPT !.batches = Without(@, k)]
    PROVE  /\ u \in Node /\ SameButQueue(u, n) /\ FilesInv(u, dd)
           /\ IsSnap(b) => NoSnaps(u) /\ UnderWay(n, dd, b)
           /\ LogInv(n) => LogInvBut(u, b)
<1>1. PICK q : q = n.batches
  OBVIOUS
<1>2. q \in Seq(Batch) /\ k \in DOMAIN q /\ b = q[k]
  BY <1>1, NodeFacts
<1>3. PICK p : p = Without(q, k)
  OBVIOUS
<1>4. /\ p \in Seq(Batch)
      /\ \A j \in DOMAIN p : Before(k, j) \in DOMAIN q /\ Before(k, j) # k
                             /\ p[j] = q[Before(k, j)]
      /\ \A i, j \in DOMAIN p : Before(k, i) = Before(k, j) => i = j
      /\ \A i : InFlight(q, i) =>
           InFlight(p, i) \/ (q[k].kind = "log" /\ q[k].from <= i /\ i <= q[k].to)
  BY <1>2, <1>3, WithoutFacts
<1>5. u = [n EXCEPT !.batches = p]
  BY <1>1, <1>3
<1>6. u \in Node /\ u.batches = p /\ SameButQueue(u, n)
  <2>1. p \in Seq(Batch)
    BY <1>4
  <2>2. [n EXCEPT !.batches = p] \in Node
    BY <2>1, QueueType
  <2> QED
    BY <2>2, <1>5 DEF Node, SameButQueue
<1>7. /\ \A j \in DOMAIN q : IsSnap(q[j]) => UnderWay(n, dd, q[j])
      /\ \A i, j \in DOMAIN q : IsSnap(q[i]) /\ IsSnap(q[j]) => i = j
  BY <1>1 DEF FilesInv
<1>8. ASSUME NEW j \in DOMAIN p, IsSnap(p[j]) PROVE UnderWay(u, dd, p[j])
  <2>1. UnderWay(n, dd, p[j])
    BY <1>4, <1>7, <1>8
  <2> QED
    BY <2>1, <1>6 DEF UnderWay, SameButQueue
<1>9. \A i, j \in DOMAIN p : IsSnap(p[i]) /\ IsSnap(p[j]) => i = j
  BY <1>4, <1>7
<1>10. FilesInv(u, dd)
  BY <1>6, <1>8, <1>9 DEF FilesInv, SameButQueue
<1>11. ASSUME IsSnap(b) PROVE NoSnaps(u) /\ UnderWay(n, dd, b)
  <2>1. \A j \in DOMAIN p : ~IsSnap(p[j])
    BY <1>2, <1>4, <1>7, <1>11
  <2> QED
    BY <2>1, <1>2, <1>6, <1>7, <1>11 DEF NoSnaps
<1>12. ASSUME LogInv(n) PROVE LogInvBut(u, b)
  <2>1. LastIndex(u) = LastIndex(n)
    BY <1>6 DEF LastIndex, SameButQueue
  <2>2. \A i : InFlight(n.batches, i) =>
          InFlight(u.batches, i) \/ (b.kind = "log" /\ b.from <= i /\ i <= b.to)
    BY <1>1, <1>2, <1>4, <1>6
  <2>3. u.durable = n.durable /\ u.parked = n.parked
    BY <1>6 DEF SameButQueue
  <2> QED
    BY <2>1, <2>2, <2>3, <1>12 DEF LogInv, LogInvBut
<1> QED
  BY <1>6, <1>10, <1>11, <1>12

LEMMA AdvanceType ==
    ASSUME NEW at \in Nat, NEW parked, NEW cap \in Nat, NEW a, a = AdvanceDurable(at, parked, cap)
    PROVE  a \in Nat
<1>1. PICK S : S = {at} \cup {d1 \in (at + 1)..cap :
              \A i \in (at + 1)..d1 : \E r \in parked : r.from <= i /\ i <= r.to}
  OBVIOUS
<1>2. S \in SUBSET Nat /\ S # {} /\ \A x \in S : x <= at + cap
  BY <1>1
<1>3. a = Max(S)
  BY <1>1 DEF AdvanceDurable
<1>4. a \in S
  <2>1. at + cap \in Nat
    OBVIOUS
  <2> QED
    BY <2>1, <1>2, <1>3, MaxNat
<1> QED
  BY <1>2, <1>4

(* All but what is claimed. *)
SameButClaim(u, n) ==
    /\ u.snap = n.snap /\ u.highest = n.highest /\ u.file = n.file /\ u.ents = n.ents
    /\ u.inFlight = n.inFlight /\ u.commit = n.commit /\ u.batches = n.batches

LEMMA ClaimType ==
    ASSUME NEW n \in Node, NEW at \in Nat, NEW ps \in SUBSET ParkedRange
    PROVE  [n EXCEPT !.durable = at, !.parked = ps] \in Node
BY DEF Node

(* What has been synced is claimed as far as it leaves no gap. *)
LEMMA ClaimedFacts ==
    ASSUME NEW n \in Node, NEW u, u = Claimed(n)
    PROVE  /\ u \in Node /\ SameButClaim(u, n)
           /\ (/\ n.durable <= LastIndex(n)
               /\ \A r \in n.parked : r.to <= LastIndex(n)
               /\ \A i \in (n.durable + 1)..LastIndex(n) :
                    Covered(n.parked, i) \/ InFlight(n.batches, i)) => LogInv(u)
<1>1. n.durable \in Nat /\ LastIndex(n) \in Nat
  BY NodeFacts
<1>2. n.parked \in SUBSET ParkedRange
  BY NodeFacts
<1>3. \A r \in n.parked : r.from \in Int /\ r.to \in Int
  BY <1>2 DEF ParkedRange
<1>4. PICK at : at = AdvanceDurable(n.durable, n.parked, LastIndex(n))
  OBVIOUS
<1>5. at \in Nat
  BY <1>1, <1>4, AdvanceType
<1>6. PICK ps : ps = StillParked(at, n.parked)
  OBVIOUS
<1>7. ps = {r \in n.parked : r.to > at}
  BY <1>6 DEF StillParked
<1>8. u = [n EXCEPT !.durable = at, !.parked = ps]
  BY <1>4, <1>6 DEF Claimed
<1>9. ps \in SUBSET ParkedRange
  BY <1>2, <1>7
<1>10. u \in Node /\ SameButClaim(u, n) /\ u.durable = at /\ u.parked = ps
  <2>1. [n EXCEPT !.durable = at, !.parked = ps] \in Node
    BY <1>5, <1>9, ClaimType
  <2> QED
    BY <2>1, <1>8 DEF Node, SameButClaim
<1>11. LastIndex(u) = LastIndex(n) /\ u.batches = n.batches
  BY <1>10 DEF SameButClaim, LastIndex
<1>12. ASSUME n.durable <= LastIndex(n), \A r \in n.parked : r.to <= LastIndex(n),
              \A i \in (n.durable + 1)..LastIndex(n) :
                 Covered(n.parked, i) \/ InFlight(n.batches, i)
       PROVE  LogInv(u)
  <2>1. n.durable <= at /\ at <= LastIndex(n) /\ (at < LastIndex(n) => ~Covered(n.parked, at + 1))
    BY <1>1, <1>4, <1>12, AdvanceFacts
  <2>2. ASSUME NEW i \in (at + 1)..LastIndex(n) PROVE Covered(ps, i) \/ InFlight(n.batches, i)
    <3>1. Covered(n.parked, i) \/ InFlight(n.batches, i)
      BY <2>1, <1>1, <1>5, <1>12
    <3>2. ASSUME Covered(n.parked, i) PROVE Covered(ps, i)
      <4>1. PICK r \in n.parked : r.from <= i /\ i <= r.to
        BY <3>2 DEF Covered
      <4>2. r \in ps
        BY <4>1, <1>1, <1>3, <1>5, <1>7
      <4> QED
        BY <4>1, <4>2 DEF Covered
    <3> QED
      BY <3>1, <3>2
  <2>3. at < LastIndex(n) => ~Covered(ps, at + 1)
    BY <2>1, <1>7 DEF Covered
  <2>4. \A r \in ps : r.to <= LastIndex(n)
    BY <1>7, <1>12
  <2> QED
    BY <2>1, <2>2, <2>3, <2>4, <1>10, <1>11 DEF LogInv
<1> QED
  BY <1>10, <1>12

LEMMA ClaimFiles ==
    ASSUME NEW n \in Node, NEW u \in Node, SameButClaim(u, n), NEW dd, FilesInv(n, dd)
    PROVE  FilesInv(u, dd)
BY DEF SameButClaim, FilesInv, UnderWay

LEMMA ParkType ==
    ASSUME NEW n \in Node, NEW ps \in SUBSET ParkedRange, NEW u, u = [n EXCEPT !.parked = ps]
    PROVE  u \in Node /\ SameButClaim(u, n) /\ u.durable = n.durable /\ u.parked = ps
BY DEF Node, SameButClaim

(* A batch of the log is durable. *)
LEMMA LogDurableFacts ==
    ASSUME NEW n \in Node, NEW dd, FilesInv(n, dd), NEW b \in LogBatch,
           NEW u, u = LogDurable(n, b)
    PROVE  u \in Node /\ FilesInv(u, dd) /\ (LogInvBut(n, b) => LogInv(u))
<1>1. n.durable \in Nat /\ LastIndex(n) \in Nat /\ b.from \in Int /\ b.to \in Int /\ b.kind = "log"
  BY NodeFacts DEF LogBatch
<1>2. n.parked \in SUBSET ParkedRange
  BY NodeFacts
<1>3. PICK to : to = Min({b.to, LastIndex(n)})
  OBVIOUS
<1>4. to = IF b.to <= LastIndex(n) THEN b.to ELSE LastIndex(n)
  <2>1. b.to \in Int /\ LastIndex(n) \in Int
    BY <1>1
  <2> QED
    BY <2>1, <1>3, MinPair
<1>5. to \in Int /\ to <= LastIndex(n) /\ \A i \in Int : i <= LastIndex(n) /\ i <= b.to => i <= to
  BY <1>1, <1>4
<1>6. CASE to <= n.durable
  <2>1. u = n
    BY <1>3, <1>6 DEF LogDurable
  <2>2. ASSUME LogInvBut(n, b) PROVE LogInv(n)
    <3>1. ASSUME NEW i \in (n.durable + 1)..LastIndex(n)
          PROVE  Covered(n.parked, i) \/ InFlight(n.batches, i)
      <4>1. ~(i <= b.to)
        BY <1>1, <1>5, <1>6
      <4>2. Covered(n.parked, i) \/ InFlight(n.batches, i) \/ (b.from <= i /\ i <= b.to)
        BY <2>2 DEF LogInvBut
      <4> QED
        BY <4>1, <4>2
    <3> QED
      BY <2>2, <3>1 DEF LogInvBut, LogInv
  <2> QED
    BY <2>1, <2>2
<1>7. CASE ~(to <= n.durable)
  <2>1. PICK w : w = [from |-> b.from, to |-> to]
    OBVIOUS
  <2>2. w \in ParkedRange /\ w.from = b.from /\ w.to = to
    BY <2>1, <1>1, <1>5 DEF ParkedRange
  <2>3. PICK ps : ps = n.parked \cup {w}
    OBVIOUS
  <2>4. ps \in SUBSET ParkedRange
    BY <2>2, <2>3, <1>2
  <2>5. PICK v : v = [n EXCEPT !.parked = ps]
    OBVIOUS
  <2>6. v \in Node /\ SameButClaim(v, n) /\ v.durable = n.durable /\ v.parked = ps
    BY <2>4, <2>5, ParkType
  <2>7. u = Claimed(v)
    BY <1>3, <1>7, <2>1, <2>3, <2>5 DEF LogDurable
  <2>8. /\ u \in Node /\ SameButClaim(u, v)
        /\ (/\ v.durable <= LastIndex(v)
            /\ \A r \in v.parked : r.to <= LastIndex(v)
            /\ \A i \in (v.durable + 1)..LastIndex(v) :
                 Covered(v.parked, i) \/ InFlight(v.batches, i)) => LogInv(u)
    BY <2>6, <2>7, ClaimedFacts
  <2>9. LastIndex(v) = LastIndex(n) /\ v.batches = n.batches
    BY <2>6 DEF SameButClaim, LastIndex
  <2>10. ASSUME LogInvBut(n, b) PROVE LogInv(u)
    <3>1. ASSUME NEW i \in (n.durable + 1)..LastIndex(n)
          PROVE  Covered(ps, i) \/ InFlight(n.batches, i)
      <4>1. Covered(n.parked, i) \/ InFlight(n.batches, i) \/ (b.from <= i /\ i <= b.to)
        BY <2>10 DEF LogInvBut
      <4>2. Covered(n.parked, i) => Covered(ps, i)
        BY <2>3 DEF Covered
      <4>3. b.from <= i /\ i <= b.to => Covered(ps, i)
        <5>1. ASSUME b.from <= i, i <= b.to PROVE w.from <= i /\ i <= w.to
          BY <2>2, <1>1, <1>5, <5>1
        <5> QED
          BY <5>1, <2>3 DEF Covered
      <4> QED
        BY <4>1, <4>2, <4>3
    <3>2. n.durable <= LastIndex(n) /\ \A r \in ps : r.to <= LastIndex(n)
      BY <2>2, <2>3, <2>10, <1>5 DEF LogInvBut
    <3> QED
      BY <2>6, <2>8, <2>9, <3>1, <3>2
  <2>11. FilesInv(v, dd)
    BY <2>6, ClaimFiles
  <2>12. u \in Node /\ SameButClaim(u, v)
    BY <2>8
  <2>13. FilesInv(u, dd)
    BY <2>6, <2>11, <2>12, ClaimFiles
  <2> QED
    BY <2>10, <2>12, <2>13
<1> QED
  BY <1>6, <1>7

LEMMA TailType ==
    ASSUME NEW es \in Seq(Int), NEW i \in Nat, NEW ts, ts = SubSeq(es, i + 1, Len(es))
    PROVE  ts \in Seq(Int) /\ (i <= Len(es) => Len(ts) = Len(es) - i)
<1>1. PICK len \in Nat : len = Len(es) /\ DOMAIN es = 1..len
  OBVIOUS
<1>2. CASE i <= len
  <2>1. PICK k \in Nat : k = len - i
    BY <1>2
  <2>2. ts = [j \in 1..k |-> es[i + j]]
    BY <1>1, <1>2, <2>1
  <2>3. \A j \in 1..k : es[i + j] \in Int
    BY <1>1, <2>1
  <2>4. ts \in [1..k -> Int]
    BY <2>2, <2>3
  <2>5. ts \in Seq(Int) /\ Len(ts) = k
    BY <2>4, MakeSeq
  <2> QED
    BY <1>1, <2>1, <2>5
<1>3. CASE ~(i <= len)
  <2>1. ts = <<>>
    BY <1>1, <1>3
  <2> QED
    BY <1>1, <1>3, <2>1
<1> QED
  BY <1>2, <1>3

LEMMA CompacterType ==
    ASSUME NEW n \in Node, NEW es \in Seq(Int), NEW i \in Nat, NEW t \in Int
    PROVE  [n EXCEPT !.ents = es, !.snap = i, !.snapTerm = t] \in Node
BY DEF Node

(* All but the snapshot the log starts from. *)
SameButStart(u, n) ==
    /\ u.highest = n.highest /\ u.file = n.file /\ u.inFlight = n.inFlight
    /\ u.commit = n.commit /\ u.batches = n.batches /\ u.durable = n.durable
    /\ u.parked = n.parked

LEMMA CompactFacts ==
    ASSUME NEW n \in Node, NEW i \in Nat, n.snap <= i, NEW t \in Int, NEW u, u = CompactTo(n, i, t)
    PROVE  /\ u \in Node /\ SameButStart(u, n) /\ u.snap = i
           /\ i <= LastIndex(n) => LastIndex(u) = LastIndex(n)
<1>1. /\ n.snap \in Nat /\ Len(n.ents) \in Nat /\ LastIndex(n) = n.snap + Len(n.ents)
  BY NodeFacts
<1>2. n.ents \in Seq(Int)
  BY NodeFacts
<1>3. PICK k \in Nat : k = i - n.snap
  BY <1>1
<1>4. PICK ts : ts = SubSeq(n.ents, k + 1, Len(n.ents))
  OBVIOUS
<1>5. ts \in Seq(Int) /\ (k <= Len(n.ents) => Len(ts) = Len(n.ents) - k)
  BY <1>2, <1>4, TailType
<1>6. u = [n EXCEPT !.ents = ts, !.snap = i, !.snapTerm = t]
  BY <1>3, <1>4 DEF CompactTo
<1>7. [n EXCEPT !.ents = ts, !.snap = i, !.snapTerm = t] \in Node
  <2>1. ts \in Seq(Int)
    BY <1>5
  <2> QED
    BY <2>1, CompacterType
<1>8. u \in Node /\ SameButStart(u, n) /\ u.snap = i /\ u.ents = ts
  BY <1>6, <1>7 DEF Node, SameButStart
<1>9. ASSUME i <= LastIndex(n) PROVE LastIndex(u) = LastIndex(n)
  <2>1. PICK len \in Nat : len = Len(n.ents)
    BY <1>1
  <2>2. k <= len
    BY <2>1, <1>1, <1>3, <1>9
  <2>3. Len(ts) = len - k
    BY <2>1, <2>2, <1>5
  <2>4. LastIndex(u) = i + Len(ts)
    BY <1>8 DEF LastIndex
  <2> QED
    BY <2>1, <2>3, <2>4, <1>1, <1>3
<1> QED
  BY <1>8, <1>9

(* The snapshot s is in its file, and that file is now the newest. *)
LEMMA NewestFiles ==
    ASSUME NEW u \in Node, NoSnaps(u), NEW dd, NEW s \in Snap,
           \A f \in Files : dd.files[f].index # 0 => dd.files[f].file = f,
           dd.files[s.file] = s, dd.writing = Nothing, u.file = s.file,
           u.snap <= s.index, u.snap <= u.highest, u.snap <= u.commit
    PROVE  FilesInv(u, dd)
<1>1. s.index \in Nat /\ s.file # "none" /\ u.snap \in Nat
  BY NodeFacts DEF Snap, Files
<1>2. IF u.file = "none" THEN u.snap = 0 ELSE dd.files[u.file].index >= u.snap
  BY <1>1
<1>3. dd.writing.index = 0
  BY DEF Nothing
<1> QED
  BY <1>2, <1>3 DEF FilesInv, NoSnaps

Done(n, s) == [n EXCEPT !.inFlight = FALSE, !.file = s.file]

LEMMA DoneFacts ==
    ASSUME NEW n \in Node, NEW s \in Snap, NEW u, u = Done(n, s)
    PROVE  /\ u \in Node /\ u.snap = n.snap /\ u.ents = n.ents /\ u.durable = n.durable
           /\ u.parked = n.parked /\ u.batches = n.batches /\ u.highest = n.highest
           /\ u.commit = n.commit /\ u.file = s.file
<1>1. s.file \in {"none", "A", "B"}
  BY DEF Snap, Files
<1>2. u \in Node
  BY <1>1 DEF Node, Done
<1> QED
  BY <1>2 DEF Node, Done

(* The snapshot s is synced, and no other is under way. *)
Synced(n, dd, s) ==
    /\ n \in Node /\ dd \in Disk /\ s \in Snap /\ FilesInv(n, dd) /\ NoSnaps(n)
    /\ n.snap <= s.index /\ s.index <= n.highest
    /\ dd.files[s.file] = s /\ dd.writing = Nothing

LEMMA SyncedFacts ==
    ASSUME NEW n, NEW dd, NEW s, Synced(n, dd, s)
    PROVE  /\ n \in Node /\ dd \in Disk /\ s \in Snap
           /\ s.index \in Nat \ {0} /\ s.term \in Int /\ n.snap \in Nat /\ n.snap <= s.index
BY NodeFacts DEF Synced, Snap

LEMMA SyncedFiles ==
    ASSUME NEW n, NEW dd, NEW s, Synced(n, dd, s), NEW u \in Node, NEW ee,
           ee.files = dd.files, ee.writing = dd.writing, u.batches = n.batches,
           u.file = s.file, u.highest = n.highest, u.snap <= s.index, u.snap <= u.commit
    PROVE  FilesInv(u, ee)
<1>1. /\ n \in Node /\ s \in Snap /\ FilesInv(n, dd) /\ NoSnaps(n) /\ s.index <= n.highest
      /\ dd.files[s.file] = s /\ dd.writing = Nothing
  BY DEF Synced
<1>2. n.highest \in Nat /\ u.snap \in Nat /\ s.index \in Nat
  BY <1>1, NodeFacts DEF Snap
<1>3. u.snap <= u.highest
  BY <1>1, <1>2
<1>4. NoSnaps(u)
  BY <1>1 DEF NoSnaps
<1>5. \A f \in Files : ee.files[f].index # 0 => ee.files[f].file = f
  BY <1>1 DEF FilesInv
<1>6. ee.files[s.file] = s /\ ee.writing = Nothing
  BY <1>1
<1>7. s \in Snap
  BY <1>1
<1> QED
  BY <1>3, <1>4, <1>5, <1>6, <1>7, NewestFiles

LEMMA TakenFacts ==
    ASSUME NEW n, NEW dd, NEW s, Synced(n, dd, s), s.index <= n.commit,
           NEW u, u = SnapshotTaken(n, s)
    PROVE  u \in Node /\ FilesInv(u, dd)
           /\ (n.commit <= LastIndex(n) /\ LogInv(n) => LogInv(u))
<1>1. /\ n \in Node /\ dd \in Disk /\ s \in Snap
      /\ s.index \in Nat \ {0} /\ s.term \in Int /\ n.snap \in Nat /\ n.snap <= s.index
  BY SyncedFacts
<1>2. PICK v : v = Done(n, s)
  OBVIOUS
<1>3. /\ v \in Node /\ v.snap = n.snap /\ v.ents = n.ents /\ v.durable = n.durable
      /\ v.parked = n.parked /\ v.batches = n.batches /\ v.highest = n.highest
      /\ v.commit = n.commit /\ v.file = s.file
  BY <1>1, <1>2, DoneFacts
<1>4. PICK i \in Nat : i = s.index
  BY <1>1
<1>5. PICK t \in Int : t = s.term
  BY <1>1
<1>6. u = CompactTo(v, i, t)
  BY <1>2, <1>4, <1>5 DEF SnapshotTaken, Done
<1>7. /\ u \in Node /\ SameButStart(u, v) /\ u.snap = i
      /\ i <= LastIndex(v) => LastIndex(u) = LastIndex(v)
  <2>1. v \in Node /\ v.snap <= i
    BY <1>1, <1>3, <1>4
  <2> QED
    BY <2>1, <1>6, CompactFacts
<1>8. /\ u.batches = n.batches /\ u.highest = n.highest /\ u.file = s.file
      /\ u.commit = n.commit /\ u.durable = n.durable /\ u.parked = n.parked
  BY <1>3, <1>7 DEF SameButStart
<1>9. FilesInv(u, dd)
  <2>1. u \in Node /\ u.snap <= s.index /\ u.snap <= u.commit
    BY <1>4, <1>7, <1>8
  <2> QED
    BY <2>1, <1>8, SyncedFiles
<1>10. ASSUME n.commit <= LastIndex(n), LogInv(n) PROVE LogInv(u)
  <2>1. LastIndex(v) = LastIndex(n)
    BY <1>3 DEF LastIndex
  <2>2. n.commit \in Nat /\ LastIndex(n) \in Nat
    BY <1>1, NodeFacts
  <2>3. LastIndex(u) = LastIndex(n)
    BY <2>1, <2>2, <1>4, <1>7, <1>10
  <2> QED
    BY <2>3, <1>8, <1>10 DEF LogInv
<1> QED
  BY <1>7, <1>9, <1>10

LEMMA InstallerType ==
    ASSUME NEW n \in Node, NEW ps \in SUBSET ParkedRange, NEW at \in Nat, NEW c \in Nat
    PROVE  [n EXCEPT !.parked = ps, !.durable = at, !.commit = c] \in Node
BY DEF Node

LEMMA ResetterType ==
    ASSUME NEW n \in Node, NEW es \in Seq(Int), NEW i \in Nat, NEW t \in Int, NEW b \in Int
    PROVE  [n EXCEPT !.ents = es, !.snap = i, !.snapTerm = t, !.base = b] \in Node
BY DEF Node

LEMMA RegionFacts ==
    ASSUME NEW dd \in Disk, NEW u, u = ResetRegion(dd)
    PROVE  u \in Disk /\ u.files = dd.files /\ u.writing = dd.writing
<1>1. PICK w : w = [op |-> "setLen", len |-> 0]
  OBVIOUS
<1>2. w \in Write
  BY <1>1 DEF Write
<1>3. PICK p : p = Append(dd.pending, w)
  OBVIOUS
<1>4. p \in Seq(Write)
  BY <1>2, <1>3 DEF Disk
<1>5. PICK v : v = [dd EXCEPT !.pending = p]
  OBVIOUS
<1>6. v \in Disk /\ v.files = dd.files /\ v.writing = dd.writing
  BY <1>4, <1>5 DEF Disk
<1>7. u = Sync(v)
  BY <1>1, <1>3, <1>5 DEF ResetRegion
<1> QED
  BY <1>6, <1>7, SyncType

(* The log of an installed snapshot: what was above it, or nothing.        *)
InstalledLog(n, s) ==
    IF KeepsTail(n, s) THEN CompactTo(Done(n, s), s.index, s.term)
    ELSE [Done(n, s) EXCEPT !.ents = <<>>, !.snap = s.index, !.snapTerm = s.term,
                            !.base = RegionBase(n, s)]

LEMMA InstalledLogFacts ==
    ASSUME NEW n, NEW dd, NEW s, Synced(n, dd, s), s.term \in Nat, NEW g, g = InstalledLog(n, s)
    PROVE  /\ g \in Node /\ g.snap = s.index /\ g.file = s.file
           /\ g.batches = n.batches /\ g.highest = n.highest /\ g.commit = n.commit
           /\ g.durable = n.durable /\ g.parked = n.parked
           /\ KeepsTail(n, s) => LastIndex(g) = LastIndex(n) /\ s.index <= LastIndex(n)
           /\ ~KeepsTail(n, s) => LastIndex(g) = s.index
<1>1. /\ n \in Node /\ dd \in Disk /\ s \in Snap
      /\ s.index \in Nat \ {0} /\ s.term \in Int /\ n.snap \in Nat /\ n.snap <= s.index
  BY SyncedFacts
<1>2. PICK v : v = Done(n, s)
  OBVIOUS
<1>3. /\ v \in Node /\ v.snap = n.snap /\ v.ents = n.ents /\ v.durable = n.durable
      /\ v.parked = n.parked /\ v.batches = n.batches /\ v.highest = n.highest
      /\ v.commit = n.commit /\ v.file = s.file
  BY <1>1, <1>2, DoneFacts
<1>4. PICK i \in Nat : i = s.index
  BY <1>1
<1>5. PICK t \in Int : t = s.term
  BY <1>1
<1>6. CASE KeepsTail(n, s)
  <2>1. g = CompactTo(v, i, t)
    BY <1>2, <1>4, <1>5, <1>6 DEF InstalledLog
  <2>2. v \in Node /\ v.snap <= i
    BY <1>1, <1>3, <1>4
  <2>3. /\ g \in Node /\ SameButStart(g, v) /\ g.snap = i
        /\ i <= LastIndex(v) => LastIndex(g) = LastIndex(v)
    BY <2>1, <2>2, CompactFacts
  <2>4. TermAt(n, i) # -1
    BY <1>4, <1>6 DEF KeepsTail
  <2>5. i <= LastIndex(n)
    BY <2>4, <1>1, <1>4, TermAtType
  <2>6. LastIndex(v) = LastIndex(n)
    BY <1>3 DEF LastIndex
  <2> QED
    BY <2>3, <2>5, <2>6, <1>3, <1>4, <1>6 DEF SameButStart
<1>7. CASE ~KeepsTail(n, s)
  <2>1. PICK e : e = <<>>
    OBVIOUS
  <2>2. e \in Seq(Int) /\ Len(e) = 0
    BY <2>1
  <2>3. g = [v EXCEPT !.ents = e, !.snap = i, !.snapTerm = t, !.base = i]
    BY <2>1, <1>2, <1>4, <1>5, <1>7 DEF InstalledLog, RegionBase
  <2>4. [v EXCEPT !.ents = e, !.snap = i, !.snapTerm = t, !.base = i] \in Node
    <3>1. i \in Int /\ v \in Node /\ e \in Seq(Int)
      BY <2>2, <1>3
    <3> QED
      BY <3>1, ResetterType
  <2>5. /\ g \in Node /\ g.ents = e /\ g.snap = i /\ g.file = v.file
        /\ g.batches = v.batches /\ g.highest = v.highest /\ g.commit = v.commit
        /\ g.durable = v.durable /\ g.parked = v.parked
    BY <2>3, <2>4, <1>3 DEF Node
  <2>6. LastIndex(g) = i
    BY <2>2, <2>5 DEF LastIndex
  <2> QED
    BY <2>5, <2>6, <1>3, <1>4, <1>7
<1> QED
  BY <1>6, <1>7

LEMMA StaleFacts ==
    ASSUME NEW n, NEW dd, NEW s, Synced(n, dd, s), NEW v, v = Done(n, s)
    PROVE  v \in Node /\ FilesInv(v, dd) /\ (LogInv(n) => LogInv(v))
<1>1. n \in Node /\ s \in Snap /\ n.snap <= s.index
  BY SyncedFacts
<1>2. /\ v \in Node /\ v.snap = n.snap /\ v.ents = n.ents /\ v.durable = n.durable
      /\ v.parked = n.parked /\ v.batches = n.batches /\ v.highest = n.highest
      /\ v.commit = n.commit /\ v.file = s.file
  BY <1>1, DoneFacts
<1>3. v \in Node /\ v.snap <= s.index /\ v.snap <= v.commit
  BY <1>1, <1>2 DEF Synced, FilesInv
<1>4. FilesInv(v, dd)
  BY <1>2, <1>3, SyncedFiles
<1>5. LogInv(n) => LogInv(v)
  BY <1>2, SameLog
<1> QED
  BY <1>3, <1>4, <1>5

InstalledNode(n, s) ==
    LET g == InstalledLog(n, s)
    IN Claimed([g EXCEPT !.parked = ParkedAfterInstall(n, s),
                         !.durable = Min({Max({@, s.index}), LastIndex(g)}),
                         !.commit = Max({@, s.index})])

LEMMA FreshFacts ==
    ASSUME NEW n, NEW dd \in Disk, NEW s, Synced(n, dd, s), s.term \in Nat,
           NEW u, u = InstalledNode(n, s), NEW ee, ee.files = dd.files, ee.writing = dd.writing
    PROVE  u \in Node /\ FilesInv(u, ee) /\ (LogInv(n) => LogInv(u))
<1>1. PICK g : g = InstalledLog(n, s)
  OBVIOUS
<1>2. PICK ps : ps = ParkedAfterInstall(n, s)
  OBVIOUS
<1>3. PICK at : at = Min({Max({g.durable, s.index}), LastIndex(g)})
  OBVIOUS
<1>4. PICK c : c = Max({g.commit, s.index})
  OBVIOUS
<1>5. u = Claimed([g EXCEPT !.parked = ps, !.durable = at, !.commit = c])
  BY <1>1, <1>2, <1>3, <1>4 DEF InstalledNode
<1>6. n \in Node /\ s.index \in Nat
  BY SyncedFacts
<1>7. /\ g \in Node /\ g.snap = s.index /\ g.file = s.file
      /\ g.batches = n.batches /\ g.highest = n.highest /\ g.commit = n.commit
      /\ g.durable = n.durable /\ g.parked = n.parked
      /\ KeepsTail(n, s) => LastIndex(g) = LastIndex(n) /\ s.index <= LastIndex(n)
      /\ ~KeepsTail(n, s) => LastIndex(g) = s.index
  BY <1>1, InstalledLogFacts
<1>8. /\ n.durable \in Nat /\ n.commit \in Nat /\ LastIndex(g) \in Nat /\ LastIndex(n) \in Nat
  BY <1>6, <1>7, NodeFacts
<1>9. PICK mx : mx = Max({n.durable, s.index})
  OBVIOUS
<1>10. mx = IF n.durable >= s.index THEN n.durable ELSE s.index
  BY <1>6, <1>8, <1>9, MaxPair
<1>11. mx \in Nat /\ n.durable <= mx /\ s.index <= mx
  BY <1>6, <1>8, <1>10
<1>12. at = IF mx <= LastIndex(g) THEN mx ELSE LastIndex(g)
  <2>1. mx \in Int /\ LastIndex(g) \in Int
    BY <1>8, <1>11
  <2>2. at = Min({mx, LastIndex(g)})
    BY <1>7, <1>9, <1>3
  <2> QED
    BY <2>1, <2>2, MinPair
<1>13. at \in Nat /\ at <= LastIndex(g)
  BY <1>8, <1>11, <1>12
<1>14. c = IF n.commit >= s.index THEN n.commit ELSE s.index
  <2>1. n.commit \in Int /\ s.index \in Int
    BY <1>6, <1>8
  <2>2. c = Max({n.commit, s.index})
    BY <1>7, <1>4
  <2> QED
    BY <2>1, <2>2, MaxPair
<1>15. c \in Nat /\ s.index <= c
  BY <1>6, <1>8, <1>14
<1>16. ps = IF KeepsTail(n, s) THEN {r \in n.parked : r.to > s.index} ELSE {}
  BY <1>2 DEF ParkedAfterInstall
<1>17. n.parked \in SUBSET ParkedRange
  BY <1>6, NodeFacts
<1>18. ps \in SUBSET ParkedRange
  BY <1>16, <1>17
<1>19. PICK v : v = [g EXCEPT !.parked = ps, !.durable = at, !.commit = c]
  OBVIOUS
<1>20. v \in Node
  <2>1. [g EXCEPT !.parked = ps, !.durable = at, !.commit = c] \in Node
    BY <1>7, <1>13, <1>15, <1>18, InstallerType
  <2> QED
    BY <2>1, <1>19
<1>21. /\ v.parked = ps /\ v.durable = at /\ v.commit = c /\ v.snap = g.snap
       /\ v.ents = g.ents /\ v.batches = g.batches /\ v.highest = g.highest /\ v.file = g.file
  BY <1>7, <1>19 DEF Node
<1>22. u = Claimed(v)
  BY <1>19, <1>5
<1>23. /\ u \in Node /\ SameButClaim(u, v)
       /\ (/\ v.durable <= LastIndex(v)
           /\ \A r \in v.parked : r.to <= LastIndex(v)
           /\ \A i \in (v.durable + 1)..LastIndex(v) :
                Covered(v.parked, i) \/ InFlight(v.batches, i)) => LogInv(u)
  BY <1>20, <1>22, ClaimedFacts
<1>24. FilesInv(u, ee)
  <2>1. /\ u.batches = n.batches /\ u.file = s.file /\ u.highest = n.highest
        /\ u.snap = s.index /\ u.commit = c
    BY <1>7, <1>21, <1>23 DEF SameButClaim
  <2>2. u \in Node /\ u.snap <= s.index /\ u.snap <= u.commit
    BY <2>1, <1>6, <1>15, <1>23
  <2> QED
    BY <2>1, <2>2, SyncedFiles
<1>25. ASSUME LogInv(n) PROVE LogInv(u)
  <2>1. LastIndex(v) = LastIndex(g)
    BY <1>21 DEF LastIndex
  <2>2. CASE KeepsTail(n, s)
    <3>1. LastIndex(g) = LastIndex(n) /\ s.index <= LastIndex(n)
      BY <2>2, <1>7
    <3>2. n.durable <= LastIndex(n) /\ \A r \in n.parked : r.to <= LastIndex(n)
      BY <1>25 DEF LogInv
    <3>3. at = mx
      BY <3>1, <3>2, <1>6, <1>8, <1>10, <1>12
    <3>4. \A r \in ps : r.to <= LastIndex(g)
      BY <2>2, <3>1, <3>2, <1>16
    <3>5. ASSUME NEW i \in (at + 1)..LastIndex(g) PROVE Covered(ps, i) \/ InFlight(n.batches, i)
      <4>1. i \in (n.durable + 1)..LastIndex(n) /\ s.index < i /\ i \in Nat
        BY <3>1, <3>3, <1>6, <1>8, <1>11
      <4>2. Covered(n.parked, i) \/ InFlight(n.batches, i)
        BY <4>1, <1>25 DEF LogInv
      <4>3. ASSUME Covered(n.parked, i) PROVE Covered(ps, i)
        <5>1. PICK r \in n.parked : r.from <= i /\ i <= r.to
          BY <4>3 DEF Covered
        <5>2. r.to \in Int
          BY <1>17 DEF ParkedRange
        <5>3. r \in ps
          BY <2>2, <5>1, <5>2, <4>1, <1>6, <1>16
        <5> QED
          BY <5>1, <5>3 DEF Covered
      <4> QED
        BY <4>2, <4>3
    <3> QED
      BY <2>1, <3>4, <3>5, <1>7, <1>13, <1>21, <1>23
  <2>3. CASE ~KeepsTail(n, s)
    <3>1. LastIndex(g) = s.index /\ ps = {}
      BY <2>3, <1>7, <1>16
    <3>2. at = LastIndex(g)
      BY <3>1, <1>6, <1>8, <1>11, <1>12
    <3>3. (at + 1)..LastIndex(g) = {}
      BY <3>2, <1>8
    <3> QED
      BY <2>1, <3>1, <3>3, <1>13, <1>21, <1>23
  <2> QED
    BY <2>2, <2>3
<1> QED
  BY <1>23, <1>24, <1>25

LEMMA InstalledFacts ==
    ASSUME NEW n, NEW dd, NEW s, Synced(n, dd, s), s.term \in Nat,
           NEW r, r = SnapshotInstalled(n, dd, s)
    PROVE  /\ r.m \in Node /\ r.d \in Disk /\ FilesInv(r.m, r.d) /\ (LogInv(n) => LogInv(r.m))
           /\ r = [m |-> r.m, d |-> r.d]
<1>1. dd \in Disk
  BY SyncedFacts
<1>2. CASE IsStale(n, s)
  <2>1. PICK v : v = Done(n, s)
    OBVIOUS
  <2>2. r = [m |-> v, d |-> dd]
    BY <1>2, <2>1 DEF SnapshotInstalled, Done
  <2>3. v \in Node /\ FilesInv(v, dd) /\ (LogInv(n) => LogInv(v))
    BY <2>1, StaleFacts
  <2> QED
    BY <1>1, <2>2, <2>3
<1>3. CASE ~IsStale(n, s)
  <2>1. PICK u : u = InstalledNode(n, s)
    OBVIOUS
  <2>2. PICK ee : ee = IF KeepsTail(n, s) THEN dd ELSE ResetRegion(dd)
    OBVIOUS
  <2>3. r = [m |-> u, d |-> ee]
    BY <1>3, <2>1, <2>2 DEF SnapshotInstalled, InstalledNode, InstalledLog, Done
  <2>4. ee \in Disk /\ ee.files = dd.files /\ ee.writing = dd.writing
    BY <1>1, <2>2, RegionFacts
  <2>5. u \in Node /\ FilesInv(u, ee) /\ (LogInv(n) => LogInv(u))
    BY <1>1, <2>1, <2>4, FreshFacts
  <2> QED
    BY <2>3, <2>4, <2>5
<1> QED
  BY <1>2, <1>3

(* `on_storage`, by what the batch was. *)
Finished(n, dd, b) ==
    CASE b.kind = "log" -> [m |-> LogDurable(n, b), d |-> dd]
      [] b.kind = "taken" -> [m |-> SnapshotTaken(n, b.snap), d |-> dd]
      [] b.kind = "installed" -> SnapshotInstalled(n, dd, b.snap)

LEMMA FinishedFacts ==
    ASSUME NEW n \in Node, NEW dd \in Disk, FilesInv(n, dd), NEW b \in Batch,
           IsSnap(b) => Synced(n, dd, b.snap),
           b.kind = "taken" => b.snap.index <= n.commit,
           b.kind = "installed" => b.snap.term \in Nat,
           NEW r, r = Finished(n, dd, b)
    PROVE  /\ r.m \in Node /\ r.d \in Disk /\ FilesInv(r.m, r.d)
           /\ n.commit <= LastIndex(n) /\ LogInvBut(n, b) => LogInv(r.m)
           /\ r = [m |-> r.m, d |-> r.d]
<1>1. CASE b \in LogBatch
  <2>1. b.kind = "log"
    BY <1>1 DEF LogBatch
  <2>2. PICK u : u = LogDurable(n, b)
    OBVIOUS
  <2>3. r = [m |-> u, d |-> dd]
    BY <2>1, <2>2 DEF Finished
  <2>4. u \in Node /\ FilesInv(u, dd) /\ (LogInvBut(n, b) => LogInv(u))
    BY <1>1, <2>2, LogDurableFacts
  <2> QED
    BY <2>3, <2>4
<1>2. CASE b \in SnapBatch
  <2>1. PICK s : s = b.snap
    OBVIOUS
  <2>2. b.kind \in {"taken", "installed"}
    BY <1>2 DEF SnapBatch
  <2>3. Synced(n, dd, s)
    BY <2>1, <2>2 DEF IsSnap
  <2>4. LogInvBut(n, b) => LogInv(n)
    BY <2>2 DEF LogInvBut, LogInv
  <2>5. CASE b.kind = "taken"
    <3>1. PICK u : u = SnapshotTaken(n, s)
      OBVIOUS
    <3>2. r = [m |-> u, d |-> dd]
      BY <2>1, <2>5, <3>1 DEF Finished
    <3>3. s.index <= n.commit
      BY <2>1, <2>5
    <3>4. u \in Node /\ FilesInv(u, dd) /\ (n.commit <= LastIndex(n) /\ LogInv(n) => LogInv(u))
      BY <2>3, <3>1, <3>3, TakenFacts
    <3> QED
      BY <2>4, <3>2, <3>4
  <2>6. CASE b.kind = "installed"
    <3>1. r = SnapshotInstalled(n, dd, s)
      BY <2>1, <2>6 DEF Finished
    <3>2. s.term \in Nat
      BY <2>1, <2>6
    <3>3. /\ r.m \in Node /\ r.d \in Disk /\ FilesInv(r.m, r.d) /\ (LogInv(n) => LogInv(r.m))
          /\ r = [m |-> r.m, d |-> r.d]
      BY <2>3, <3>1, <3>2, InstalledFacts
    <3> QED
      BY <2>4, <3>3
  <2> QED
    BY <2>2, <2>5, <2>6
<1> QED
  BY <1>1, <1>2 DEF Batch

LEMMA DoneStep ==
    ASSUME FilesOK, NEW k \in DOMAIN m.batches, SyncDone(k)
    PROVE  FilesOK' /\ (CommitIsInTheLog /\ LogInv(m) => LogInv(m)')
<1>1. EnvOK /\ m \in Node /\ d \in Disk /\ FilesInv(m, d)
  BY DEF FilesOK
<1>2. PICK b : b = m.batches[k]
  OBVIOUS
<1>3. PICK n : n = [m EXCEPT !.batches = Without(@, k)]
  OBVIOUS
<1>4. PICK r : r = Finished(n, d, b)
  OBVIOUS
<1>5. b.syncing /\ Handle(r)
  BY <1>2, <1>3, <1>4 DEF SyncDone, Finished
<1>6. /\ n \in Node /\ SameButQueue(n, m) /\ FilesInv(n, d)
      /\ IsSnap(b) => NoSnaps(n) /\ UnderWay(m, d, b)
      /\ LogInv(m) => LogInvBut(n, b)
  BY <1>1, <1>2, <1>3, DropFacts
<1>7. b \in Batch
  <2>1. m.batches \in Seq(Batch)
    BY <1>1, NodeFacts
  <2> QED
    BY <2>1, <1>2
<1>8. ASSUME IsSnap(b)
      PROVE  /\ Synced(n, d, b.snap)
             /\ b.kind = "taken" => b.snap.index <= n.commit
             /\ b.kind = "installed" => b.snap.term \in Nat
  <2>1. NoSnaps(n) /\ UnderWay(m, d, b)
    BY <1>6, <1>8
  <2>2. b.snap \in Snap
    BY <1>7, <1>8 DEF Batch, LogBatch, SnapBatch, IsSnap
  <2>3. /\ m.snap <= b.snap.index /\ b.snap.index <= m.highest
        /\ b.kind = "taken" => b.snap.index <= m.commit
        /\ b.kind = "installed" => b.snap.term \in Nat
        /\ d.files[b.snap.file] = b.snap /\ d.writing = Nothing
    BY <2>1, <1>5 DEF UnderWay
  <2>4. n.snap = m.snap /\ n.highest = m.highest /\ n.commit = m.commit
    BY <1>6 DEF SameButQueue
  <2> QED
    BY <2>1, <2>2, <2>3, <2>4, <1>1, <1>6 DEF Synced
<1>9. /\ r.m \in Node /\ r.d \in Disk /\ FilesInv(r.m, r.d)
      /\ n.commit <= LastIndex(n) /\ LogInvBut(n, b) => LogInv(r.m)
      /\ r = [m |-> r.m, d |-> r.d]
  <2>1. b.kind = "taken" => b.snap.index <= n.commit
    BY <1>8 DEF IsSnap
  <2>2. b.kind = "installed" => b.snap.term \in Nat
    BY <1>8 DEF IsSnap
  <2>3. n \in Node /\ FilesInv(n, d) /\ (IsSnap(b) => Synced(n, d, b.snap))
    BY <1>6, <1>8
  <2> QED
    BY <2>1, <2>2, <2>3, <1>1, <1>4, <1>7, FinishedFacts
<1>10. PICK u : u = r.m
  OBVIOUS
<1>11. PICK ee : ee = r.d
  OBVIOUS
<1>12. u \in Node /\ ee \in Disk /\ FilesInv(u, ee) /\ Handle([m |-> u, d |-> ee])
  BY <1>5, <1>9, <1>10, <1>11
<1>13. FilesOK' /\ (LogInv(u) => LogInv(m)')
  BY <1>1, <1>12, HandleKeeps
<1>14. ASSUME CommitIsInTheLog, LogInv(m) PROVE LogInv(m)'
  <2>1. n.commit <= LastIndex(n)
    BY <1>6, <1>14 DEF CommitIsInTheLog, SameButQueue, LastIndex
  <2> QED
    BY <2>1, <1>6, <1>9, <1>10, <1>13, <1>14
<1> QED
  BY <1>13, <1>14

-----------------------------------------------------------------------------
(* The power goes, and the node comes back.                                *)

LEMMA PowerLossStep ==
    ASSUME FilesOK, PowerLoss
    PROVE  FilesOK' /\ (LogInv(m) => LogInv(m)')
<1>1. m' = m /\ d' = d /\ env' = [env EXCEPT !.crashes = @ + 1]
  BY DEF PowerLoss
<1>2. EnvOK
  BY DEF FilesOK
<1>3. EnvOK'
  <2>1. DOMAIN env' = DOMAIN env
    BY <1>1
  <2>2. env'.leaderLog = env.leaderLog /\ env'.leaderCommit = env.leaderCommit
    BY <1>1, <1>2 DEF EnvOK
  <2> QED
    BY <2>1, <2>2, <1>2 DEF EnvOK, LeaderLog, LeaderCommit
<1>4. FilesInv(m, d)' /\ (LogInv(m) => LogInv(m)')
  BY <1>1 DEF FilesOK, FilesInv, LogInv, LastIndex, UnderWay, IsSnap, InFlight
<1> QED
  BY <1>1, <1>3, <1>4 DEF FilesOK

LEMMA CrashCells ==
    ASSUME NEW dd \in Disk, NEW cells \in CellsAfterCrash(dd)
    PROVE  cells \in Seq(Cell)
<1>1. dd.cells \in Seq(Cell) /\ dd.pending \in Seq(Write)
  BY DiskFacts
<1>2. CASE MayLose
  <2>1. PICK kept \in SUBSET DOMAIN dd.pending : cells = ApplySome(dd.cells, dd.pending, kept)
    BY <1>2 DEF CellsAfterCrash
  <2> QED
    BY <2>1, <1>1, ApplySomeType
<1>3. CASE ~MayLose
  <2>1. cells = ApplySome(dd.cells, dd.pending, DOMAIN dd.pending)
    BY <1>3 DEF CellsAfterCrash, ApplyAll
  <2> QED
    BY <2>1, <1>1, ApplySomeType
<1> QED
  BY <1>2, <1>3

(* Only the file that is being written can come back different. *)
LEMMA CrashFiles ==
    ASSUME NEW n, NEW dd \in Disk, FilesInv(n, dd), NEW files \in FilesAfterCrash(dd)
    PROVE  /\ files \in [Files -> Snap \cup {Nothing}]
           /\ \A f \in Files : files[f].index # 0 => files[f].file = f
           /\ \A f \in Files : files[f] = dd.files[f] \/ (dd.writing.index # 0 /\ f = dd.writing.file)
<1>1. /\ dd.files \in [Files -> Snap \cup {Nothing}]
      /\ dd.writing \in Snap \cup {Nothing}
      /\ dd.writing.index # 0 => dd.writing \in Snap
  BY DiskFacts
<1>2. \A f \in Files : dd.files[f].index # 0 => dd.files[f].file = f
  BY DEF FilesInv
<1>3. CASE dd.writing.index = 0
  <2>1. files = dd.files
    BY <1>3 DEF FilesAfterCrash
  <2> QED
    BY <2>1, <1>1, <1>2
<1>4. CASE dd.writing.index # 0
  <2>1. dd.writing \in Snap /\ dd.writing.file \in Files
    BY <1>1, <1>4 DEF Snap
  <2>2. PICK g : g = dd.writing.file
    OBVIOUS
  <2>3. PICK left \in {dd.files[g], Nothing, dd.writing} : files = [dd.files EXCEPT ![g] = left]
    BY <1>4, <2>2 DEF FilesAfterCrash
  <2>4. left \in Snap \cup {Nothing} /\ g \in Files
    BY <2>1, <2>2, <2>3, <1>1
  <2>5. /\ files \in [Files -> Snap \cup {Nothing}] /\ files[g] = left
        /\ \A f \in Files : f # g => files[f] = dd.files[f]
    BY <2>3, <2>4, <1>1
  <2>6. left.index # 0 => left.file = g
    BY <2>2, <2>3, <2>4, <1>2 DEF Nothing
  <2> QED
    BY <2>2, <2>5, <2>6, <1>2, <1>4
<1> QED
  BY <1>3, <1>4

LEMMA RestartStep ==
    ASSUME FilesOK, Restart
    PROVE  FilesOK' /\ LogInv(m)'
<1>1. EnvOK /\ d \in Disk /\ FilesInv(m, d)
  BY DEF FilesOK
<1>2. PICK cells \in CellsAfterCrash(d), files \in FilesAfterCrash(d) :
        /\ m' = Recovered(cells, files)
        /\ d' = [cells |-> cells, pending |-> <<>>, files |-> files, writing |-> Nothing]
  BY DEF Restart
<1>3. /\ cells \in Seq(Cell) /\ files \in [Files -> Snap \cup {Nothing}]
      /\ \A f \in Files : files[f].index # 0 => files[f].file = f
  BY <1>1, CrashCells, CrashFiles
<1>4. PICK n : n = m'
  OBVIOUS
<1>5. PICK dd : dd = d'
  OBVIOUS
<1>6. n \in Node /\ dd \in Disk /\ FilesInv(n, dd) /\ LogInv(n)
  BY <1>2, <1>3, <1>4, <1>5, RecoveredFacts
<1>7. FilesInv(m, d)' /\ LogInv(m)'
  BY <1>4, <1>5, <1>6 DEF FilesInv, LogInv, LastIndex, UnderWay, IsSnap, InFlight
<1>8. EnvOK'
  BY <1>1 DEF Restart, EnvOK, LeaderLog, LeaderCommit
<1> QED
  BY <1>4, <1>5, <1>6, <1>7, <1>8 DEF FilesOK

-----------------------------------------------------------------------------
(* The theorems.                                                           *)

LEMMA InitOK ==
    ASSUME Init
    PROVE  FilesOK /\ LogInv(m)
<1>1. PICK files : files = [f \in Files |-> Nothing]
  OBVIOUS
<1>2. PICK cells : cells = <<>>
  OBVIOUS
<1>3. m = Recovered(cells, files) /\ env \in Settings
      /\ d = [cells |-> cells, pending |-> <<>>, files |-> files, writing |-> Nothing]
  BY <1>1, <1>2 DEF Init
<1>4. cells \in Seq(Cell) /\ files \in [Files -> Snap \cup {Nothing}]
  BY <1>1, <1>2
<1>5. \A f \in Files : files[f].index # 0 => files[f].file = f
  BY <1>1 DEF Nothing
<1>6. m \in Node /\ d \in Disk /\ FilesInv(m, d) /\ LogInv(m)
  BY <1>3, <1>4, <1>5, RecoveredFacts
<1>7. EnvOK
  BY <1>3, SnapshotsAssumption DEF EnvOK, LeaderLog, LeaderCommit
<1> QED
  BY <1>6, <1>7 DEF FilesOK

LEMMA NextOK ==
    ASSUME FilesOK, [Next]_vars
    PROVE  FilesOK' /\ (CommitIsInTheLog /\ LogInv(m) => LogInv(m)')
<1>1. ASSUME NEW t \in DOMAIN LeaderLog, NEW prev \in 0..Len(LeaderLog[t]),
             NEW last \in prev..Len(LeaderLog[t]), NEW c \in {0, LeaderCommit[t]},
             OnAppendEntries(t, prev, last, c)
      PROVE  FilesOK' /\ (LogInv(m) => LogInv(m)')
  BY <1>1, AppendStep
<1>2. ASSUME NEW t \in DOMAIN LeaderLog, NEW index \in 1..LeaderCommit[t],
             OnInstallSnapshot(t, index)
      PROVE  FilesOK' /\ (LogInv(m) => LogInv(m)')
  BY <1>2, InstallStep
<1>3. ASSUME NEW k \in DOMAIN m.batches, IssueSync(k)
      PROVE  FilesOK' /\ (LogInv(m) => LogInv(m)')
  BY <1>3, IssueStep
<1>4. ASSUME NEW k \in DOMAIN m.batches, SyncDone(k)
      PROVE  FilesOK' /\ (CommitIsInTheLog /\ LogInv(m) => LogInv(m)')
  BY <1>4, DoneStep
<1>5. CASE PowerLoss
  BY <1>5, PowerLossStep
<1>6. CASE Restart
  BY <1>6, RestartStep
<1>7. CASE UNCHANGED vars
  <2>1. m' = m /\ d' = d /\ env' = env
    BY <1>7 DEF vars
  <2> QED
    BY <2>1 DEF FilesOK, EnvOK, LeaderLog, LeaderCommit, FilesInv, LogInv, LastIndex, UnderWay,
                IsSnap, InFlight
<1> QED
  BY <1>1, <1>2, <1>3, <1>4, <1>5, <1>6, <1>7 DEF Next

(* A snapshot is never written over the newest one, and the newest covers  *)
(* all that `compact_to` has dropped (`next_snapshot_file`,                *)
(* `take_snapshot`, `on_install_snapshot`).                                *)
THEOREM NewestIsSpared == Spec => []FilesOK
<1>1. Init => FilesOK
  BY InitOK
<1>2. FilesOK /\ [Next]_vars => FilesOK'
  BY NextOK
<1> QED
  BY <1>1, <1>2, PTL DEF Spec

(* Whenever the power goes, whatever becomes of the file that is being     *)
(* written, `recover` finds a snapshot that covers all that the log has    *)
(* dropped: for any number of snapshots, taken or installed, and crashes.  *)
THEOREM DroppedIsCovered == Spec => []CompactedIsCovered
<1>1. ASSUME FilesOK PROVE CompactedIsCovered
  <2>1. m \in Node /\ d \in Disk /\ FilesInv(m, d)
    BY <1>1 DEF FilesOK
  <2> SUFFICES ASSUME NEW files \in FilesAfterCrash(d) PROVE Pick(files).index >= m.snap
    BY DEF CompactedIsCovered
  <2>2. /\ files \in [Files -> Snap \cup {Nothing}]
        /\ \A f \in Files : files[f] = d.files[f] \/ (d.writing.index # 0 /\ f = d.writing.file)
    BY <2>1, CrashFiles
  <2>3. PICK s : s = Pick(files)
    OBVIOUS
  <2>4. s \in Snap \cup {Nothing} /\ \A f \in Files : s.index >= files[f].index
    BY <2>2, <2>3, PickFacts
  <2>5. s.index \in Nat /\ m.snap \in Nat
    BY <2>1, <2>4, NodeFacts DEF Snap, Nothing
  <2>6. CASE m.file = "none"
    BY <2>1, <2>3, <2>5, <2>6 DEF FilesInv
  <2>7. CASE m.file # "none"
    <3>1. m.file \in Files
      <4>1. m.file \in {"none", "A", "B"}
        BY <2>1, NodeFacts
      <4> QED
        BY <4>1, <2>7 DEF Files
    <3>2. d.files[m.file].index >= m.snap /\ (d.writing.index # 0 => d.writing.file # m.file)
      BY <2>1, <2>7 DEF FilesInv
    <3>3. files[m.file] = d.files[m.file]
      BY <2>2, <3>1, <3>2
    <3>4. d.files[m.file].index \in Nat
      BY <2>1, <3>1, DiskFacts
    <3>5. s.index >= d.files[m.file].index
      BY <2>4, <3>1, <3>3
    <3> QED
      BY <2>3, <2>5, <3>2, <3>4, <3>5
  <2> QED
    BY <2>6, <2>7
<1> QED
  BY <1>1, NewestIsSpared, PTL

(* While no leader makes the node cut what it has committed, a node with   *)
(* nothing in flight claims its whole log: no truncation, snapshot or      *)
(* crash makes it forget a synced range (`on_durable`, `advance_durable`), *)
(* short of more than 4096 of them waiting for one gap.                    *)
THEOREM NothingIsForgotten == Spec /\ []CommitIsInTheLog => []ClaimCatchesUp
<1> DEFINE ClaimOK == LogInv(m)
<1>1. Init => ClaimOK
  BY InitOK
<1>2. FilesOK /\ CommitIsInTheLog /\ ClaimOK /\ [Next]_vars => ClaimOK'
  BY NextOK
<1>3. ASSUME FilesOK, ClaimOK PROVE ClaimCatchesUp
  <2> SUFFICES ASSUME m.batches = <<>> PROVE m.durable = LastIndex(m)
    BY DEF ClaimCatchesUp
  <2>1. m.durable \in Nat /\ LastIndex(m) \in Nat
    BY <1>3, NodeFacts DEF FilesOK
  <2>2. \A i : ~InFlight(m.batches, i)
    BY DEF InFlight
  <2>3. m.durable <= LastIndex(m)
    BY <1>3 DEF LogInv
  <2>4. ASSUME m.durable < LastIndex(m) PROVE FALSE
    <3>1. m.durable + 1 \in (m.durable + 1)..LastIndex(m)
      BY <2>1, <2>4
    <3> QED
      BY <2>2, <2>4, <3>1, <1>3 DEF LogInv
  <2> QED
    BY <2>1, <2>3, <2>4
<1> HIDE DEF ClaimOK
<1> QED
  BY <1>1, <1>2, <1>3, NewestIsSpared, PTL DEF Spec
===============================================================================
