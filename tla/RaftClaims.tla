------------------------------ MODULE RaftClaims ------------------------------
(***************************************************************************)
(* What a node claims to have on disk, it has (DurableClaimIsTrue), for    *)
(* every cluster and configuration: whatever order the syncs complete in,  *)
(* whatever was truncated while they were in flight, and wherever a crash  *)
(* fell.                                                                   *)
(*                                                                         *)
(* The argument: an index that is claimed or parked is written, which      *)
(* means that the disk, and every image that will replace the disk, hold   *)
(* the entry that memory holds (Written).  A range in flight agrees with   *)
(* its own image and with every later one, so that it is written once its  *)
(* batch is synced, even if a later batch was synced before (InFlight).    *)
(* A truncation forgets exactly the claims it makes false, and no write in *)
(* flight begins at or below an index that is claimed (Fences).            *)
(***************************************************************************)
EXTENDS RaftElection

Index == Nat \ {0}

Agree(a, b, i) == i \in DOMAIN a /\ i \in DOMAIN b /\ a[i] = b[i]

(* The images from batch `first` on that are yet to reach the platter.     *)
Pending(n, first, i) == \A j \in Queued(n) :
    j >= first /\ ~batches[n][j].synced => Agree(batches[n][j].log, log[n], i)

Written(n, i) == Agree(disk[n].log, log[n], i) /\ Pending(n, 1, i)

IsParked(n, i) == \E r \in parked[n] : r.from <= i /\ i <= r.to
Covers(act, i) == act.kind = "LogDurable" /\ act.from <= i /\ i <= act.index

(* A claimed entry is written, and its term is known to be durable.        *)
Claimed(n) == \A i \in Index :
    i <= durableIndex[n] => Written(n, i) /\ log[n][i].term <= durableTerm[n]

Waiting(n) == \A i \in Index : IsParked(n, i) => Written(n, i)

InFlight(n) == \A j \in Queued(n) : \A i \in Index : Covers(batches[n][j].act, i) =>
    /\ Pending(n, j, i)
    /\ batches[n][j].synced => Agree(disk[n].log, log[n], i)

(* The writes from batch `first` on that are yet to reach the platter      *)
(* begin above i: no crash in the middle of them loses it.                 *)
Fenced(n, first, i) == \A j \in Queued(n) :
    j >= first /\ ~batches[n][j].synced => i < batches[n][j].from

Fences(n) == \A i \in Index :
    /\ i <= durableIndex[n] \/ IsParked(n, i) => Fenced(n, 1, i)
    /\ \A j \in Queued(n) : Covers(batches[n][j].act, i) => Fenced(n, j + 1, i)

ClaimInv == \A n \in Server : Claimed(n) /\ Waiting(n) /\ InFlight(n) /\ Fences(n)

-----------------------------------------------------------------------------
(* What a step of node n may do, for this argument. *)

Kept(n, i) == i \in DOMAIN log[n] => i \in DOMAIN log'[n] /\ log'[n][i] = log[n][i]

(* Entry i is kept, and not written again by a batch whose writes begin at *)
(* from.                                                                   *)
Spared(n, from, i) == Kept(n, i) /\ (i \in DOMAIN log[n] => i < from)

Survives(n, i) == Kept(n, i) /\ \A j \in Queued(n)' :
    j > Len(batches[n]) => Spared(n, batches'[n][j].from, i)

(* A batch written in this step holds the log as the step leaves it.       *)
IsImage(n, b) ==
    /\ b.log = log'[n] /\ ~b.synced
    /\ \A i \in Index : Covers(b.act, i) => i \in DOMAIN log'[n]

(* The log grows or is rewritten, and only claims that stay true are kept. *)
Rewrites(n) ==
    /\ disk'[n].log = disk[n].log /\ durableTerm'[n] = durableTerm[n]
    /\ Len(batches'[n]) \in {Len(batches[n]), Len(batches[n]) + 1}
    /\ \A j \in Queued(n) : /\ batches'[n][j].log = batches[n][j].log
                            /\ batches'[n][j].synced = batches[n][j].synced
                            /\ batches'[n][j].from = batches[n][j].from
    /\ \A j \in Queued(n)' : j > Len(batches[n]) => IsImage(n, batches'[n][j])
    /\ \A i \in Index :
         /\ i <= durableIndex'[n] => i <= durableIndex[n] /\ Survives(n, i)
         /\ IsParked(n, i)' => IsParked(n, i) /\ Survives(n, i)
         /\ \A j \in Queued(n) : Covers(batches'[n][j].act, i)
              => Covers(batches[n][j].act, i) /\ Survives(n, i)

(* The sync of batch k shows that its range is written. *)
Shown(n, k, i) == IsParked(n, i) \/ Covers(batches[n][k].act, i)

Confirms(n, k) ==
    /\ SyncDone(n, k)
    /\ Len(batches'[n]) \in {Len(batches[n]) - 1, Len(batches[n])}
    /\ \A j \in 1..(Len(batches[n]) - 1) :
         /\ batches'[n][j].log = batches[n][Source(k, j)].log
         /\ batches'[n][j].act = batches[n][Source(k, j)].act
         /\ batches'[n][j].from = batches[n][Source(k, j)].from
         /\ batches'[n][j].synced = (j < k \/ batches[n][j + 1].synced)
    /\ \A j \in Queued(n)' : j >= Len(batches[n])
         => IsImage(n, batches'[n][j]) /\ batches'[n][j].from = Len(log[n]) + 1
    /\ \A i \in Index :
         /\ Kept(n, i)
         /\ IsParked(n, i)' => Shown(n, k, i)
         /\ i <= durableIndex'[n] => \/ i <= durableIndex[n]
                                     \/ /\ Shown(n, k, i)
                                        /\ log[n][i].term <= durableTerm'[n]

(* A crash: memory is what was read back. *)
Reboots(n) ==
    /\ batches'[n] = <<>> /\ parked'[n] = {}
    /\ log'[n] = disk'[n].log /\ durableIndex'[n] <= Len(log'[n])
    /\ \A i \in DOMAIN log'[n] : log'[n][i].term <= durableTerm'[n]

LogsAlone(n) == \A p \in Server \ {n} :
    /\ log'[p] = log[p] /\ durableIndex'[p] = durableIndex[p] /\ parked'[p] = parked[p]
    /\ durableTerm'[p] = durableTerm[p] /\ disk'[p] = disk[p] /\ batches'[p] = batches[p]

ClaimStep(n) == LogsAlone(n) /\ (Rewrites(n) \/ (\E k \in Queued(n) : Confirms(n, k)) \/ Reboots(n))

-----------------------------------------------------------------------------
(* The invariant is kept. *)

LEMMA AgreeKept ==
    ASSUME NEW n, NEW lg, NEW i, Agree(lg, log[n], i), Kept(n, i)
    PROVE  Agree(lg, log'[n], i) /\ i \in DOMAIN log'[n]
BY DEF Agree, Kept

LEMMA AgreeSelf ==
    ASSUME NEW lg, NEW i \in DOMAIN lg
    PROVE  Agree(lg, lg, i)
BY DEF Agree

LEMMA EntryTerm ==
    ASSUME NEW lg \in Seq(Entry), NEW i \in DOMAIN lg
    PROVE  lg[i] \in Entry /\ lg[i].term \in Nat
<1>1. lg[i] \in Entry
  OBVIOUS
<1> QED
  BY <1>1 DEF Entry

LEMMA QueueTypes ==
    ASSUME TypeOK, TypeOK', NEW n \in Server
    PROVE  /\ Len(batches[n]) \in Nat /\ Len(batches'[n]) \in Nat
           /\ \A j \in Queued(n) : batches[n][j].synced \in BOOLEAN
           /\ \A j \in Queued(n)' : batches'[n][j].synced \in BOOLEAN
           /\ durableIndex[n] \in Nat /\ durableIndex'[n] \in Nat
           /\ durableTerm[n] \in Nat /\ durableTerm'[n] \in Nat
           /\ log[n] \in Seq(Entry) /\ log'[n] \in Seq(Entry)
BY HardTypes, HardTypesNext DEF HardTyped, TypeOK

LEMMA RewritesKeepClaims ==
    ASSUME TypeOK, TypeOK', NEW n \in Server, Claimed(n), Waiting(n), InFlight(n), Rewrites(n)
    PROVE  Claimed(n)' /\ Waiting(n)' /\ InFlight(n)'
<1> DEFINE q == batches[n]
           r == batches'[n]
<1>1. /\ Len(q) \in Nat /\ Len(r) \in Nat
  BY QueueTypes
<1>2. \A j \in Queued(n)' : \/ /\ j \in Queued(n) /\ r[j].log = q[j].log
                               /\ r[j].synced = q[j].synced
                            \/ j = Len(q) + 1 /\ IsImage(n, r[j])
  BY <1>1 DEF Queued, Rewrites
<1>3. ASSUME NEW i \in Index, NEW first \in Nat, Kept(n, i), i \in DOMAIN log[n],
             Pending(n, first, i)
      PROVE  Pending(n, first, i)'
  <2> SUFFICES ASSUME NEW j \in Queued(n)', j >= first, ~r[j].synced
               PROVE  Agree(r[j].log, log'[n], i)
    BY DEF Pending
  <2>1. CASE j \in Queued(n) /\ r[j].log = q[j].log /\ r[j].synced = q[j].synced
    <3>1. Agree(q[j].log, log[n], i)
      BY <1>3, <2>1 DEF Pending
    <3> QED
      BY <1>3, <2>1, <3>1, AgreeKept
  <2>2. CASE IsImage(n, r[j])
    BY <1>3, <2>2, AgreeSelf DEF IsImage, Kept
  <2> QED
    BY <1>2, <2>1, <2>2
<1>4. ASSUME NEW i \in Index, Written(n, i), Kept(n, i)
      PROVE  Written(n, i)'
  <2>1. i \in DOMAIN log[n] /\ Agree(disk'[n].log, log'[n], i)
    BY <1>4, AgreeKept DEF Written, Rewrites, Agree
  <2> QED
    BY <1>3, <1>4, <2>1 DEF Written
<1>5. Claimed(n)'
  <2> SUFFICES ASSUME NEW i \in Index, i <= durableIndex'[n]
               PROVE  Written(n, i)' /\ log'[n][i].term <= durableTerm'[n]
    BY DEF Claimed
  <2>1. i <= durableIndex[n] /\ Kept(n, i)
    BY DEF Rewrites, Survives
  <2>2. Written(n, i) /\ log[n][i].term <= durableTerm[n]
    BY <2>1 DEF Claimed
  <2>3. i \in DOMAIN log[n]
    BY <2>2 DEF Written, Agree
  <2>4. log'[n][i] = log[n][i]
    BY <2>1, <2>3 DEF Kept
  <2> QED
    BY <1>4, <2>1, <2>2, <2>4 DEF Rewrites
<1>6. Waiting(n)'
  BY <1>4 DEF Waiting, Rewrites, Survives
<1>7. InFlight(n)'
  <2> SUFFICES ASSUME NEW j \in Queued(n)', NEW i \in Index, Covers(r[j].act, i)
               PROVE  Pending(n, j, i)' /\ (r[j].synced => Agree(disk'[n].log, log'[n], i))
    BY DEF InFlight
  <2>1. CASE j \in Queued(n) /\ r[j].log = q[j].log /\ r[j].synced = q[j].synced
    <3>1. Covers(q[j].act, i) /\ Kept(n, i)
      BY <2>1 DEF Rewrites, Survives
    <3>2. Pending(n, j, i) /\ (q[j].synced => Agree(disk[n].log, log[n], i))
      BY <2>1, <3>1 DEF InFlight
    <3>3. i \in DOMAIN log[n] /\ j \in Nat
      <4>1. CASE q[j].synced
        BY <3>2, <4>1 DEF Agree, Queued
      <4>2. CASE ~q[j].synced
        <5>1. Agree(q[j].log, log[n], i) /\ j \in Nat
          BY <1>1, <2>1, <3>2, <4>2 DEF Pending, Queued
        <5> QED
          BY <5>1 DEF Agree
      <4> QED
        BY <4>1, <4>2
    <3>4. Pending(n, j, i)'
      BY <1>3, <3>1, <3>2, <3>3
    <3> QED
      BY <2>1, <3>1, <3>2, <3>4, AgreeKept DEF Rewrites
  <2>2. CASE j = Len(q) + 1 /\ IsImage(n, r[j])
    <3>1. i \in DOMAIN log'[n] /\ ~r[j].synced /\ r[j].log = log'[n]
      BY <2>2 DEF IsImage
    <3>2. \A l \in Queued(n)' : l >= j => l = j
      BY <1>1, <1>2, <2>2 DEF Queued
    <3>3. Pending(n, j, i)'
      BY <3>1, <3>2, AgreeSelf DEF Pending
    <3> QED
      BY <3>1, <3>3
  <2> QED
    BY <1>2, <2>1, <2>2
<1> QED
  BY <1>5, <1>6, <1>7

LEMMA RewritesKeepFences ==
    ASSUME TypeOK, TypeOK', NEW n \in Server, Claimed(n), Waiting(n), InFlight(n), Fences(n),
           Rewrites(n)
    PROVE  Fences(n)'
<1> DEFINE q == batches[n]
           r == batches'[n]
<1>1. /\ Len(q) \in Nat /\ Len(r) \in Nat
  BY QueueTypes
<1>2. \A j \in Queued(n)' : \/ /\ j \in Queued(n) /\ r[j].from = q[j].from
                               /\ r[j].synced = q[j].synced
                            \/ j = Len(q) + 1 /\ j > Len(q)
  BY <1>1 DEF Queued, Rewrites
<1>3. ASSUME NEW i \in Index, NEW first \in Nat, i \in DOMAIN log[n], Survives(n, i),
             Fenced(n, first, i)
      PROVE  Fenced(n, first, i)'
  BY <1>2, <1>3 DEF Fenced, Survives, Spared
<1>4. ASSUME NEW i \in Index, i <= durableIndex'[n] \/ IsParked(n, i)'
      PROVE  Fenced(n, 1, i)'
  <2>1. (i <= durableIndex[n] \/ IsParked(n, i)) /\ Survives(n, i)
    BY <1>4 DEF Rewrites
  <2>2. i \in DOMAIN log[n]
    BY <2>1 DEF Claimed, Waiting, Written, Agree
  <2> QED
    BY <1>3, <2>1, <2>2 DEF Fences
<1>5. ASSUME NEW i \in Index, NEW j \in Queued(n)', Covers(r[j].act, i)
      PROVE  Fenced(n, j + 1, i)'
  <2>1. CASE j \in Queued(n) /\ r[j].synced = q[j].synced
    <3>1. Covers(q[j].act, i) /\ Survives(n, i) /\ j + 1 \in Nat /\ j \in Nat
      BY <1>1, <1>5, <2>1 DEF Rewrites, Queued
    <3>2. i \in DOMAIN log[n]
      <4>1. Pending(n, j, i) /\ (q[j].synced => Agree(disk[n].log, log[n], i))
        BY <2>1, <3>1 DEF InFlight
      <4>2. ~q[j].synced => Agree(q[j].log, log[n], i)
        BY <2>1, <3>1, <4>1 DEF Pending
      <4> QED
        BY <4>1, <4>2 DEF Agree
    <3>3. Fenced(n, j + 1, i)
      BY <2>1, <3>1 DEF Fences
    <3> QED
      BY <1>3, <3>1, <3>2, <3>3
  <2>2. CASE j = Len(q) + 1
    <3>1. \A l \in Queued(n)' : ~(l >= j + 1)
      BY <1>1, <1>2, <2>2 DEF Queued
    <3> QED
      BY <3>1 DEF Fenced
  <2> QED
    BY <1>2, <2>1, <2>2
<1> QED
  BY <1>4, <1>5 DEF Fences

(* Where the next queue comes from when batch k is confirmed. *)
LEMMA ConfirmsQueue ==
    ASSUME TypeOK, TypeOK', NEW n \in Server, NEW k \in Queued(n), Confirms(n, k)
    PROVE  \A j \in Queued(n)' :
             \/ /\ j \in Queued(n) /\ j < k /\ batches'[n][j].synced
                /\ batches'[n][j].log = batches[n][j].log
                /\ batches'[n][j].act = batches[n][j].act
             \/ /\ j + 1 \in Queued(n) /\ j >= k
                /\ batches'[n][j].log = batches[n][j + 1].log
                /\ batches'[n][j].act = batches[n][j + 1].act
                /\ batches'[n][j].synced = batches[n][j + 1].synced
                /\ batches'[n][j].from = batches[n][j + 1].from
             \/ /\ j = Len(batches[n]) /\ IsImage(n, batches'[n][j])
                /\ batches'[n][j].from = Len(log[n]) + 1
<1> DEFINE q == batches[n]
           r == batches'[n]
<1>1. /\ Len(q) \in Nat /\ Len(r) \in Nat
      /\ \A j \in Queued(n) : q[j].synced \in BOOLEAN
      /\ \A j \in Queued(n)' : r[j].synced \in BOOLEAN
  BY QueueTypes
<1> SUFFICES ASSUME NEW j \in Queued(n)'
             PROVE  \/ /\ j \in Queued(n) /\ j < k /\ r[j].synced
                       /\ r[j].log = q[j].log /\ r[j].act = q[j].act
                    \/ /\ j + 1 \in Queued(n) /\ j >= k
                       /\ r[j].log = q[j + 1].log /\ r[j].act = q[j + 1].act
                       /\ r[j].synced = q[j + 1].synced /\ r[j].from = q[j + 1].from
                    \/ j = Len(q) /\ IsImage(n, r[j]) /\ r[j].from = Len(log[n]) + 1
  OBVIOUS
<1>2. /\ j \in Nat /\ 1 <= j /\ j <= Len(r) /\ k \in Nat /\ 1 <= k /\ k <= Len(q)
      /\ Len(r) <= Len(q)
  BY <1>1 DEF Queued, Confirms
<1>3. CASE j = Len(q)
  BY <1>1, <1>2, <1>3 DEF Confirms
<1>4. CASE j < Len(q)
  <2>1. /\ j \in 1..(Len(q) - 1) /\ j \in Queued(n) /\ j + 1 \in Queued(n)
    BY <1>1, <1>2, <1>4 DEF Queued
  <2>2. /\ r[j].log = q[Source(k, j)].log /\ r[j].act = q[Source(k, j)].act
        /\ r[j].from = q[Source(k, j)].from
        /\ r[j].synced = (j < k \/ q[j + 1].synced)
    BY <2>1 DEF Confirms
  <2>3. CASE j < k
    BY <1>1, <2>1, <2>2, <2>3 DEF Source
  <2>4. CASE ~(j < k)
    BY <1>1, <1>2, <2>1, <2>2, <2>4 DEF Source
  <2> QED
    BY <2>3, <2>4
<1> QED
  BY <1>1, <1>2, <1>3, <1>4

LEMMA ConfirmsKeepClaims ==
    ASSUME TypeOK, TypeOK', NEW n \in Server, Chain(n), Claimed(n), Waiting(n), InFlight(n),
           NEW k \in Queued(n), Confirms(n, k)
    PROVE  Claimed(n)' /\ Waiting(n)' /\ InFlight(n)'
<1> DEFINE q == batches[n]
           r == batches'[n]
<1>1. /\ Len(q) \in Nat /\ Len(r) \in Nat /\ k \in Nat /\ 1 <= k /\ k <= Len(q)
      /\ \A j \in Queued(n) : q[j].synced \in BOOLEAN
      /\ \A j \in Queued(n)' : r[j].synced \in BOOLEAN
      /\ durableTerm[n] \in Nat /\ durableTerm'[n] \in Nat
      /\ log[n] \in Seq(Entry)
  BY QueueTypes DEF Queued
<1>2. \A j \in Queued(n)' :
        \/ j \in Queued(n) /\ j < k /\ r[j].synced /\ r[j].act = q[j].act
        \/ /\ j + 1 \in Queued(n) /\ j >= k /\ r[j].log = q[j + 1].log
           /\ r[j].act = q[j + 1].act /\ r[j].synced = q[j + 1].synced
        \/ j = Len(q) /\ IsImage(n, r[j])
  BY ConfirmsQueue
<1>3. /\ q[k].synced => disk'[n] = disk[n]
      /\ ~q[k].synced => disk'[n].log = q[k].log
  <2>1. disk \in [Server -> Image]
    BY DEF TypeOK
  <2> QED
    BY <2>1 DEF Confirms, SyncDone
<1>4. \A i \in Index : Kept(n, i)
  BY DEF Confirms
(* The images still to come agree as far as those of the old queue do.     *)
<1>5. ASSUME NEW i \in Index, NEW first \in Nat, NEW next \in Nat, i \in DOMAIN log[n],
             Pending(n, first, i), first <= k + 1 \/ first <= next + 1
      PROVE  Pending(n, next, i)'
  <2> SUFFICES ASSUME NEW j \in Queued(n)', j >= next, ~r[j].synced
               PROVE  Agree(r[j].log, log'[n], i)
    BY DEF Pending
  <2>1. CASE /\ j + 1 \in Queued(n) /\ j >= k /\ r[j].log = q[j + 1].log
             /\ r[j].synced = q[j + 1].synced
    <3>1. j + 1 >= first /\ ~q[j + 1].synced
      BY <1>1, <1>5, <2>1 DEF Queued
    <3>2. Agree(q[j + 1].log, log[n], i)
      BY <1>5, <2>1, <3>1 DEF Pending
    <3> QED
      BY <1>4, <2>1, <3>2, AgreeKept
  <2>2. CASE IsImage(n, r[j])
    BY <1>4, <1>5, <2>2, AgreeSelf DEF IsImage, Kept
  <2> QED
    BY <1>2, <2>1, <2>2
<1>6. ASSUME NEW i \in Index, Written(n, i)
      PROVE  Written(n, i)'
  <2>1. i \in DOMAIN log[n]
    BY <1>6 DEF Written, Agree
  <2>2. Agree(disk'[n].log, log[n], i)
    <3>1. CASE q[k].synced
      BY <1>3, <1>6, <3>1 DEF Written
    <3>2. CASE ~q[k].synced
      BY <1>1, <1>3, <1>6, <3>2 DEF Written, Pending
    <3> QED
      BY <3>1, <3>2
  <2>3. Pending(n, 1, i)'
    BY <1>1, <1>5, <1>6, <2>1 DEF Written
  <2> QED
    BY <1>4, <2>2, <2>3, AgreeKept DEF Written
<1>7. ASSUME NEW j \in Queued(n), j <= k, NEW i \in Index, Covers(q[j].act, i)
      PROVE  i \in DOMAIN log[n] /\ Agree(disk'[n].log, log'[n], i) /\ Pending(n, 1, i)'
  <2>1. Pending(n, j, i) /\ (q[j].synced => Agree(disk[n].log, log[n], i))
    BY <1>7 DEF InFlight
  <2>2. Agree(disk'[n].log, log[n], i)
    <3>1. CASE q[k].synced
      <4>1. k \in j..Len(q)
        BY <1>1, <1>7 DEF Queued
      <4>2. q[j].synced
        BY <1>7, <3>1, <4>1 DEF Chain
      <4> QED
        BY <1>3, <2>1, <3>1, <4>2
    <3>2. CASE ~q[k].synced
      <4>1. Agree(q[k].log, log[n], i)
        BY <1>1, <1>7, <2>1, <3>2 DEF Pending, Queued
      <4> QED
        BY <1>3, <3>2, <4>1
    <3> QED
      BY <3>1, <3>2
  <2>3. i \in DOMAIN log[n] /\ j \in Nat /\ j <= k + 1
    BY <1>1, <1>7, <2>2 DEF Agree, Queued
  <2>4. Pending(n, 1, i)'
    BY <1>5, <2>1, <2>3
  <2> QED
    BY <1>4, <2>2, <2>3, <2>4, AgreeKept
<1>8. ASSUME NEW i \in Index, Shown(n, k, i)
      PROVE  Written(n, i)'
  <2>1. CASE IsParked(n, i)
    BY <1>6, <2>1 DEF Waiting
  <2>2. CASE Covers(q[k].act, i)
    BY <1>1, <1>7, <2>2 DEF Written
  <2> QED
    BY <1>8, <2>1, <2>2 DEF Shown
<1>9. Claimed(n)'
  <2> SUFFICES ASSUME NEW i \in Index, i <= durableIndex'[n]
               PROVE  Written(n, i)' /\ log'[n][i].term <= durableTerm'[n]
    BY DEF Claimed
  <2>1. /\ Written(n, i)' /\ i \in DOMAIN log[n]
        /\ log[n][i].term <= durableTerm'[n]
    <3>1. CASE i <= durableIndex[n]
      <4>1. Written(n, i) /\ log[n][i].term <= durableTerm[n]
        BY <3>1 DEF Claimed
      <4>2. durableTerm[n] <= durableTerm'[n]
        <5>1. durableTerm \in [Server -> Nat]
          BY DEF TypeOK
        <5>2. q[k].hard.term \in Nat
          BY HardTypes DEF HardTyped, HardState
        <5> QED
          BY <1>1, <5>1, <5>2 DEF Confirms, SyncDone, MaxOf
      <4>3. i \in DOMAIN log[n]
        BY <4>1 DEF Written, Agree
      <4>4. log[n][i].term \in Nat
        BY <1>1, <4>3, EntryTerm
      <4> QED
        BY <1>1, <1>6, <4>1, <4>2, <4>3, <4>4
    <3>2. CASE Shown(n, k, i) /\ log[n][i].term <= durableTerm'[n]
      <4>1. i \in DOMAIN log[n]
        <5>1. CASE IsParked(n, i)
          BY <5>1 DEF Waiting, Written, Agree
        <5>2. CASE Covers(q[k].act, i)
          BY <1>1, <1>7, <5>2
        <5> QED
          BY <3>2, <5>1, <5>2 DEF Shown
      <4> QED
        BY <1>8, <3>2, <4>1
    <3> QED
      BY <3>1, <3>2 DEF Confirms
  <2> QED
    BY <1>4, <2>1 DEF Kept
<1>10. Waiting(n)'
  BY <1>8 DEF Waiting, Confirms
<1>11. InFlight(n)'
  <2> SUFFICES ASSUME NEW j \in Queued(n)', NEW i \in Index, Covers(r[j].act, i)
               PROVE  Pending(n, j, i)' /\ (r[j].synced => Agree(disk'[n].log, log'[n], i))
    BY DEF InFlight
  <2>1. CASE j \in Queued(n) /\ j < k /\ r[j].synced /\ r[j].act = q[j].act
    <3>1. Agree(disk'[n].log, log'[n], i) /\ Pending(n, 1, i)'
      BY <1>1, <1>7, <2>1 DEF Queued
    <3>2. Pending(n, j, i)'
      BY <1>1, <3>1 DEF Pending, Queued
    <3> QED
      BY <3>1, <3>2
  <2>2. CASE /\ j + 1 \in Queued(n) /\ j >= k /\ r[j].act = q[j + 1].act
             /\ r[j].synced = q[j + 1].synced
    <3>1. /\ Pending(n, j + 1, i) /\ (q[j + 1].synced => Agree(disk[n].log, log[n], i))
      BY <2>2 DEF InFlight
    <3>2. j \in Nat /\ j + 1 \in k..Len(q)
      BY <1>1, <2>2 DEF Queued
    <3>3. i \in DOMAIN log[n]
      <4>1. CASE q[j + 1].synced
        BY <3>1, <4>1 DEF Agree
      <4>2. CASE ~q[j + 1].synced
        <5>1. Agree(q[j + 1].log, log[n], i)
          BY <2>2, <3>1, <3>2, <4>2 DEF Pending
        <5> QED
          BY <5>1 DEF Agree
      <4> QED
        BY <4>1, <4>2
    <3>4. Pending(n, j, i)'
      BY <1>5, <3>1, <3>2, <3>3
    <3>5. ASSUME r[j].synced
          PROVE  Agree(disk'[n].log, log'[n], i)
      <4>1. q[k].synced
        BY <2>2, <3>2, <3>5 DEF Chain
      <4> QED
        BY <1>3, <1>4, <2>2, <3>1, <3>5, <4>1, AgreeKept
    <3> QED
      BY <3>4, <3>5
  <2>3. CASE j = Len(q) /\ IsImage(n, r[j])
    <3>1. i \in DOMAIN log'[n] /\ ~r[j].synced /\ r[j].log = log'[n]
      BY <2>3 DEF IsImage
    <3>2. \A l \in Queued(n)' : l >= j => l = j
      BY <1>1, <2>3 DEF Queued, Confirms
    <3>3. Pending(n, j, i)'
      BY <3>1, <3>2, AgreeSelf DEF Pending
    <3> QED
      BY <3>1, <3>3
  <2> QED
    BY <1>2, <2>1, <2>2, <2>3
<1> QED
  BY <1>9, <1>10, <1>11

LEMMA ConfirmsKeepFences ==
    ASSUME TypeOK, TypeOK', NEW n \in Server, Claimed(n), Waiting(n), InFlight(n), Fences(n),
           NEW k \in Queued(n), Confirms(n, k)
    PROVE  Fences(n)'
<1> DEFINE q == batches[n]
           r == batches'[n]
<1>1. /\ Len(q) \in Nat /\ Len(r) \in Nat /\ k \in Nat /\ 1 <= k /\ k <= Len(q)
      /\ log[n] \in Seq(Entry)
  BY QueueTypes DEF Queued
<1>2. \A j \in Queued(n)' :
        \/ j \in Queued(n) /\ j < k /\ r[j].synced /\ r[j].act = q[j].act
        \/ /\ j + 1 \in Queued(n) /\ j >= k /\ r[j].from = q[j + 1].from
           /\ r[j].act = q[j + 1].act /\ r[j].synced = q[j + 1].synced
        \/ j = Len(q) /\ r[j].from = Len(log[n]) + 1
  BY ConfirmsQueue
<1>3. \A i \in DOMAIN log[n] : i < Len(log[n]) + 1
  BY <1>1
(* The writes still to come are those of the old queue after k.            *)
<1>4. ASSUME NEW i \in DOMAIN log[n], NEW first \in Nat, NEW next \in Nat,
             Fenced(n, first, i), first <= k + 1 \/ first <= next + 1
      PROVE  Fenced(n, next, i)'
  <2> SUFFICES ASSUME NEW j \in Queued(n)', j >= next, ~r[j].synced
               PROVE  i < r[j].from
    BY DEF Fenced
  <2>1. CASE /\ j + 1 \in Queued(n) /\ j >= k /\ r[j].from = q[j + 1].from
             /\ r[j].synced = q[j + 1].synced
    <3>1. j + 1 >= first
      BY <1>1, <1>4, <2>1 DEF Queued
    <3> QED
      BY <1>4, <2>1, <3>1 DEF Fenced
  <2>2. CASE j = Len(q) /\ r[j].from = Len(log[n]) + 1
    BY <1>3, <2>2
  <2> QED
    BY <1>2, <2>1, <2>2
<1>5. ASSUME NEW i \in Index, i <= durableIndex[n] \/ IsParked(n, i)
      PROVE  Fenced(n, 1, i)'
  <2>1. i \in DOMAIN log[n]
    BY <1>5 DEF Claimed, Waiting, Written, Agree
  <2> QED
    BY <1>1, <1>4, <1>5, <2>1 DEF Fences
<1>6. ASSUME NEW j \in Queued(n), NEW i \in Index, Covers(q[j].act, i)
      PROVE  i \in DOMAIN log[n] /\ Fenced(n, j + 1, i) /\ j \in Nat
  <2>1. j \in Nat
    BY <1>1 DEF Queued
  <2>2. Pending(n, j, i) /\ (q[j].synced => Agree(disk[n].log, log[n], i))
    BY <1>6 DEF InFlight
  <2>3. ~q[j].synced => Agree(q[j].log, log[n], i)
    BY <2>1, <2>2 DEF Pending
  <2> QED
    BY <1>6, <2>1, <2>2, <2>3 DEF Agree, Fences
<1>7. ASSUME NEW i \in Index, Shown(n, k, i)
      PROVE  Fenced(n, 1, i)'
  <2>1. CASE IsParked(n, i)
    BY <1>5, <2>1
  <2>2. CASE Covers(q[k].act, i)
    <3>1. i \in DOMAIN log[n] /\ Fenced(n, k + 1, i)
      BY <1>6, <2>2
    <3>2. k + 1 \in Nat /\ k + 1 <= k + 1
      BY <1>1
    <3> QED
      BY <1>4, <3>1, <3>2
  <2> QED
    BY <1>7, <2>1, <2>2 DEF Shown
<1>8. ASSUME NEW i \in Index, i <= durableIndex'[n] \/ IsParked(n, i)'
      PROVE  Fenced(n, 1, i)'
  BY <1>5, <1>7, <1>8 DEF Confirms
<1>9. ASSUME NEW i \in Index, NEW j \in Queued(n)', Covers(r[j].act, i)
      PROVE  Fenced(n, j + 1, i)'
  <2>1. CASE j \in Queued(n) /\ j < k /\ r[j].act = q[j].act
    <3>1. i \in DOMAIN log[n] /\ Fenced(n, j + 1, i) /\ j \in Nat
      BY <1>6, <1>9, <2>1
    <3>2. j + 1 \in Nat /\ j + 1 <= k + 1
      BY <1>1, <2>1, <3>1
    <3> QED
      BY <1>4, <3>1, <3>2
  <2>2. CASE j + 1 \in Queued(n) /\ j >= k /\ r[j].act = q[j + 1].act
    <3>1. i \in DOMAIN log[n] /\ Fenced(n, j + 2, i)
      <4>1. j + 1 + 1 = j + 2
        BY <1>1, <2>2 DEF Queued
      <4> QED
        BY <1>6, <1>9, <2>2, <4>1
    <3>2. j + 1 \in Nat /\ j + 2 \in Nat /\ j + 2 <= (j + 1) + 1
      BY <1>1, <2>2 DEF Queued
    <3> QED
      BY <1>4, <3>1, <3>2
  <2>3. CASE j = Len(q)
    <3>1. \A l \in Queued(n)' : ~(l >= j + 1)
      BY <1>1, <2>3 DEF Queued, Confirms
    <3> QED
      BY <3>1 DEF Fenced
  <2> QED
    BY <1>2, <2>1, <2>2, <2>3
<1> QED
  BY <1>8, <1>9 DEF Fences

LEMMA RebootsKeepClaims ==
    ASSUME TypeOK, TypeOK', NEW n \in Server, Reboots(n)
    PROVE  Claimed(n)' /\ Waiting(n)' /\ InFlight(n)' /\ Fences(n)'
<1>1. Queued(n)' = {} /\ \A i : ~IsParked(n, i)'
  BY DEF Reboots, Queued, IsParked
<1>2. ASSUME NEW i \in Index, i <= durableIndex'[n]
      PROVE  i \in DOMAIN log'[n]
  BY <1>2, QueueTypes DEF Index, Reboots
<1>3. \A i \in DOMAIN log'[n] : Written(n, i)'
  BY <1>1, AgreeSelf DEF Written, Pending, Reboots
<1> QED
  BY <1>1, <1>2, <1>3 DEF Claimed, Waiting, InFlight, Fences, Fenced, Reboots

LEMMA ClaimsAreKept ==
    ASSUME TypeOK, TypeOK', VoteInv, ClaimInv, NEW n \in Server, ClaimStep(n)
    PROVE  ClaimInv'
<1>1. Claimed(n)' /\ Waiting(n)' /\ InFlight(n)' /\ Fences(n)'
  <2>1. Chain(n) /\ Claimed(n) /\ Waiting(n) /\ InFlight(n) /\ Fences(n)
    BY DEF VoteInv, ClaimInv
  <2> QED
    BY <2>1, RewritesKeepClaims, ConfirmsKeepClaims, RebootsKeepClaims,
       RewritesKeepFences, ConfirmsKeepFences DEF ClaimStep
<1>2. ASSUME NEW p \in Server \ {n}
      PROVE  Claimed(p)' /\ Waiting(p)' /\ InFlight(p)' /\ Fences(p)'
  <2>1. /\ log'[p] = log[p] /\ durableIndex'[p] = durableIndex[p] /\ parked'[p] = parked[p]
        /\ durableTerm'[p] = durableTerm[p] /\ disk'[p] = disk[p] /\ batches'[p] = batches[p]
    BY DEF ClaimStep, LogsAlone
  <2>2. Claimed(p) /\ Waiting(p) /\ InFlight(p) /\ Fences(p)
    BY DEF ClaimInv
  <2>3. /\ Queued(p)' = Queued(p)
        /\ \A i : IsParked(p, i)' = IsParked(p, i)
    BY <2>1 DEF Queued, IsParked
  <2>4. \A f, i : Pending(p, f, i)' = Pending(p, f, i)
    BY <2>1, <2>3 DEF Pending
  <2>6. \A f, i : Fenced(p, f, i)' = Fenced(p, f, i)
    BY <2>1, <2>3 DEF Fenced
  <2>5. \A i : Written(p, i)' = Written(p, i)
    BY <2>1, <2>4 DEF Written
  <2> QED
    BY <2>1, <2>2, <2>3, <2>4, <2>5, <2>6 DEF Claimed, Waiting, InFlight, Fences
<1> QED
  BY <1>1, <1>2 DEF ClaimInv

-----------------------------------------------------------------------------
(* The scans. *)

(* What the claim advances over is parked, and of a durable term.          *)
LEMMA AdvanceDurableCovers ==
    ASSUME NEW at \in Nat, NEW ranges, NEW cap \in Nat,
           NEW i \in Index, i <= AdvanceDurable(at, ranges, cap)
    PROVE  i <= at \/ (i <= cap /\ \E r \in ranges : r.from <= i /\ i <= r.to)
<1> DEFINE S == {at} \cup {d \in (at + 1)..cap :
              \A j \in (at + 1)..d : \E r \in ranges : r.from <= j /\ j <= r.to}
<1>1. /\ S \in SUBSET Nat /\ S # {} /\ at \in S /\ \A j \in S : j <= at + cap
      /\ at + cap \in Nat
  OBVIOUS
<1>2. Max(S) \in S
  <2> HIDE DEF S
  <2> QED
    BY <1>1, MaxNat
<1>3. i <= Max(S) /\ i \in Nat
  BY DEF AdvanceDurable, Index
<1>4. CASE Max(S) = at
  <2> HIDE DEF S
  <2> QED
    BY <1>3, <1>4
<1>5. CASE Max(S) # at
  <2>1. /\ Max(S) \in (at + 1)..cap
        /\ \A j \in (at + 1)..Max(S) : \E r \in ranges : r.from <= j /\ j <= r.to
    BY <1>2, <1>5
  <2> HIDE DEF S
  <2>2. i <= at \/ (i \in (at + 1)..Max(S) /\ i <= cap)
    BY <1>3, <2>1
  <2> QED
    BY <2>1, <2>2
<1> QED
  BY <1>4, <1>5

(* No entry that the scan of `last_index_with_term_at_most` passes over is *)
(* of a later term.                                                        *)
LEMMA LastIndexBounds ==
    ASSUME NEW lg \in Seq(Entry), NEW t \in Nat,
           NEW x \in Index, x <= LastIndexWithTermAtMost(lg, t)
    PROVE  x \in DOMAIN lg /\ lg[x].term <= t
<1> DEFINE S == {0} \cup {i \in DOMAIN lg : \A j \in 1..i : lg[j].term <= t}
<1>1. S \in SUBSET Nat /\ S # {} /\ \A i \in S : i <= Len(lg)
  OBVIOUS
<1>2. Len(lg) \in Nat
  OBVIOUS
<1>3. Max(S) \in S
  <2> HIDE DEF S
  <2> QED
    BY <1>1, <1>2, MaxNat
<1>4. LastIndexWithTermAtMost(lg, t) = Max(S)
  BY DEF LastIndexWithTermAtMost
<1>5. ASSUME Max(S) = 0 PROVE FALSE
  <2> HIDE DEF S
  <2> QED
    BY <1>4, <1>5 DEF Index
<1>6. Max(S) \in DOMAIN lg /\ \A j \in 1..Max(S) : lg[j].term <= t
  BY <1>3, <1>5
<1> HIDE DEF S
<1>7. x \in 1..Max(S) /\ x \in DOMAIN lg
  BY <1>2, <1>4, <1>6 DEF Index
<1> QED
  BY <1>6, <1>7

LEMMA TermOfLog ==
    ASSUME NEW lg \in Seq(Entry), NEW e \in Entry
    PROVE  /\ Append(lg, e) \in Seq(Entry) /\ Len(Append(lg, e)) = Len(lg) + 1
           /\ \A i \in DOMAIN lg : i \in DOMAIN Append(lg, e) /\ Append(lg, e)[i] = lg[i]
           /\ Len(lg) + 1 \in DOMAIN Append(lg, e)
           /\ Append(lg, e)[Len(lg) + 1] = e
           /\ DOMAIN lg = 1..Len(lg) /\ Len(lg) \in Nat
OBVIOUS

-----------------------------------------------------------------------------
(* The steps. *)

LEMMA StillClaims ==
    ASSUME TypeOK, NEW n \in Server,
           UNCHANGED <<log, durableIndex, parked, durableTerm, disk, batches>>
    PROVE  ClaimStep(n)
<1>1. Queued(n)' = Queued(n) /\ Len(batches[n]) \in Nat
  BY HardTypes DEF Queued, HardTyped
<1>2. \A j \in Queued(n)' : ~(j > Len(batches[n]))
  BY <1>1 DEF Queued
<1>3. \A i : IsParked(n, i)' = IsParked(n, i)
  BY DEF IsParked
<1>4. Rewrites(n)
  BY <1>1, <1>2, <1>3 DEF Rewrites, Survives, Kept
<1> QED
  BY <1>4 DEF ClaimStep, LogsAlone

(* A new batch at the end of a queue whose ranges were clamped or kept.    *)
LEMMA IssueClaims ==
    ASSUME TypeOK, TypeOK', NEW n \in Server, NEW queue \in Seq(Batch), NEW act,
           NEW wh, NEW from, Issue(n, queue, act, wh, from),
           UNCHANGED <<durableTerm, disk>>, Len(queue) = Len(batches[n]),
           \A j \in Queued(n) : /\ queue[j].log = batches[n][j].log
                                /\ queue[j].synced = batches[n][j].synced
                                /\ queue[j].from = batches[n][j].from,
           \A p \in Server \ {n} : /\ log'[p] = log[p] /\ parked'[p] = parked[p]
                                   /\ durableIndex'[p] = durableIndex[p],
           \A i \in Index :
              /\ i <= durableIndex'[n] => i <= durableIndex[n] /\ Spared(n, from, i)
              /\ IsParked(n, i)' => IsParked(n, i) /\ Spared(n, from, i)
              /\ \A j \in Queued(n) : Covers(queue[j].act, i)
                   => Covers(batches[n][j].act, i) /\ Spared(n, from, i)
              /\ Covers(act, i) => i \in DOMAIN log'[n]
    PROVE  ClaimStep(n)
<1> DEFINE b == NewBatch(n, act, wh, from)
<1>1. batches'[n] = Append(queue, b) /\ \A p \in Server \ {n} : batches'[p] = batches[p]
  BY DEF Issue, TypeOK
<1>2. b.log = log'[n] /\ b.synced = FALSE /\ b.act = act /\ b.from = from
  BY DEF NewBatch
<1> HIDE DEF b
<1>3. /\ Len(batches'[n]) = Len(batches[n]) + 1 /\ Len(batches[n]) \in Nat
      /\ batches'[n][Len(batches[n]) + 1] = b
      /\ \A j \in Queued(n) : batches'[n][j] = queue[j]
  <2>1. Len(batches[n]) \in Nat
    BY HardTypes DEF HardTyped
  <2>2. Len(Append(queue, b)) = Len(queue) + 1 /\ Append(queue, b)[Len(queue) + 1] = b
        /\ \A j \in 1..Len(queue) : Append(queue, b)[j] = queue[j]
    OBVIOUS
  <2> QED
    BY <1>1, <2>1, <2>2 DEF Queued
<1>4. \A j \in Queued(n)' : j > Len(batches[n]) => IsImage(n, batches'[n][j])
  <2>1. IsImage(n, b)
    BY <1>2 DEF IsImage
  <2>2. \A j \in Queued(n)' : j > Len(batches[n]) => j = Len(batches[n]) + 1
    BY <1>3 DEF Queued
  <2> QED
    BY <1>3, <2>1, <2>2
<1>7. \A i : Spared(n, from, i) => Survives(n, i)
  <2>1. \A j \in Queued(n)' : j > Len(batches[n]) => j = Len(batches[n]) + 1
    BY <1>3 DEF Queued
  <2> QED
    BY <1>2, <1>3, <2>1 DEF Survives, Spared
<1>5. Rewrites(n)
  BY <1>3, <1>4, <1>7 DEF Rewrites
<1>6. LogsAlone(n)
  BY <1>1 DEF LogsAlone
<1> QED
  BY <1>5, <1>6 DEF ClaimStep

(* A new batch while every entry of the log is kept. *)
LEMMA ExtendClaims ==
    ASSUME TypeOK, TypeOK', NEW n \in Server, NEW act, NEW wh, NEW from,
           Issue(n, batches[n], act, wh, from),
           UNCHANGED <<durableTerm, durableIndex, parked, disk>>,
           \A p \in Server \ {n} : log'[p] = log[p],
           \A i \in Index : Spared(n, from, i) /\ (Covers(act, i) => i \in DOMAIN log'[n])
    PROVE  ClaimStep(n)
<1>1. batches[n] \in Seq(Batch)
  BY DEF TypeOK
<1>2. \A i : IsParked(n, i)' = IsParked(n, i)
  BY DEF IsParked
<1> QED
  BY <1>1, <1>2, IssueClaims

(* A new batch that writes no entry. *)
LEMMA HardClaims ==
    ASSUME TypeOK, TypeOK', NEW n \in Server, NEW act, NEW wh,
           Issue(n, batches[n], act, wh, Len(log[n]) + 1), \A i \in Index : ~Covers(act, i),
           UNCHANGED <<log, durableTerm, durableIndex, parked, disk>>
    PROVE  ClaimStep(n)
<1>2. log[n] \in Seq(Entry)
  BY DEF TypeOK
<1>1. \A i \in Index : Spared(n, Len(log[n]) + 1, i)
  BY <1>2 DEF Kept, Spared
<1> QED
  BY <1>1, ExtendClaims

LEMMA CoversNothing ==
    ASSUME NEW act, act.kind # "LogDurable"
    PROVE  \A i \in Index : ~Covers(act, i)
BY DEF Covers

LEMMA ActKinds ==
    ASSUME NEW t, NEW m
    PROVE  /\ Campaign(t).kind = "Campaign" /\ Campaign(t).term = t
           /\ Reply(m).kind = "Reply" /\ Reply(m).msg = m
           /\ Quiet.kind = "Quiet"
BY DEF Campaign, Reply, Quiet

LEMMA ClaimFields ==
    ASSUME NEW a, NEW b, NEW c, NEW d, NEW e
    PROVE  LET act == LogDurable(a, b, c, d, e)
           IN /\ act.kind = "LogDurable" /\ act.from = a /\ act.index = b
              /\ act.verified = c /\ act.replyTo = d /\ act.replyTerm = e
BY DEF LogDurable

LEMMA BecomeCandidateClaims ==
    ASSUME TypeOK, TypeOK', NEW n \in Server, BecomeCandidate(n)
    PROVE  ClaimStep(n)
<1>1. /\ UNCHANGED <<log, durableTerm, durableIndex, parked, disk>>
      /\ Issue(n, batches[n], Campaign(term'[n]), TRUE, Len(log[n]) + 1)
  BY DEF BecomeCandidate, durableVars, logVars
<1>2. Campaign(term'[n]).kind # "LogDurable"
  BY ActKinds
<1> QED
  BY <1>1, <1>2, CoversNothing, HardClaims

LEMMA ElectionTimeoutClaims ==
    ASSUME TypeOK, TypeOK', NEW n \in Server, ElectionTimeout(n)
    PROVE  ClaimStep(n)
<1>1. CASE StartPreVote(n)
  BY <1>1, StillClaims DEF StartPreVote, durableVars, logVars
<1>2. CASE BecomeCandidate(n)
  BY <1>2, BecomeCandidateClaims
<1> QED
  BY <1>1, <1>2 DEF ElectionTimeout

LEMMA HandlePreVoteRespClaims ==
    ASSUME TypeOK, TypeOK', NEW n \in Server, NEW m \in msgs, HandlePreVoteResp(n, m)
    PROVE  ClaimStep(n)
<1>1. CASE BecomeCandidate(n)
  BY <1>1, BecomeCandidateClaims
<1>2. CASE UNCHANGED <<logVars, durableVars, batches, disk>>
  BY <1>2, StillClaims DEF durableVars, logVars
<1> QED
  BY <1>1, <1>2 DEF HandlePreVoteResp

LEMMA HandleNewerTermRespClaims ==
    ASSUME TypeOK, TypeOK', NEW n \in Server, NEW m \in msgs, HandleNewerTermResp(n, m)
    PROVE  ClaimStep(n)
<1>1. /\ UNCHANGED <<log, durableTerm, durableIndex, parked, disk>>
      /\ Issue(n, batches[n], Quiet, TRUE, Len(log[n]) + 1)
  BY DEF HandleNewerTermResp, durableVars, logVars
<1>2. Quiet.kind # "LogDurable"
  BY ActKinds
<1> QED
  BY <1>1, <1>2, CoversNothing, HardClaims

LEMMA HandleVoteRequestClaims ==
    ASSUME TypeOK, TypeOK', NEW n \in Server, NEW m \in msgs, HandleVoteRequest(n, m)
    PROVE  ClaimStep(n)
<1> DEFINE act == Reply(VoteResp(n, m.from, m.term, GrantsVote(n, m)))
<1>1. /\ UNCHANGED <<log, durableTerm, durableIndex, parked, disk>>
      /\ Issue(n, batches[n], act, TRUE, Len(log[n]) + 1)
  BY DEF HandleVoteRequest, durableVars, logVars
<1>2. act.kind # "LogDurable"
  BY ActKinds
<1> HIDE DEF act
<1> QED
  BY <1>1, <1>2, CoversNothing, HardClaims

(* A leader adds one entry. *)
LEMMA LeaderExtends ==
    ASSUME TypeOK, NEW n \in Server, NEW e \in Entry, log' = [log EXCEPT ![n] = Append(@, e)]
    PROVE  /\ log[n] \in Seq(Entry) /\ log'[n] = Append(log[n], e)
           /\ \A p \in Server \ {n} : log'[p] = log[p]
           /\ \A i \in Index : Kept(n, i) /\ Spared(n, Len(log[n]) + 1, i)
           /\ \A i \in Index :
                Covers(LogDurable(Len(log[n]) + 1, Len(log[n]) + 1, 0, None, 0), i)
                  => i \in DOMAIN log'[n]
<1>1. /\ log[n] \in Seq(Entry) /\ log'[n] = Append(log[n], e)
      /\ \A p \in Server \ {n} : log'[p] = log[p]
  BY DEF TypeOK
<1>2. \A i \in Index : Kept(n, i)
  BY <1>1, TermOfLog DEF Kept
<1>4. \A i \in Index : Spared(n, Len(log[n]) + 1, i)
  BY <1>1, <1>2, TermOfLog DEF Spared
<1>3. ASSUME NEW i \in Index,
             Covers(LogDurable(Len(log[n]) + 1, Len(log[n]) + 1, 0, None, 0), i)
      PROVE  i \in DOMAIN log'[n]
  <2>1. Len(log[n]) + 1 <= i /\ i <= Len(log[n]) + 1
    BY <1>3, ClaimFields DEF Covers
  <2>2. i = Len(log[n]) + 1
    BY <1>1, <2>1, TermOfLog DEF Index
  <2> QED
    BY <1>1, <2>2, TermOfLog
<1> QED
  BY <1>1, <1>2, <1>3, <1>4

LEMMA ProposeClaims ==
    ASSUME TypeOK, TypeOK', NEW n \in Server, NEW c \in Cmd, Propose(n, c)
    PROVE  ClaimStep(n)
<1> DEFINE e == [term |-> term[n], cmd |-> c]
           act == LogDurable(Len(log[n]) + 1, Len(log[n]) + 1, 0, None, 0)
<1>1. /\ log' = [log EXCEPT ![n] = Append(@, e)]
      /\ UNCHANGED <<durableTerm, durableIndex, parked, disk>>
      /\ Issue(n, batches[n], act, FALSE, Len(log[n]) + 1)
  BY DEF Propose, durableVars
<1>2. e \in Entry
  BY DEF TypeOK, Entry
<1> HIDE DEF e
<1>3. /\ \A p \in Server \ {n} : log'[p] = log[p]
      /\ \A i \in Index : /\ Spared(n, Len(log[n]) + 1, i)
                          /\ Covers(act, i) => i \in DOMAIN log'[n]
  BY <1>1, <1>2, LeaderExtends
<1> HIDE DEF act
<1> QED
  BY <1>1, <1>3, ExtendClaims

LEMMA NoopIsEntry ==
    ASSUME TypeOK, NEW n \in Server
    PROVE  [term |-> term[n], cmd |-> Noop] \in Entry
BY DEF TypeOK, Entry

LEMMA HandleVoteRespClaims ==
    ASSUME TypeOK, TypeOK', NEW n \in Server, NEW m \in msgs, HandleVoteResp(n, m)
    PROVE  ClaimStep(n)
<1> DEFINE e == [term |-> term[n], cmd |-> Noop]
           act == LogDurable(Len(log[n]) + 1, Len(log[n]) + 1, 0, None, 0)
<1>1. CASE BecomeLeader(n, batches[n])
  <2>1. /\ log' = [log EXCEPT ![n] = Append(@, e)]
        /\ UNCHANGED <<durableTerm, durableIndex, parked, disk>>
        /\ Issue(n, batches[n], act, FALSE, Len(log[n]) + 1)
    BY <1>1 DEF HandleVoteResp, BecomeLeader, durableVars
  <2>2. e \in Entry
    BY NoopIsEntry
  <2> HIDE DEF e
  <2>3. /\ \A p \in Server \ {n} : log'[p] = log[p]
        /\ \A i \in Index : /\ Spared(n, Len(log[n]) + 1, i)
                            /\ Covers(act, i) => i \in DOMAIN log'[n]
    BY <2>1, <2>2, LeaderExtends
  <2> HIDE DEF act
  <2> QED
    BY <2>1, <2>3, ExtendClaims
<1>2. CASE UNCHANGED <<log, batches>>
  BY <1>2, StillClaims DEF HandleVoteResp, durableVars
<1> QED
  BY <1>1, <1>2 DEF HandleVoteResp

LEMMA QuietClaims ==
    ASSUME TypeOK, NEW n \in Server,
           \/ Heartbeat(n)
           \/ \E m \in msgs : \/ RefuseStale(n, m) \/ RepeatVoteAnswer(n, m)
                              \/ HandlePreVote(n, m) \/ HandleAppendAck(n, m)
                              \/ HandleAppendNack(n, m)
    PROVE  ClaimStep(n)
<1>1. UNCHANGED <<log, durableIndex, parked, durableTerm, disk, batches>>
  BY DEF Heartbeat, RefuseStale, RepeatVoteAnswer, HandlePreVote, HandleAppendAck,
         HandleAppendNack, durableVars, logVars
<1> QED
  BY <1>1, StillClaims

(* Recovery keeps a prefix of a log, whose terms the hard state covers.    *)
LEMMA RecoveredTerms ==
    ASSUME NEW image \in Image
    PROVE  /\ Recovered(image) \in Image /\ Recovered(image).hard = image.hard
           /\ \A i \in DOMAIN Recovered(image).log :
                /\ i \in DOMAIN image.log /\ Recovered(image).log[i] = image.log[i]
                /\ Recovered(image).log[i].term <= image.hard.term
<1> DEFINE lg == image.log
           last == LastIndexWithTermAtMost(lg, image.hard.term)
<1>1. lg \in Seq(Entry) /\ image.hard.term \in Nat
  BY DEF Image, HardState
<1>2. last \in 0..Len(lg)
  BY <1>1, LastIndexType
<1>3. /\ Recovered(image) \in Image /\ Recovered(image).hard = image.hard
      /\ Recovered(image).log = SubSeq(lg, 1, last)
  <2>1. Recovered(image) = [image EXCEPT !.log = SubSeq(lg, 1, last)]
    BY DEF Recovered
  <2>2. Recovered(image) \in Image
    BY RecoveredType
  <2> HIDE DEF last, lg
  <2> QED
    BY <2>1, <2>2 DEF Image
<1>4. \A i \in 1..last : i \in Index /\ i <= last
  <2> HIDE DEF last
  <2> QED
    BY <1>1, <1>2 DEF Index
<1>5. \A i \in 1..last : lg[i].term <= image.hard.term
  BY <1>1, <1>4, LastIndexBounds
<1> HIDE DEF last
<1>6. DOMAIN SubSeq(lg, 1, last) = 1..last
      /\ \A i \in 1..last : SubSeq(lg, 1, last)[i] = lg[i] /\ i \in DOMAIN lg
  BY <1>1, <1>2
<1> QED
  BY <1>3, <1>5, <1>6

LEMMA RestartClaims ==
    ASSUME TypeOK, TypeOK', NEW n \in Server, Restart(n)
    PROVE  ClaimStep(n)
<1>1. PICK image \in Remains(n) :
        /\ disk' = [disk EXCEPT ![n] = Recovered(image)]
        /\ log' = [log EXCEPT ![n] = Recovered(image).log]
        /\ durableIndex' = [durableIndex EXCEPT ![n] = Len(Recovered(image).log)]
        /\ durableTerm' = [durableTerm EXCEPT ![n] = Recovered(image).hard.term]
  BY DEF Restart
<1>2. /\ parked' = [parked EXCEPT ![n] = {}] /\ batches' = [batches EXCEPT ![n] = <<>>]
  BY DEF Restart
<1>3. image \in Image
  BY RemainsType
<1> DEFINE kept == Recovered(image)
<1>4. kept \in Image /\ \A i \in DOMAIN kept.log : kept.log[i].term <= kept.hard.term
  BY <1>3, RecoveredTerms
<1> HIDE DEF kept
<1>5. /\ disk \in [Server -> Image] /\ log \in [Server -> Seq(Entry)]
      /\ durableIndex \in [Server -> Nat] /\ durableTerm \in [Server -> Nat]
      /\ parked \in [Server -> SUBSET [from : Nat, to : Nat]]
      /\ batches \in [Server -> Seq(Batch)]
  BY DEF TypeOK
<1>6. /\ disk'[n] = kept /\ log'[n] = kept.log /\ durableIndex'[n] = Len(kept.log)
      /\ durableTerm'[n] = kept.hard.term /\ parked'[n] = {} /\ batches'[n] = <<>>
  BY <1>1, <1>2, <1>5 DEF kept
<1>7. Len(kept.log) <= Len(kept.log)
  BY <1>4 DEF Image
<1>8. Reboots(n)
  BY <1>4, <1>6, <1>7 DEF Reboots
<1>9. LogsAlone(n)
  BY <1>1, <1>2, <1>5 DEF LogsAlone
<1> QED
  BY <1>8, <1>9 DEF ClaimStep

-----------------------------------------------------------------------------
(* Followers. *)

LEMMA AnswerAfterTermClaims ==
    ASSUME TypeOK, TypeOK', NEW n \in Server, NEW m, NEW act, NEW answer,
           AnswerAfterTerm(n, m, act, answer), \A i \in Index : ~Covers(act, i),
           UNCHANGED <<log, durableTerm, durableIndex, parked, disk>>
    PROVE  ClaimStep(n)
<1>1. CASE Issue(n, batches[n], act, TRUE, Len(log[n]) + 1)
  BY <1>1, HardClaims
<1>2. CASE UNCHANGED batches
  BY <1>2, StillClaims
<1> QED
  BY <1>1, <1>2 DEF AnswerAfterTerm

LEMMA RejectAppendClaims ==
    ASSUME TypeOK, TypeOK', NEW n \in Server, NEW m \in msgs, RejectAppend(n, m)
    PROVE  ClaimStep(n)
<1> DEFINE answer == AppendResp(n, m.from, m.term, FALSE, durableIndex[n],
                                ConflictHint(log[n], m.prev))
<1>1. /\ UNCHANGED <<log, durableTerm, durableIndex, parked, disk>>
      /\ AnswerAfterTerm(n, m, Reply(answer), answer)
  BY DEF RejectAppend, FollowLeader, durableVars, logVars
<1> HIDE DEF answer
<1>2. Reply(answer).kind # "LogDurable"
  BY ActKinds
<1> QED
  BY <1>1, <1>2, CoversNothing, AnswerAfterTermClaims

LEMMA ConfirmAppendClaims ==
    ASSUME TypeOK, TypeOK', NEW n \in Server, NEW m \in msgs, ConfirmAppend(n, m)
    PROVE  ClaimStep(n)
<1> DEFINE last == m.prev + Len(m.entries)
           act == LogDurable(durableIndex[n] + 1, durableIndex[n], last, m.from, m.term)
           answer == AppendResp(n, m.from, m.term, TRUE, MinOf(durableIndex[n], last), NO_INDEX)
<1>1. /\ UNCHANGED <<log, durableTerm, durableIndex, parked, disk>>
      /\ AnswerAfterTerm(n, m, act, answer)
  BY DEF ConfirmAppend, FollowLeader, durableVars
<1>2. durableIndex[n] \in Nat
  BY DEF TypeOK
<1>3. act.from = durableIndex[n] + 1 /\ act.index = durableIndex[n]
  BY ClaimFields
<1> HIDE DEF act, answer
<1>4. \A i \in Index : ~Covers(act, i)
  BY <1>2, <1>3 DEF Covers, Index
<1> QED
  BY <1>1, <1>4, AnswerAfterTermClaims

LEMMA Concatenation ==
    ASSUME NEW a \in Seq(Entry), NEW b \in Seq(Entry)
    PROVE  /\ a \o b \in Seq(Entry) /\ Len(a \o b) = Len(a) + Len(b)
           /\ \A i \in 1..Len(a) : (a \o b)[i] = a[i]
           /\ \A i \in 1..Len(b) : (a \o b)[Len(a) + i] = b[i]
<1>1. a \o b \in Seq(Entry) /\ Len(a \o b) = Len(a) + Len(b)
  OBVIOUS
<1>2. \A i \in 1..Len(a) : (a \o b)[i] = a[i]
  OBVIOUS
<1>3. ASSUME NEW i \in 1..Len(b) PROVE (a \o b)[Len(a) + i] = b[i]
  <2>1. Len(a) \in Nat /\ Len(b) \in Nat /\ Len(a) + i \in 1..(Len(a) + Len(b))
        /\ ~(Len(a) + i <= Len(a)) /\ (Len(a) + i) - Len(a) = i
    OBVIOUS
  <2> QED
    BY <2>1
<1> QED
  BY <1>1, <1>2, <1>3

LEMMA Suffix ==
    ASSUME NEW es \in Seq(Entry), NEW s \in 1..Len(es)
    PROVE  /\ SubSeq(es, s, Len(es)) \in Seq(Entry)
           /\ Len(SubSeq(es, s, Len(es))) = Len(es) - s + 1
           /\ \A i \in 1..(Len(es) - s + 1) : SubSeq(es, s, Len(es))[i] = es[s + i - 1]
OBVIOUS

(* The log that an append leaves: the old one below start, the append from *)
(* start on, and nothing after it.                                         *)
IsReplaced(lg, es, prev, start, new) ==
    new = TruncateFrom(lg, start) \o SubSeq(es, start - prev, Len(es))

LEMMA ReplacedLog ==
    ASSUME NEW lg \in Seq(Entry), NEW es \in Seq(Entry), NEW prev \in Nat,
           NEW start \in (prev + 1)..(prev + Len(es)), start - 1 <= Len(lg),
           NEW new, IsReplaced(lg, es, prev, start, new)
    PROVE  /\ DOMAIN new = 1..(prev + Len(es)) /\ Len(new) = prev + Len(es)
           /\ \A i \in 1..(start - 1) : i \in DOMAIN lg /\ new[i] = lg[i]
           /\ \A i \in start..(prev + Len(es)) :
                i - prev \in DOMAIN es /\ new[i] = es[i - prev]
<1> DEFINE a == TruncateFrom(lg, start)
           b == SubSeq(es, start - prev, Len(es))
<1>1. /\ start \in Nat /\ start - 1 \in Nat /\ Len(es) \in Nat /\ Len(lg) \in Nat
      /\ start - prev \in 1..Len(es)
  OBVIOUS
<1>2. a \in Seq(Entry) /\ Len(a) = start - 1 /\ \A i \in 1..(start - 1) : a[i] = lg[i]
  BY <1>1 DEF TruncateFrom
<1>3. /\ b \in Seq(Entry) /\ Len(b) = Len(es) - (start - prev) + 1
      /\ \A i \in 1..Len(b) : b[i] = es[start - prev + i - 1]
  <2> DEFINE s == start - prev
  <2>1. s \in 1..Len(es)
    BY <1>1
  <2> HIDE DEF s
  <2>2. /\ SubSeq(es, s, Len(es)) \in Seq(Entry)
        /\ Len(SubSeq(es, s, Len(es))) = Len(es) - s + 1
        /\ \A i \in 1..(Len(es) - s + 1) : SubSeq(es, s, Len(es))[i] = es[s + i - 1]
    BY <2>1, Suffix
  <2>3. b = SubSeq(es, s, Len(es))
    BY DEF s
  <2> HIDE DEF b
  <2>4. /\ b \in Seq(Entry) /\ Len(b) = Len(es) - s + 1
        /\ \A i \in 1..Len(b) : b[i] = es[s + i - 1]
    BY <2>2, <2>3
  <2> QED
    BY <2>4 DEF s
<1> HIDE DEF a, b
<1>4. /\ new \in Seq(Entry) /\ Len(new) = Len(a) + Len(b)
      /\ \A i \in 1..Len(a) : new[i] = a[i]
      /\ \A i \in 1..Len(b) : new[Len(a) + i] = b[i]
  <2>1. new = a \o b
    BY DEF IsReplaced, a, b
  <2> QED
    BY <1>2, <1>3, <2>1, Concatenation
<1>5. Len(new) = prev + Len(es) /\ DOMAIN new = 1..(prev + Len(es))
  BY <1>1, <1>2, <1>3, <1>4
<1>6. \A i \in 1..(start - 1) : i \in DOMAIN lg /\ new[i] = lg[i]
  BY <1>1, <1>2, <1>4, SMTT(30)
<1>7. ASSUME NEW i \in start..(prev + Len(es))
      PROVE  i - prev \in DOMAIN es /\ new[i] = es[i - prev]
  <2>1. i - (start - 1) \in 1..Len(b) /\ i - prev \in DOMAIN es
    BY <1>1, <1>3
  <2>2. new[Len(a) + (i - (start - 1))] = b[i - (start - 1)]
    BY <1>4, <2>1
  <2>3. b[i - (start - 1)] = es[start - prev + (i - (start - 1)) - 1]
    BY <1>3, <2>1
  <2>4. Len(a) = start - 1 /\ start \in Int /\ prev \in Int /\ i \in Int
    BY <1>1, <1>2
  <2>5. Len(a) + (i - (start - 1)) = i /\ start - prev + (i - (start - 1)) - 1 = i - prev
    BY <2>4
  <2> QED
    BY <2>1, <2>2, <2>3, <2>5
<1> QED
  BY <1>5, <1>6, <1>7

(* What AcceptAppend does to the log of n. *)
LEMMA AcceptedLog ==
    ASSUME TypeOK, NEW n \in Server, NEW m \in msgs, AcceptAppend(n, m)
    PROVE  LET start == FirstNew(log[n], m.prev, m.entries)
               last == m.prev + Len(m.entries)
           IN /\ m \in AppendMsgs /\ m.prev \in Nat /\ m.entries \in Seq(Entry)
              /\ m.prevTerm \in Nat /\ log[n] \in Seq(Entry) /\ last \in Nat
              /\ start \in (m.prev + 1)..last /\ start - 1 \in Nat /\ start - 1 <= Len(log[n])
              /\ DOMAIN log'[n] = 1..last /\ Len(log'[n]) = last
              /\ \A i \in 1..(start - 1) : i \in DOMAIN log[n] /\ log'[n][i] = log[n][i]
              /\ \A i \in start..last :
                   i - m.prev \in DOMAIN m.entries /\ log'[n][i] = m.entries[i - m.prev]
              /\ \A p \in Server \ {n} : log'[p] = log[p]
<1> DEFINE start == FirstNew(log[n], m.prev, m.entries)
           last == m.prev + Len(m.entries)
<1>1. /\ FollowLeader(n, m) /\ Matches(log[n], m.prev, m.prevTerm) /\ start <= last
      /\ log' = [log EXCEPT ![n] = TruncateFrom(@, start)
                    \o SubSeq(m.entries, start - m.prev, Len(m.entries))]
  BY DEF AcceptAppend, ReplaceFrom
<1>2. m \in AppendMsgs /\ log[n] \in Seq(Entry) /\ log \in [Server -> Seq(Entry)]
  BY <1>1, FollowLeaderTypes DEF TypeOK
<1>3. m.prev \in Nat /\ m.entries \in Seq(Entry) /\ m.prevTerm \in Nat
  BY <1>2 DEF AppendMsgs
<1>4. start \in (m.prev + 1)..(m.prev + Len(m.entries) + 1) /\ start - 1 <= Len(log[n])
  BY <1>1, <1>2, <1>3, FirstNewType, StartIsInReach
<1> HIDE DEF start
<1>5. /\ log'[n] = TruncateFrom(log[n], start)
                      \o SubSeq(m.entries, start - m.prev, Len(m.entries))
      /\ \A p \in Server \ {n} : log'[p] = log[p]
  BY <1>1, <1>2
<1> DEFINE es == m.entries
           prev == m.prev
<1> HIDE DEF es, prev
<1>6. start \in (prev + 1)..(prev + Len(es)) /\ start - 1 \in Nat /\ prev + Len(es) \in Nat
  <2>1. /\ start \in (prev + 1)..(prev + Len(es) + 1) /\ start <= prev + Len(es)
        /\ prev \in Nat /\ Len(es) \in Nat
    BY <1>1, <1>3, <1>4 DEF es, prev
  <2> QED
    BY <2>1
<1>7. /\ DOMAIN log'[n] = 1..(prev + Len(es)) /\ Len(log'[n]) = prev + Len(es)
      /\ \A i \in 1..(start - 1) : i \in DOMAIN log[n] /\ log'[n][i] = log[n][i]
      /\ \A i \in start..(prev + Len(es)) :
           i - prev \in DOMAIN es /\ log'[n][i] = es[i - prev]
  <2>1. /\ log'[n] = TruncateFrom(log[n], start) \o SubSeq(es, start - prev, Len(es))
        /\ es \in Seq(Entry) /\ prev \in Nat
    BY <1>3, <1>5 DEF es, prev
  <2> QED
    <3> DEFINE lg == log[n]
               new == log'[n]
    <3>1. lg \in Seq(Entry) /\ start - 1 <= Len(lg) /\ IsReplaced(lg, es, prev, start, new)
      BY <1>2, <1>4, <2>1 DEF IsReplaced
    <3> HIDE DEF lg, new
    <3>2. /\ DOMAIN new = 1..(prev + Len(es)) /\ Len(new) = prev + Len(es)
          /\ \A i \in 1..(start - 1) : i \in DOMAIN lg /\ new[i] = lg[i]
          /\ \A i \in start..(prev + Len(es)) :
               i - prev \in DOMAIN es /\ new[i] = es[i - prev]
      BY <1>6, <2>1, <3>1, ReplacedLog
    <3> QED
      BY <3>2 DEF lg, new
<1> QED
  BY <1>2, <1>3, <1>4, <1>5, <1>6, <1>7 DEF start, es, prev

(* A clamped range reaches no further than it did, and not above the cap.  *)
LEMMA ClampCovers ==
    ASSUME NEW b \in Batch, NEW cap \in Nat, NEW i \in Index, Covers(Clamp(b, cap).act, i)
    PROVE  Covers(b.act, i) /\ i <= cap
<1>1. CASE b.act.kind = "LogDurable"
  <2>1. Clamp(b, cap) = [b EXCEPT !.act = [b.act EXCEPT !.index = MinOf(b.act.index, cap)]]
    BY <1>1 DEF Clamp
  <2>2. b.act \in [kind : {"LogDurable"}, from : Nat, index : Nat, verified : Nat,
                   replyTo : Server \cup {None}, replyTerm : Nat]
    BY <1>1, ActTypes DEF Batch
  <2> DEFINE a == [b.act EXCEPT !.index = MinOf(b.act.index, cap)]
  <2>3. a.from = b.act.from /\ a.index = MinOf(b.act.index, cap)
        /\ b.act.from \in Nat /\ b.act.index \in Nat
    BY <2>2
  <2>4. Clamp(b, cap).act = a
    BY <2>1 DEF Batch
  <2> HIDE DEF a
  <2> QED
    BY <1>1, <2>3, <2>4 DEF Covers, MinOf, Index
<1>2. CASE b.act.kind # "LogDurable"
  BY <1>2 DEF Clamp, Covers
<1> QED
  BY <1>1, <1>2

LEMMA ClampLog ==
    ASSUME NEW b \in Batch, NEW cap
    PROVE  Clamp(b, cap).log = b.log /\ Clamp(b, cap).from = b.from
<1>1. CASE b.act.kind = "LogDurable"
  <2>1. Clamp(b, cap) = [b EXCEPT !.act = [b.act EXCEPT !.index = MinOf(b.act.index, cap)]]
    BY <1>1 DEF Clamp
  <2>2. ASSUME NEW a PROVE [b EXCEPT !.act = a].log = b.log /\ [b EXCEPT !.act = a].from = b.from
    BY DEF Batch
  <2> QED
    BY <2>1, <2>2
<1>2. CASE b.act.kind # "LogDurable"
  BY <1>2 DEF Clamp
<1> QED
  BY <1>1, <1>2

LEMMA ClampParkedCovers ==
    ASSUME NEW ranges \in SUBSET [from : Nat, to : Nat], NEW cap \in Nat, NEW i \in Index,
           NEW s \in ClampParked(ranges, cap), s.from <= i, i <= s.to
    PROVE  i <= cap /\ \E r \in ranges : r.from <= i /\ i <= r.to
<1>1. PICK r \in ranges : s = [from |-> r.from, to |-> Min({r.to, cap})]
  BY DEF ClampParked
<1>2. {r.to, cap} \in SUBSET Nat /\ {r.to, cap} # {} /\ r.from \in Nat /\ r.to \in Nat
  OBVIOUS
<1>3. Min({r.to, cap}) \in Nat /\ Min({r.to, cap}) <= r.to /\ Min({r.to, cap}) <= cap
  BY <1>2, MinNat
<1>4. s.from = r.from /\ s.to = Min({r.to, cap})
  BY <1>1
<1>5. r.from <= i /\ i <= r.to /\ i <= cap
  BY <1>2, <1>3, <1>4 DEF Index
<1> QED
  BY <1>5

LEMMA AcceptAppendClaims ==
    ASSUME TypeOK, TypeOK', NEW n \in Server, NEW m \in msgs, AcceptAppend(n, m)
    PROVE  ClaimStep(n)
<1> DEFINE start == FirstNew(log[n], m.prev, m.entries)
           last == m.prev + Len(m.entries)
           act == LogDurable(start, last, last, m.from, m.term)
           cap == start - 1
           queue == ClampAll(batches[n], cap)
<1>1. /\ UNCHANGED <<durableTerm, disk>>
      /\ durableIndex' = [durableIndex EXCEPT ![n] = MinOf(@, cap)]
      /\ parked' = [parked EXCEPT ![n] = ClampParked(@, cap)]
      /\ Issue(n, queue, act, m.term > term[n], start)
  BY DEF AcceptAppend, ReplaceFrom, FollowLeader
<1>2. /\ cap \in Nat /\ start \in Nat /\ last \in Nat /\ DOMAIN log'[n] = 1..last
      /\ \A i \in 1..cap : i \in DOMAIN log[n] /\ log'[n][i] = log[n][i]
      /\ \A p \in Server \ {n} : log'[p] = log[p]
      /\ start \in (m.prev + 1)..last /\ m.prev \in Nat
  BY AcceptedLog
<1>3. act.from = start /\ act.index = last
  BY ClaimFields
<1> HIDE DEF start, last, act
<1>4. /\ batches[n] \in Seq(Batch) /\ \A j \in Queued(n) : batches[n][j] \in Batch
      /\ durableIndex \in [Server -> Nat]
      /\ parked \in [Server -> SUBSET [from : Nat, to : Nat]]
  BY SMTT(20) DEF TypeOK, Queued
<1>5. /\ queue \in Seq(Batch) /\ Len(queue) = Len(batches[n])
      /\ \A j \in Queued(n) : queue[j] = Clamp(batches[n][j], cap)
  <2>1. queue \in Seq(Batch)
    BY <1>2, <1>4, ClampAllType
  <2>2. queue = [j \in 1..Len(batches[n]) |-> Clamp(batches[n][j], cap)]
    BY DEF ClampAll
  <2> HIDE DEF queue
  <2> QED
    BY <1>4, <2>1, <2>2 DEF Queued
<1> HIDE DEF queue
<1>6. \A j \in Queued(n) : /\ queue[j].log = batches[n][j].log
                           /\ queue[j].synced = batches[n][j].synced
                           /\ queue[j].from = batches[n][j].from
  BY <1>4, <1>5, ClampLog, ClampKeeps
<1>7. \A i \in Index : i <= cap => Spared(n, start, i)
  <2>0. cap <= last /\ \A i \in Nat : i <= cap => i < start
    BY <1>2
  <2> HIDE DEF cap
  <2> SUFFICES ASSUME NEW i \in Index, i <= cap PROVE Spared(n, start, i)
    OBVIOUS
  <2>1. i \in 1..cap
    BY <1>2 DEF Index
  <2>2. i \in DOMAIN log[n] /\ log'[n][i] = log[n][i]
    BY <1>2, <2>1
  <2>3. i \in DOMAIN log'[n]
    BY <1>2, <2>0, <2>1
  <2> QED
    BY <2>0, <2>2, <2>3 DEF Kept, Spared, Index
<1>8. ASSUME NEW i \in Index
      PROVE  /\ i <= durableIndex'[n] => i <= durableIndex[n] /\ Spared(n, start, i)
             /\ IsParked(n, i)' => IsParked(n, i) /\ Spared(n, start, i)
             /\ \A j \in Queued(n) : Covers(queue[j].act, i)
                  => Covers(batches[n][j].act, i) /\ Spared(n, start, i)
             /\ Covers(act, i) => i \in DOMAIN log'[n]
  <2>1. ASSUME i <= durableIndex'[n]
        PROVE  i <= durableIndex[n] /\ i <= cap
    <3>1. durableIndex'[n] = MinOf(durableIndex[n], cap) /\ durableIndex[n] \in Nat
      BY <1>1, <1>4
    <3> HIDE DEF cap
    <3> QED
      BY <1>2, <2>1, <3>1 DEF MinOf, Index
  <2>2. ASSUME IsParked(n, i)'
        PROVE  IsParked(n, i) /\ i <= cap
    <3>1. parked'[n] = ClampParked(parked[n], cap) /\ parked[n] \in SUBSET [from : Nat, to : Nat]
      BY <1>1, <1>4
    <3>2. PICK s \in parked'[n] : s.from <= i /\ i <= s.to
      BY <2>2 DEF IsParked
    <3> HIDE DEF cap
    <3>3. cap \in Nat /\ s \in ClampParked(parked[n], cap)
      BY <1>2, <3>1
    <3>4. i <= cap /\ \E r \in parked[n] : r.from <= i /\ i <= r.to
      BY <3>1, <3>2, <3>3, ClampParkedCovers
    <3> QED
      BY <3>4 DEF IsParked
  <2>3. \A j \in Queued(n) : Covers(queue[j].act, i) => Covers(batches[n][j].act, i) /\ i <= cap
    <3> HIDE DEF cap
    <3> QED
      BY <1>2, <1>4, <1>5, ClampCovers
  <2>4. Covers(act, i) => i \in DOMAIN log'[n]
    BY <1>2, <1>3 DEF Covers, Index
  <2> HIDE DEF cap
  <2> QED
    BY <1>7, <2>1, <2>2, <2>3, <2>4
<1>9. \A p \in Server \ {n} : /\ log'[p] = log[p] /\ parked'[p] = parked[p]
                              /\ durableIndex'[p] = durableIndex[p]
  BY <1>1, <1>2, <1>4
<1> HIDE DEF cap
<1> QED
  BY <1>1, <1>5, <1>6, <1>8, <1>9, IssueClaims

-----------------------------------------------------------------------------
(* Completions. *)

LEMMA QueueWithoutLogs ==
    ASSUME NEW queue \in Seq(Batch), NEW k \in 1..Len(queue), NEW i \in 1..(Len(queue) - 1)
    PROVE  /\ QueueWithout(queue, k)[i].log = queue[Source(k, i)].log
           /\ QueueWithout(queue, k)[i].from = queue[Source(k, i)].from
<1>1. QueueWithout(queue, k)[i] = IF i < k THEN [queue[i] EXCEPT !.synced = TRUE]
                                  ELSE queue[i + 1]
  BY DEF QueueWithout
<1>2. i \in 1..Len(queue) /\ queue[i] \in Batch
  OBVIOUS
<1>3. ASSUME NEW b \in Batch
      PROVE  [b EXCEPT !.synced = TRUE].log = b.log /\ [b EXCEPT !.synced = TRUE].from = b.from
  BY DEF Batch
<1> QED
  BY <1>1, <1>2, <1>3 DEF Source

(* What the step leaves of the queue of n once batch k is confirmed. *)
AfterSync(n, k) ==
    \/ batches' = [batches EXCEPT ![n] = QueueWithout(batches[n], k)]
    \/ \E act : /\ Issue(n, QueueWithout(batches[n], k), act, FALSE, Len(log[n]) + 1)
                /\ \A i \in Index : Covers(act, i) => i \in DOMAIN log'[n]

LEMMA SyncClaims ==
    ASSUME TypeOK, TypeOK', NEW n \in Server, NEW k \in Queued(n), SyncDone(n, k),
           AfterSync(n, k),
           \A p \in Server \ {n} : /\ log'[p] = log[p] /\ parked'[p] = parked[p]
                                   /\ durableIndex'[p] = durableIndex[p],
           \A i \in Index :
             /\ Kept(n, i)
             /\ IsParked(n, i)' => Shown(n, k, i)
             /\ i <= durableIndex'[n] => \/ i <= durableIndex[n]
                                         \/ Shown(n, k, i) /\ log[n][i].term <= durableTerm'[n]
    PROVE  ClaimStep(n)
<1> DEFINE q == batches[n]
           r == QueueWithout(q, k)
           s == batches'[n]
<1>1. q \in Seq(Batch) /\ k \in 1..Len(q)
  BY DEF TypeOK, Queued
<1>2. /\ r \in Seq(Batch) /\ Len(q) \in Nat /\ Len(r) = Len(q) - 1
      /\ \A i \in 1..(Len(q) - 1) :
           /\ r[i].act = q[Source(k, i)].act /\ r[i].synced = (i < k \/ q[i + 1].synced)
  BY <1>1, QueueWithoutKeeps
<1>3. \A i \in 1..(Len(q) - 1) : /\ r[i].log = q[Source(k, i)].log
                                  /\ r[i].from = q[Source(k, i)].from
  BY <1>1, QueueWithoutLogs
<1>4. /\ s = r \/ \E b : s = Append(r, b) /\ IsImage(n, b) /\ b.from = Len(log[n]) + 1
      /\ \A p \in Server \ {n} : batches'[p] = batches[p]
  <2>1. batches \in [Server -> Seq(Batch)]
    BY DEF TypeOK
  <2>2. CASE batches' = [batches EXCEPT ![n] = QueueWithout(batches[n], k)]
    BY <2>1, <2>2
  <2>3. ASSUME NEW act,
               Issue(n, QueueWithout(batches[n], k), act, FALSE, Len(log[n]) + 1),
               \A i \in Index : Covers(act, i) => i \in DOMAIN log'[n]
        PROVE  <1>4!1 /\ <1>4!2
    <3> DEFINE b == NewBatch(n, act, FALSE, Len(log[n]) + 1)
    <3>1. batches' = [batches EXCEPT ![n] = Append(r, b)]
      BY <2>3 DEF Issue
    <3>2. b.log = log'[n] /\ b.synced = FALSE /\ b.act = act /\ b.from = Len(log[n]) + 1
      BY DEF NewBatch
    <3> HIDE DEF b, r
    <3>3. IsImage(n, b)
      BY <2>3, <3>2 DEF IsImage
    <3> QED
      BY <2>1, <3>1, <3>2, <3>3
  <2> QED
    BY <2>2, <2>3 DEF AfterSync
<1> HIDE DEF r
<1>5. /\ Len(s) \in {Len(q) - 1, Len(q)}
      /\ \A i \in 1..(Len(q) - 1) : s[i] = r[i]
      /\ \A i \in 1..Len(s) : i >= Len(q) => IsImage(n, s[i]) /\ s[i].from = Len(log[n]) + 1
  <2>1. CASE s = r
    BY <1>2, <2>1
  <2>2. ASSUME NEW b, s = Append(r, b), IsImage(n, b), b.from = Len(log[n]) + 1
        PROVE  <1>5
    <3>1. /\ Len(Append(r, b)) = Len(r) + 1 /\ Append(r, b)[Len(r) + 1] = b
          /\ \A i \in 1..Len(r) : Append(r, b)[i] = r[i]
      BY <1>2
    <3> HIDE DEF s, q
    <3>2. Len(s) = Len(q) /\ s[Len(q)] = b /\ \A i \in 1..(Len(q) - 1) : s[i] = r[i]
      BY <1>2, <2>2, <3>1
    <3>3. \A i \in 1..Len(s) : i >= Len(q) => i = Len(q)
      BY <1>2, <3>2
    <3> QED
      BY <1>2, <2>2, <3>2, <3>3
  <2> QED
    BY <1>4, <2>1, <2>2
<1>6. Confirms(n, k)
  <2>1. \A i \in Queued(n)' : i >= Len(q) => IsImage(n, s[i]) /\ s[i].from = Len(log[n]) + 1
    BY <1>5 DEF Queued
  <2>2. \A i \in 1..(Len(q) - 1) :
          /\ s[i].log = q[Source(k, i)].log /\ s[i].act = q[Source(k, i)].act
          /\ s[i].from = q[Source(k, i)].from
          /\ s[i].synced = (i < k \/ q[i + 1].synced)
    BY <1>2, <1>3, <1>5
  <2> QED
    BY <1>5, <2>1, <2>2 DEF Confirms
<1>7. LogsAlone(n)
  <2>1. \A p \in Server \ {n} : durableTerm'[p] = durableTerm[p] /\ disk'[p] = disk[p]
    BY DEF SyncDone, TypeOK
  <2> QED
    BY <1>4, <2>1 DEF LogsAlone
<1> QED
  BY <1>6, <1>7 DEF ClaimStep

(* The claim as far as the parked ranges carry it in a log whose terms are *)
(* durable.                                                                *)
LEMMA ClaimCovers ==
    ASSUME TypeOK, TypeOK', NEW n \in Server, NEW at \in Nat, NEW ranges, NEW i \in Index,
           i <= Claim(n, at, ranges)
    PROVE  \/ i <= at
           \/ /\ \E r \in ranges : r.from <= i /\ i <= r.to
              /\ log[n][i].term <= durableTerm'[n]
<1> DEFINE cap == LastIndexWithTermAtMost(log[n], durableTerm'[n])
<1>1. log[n] \in Seq(Entry) /\ durableTerm'[n] \in Nat /\ Len(log[n]) \in Nat
  BY DEF TypeOK
<1>2. cap \in 0..Len(log[n])
  BY <1>1, LastIndexType
<1>3. cap \in Nat /\ i <= AdvanceDurable(at, ranges, cap)
  BY <1>1, <1>2 DEF Claim
<1>4. i <= cap => log[n][i].term <= durableTerm'[n]
  BY <1>1, LastIndexBounds
<1> HIDE DEF cap
<1> QED
  BY <1>3, <1>4, AdvanceDurableCovers

(* The claim once the term of a batch is durable. *)
LEMMA TermClaims ==
    ASSUME TypeOK, TypeOK', NEW n \in Server
    PROVE  /\ ClaimAfterTerm(n) \in Nat
           /\ ParkedAfterTerm(n) \subseteq parked[n]
           /\ \A i \in Index : i <= ClaimAfterTerm(n) =>
                \/ i <= durableIndex[n]
                \/ IsParked(n, i) /\ log[n][i].term <= durableTerm'[n]
<1>1. durableIndex[n] \in Nat
  BY DEF TypeOK
<1>2. ClaimAfterTerm(n) \in Nat
  <2>1. LastIndexWithTermAtMost(log[n], durableTerm'[n]) \in 0..Len(log[n])
    BY LastIndexType DEF TypeOK
  <2>2. LastIndexWithTermAtMost(log[n], durableTerm'[n]) \in Nat
    BY <2>1
  <2>3. Claim(n, durableIndex[n], parked[n]) \in Nat
    BY <1>1, <2>2, AdvanceDurableType DEF Claim
  <2> QED
    BY <1>1, <2>3 DEF ClaimAfterTerm
<1>3. ParkedAfterTerm(n) \subseteq parked[n]
  BY DEF ParkedAfterTerm, StillParked
<1>4. ASSUME NEW i \in Index, i <= ClaimAfterTerm(n)
      PROVE  i <= durableIndex[n] \/ (IsParked(n, i) /\ log[n][i].term <= durableTerm'[n])
  <2>1. CASE TermAdvances(n)
    <3>1. i <= Claim(n, durableIndex[n], parked[n])
      BY <1>4, <2>1 DEF ClaimAfterTerm
    <3> QED
      BY <1>1, <3>1, ClaimCovers DEF IsParked
  <2>2. CASE ~TermAdvances(n)
    BY <1>4, <2>2 DEF ClaimAfterTerm
  <2> QED
    BY <2>1, <2>2
<1> QED
  BY <1>2, <1>3, <1>4

LEMMA KeepClaimClaims ==
    ASSUME TypeOK, TypeOK', NEW n \in Server, NEW k \in Queued(n), KeepClaim(n)
    PROVE  /\ \A p \in Server \ {n} : /\ parked'[p] = parked[p]
                                      /\ durableIndex'[p] = durableIndex[p]
           /\ \A i \in Index :
                /\ IsParked(n, i)' => Shown(n, k, i)
                /\ i <= durableIndex'[n] => \/ i <= durableIndex[n]
                                            \/ Shown(n, k, i) /\ log[n][i].term <= durableTerm'[n]
<1>1. /\ durableIndex \in [Server -> Nat]
      /\ parked \in [Server -> SUBSET [from : Nat, to : Nat]]
  BY DEF TypeOK
<1>2. durableIndex'[n] = ClaimAfterTerm(n) /\ parked'[n] = ParkedAfterTerm(n)
  BY <1>1 DEF KeepClaim
<1>3. \A p \in Server \ {n} : parked'[p] = parked[p] /\ durableIndex'[p] = durableIndex[p]
  BY <1>1 DEF KeepClaim
<1>4. \A i \in Index : IsParked(n, i)' => IsParked(n, i)
  BY <1>2, TermClaims DEF IsParked
<1> QED
  BY <1>2, <1>3, <1>4, TermClaims DEF Shown

LEMMA CampaignDurableClaims ==
    ASSUME TypeOK, TypeOK', NEW n \in Server, NEW k \in Queued(n), CampaignDurable(n, k)
    PROVE  ClaimStep(n)
<1>1. SyncDone(n, k) /\ KeepClaim(n)
  BY DEF CampaignDurable
<1>2. CASE BecomeLeader(n, QueueWithout(batches[n], k))
  <2> DEFINE e == [term |-> term[n], cmd |-> Noop]
             act == LogDurable(Len(log[n]) + 1, Len(log[n]) + 1, 0, None, 0)
  <2>1. /\ log' = [log EXCEPT ![n] = Append(@, e)]
        /\ Issue(n, QueueWithout(batches[n], k), act, FALSE, Len(log[n]) + 1)
    BY <1>2 DEF BecomeLeader
  <2>2. e \in Entry
    BY NoopIsEntry
  <2> HIDE DEF e
  <2>3. /\ \A p \in Server \ {n} : log'[p] = log[p]
        /\ \A i \in Index : Kept(n, i) /\ (Covers(act, i) => i \in DOMAIN log'[n])
    BY <2>1, <2>2, LeaderExtends
  <2>4. AfterSync(n, k)
    BY <2>1, <2>3 DEF AfterSync
  <2> HIDE DEF act
  <2> QED
    BY <1>1, <2>3, <2>4, KeepClaimClaims, SyncClaims
<1>3. CASE UNCHANGED log /\ batches' = [batches EXCEPT ![n] = QueueWithout(batches[n], k)]
  <2>1. AfterSync(n, k) /\ \A i \in Index : Kept(n, i)
    BY <1>3 DEF AfterSync, Kept
  <2> QED
    BY <1>1, <1>3, <2>1, KeepClaimClaims, SyncClaims
<1> QED
  BY <1>2, <1>3 DEF CampaignDurable

LEMMA ReplyDurableClaims ==
    ASSUME TypeOK, TypeOK', NEW n \in Server, NEW k \in Queued(n), ReplyDurable(n, k)
    PROVE  ClaimStep(n)
<1>1. /\ SyncDone(n, k) /\ KeepClaim(n) /\ UNCHANGED log
      /\ batches' = [batches EXCEPT ![n] = QueueWithout(batches[n], k)]
  BY DEF ReplyDurable, logVars
<1>2. AfterSync(n, k) /\ \A i \in Index : Kept(n, i)
  BY <1>1 DEF AfterSync, Kept
<1> QED
  BY <1>1, <1>2, KeepClaimClaims, SyncClaims

(* The range that batch k shows, as the handler parks it. *)
LEMMA LogIsDurableClaims ==
    ASSUME TypeOK, TypeOK', NEW n \in Server, NEW k \in Queued(n), LogIsDurable(n, k)
    PROVE  ClaimStep(n)
<1> DEFINE act == batches[n][k].act
           index == MinOf(act.index, Len(log[n]))
           range == [from |-> act.from, to |-> index]
           isNews == index > ClaimAfterTerm(n)
           ranges == ParkedAfterTerm(n) \cup {range}
           claim == IF isNews THEN Claim(n, ClaimAfterTerm(n), ranges) ELSE ClaimAfterTerm(n)
<1>1. /\ SyncDone(n, k) /\ UNCHANGED log
      /\ batches' = [batches EXCEPT ![n] = QueueWithout(batches[n], k)]
      /\ durableIndex' = [durableIndex EXCEPT ![n] = claim]
      /\ parked' = [parked EXCEPT ![n] =
                      IF isNews THEN StillParked(claim, ranges) ELSE ParkedAfterTerm(n)]
      /\ act.kind = "LogDurable"
  BY SMTT(20) DEF LogIsDurable
<1>2. /\ durableIndex \in [Server -> Nat] /\ Len(log[n]) \in Nat
      /\ parked \in [Server -> SUBSET [from : Nat, to : Nat]]
  BY SMTT(20) DEF TypeOK
<1>3. act.index \in Nat /\ act.from \in Nat
  <2>1. act \in Act
    BY HardTypes DEF HardTyped
  <2> HIDE DEF act
  <2> QED
    BY <1>1, <2>1, ActTypes
<1>4. /\ durableIndex'[n] = claim
      /\ parked'[n] = IF isNews THEN StillParked(claim, ranges) ELSE ParkedAfterTerm(n)
  BY <1>1, <1>2
<1>5. range.from = act.from /\ range.to = index /\ index <= act.index /\ index \in Nat
  <2> HIDE DEF act
  <2> QED
    BY <1>2, <1>3 DEF MinOf
<1>6. \A i \in Index : (\E r \in ranges : r.from <= i /\ i <= r.to) => Shown(n, k, i)
  <2> SUFFICES ASSUME NEW i \in Index, NEW r \in ranges, r.from <= i, i <= r.to
               PROVE  Shown(n, k, i)
    OBVIOUS
  <2>1. CASE r \in ParkedAfterTerm(n)
    BY <2>1, TermClaims DEF Shown, IsParked
  <2>2. CASE r = range
    <3> HIDE DEF act, index, range
    <3>1. act.from <= i /\ i <= act.index
      BY <1>3, <1>5, <2>2 DEF Index
    <3> QED
      BY <1>1, <3>1 DEF Shown, Covers, act
  <2> QED
    BY <2>1, <2>2
<1> HIDE DEF ranges, isNews
<1>7. \A i \in Index : IsParked(n, i)' => Shown(n, k, i)
  <2>1. CASE parked'[n] = StillParked(claim, ranges)
    <3> HIDE DEF claim
    <3>1. parked'[n] \subseteq ranges
      BY <2>1 DEF StillParked
    <3> QED
      BY <1>6, <3>1 DEF IsParked
  <2>2. CASE parked'[n] = ParkedAfterTerm(n)
    BY <2>2, TermClaims DEF IsParked, Shown
  <2> QED
    BY <1>4, <2>1, <2>2
<1>8. ASSUME NEW i \in Index, i <= durableIndex'[n]
      PROVE  i <= durableIndex[n] \/ (Shown(n, k, i) /\ log[n][i].term <= durableTerm'[n])
  <2>1. CASE i <= ClaimAfterTerm(n)
    BY <2>1, TermClaims DEF Shown
  <2>2. CASE i <= Claim(n, ClaimAfterTerm(n), ranges) /\ ~(i <= ClaimAfterTerm(n))
    <3>1. /\ \E r \in ranges : r.from <= i /\ i <= r.to
          /\ log[n][i].term <= durableTerm'[n]
      BY <2>2, TermClaims, ClaimCovers
    <3> QED
      BY <1>6, <3>1
  <2> QED
    BY <1>4, <1>8, <2>1, <2>2
<1>9. /\ AfterSync(n, k) /\ \A i \in Index : Kept(n, i)
      /\ \A p \in Server \ {n} : /\ log'[p] = log[p] /\ parked'[p] = parked[p]
                                 /\ durableIndex'[p] = durableIndex[p]
  BY <1>1, <1>2 DEF AfterSync, Kept
<1> QED
  BY <1>1, <1>7, <1>8, <1>9, SyncClaims

-----------------------------------------------------------------------------
LEMMA NextClaims ==
    ASSUME TypeOK, TypeOK', Next
    PROVE  \E n \in Server : ClaimStep(n)
<1>1. PICK n \in Server :
        \/ ElectionTimeout(n)
        \/ Heartbeat(n)
        \/ \E c \in Cmd : Propose(n, c)
        \/ Restart(n)
        \/ \E k \in Queued(n) :
              CampaignDurable(n, k) \/ ReplyDurable(n, k) \/ LogIsDurable(n, k)
        \/ \E m \in msgs :
              \/ RefuseStale(n, m) \/ HandleNewerTermResp(n, m)
              \/ HandleVoteRequest(n, m) \/ RepeatVoteAnswer(n, m) \/ HandleVoteResp(n, m)
              \/ HandlePreVote(n, m) \/ HandlePreVoteResp(n, m)
              \/ RejectAppend(n, m) \/ AcceptAppend(n, m) \/ ConfirmAppend(n, m)
              \/ HandleAppendAck(n, m) \/ HandleAppendNack(n, m)
  BY DEF Next, Queued
<1> QED
  BY <1>1, QuietClaims, ElectionTimeoutClaims, ProposeClaims, RestartClaims,
     CampaignDurableClaims, ReplyDurableClaims, LogIsDurableClaims,
     HandleNewerTermRespClaims, HandleVoteRequestClaims, HandleVoteRespClaims,
     HandlePreVoteRespClaims, RejectAppendClaims, AcceptAppendClaims, ConfirmAppendClaims

LEMMA ClaimsAtStart ==
    ASSUME Init
    PROVE  ClaimInv
<1>1. TypeOK
  BY InitTypes
<1> SUFFICES ASSUME NEW n \in Server
             PROVE  Claimed(n) /\ Waiting(n) /\ InFlight(n) /\ Fences(n)
  BY DEF ClaimInv
<1>2. PICK d \in StartDisks : disk = [p \in Server |-> Recovered(d[p])]
  BY DEF Init
<1>3. d[n] \in Image /\ disk[n] = Recovered(d[n])
  BY <1>2, StartAssumption
<1>4. /\ log[n] = disk[n].log /\ durableIndex[n] = Len(disk[n].log) /\ parked[n] = {}
      /\ durableTerm[n] = disk[n].hard.term /\ batches[n] = <<>>
  BY DEF Init
<1>5. \A i \in DOMAIN log[n] : log[n][i].term <= durableTerm[n]
  BY <1>3, <1>4, RecoveredTerms
<1>6. Queued(n) = {} /\ \A i : ~IsParked(n, i)
  BY <1>4 DEF Queued, IsParked
<1>7. \A i \in Index : i <= durableIndex[n] => i \in DOMAIN log[n]
  BY <1>1, <1>4 DEF TypeOK, Index
<1>8. \A i \in DOMAIN log[n] : Written(n, i)
  BY <1>4, <1>6, AgreeSelf DEF Written, Pending
<1> QED
  BY <1>5, <1>6, <1>7, <1>8 DEF Claimed, Waiting, InFlight, Fences, Fenced

LEMMA ClaimIsTrue ==
    ASSUME TypeOK, VoteInv, ClaimInv
    PROVE  DurableClaimIsTrue
<1> SUFFICES ASSUME NEW n \in Server
             PROVE  /\ durableIndex[n] <= Len(log[n]) /\ durableIndex[n] <= Len(disk[n].log)
                    /\ \A i \in 1..durableIndex[n] : /\ disk[n].log[i] = log[n][i]
                                                     /\ log[n][i].term <= disk[n].hard.term
  BY DEF DurableClaimIsTrue
<1>1. /\ durableIndex[n] \in Nat /\ log[n] \in Seq(Entry) /\ disk[n].log \in Seq(Entry)
      /\ durableTerm[n] \in Nat /\ disk[n].hard.term \in Nat
  BY DEF TypeOK, Image, HardState
<1>2. ASSUME NEW i \in 1..durableIndex[n]
      PROVE  /\ i \in DOMAIN log[n] /\ i \in DOMAIN disk[n].log /\ disk[n].log[i] = log[n][i]
             /\ log[n][i].term <= disk[n].hard.term
  <2>1. i \in Index /\ i <= durableIndex[n]
    BY <1>1 DEF Index
  <2>2. Agree(disk[n].log, log[n], i) /\ log[n][i].term <= durableTerm[n]
    BY <2>1 DEF ClaimInv, Claimed, Written
  <2>3. durableTerm[n] <= disk[n].hard.term
    BY DEF VoteInv, Chain
  <2>4. i \in DOMAIN log[n] /\ i \in DOMAIN disk[n].log /\ disk[n].log[i] = log[n][i]
    BY <2>2 DEF Agree
  <2>5. log[n][i].term \in Nat
    BY <1>1, <2>4, EntryTerm
  <2> QED
    BY <1>1, <2>2, <2>3, <2>4, <2>5
<1>3. durableIndex[n] <= Len(log[n]) /\ durableIndex[n] <= Len(disk[n].log)
  <2>1. CASE durableIndex[n] = 0
    BY <1>1, <2>1
  <2>2. CASE durableIndex[n] # 0
    <3>1. durableIndex[n] \in 1..durableIndex[n]
      BY <1>1, <2>2
    <3>2. durableIndex[n] \in DOMAIN log[n] /\ durableIndex[n] \in DOMAIN disk[n].log
      BY <1>2, <3>1
    <3> QED
      BY <1>1, <3>2
  <2> QED
    BY <2>1, <2>2
<1> QED
  BY <1>2, <1>3

(* The inductive invariant, for every cluster and every configuration.     *)
THEOREM ClaimsAreBacked == Spec => []ClaimInv
<1>1. Init => ClaimInv
  BY ClaimsAtStart
<1>2. TypeOK /\ TypeOK' /\ VoteInv /\ ClaimInv /\ [Next]_vars => ClaimInv'
  <2> SUFFICES ASSUME TypeOK, TypeOK', VoteInv, ClaimInv, [Next]_vars
               PROVE  ClaimInv'
    OBVIOUS
  <2>1. CASE Next
    BY <2>1, NextClaims, ClaimsAreKept
  <2>2. CASE UNCHANGED vars
    <3>1. PICK n : n \in Server
      BY ServerAssumption
    <3>2. ClaimStep(n)
      BY <2>2, <3>1, StillClaims DEF vars, logVars, durableVars
    <3> QED
      BY <3>1, <3>2, ClaimsAreKept
  <2> QED
    BY <2>1, <2>2
<1> QED
  BY <1>1, <1>2, TypeCorrect, VotesAreKept, PTL DEF Spec

(* What `durable_index` claims is on the platter, and recovery keeps it,   *)
(* in every cluster: the ranges that `advance_durable` parks, the clamps   *)
(* of `truncate` and the cap by the durable term are enough, in whatever   *)
(* order `on_durable` hears of its batches and wherever a crash falls.     *)
THEOREM ClaimsTrue == Spec => []DurableClaimIsTrue
<1>1. TypeOK /\ VoteInv /\ ClaimInv => DurableClaimIsTrue
  BY ClaimIsTrue
<1> QED
  BY <1>1, TypeCorrect, VotesAreKept, ClaimsAreBacked, PTL
===============================================================================
