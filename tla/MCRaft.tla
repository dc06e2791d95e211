------------------------------- MODULE MCRaft -------------------------------
(***************************************************************************)
(* Instances of Raft for TLC: a cluster of two or three nodes, the disks   *)
(* it starts from, and the bounds of each run.                             *)
(***************************************************************************)
EXTENDS RaftAgreed, TLC

CONSTANTS s1, s2, s3

By(a, b, c) == [n \in Server |-> CASE n = s1 -> a [] n = s2 -> b [] OTHER -> c]

AllLinks == Server \X Server

(* s3 is cut off. *)
PairLinks == {<<s1, s2>>, <<s2, s1>>}

(* s1 and s2 never hear of one another. *)
BridgeLinks == AllLinks \ {<<s1, s2>>, <<s2, s1>>}

(* s2 and s3 never hear of one another. *)
StarLinks == AllLinks \ {<<s2, s3>>, <<s3, s2>>}

Disk(t, v, terms) ==
    [hard |-> [term |-> t, vote |-> v],
     log |-> [i \in DOMAIN terms |-> [term |-> terms[i], cmd |-> Noop]]]

(* s1 led term 2 and s2 led term 3, and each kept its entry to itself. *)
RivalDisks == {By(Disk(3, None, <<2>>), Disk(3, s2, <<3>>), Disk(3, s2, <<>>))}

(* s2 led term 1 and kept its second entry to itself; then s1 led term 2   *)
(* and did the same.                                                       *)
TailDisks == {By(Disk(2, s1, <<1, 2>>), Disk(1, s2, <<1, 1>>), Disk(2, s1, <<1>>))}

(* s1 led term 2 and reached s3; s2 kept a second entry of term 1, and     *)
(* has stood for term 3 unheard.  Or s1 was elected for term 2 by all, and *)
(* nothing was written since.                                              *)
MajorityDisks ==
    {By(Disk(2, s1, <<1, 2>>), Disk(3, s2, <<1, 1>>), Disk(2, s1, <<1, 2>>)),
     By(Disk(2, s1, <<>>), Disk(2, s1, <<>>), Disk(2, s1, <<>>))}

(* Bounds, by node. *)
N000 == By(0, 0, 0)
N101 == By(1, 0, 1)
N111 == By(1, 1, 1)
N121 == By(1, 2, 1)
N300 == By(3, 0, 0)
N400 == By(4, 0, 0)
N450 == By(4, 5, 0)
=============================================================================
