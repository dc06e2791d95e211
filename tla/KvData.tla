------------------------------- MODULE KvData -------------------------------
(***************************************************************************)
(* Operations, values and outcomes, and what an operation does to the map: *)
(* `Op` of `kvstore/log.rs`, `Outcome` of `kvstore/server.rs`.             *)
(*                                                                         *)
(* `pick_op` writes the value c{id}v{seq}, so a value is named by the      *)
(* client and the sequence number of the operation that wrote it.          *)
(***************************************************************************)
EXTENDS Integers, Sequences, SequencesExt

CONSTANTS
    Client,
    Key,
    Absent          \* the value of a key that is not in the map

Value == (Client \X Nat) \cup {Absent}

Op == [kind : {"Get", "Put", "Delete"}, key : Key]
      \cup [kind : {"Cas"}, key : Key, expect : Value]

(* `Command`: an operation with the session it belongs to. *)
Command == [client : Client, seq : Nat, op : Op]

Written == [kind |-> "Written"]
ValueIs(v) == [kind |-> "Value", value |-> v]
CasIs(b) == [kind |-> "Cas", ok |-> b]
NotLeader == [kind |-> "NotLeader"]
Dropped == [kind |-> "Dropped"]

Outcome == {Written, NotLeader, Dropped}
           \cup [kind : {"Value"}, value : Value] \cup [kind : {"Cas"}, ok : BOOLEAN]

(* `Outcome::is_definite` *)
IsDefinite(outcome) == outcome \notin {NotLeader, Dropped}

EmptyMap == [k \in Key |-> Absent]

(* The answer to a command executed on a map, and the map it leaves.       *)
OutcomeOf(map, cmd) ==
    CASE cmd.op.kind = "Get" -> ValueIs(map[cmd.op.key])
      [] cmd.op.kind = "Cas" -> CasIs(map[cmd.op.key] = cmd.op.expect)
      [] OTHER -> Written

MapAfter(map, cmd) ==
    LET value == <<cmd.client, cmd.seq>> IN
    CASE cmd.op.kind = "Get" -> map
      [] cmd.op.kind = "Put" -> [map EXCEPT ![cmd.op.key] = value]
      [] cmd.op.kind = "Delete" -> [map EXCEPT ![cmd.op.key] = Absent]
      [] OTHER -> IF map[cmd.op.key] = cmd.op.expect
                  THEN [map EXCEPT ![cmd.op.key] = value] ELSE map
=============================================================================
