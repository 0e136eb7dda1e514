------------------------------ MODULE Storage ------------------------------
(***************************************************************************)
(* The records of src/storage/rocks.rs: one row per (tenant, term) key,    *)
(* holding the term's total frequency.  The pair is one abstract key here; *)
(* rocks.rs encodes it injectively because validate_tenant keeps the       *)
(* separator byte out of tenant identifiers.                               *)
(***************************************************************************)
EXTENDS Naturals, Sequences

CONSTANTS Keys,     (* the (tenant, term) pairs                             *)
          MaxFreq,  (* the largest frequency a row can hold: u64::MAX       *)
          Absent    (* stands for "no row"; in a write, for a delete        *)

ASSUME StorageAssumption ==
  /\ MaxFreq \in Nat
  /\ Absent \notin 0..MaxFreq

Freqs == 0..MaxFreq
Values == Freqs \cup {Absent}

(* What the database, and the in-memory tries, map each key to.            *)
Rows == [Keys -> Values]
NoRows == [k \in Keys |-> Absent]

(* WriteOp::Upsert carries the new total, WriteOp::Delete nothing: flush   *)
(* turns the latter into a row with frequency None, here Absent.           *)
WriteOps == [key : Keys, value : Values]

(* The positions of the writes to k in a batch, and the last of them.      *)
WritesTo(ops, k) == {i \in 1..Len(ops) : ops[i].key = k}
LastWriteTo(ops, k) ==
  CHOOSE i \in WritesTo(ops, k) : \A j \in WritesTo(ops, k) : j <= i

(* Storage::write_batch when RocksDB accepts it: the puts and deletes take *)
(* effect in order and all together, so the last write to a key wins.      *)
WriteBatch(rows, ops) ==
  [k \in Keys |-> IF WritesTo(ops, k) = {}
                  THEN rows[k]
                  ELSE ops[LastWriteTo(ops, k)].value]
=============================================================================
