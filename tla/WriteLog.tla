------------------------------ MODULE WriteLog ------------------------------
(***************************************************************************)
(* What the write-behind path promises about order and atomicity, with no  *)
(* channel, buffer, task or timer in it: accepted writes form one log, and *)
(* rows on disk only ever change by the oldest few of them taking effect   *)
(* together.  A failure may discard writes, but never reorders, repeats or *)
(* splits them.                                                            *)
(***************************************************************************)
EXTENDS Storage

CONSTANTS MaxBatch,      (* most writes one batch may hold                 *)
          BatchMayFail   (* whether RocksDB may refuse a batch             *)

VARIABLES pending,  (* accepted writes not yet on disk, oldest first       *)
          stored    (* the rows on disk                                    *)

logVars == <<pending, stored>>

Oldest(n) == SubSeq(pending, 1, n)
Others(n) == SubSeq(pending, n + 1, Len(pending))

Init ==
  /\ pending = <<>>
  /\ stored = NoRows

Accept(op) ==
  /\ pending' = Append(pending, op)
  /\ UNCHANGED stored

(* A batch reaches the disk; the write that fills it may be accepted and   *)
(* taken between two flushes, never be left out of order.                  *)
Persist(n) ==
  /\ stored' = WriteBatch(stored, Oldest(n))
  /\ pending' = Others(n)

(* A refused batch is dropped and the log goes on behind it.               *)
Refuse(n) ==
  /\ BatchMayFail
  /\ pending' = Others(n)
  /\ UNCHANGED stored

(* A crash, or a writer that dies, loses the tail of the log: all of it    *)
(* that is not on disk.                                                    *)
LoseTail ==
  /\ pending' = <<>>
  /\ UNCHANGED stored

Next ==
  \/ \E op \in WriteOps : Accept(op)
  \/ \E n \in 1..Len(pending) : n <= MaxBatch /\ (Persist(n) \/ Refuse(n))
  \/ LoseTail

Spec == Init /\ [][Next]_logVars
=============================================================================
