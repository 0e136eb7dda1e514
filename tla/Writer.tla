------------------------------- MODULE Writer -------------------------------
(***************************************************************************)
(* The background writer of src/storage/writer.rs: a bounded channel, one  *)
(* task that moves writes from it into a buffer, and the flush of that     *)
(* buffer as one RocksDB batch when it is full, on every tick of the       *)
(* interval, and once more when every sender is gone.                      *)
(***************************************************************************)
EXTENDS Storage

CONSTANTS ChannelCapacity,  (* WriterConfig::channel_capacity              *)
          MaxBatch,         (* WriterConfig::max_batch_size                *)
          FlushIntervals,   (* the flush intervals, in ms, an operator may *)
                            (* configure; 0 is accepted by from_env        *)
          FlushOutcomes     (* what a RocksDB write may return:            *)
                            (* {TRUE}, or BOOLEAN when it may fail         *)

ASSUME WriterAssumption ==
  /\ ChannelCapacity \in Nat \ {0}
  /\ MaxBatch \in Nat \ {0}
  /\ FlushIntervals \subseteq Nat
  /\ FlushOutcomes \in (SUBSET BOOLEAN) \ {{}}

VARIABLES
  chan,    (* the writes queued in the mpsc channel                        *)
  txOpen,  (* whether the engine still holds the sending half              *)
  task,    (* the writer task: "doomed" is spawned with a zero interval,   *)
           (* on which tokio::time::interval panics at the first poll      *)
  buffer,  (* the writes taken from the channel and not yet flushed        *)
  db,      (* the rows in RocksDB                                          *)
  lost     (* history: the keys whose latest write was discarded           *)

writerVars == <<chan, txOpen, task, buffer, db, lost>>

WriterTypeOK ==
  /\ chan \in Seq(WriteOps) /\ Len(chan) <= ChannelCapacity
  /\ txOpen \in BOOLEAN
  /\ task \in {"doomed", "running", "stopped", "panicked"}
  /\ buffer \in Seq(WriteOps) /\ Len(buffer) < MaxBatch
  /\ db \in Rows
  /\ lost \subseteq Keys

(* The rows RocksDB will hold once everything queued has been flushed.     *)
Drained == WriteBatch(WriteBatch(db, buffer), chan)

KeysOf(ops) == {k \in Keys : WritesTo(ops, k) # {}}

----------------------------------------------------------------------------
(* The channel, as its users see it.  Both halves live in spawn_with: the  *)
(* receiver is moved into the task and dropped when the task ends.         *)

ReceiverGone_KeptElsewhere == FALSE
ReceiverGone == task \notin {"doomed", "running"}

(* RocksDB's directory lock is held while any handle to the database is    *)
(* alive.  The engine's own handle goes with the engine; this is the one   *)
(* the task holds.                                                         *)
HoldsDatabase_Never == FALSE
HoldsDatabase == task \in {"doomed", "running"}

ChannelFull == Len(chan) >= ChannelCapacity

(* mpsc::Sender::send completing: there is a permit and a receiver.        *)
Send(op) ==
  /\ ~ReceiverGone
  /\ ~ChannelFull
  /\ chan' = Append(chan, op)
  /\ lost' = lost \ {op.key}
  /\ UNCHANGED <<txOpen, task, buffer, db>>

(* Send failing because the receiver is gone: the write is dropped.        *)
SendFails(op) ==
  /\ ReceiverGone
  /\ lost' = lost \cup {op.key}
  /\ UNCHANGED <<chan, txOpen, task, buffer, db>>

(* WriterHandle::spawn_with, for the database handed to it.                *)
Spawn(ms) ==
  /\ chan' = <<>>
  /\ txOpen' = TRUE
  /\ task' = IF ms = 0 THEN "doomed" ELSE "running"
  /\ buffer' = <<>>
  /\ lost' = {}
  /\ UNCHANGED db

----------------------------------------------------------------------------
(* The task.                                                               *)

(* flush: write ops as one batch and clear the buffer whatever comes back. *)
(* A refused batch changes nothing on disk and is not tried again; a key   *)
(* it wrote is then lost unless a later write to it is still queued.       *)
Flush(ops, queued) ==
  /\ buffer' = <<>>
  /\ \/ /\ TRUE \in FlushOutcomes
        /\ db' = WriteBatch(db, ops)
        /\ UNCHANGED lost
     \/ /\ FALSE \in FlushOutcomes
        /\ lost' = lost \cup (KeysOf(ops) \ KeysOf(queued))
        /\ UNCHANGED db

Recv_FlushesLate ==
  /\ task = "running"
  /\ chan # <<>>
  /\ chan' = Tail(chan)
  /\ IF Len(buffer) >= MaxBatch
     THEN Flush(Append(buffer, Head(chan)), Tail(chan))
     ELSE /\ buffer' = Append(buffer, Head(chan))
          /\ UNCHANGED <<db, lost>>
  /\ UNCHANGED <<txOpen, task>>

Recv_PushesInFront ==
  /\ task = "running"
  /\ chan # <<>>
  /\ chan' = Tail(chan)
  /\ LET ops == <<Head(chan)>> \o buffer
     IN  IF Len(ops) >= MaxBatch
         THEN Flush(ops, Tail(chan))
         ELSE buffer' = ops /\ UNCHANGED <<db, lost>>
  /\ UNCHANGED <<txOpen, task>>

(* rx.recv() yields a write: push it, and flush a full buffer.             *)
Recv ==
  /\ task = "running"
  /\ chan # <<>>
  /\ chan' = Tail(chan)
  /\ LET ops == Append(buffer, Head(chan))
     IN  IF Len(ops) >= MaxBatch
         THEN Flush(ops, Tail(chan))
         ELSE buffer' = ops /\ UNCHANGED <<db, lost>>
  /\ UNCHANGED <<txOpen, task>>

Tick_DoesNotFlush ==
  /\ task = "running"
  /\ UNCHANGED writerVars

(* ticker.tick(): flush whatever has been collected.                       *)
Tick ==
  /\ task = "running"
  /\ buffer # <<>>
  /\ Flush(buffer, chan)
  /\ UNCHANGED <<chan, txOpen, task>>

(* rx.recv() yields None, which it does only when every sender is gone and *)
(* the channel is empty: leave the loop, flush once more, end the task.    *)
Stop ==
  /\ task = "running"
  /\ chan = <<>>
  /\ ~txOpen
  /\ Flush(buffer, <<>>)
  /\ task' = "stopped"
  /\ UNCHANGED <<chan, txOpen>>

(* The first poll of a task spawned with a zero interval: the panic drops  *)
(* the receiver and with it everything queued so far.                      *)
Panic ==
  /\ task = "doomed"
  /\ task' = "panicked"
  /\ chan' = <<>>
  /\ lost' = lost \cup KeysOf(chan)
  /\ UNCHANGED <<txOpen, buffer, db>>

WriterNext == Recv \/ Tick \/ Stop \/ Panic

(* The process dies: the task and everything it held in memory are gone.   *)
WriterCrash ==
  /\ chan' = <<>>
  /\ txOpen' = FALSE
  /\ task' = "stopped"
  /\ buffer' = <<>>
  /\ UNCHANGED <<db, lost>>
=============================================================================
