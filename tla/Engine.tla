------------------------------- MODULE Engine -------------------------------
(***************************************************************************)
(* The write path of src/engine.rs on top of the background writer: index  *)
(* and delete change the in-memory trie under its lock, let go of the lock *)
(* and only then submit the new row to the writer's channel.  Around it,   *)
(* opening, shutting down, dropping and crashing the engine, and the ways  *)
(* a request can end, the 2 s timeout of src/api/router.rs included.       *)
(*                                                                         *)
(* The tries of all tenants are one map here: what each holds, not its     *)
(* shape.                                                                  *)
(***************************************************************************)
EXTENDS Writer, SequencesExt

CONSTANTS Clients,  (* the requests that may run at the same time           *)
          Weights,  (* the weights a client may index with                  *)
          Owns,     (* the keys each client writes                          *)
          NoOp      (* what a client has to submit between two calls        *)

ASSUME EngineAssumption ==
  /\ Weights \subseteq Nat
  /\ Owns \in [Clients -> SUBSET Keys]
  /\ NoOp \notin WriteOps

VARIABLES
  phase,    (* the engine value: "open", "closing" while shutdown awaits    *)
            (* join, "closed" once it returned, "dropped" without shutdown, *)
            (* "crashed" with the whole process                             *)
  trie,     (* what the tries map each term to; when the engine is gone,    *)
            (* what they mapped it to last                                  *)
  status,   (* how far each client's call is, or how its last one ended     *)
  op,       (* the write each call in flight has to submit                  *)
  waiters   (* the calls parked in send, in the order they arrived          *)

engineVars == <<phase, trie, status, op, waiters>>
vars == <<writerVars, engineVars>>

Outcomes == {"idle", "accepted", "not_found", "backpressure", "abandoned"}
Phases == {"open", "closing", "closed", "dropped", "crashed"}

InFlight(c) == status[c] \in {"mutated", "waiting"}
AllAtRest == \A c \in Clients : ~InFlight(c)

TypeOK ==
  /\ WriterTypeOK
  /\ phase \in Phases
  /\ trie \in Rows
  /\ status \in [Clients -> Outcomes \cup {"mutated", "waiting"}]
  /\ op \in [Clients -> WriteOps \cup {NoOp}]
  /\ \A c \in Clients : op[c] = NoOp <=> ~InFlight(c)
  /\ waiters \in Seq(Clients)
  /\ \A c \in Clients :
       status[c] = "waiting" <=> \E i \in 1..Len(waiters) : waiters[i] = c
  /\ \A i, j \in 1..Len(waiters) : waiters[i] = waiters[j] => i = j

Init ==
  /\ chan = <<>> /\ txOpen = FALSE /\ task = "stopped" /\ buffer = <<>>
  /\ db = NoRows /\ lost = {}
  /\ phase = "closed"
  /\ trie = NoRows
  /\ status = [c \in Clients |-> "idle"]
  /\ op = [c \in Clients |-> NoOp]
  /\ waiters = <<>>

----------------------------------------------------------------------------
(* A call: first the trie, under the tenant's write lock.                  *)

(* insert_at: an absent term starts from 0, and the sum saturates.         *)
Bump(value, w) ==
  LET sum == (IF value = Absent THEN 0 ELSE value) + w
  IN  IF sum <= MaxFreq THEN sum ELSE MaxFreq

Mutate(c, k, value) ==
  /\ trie' = [trie EXCEPT ![k] = value]
  /\ status' = [status EXCEPT ![c] = "mutated"]
  /\ op' = [op EXCEPT ![c] = [key |-> k, value |-> value]]
  /\ UNCHANGED <<writerVars, phase, waiters>>

Ready(c, k) == phase = "open" /\ ~InFlight(c) /\ k \in Owns[c]

Index_SubmitsWeight(c, k, w) ==
  /\ Ready(c, k)
  /\ trie' = [trie EXCEPT ![k] = Bump(trie[k], w)]
  /\ status' = [status EXCEPT ![c] = "mutated"]
  /\ op' = [op EXCEPT ![c] = [key |-> k, value |-> w]]
  /\ UNCHANGED <<writerVars, phase, waiters>>

(* The upsert submitted carries the new total that insert returns.         *)
Index(c, k, w) ==
  /\ Ready(c, k)
  /\ Mutate(c, k, Bump(trie[k], w))

Delete(c, k) ==
  /\ Ready(c, k)
  /\ trie[k] # Absent
  /\ Mutate(c, k, Absent)

DeleteMissing(c, k) ==
  /\ Ready(c, k)
  /\ trie[k] = Absent
  /\ status' = [status EXCEPT ![c] = "not_found"]
  /\ UNCHANGED <<writerVars, phase, trie, op, waiters>>

----------------------------------------------------------------------------
(* Then submit, without the lock.  The channel's semaphore is fair: permits *)
(* go to the parked senders in the order they arrived, and a sender that    *)
(* arrives behind them gets one only when there are more than they need.    *)

Free == ChannelCapacity - Len(chan)

Turn(c) ==
  IF status[c] = "waiting"
  THEN CHOOSE i \in 1..Len(waiters) : waiters[i] = c
  ELSE Len(waiters) + 1

HasPermit(c) == Turn(c) <= Free

Finish(c, outcome) ==
  /\ status' = [status EXCEPT ![c] = outcome]
  /\ op' = [op EXCEPT ![c] = NoOp]
  /\ waiters' = IF status[c] = "waiting"
                THEN RemoveAt(waiters, Turn(c))
                ELSE waiters
  /\ UNCHANGED <<phase, trie>>

(* send completes; the handler answers 202 or 204.                         *)
Deliver(c) ==
  /\ InFlight(c)
  /\ HasPermit(c)
  /\ Send(op[c])
  /\ Finish(c, "accepted")

(* send fails because the receiver is gone, mapped to Error::Backpressure; *)
(* the handler answers 503.                                                *)
Refused(c) ==
  /\ InFlight(c)
  /\ SendFails(op[c])
  /\ Finish(c, "backpressure")

(* No permit: send parks the call.                                         *)
Park(c) ==
  /\ status[c] = "mutated"
  /\ ~ReceiverGone
  /\ ~HasPermit(c)
  /\ status' = [status EXCEPT ![c] = "waiting"]
  /\ waiters' = Append(waiters, c)
  /\ UNCHANGED <<writerVars, phase, trie, op>>

(* The request times out, or its caller goes away: the future is dropped   *)
(* where it is suspended, in send, and the write it carried with it.       *)
Abandon(c) ==
  /\ status[c] = "waiting"
  /\ lost' = lost \cup {op[c].key}
  /\ Finish(c, "abandoned")
  /\ UNCHANGED <<chan, txOpen, task, buffer, db>>

Submit(c) == Deliver(c) \/ Refused(c) \/ Park(c)

----------------------------------------------------------------------------
(* The life of an engine.                                                  *)

(* Engine::open: take the directory lock, replay every row, spawn a writer *)
(* with the configured interval.  It fails, and changes nothing, while     *)
(* another handle to the database is alive.                                *)
Open(ms) ==
  /\ phase \in {"closed", "dropped", "crashed"}
  /\ ~HoldsDatabase
  /\ phase' = "open"
  /\ trie' = db
  /\ Spawn(ms)
  /\ status' = [c \in Clients |-> "idle"]
  /\ op' = [c \in Clients |-> NoOp]
  /\ waiters' = <<>>

Shutdown_KeepsSender ==
  /\ phase = "open"
  /\ AllAtRest
  /\ phase' = "closing"
  /\ UNCHANGED <<writerVars, trie, status, op, waiters>>

(* Engine::shutdown takes the engine by value, so no call can be running:  *)
(* it drops the sender and awaits the task.                                *)
Shutdown ==
  /\ phase = "open"
  /\ AllAtRest
  /\ phase' = "closing"
  /\ txOpen' = FALSE
  /\ UNCHANGED <<chan, task, buffer, db, lost, trie, status, op, waiters>>

(* join: the task has ended, by itself or by a panic, which join only logs *)
JoinReturns ==
  /\ phase = "closing"
  /\ ReceiverGone
  /\ phase' = "closed"
  /\ UNCHANGED <<writerVars, trie, status, op, waiters>>

(* The engine goes out of scope instead: the task is detached, and drains  *)
(* the channel with the database still open.                               *)
DropEngine ==
  /\ phase = "open"
  /\ AllAtRest
  /\ phase' = "dropped"
  /\ txOpen' = FALSE
  /\ UNCHANGED <<chan, task, buffer, db, lost, trie, status, op, waiters>>

(* The process ends: a crash, or main returning, which never calls shutdown *)
Crash ==
  /\ phase \in {"open", "closing", "dropped"}
  /\ phase' = "crashed"
  /\ WriterCrash
  /\ status' = [c \in Clients |-> "idle"]
  /\ op' = [c \in Clients |-> NoOp]
  /\ waiters' = <<>>
  /\ UNCHANGED trie

WriterStep == WriterNext /\ UNCHANGED engineVars

Next ==
  \/ \E c \in Clients, k \in Keys :
       \/ \E w \in Weights : Index(c, k, w)
       \/ Delete(c, k)
       \/ DeleteMissing(c, k)
  \/ \E c \in Clients : Submit(c) \/ Abandon(c)
  \/ WriterStep
  \/ \E ms \in FlushIntervals : Open(ms)
  \/ Shutdown
  \/ JoinReturns
  \/ DropEngine
  \/ Crash

Spec == Init /\ [][Next]_vars

(* The runtime polls every task that is ready, and select! picks among its *)
(* ready branches at random, so neither a call nor a branch of the writer  *)
(* task is passed over for ever.  Nobody is obliged to start a call, to    *)
(* give one up, or to open, close or kill the engine.                      *)
Fairness ==
  /\ \A c \in Clients : WF_vars(Submit(c))
  /\ WF_vars(Recv /\ UNCHANGED engineVars)
  /\ WF_vars(Tick /\ UNCHANGED engineVars)
  /\ WF_vars(Stop /\ UNCHANGED engineVars)
  /\ WF_vars(Panic /\ UNCHANGED engineVars)
  /\ WF_vars(JoinReturns)

FairSpec == Spec /\ Fairness

----------------------------------------------------------------------------
(* Safety.                                                                 *)

(* No two clients write the same key.                                      *)
SerialOwners == \A c, d \in Clients : c # d => Owns[c] \cap Owns[d] = {}

(* RocksDB catches up with the tries (Engine::index): for every term, once *)
(* the writes in flight and in the queue are on disk, the row is what the  *)
(* trie says, unless the term's latest write has been discarded.  The trie *)
(* is changed in one step and the row queued in another, so this speaks    *)
(* about the order of two queues of calls.                                 *)
DrainConverges ==
  phase # "crashed" =>
    \A k \in Keys :
      \/ \E c \in Clients : InFlight(c) /\ op[c].key = k
      \/ k \in lost
      \/ Drained[k] = trie[k]

(* While no write fails, a call that has to wait for the channel waits     *)
(* rather than losing data (WriterHandle::submit): with every call         *)
(* answered, what is on disk and in the queue adds up to the tries.        *)
WaitingLosesNothing ==
  phase = "open" /\ AllAtRest => Drained = trie

(* Backpressure surfaces as 503, never as a stall (README): no call is     *)
(* ever parked behind a full channel.                                      *)
NeverStalls == waiters = <<>>

(* Shutdown followed by open, or dropping the engine followed by an open   *)
(* that gets the directory lock, gives back every term as it was, and      *)
(* every deleted term deleted, except for terms whose latest write has     *)
(* been discarded (Engine::shutdown, Engine::open).                        *)
RestartKeepsMemory ==
  [][(phase \in {"closed", "dropped"} /\ phase' = "open")
       => \A k \in Keys \ lost : (trie'[k] = trie[k])]_vars

(* Error::Backpressure says that the channel is saturated: a call is       *)
(* answered so only when the channel is full.                              *)
BackpressureMeansSaturated ==
  [][\A c \in Clients :
       (InFlight(c) /\ status'[c] = "backpressure") => ChannelFull]_vars

(* Over crashes, failed batches and abandoned calls, rows on disk only     *)
(* change by the oldest queued writes taking effect together and in order  *)
(* (WriteLog): a crash loses the tail of the queue and nothing else.       *)
Log == INSTANCE WriteLog WITH
  pending <- buffer \o chan,
  stored <- db,
  BatchMayFail <- FALSE \in FlushOutcomes
ImplementsLog == Log!Spec

----------------------------------------------------------------------------
(* Liveness, under FairSpec.                                               *)

(* Shutdown returns: the task sees the last sender go, drains, and ends.   *)
ShutdownReturns == phase = "closing" ~> phase # "closing"

(* A call parked in send is resumed, whatever the other calls do: the      *)
(* channel is emptied for ever and its permits go round.                   *)
SubmitResolves ==
  \A c \in Clients : status[c] = "waiting" ~> status[c] # "waiting"

(* Once calls stop, what was accepted leaves memory for RocksDB without    *)
(* another write to push it: the tick flushes a buffer that never fills.   *)
QuietQueueDrains ==
  <>[]AllAtRest => <>[](chan = <<>> /\ buffer = <<>>)
=============================================================================
