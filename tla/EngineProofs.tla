---------------------------- MODULE EngineProofs ----------------------------
(***************************************************************************)
(* Proofs about Engine for every number of clients, keys and weights and   *)
(* every capacity and batch size: its types, that the disk converges to    *)
(* the tries when no two clients write the same term, and that an engine   *)
(* that is closed and opened again gives back what it held.                *)
(***************************************************************************)
EXTENDS Engine, Integers, FiniteSets, FiniteSetTheorems,
        WellFoundedInduction, SequenceTheorems, TLAPS

----------------------------------------------------------------------------
(* Batches of writes (Storage!WriteBatch).                                 *)

(* A non-empty set of positions has a last one: among the sets of the      *)
(* positions from i on, a smallest one belongs to the last i.              *)
LEMMA MaxExists ==
  ASSUME NEW n \in Nat, NEW T \in SUBSET (1..n), T # {}
  PROVE  \E i \in T : \A j \in T : j <= i
<1> DEFINE From(i) == T \cap (i..n)
           D == {From(i) : i \in T}
           Sub == StrictSubsetOrdering(1..n)
<1>1. IsFiniteSet(1..n)
  BY FS_Interval
<1>2. D \subseteq FiniteSubsetsOf(1..n) /\ D # {}
  <2>1. \A i \in T : From(i) \in SUBSET (1..n) /\ IsFiniteSet(From(i))
    BY <1>1, FS_Subset
  <2>2. QED
    BY <2>1 DEF FiniteSubsetsOf
<1>3. PICK x \in D : \A y \in D : ~ (<<y, x>> \in Sub)
  <2>1. IsWellFoundedOn(Sub, FiniteSubsetsOf(1..n))
    BY FS_StrictSubsetOrderingWellFounded
  <2> HIDE DEF Sub, D
  <2>2. QED
    BY <1>2, <2>1, WFMin
<1>4. PICK i \in T : x = From(i)
  OBVIOUS
<1>5. ASSUME NEW j \in T, i < j PROVE FALSE
  <2>1. From(j) \in D /\ From(j) \subseteq From(i) /\ i \in From(i) /\ i \notin From(j)
    BY <1>5
  <2>2. <<From(j), From(i)>> \in Sub
    BY <2>1 DEF StrictSubsetOrdering
  <2>3. QED
    BY <1>3, <1>4, <2>1, <2>2
<1>6. QED
  BY <1>5

(* The last write to a key that a batch writes is well defined.            *)
LEMMA LastWriteExists ==
  ASSUME NEW ops \in Seq(WriteOps), NEW k, WritesTo(ops, k) # {}
  PROVE  /\ LastWriteTo(ops, k) \in WritesTo(ops, k)
         /\ \A j \in WritesTo(ops, k) : j <= LastWriteTo(ops, k)
<1>1. WritesTo(ops, k) \in SUBSET (1..Len(ops)) /\ Len(ops) \in Nat
  BY DEF WritesTo
<1>2. \E i \in WritesTo(ops, k) : \A j \in WritesTo(ops, k) : j <= i
  BY <1>1, MaxExists
<1>3. QED
  BY <1>2 DEF LastWriteTo

(* What a batch leaves in a row: the value of a write that no other write  *)
(* of the batch to the same key comes after.                               *)
LEMMA BatchHit ==
  ASSUME NEW rows, NEW ops \in Seq(WriteOps), NEW k \in Keys,
         NEW i \in WritesTo(ops, k), \A j \in WritesTo(ops, k) : j <= i
  PROVE  WriteBatch(rows, ops)[k] = ops[i].value
<1>1. LastWriteTo(ops, k) \in WritesTo(ops, k) /\ i <= LastWriteTo(ops, k)
  BY LastWriteExists
<1>2. LastWriteTo(ops, k) = i
  BY <1>1 DEF WritesTo
<1>3. QED
  BY <1>2 DEF WriteBatch

(* A row that the batch does not write keeps its value.                    *)
LEMMA BatchMiss ==
  ASSUME NEW rows, NEW ops, NEW k \in Keys, WritesTo(ops, k) = {}
  PROVE  WriteBatch(rows, ops)[k] = rows[k]
BY DEF WriteBatch

(* Writing a batch gives rows again.                                       *)
LEMMA BatchType ==
  ASSUME NEW rows \in Rows, NEW ops \in Seq(WriteOps)
  PROVE  WriteBatch(rows, ops) \in Rows
<1>1. ASSUME NEW k \in Keys PROVE WriteBatch(rows, ops)[k] \in Values
  <2>1. CASE WritesTo(ops, k) = {}
    BY <2>1, BatchMiss DEF Rows
  <2>2. CASE WritesTo(ops, k) # {}
    <3>1. LastWriteTo(ops, k) \in 1..Len(ops)
      BY <2>2, LastWriteExists DEF WritesTo
    <3>2. ops[LastWriteTo(ops, k)] \in WriteOps
      BY <3>1
    <3>3. QED
      BY <2>2, <3>2 DEF WriteBatch, WriteOps
  <2>3. QED
    BY <2>1, <2>2
<1>2. QED
  BY <1>1 DEF Rows, WriteBatch

(* The empty batch changes nothing.                                        *)
LEMMA BatchEmpty ==
  ASSUME NEW rows \in Rows
  PROVE  WriteBatch(rows, <<>>) = rows
<1>1. \A k \in Keys : WritesTo(<<>>, k) = {}
  BY DEF WritesTo
<1>2. QED
  BY <1>1 DEF WriteBatch, Rows

(* What a batch leaves in a row depends on the row only if the batch does  *)
(* not write it.                                                           *)
LEMMA BatchAgree ==
  ASSUME NEW r1, NEW r2, NEW ops, NEW k \in Keys,
         WritesTo(ops, k) # {} \/ r1[k] = r2[k]
  PROVE  WriteBatch(r1, ops)[k] = WriteBatch(r2, ops)[k]
BY DEF WriteBatch

(* Two batches one after the other are one batch.                          *)
LEMMA BatchConcat ==
  ASSUME NEW rows \in Rows, NEW s \in Seq(WriteOps), NEW t \in Seq(WriteOps)
  PROVE  WriteBatch(WriteBatch(rows, s), t) = WriteBatch(rows, s \o t)
<1> DEFINE m == Len(s)
           st == s \o t
<1>1. /\ st \in Seq(WriteOps) /\ Len(st) = m + Len(t) /\ m \in Nat /\ Len(t) \in Nat
      /\ \A i \in 1..m : st[i] = s[i]
      /\ \A i \in 1..Len(t) : st[m + i] = t[i]
  OBVIOUS
<1>2. ASSUME NEW k \in Keys
      PROVE  WriteBatch(WriteBatch(rows, s), t)[k] = WriteBatch(rows, st)[k]
  <2>1. /\ \A i \in 1..Len(t) : i \in WritesTo(t, k) <=> m + i \in WritesTo(st, k)
        /\ \A i \in 1..m : i \in WritesTo(s, k) <=> i \in WritesTo(st, k)
        /\ \A j \in WritesTo(st, k) : j \in 1..m \/ (j - m \in 1..Len(t) /\ j = m + (j - m))
    BY <1>1 DEF WritesTo
  <2>2. CASE WritesTo(t, k) # {}
    <3>1. PICK i \in WritesTo(t, k) : \A j \in WritesTo(t, k) : j <= i
      BY <2>2, LastWriteExists
    <3>2. m + i \in WritesTo(st, k) /\ \A j \in WritesTo(st, k) : j <= m + i
      <4>1. i \in 1..Len(t)
        BY DEF WritesTo
      <4>2. ASSUME NEW j \in WritesTo(st, k) PROVE j <= m + i
        <5>1. CASE j \in 1..m
          BY <4>1, <5>1, <1>1
        <5>2. CASE j - m \in 1..Len(t) /\ j = m + (j - m)
          <6>1. j - m \in WritesTo(t, k)
            BY <2>1, <5>2
          <6>2. QED
            BY <3>1, <4>1, <5>2, <6>1, <1>1
        <5>3. QED
          BY <2>1, <5>1, <5>2
      <4>3. QED
        BY <2>1, <4>1, <4>2
    <3>3. WriteBatch(WriteBatch(rows, s), t)[k] = t[i].value
      BY <3>1, BatchHit
    <3>4. WriteBatch(rows, st)[k] = st[m + i].value
      BY <1>1, <3>2, BatchHit
    <3>5. i \in 1..Len(t)
      BY DEF WritesTo
    <3>6. QED
      BY <1>1, <3>3, <3>4, <3>5
  <2>3. CASE WritesTo(t, k) = {} /\ WritesTo(s, k) # {}
    <3>1. PICK i \in WritesTo(s, k) : \A j \in WritesTo(s, k) : j <= i
      BY <2>3, LastWriteExists
    <3>2. i \in WritesTo(st, k) /\ \A j \in WritesTo(st, k) : j <= i
      <4>1. i \in 1..m
        BY DEF WritesTo
      <4>2. \A j \in WritesTo(st, k) : j \in WritesTo(s, k)
        BY <2>1, <2>3
      <4>3. QED
        BY <2>1, <3>1, <4>1, <4>2
    <3>3. WriteBatch(WriteBatch(rows, s), t)[k] = s[i].value
      BY <2>3, <3>1, BatchHit, BatchMiss
    <3>4. WriteBatch(rows, st)[k] = st[i].value
      BY <1>1, <3>2, BatchHit
    <3>5. i \in 1..m
      BY DEF WritesTo
    <3>6. QED
      BY <1>1, <3>3, <3>4, <3>5
  <2>4. CASE WritesTo(t, k) = {} /\ WritesTo(s, k) = {}
    <3>1. WritesTo(st, k) = {}
      BY <2>1, <2>4
    <3>2. QED
      BY <2>4, <3>1, BatchMiss
  <2>5. QED
    BY <2>2, <2>3, <2>4
<1>3. QED
  BY <1>2 DEF WriteBatch

(* Appending a write to a batch sets its row after the rest of the batch.  *)
LEMMA BatchAppend ==
  ASSUME NEW rows \in Rows, NEW ops \in Seq(WriteOps), NEW o \in WriteOps
  PROVE  WriteBatch(rows, Append(ops, o))
           = [WriteBatch(rows, ops) EXCEPT ![o.key] = o.value]
<1> DEFINE one == <<o>>
           b == WriteBatch(rows, ops)
<1>1. one \in Seq(WriteOps) /\ Append(ops, o) = ops \o one
  OBVIOUS
<1>2. b \in Rows
  BY BatchType
<1>3. WriteBatch(rows, Append(ops, o)) = WriteBatch(b, one)
  BY <1>1, BatchConcat
<1>4. ASSUME NEW k \in Keys
      PROVE  WriteBatch(b, one)[k] = IF k = o.key THEN o.value ELSE b[k]
  <2>1. WritesTo(one, k) = IF k = o.key THEN {1} ELSE {}
    BY DEF WritesTo
  <2>2. CASE k = o.key
    <3>1. 1 \in WritesTo(one, k) /\ \A j \in WritesTo(one, k) : j <= 1
      BY <2>1, <2>2
    <3>2. WriteBatch(b, one)[k] = one[1].value
      <4> HIDE DEF one, b
      <4>1. QED
        BY <1>1, <3>1, BatchHit
    <3>3. QED
      BY <2>2, <3>2
  <2>3. CASE k # o.key
    BY <2>1, <2>3, BatchMiss
  <2>4. QED
    BY <2>2, <2>3
<1>5. o.key \in Keys
  BY DEF WriteOps
<1> HIDE DEF b, one
<1>6. WriteBatch(b, one) = [b EXCEPT ![o.key] = o.value]
  BY <1>2, <1>4, <1>5 DEF WriteBatch, Rows
<1>7. QED
  BY <1>3, <1>6 DEF b

----------------------------------------------------------------------------
(* Helpers.                                                                *)

LEMMA RemoveAtProperties ==
  ASSUME NEW S, NEW s \in Seq(S), NEW i \in 1..Len(s)
  PROVE  /\ RemoveAt(s, i) \in Seq(S)
         /\ Len(RemoveAt(s, i)) = Len(s) - 1
         /\ \A j \in 1..Len(s) - 1 :
              RemoveAt(s, i)[j] = IF j < i THEN s[j] ELSE s[j + 1]
<1>1. /\ SubSeq(s, 1, i - 1) \in Seq(S) /\ Len(SubSeq(s, 1, i - 1)) = i - 1
      /\ \A j \in 1..i - 1 : SubSeq(s, 1, i - 1)[j] = s[j]
  OBVIOUS
<1>2. /\ SubSeq(s, i + 1, Len(s)) \in Seq(S)
      /\ Len(SubSeq(s, i + 1, Len(s))) = Len(s) - i
      /\ \A j \in 1..Len(s) - i : SubSeq(s, i + 1, Len(s))[j] = s[i + j]
  OBVIOUS
<1> DEFINE u == SubSeq(s, 1, i - 1)
           v == SubSeq(s, i + 1, Len(s))
<1> HIDE DEF u, v
<1>3. /\ u \o v \in Seq(S) /\ Len(u \o v) = Len(u) + Len(v)
      /\ \A j \in 1..Len(u) + Len(v) :
           (u \o v)[j] = IF j <= Len(u) THEN u[j] ELSE v[j - Len(u)]
  <2>1. u \in Seq(S) /\ v \in Seq(S)
    BY <1>1, <1>2 DEF u, v
  <2>2. QED
    BY <2>1, ConcatProperties
<1>4. /\ Len(u) = i - 1 /\ Len(v) = Len(s) - i
      /\ \A j \in 1..i - 1 : u[j] = s[j]
      /\ \A j \in 1..Len(s) - i : v[j] = s[i + j]
  BY <1>1, <1>2 DEF u, v
<1>5. ASSUME NEW j \in 1..Len(s) - 1
      PROVE  (u \o v)[j] = IF j < i THEN s[j] ELSE s[j + 1]
  <2>1. CASE j < i
    BY <1>3, <1>4, <2>1
  <2>2. CASE ~(j < i)
    <3>1. j - (i - 1) \in 1..Len(s) - i /\ i + (j - (i - 1)) = j + 1
      BY <2>2
    <3>2. (u \o v)[j] = v[j - (i - 1)]
      BY <1>3, <1>4, <2>2
    <3>3. QED
      BY <1>4, <2>2, <3>1, <3>2
  <2>3. QED
    BY <2>1, <2>2
<1>6. RemoveAt(s, i) = u \o v
  BY DEF RemoveAt, u, v
<1>7. Len(u) + Len(v) = Len(s) - 1
  BY <1>4
<1> HIDE DEF u, v
<1>8. QED
  BY <1>3, <1>5, <1>6, <1>7

(* Bump gives a frequency that a row can hold.                             *)
LEMMA BumpType ==
  ASSUME NEW v \in Values, NEW w \in Weights
  PROVE  Bump(v, w) \in Values
BY StorageAssumption, EngineAssumption DEF Bump, Values, Freqs

(* A flush keeps the types, whatever RocksDB answers.                      *)
LEMMA FlushType ==
  ASSUME NEW ops \in Seq(WriteOps), NEW queued, Flush(ops, queued),
         db \in Rows, lost \subseteq Keys
  PROVE  /\ buffer' = <<>> /\ db' \in Rows /\ lost' \subseteq Keys
BY BatchType DEF Flush, KeysOf

(* Taking one write off the channel.                                       *)
LEMMA TakeType ==
  ASSUME chan \in Seq(WriteOps), chan # <<>>, buffer \in Seq(WriteOps)
  PROVE  /\ Head(chan) \in WriteOps
         /\ Tail(chan) \in Seq(WriteOps) /\ Len(Tail(chan)) = Len(chan) - 1
         /\ Append(buffer, Head(chan)) \in Seq(WriteOps)
         /\ Len(Append(buffer, Head(chan))) = Len(buffer) + 1
         /\ chan = <<Head(chan)>> \o Tail(chan)
         /\ Append(buffer, Head(chan)) = buffer \o <<Head(chan)>>
OBVIOUS

----------------------------------------------------------------------------
(* Types.                                                                  *)

LEMMA WriterStepType ==
  ASSUME WriterTypeOK, WriterNext
  PROVE  WriterTypeOK'
<1> USE WriterAssumption DEF WriterTypeOK
<1>1. CASE Recv
  <2> DEFINE ops == Append(buffer, Head(chan))
  <2>1. /\ Tail(chan) \in Seq(WriteOps) /\ Len(Tail(chan)) <= ChannelCapacity
        /\ ops \in Seq(WriteOps)
    BY <1>1, TakeType DEF Recv
  <2>2. CASE Len(ops) >= MaxBatch
    <3>1. Flush(ops, Tail(chan))
      BY <1>1, <2>2 DEF Recv
    <3>2. /\ buffer' = <<>> /\ db' \in Rows /\ lost' \subseteq Keys
      <4> HIDE DEF ops
      <4>1. QED
        BY <2>1, <3>1, FlushType
    <3>3. QED
      BY <1>1, <2>1, <3>2 DEF Recv
  <2>3. CASE ~(Len(ops) >= MaxBatch)
    <3>1. buffer' = ops /\ chan' = Tail(chan) /\ UNCHANGED <<db, lost, txOpen, task>>
      BY <1>1, <2>3 DEF Recv
    <3>2. Len(ops) \in Nat /\ Len(ops) < MaxBatch
      BY <2>1, <2>3
    <3>3. QED
      BY <2>1, <3>1, <3>2
  <2>4. QED
    BY <2>2, <2>3
<1>2. CASE Tick
  <2>1. /\ buffer' = <<>> /\ db' \in Rows /\ lost' \subseteq Keys
    BY <1>2, FlushType DEF Tick
  <2>2. QED
    BY <1>2, <2>1 DEF Tick
<1>3. CASE Stop
  <2>1. /\ buffer' = <<>> /\ db' \in Rows /\ lost' \subseteq Keys
    BY <1>3, FlushType DEF Stop
  <2>2. QED
    BY <1>3, <2>1 DEF Stop
<1>4. CASE Panic
  BY <1>4 DEF Panic, KeysOf
<1>5. QED
  BY <1>1, <1>2, <1>3, <1>4 DEF WriterNext

(* What TypeOK says of the calls, apart from the writer.                   *)
CallsOK ==
  /\ phase \in Phases
  /\ trie \in Rows
  /\ status \in [Clients -> Outcomes \cup {"mutated", "waiting"}]
  /\ op \in [Clients -> WriteOps \cup {NoOp}]
  /\ \A c \in Clients : op[c] = NoOp <=> ~InFlight(c)
  /\ waiters \in Seq(Clients)
  /\ \A c \in Clients :
       status[c] = "waiting" <=> \E i \in 1..Len(waiters) : waiters[i] = c
  /\ \A i, j \in 1..Len(waiters) : waiters[i] = waiters[j] => i = j

LEMMA TypeParts == TypeOK <=> WriterTypeOK /\ CallsOK
BY DEF TypeOK, CallsOK

(* A call in flight has a write to submit.                                 *)
LEMMA InFlightOp ==
  ASSUME CallsOK, NEW c \in Clients, InFlight(c)
  PROVE  op[c] \in WriteOps /\ op[c].key \in Keys /\ op[c].value \in Values
BY DEF CallsOK, WriteOps

(* Starting a call.                                                        *)
LEMMA MutateType ==
  ASSUME TypeOK, NEW c \in Clients, NEW k \in Keys, NEW v \in Values,
         ~InFlight(c), Mutate(c, k, v)
  PROVE  TypeOK'
<1>1. WriterTypeOK'
  BY DEF TypeOK, Mutate, WriterTypeOK, writerVars
<1>2. [key |-> k, value |-> v] \in WriteOps
  BY DEF WriteOps
<1>3. [key |-> k, value |-> v] # NoOp
  BY <1>2, EngineAssumption
<1>4. CallsOK'
  BY <1>2, <1>3 DEF TypeOK, CallsOK, Mutate, InFlight, Rows, Outcomes
<1>5. QED
  BY <1>1, <1>4, TypeParts DEF CallsOK, TypeOK, WriterTypeOK

(* Ending a call.                                                          *)
LEMMA FinishType ==
  ASSUME CallsOK, NEW c \in Clients, NEW outcome \in Outcomes,
         InFlight(c), Finish(c, outcome)
  PROVE  CallsOK'
<1>1. CASE status[c] = "waiting"
  <2> DEFINE n == Len(waiters)
             t == Turn(c)
  <2>1. t \in 1..n /\ waiters[t] = c
    BY <1>1 DEF CallsOK, Turn
  <2>2. /\ waiters' \in Seq(Clients) /\ Len(waiters') = n - 1 /\ n \in Nat
        /\ \A j \in 1..n - 1 :
             waiters'[j] = IF j < t THEN waiters[j] ELSE waiters[j + 1]
    <3>1. waiters' = RemoveAt(waiters, t) /\ waiters \in Seq(Clients)
      BY <1>1 DEF CallsOK, Finish
    <3>2. n \in Nat
      BY <3>1
    <3> HIDE DEF t
    <3>3. /\ RemoveAt(waiters, t) \in Seq(Clients) /\ Len(RemoveAt(waiters, t)) = n - 1
          /\ \A j \in 1..n - 1 :
               RemoveAt(waiters, t)[j] = IF j < t THEN waiters[j] ELSE waiters[j + 1]
      BY <2>1, <3>1, RemoveAtProperties
    <3>4. QED
      BY <3>1, <3>2, <3>3
  <2> HIDE DEF n, t
  <2>3. \A i, j \in 1..n : waiters[i] = waiters[j] => i = j
    BY DEF CallsOK, n
  <2>4. \A i, j \in 1..Len(waiters') : waiters'[i] = waiters'[j] => i = j
    BY <2>1, <2>2, <2>3
  <2>5. ASSUME NEW d \in Clients
        PROVE  status'[d] = "waiting" <=> \E i \in 1..Len(waiters') : waiters'[i] = d
    <3>1. CASE d = c
      <4>1. status'[d] # "waiting"
        BY <3>1 DEF Finish, CallsOK, Outcomes
      <4>2. ASSUME NEW i \in 1..n - 1 PROVE waiters'[i] # c
        BY <2>1, <2>2, <2>3
      <4>3. QED
        BY <2>2, <3>1, <4>1, <4>2
    <3>2. CASE d # c
      <4>1. status'[d] = status[d]
        BY <3>2 DEF Finish, CallsOK
      <4>2. status[d] = "waiting" <=> \E i \in 1..n : waiters[i] = d
        BY DEF CallsOK, n
      <4>3. ASSUME NEW i \in 1..n, waiters[i] = d
            PROVE  \E j \in 1..n - 1 : waiters'[j] = d
        <5>1. CASE i < t
          <6>1. i \in 1..n - 1 /\ waiters'[i] = d
            BY <2>1, <2>2, <4>3, <5>1
          <6>2. QED
            BY <6>1
        <5>2. CASE i > t
          <6>1. i - 1 \in 1..n - 1 /\ ~(i - 1 < t) /\ (i - 1) + 1 = i
            BY <2>1, <2>2, <5>2
          <6>2. waiters'[i - 1] = d
            BY <2>2, <4>3, <6>1
          <6>3. QED
            BY <6>1, <6>2
        <5>3. CASE i = t
          BY <2>1, <3>2, <4>3, <5>3
        <5>4. QED
          BY <2>1, <5>1, <5>2, <5>3
      <4>4. ASSUME NEW j \in 1..n - 1, waiters'[j] = d
            PROVE  \E i \in 1..n : waiters[i] = d
        <5>1. j \in 1..n /\ j + 1 \in 1..n
          BY <2>2
        <5>2. QED
          BY <2>2, <4>4, <5>1
      <4>5. QED
        BY <2>2, <4>1, <4>2, <4>3, <4>4
    <3>3. QED
      BY <3>1, <3>2
  <2>6. QED
    BY <2>2, <2>4, <2>5 DEF CallsOK, Finish, InFlight, Outcomes
<1>2. CASE status[c] # "waiting"
  BY <1>2 DEF CallsOK, Finish, InFlight, Outcomes
<1>3. QED
  BY <1>1, <1>2

(* Sending a write keeps the channel within its capacity.                  *)
LEMMA SendType ==
  ASSUME WriterTypeOK, NEW o \in WriteOps, Send(o)
  PROVE  WriterTypeOK'
<1>1. Append(chan, o) \in Seq(WriteOps) /\ Len(Append(chan, o)) = Len(chan) + 1
  BY DEF WriterTypeOK
<1>2. Len(chan) \in Nat /\ Len(chan) < ChannelCapacity
  BY WriterAssumption DEF WriterTypeOK, Send, ChannelFull
<1>3. Len(chan) + 1 <= ChannelCapacity
  BY <1>2, WriterAssumption
<1>4. QED
  BY <1>1, <1>3 DEF WriterTypeOK, Send

(* Every call at rest, in an engine just opened or just killed.            *)
LEMMA RestType ==
  ASSUME CallsOK, phase' \in Phases, trie' \in Rows,
         status' = [c \in Clients |-> "idle"],
         op' = [c \in Clients |-> NoOp],
         waiters' = <<>>
  PROVE  CallsOK'
BY DEF CallsOK, InFlight, Outcomes

LEMMA TypeStep ==
  ASSUME TypeOK, [Next]_vars
  PROVE  TypeOK'
<1> USE TypeParts
<1>1. ASSUME NEW c \in Clients, NEW k \in Keys, NEW w \in Weights, Index(c, k, w)
      PROVE  TypeOK'
  <2>1. Bump(trie[k], w) \in Values
    BY BumpType DEF TypeOK, Rows
  <2>2. QED
    BY <1>1, <2>1, MutateType DEF Index, Ready
<1>2. ASSUME NEW c \in Clients, NEW k \in Keys, Delete(c, k)
      PROVE  TypeOK'
  <2>1. Absent \in Values
    BY DEF Values
  <2>2. QED
    BY <1>2, <2>1, MutateType DEF Delete, Ready
<1>3. ASSUME NEW c \in Clients, NEW k \in Keys, DeleteMissing(c, k)
      PROVE  TypeOK'
  <2>1. WriterTypeOK'
    BY <1>3 DEF DeleteMissing, TypeOK, WriterTypeOK, writerVars
  <2>2. CallsOK'
    BY <1>3 DEF DeleteMissing, Ready, TypeOK, CallsOK, InFlight, Outcomes
  <2>3. QED
    BY <2>1, <2>2 DEF CallsOK, TypeOK, WriterTypeOK
<1>4. ASSUME NEW c \in Clients, Deliver(c)
      PROVE  TypeOK'
  <2>1. op[c] \in WriteOps
    BY <1>4, InFlightOp DEF Deliver
  <2>2. WriterTypeOK'
    BY <1>4, <2>1, SendType DEF Deliver
  <2>3. CallsOK'
    BY <1>4, FinishType DEF Deliver, Outcomes
  <2>4. QED
    BY <2>2, <2>3 DEF CallsOK, TypeOK, WriterTypeOK
<1>5. ASSUME NEW c \in Clients, Refused(c)
      PROVE  TypeOK'
  <2>1. op[c].key \in Keys
    BY <1>5, InFlightOp DEF Refused
  <2>2. WriterTypeOK'
    BY <1>5, <2>1 DEF Refused, SendFails, WriterTypeOK
  <2>3. CallsOK'
    BY <1>5, FinishType DEF Refused, Outcomes
  <2>4. QED
    BY <2>2, <2>3 DEF CallsOK, TypeOK, WriterTypeOK
<1>6. ASSUME NEW c \in Clients, Park(c)
      PROVE  TypeOK'
  <2>1. WriterTypeOK'
    BY <1>6 DEF Park, TypeOK, WriterTypeOK, writerVars
  <2>2. /\ waiters' \in Seq(Clients) /\ Len(waiters') = Len(waiters) + 1
        /\ Len(waiters) \in Nat
        /\ \A i \in 1..Len(waiters) : waiters'[i] = waiters[i] /\ waiters[i] # c
        /\ waiters'[Len(waiters) + 1] = c
    BY <1>6 DEF Park, CallsOK
  <2>3. ASSUME NEW d \in Clients
        PROVE  status'[d] = "waiting" <=> \E i \in 1..Len(waiters') : waiters'[i] = d
    BY <1>6, <2>2 DEF Park, CallsOK
  <2>4. \A i, j \in 1..Len(waiters') : waiters'[i] = waiters'[j] => i = j
    BY <2>2 DEF CallsOK
  <2>5. CallsOK'
    BY <1>6, <2>2, <2>3, <2>4 DEF Park, CallsOK, InFlight, Outcomes
  <2>6. QED
    BY <2>1, <2>5 DEF CallsOK, TypeOK, WriterTypeOK
<1>7. ASSUME NEW c \in Clients, Abandon(c)
      PROVE  TypeOK'
  <2>1. InFlight(c) /\ op[c].key \in Keys
    BY <1>7, InFlightOp DEF Abandon, InFlight
  <2>2. WriterTypeOK'
    BY <1>7, <2>1 DEF Abandon, WriterTypeOK
  <2>3. CallsOK'
    BY <1>7, <2>1, FinishType DEF Abandon, Outcomes
  <2>4. QED
    BY <2>2, <2>3 DEF CallsOK, TypeOK, WriterTypeOK
<1>8. ASSUME WriterStep
      PROVE  TypeOK'
  <2>1. WriterTypeOK'
    BY <1>8, WriterStepType DEF WriterStep
  <2>2. CallsOK'
    BY <1>8 DEF WriterStep, engineVars, CallsOK, InFlight
  <2>3. QED
    BY <2>1, <2>2 DEF CallsOK, TypeOK, WriterTypeOK
<1>9. ASSUME NEW ms \in FlushIntervals, Open(ms)
      PROVE  TypeOK'
  <2>1. WriterTypeOK'
    BY <1>9, WriterAssumption DEF Open, Spawn, WriterTypeOK
  <2>2. CallsOK'
    BY <1>9, RestType DEF Open, WriterTypeOK, Phases
  <2>3. QED
    BY <2>1, <2>2 DEF CallsOK, TypeOK, WriterTypeOK
<1>10. ASSUME Shutdown \/ DropEngine \/ JoinReturns
       PROVE  TypeOK'
  <2>1. WriterTypeOK'
    BY <1>10 DEF Shutdown, DropEngine, JoinReturns, WriterTypeOK, writerVars
  <2>2. CallsOK'
    BY <1>10 DEF Shutdown, DropEngine, JoinReturns, CallsOK, InFlight, Phases
  <2>3. QED
    BY <2>1, <2>2 DEF CallsOK, TypeOK, WriterTypeOK
<1>11. ASSUME Crash
       PROVE  TypeOK'
  <2>1. WriterTypeOK'
    <3>1. WriterCrash /\ WriterTypeOK
      BY <1>11 DEF Crash
    <3>2. <<>> \in Seq(WriteOps) /\ Len(<<>>) = 0
      OBVIOUS
    <3>3. txOpen' \in BOOLEAN
      BY <3>1, Zenon DEF WriterCrash
    <3>4. QED
      BY <3>1, <3>2, <3>3, WriterAssumption DEF WriterCrash, WriterTypeOK
  <2>2. CallsOK'
    BY <1>11, RestType DEF Crash, CallsOK, Phases
  <2>3. QED
    BY <2>1, <2>2 DEF CallsOK, TypeOK, WriterTypeOK
<1>12. ASSUME UNCHANGED vars
       PROVE  TypeOK'
  BY <1>12 DEF vars, writerVars, engineVars, TypeOK, WriterTypeOK, InFlight
<1>13. QED
  BY <1>1, <1>2, <1>3, <1>4, <1>5, <1>6, <1>7, <1>8, <1>9, <1>10, <1>11, <1>12
  DEF Next, Submit

LEMMA TypeInit == Init => TypeOK
<1> SUFFICES ASSUME Init PROVE TypeOK
  OBVIOUS
<1>1. NoRows \in Rows
  BY DEF NoRows, Rows, Values
<1>2. WriterTypeOK
  <2>1. txOpen \in BOOLEAN
    BY Zenon DEF Init
  <2>2. QED
    BY <1>1, <2>1, WriterAssumption DEF Init, WriterTypeOK
<1>3. CallsOK
  BY <1>1 DEF Init, CallsOK, InFlight, Outcomes, Phases
<1>4. QED
  BY <1>2, <1>3, TypeParts

(* Every reachable state is well typed: the channel never holds more than  *)
(* its capacity, the buffer never reaches the batch size between two       *)
(* steps, a call is parked exactly while it stands once in the queue, and  *)
(* carries a write exactly while it is in flight (TypeOK).                 *)
THEOREM TypeCorrect == Spec => []TypeOK
<1>1. Init => TypeOK
  BY TypeInit
<1>2. TypeOK /\ [Next]_vars => TypeOK'
  BY TypeStep
<1>3. QED
  BY <1>1, <1>2, PTL DEF Spec

----------------------------------------------------------------------------
(* Convergence.  DrainConverges alone is not inductive: that delivering a  *)
(* write brings its row up to date needs the write to carry what the trie  *)
(* says at that moment, which no other client may change (CarriesTotal);   *)
(* that an engine opened again starts where the last one stopped needs a   *)
(* task that has ended to have left nothing in memory (EndedIsEmpty) and   *)
(* no call to have outlived its engine (QuietUnlessOpen).                  *)

CarriesTotal ==
  \A c \in Clients :
    InFlight(c) => op[c].key \in Owns[c] /\ trie[op[c].key] = op[c].value

EndedIsEmpty ==
  /\ task \in {"stopped", "panicked"} => chan = <<>> /\ buffer = <<>>
  /\ task = "doomed" => buffer = <<>>

QuietUnlessOpen == phase # "open" => AllAtRest

IInv ==
  /\ TypeOK
  /\ CarriesTotal
  /\ EndedIsEmpty
  /\ QuietUnlessOpen
  /\ DrainConverges

(* Moving a write from the channel to the buffer does not change what the  *)
(* rows will be in the end.                                                *)
LEMMA TakeKeepsDrained ==
  ASSUME WriterTypeOK, chan # <<>>
  PROVE  WriteBatch(WriteBatch(db, Append(buffer, Head(chan))), Tail(chan))
           = Drained
<1> DEFINE h == <<Head(chan)>>
           t == Tail(chan)
<1>1. /\ h \in Seq(WriteOps) /\ t \in Seq(WriteOps) /\ buffer \in Seq(WriteOps)
      /\ chan = h \o t /\ Append(buffer, Head(chan)) = buffer \o h /\ db \in Rows
  <2>1. chan \in Seq(WriteOps) /\ buffer \in Seq(WriteOps) /\ db \in Rows
    BY DEF WriterTypeOK
  <2>2. Head(chan) \in WriteOps
    BY <2>1, TakeType
  <2>3. QED
    BY <2>1, <2>2, TakeType
<1> HIDE DEF h, t
<1>2. WriteBatch(db, buffer \o h) = WriteBatch(WriteBatch(db, buffer), h)
  BY <1>1, BatchConcat
<1>3. WriteBatch(db, buffer) \in Rows
  BY <1>1, BatchType
<1>4. WriteBatch(WriteBatch(WriteBatch(db, buffer), h), t)
        = WriteBatch(WriteBatch(db, buffer), h \o t)
  BY <1>1, <1>3, BatchConcat
<1>5. QED
  BY <1>1, <1>2, <1>4 DEF Drained, t

(* A flush either keeps what the rows will be in the end or records the    *)
(* key as lost.                                                            *)
LEMMA FlushKeepsDrained ==
  ASSUME NEW ops \in Seq(WriteOps), NEW queued \in Seq(WriteOps), NEW k \in Keys,
         Flush(ops, queued)
  PROVE  /\ lost \subseteq lost'
         /\ \/ k \in lost'
            \/ WriteBatch(db', queued)[k] = WriteBatch(WriteBatch(db, ops), queued)[k]
<1>1. CASE db' = WriteBatch(db, ops) /\ lost' = lost
  BY <1>1
<1>2. CASE db' = db /\ lost' = lost \cup (KeysOf(ops) \ KeysOf(queued))
  <2>1. CASE WritesTo(queued, k) # {} \/ WritesTo(ops, k) = {}
    <3>1. WritesTo(queued, k) # {} \/ db[k] = WriteBatch(db, ops)[k]
      BY <2>1, BatchMiss
    <3>2. WriteBatch(db, queued)[k] = WriteBatch(WriteBatch(db, ops), queued)[k]
      BY <3>1, BatchAgree
    <3>3. WriteBatch(db', queued)[k] = WriteBatch(db, queued)[k]
      BY <1>2
    <3>4. QED
      BY <1>2, <3>2, <3>3
  <2>2. CASE WritesTo(queued, k) = {} /\ WritesTo(ops, k) # {}
    BY <1>2, <2>2 DEF KeysOf
  <2>3. QED
    BY <2>1, <2>2, <1>2
<1>3. QED
  BY <1>1, <1>2 DEF Flush

LEMMA WriterKeepsDrained ==
  ASSUME WriterTypeOK, EndedIsEmpty, WriterNext, NEW k \in Keys
  PROVE  /\ lost \subseteq lost'
         /\ k \in lost' \/ Drained'[k] = Drained[k]
<1>0. /\ chan \in Seq(WriteOps) /\ buffer \in Seq(WriteOps) /\ db \in Rows
      /\ <<>> \in Seq(WriteOps)
  BY DEF WriterTypeOK
<1>1. CASE Recv
  <2> DEFINE ops == Append(buffer, Head(chan))
             t == Tail(chan)
  <2>1. chan # <<>> /\ chan' = t
    BY <1>1 DEF Recv
  <2>2. ops \in Seq(WriteOps) /\ t \in Seq(WriteOps)
    BY <1>0, <2>1, TakeType
  <2>3. WriteBatch(WriteBatch(db, ops), t) = Drained
    BY <2>1, TakeKeepsDrained
  <2>4. CASE Len(ops) >= MaxBatch
    <3>1. Flush(ops, t)
      BY <1>1, <2>4 DEF Recv
    <3>2. buffer' = <<>>
      BY <3>1 DEF Flush
    <3>3. db' \in Rows
      <4> HIDE DEF ops, t
      <4>1. QED
        BY <1>0, <2>2, <3>1, BatchType DEF Flush
    <3>4. Drained' = WriteBatch(db', t)
      BY <2>1, <3>2, <3>3, BatchEmpty DEF Drained
    <3> HIDE DEF ops, t
    <3>5. QED
      BY <2>2, <2>3, <3>1, <3>4, FlushKeepsDrained
  <2>5. CASE ~(Len(ops) >= MaxBatch)
    <3>1. buffer' = ops /\ db' = db /\ lost' = lost
      BY <1>1, <2>5 DEF Recv
    <3>2. Drained' = WriteBatch(WriteBatch(db, ops), t)
      BY <2>1, <3>1 DEF Drained
    <3>3. QED
      BY <2>3, <3>1, <3>2
  <2>6. QED
    BY <2>4, <2>5
<1>2. CASE Tick
  <2>1. Flush(buffer, chan) /\ chan' = chan
    BY <1>2 DEF Tick
  <2>2. buffer' = <<>> /\ db' \in Rows
    BY <1>0, <2>1, BatchType DEF Flush
  <2>3. Drained' = WriteBatch(db', chan)
    BY <2>1, <2>2, BatchEmpty DEF Drained
  <2>4. QED
    BY <1>0, <2>1, <2>3, FlushKeepsDrained DEF Drained
<1>3. CASE Stop
  <2>1. Flush(buffer, <<>>) /\ chan' = <<>> /\ chan = <<>>
    BY <1>3 DEF Stop
  <2>2. buffer' = <<>> /\ db' \in Rows
    BY <1>0, <2>1, BatchType DEF Flush
  <2>3. Drained' = WriteBatch(db', <<>>)
    BY <2>1, <2>2, BatchEmpty DEF Drained
  <2>4. QED
    BY <1>0, <2>1, <2>3, FlushKeepsDrained DEF Drained
<1>4. CASE Panic
  <2>1. /\ buffer' = buffer /\ db' = db /\ chan' = <<>>
        /\ lost' = lost \cup KeysOf(chan)
    BY <1>4 DEF Panic
  <2>2. WriteBatch(db, buffer) \in Rows
    BY <1>0, BatchType
  <2>3. Drained' = WriteBatch(db, buffer)
    BY <2>1, <2>2, BatchEmpty DEF Drained
  <2>4. CASE WritesTo(chan, k) = {}
    BY <2>1, <2>3, <2>4, BatchMiss DEF Drained
  <2>5. CASE WritesTo(chan, k) # {}
    BY <2>1, <2>5 DEF KeysOf
  <2>6. QED
    BY <2>1, <2>4, <2>5
<1>5. QED
  BY <1>1, <1>2, <1>3, <1>4 DEF WriterNext

(* A task that has ended left nothing behind.                              *)
LEMMA EndedStep ==
  ASSUME TypeOK, EndedIsEmpty, [Next]_vars
  PROVE  EndedIsEmpty'
<1> USE DEF EndedIsEmpty
<1>1. ASSUME NEW c \in Clients, Submit(c) \/ Abandon(c) PROVE EndedIsEmpty'
  BY <1>1 DEF Submit, Deliver, Refused, Park, Abandon, Send, SendFails,
     ReceiverGone, writerVars
<1>2. ASSUME NEW c \in Clients, NEW k \in Keys,
             (\E w \in Weights : Index(c, k, w)) \/ Delete(c, k) \/ DeleteMissing(c, k)
      PROVE  EndedIsEmpty'
  BY <1>2 DEF Index, Delete, DeleteMissing, Mutate, writerVars
<1>3. ASSUME WriterNext PROVE EndedIsEmpty'
  BY <1>3 DEF WriterNext, Recv, Tick, Stop, Panic, Flush
<1>4. ASSUME NEW ms \in FlushIntervals, Open(ms) PROVE EndedIsEmpty'
  BY <1>4 DEF Open, Spawn
<1>5. ASSUME Shutdown \/ DropEngine \/ JoinReturns PROVE EndedIsEmpty'
  BY <1>5 DEF Shutdown, DropEngine, JoinReturns, writerVars
<1>6. ASSUME Crash PROVE EndedIsEmpty'
  BY <1>6 DEF Crash, WriterCrash
<1>7. ASSUME UNCHANGED vars PROVE EndedIsEmpty'
  BY <1>7 DEF vars, writerVars
<1>8. QED
  BY <1>1, <1>2, <1>3, <1>4, <1>5, <1>6, <1>7 DEF Next, WriterStep

(* No call outlives its engine.                                            *)
LEMMA QuietStep ==
  ASSUME TypeOK, QuietUnlessOpen, [Next]_vars
  PROVE  QuietUnlessOpen'
<1> USE DEF QuietUnlessOpen, AllAtRest
<1>1. ASSUME NEW c \in Clients, Submit(c) \/ Abandon(c) PROVE QuietUnlessOpen'
  <2>1. InFlight(c) /\ phase' = phase
    BY <1>1 DEF Submit, Deliver, Refused, Park, Abandon, Finish, InFlight
  <2>2. QED
    BY <2>1
<1>2. ASSUME NEW c \in Clients, NEW k \in Keys,
             (\E w \in Weights : Index(c, k, w)) \/ Delete(c, k) \/ DeleteMissing(c, k)
      PROVE  QuietUnlessOpen'
  BY <1>2 DEF Index, Delete, DeleteMissing, Mutate, Ready
<1>3. ASSUME WriterStep \/ UNCHANGED vars PROVE QuietUnlessOpen'
  BY <1>3 DEF WriterStep, engineVars, vars, InFlight
<1>4. ASSUME NEW ms \in FlushIntervals, Open(ms) PROVE QuietUnlessOpen'
  BY <1>4 DEF Open
<1>5. ASSUME Shutdown \/ DropEngine \/ JoinReturns PROVE QuietUnlessOpen'
  BY <1>5 DEF Shutdown, DropEngine, JoinReturns, InFlight
<1>6. ASSUME Crash PROVE QuietUnlessOpen'
  BY <1>6 DEF Crash, InFlight
<1>7. QED
  BY <1>1, <1>2, <1>3, <1>4, <1>5, <1>6 DEF Next

(* Starting a call on a key it owns leaves the other calls' writes right,  *)
(* and the key with a call in flight.                                      *)
LEMMA MutateKeeps ==
  ASSUME SerialOwners, IInv, NEW c \in Clients, NEW k \in Owns[c], NEW v \in Values,
         ~InFlight(c), Mutate(c, k, v)
  PROVE  CarriesTotal' /\ DrainConverges'
<1>1. /\ k \in Keys /\ trie \in Rows
      /\ trie' = [trie EXCEPT ![k] = v]
      /\ status' = [status EXCEPT ![c] = "mutated"]
      /\ op' = [op EXCEPT ![c] = [key |-> k, value |-> v]]
      /\ status \in [Clients -> Outcomes \cup {"mutated", "waiting"}]
      /\ op \in [Clients -> WriteOps \cup {NoOp}]
  BY EngineAssumption DEF Mutate, IInv, TypeOK
<1>2. /\ InFlight(c)' /\ op'[c].key = k /\ op'[c].value = v /\ trie'[k] = v
      /\ \A d \in Clients \ {c} :
           op'[d] = op[d] /\ (InFlight(d)' <=> InFlight(d))
      /\ \A j \in Keys \ {k} : trie'[j] = trie[j]
  BY <1>1 DEF InFlight, Rows
<1>3. ASSUME NEW d \in Clients, InFlight(d)'
      PROVE  op'[d].key \in Owns[d] /\ trie'[op'[d].key] = op'[d].value
  <2>1. CASE d = c
    BY <1>2, <2>1
  <2>2. CASE d # c
    <3>1. op[d].key \in Owns[d] /\ trie[op[d].key] = op[d].value
      BY <1>2, <1>3, <2>2 DEF IInv, CarriesTotal
    <3>2. op[d].key # k /\ op[d].key \in Keys
      BY <2>2, <3>1, EngineAssumption DEF SerialOwners
    <3>3. QED
      BY <1>2, <2>2, <3>1, <3>2
  <2>3. QED
    BY <2>1, <2>2
<1>4. phase' = phase /\ lost' = lost /\ Drained' = Drained
  BY DEF Mutate, writerVars, Drained
<1>5. ASSUME phase # "crashed", NEW j \in Keys
      PROVE  \/ \E d \in Clients : InFlight(d)' /\ op'[d].key = j
             \/ j \in lost' \/ Drained'[j] = trie'[j]
  <2>1. CASE j = k
    BY <1>2, <2>1
  <2>2. CASE j # k
    <3>1. \/ \E d \in Clients : InFlight(d) /\ op[d].key = j
          \/ j \in lost \/ Drained[j] = trie[j]
      BY <1>5 DEF IInv, DrainConverges
    <3>2. \A d \in Clients : InFlight(d) => d # c
      OBVIOUS
    <3>3. QED
      BY <1>2, <1>4, <2>2, <3>1, <3>2
  <2>3. QED
    BY <2>1, <2>2
<1>6. QED
  BY <1>3, <1>4, <1>5 DEF CarriesTotal, DrainConverges

(* Ending a call keeps the writes of the others right, and settles its own *)
(* key if that key's row is what the write said, or is recorded as lost.   *)
LEMMA FinishKeeps ==
  ASSUME IInv, NEW c \in Clients, NEW outcome \in Outcomes,
         InFlight(c), Finish(c, outcome),
         op[c].key \in lost' \/ Drained'[op[c].key] = op[c].value,
         \A k \in Keys \ {op[c].key} :
           (k \in lost => k \in lost') /\ Drained'[k] = Drained[k]
  PROVE  CarriesTotal' /\ DrainConverges'
<1>1. /\ trie' = trie /\ phase' = phase
      /\ status' = [status EXCEPT ![c] = outcome]
      /\ op' = [op EXCEPT ![c] = NoOp]
      /\ status \in [Clients -> Outcomes \cup {"mutated", "waiting"}]
      /\ op \in [Clients -> WriteOps \cup {NoOp}]
  BY DEF Finish, IInv, TypeOK
<1>2. /\ ~InFlight(c)'
      /\ \A d \in Clients \ {c} :
           op'[d] = op[d] /\ (InFlight(d)' <=> InFlight(d))
  BY <1>1 DEF InFlight, Outcomes
<1>3. CarriesTotal'
  BY <1>1, <1>2 DEF IInv, CarriesTotal
<1>4. trie[op[c].key] = op[c].value
  BY DEF IInv, CarriesTotal
<1>5. ASSUME phase # "crashed", NEW j \in Keys
      PROVE  \/ \E d \in Clients : InFlight(d)' /\ op'[d].key = j
             \/ j \in lost' \/ Drained'[j] = trie'[j]
  <2>1. CASE j = op[c].key
    BY <1>1, <1>4, <2>1
  <2>2. CASE j # op[c].key
    <3>1. \/ \E d \in Clients : InFlight(d) /\ op[d].key = j
          \/ j \in lost \/ Drained[j] = trie[j]
      BY <1>5 DEF IInv, DrainConverges
    <3>2. \A d \in Clients : op[d].key = j => d # c
      BY <2>2
    <3>3. QED
      BY <1>1, <1>2, <2>2, <3>1, <3>2
  <2>3. QED
    BY <2>1, <2>2
<1>6. QED
  BY <1>1, <1>3, <1>5 DEF DrainConverges

(* A step that leaves the calls, the tries and the rows to come alone.     *)
LEMMA CallsUnchangedKeep ==
  ASSUME IInv, UNCHANGED <<trie, op>>,
         \A c \in Clients : InFlight(c)' <=> InFlight(c),
         phase' # "crashed" => phase # "crashed",
         \A k \in Keys :
           (k \in lost => k \in lost') /\ (k \in lost' \/ Drained'[k] = Drained[k])
  PROVE  CarriesTotal' /\ DrainConverges'
BY DEF IInv, CarriesTotal, DrainConverges

LEMMA InvStep ==
  ASSUME SerialOwners, IInv, [Next]_vars
  PROVE  IInv'
<1>1. TypeOK' /\ EndedIsEmpty' /\ QuietUnlessOpen'
  BY TypeStep, EndedStep, QuietStep DEF IInv
<1>2. WriterTypeOK /\ CallsOK
  BY TypeParts DEF IInv
<1>3. /\ db \in Rows /\ buffer \in Seq(WriteOps) /\ chan \in Seq(WriteOps)
      /\ WriteBatch(db, buffer) \in Rows /\ Drained \in Rows
  BY <1>2, BatchType DEF WriterTypeOK, Drained
<1>4. ASSUME NEW c \in Clients, NEW k \in Keys, NEW w \in Weights, Index(c, k, w)
      PROVE  CarriesTotal' /\ DrainConverges'
  <2>1. Bump(trie[k], w) \in Values
    BY <1>2, BumpType DEF CallsOK, Rows
  <2>2. QED
    BY <1>4, <2>1, MutateKeeps DEF Index, Ready
<1>5. ASSUME NEW c \in Clients, NEW k \in Keys, Delete(c, k)
      PROVE  CarriesTotal' /\ DrainConverges'
  <2>1. Absent \in Values
    BY DEF Values
  <2>2. QED
    BY <1>5, <2>1, MutateKeeps DEF Delete, Ready
<1>6. ASSUME NEW c \in Clients, NEW k \in Keys, DeleteMissing(c, k)
      PROVE  CarriesTotal' /\ DrainConverges'
  <2>1. \A d \in Clients : InFlight(d)' <=> InFlight(d)
    BY <1>2, <1>6 DEF DeleteMissing, Ready, InFlight, CallsOK
  <2>2. /\ UNCHANGED <<trie, op, phase, lost>> /\ Drained' = Drained
    BY <1>6 DEF DeleteMissing, writerVars, Drained
  <2>3. QED
    BY <2>1, <2>2, CallsUnchangedKeep
<1>7. ASSUME NEW c \in Clients, Deliver(c)
      PROVE  CarriesTotal' /\ DrainConverges'
  <2>1. op[c] \in WriteOps /\ op[c].key \in Keys
    BY <1>2, <1>7, InFlightOp DEF Deliver
  <2>2. /\ chan' = Append(chan, op[c]) /\ lost' = lost \ {op[c].key}
        /\ UNCHANGED <<buffer, db>>
    BY <1>7 DEF Deliver, Send
  <2>3. Drained' = [Drained EXCEPT ![op[c].key] = op[c].value]
    <3> DEFINE base == WriteBatch(db, buffer)
               o == op[c]
    <3>1. WriteBatch(base, Append(chan, o)) = [WriteBatch(base, chan) EXCEPT ![o.key] = o.value]
      <4> HIDE DEF base, o
      <4>1. base \in Rows /\ o \in WriteOps
        BY <1>3, <2>1 DEF base, o
      <4>2. QED
        BY <1>3, <4>1, BatchAppend
    <3>2. Drained' = WriteBatch(base, Append(chan, o))
      BY <2>2 DEF Drained
    <3>3. QED
      BY <3>1, <3>2 DEF Drained
  <2>4. /\ Drained'[op[c].key] = op[c].value
        /\ \A k \in Keys \ {op[c].key} : Drained'[k] = Drained[k]
    BY <1>3, <2>1, <2>3 DEF Rows
  <2>5. QED
    BY <1>7, <2>2, <2>4, FinishKeeps DEF Deliver, Outcomes
<1>8. ASSUME NEW c \in Clients, Refused(c) \/ Abandon(c)
      PROVE  CarriesTotal' /\ DrainConverges'
  <2>1. /\ lost' = lost \cup {op[c].key} /\ Drained' = Drained
        /\ InFlight(c) /\ \E outcome \in Outcomes : Finish(c, outcome)
    BY <1>8 DEF Refused, Abandon, SendFails, Drained, InFlight, Outcomes
  <2>2. QED
    BY <2>1, FinishKeeps
<1>9. ASSUME NEW c \in Clients, Park(c)
      PROVE  CarriesTotal' /\ DrainConverges'
  <2>1. \A d \in Clients : InFlight(d)' <=> InFlight(d)
    BY <1>2, <1>9 DEF Park, InFlight, CallsOK
  <2>2. /\ UNCHANGED <<trie, op, phase, lost>> /\ Drained' = Drained
    BY <1>9 DEF Park, writerVars, Drained
  <2>3. QED
    BY <2>1, <2>2, CallsUnchangedKeep
<1>10. ASSUME WriterStep
       PROVE  CarriesTotal' /\ DrainConverges'
  <2>1. \A k \in Keys : /\ lost \subseteq lost'
                        /\ k \in lost' \/ Drained'[k] = Drained[k]
    BY <1>2, <1>10, WriterKeepsDrained DEF WriterStep, IInv
  <2>2. UNCHANGED <<trie, op, phase, status>>
    BY <1>10 DEF WriterStep, engineVars
  <2>3. \A d \in Clients : InFlight(d)' <=> InFlight(d)
    BY <2>2 DEF InFlight
  <2>4. QED
    BY <2>1, <2>2, <2>3, CallsUnchangedKeep
<1>11. ASSUME NEW ms \in FlushIntervals, Open(ms)
       PROVE  CarriesTotal' /\ DrainConverges'
  <2>1. /\ trie' = db /\ db' = db /\ buffer' = <<>> /\ chan' = <<>>
        /\ \A d \in Clients : ~InFlight(d)'
    BY <1>11 DEF Open, Spawn, InFlight
  <2>2. Drained' = db
    BY <1>3, <2>1, BatchEmpty DEF Drained
  <2>3. QED
    BY <2>1, <2>2 DEF CarriesTotal, DrainConverges
<1>12. ASSUME Shutdown \/ DropEngine \/ JoinReturns
       PROVE  CarriesTotal' /\ DrainConverges'
  <2>1. /\ UNCHANGED <<trie, op, status, lost>> /\ Drained' = Drained
        /\ phase # "crashed"
    BY <1>12 DEF Shutdown, DropEngine, JoinReturns, writerVars, Drained
  <2>2. \A d \in Clients : InFlight(d)' <=> InFlight(d)
    BY <2>1 DEF InFlight
  <2>3. QED
    BY <2>1, <2>2, CallsUnchangedKeep
<1>13. ASSUME Crash
       PROVE  CarriesTotal' /\ DrainConverges'
  BY <1>13 DEF Crash, CarriesTotal, DrainConverges, InFlight
<1>14. ASSUME UNCHANGED vars
       PROVE  CarriesTotal' /\ DrainConverges'
  <2>1. UNCHANGED <<trie, op, phase, status, lost>> /\ Drained' = Drained
    BY <1>14 DEF vars, writerVars, engineVars, Drained
  <2>2. \A d \in Clients : InFlight(d)' <=> InFlight(d)
    BY <2>1 DEF InFlight
  <2>3. QED
    BY <2>1, <2>2, CallsUnchangedKeep
<1>15. CarriesTotal' /\ DrainConverges'
  BY <1>4, <1>5, <1>6, <1>7, <1>8, <1>9, <1>10, <1>11, <1>12, <1>13, <1>14
  DEF Next, Submit
<1>16. QED
  BY <1>1, <1>15 DEF IInv

LEMMA InvInit == Init => IInv
<1> SUFFICES ASSUME Init PROVE IInv
  OBVIOUS
<1>1. TypeOK
  BY TypeInit
<1>2. NoRows \in Rows
  BY DEF NoRows, Rows, Values
<1>3. Drained = NoRows
  BY <1>2, BatchEmpty DEF Init, Drained
<1>4. QED
  BY <1>1, <1>3 DEF Init, IInv, CarriesTotal, EndedIsEmpty, QuietUnlessOpen,
     AllAtRest, DrainConverges, InFlight

(* When no two clients write the same term, the disk converges to the      *)
(* tries (DrainConverges): whatever batches fail, calls are abandoned and  *)
(* engines are opened and closed, a term that is not being written and     *)
(* whose latest write was not discarded is on disk, or in the queue, as    *)
(* the trie has it.  Without SerialOwners the code does not guarantee it.  *)
THEOREM Convergence ==
  ASSUME SerialOwners
  PROVE  Spec => []DrainConverges
<1>1. Init => IInv
  BY InvInit
<1>2. IInv /\ [Next]_vars => IInv'
  BY InvStep
<1>3. IInv => DrainConverges
  BY DEF IInv
<1>4. QED
  BY <1>1, <1>2, <1>3, PTL DEF Spec

(* Under the same condition an engine opened where another was shut down,  *)
(* or was dropped and its writer has ended, starts with the terms that one *)
(* held, those whose latest write was discarded excepted                   *)
(* (RestartKeepsMemory).                                                   *)
THEOREM RestartCorrect ==
  ASSUME SerialOwners
  PROVE  Spec => RestartKeepsMemory
<1> DEFINE Reopens == phase \in {"closed", "dropped"} /\ phase' = "open"
           Keeps == \A k \in Keys \ lost : trie'[k] = trie[k]
<1>1. Init => IInv
  BY InvInit
<1>2. IInv /\ [Next]_vars => IInv'
  BY InvStep
<1>3. IInv /\ [Next]_vars => [Reopens => Keeps]_vars
  <2> SUFFICES ASSUME IInv, [Next]_vars, Reopens
               PROVE  Keeps
    OBVIOUS
  <2>1. PICK ms \in FlushIntervals : Open(ms)
    BY DEF Next, Submit, Deliver, Refused, Park, Abandon, Finish, Index, Delete,
       DeleteMissing, Mutate, WriterStep, engineVars, Shutdown, JoinReturns,
       DropEngine, Crash, vars, Ready
  <2>2. trie' = db /\ task \in {"stopped", "panicked"}
    BY <2>1 DEF Open, HoldsDatabase, IInv, TypeOK, WriterTypeOK
  <2>3. chan = <<>> /\ buffer = <<>> /\ db \in Rows
    BY <2>2 DEF IInv, EndedIsEmpty, TypeOK, WriterTypeOK
  <2>4. Drained = db
    BY <2>3, BatchEmpty DEF Drained
  <2>5. \A c \in Clients : ~InFlight(c)
    BY DEF IInv, QuietUnlessOpen, AllAtRest
  <2>6. QED
    BY <2>2, <2>4, <2>5 DEF IInv, DrainConverges
<1>4. QED
  BY <1>1, <1>2, <1>3, PTL DEF Spec, RestartKeepsMemory

----------------------------------------------------------------------------
(* Refinement.  The log's pending writes are the buffer and the channel    *)
(* behind it; WriteLog takes its step when a write is sent, when a batch   *)
(* is flushed or refused, and when a task or a process dies.               *)

Pending == buffer \o chan

(* Splitting a log where two parts of it meet.                             *)
LEMMA SplitConcat ==
  ASSUME NEW S, NEW s \in Seq(S), NEW t \in Seq(S)
  PROVE  /\ SubSeq(s \o t, 1, Len(s)) = s
         /\ SubSeq(s \o t, Len(s) + 1, Len(s \o t)) = t
         /\ Len(s) \in Nat /\ Len(s \o t) = Len(s) + Len(t)
<1>1. s \o t \in Seq(S) /\ Len(s \o t) = Len(s) + Len(t) /\ Len(s) \in Nat /\ Len(t) \in Nat
  BY ConcatProperties
<1>2. SubSeq(s \o t, 1, Len(s)) = s
  BY <1>1, SubSeqOfConcat1, SubSeqFull
<1>3. SubSeq(s \o t, Len(s) + 1, Len(s \o t)) = t
  BY <1>1, SubSeqOfConcat2, SubSeqFull
<1>4. QED
  BY <1>1, <1>2, <1>3

(* WriteLog has its own instance of Storage, which says the same.          *)
LEMMA SameStorage ==
  /\ Log!WriteOps = WriteOps
  /\ Log!NoRows = NoRows
  /\ \A rows, ops : Log!WriteBatch(rows, ops) = WriteBatch(rows, ops)
<1>1. Log!WriteOps = WriteOps
  BY DEF Log!WriteOps, WriteOps, Log!Values, Values, Log!Freqs, Freqs
<1>2. Log!NoRows = NoRows
  BY DEF Log!NoRows, NoRows
<1>3. \A ops, k : Log!WritesTo(ops, k) = WritesTo(ops, k)
  BY DEF Log!WritesTo, WritesTo
<1>4. \A ops, k : Log!LastWriteTo(ops, k) = LastWriteTo(ops, k)
  BY <1>3 DEF Log!LastWriteTo, LastWriteTo
<1>5. \A rows, ops : Log!WriteBatch(rows, ops) = WriteBatch(rows, ops)
  BY <1>3, <1>4 DEF Log!WriteBatch, WriteBatch
<1>6. QED
  BY <1>1, <1>2, <1>5

(* A flush of the oldest writes is a batch of the log, or stutters.        *)
LEMMA FlushRefines ==
  ASSUME NEW ops \in Seq(WriteOps), NEW queued \in Seq(WriteOps),
         Flush(ops, queued), chan' = queued, ops \o queued = Pending,
         Len(ops) <= MaxBatch, db \in Rows
  PROVE  [Log!Next]_Log!logVars
<1> DEFINE n == Len(ops)
<1>1. /\ Log!Oldest(n) = ops /\ Log!Others(n) = queued
      /\ n \in Nat /\ Len(Pending) = n + Len(queued) /\ Len(queued) \in Nat
  <2>1. /\ SubSeq(ops \o queued, 1, n) = ops
        /\ SubSeq(ops \o queued, n + 1, Len(ops \o queued)) = queued
        /\ n \in Nat /\ Len(ops \o queued) = n + Len(queued) /\ Len(queued) \in Nat
    BY SplitConcat
  <2>2. buffer \o chan = ops \o queued
    BY DEF Pending
  <2>3. QED
    BY <2>1, <2>2 DEF Log!Oldest, Log!Others, Pending
<1>2. Pending' = queued
  BY DEF Flush, Pending
<1>3. CASE n = 0
  <2>1. ops = <<>>
    BY <1>3
  <2>2. Pending' = Pending
    BY <1>2, <2>1
  <2>3. db' = db
    BY <2>1, BatchEmpty DEF Flush
  <2>4. QED
    BY <2>2, <2>3 DEF Log!logVars, Pending
<1>4. CASE n # 0
  <2>1. n \in 1..Len(Pending) /\ n <= MaxBatch
    BY <1>1, <1>4
  <2>2. Log!Persist(n) \/ Log!Refuse(n)
    <3>1. CASE TRUE \in FlushOutcomes /\ db' = WriteBatch(db, ops)
      BY <1>1, <1>2, <3>1, SameStorage DEF Log!Persist, Pending
    <3>2. CASE FALSE \in FlushOutcomes /\ db' = db
      BY <1>1, <1>2, <3>2 DEF Log!Refuse, Pending
    <3>3. QED
      BY <3>1, <3>2 DEF Flush
  <2>3. QED
    BY <2>1, <2>2 DEF Log!Next, Pending
<1>5. QED
  BY <1>3, <1>4

LEMMA LogInit == Init => Log!Init
BY SameStorage DEF Init, Log!Init

LEMMA LogStep ==
  ASSUME TypeOK, TypeOK', EndedIsEmpty, [Next]_vars
  PROVE  [Log!Next]_Log!logVars
<1>1. WriterTypeOK /\ CallsOK
  BY TypeParts
<1>2. chan \in Seq(WriteOps) /\ buffer \in Seq(WriteOps) /\ db \in Rows
  BY <1>1 DEF WriterTypeOK
<1>3. ASSUME NEW c \in Clients, Deliver(c)
      PROVE  Log!Next
  <2>1. op[c] \in WriteOps
    BY <1>1, <1>3, InFlightOp DEF Deliver
  <2>2. chan' = Append(chan, op[c]) /\ buffer' = buffer /\ db' = db
    BY <1>3 DEF Deliver, Send
  <2>3. buffer \o Append(chan, op[c]) = Append(buffer \o chan, op[c])
    BY <1>2, <2>1
  <2>4. Log!Accept(op[c])
    BY <2>2, <2>3 DEF Log!Accept
  <2>5. QED
    BY <2>1, <2>4, SameStorage DEF Log!Next
<1>4. CASE Recv
  <2> DEFINE ops == Append(buffer, Head(chan))
             t == Tail(chan)
  <2>1. chan # <<>> /\ chan' = t
    BY <1>4 DEF Recv
  <2>2. /\ ops \in Seq(WriteOps) /\ t \in Seq(WriteOps)
        /\ Len(ops) = Len(buffer) + 1
    BY <1>2, <2>1, TakeType
  <2>3. ops \o t = buffer \o chan
    <3>1. /\ <<Head(chan)>> \in Seq(WriteOps) /\ ops = buffer \o <<Head(chan)>>
          /\ chan = <<Head(chan)>> \o t
      BY <1>2, <2>1, TakeType
    <3>2. QED
      BY <1>2, <2>2, <3>1, ConcatAssociative
  <2>4. CASE Len(ops) >= MaxBatch
    <3>1. Flush(ops, t) /\ Len(ops) <= MaxBatch
      BY <1>1, <1>4, <2>2, <2>4, WriterAssumption DEF Recv, WriterTypeOK
    <3> HIDE DEF ops, t
    <3>2. QED
      BY <1>2, <2>1, <2>2, <2>3, <3>1, FlushRefines DEF Pending
  <2>5. CASE ~(Len(ops) >= MaxBatch)
    <3>1. buffer' = ops /\ db' = db
      BY <1>4, <2>5 DEF Recv
    <3>2. QED
      BY <2>1, <2>3, <3>1 DEF Log!logVars
  <2>6. QED
    BY <2>4, <2>5
<1>5. CASE Tick
  <2>1. Flush(buffer, chan) /\ chan' = chan /\ Len(buffer) <= MaxBatch
    BY <1>1, <1>5, WriterAssumption DEF Tick, WriterTypeOK
  <2>2. QED
    BY <1>2, <2>1, FlushRefines DEF Pending
<1>6. CASE Stop
  <2>1. /\ Flush(buffer, <<>>) /\ chan = <<>> /\ chan' = <<>>
        /\ Len(buffer) <= MaxBatch /\ <<>> \in Seq(WriteOps)
    BY <1>1, <1>6, WriterAssumption DEF Stop, WriterTypeOK
  <2>2. QED
    BY <1>2, <2>1, FlushRefines DEF Pending
<1>7. CASE Panic
  <2>1. buffer = <<>> /\ buffer' = <<>> /\ chan' = <<>> /\ db' = db
    BY <1>7 DEF Panic, EndedIsEmpty
  <2>2. Log!LoseTail
    BY <2>1 DEF Log!LoseTail
  <2>3. QED
    BY <2>2 DEF Log!Next
<1>8. CASE Crash \/ \E ms \in FlushIntervals : Open(ms)
  <2>1. buffer' = <<>> /\ chan' = <<>> /\ db' = db
    BY <1>8 DEF Crash, WriterCrash, Open, Spawn
  <2>2. Log!LoseTail
    BY <2>1 DEF Log!LoseTail
  <2>3. QED
    BY <2>2 DEF Log!Next
<1>9. ASSUME UNCHANGED <<buffer, chan, db>>
      PROVE  UNCHANGED Log!logVars
  BY <1>9 DEF Log!logVars
<1>10. ASSUME NEW c \in Clients, Refused(c) \/ Park(c) \/ Abandon(c)
       PROVE  UNCHANGED <<buffer, chan, db>>
  BY <1>10 DEF Refused, SendFails, Park, Abandon, writerVars
<1>11. ASSUME NEW c \in Clients, NEW k \in Keys,
              (\E w \in Weights : Index(c, k, w)) \/ Delete(c, k) \/ DeleteMissing(c, k)
       PROVE  UNCHANGED <<buffer, chan, db>>
  BY <1>11 DEF Index, Delete, DeleteMissing, Mutate, writerVars
<1>12. ASSUME Shutdown \/ DropEngine \/ JoinReturns \/ UNCHANGED vars
       PROVE  UNCHANGED <<buffer, chan, db>>
  BY <1>12 DEF Shutdown, DropEngine, JoinReturns, vars, writerVars
<1>13. QED
  BY <1>3, <1>4, <1>5, <1>6, <1>7, <1>8, <1>9, <1>10, <1>11, <1>12
  DEF Next, Submit, WriterStep, WriterNext

LEMMA EndedInit == Init => EndedIsEmpty
BY DEF Init, EndedIsEmpty

(* The write path implements the log (ImplementsLog), whoever writes which *)
(* term: rows change only by the oldest queued writes taking effect        *)
(* together, in order, and no write takes effect twice or overtakes        *)
(* another.                                                                *)
THEOREM LogRefined == Spec => ImplementsLog
<1>1. Init => TypeOK /\ EndedIsEmpty /\ Log!Init
  BY TypeInit, EndedInit, LogInit
<1>2. TypeOK /\ EndedIsEmpty /\ [Next]_vars => TypeOK' /\ EndedIsEmpty'
  BY TypeStep, EndedStep
<1>3. TypeOK /\ TypeOK' /\ EndedIsEmpty /\ [Next]_vars => [Log!Next]_Log!logVars
  BY LogStep
<1>4. QED
  BY <1>1, <1>2, <1>3, PTL DEF Spec, ImplementsLog, Log!Spec
=============================================================================
