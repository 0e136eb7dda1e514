------------------------------ MODULE Service ------------------------------
(***************************************************************************)
(* The service as one caller sees it: requests with any tenant and term,   *)
(* their status codes, the 2 s timeout, and restarts over rows of bytes,   *)
(* some of which the engine never wrote.  It composes validation and       *)
(* encoding (KeyCodec) with a write log in place of the channel and the    *)
(* task (Engine shows that they are one).  RocksDB's own log is not synced,*)
(* so a power failure may take rows back.  With one caller nothing races;  *)
(* Engine and EngineLocks have the races.                                  *)
(***************************************************************************)
EXTENDS KeyCodec, Functions

CONSTANTS Tenants, Terms, Weights,  (* what callers send                    *)
          ForeignRows,     (* the sets of rows, as <<key, value>>, that may *)
                           (* be there before our first start               *)
          ChannelCapacity, MaxBatch,
          MaxImages,       (* bound: the rows since RocksDB last synced     *)
          Faults,          (* "crash", "power", "final flush"               *)
          TrustNotFound,   (* whether the caller takes 404 for "this term   *)
                           (* is not indexed", or for no news               *)
          Absent,
          None

ASSUME ServiceAssumption ==
  /\ {ChannelCapacity, MaxBatch, MaxImages} \subseteq Nat \ {0}
  /\ Faults \subseteq {"crash", "power", "final flush"}
  /\ Tenants \cup Terms \subseteq Seq(Byte)
  /\ \A chosen \in ForeignRows :
       chosen \subseteq Seq(Byte \cup NotUtf8) \X Seq(0..(Base - 1))
  /\ Weights \subseteq Nat /\ TrustNotFound \in BOOLEAN
  /\ Absent \notin Nat

VARIABLES
  phase,    (* "open", "closing" in shutdown, "closed" after it,           *)
            (* "unflushed" when its last flush failed, or "down"            *)
  tries,    (* for each tenant a map from its terms to frequencies          *)
  queue,    (* the writes accepted and not on disk, oldest first            *)
  parked,   (* the write whose request waits for the queue, and its answer  *)
  rows,     (* what RocksDB holds: from keys to values, both bytes          *)
  images,   (* what a power failure may leave                               *)
  told,     (* history: for each pair the frequencies its caller can expect *)
  foreign   (* history: the rows that were there before                     *)

vars == <<phase, tries, queue, parked, rows, images, told, foreign>>
memory == <<tries, queue, parked>>
disk == <<rows, images>>

Pairs == Tenants \X Terms

(* A process ends, and a caller starts a new account.                      *)
Forget == tries' = <<>> /\ queue' = <<>> /\ parked' = None
NoNews == [p \in Pairs |-> {}]

With(f, x, v) == [y \in DOMAIN f \cup {x} |-> IF y = x THEN v ELSE f[y]]

FrequencyIn(held, p) ==
  IF p[1] \in DOMAIN held /\ p[2] \in DOMAIN held[p[1]] THEN held[p[1]][p[2]] ELSE Absent
Frequency(p) == FrequencyIn(tries, p)

----------------------------------------------------------------------------
(* Boot: scan_all, and set on the trie of each row's tenant.               *)

Recognised(held) == {key \in DOMAIN held : /\ DecodeKey(key) # Malformed
                                           /\ DecodeFrequency(held[key]) # Malformed}
RecognisedOf(held, t) == {key \in Recognised(held) : DecodeKey(key)[1] = t}

Replayed(held) ==
  [t \in {DecodeKey(key)[1] : key \in Recognised(held)} |->
    [x \in {DecodeKey(key)[2] : key \in RecognisedOf(held, t)} |->
      DecodeFrequency(held[CHOOSE key \in RecognisedOf(held, t) : DecodeKey(key)[2] = x])]]

(* A start after a shutdown owes the caller what it was told; one after a  *)
(* crash starts a new account.                                             *)
Open ==
  /\ phase \in {"closed", "unflushed", "down"}
  /\ phase' = "open"
  /\ tries' = Replayed(rows)
  /\ queue' = <<>> /\ parked' = None
  /\ told' = IF phase = "down" THEN [p \in Pairs |-> {FrequencyIn(Replayed(rows), p)}]
                              ELSE told
  /\ UNCHANGED <<disk, foreign>>

Init ==
  /\ phase = "down"
  /\ tries = <<>> /\ queue = <<>> /\ parked = None
  /\ \E chosen \in ForeignRows :
       rows = [key \in {r[1] : r \in chosen} |-> (CHOOSE r \in chosen : r[1] = key)[2]]
  /\ images = {rows} /\ foreign = rows
  /\ told = NoNews

----------------------------------------------------------------------------
(* Requests.                                                               *)

Valid(p) == ValidTenant(p[1]) /\ ValidTerm(p[2])
Ready == phase = "open" /\ parked = None

(* insert on a term with frequency f.                                      *)
Bumped(f, w) ==
  LET sum == (IF f = Absent THEN 0 ELSE f) + w IN IF sum > MaxFreq THEN MaxFreq ELSE sum

Submit_IgnoresCapacity(p, f, answer) ==
  /\ queue' = Append(queue, [pair |-> p, freq |-> f])
  /\ told' = [told EXCEPT ![p] = answer]
  /\ UNCHANGED parked

(* The channel and the task's buffer are one queue here, and how much the  *)
(* task has taken is left open.                                            *)
HasRoom == Len(queue) < ChannelCapacity + MaxBatch - 1
MayBeFull == Len(queue) >= ChannelCapacity

(* The queue takes the write and the request is answered 202 or 204, or    *)
(* the request waits; the trie has changed by then, so the caller must     *)
(* expect either.                                                          *)
Submit(p, f, answer) ==
  \/ /\ HasRoom
     /\ queue' = Append(queue, [pair |-> p, freq |-> f])
     /\ told' = [told EXCEPT ![p] = answer]
     /\ UNCHANGED parked
  \/ /\ MayBeFull
     /\ parked' = [pair |-> p, freq |-> f, answer |-> answer]
     /\ told' = [told EXCEPT ![p] = @ \cup answer]
     /\ UNCHANGED queue

(* 202.  400 for a pair that is not Valid, before anything changes.        *)
Index(p, w) ==
  LET t == p[1]
      f == Bumped(Frequency(p), w)
      old == IF t \in DOMAIN tries THEN tries[t] ELSE <<>>
  IN  /\ Ready /\ Valid(p)
      /\ tries' = With(tries, t, With(old, p[2], f))
      /\ Submit(p, f, {Bumped(g, w) : g \in told[p]})
      /\ UNCHANGED <<phase, disk, foreign>>

(* 204.  The tenant stays, if only until the next start.                   *)
Delete(p) ==
  LET t == p[1]
  IN  /\ Ready /\ Valid(p)
      /\ Frequency(p) # Absent
      /\ tries' = [tries EXCEPT ![t] = Restrict(@, DOMAIN @ \ {p[2]})]
      /\ Submit(p, Absent, {Absent})
      /\ UNCHANGED <<phase, disk, foreign>>

(* 404: nothing is submitted.                                              *)
DeleteMissing(p) ==
  /\ Ready /\ Valid(p)
  /\ Frequency(p) = Absent
  /\ told' = IF TrustNotFound THEN [told EXCEPT ![p] = {Absent}] ELSE told
  /\ UNCHANGED <<phase, memory, disk, foreign>>

(* There is room in the queue again: the request is answered after all.    *)
Resume ==
  /\ parked # None
  /\ HasRoom
  /\ queue' = Append(queue, [pair |-> parked.pair, freq |-> parked.freq])
  /\ told' = [told EXCEPT ![parked.pair] = parked.answer]
  /\ parked' = None
  /\ UNCHANGED <<phase, tries, disk, foreign>>

(* 408: the request is dropped where it waits, and its write with it.  The *)
(* caller does not know what has become of it, and may try again.          *)
TimeOut ==
  /\ parked # None
  /\ parked' = None
  /\ UNCHANGED <<phase, tries, queue, disk, told, foreign>>

----------------------------------------------------------------------------
(* The disk.                                                               *)

WriteRow(held, op) ==
  LET key == EncodeKey(op.pair[1], op.pair[2])
  IN  IF op.freq = Absent THEN Restrict(held, DOMAIN held \ {key})
                          ELSE With(held, key, EncodeFrequency(op.freq))

(* write_batch: the oldest n writes, together, into RocksDB's log.         *)
Persist(n) ==
  /\ phase \in {"open", "closing"} /\ n <= Len(queue)
  /\ Cardinality(images) < MaxImages
  /\ rows' = FoldLeft(WriteRow, rows, SubSeq(queue, 1, n))
  /\ images' = images \cup {rows'}
  /\ queue' = SubSeq(queue, n + 1, Len(queue))
  /\ UNCHANGED <<phase, tries, parked, told, foreign>>

(* The operating system, or RocksDB, has written back what there is.       *)
Sync ==
  /\ images' = {rows}
  /\ UNCHANGED <<phase, memory, rows, told, foreign>>

Shutdown ==
  /\ Ready
  /\ phase' = "closing"
  /\ UNCHANGED <<memory, disk, told, foreign>>

Stop_WithoutFlush ==
  /\ phase = "closing" /\ queue = <<>>
  /\ phase' = "closed"
  /\ Forget
  /\ UNCHANGED <<disk, told, foreign>>

(* The task ends with storage.flush, and join returns.  A flush that fails *)
(* is only logged.                                                         *)
Stop ==
  /\ phase = "closing" /\ queue = <<>>
  /\ \/ phase' = "closed" /\ images' = {rows}
     \/ "final flush" \in Faults /\ phase' = "unflushed" /\ UNCHANGED images
  /\ Forget
  /\ UNCHANGED <<rows, told, foreign>>

(* The process ends: the queue is gone, the rows are RocksDB's.            *)
Crash ==
  /\ "crash" \in Faults
  /\ phase \in {"open", "closing"}
  /\ phase' = "down"
  /\ Forget
  /\ told' = NoNews
  /\ UNCHANGED <<disk, foreign>>

(* The machine stops, with the process or without one.                     *)
PowerFailure ==
  /\ "power" \in Faults
  /\ rows' \in images
  /\ images' = {rows'}
  /\ IF phase = "closed" THEN UNCHANGED <<phase, told>>
                         ELSE phase' = "down" /\ told' = NoNews
  /\ Forget
  /\ UNCHANGED foreign

Next ==
  \/ \E p \in Pairs : (\E w \in Weights : Index(p, w)) \/ Delete(p) \/ DeleteMissing(p)
  \/ Resume \/ TimeOut
  \/ \E n \in 1..MaxBatch : Persist(n)
  \/ Sync \/ Open \/ Shutdown \/ Stop \/ Crash \/ PowerFailure

Spec == Init /\ [][Next]_vars

----------------------------------------------------------------------------
(* Safety.                                                                 *)

(* The disk holds bytes, also after a power failure; the room in the queue *)
(* is kept to, and frequencies are u64s.                                   *)
ServiceTypeOK ==
  /\ phase \in {"open", "closing", "closed", "unflushed", "down"}
  /\ Len(queue) < ChannelCapacity + MaxBatch
  /\ parked # None => phase = "open" /\ parked.pair \in Pairs
  /\ rows \in images /\ Cardinality(images) <= MaxImages
  /\ \A held \in images : \A key \in DOMAIN held :
       key \in Seq(Byte \cup NotUtf8) /\ held[key] \in Seq(0..(Base - 1))
  /\ \A p \in Pairs : Frequency(p) \in 0..MaxFreq \cup {Absent}

(* The answers are kept: a term has the frequency its caller can work out  *)
(* from them, where 202 and 204 are certain, 408 may or may not have       *)
(* happened, 400 changes nothing, and 404 says what TrustNotFound says;    *)
(* across timeouts and retries, over shutdown, a power failure after it,   *)
(* and the start that follows, with rows of other programs among ours.     *)
AnswersHold ==
  phase = "open" => \A p \in Pairs : Frequency(p) \in told[p]

(* A key in UTF-8 with one separator, between a tenant and a term of ours. *)
LooksOurs(key) ==
  /\ BytesOf(key) \cap NotUtf8 = {}
  /\ \E i \in 2..(Len(key) - 1) :
       /\ key[i] = Sep
       /\ \A j \in DOMAIN key \ {i} : key[j] # Sep
       /\ \A j \in 1..(i - 1) : key[j] \notin Unroutable

(* Rows that no request may name are never written or removed, by any      *)
(* sequence of requests, though they are read at every start (scan_all:    *)
(* "Skip rather than abort boot").                                         *)
ForeignRowsStay ==
  \A key \in DOMAIN foreign :
    ~LooksOurs(key) => key \in DOMAIN rows /\ rows[key] = foreign[key]
=============================================================================
