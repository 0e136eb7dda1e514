--------------------------- MODULE ServiceProofs ---------------------------
(***************************************************************************)
(* What the answers of the service are worth, for any tenants, terms,      *)
(* weights, capacities and foreign rows.                                   *)
(***************************************************************************)
EXTENDS Service, KeyCodecProofs, FiniteSetTheorems, TLAPS

Freqs == 0..MaxFreq \cup {Absent}
ValidPairs == {p \in Pairs : Valid(p)}
Writes == [pair : ValidPairs, freq : Freqs]
Waiting == [pair : ValidPairs, freq : Freqs, answer : SUBSET Freqs]

(* What RocksDB may hold.                                                  *)
Keys == Seq(Byte \cup NotUtf8)
Values == Seq(0..(Base - 1))
Rows == UNION {[K -> Values] : K \in SUBSET Keys}

(* What a start makes of the row of a pair.                                *)
RowFrequency(held, p) == FrequencyIn(Replayed(held), p)

----------------------------------------------------------------------------
(* The invariant.                                                          *)

CallTypes ==
  /\ queue \in Seq(Writes) /\ Len(queue) < ChannelCapacity + MaxBatch
  /\ parked # None => phase = "open" /\ parked \in Waiting
  /\ told \in [Pairs -> SUBSET Freqs]

Types ==
  /\ phase \in {"open", "closing", "closed", "unflushed", "down"}
  /\ CallTypes
  /\ phase \notin {"open", "closing"} => queue = <<>>
  /\ \A p \in Pairs : Frequency(p) \in Freqs

(* After a power failure there is one of the images; once the last flush   *)
(* has succeeded there is but one.                                         *)
Images ==
  /\ images \subseteq Rows /\ rows \in images
  /\ IsFiniteSet(images) /\ Cardinality(images) <= MaxImages
  /\ phase = "closed" => images = {rows}

KeepsForeign(held) ==
  \A key \in DOMAIN foreign :
    ~LooksOurs(key) => key \in DOMAIN held /\ held[key] = foreign[key]

(* The last write to a pair in the queue writes what its caller expects... *)
LastWritesTold ==
  \A i \in 1..Len(queue) :
    \/ queue[i].freq \in told[queue[i].pair]
    \/ \E j \in (i + 1)..Len(queue) : queue[j].pair = queue[i].pair

(* ... and for a pair with none in the queue, its row already says so.     *)
RowsTold(held, ops) ==
  \A p \in Pairs :
    \/ RowFrequency(held, p) \in told[p]
    \/ \E i \in 1..Len(ops) : ops[i].pair = p

(* The trie says what its callers expect, also after the call that waits.  *)
MemoryTold ==
  /\ AnswersHold
  /\ parked # None => /\ parked.freq \in parked.answer
                      /\ Frequency(parked.pair) \in parked.answer

Told ==
  /\ phase # "down" => LastWritesTold /\ RowsTold(rows, queue)
  /\ MemoryTold

----------------------------------------------------------------------------
(* The types of what is computed.                                          *)

(* insert never goes beyond u64::MAX.                                      *)
LEMMA FreqTypes ==
  /\ MaxFreq \in Nat
  /\ \A f \in Freqs, w \in Weights : Bumped(f, w) \in 0..MaxFreq
  /\ 0..MaxFreq \subseteq Freqs /\ Absent \in Freqs
  /\ \A f \in Freqs : f # Absent => f \in 0..MaxFreq
<1>1. MaxFreq \in Nat
  BY CodecAssumption, PowerSteps DEF MaxFreq
<1>2. ASSUME NEW f \in Freqs, NEW w \in Weights PROVE Bumped(f, w) \in 0..MaxFreq
  <2>1. w \in Nat
    BY ServiceAssumption
  <2>2. (IF f = Absent THEN 0 ELSE f) \in 0..MaxFreq
    BY <1>1 DEF Freqs
  <2> QED
    BY <1>1, <2>1, <2>2 DEF Bumped
<1> QED
  BY <1>1, <1>2 DEF Freqs

(* Pairs are what they are made of.                                        *)
LEMMA PairParts ==
  ASSUME NEW p \in Pairs
  PROVE  p = <<p[1], p[2]>> /\ p[1] \in Tenants /\ p[2] \in Terms
         /\ p[1] \in Seq(Byte) /\ p[2] \in Seq(Byte)
<1>1. p = <<p[1], p[2]>> /\ p[1] \in Tenants /\ p[2] \in Terms
  BY DEF Pairs
<1>2. \A t \in Tenants \cup Terms : t \in Seq(Byte)
  BY ServiceAssumption
<1> QED
  BY <1>1, <1>2

(* validate_tenant keeps the separator out.                                *)
LEMMA ValidParts ==
  ASSUME NEW p, Valid(p)
  PROVE  Sep \notin BytesOf(p[1])
BY DEF Valid, ValidTenant

----------------------------------------------------------------------------
(* Rows.                                                                   *)

(* Rows are functions from keys to values, and all of those are rows.      *)
LEMMA RowTypes ==
  ASSUME NEW held \in Rows
  PROVE  /\ DOMAIN held \subseteq Keys
         /\ \A key \in DOMAIN held : held[key] \in Values
         /\ held \in [DOMAIN held -> Values]
BY DEF Rows

(* The other way around.                                                   *)
LEMMA IsRows ==
  ASSUME NEW K \in SUBSET Keys, NEW held \in [K -> Values]
  PROVE  held \in Rows
BY DEF Rows

(* A value is a frequency or malformed.                                    *)
LEMMA DecodedValue ==
  ASSUME NEW value \in Values
  PROVE  DecodeFrequency(value) # Malformed => DecodeFrequency(value) \in 0..MaxFreq
<1> SUFFICES ASSUME DecodeFrequency(value) # Malformed
             PROVE  DecodeFrequency(value) \in 0..MaxFreq
  OBVIOUS
<1>1. Len(value) = Width
  BY DEF DecodeFrequency
<1>2. value \in [1..Len(value) -> 0..(Base - 1)]
  BY LenProperties DEF Values
<1>3. value \in Bytewise
  BY <1>1, <1>2 DEF Bytewise
<1> QED
  BY <1>3, DecodedFrequency

(* A start reads for a pair the row under its key, if there is one that    *)
(* decodes, and nothing else.                                              *)
LEMMA RowRead ==
  ASSUME NEW held \in Rows, NEW p \in Pairs
  PROVE  LET key == EncodeKey(p[1], p[2])
         IN  RowFrequency(held, p) =
               IF /\ Sep \notin BytesOf(p[1])
                  /\ key \in DOMAIN held /\ DecodeFrequency(held[key]) # Malformed
               THEN DecodeFrequency(held[key]) ELSE Absent
<1> DEFINE key == EncodeKey(p[1], p[2])
           R == Recognised(held)
           Of(t) == RecognisedOf(held, t)
           replayed == Replayed(held)
<1>1. p = <<p[1], p[2]>> /\ p[1] \in Seq(Byte) /\ p[2] \in Seq(Byte)
  BY PairParts
<1>2. \A k \in R : k \in DOMAIN held /\ k \in Keys
                   /\ DecodeKey(k) # Malformed /\ DecodeFrequency(held[k]) # Malformed
  BY RowTypes DEF Recognised
<1>3. ASSUME NEW k \in R, DecodeKey(k)[1] = p[1], DecodeKey(k)[2] = p[2]
      PROVE  k = key /\ Sep \notin BytesOf(p[1])
  <2>1. PICK t, x \in Seq(Byte) :
          DecodeKey(k) = <<t, x>> /\ Sep \notin BytesOf(t) /\ k = EncodeKey(t, x)
    BY <1>2, DecodedKey DEF Keys
  <2> QED
    BY <1>3, <2>1
<1>4. ASSUME Sep \notin BytesOf(p[1])
      PROVE  DecodeKey(key) = <<p[1], p[2]>> /\ DecodeKey(key) # Malformed
  <2>1. DecodeKey(key) = <<p[1], p[2]>>
    BY <1>1, <1>4, RoundTrip
  <2>2. <<p[1], p[2]>> \in Seq(Seq(Byte))
    BY <1>1
  <2> QED
    BY <2>1, <2>2, CodecAssumption
<1> DEFINE Read == /\ Sep \notin BytesOf(p[1])
                   /\ key \in DOMAIN held /\ DecodeFrequency(held[key]) # Malformed
<1>5. /\ DOMAIN replayed = {DecodeKey(k)[1] : k \in R}
      /\ \A t \in DOMAIN replayed :
           /\ DOMAIN replayed[t] = {DecodeKey(k)[2] : k \in Of(t)}
           /\ \A x \in DOMAIN replayed[t] :
                replayed[t][x] =
                  DecodeFrequency(held[CHOOSE k \in Of(t) : DecodeKey(k)[2] = x])
  BY DEF Replayed
<1>6. \A t : Of(t) = {k \in R : DecodeKey(k)[1] = t}
  BY DEF RecognisedOf
<1> HIDE DEF replayed, Of
<1>7. CASE Read
  <2>1. key \in R
    BY <1>4, <1>7 DEF Recognised
  <2>2. DecodeKey(key)[1] = p[1] /\ DecodeKey(key)[2] = p[2]
    BY <1>4, <1>7
  <2>3. key \in Of(p[1])
    BY <1>6, <2>1, <2>2
  <2> HIDE DEF key, R
  <2>4. p[1] \in DOMAIN replayed /\ p[2] \in DOMAIN replayed[p[1]]
    BY <1>5, <2>1, <2>2, <2>3
  <2>5. (CHOOSE k \in Of(p[1]) : DecodeKey(k)[2] = p[2]) = key
    <3>1. \A k \in Of(p[1]) : DecodeKey(k)[2] = p[2] => k = key
      BY <1>3, <1>6
    <3> QED
      BY <2>2, <2>3, <3>1
  <2>6. RowFrequency(held, p) = DecodeFrequency(held[key])
    BY <1>5, <2>4, <2>5 DEF RowFrequency, FrequencyIn, replayed
  <2> QED
    BY <1>7, <2>6 DEF key
<1>8. CASE ~Read
  <2>1. ~ (p[1] \in DOMAIN replayed /\ p[2] \in DOMAIN replayed[p[1]])
    <3> SUFFICES ASSUME p[1] \in DOMAIN replayed, p[2] \in DOMAIN replayed[p[1]]
                 PROVE  FALSE
      OBVIOUS
    <3>1. PICK k \in Of(p[1]) : p[2] = DecodeKey(k)[2]
      BY <1>5
    <3>2. k \in R /\ DecodeKey(k)[1] = p[1]
      BY <1>6
    <3>3. k = key /\ Sep \notin BytesOf(p[1])
      BY <1>3, <3>1, <3>2
    <3> QED
      BY <1>2, <1>8, <3>2, <3>3
  <2>2. RowFrequency(held, p) = Absent
    BY <2>1 DEF RowFrequency, FrequencyIn, replayed
  <2> QED
    BY <1>8, <2>2
<1> QED
  BY <1>7, <1>8

(* A start reads frequencies.                                              *)
LEMMA RowFrequencyType ==
  ASSUME NEW held \in Rows, NEW p \in Pairs
  PROVE  RowFrequency(held, p) \in Freqs
<1> DEFINE key == EncodeKey(p[1], p[2])
<1>1. key \in DOMAIN held => held[key] \in Values
  BY RowTypes
<1>2. key \in DOMAIN held /\ DecodeFrequency(held[key]) # Malformed =>
        DecodeFrequency(held[key]) \in 0..MaxFreq
  BY <1>1, DecodedValue
<1> HIDE DEF key
<1> QED
  BY <1>2, RowRead, FreqTypes DEF key

(* A pair a request may name has its own key, which looks like ours.       *)
LEMMA ValidKey ==
  ASSUME NEW p \in ValidPairs
  PROVE  /\ p \in Pairs /\ Sep \notin BytesOf(p[1])
         /\ EncodeKey(p[1], p[2]) \in Keys
         /\ LooksOurs(EncodeKey(p[1], p[2]))
<1> DEFINE key == EncodeKey(p[1], p[2])
           n == Len(p[1])
<1>1. p \in Pairs /\ p[1] \in Seq(Byte) /\ p[2] \in Seq(Byte) /\ Sep \in Byte
  BY PairParts, CodecAssumption DEF ValidPairs
<1>2. /\ p[1] # <<>> /\ BytesOf(p[1]) \cap ({Sep} \cup Unroutable) = {}
      /\ p[2] # <<>> /\ Sep \notin BytesOf(p[2])
  BY DEF ValidPairs, Valid, ValidTenant, ValidTerm
<1>3. key \in Seq(Byte \cup NotUtf8)
  <2>1. p[1] \in Seq(Byte \cup NotUtf8) /\ p[2] \in Seq(Byte \cup NotUtf8)
        /\ <<Sep>> \in Seq(Byte \cup NotUtf8)
    BY <1>1
  <2> QED
    BY <2>1 DEF EncodeKey
<1>4. IsKeyOf(key, p[1], p[2])
  BY <1>1, KeyBytes
<1>5. n \in Nat \ {0} /\ Len(p[2]) \in Nat \ {0}
  BY <1>1, <1>2, LenProperties, EmptySeq
<1>6. /\ \A j \in 1..n : p[1][j] # Sep /\ p[1][j] \notin Unroutable
      /\ \A j \in 1..Len(p[2]) : p[2][j] # Sep
  <2>1. DOMAIN p[1] = 1..n /\ DOMAIN p[2] = 1..Len(p[2])
    BY <1>1, LenProperties
  <2>2. \A j \in DOMAIN p[1] : p[1][j] \in BytesOf(p[1])
    BY DEF BytesOf, ToSet
  <2>3. \A j \in DOMAIN p[2] : p[2][j] \in BytesOf(p[2])
    BY DEF BytesOf, ToSet
  <2> QED
    BY <1>2, <2>1, <2>2, <2>3
<1> HIDE DEF key, n
<1>7. /\ Len(key) = n + 1 + Len(p[2]) /\ key[n + 1] = Sep /\ DOMAIN key = 1..Len(key)
      /\ \A j \in 1..n : key[j] # Sep /\ key[j] \notin Unroutable
  <2>1. /\ Len(key) = n + 1 + Len(p[2]) /\ key[n + 1] = Sep
        /\ \A j \in 1..n : key[j] = p[1][j]
    BY <1>4 DEF IsKeyOf, n
  <2> QED
    BY <1>3, <1>6, <2>1, LenProperties
<1>8. \A j \in 1..Len(key) : j > n + 1 => key[j] # Sep
  <2> SUFFICES ASSUME NEW j \in 1..Len(key), j > n + 1 PROVE key[j] # Sep
    OBVIOUS
  <2> DEFINE i == j - n - 1
  <2>1. i \in 1..Len(p[2]) /\ n + 1 + i = j
    <3>1. \A a, b \in Nat \ {0} : \A c \in 1..(a + 1 + b) :
            c > a + 1 => c - a - 1 \in 1..b /\ a + 1 + (c - a - 1) = c
      OBVIOUS
    <3>2. j \in 1..(n + 1 + Len(p[2]))
      BY <1>7
    <3> QED
      BY <1>5, <3>1, <3>2
  <2> HIDE DEF i
  <2>2. key[n + 1 + i] = p[2][i]
    BY <1>4, <2>1 DEF IsKeyOf, n
  <2> QED
    BY <1>6, <2>1, <2>2
<1>9. LooksOurs(key)
  <2>1. n + 1 \in 2..(Len(key) - 1)
    <3>1. \A a, b \in Nat \ {0} : a + 1 \in 2..((a + 1 + b) - 1)
      OBVIOUS
    <3> QED
      BY <1>5, <1>7, <3>1
  <2>2. \A j \in DOMAIN key \ {n + 1} : key[j] # Sep
    <3>1. ASSUME NEW j \in 1..Len(key), j # n + 1 PROVE j \in 1..n \/ j > n + 1
      BY <1>5, <1>7, <3>1
    <3> QED
      BY <1>7, <1>8, <3>1
  <2>3. \A j \in 1..((n + 1) - 1) : key[j] \notin Unroutable
    <3>1. (n + 1) - 1 = n
      BY <1>5
    <3> QED
      BY <1>7, <3>1
  <2>4. BytesOf(key) \cap NotUtf8 = {}
    <3>1. key \in Seq(Byte)
      <4>1. <<Sep>> \in Seq(Byte)
        BY <1>1
      <4> QED
        BY <1>1, <4>1 DEF key, EncodeKey
    <3>2. \A j \in DOMAIN key : key[j] \in Byte
      BY <3>1, LenProperties, ElementOfSeq
    <3> QED
      BY <3>2, CodecAssumption DEF BytesOf, ToSet
  <2> QED
    BY <1>7, <2>1, <2>2, <2>3, <2>4 DEF LooksOurs
<1> QED
  BY <1>1, <1>2, <1>3, <1>9 DEF key, Keys

(* write_batch on one write: its pair reads back what was written, every   *)
(* other pair what it read before, and rows not ours are untouched.        *)
LEMMA WriteRowEffect ==
  ASSUME NEW held \in Rows, NEW op \in Writes
  PROVE  /\ WriteRow(held, op) \in Rows
         /\ \A q \in Pairs : RowFrequency(WriteRow(held, op), q) =
              IF q = op.pair THEN op.freq ELSE RowFrequency(held, q)
         /\ KeepsForeign(held) => KeepsForeign(WriteRow(held, op))
<1> DEFINE p == op.pair
           key == EncodeKey(p[1], p[2])
           now == WriteRow(held, op)
<1>1. /\ p \in ValidPairs /\ op.freq \in Freqs
      /\ p \in Pairs /\ Sep \notin BytesOf(p[1]) /\ key \in Keys /\ LooksOurs(key)
  BY ValidKey DEF Writes
<1>2. /\ DOMAIN held \subseteq Keys /\ \A k \in DOMAIN held : held[k] \in Values
      /\ held \in [DOMAIN held -> Values]
  BY RowTypes
<1>3. op.freq # Absent =>
        /\ op.freq \in 0..MaxFreq
        /\ EncodeFrequency(op.freq) \in Values
        /\ DecodeFrequency(EncodeFrequency(op.freq)) = op.freq
        /\ DecodeFrequency(EncodeFrequency(op.freq)) # Malformed
  <2> SUFFICES ASSUME op.freq # Absent
               PROVE  /\ op.freq \in 0..MaxFreq
                      /\ EncodeFrequency(op.freq) \in Values
                      /\ DecodeFrequency(EncodeFrequency(op.freq)) = op.freq
                      /\ DecodeFrequency(EncodeFrequency(op.freq)) # Malformed
    OBVIOUS
  <2>1. op.freq \in 0..MaxFreq /\ op.freq # Malformed
    BY <1>1, FreqTypes, CodecAssumption
  <2>2. /\ EncodeFrequency(op.freq) \in Bytewise
        /\ DecodeFrequency(EncodeFrequency(op.freq)) = op.freq
    BY <2>1, FrequencyRoundTrip
  <2>3. EncodeFrequency(op.freq) \in Values
    BY <2>2, CodecAssumption DEF Bytewise, Values
  <2> QED
    BY <2>1, <2>2, <2>3
<1>4. /\ op.freq = Absent =>
           now = [k \in DOMAIN held \ {key} |-> held[k]]
      /\ op.freq # Absent =>
           now = [k \in DOMAIN held \cup {key} |->
                    IF k = key THEN EncodeFrequency(op.freq) ELSE held[k]]
  BY DEF WriteRow, With, Restrict
<1> HIDE DEF key, now
<1>5. /\ DOMAIN now = IF op.freq = Absent THEN DOMAIN held \ {key} ELSE DOMAIN held \cup {key}
      /\ \A k \in DOMAIN now : now[k] = IF k = key THEN EncodeFrequency(op.freq) ELSE held[k]
      /\ now \in [DOMAIN now -> Values]
  <2>1. CASE op.freq = Absent
    BY <1>2, <1>4, <2>1
  <2>2. CASE op.freq # Absent
    BY <1>2, <1>3, <1>4, <2>2
  <2> QED
    BY <2>1, <2>2
<1>6. now \in Rows
  <2>1. DOMAIN now \in SUBSET Keys
    BY <1>1, <1>2, <1>5
  <2> QED
    BY <1>5, <2>1, IsRows
<1>7. ASSUME NEW q \in Pairs
      PROVE  RowFrequency(now, q) = IF q = p THEN op.freq ELSE RowFrequency(held, q)
  <2> DEFINE other == EncodeKey(q[1], q[2])
  <2>1. /\ RowFrequency(now, q) =
             IF /\ Sep \notin BytesOf(q[1])
                /\ other \in DOMAIN now /\ DecodeFrequency(now[other]) # Malformed
             THEN DecodeFrequency(now[other]) ELSE Absent
        /\ RowFrequency(held, q) =
             IF /\ Sep \notin BytesOf(q[1])
                /\ other \in DOMAIN held /\ DecodeFrequency(held[other]) # Malformed
             THEN DecodeFrequency(held[other]) ELSE Absent
    BY <1>6, RowRead
  <2>2. Sep \notin BytesOf(q[1]) /\ other = key => q = p
    <3> SUFFICES ASSUME Sep \notin BytesOf(q[1]), other = key PROVE q = p
      OBVIOUS
    <3>1. /\ q = <<q[1], q[2]>> /\ q[1] \in Seq(Byte) /\ q[2] \in Seq(Byte)
          /\ p = <<p[1], p[2]>> /\ p[1] \in Seq(Byte) /\ p[2] \in Seq(Byte)
      BY <1>1, PairParts
    <3>2. DecodeKey(other) = <<q[1], q[2]>> /\ DecodeKey(key) = <<p[1], p[2]>>
      BY <1>1, <3>1, RoundTrip DEF key
    <3> QED
      BY <3>1, <3>2
  <2>3. CASE q = p
    <3>1. other = key
      BY <2>3 DEF key
    <3> HIDE DEF other
    <3> QED
      BY <1>1, <1>3, <1>5, <2>1, <2>3, <3>1
  <2>4. CASE q # p
    <3> HIDE DEF other
    <3> QED
      BY <1>5, <2>1, <2>2, <2>4
  <2> QED
    BY <2>3, <2>4
<1>8. KeepsForeign(held) => KeepsForeign(now)
  BY <1>1, <1>5 DEF KeepsForeign
<1> QED
  BY <1>6, <1>7, <1>8 DEF now

(* write_batch on several writes is one after the other.                   *)
LEMMA WriteSteps ==
  ASSUME NEW held \in Rows, NEW ops \in Seq(Writes)
  PROVE  \E u \in [0..Len(ops) -> Rows] :
           /\ u[0] = held
           /\ \A i \in 1..Len(ops) : u[i] = WriteRow(u[i - 1], ops[i])
           /\ FoldLeft(WriteRow, held, ops) = u[Len(ops)]
<1> DEFINE n == Len(ops)
           D == 1..n
           pick == [s \in SUBSET D |-> Max(s)]
           step == [i \in D |-> [x \in Rows |-> WriteRow(x, ops[i])]]
           Folds(h) == h = [s \in SUBSET D |->
                             IF s = {} THEN held
                             ELSE WriteRow(h[s \ {Max(s)}], ops[Max(s)])]
<1>1. n \in Nat /\ DOMAIN ops = D /\ \A i \in D : ops[i] \in Writes
  BY LenProperties, ElementOfSeq
<1>2. Picks(pick, D)
  <2>1. ASSUME NEW s \in SUBSET D, s # {} PROVE Max(s) \in s
    <3>1. s \in SUBSET (0..n)
      OBVIOUS
    <3> QED
      BY <1>1, <2>1, <3>1, EndsExist
  <2> QED
    BY <2>1 DEF Picks
<1>3. step \in Steps(D, Rows)
  <2>1. \A i \in D : \A x \in Rows : WriteRow(x, ops[i]) \in Rows
    BY <1>1, WriteRowEffect
  <2> QED
    BY <2>1 DEF Steps
<1>4. IsFiniteSet(D)
  BY <1>1, FS_Interval
<1>5. PICK h : IsFold(h, D, Rows, held, step, pick)
  <2> HIDE DEF D, step, pick
  <2> QED
    BY <1>2, <1>3, <1>4, FoldExists
<1>6. Folds(h)
  <2>1. ASSUME NEW s \in SUBSET D, s # {}
        PROVE  step[pick[s]][h[s \ {pick[s]}]] = WriteRow(h[s \ {Max(s)}], ops[Max(s)])
    <3>1. pick[s] = Max(s) /\ Max(s) \in D
      BY <1>2, <2>1 DEF Picks
    <3>2. h[s \ {Max(s)}] \in Rows
      BY <1>5 DEF IsFold
    <3> QED
      BY <3>1, <3>2
  <2>2. \A s \in SUBSET D :
          h[s] = IF s = {} THEN held ELSE WriteRow(h[s \ {Max(s)}], ops[Max(s)])
    <3> HIDE DEF step, pick
    <3> QED
      BY <1>5, <2>1 DEF IsFold
  <2>3. h = [s \in SUBSET D |-> h[s]]
    BY <1>5 DEF IsFold
  <2> HIDE DEF D
  <2> QED
    BY <2>2, <2>3
<1> DEFINE fold == CHOOSE g : Folds(g)
<1>7. Folds(fold)
  BY <1>6
<1>8. FoldLeft(WriteRow, held, ops) = fold[D]
  BY <1>1 DEF FoldLeft, MapThenFoldSet
<1> HIDE DEF fold
<1>9. fold[{}] = held /\ \A s \in SUBSET D : s # {} =>
        fold[s] = WriteRow(fold[s \ {Max(s)}], ops[Max(s)])
  BY <1>7
<1> DEFINE u == [i \in 0..n |-> fold[1..i]]
<1>10. u[0] = held /\ u[n] = FoldLeft(WriteRow, held, ops)
  <2>1. 1..0 = {} /\ 0 \in 0..n /\ n \in 0..n
    BY <1>1
  <2> QED
    BY <1>8, <1>9, <2>1
<1>11. ASSUME NEW i \in 1..n PROVE u[i] = WriteRow(u[i - 1], ops[i])
  <2>1. Max(1..i) = i
    <3>1. 1..i \in SUBSET Int /\ i \in 1..i /\ \A j \in 1..i : j <= i
      BY <1>1
    <3> QED
      BY <3>1, MaxIs
  <2>2. (1..i) \ {i} = 1..(i - 1)
    <3>1. \A j \in Nat \ {0} : (1..j) \ {j} = 1..(j - 1)
      OBVIOUS
    <3> QED
      BY <1>1, <3>1
  <2>3. 1..i \in SUBSET D /\ 1..i # {}
    <3>1. \A j \in 1..i : j \in 1..n
      BY <1>1
    <3>2. i \in 1..i
      BY <1>1
    <3> QED
      BY <3>1, <3>2
  <2>4. fold[1..i] = WriteRow(fold[1..(i - 1)], ops[i])
    BY <1>9, <2>1, <2>2, <2>3
  <2>5. i \in 0..n /\ i - 1 \in 0..n
    BY <1>1
  <2> QED
    BY <2>4, <2>5
<1>12. u \in [0..n -> Rows]
  <2> DEFINE Bad == {k \in 0..n : u[k] \notin Rows}
  <2> SUFFICES ASSUME Bad # {} PROVE FALSE
    OBVIOUS
  <2> HIDE DEF u
  <2>1. PICK m \in Bad : \A j \in Bad : m <= j
    <3>1. Bad \in SUBSET Nat
      BY <1>1
    <3> HIDE DEF Bad
    <3> QED
      BY <3>1, LeastExists
  <2>2. m \in 1..n /\ m - 1 \in 0..n /\ ~ (m <= m - 1)
    BY <1>1, <1>10
  <2>3. u[m - 1] \in Rows
    BY <2>1, <2>2
  <2>4. u[m] \in Rows
    BY <1>1, <1>11, <2>2, <2>3, WriteRowEffect
  <2> QED
    BY <2>4
<1> HIDE DEF u
<1> QED
  BY <1>10, <1>11, <1>12

(* Writing the front of the queue keeps rows rows, and those not ours as   *)
(* they are.                                                               *)
LEMMA PersistKeeps ==
  ASSUME NEW held \in Rows, NEW ops \in Seq(Writes)
  PROVE  /\ FoldLeft(WriteRow, held, ops) \in Rows
         /\ KeepsForeign(held) => KeepsForeign(FoldLeft(WriteRow, held, ops))
<1>1. PICK u \in [0..Len(ops) -> Rows] :
        /\ u[0] = held
        /\ \A i \in 1..Len(ops) : u[i] = WriteRow(u[i - 1], ops[i])
        /\ FoldLeft(WriteRow, held, ops) = u[Len(ops)]
  BY WriteSteps
<1>2. Len(ops) \in Nat /\ \A i \in 1..Len(ops) : ops[i] \in Writes
  BY LenProperties, ElementOfSeq
<1>3. ASSUME KeepsForeign(held) PROVE KeepsForeign(u[Len(ops)])
  <2> DEFINE Bad == {k \in 0..Len(ops) : ~ KeepsForeign(u[k])}
  <2> SUFFICES ASSUME Bad # {} PROVE FALSE
    BY <1>2
  <2>1. PICK m \in Bad : \A j \in Bad : m <= j
    <3>1. Bad \in SUBSET Nat
      BY <1>2
    <3> HIDE DEF Bad
    <3> QED
      BY <3>1, LeastExists
  <2>2. m \in 1..Len(ops) /\ m - 1 \in 0..Len(ops) /\ ~ (m <= m - 1)
    BY <1>1, <1>2, <1>3
  <2>3. KeepsForeign(u[m - 1]) /\ u[m - 1] \in Rows /\ ops[m] \in Writes
    BY <1>1, <1>2, <2>1, <2>2
  <2>4. KeepsForeign(u[m])
    BY <1>1, <2>2, <2>3, WriteRowEffect
  <2> QED
    BY <2>4
<1>4. u[Len(ops)] \in Rows
  BY <1>1, <1>2
<1> QED
  BY <1>1, <1>3, <1>4

(* Writing the front of the queue leaves no pair behind: a row says what   *)
(* is expected, or a write to it is still in the queue.                    *)
LEMMA PersistTells ==
  ASSUME NEW held \in Rows, queue \in Seq(Writes), LastWritesTold,
         RowsTold(held, queue), NEW n \in Nat, n <= Len(queue)
  PROVE  RowsTold(FoldLeft(WriteRow, held, SubSeq(queue, 1, n)),
                  SubSeq(queue, n + 1, Len(queue)))
<1> DEFINE ops == SubSeq(queue, 1, n)
           rest == SubSeq(queue, n + 1, Len(queue))
<1>1. Len(queue) \in Nat /\ \A i \in 1..Len(queue) : queue[i] \in Writes
  BY LenProperties, ElementOfSeq
<1>2. /\ ops \in Seq(Writes) /\ Len(ops) = n
      /\ \A i \in 1..n : ops[i] = queue[i]
  <2>1. \A i \in 1..n : queue[i] \in Writes
    BY <1>1
  <2>2. /\ ops \in Seq(Writes) /\ Len(ops) = IF 1 <= n THEN n - 1 + 1 ELSE 0
        /\ \A i \in 1..(n - 1 + 1) : ops[i] = queue[1 + i - 1]
    BY <2>1, SubSeqProperties
  <2> QED
    BY <2>2
<1>3. /\ Len(rest) = Len(queue) - n
      /\ \A i \in 1..(Len(queue) - n) : rest[i] = queue[n + i]
  <2>1. \A i \in (n + 1)..Len(queue) : queue[i] \in Writes
    BY <1>1
  <2>2. /\ Len(rest) = IF n + 1 <= Len(queue) THEN Len(queue) - (n + 1) + 1 ELSE 0
        /\ \A i \in 1..(Len(queue) - (n + 1) + 1) : rest[i] = queue[(n + 1) + i - 1]
    BY <1>1, <2>1, SubSeqProperties
  <2>3. Len(queue) - (n + 1) + 1 = Len(queue) - n
    BY <1>1
  <2>4. \A i \in 1..(Len(queue) - n) : (n + 1) + i - 1 = n + i
    BY <1>1
  <2>5. Len(rest) = Len(queue) - n
    BY <1>1, <2>2
  <2> QED
    BY <2>2, <2>3, <2>4, <2>5
<1> HIDE DEF ops, rest
<1>4. PICK u \in [0..n -> Rows] :
        /\ u[0] = held
        /\ \A i \in 1..n : u[i] = WriteRow(u[i - 1], ops[i])
        /\ FoldLeft(WriteRow, held, ops) = u[n]
  BY <1>2, WriteSteps
<1> SUFFICES ASSUME NEW p \in Pairs
             PROVE  \/ RowFrequency(u[n], p) \in told[p]
                    \/ \E i \in 1..Len(rest) : rest[i].pair = p
  BY <1>4 DEF RowsTold, ops, rest
<1> DEFINE Good(k) == \/ RowFrequency(u[k], p) \in told[p]
                      \/ \E i \in (k + 1)..Len(queue) : queue[i].pair = p
           Bad == {k \in 0..n : ~ Good(k)}
<1>5. Good(0)
  BY <1>4 DEF RowsTold
<1>6. ASSUME NEW k \in 1..n, Good(k - 1) PROVE Good(k)
  <2>1. k - 1 \in 0..n /\ (k - 1) + 1 = k /\ k \in 1..Len(queue)
    BY <1>1
  <2>2. /\ queue[k] \in Writes /\ u[k - 1] \in Rows
        /\ u[k] = WriteRow(u[k - 1], queue[k])
    BY <1>1, <1>2, <1>4, <2>1
  <2>3. RowFrequency(u[k], p) =
          IF p = queue[k].pair THEN queue[k].freq ELSE RowFrequency(u[k - 1], p)
    BY <2>2, WriteRowEffect
  <2>4. CASE queue[k].pair = p
    BY <2>1, <2>3, <2>4 DEF LastWritesTold
  <2>5. CASE queue[k].pair # p
    <3>1. CASE RowFrequency(u[k - 1], p) \in told[p]
      BY <2>3, <2>5, <3>1
    <3>2. CASE \E i \in k..Len(queue) : queue[i].pair = p
      <4>1. PICK i \in k..Len(queue) : queue[i].pair = p
        BY <3>2
      <4>2. i \in (k + 1)..Len(queue)
        BY <1>1, <2>5, <4>1
      <4> QED
        BY <4>1, <4>2
    <3> QED
      BY <1>6, <2>1, <3>1, <3>2
  <2> QED
    BY <2>4, <2>5
<1> HIDE DEF Good
<1>7. Bad = {}
  <2> SUFFICES ASSUME Bad # {} PROVE FALSE
    OBVIOUS
  <2>1. PICK m \in Bad : \A j \in Bad : m <= j
    <3>1. Bad \in SUBSET Nat
      OBVIOUS
    <3> HIDE DEF Bad
    <3> QED
      BY <3>1, LeastExists
  <2>2. m \in 1..n /\ m - 1 \in 0..n /\ ~ (m <= m - 1)
    BY <1>5
  <2> QED
    BY <1>6, <2>1, <2>2
<1>8. Good(n)
  <2>1. n \in 0..n
    OBVIOUS
  <2> QED
    BY <1>7, <2>1
<1>9. ASSUME NEW i \in (n + 1)..Len(queue)
      PROVE  i - n \in 1..Len(rest) /\ rest[i - n] = queue[i]
  <2>1. i - n \in 1..(Len(queue) - n) /\ n + (i - n) = i
    BY <1>1
  <2> QED
    BY <1>3, <2>1
<1> QED
  BY <1>8, <1>9 DEF Good

----------------------------------------------------------------------------
(* The trie.                                                               *)

TrieOf(held, t) == IF t \in DOMAIN held THEN held[t] ELSE <<>>

(* insert changes one pair...                                              *)
LEMMA IndexedFrequency ==
  ASSUME NEW held, NEW t \in Tenants, NEW x \in Terms, NEW f, NEW q \in Pairs
  PROVE  FrequencyIn(With(held, t, With(TrieOf(held, t), x, f)), q) =
           IF q[1] = t /\ q[2] = x THEN f ELSE FrequencyIn(held, q)
<1> DEFINE old == TrieOf(held, t)
           trie == With(old, x, f)
           now == With(held, t, trie)
<1>1. /\ DOMAIN trie = DOMAIN old \cup {x}
      /\ \A y \in DOMAIN trie : trie[y] = IF y = x THEN f ELSE old[y]
  BY DEF With
<1> HIDE DEF trie
<1>2. /\ DOMAIN now = DOMAIN held \cup {t}
      /\ \A s \in DOMAIN now : now[s] = IF s = t THEN trie ELSE held[s]
  BY DEF With
<1>3. t \in DOMAIN held => old = held[t]
  BY DEF TrieOf
<1>4. t \notin DOMAIN held => DOMAIN old = {}
  BY DEF TrieOf
<1> HIDE DEF now, old
<1>5. FrequencyIn(now, q) = IF q[1] = t /\ q[2] = x THEN f ELSE FrequencyIn(held, q)
  <2>1. CASE q[1] = t /\ t \in DOMAIN held
    BY <1>1, <1>2, <1>3, <2>1 DEF FrequencyIn
  <2>2. CASE q[1] = t /\ t \notin DOMAIN held
    BY <1>1, <1>2, <1>4, <2>2 DEF FrequencyIn
  <2>3. CASE q[1] # t
    BY <1>2, <2>3 DEF FrequencyIn
  <2> QED
    BY <2>1, <2>2, <2>3
<1> QED
  BY <1>5 DEF now, trie, old

(* ... and so does delete.                                                 *)
LEMMA DeletedFrequency ==
  ASSUME NEW held, NEW p \in Pairs, NEW q \in Pairs, FrequencyIn(held, p) # Absent
  PROVE  FrequencyIn([held EXCEPT ![p[1]] = Restrict(@, DOMAIN @ \ {p[2]})], q) =
           IF q = p THEN Absent ELSE FrequencyIn(held, q)
<1> DEFINE trie == Restrict(held[p[1]], DOMAIN held[p[1]] \ {p[2]})
           now == [held EXCEPT ![p[1]] = trie]
<1>1. q = p <=> q[1] = p[1] /\ q[2] = p[2]
  BY PairParts
<1>2. /\ DOMAIN trie = DOMAIN held[p[1]] \ {p[2]}
      /\ \A x \in DOMAIN trie : trie[x] = held[p[1]][x]
  BY DEF Restrict
<1>3. p[1] \in DOMAIN held
  BY DEF FrequencyIn
<1> HIDE DEF trie
<1>4. /\ DOMAIN now = DOMAIN held
      /\ \A t \in DOMAIN now : now[t] = IF t = p[1] THEN trie ELSE held[t]
  OBVIOUS
<1> HIDE DEF now
<1>5. FrequencyIn(now, q) = IF q = p THEN Absent ELSE FrequencyIn(held, q)
  <2>1. CASE q[1] = p[1]
    BY <1>1, <1>2, <1>3, <1>4, <2>1 DEF FrequencyIn
  <2>2. CASE q[1] # p[1]
    BY <1>1, <1>4, <2>2 DEF FrequencyIn
  <2> QED
    BY <2>1, <2>2
<1> QED
  BY <1>5 DEF now, trie

----------------------------------------------------------------------------
(* The types are kept.                                                     *)

(* A call either enters the queue or waits.                                *)
LEMMA SubmitTypes ==
  ASSUME CallTypes, Ready, phase' = phase,
         NEW p \in ValidPairs, NEW f \in Freqs, NEW answer \in SUBSET Freqs,
         Submit(p, f, answer)
  PROVE  CallTypes'
<1> DEFINE write == [pair |-> p, freq |-> f]
<1>1. write \in Writes /\ p \in Pairs
  BY ValidKey DEF Writes
<1>2. Len(queue) \in Nat /\ {ChannelCapacity, MaxBatch} \subseteq Nat
  BY LenProperties, ServiceAssumption DEF CallTypes
<1>3. CASE HasRoom /\ queue' = Append(queue, write)
           /\ told' = [told EXCEPT ![p] = answer] /\ UNCHANGED parked
  <2>1. queue' \in Seq(Writes) /\ Len(queue') = Len(queue) + 1
    BY <1>1, <1>3, AppendProperties DEF CallTypes
  <2>2. Len(queue') < ChannelCapacity + MaxBatch
    BY <1>2, <1>3, <2>1 DEF HasRoom
  <2>3. told' \in [Pairs -> SUBSET Freqs]
    BY <1>1, <1>3 DEF CallTypes
  <2> QED
    BY <1>3, <2>1, <2>2, <2>3 DEF CallTypes, Ready
<1>4. CASE MayBeFull /\ parked' = [pair |-> p, freq |-> f, answer |-> answer]
           /\ told' = [told EXCEPT ![p] = @ \cup answer] /\ UNCHANGED queue
  <2>1. parked' \in Waiting
    BY <1>4 DEF Waiting
  <2>2. told' \in [Pairs -> SUBSET Freqs]
    BY <1>1, <1>4 DEF CallTypes
  <2> QED
    BY <1>4, <2>1, <2>2 DEF CallTypes, Ready
<1> QED
  BY <1>3, <1>4 DEF Submit

(* Whatever a caller is told, it is told frequencies.                      *)
LEMMA BumpedAnswers ==
  ASSUME NEW p \in Pairs, NEW w \in Weights, told \in [Pairs -> SUBSET Freqs]
  PROVE  {Bumped(g, w) : g \in told[p]} \in SUBSET Freqs
<1>1. \A g \in told[p] : g \in Freqs
  OBVIOUS
<1>2. \A g \in told[p] : Bumped(g, w) \in Freqs
  BY <1>1, FreqTypes
<1> QED
  BY <1>2

(* The front of the queue goes, and what follows stays a queue.            *)
LEMMA RestTypes ==
  ASSUME queue \in Seq(Writes), NEW n \in Nat, n <= Len(queue)
  PROVE  /\ SubSeq(queue, n + 1, Len(queue)) \in Seq(Writes)
         /\ Len(SubSeq(queue, n + 1, Len(queue))) = Len(queue) - n
         /\ \A i \in 1..(Len(queue) - n) :
              SubSeq(queue, n + 1, Len(queue))[i] = queue[n + i]
         /\ SubSeq(queue, 1, n) \in Seq(Writes)
<1> DEFINE rest == SubSeq(queue, n + 1, Len(queue))
<1>1. Len(queue) \in Nat /\ \A i \in 1..Len(queue) : queue[i] \in Writes
  BY LenProperties, ElementOfSeq
<1>2. \A i \in (n + 1)..Len(queue) : queue[i] \in Writes
  BY <1>1
<1>3. /\ rest \in Seq(Writes)
      /\ Len(rest) = IF n + 1 <= Len(queue) THEN Len(queue) - (n + 1) + 1 ELSE 0
      /\ \A i \in 1..(Len(queue) - (n + 1) + 1) : rest[i] = queue[(n + 1) + i - 1]
  BY <1>1, <1>2, SubSeqProperties
<1>4. Len(queue) - (n + 1) + 1 = Len(queue) - n
  BY <1>1
<1>5. \A i \in 1..(Len(queue) - n) : (n + 1) + i - 1 = n + i
  BY <1>1
<1> HIDE DEF rest
<1>6. Len(rest) = Len(queue) - n
  BY <1>1, <1>3
<1>7. SubSeq(queue, 1, n) \in Seq(Writes)
  <2>1. \A i \in 1..n : queue[i] \in Writes
    BY <1>1
  <2> QED
    BY <2>1, SubSeqProperties
<1> QED
  BY <1>3, <1>4, <1>5, <1>6, <1>7 DEF rest

(* No step breaks the types.                                               *)
LEMMA TypesStep ==
  ASSUME Types, Images, [Next]_vars
  PROVE  Types'
<1>1. Len(queue) \in Nat /\ {ChannelCapacity, MaxBatch} \subseteq Nat \ {0}
  BY LenProperties, ServiceAssumption DEF Types, CallTypes
<1>2. /\ <<>> \in Seq(Writes) /\ Len(<<>>) < ChannelCapacity + MaxBatch
      /\ NoNews \in [Pairs -> SUBSET Freqs]
  BY <1>1 DEF NoNews
<1>3. ASSUME tries' = <<>> PROVE \A q \in Pairs : Frequency(q)' \in Freqs
  BY <1>3, FreqTypes DEF Frequency, FrequencyIn
<1>4. ASSUME NEW p \in Pairs, NEW w \in Weights, Index(p, w) PROVE Types'
  <2> DEFINE f == Bumped(Frequency(p), w)
             answer == {Bumped(g, w) : g \in told[p]}
  <2>1. p \in ValidPairs /\ Ready /\ phase' = phase /\ Submit(p, f, answer)
    BY <1>4 DEF Index, ValidPairs
  <2>2. f \in Freqs /\ answer \in SUBSET Freqs
    BY FreqTypes, BumpedAnswers DEF Types, CallTypes
  <2>3. \A q \in Pairs : Frequency(q)' = IF q = p THEN f ELSE Frequency(q)
    <3>1. tries' = With(tries, p[1], With(TrieOf(tries, p[1]), p[2], f))
      BY <1>4 DEF Index, TrieOf
    <3>2. p[1] \in Tenants /\ p[2] \in Terms
          /\ \A q \in Pairs : q = p <=> q[1] = p[1] /\ q[2] = p[2]
      BY PairParts
    <3> HIDE DEF f
    <3>3. \A q \in Pairs : FrequencyIn(tries', q) =
            IF q[1] = p[1] /\ q[2] = p[2] THEN f ELSE FrequencyIn(tries, q)
      BY <3>1, <3>2, IndexedFrequency
    <3> QED
      BY <3>2, <3>3 DEF Frequency
  <2>4. \A q \in Pairs : Frequency(q)' \in Freqs
    BY <2>2, <2>3 DEF Types
  <2> HIDE DEF f, answer
  <2>5. CallTypes'
    BY <2>1, <2>2, SubmitTypes DEF Types
  <2> QED
    BY <2>1, <2>4, <2>5 DEF Types, Ready
<1>5. ASSUME NEW p \in Pairs, Delete(p) PROVE Types'
  <2>1. p \in ValidPairs /\ Ready /\ phase' = phase /\ Submit(p, Absent, {Absent})
    BY <1>5 DEF Delete, ValidPairs
  <2>2. Absent \in Freqs /\ {Absent} \in SUBSET Freqs
    BY FreqTypes
  <2>3. \A q \in Pairs : Frequency(q)' = IF q = p THEN Absent ELSE Frequency(q)
    BY <1>5, DeletedFrequency DEF Delete, Frequency
  <2>4. \A q \in Pairs : Frequency(q)' \in Freqs
    BY <2>2, <2>3 DEF Types
  <2>5. CallTypes'
    BY <2>1, <2>2, SubmitTypes DEF Types
  <2> QED
    BY <2>1, <2>4, <2>5 DEF Types, Ready
<1>6. ASSUME NEW p \in Pairs, DeleteMissing(p) PROVE Types'
  <2>1. told' \in [Pairs -> SUBSET Freqs]
    BY <1>6, FreqTypes DEF DeleteMissing, Types, CallTypes
  <2>2. \A q \in Pairs : Frequency(q)' = Frequency(q)
    BY <1>6 DEF DeleteMissing, memory, Frequency
  <2> QED
    BY <1>6, <2>1, <2>2 DEF DeleteMissing, memory, Types, CallTypes
<1>7. CASE Resume
  <2> DEFINE write == [pair |-> parked.pair, freq |-> parked.freq]
  <2>1. parked \in Waiting /\ phase = "open"
    BY <1>7 DEF Resume, Types, CallTypes
  <2>2. write \in Writes /\ parked.answer \in SUBSET Freqs
    BY <2>1 DEF Writes, Waiting
  <2>3. queue' \in Seq(Writes) /\ Len(queue') = Len(queue) + 1
    BY <1>7, <2>2, AppendProperties DEF Resume, Types, CallTypes
  <2>4. Len(queue') < ChannelCapacity + MaxBatch
    BY <1>1, <1>7, <2>3 DEF Resume, HasRoom
  <2>5. told' \in [Pairs -> SUBSET Freqs]
    BY <1>7, <2>2 DEF Resume, Types, CallTypes
  <2>6. \A q \in Pairs : Frequency(q)' = Frequency(q)
    BY <1>7 DEF Resume, Frequency
  <2> QED
    BY <1>7, <2>1, <2>3, <2>4, <2>5, <2>6 DEF Resume, Types, CallTypes
<1>8. CASE TimeOut
  <2>1. \A q \in Pairs : Frequency(q)' = Frequency(q)
    BY <1>8 DEF TimeOut, Frequency
  <2> QED
    BY <1>8, <2>1 DEF TimeOut, Types, CallTypes
<1>9. ASSUME NEW n \in 1..MaxBatch, Persist(n) PROVE Types'
  <2>1. queue \in Seq(Writes) /\ n \in Nat /\ n <= Len(queue)
    BY <1>1, <1>9 DEF Persist, Types, CallTypes
  <2>2. queue' \in Seq(Writes) /\ Len(queue') = Len(queue) - n
    BY <1>9, <2>1, RestTypes DEF Persist
  <2>3. Len(queue') < ChannelCapacity + MaxBatch
    BY <1>1, <2>1, <2>2 DEF Types, CallTypes
  <2>4. \A q \in Pairs : Frequency(q)' = Frequency(q)
    BY <1>9 DEF Persist, Frequency
  <2> QED
    BY <1>9, <2>2, <2>3, <2>4 DEF Persist, Types, CallTypes
<1>10. CASE Sync
  <2>1. \A q \in Pairs : Frequency(q)' = Frequency(q)
    BY <1>10 DEF Sync, memory, Frequency
  <2> QED
    BY <1>10, <2>1 DEF Sync, memory, Types, CallTypes
<1>11. CASE Open
  <2>1. \A q \in Pairs : FrequencyIn(Replayed(rows), q) \in Freqs
    <3>1. rows \in Rows
      BY DEF Images
    <3> QED
      BY <3>1, RowFrequencyType DEF RowFrequency
  <2>2. \A q \in Pairs : Frequency(q)' \in Freqs
    BY <1>11, <2>1 DEF Open, Frequency
  <2>3. told' \in [Pairs -> SUBSET Freqs]
    BY <1>11, <2>1 DEF Open, Types, CallTypes
  <2> QED
    BY <1>2, <1>11, <2>2, <2>3 DEF Open, Types, CallTypes
<1>12. CASE Shutdown
  <2>1. \A q \in Pairs : Frequency(q)' = Frequency(q)
    BY <1>12 DEF Shutdown, memory, Frequency
  <2> QED
    BY <1>12, <2>1 DEF Shutdown, Ready, memory, Types, CallTypes
<1>13. CASE Stop
  BY <1>2, <1>3, <1>13 DEF Stop, Forget, Types, CallTypes
<1>14. CASE Crash
  BY <1>2, <1>3, <1>14 DEF Crash, Forget, Types, CallTypes
<1>15. CASE PowerFailure
  BY <1>2, <1>3, <1>15 DEF PowerFailure, Forget, Types, CallTypes
<1>16. CASE UNCHANGED vars
  <2>1. \A q \in Pairs : Frequency(q)' = Frequency(q)
    BY <1>16 DEF vars, Frequency
  <2> QED
    BY <1>16, <2>1 DEF vars, Types, CallTypes
<1> QED
  BY <1>4, <1>5, <1>6, <1>7, <1>8, <1>9, <1>10, <1>11, <1>12, <1>13, <1>14, <1>15,
     <1>16 DEF Next

----------------------------------------------------------------------------
(* What RocksDB holds, or may be left with.                                *)

ForeignKept == \A held \in images : KeepsForeign(held)

Stored == Types /\ Images /\ ForeignKept

(* Whatever rows there are before the first start.                         *)
LEMMA StoredInit ==
  Init => Stored
<1> SUFFICES ASSUME Init PROVE Stored
  OBVIOUS
<1>1. {ChannelCapacity, MaxBatch, MaxImages} \subseteq Nat \ {0}
  BY ServiceAssumption
<1>2. Types
  <2>1. \A q \in Pairs : Frequency(q) \in Freqs
    BY FreqTypes DEF Init, Frequency, FrequencyIn
  <2>2. queue \in Seq(Writes) /\ Len(queue) < ChannelCapacity + MaxBatch
    BY <1>1 DEF Init
  <2>3. told \in [Pairs -> SUBSET Freqs]
    BY DEF Init, NoNews
  <2> QED
    BY <2>1, <2>2, <2>3 DEF Init, Types, CallTypes
<1>3. rows \in Rows
  <2>1. PICK chosen \in ForeignRows :
          rows = [key \in {r[1] : r \in chosen} |-> (CHOOSE r \in chosen : r[1] = key)[2]]
    BY DEF Init
  <2>2. \A r \in chosen : r[1] \in Keys /\ r[2] \in Values
    BY ServiceAssumption DEF Keys, Values
  <2>3. DOMAIN rows \in SUBSET Keys
    BY <2>1, <2>2
  <2>4. ASSUME NEW key \in DOMAIN rows PROVE rows[key] \in Values
    <3>1. \E r \in chosen : r[1] = key
      BY <2>1
    <3>2. (CHOOSE r \in chosen : r[1] = key) \in chosen
      BY <3>1
    <3> QED
      BY <2>1, <2>2, <3>2
  <2>5. rows \in [DOMAIN rows -> Values]
    BY <2>1, <2>4
  <2> QED
    BY <2>3, <2>5, IsRows
<1>4. Images
  <2>1. IsFiniteSet({rows}) /\ Cardinality({rows}) = 1
    BY FS_Singleton
  <2>2. Cardinality(images) <= MaxImages
    BY <1>1, <2>1 DEF Init
  <2> QED
    BY <1>3, <2>1, <2>2 DEF Init, Images
<1>5. ForeignKept
  BY DEF Init, ForeignKept, KeepsForeign
<1> QED
  BY <1>2, <1>4, <1>5 DEF Stored

(* No step breaks what holds of the rows and of their images.              *)
LEMMA ImagesStep ==
  ASSUME Stored, [Next]_vars
  PROVE  Images' /\ ForeignKept'
<1>1. MaxImages \in Nat \ {0}
  BY ServiceAssumption
<1>2. \A held : IsFiniteSet({held}) /\ Cardinality({held}) = 1
  BY FS_Singleton
<1>3. ASSUME NEW held PROVE Cardinality({held}) <= MaxImages
  <2>1. Cardinality({held}) = 1
    BY <1>2
  <2> QED
    BY <1>1, <2>1
<1>4. foreign' = foreign
  BY DEF Next, Index, Delete, DeleteMissing, Resume, TimeOut, Persist, Sync, Open,
         Shutdown, Stop, Crash, PowerFailure, vars
<1>5. \A held : KeepsForeign(held)' <=> KeepsForeign(held)
  BY <1>4 DEF KeepsForeign
<1>6. ASSUME UNCHANGED disk, phase' # "closed" \/ phase' = phase
      PROVE  Images' /\ ForeignKept'
  BY <1>4, <1>6 DEF Stored, Images, ForeignKept, KeepsForeign, disk
<1>7. ASSUME rows' \in images, images' = {rows'} PROVE Images' /\ ForeignKept'
  <2>1. Images'
    BY <1>2, <1>3, <1>7 DEF Stored, Images
  <2>2. ForeignKept'
    BY <1>4, <1>7 DEF Stored, ForeignKept, KeepsForeign
  <2> QED
    BY <2>1, <2>2
<1>8. ASSUME NEW n \in 1..MaxBatch, Persist(n) PROVE Images' /\ ForeignKept'
  <2>1. /\ queue \in Seq(Writes) /\ n \in Nat /\ n <= Len(queue)
        /\ rows \in Rows /\ KeepsForeign(rows)
    <3>1. MaxBatch \in Nat
      BY ServiceAssumption
    <3>2. n \in Nat
      BY <3>1
    <3> QED
      BY <1>8, <3>2
       DEF Persist, Stored, Types, CallTypes, Images, ForeignKept
  <2>2. SubSeq(queue, 1, n) \in Seq(Writes)
    BY <2>1, RestTypes
  <2>3. rows' = FoldLeft(WriteRow, rows, SubSeq(queue, 1, n))
    BY <1>8 DEF Persist
  <2>4. rows' \in Rows /\ KeepsForeign(rows')
    BY <2>1, <2>2, <2>3, PersistKeeps
  <2>5. IsFiniteSet(images) /\ Cardinality(images) < MaxImages
    BY <1>8 DEF Stored, Images, Persist
  <2>6. /\ IsFiniteSet(images \cup {rows'})
        /\ Cardinality(images) \in Nat
        /\ \/ Cardinality(images \cup {rows'}) = Cardinality(images)
           \/ Cardinality(images \cup {rows'}) = Cardinality(images) + 1
    BY <2>5, FS_AddElement, FS_CardinalityType
  <2>7. Cardinality(images \cup {rows'}) <= MaxImages
    BY <1>1, <2>5, <2>6
  <2>8. images' = images \cup {rows'} /\ phase' = phase /\ phase # "closed"
    BY <1>8 DEF Persist
  <2>9. Images'
    BY <2>4, <2>6, <2>7, <2>8 DEF Stored, Images
  <2>10. ForeignKept'
    <3>1. \A held \in images' : KeepsForeign(held)
      BY <2>4, <2>8 DEF Stored, ForeignKept
    <3> QED
      BY <1>4, <3>1 DEF ForeignKept, KeepsForeign
  <2> QED
    BY <2>9, <2>10
<1>9. CASE \E p \in Pairs : (\E w \in Weights : Index(p, w)) \/ Delete(p) \/ DeleteMissing(p)
  BY <1>6, <1>9 DEF Index, Delete, DeleteMissing
<1>10. CASE Resume \/ TimeOut \/ Open \/ Shutdown \/ Crash \/ UNCHANGED vars
  BY <1>6, <1>10 DEF Resume, TimeOut, Open, Shutdown, Crash, vars, disk
<1>11. CASE Sync \/ PowerFailure
  BY <1>7, <1>11 DEF Sync, PowerFailure, Stored, Images
<1>12. CASE Stop
  BY <1>6, <1>7, <1>12 DEF Stop, disk, Stored, Images
<1> QED
  BY <1>8, <1>9, <1>10, <1>11, <1>12 DEF Next

(* So both always hold.                                                    *)
LEMMA AlwaysStored ==
  Spec => []Stored
<1>1. Stored /\ [Next]_vars => Stored'
  BY TypesStep, ImagesStep DEF Stored
<1> QED
  BY <1>1, StoredInit, PTL DEF Spec

(* The disk holds bytes and the queue keeps to its room, whatever fails.   *)
THEOREM ServiceTypeCorrect ==
  Spec => []ServiceTypeOK
<1>1. Stored => \A held \in images : \A key \in DOMAIN held :
                  key \in Keys /\ held[key] \in Values
  BY RowTypes DEF Stored, Images
<1>2. Stored => ServiceTypeOK
  BY <1>1 DEF Stored, Types, CallTypes, Images, ServiceTypeOK, Freqs, Waiting, ValidPairs,
              Keys, Values
<1> QED
  BY <1>2, AlwaysStored, PTL

(* No sequence of requests, faults and starts writes or removes a row that *)
(* no request may name.                                                    *)
THEOREM ForeignRowsKept ==
  Spec => []ForeignRowsStay
<1>1. Stored => ForeignRowsStay
  BY DEF Stored, Images, ForeignKept, KeepsForeign, ForeignRowsStay
<1> QED
  BY <1>1, AlwaysStored, PTL

----------------------------------------------------------------------------
(* What callers were told.                                                 *)

(* A longer queue that ends in what is expected of its pair tells no less. *)
LEMMA AppendTells ==
  ASSUME Types, Told, phase = "open",
         NEW write \in Writes, NEW answer \in SUBSET Freqs, write.freq \in answer,
         queue' = Append(queue, write), told' = [told EXCEPT ![write.pair] = answer]
  PROVE  LastWritesTold' /\ \A held \in Rows : RowsTold(held, queue) => RowsTold(held, queue)'
<1> DEFINE p == write.pair
           n == Len(queue)
<1>1. /\ queue \in Seq(Writes) /\ n \in Nat /\ \A i \in 1..n : queue[i] \in Writes
      /\ told \in [Pairs -> SUBSET Freqs] /\ p \in Pairs
  BY LenProperties, ElementOfSeq, ValidKey DEF Types, CallTypes, Writes
<1>2. /\ Len(queue') = n + 1 /\ queue'[n + 1] = write
      /\ \A i \in 1..n : queue'[i] = queue[i]
  BY <1>1, AppendProperties
<1>3. told'[p] = answer /\ \A q \in Pairs : q # p => told'[q] = told[q]
  BY <1>1
<1> HIDE DEF n
<1>4. \A i \in 1..n : queue[i].pair \in Pairs
  BY <1>1, ValidKey DEF Writes
<1>5. ASSUME NEW i \in 1..(n + 1)
      PROVE  \/ queue'[i].freq \in told'[queue'[i].pair]
             \/ \E j \in (i + 1)..(n + 1) : queue'[j].pair = queue'[i].pair
  <2>1. CASE i = n + 1
    BY <1>2, <1>3, <2>1
  <2>2. CASE i \in 1..n
    <3>1. queue'[i] = queue[i] /\ queue[i].pair \in Pairs
      BY <1>2, <1>4, <2>2
    <3>2. CASE queue[i].pair = p
      <4>1. n + 1 \in (i + 1)..(n + 1)
        BY <1>1, <2>2
      <4> QED
        BY <1>2, <3>1, <3>2, <4>1
    <3>3. CASE queue[i].pair # p /\ queue[i].freq \in told[queue[i].pair]
      BY <1>3, <3>1, <3>3
    <3>4. CASE \E j \in (i + 1)..n : queue[j].pair = queue[i].pair
      <4>1. PICK j \in (i + 1)..n : queue[j].pair = queue[i].pair
        BY <3>4
      <4>2. j \in 1..n /\ j \in (i + 1)..(n + 1)
        BY <1>1, <2>2
      <4> QED
        BY <1>2, <3>1, <4>1, <4>2
    <3> QED
      BY <2>2, <3>2, <3>3, <3>4 DEF Told, LastWritesTold, n
  <2>3. i = n + 1 \/ i \in 1..n
    <3>1. n \in Nat
      BY <1>1
    <3> QED
      BY <3>1
  <2> QED
    BY <2>1, <2>2, <2>3
<1>6. LastWritesTold'
  BY <1>2, <1>5 DEF LastWritesTold
<1>7. ASSUME NEW held \in Rows, RowsTold(held, queue), NEW q \in Pairs
      PROVE  \/ RowFrequency(held, q) \in told'[q]
             \/ \E i \in 1..(n + 1) : queue'[i].pair = q
  <2>1. CASE q = p
    <3>1. n + 1 \in 1..(n + 1)
      BY <1>1
    <3> QED
      BY <1>2, <2>1, <3>1
  <2>2. CASE q # p /\ RowFrequency(held, q) \in told[q]
    BY <1>3, <2>2
  <2>3. CASE \E i \in 1..n : queue[i].pair = q
    <3>1. PICK i \in 1..n : queue[i].pair = q
      BY <2>3
    <3>2. i \in 1..(n + 1)
      BY <1>1
    <3> QED
      BY <1>2, <3>1, <3>2
  <2> QED
    BY <1>7, <2>1, <2>2, <2>3 DEF RowsTold, n
<1>8. ASSUME NEW held \in Rows, RowsTold(held, queue) PROVE RowsTold(held, queue)'
  <2>1. \A q \in Pairs : \/ RowFrequency(held, q) \in told'[q]
                         \/ \E i \in 1..(n + 1) : queue'[i].pair = q
    BY <1>7, <1>8
  <2> QED
    BY <1>2, <2>1 DEF RowsTold
<1> QED
  BY <1>6, <1>8

(* To expect more than before breaks nothing.                              *)
LEMMA MoreTells ==
  ASSUME Types, Told, phase # "down", UNCHANGED <<queue, rows>>,
         \A q \in Pairs : told[q] \subseteq told'[q]
  PROVE  LastWritesTold' /\ RowsTold(rows, queue)'
<1>1. Len(queue) \in Nat /\ \A i \in 1..Len(queue) : queue[i].pair \in Pairs
  <2>1. Len(queue) \in Nat /\ \A i \in 1..Len(queue) : queue[i] \in Writes
    BY LenProperties, ElementOfSeq DEF Types, CallTypes
  <2> QED
    BY <2>1, ValidKey DEF Writes
<1>2. LastWritesTold'
  BY <1>1 DEF Told, LastWritesTold
<1>3. RowsTold(rows, queue)'
  BY DEF Told, RowsTold
<1> QED
  BY <1>2, <1>3

(* A call that changes the trie and submits the same write.                *)
LEMMA SubmitTells ==
  ASSUME Stored, Told, Ready, UNCHANGED <<phase, rows>>,
         NEW p \in ValidPairs, NEW f \in Freqs, NEW answer \in SUBSET Freqs, f \in answer,
         Submit(p, f, answer),
         \A q \in Pairs : Frequency(q)' = IF q = p THEN f ELSE Frequency(q)
  PROVE  Told'
<1>1. /\ Types /\ p \in Pairs /\ told \in [Pairs -> SUBSET Freqs] /\ rows \in Rows
      /\ \A q \in Pairs : Frequency(q) \in told[q]
      /\ LastWritesTold /\ RowsTold(rows, queue)
      /\ phase = "open" /\ phase' = "open" /\ parked = None
  BY ValidKey DEF Stored, Types, CallTypes, Images, Told, MemoryTold, AnswersHold, Ready
<1>2. CASE HasRoom /\ queue' = Append(queue, [pair |-> p, freq |-> f])
           /\ told' = [told EXCEPT ![p] = answer] /\ UNCHANGED parked
  <2> DEFINE write == [pair |-> p, freq |-> f]
  <2>1. write \in Writes /\ write.pair = p /\ write.freq = f
    BY DEF Writes
  <2> HIDE DEF write
  <2>2. queue' = Append(queue, write) /\ told' = [told EXCEPT ![write.pair] = answer]
    BY <1>2, <2>1 DEF write
  <2>3. LastWritesTold' /\ RowsTold(rows, queue)'
    <3>1. /\ LastWritesTold'
          /\ \A held \in Rows : RowsTold(held, queue) => RowsTold(held, queue)'
      BY <1>1, <2>1, <2>2, AppendTells
    <3> QED
      BY <1>1, <3>1 DEF RowsTold
  <2>4. \A q \in Pairs : Frequency(q)' \in told'[q]
    BY <1>1, <1>2
  <2> QED
    BY <1>1, <1>2, <2>3, <2>4 DEF Told, MemoryTold, AnswersHold
<1>3. CASE MayBeFull /\ parked' = [pair |-> p, freq |-> f, answer |-> answer]
           /\ told' = [told EXCEPT ![p] = @ \cup answer] /\ UNCHANGED queue
  <2>1. \A q \in Pairs : told[q] \subseteq told'[q]
    BY <1>1, <1>3
  <2>2. LastWritesTold' /\ RowsTold(rows, queue)'
    BY <1>1, <1>3, <2>1, MoreTells
  <2>3. \A q \in Pairs : Frequency(q)' \in told'[q]
    BY <1>1, <1>3
  <2>4. parked'.freq \in parked'.answer /\ Frequency(parked.pair)' \in parked'.answer
    <3>1. parked'.freq = f /\ parked'.pair = p /\ parked'.answer = answer
      BY <1>3
    <3>2. Frequency(parked.pair)' = f
      BY <1>1, <3>1 DEF Frequency
    <3> QED
      BY <3>1, <3>2
  <2> QED
    BY <1>1, <2>2, <2>3, <2>4 DEF Told, MemoryTold, AnswersHold
<1> QED
  BY <1>2, <1>3 DEF Submit

(* No step makes an answer false.                                          *)
LEMMA ToldStep ==
  ASSUME ~TrustNotFound, Stored, Told, [Next]_vars
  PROVE  Told'
<1>1. /\ Types /\ Images /\ rows \in Rows
      /\ queue \in Seq(Writes) /\ told \in [Pairs -> SUBSET Freqs]
      /\ phase = "open" => \A q \in Pairs : Frequency(q) \in told[q]
  BY DEF Stored, Types, CallTypes, Images, Told, MemoryTold, AnswersHold
<1>2. ASSUME tries' = tries PROVE \A q : Frequency(q)' = Frequency(q)
  BY <1>2 DEF Frequency
<1>3. ASSUME NEW p \in Pairs, NEW w \in Weights, Index(p, w) PROVE Told'
  <2> DEFINE f == Bumped(Frequency(p), w)
             answer == {Bumped(g, w) : g \in told[p]}
  <2>1. p \in ValidPairs /\ Ready /\ UNCHANGED <<phase, rows>> /\ Submit(p, f, answer)
    BY <1>3 DEF Index, ValidPairs, disk
  <2>2. f \in Freqs /\ answer \in SUBSET Freqs
    BY <1>1, FreqTypes, BumpedAnswers DEF Types
  <2>3. f \in answer
    BY <1>1, <2>1 DEF Ready
  <2>4. \A q \in Pairs : Frequency(q)' = IF q = p THEN f ELSE Frequency(q)
    <3>1. tries' = With(tries, p[1], With(TrieOf(tries, p[1]), p[2], f))
      BY <1>3 DEF Index, TrieOf
    <3>2. p[1] \in Tenants /\ p[2] \in Terms
          /\ \A q \in Pairs : q = p <=> q[1] = p[1] /\ q[2] = p[2]
      BY PairParts
    <3> HIDE DEF f
    <3>3. \A q \in Pairs : FrequencyIn(tries', q) =
            IF q[1] = p[1] /\ q[2] = p[2] THEN f ELSE FrequencyIn(tries, q)
      BY <3>1, <3>2, IndexedFrequency
    <3> QED
      BY <3>2, <3>3 DEF Frequency
  <2> HIDE DEF f, answer
  <2> QED
    BY <2>1, <2>2, <2>3, <2>4, SubmitTells
<1>4. ASSUME NEW p \in Pairs, Delete(p) PROVE Told'
  <2>1. p \in ValidPairs /\ Ready /\ UNCHANGED <<phase, rows>> /\ Submit(p, Absent, {Absent})
    BY <1>4 DEF Delete, ValidPairs, disk
  <2>2. Absent \in Freqs /\ {Absent} \in SUBSET Freqs /\ Absent \in {Absent}
    BY FreqTypes
  <2>3. \A q \in Pairs : Frequency(q)' = IF q = p THEN Absent ELSE Frequency(q)
    BY <1>4, DeletedFrequency DEF Delete, Frequency
  <2> QED
    BY <2>1, <2>2, <2>3, SubmitTells
<1>5. ASSUME UNCHANGED <<phase, tries, queue, rows, told>>,
             parked' = parked \/ parked' = None
      PROVE  Told'
  <2>1. \A q : Frequency(q)' = Frequency(q)
    BY <1>2, <1>5
  <2>2. phase # "down" => LastWritesTold' /\ RowsTold(rows, queue)'
    <3>1. \A q \in Pairs : told[q] \subseteq told'[q]
      BY <1>5
    <3> QED
      BY <1>1, <1>5, <3>1, MoreTells
  <2>3. AnswersHold'
    BY <1>1, <1>5, <2>1 DEF AnswersHold
  <2>4. parked' # None =>
          parked'.freq \in parked'.answer /\ Frequency(parked.pair)' \in parked'.answer
    <3>1. parked' = parked => Frequency(parked.pair)' = Frequency(parked.pair)
      BY <1>5 DEF Frequency
    <3> QED
      BY <1>5, <3>1 DEF Told, MemoryTold
  <2> QED
    BY <1>5, <2>2, <2>3, <2>4 DEF Told, MemoryTold
<1>6. CASE \E p \in Pairs : DeleteMissing(p)
  BY <1>5, <1>6 DEF DeleteMissing, memory, disk
<1>7. CASE Resume
  <2> DEFINE write == [pair |-> parked.pair, freq |-> parked.freq]
  <2>1. parked \in Waiting /\ phase = "open" /\ phase' = "open" /\ rows' = rows
    BY <1>7 DEF Resume, disk, Stored, Types, CallTypes
  <2>2. /\ write \in Writes /\ write.pair = parked.pair /\ write.freq = parked.freq
        /\ parked.answer \in SUBSET Freqs /\ parked.pair \in Pairs
    BY <2>1, ValidKey DEF Writes, Waiting
  <2>3. /\ parked.freq \in parked.answer
        /\ Frequency(parked.pair) \in parked.answer
    BY <1>7 DEF Resume, Told, MemoryTold
  <2> HIDE DEF write
  <2>4. /\ queue' = Append(queue, write)
        /\ told' = [told EXCEPT ![write.pair] = parked.answer]
    BY <1>7, <2>2 DEF Resume, write
  <2>5. /\ LastWritesTold'
        /\ \A held \in Rows : RowsTold(held, queue) => RowsTold(held, queue)'
    BY <1>1, <2>1, <2>2, <2>3, <2>4, AppendTells
  <2>6. RowsTold(rows, queue)'
    <3>1. RowsTold(rows, queue)
      BY <2>1 DEF Told
    <3> QED
      BY <1>1, <2>1, <2>5, <3>1 DEF RowsTold
  <2>7. \A q \in Pairs : Frequency(q)' \in told'[q]
    <3>1. \A q \in Pairs : Frequency(q)' = Frequency(q)
      BY <1>7 DEF Resume, Frequency
    <3> QED
      BY <1>1, <2>1, <2>2, <2>3, <2>4, <3>1
  <2> QED
    BY <1>7, <2>1, <2>5, <2>6, <2>7 DEF Resume, Told, MemoryTold, AnswersHold
<1>8. CASE TimeOut
  BY <1>5, <1>8 DEF TimeOut, disk
<1>9. ASSUME NEW n \in 1..MaxBatch, Persist(n) PROVE Told'
  <2>1. n \in Nat /\ n <= Len(queue) /\ phase # "down"
    <3>1. MaxBatch \in Nat
      BY ServiceAssumption
    <3>2. n \in Nat
      BY <3>1
    <3> QED
      BY <1>9, <3>2 DEF Persist
  <2>2. LastWritesTold /\ RowsTold(rows, queue)
    BY <2>1 DEF Told
  <2>3. /\ rows' = FoldLeft(WriteRow, rows, SubSeq(queue, 1, n))
        /\ queue' = SubSeq(queue, n + 1, Len(queue))
        /\ UNCHANGED <<phase, tries, parked, told>>
    BY <1>9 DEF Persist
  <2>4. RowsTold(rows', queue')
    BY <1>1, <2>1, <2>2, <2>3, PersistTells
  <2>5. RowsTold(rows, queue)'
    BY <2>3, <2>4 DEF RowsTold
  <2>6. LastWritesTold'
    <3>1. /\ Len(queue') = Len(queue) - n
          /\ \A i \in 1..(Len(queue) - n) : queue'[i] = queue[n + i]
      BY <1>1, <2>1, <2>3, RestTypes
    <3>2. Len(queue) \in Nat
      BY <1>1, LenProperties
    <3>3. ASSUME NEW i \in 1..Len(queue')
          PROVE  \/ queue'[i].freq \in told[queue'[i].pair]
                 \/ \E j \in (i + 1)..Len(queue') : queue'[j].pair = queue'[i].pair
      <4>1. n + i \in 1..Len(queue) /\ queue'[i] = queue[n + i]
        BY <2>1, <3>1, <3>2
      <4>2. CASE \E j \in (n + i + 1)..Len(queue) : queue[j].pair = queue[n + i].pair
        <5>1. PICK j \in (n + i + 1)..Len(queue) : queue[j].pair = queue[n + i].pair
          BY <4>2
        <5>2. j - n \in (i + 1)..Len(queue') /\ n + (j - n) = j
              /\ j - n \in 1..(Len(queue) - n)
          BY <2>1, <3>1, <3>2
        <5>3. queue'[j - n] = queue[j]
          BY <3>1, <5>2
        <5> QED
          BY <4>1, <5>1, <5>2, <5>3
      <4> QED
        BY <2>2, <4>1, <4>2 DEF LastWritesTold
    <3> QED
      BY <2>3, <3>3 DEF LastWritesTold
  <2>7. AnswersHold'
    BY <1>1, <1>2, <2>3 DEF AnswersHold
  <2>8. parked' # None =>
          parked'.freq \in parked'.answer /\ Frequency(parked.pair)' \in parked'.answer
    <3>1. Frequency(parked.pair)' = Frequency(parked.pair)
      BY <2>3 DEF Frequency
    <3> QED
      BY <2>3, <3>1 DEF Told, MemoryTold
  <2> QED
    BY <2>5, <2>6, <2>7, <2>8 DEF Told, MemoryTold
<1>10. CASE Sync \/ UNCHANGED vars
  BY <1>5, <1>10 DEF Sync, memory, vars
<1>11. CASE Open
  <2>1. /\ phase' = "open" /\ queue' = <<>> /\ parked' = None /\ rows' = rows
        /\ tries' = Replayed(rows)
    BY <1>11 DEF Open, disk
  <2>2. \A q \in Pairs : RowFrequency(rows, q) \in told'[q]
    <3>1. CASE phase = "down"
      BY <1>11, <3>1 DEF Open, RowFrequency
    <3>2. CASE phase \in {"closed", "unflushed"}
      <4>1. queue = <<>> /\ RowsTold(rows, queue) /\ told' = told
        BY <1>1, <1>11, <3>2 DEF Open, Types, Told
      <4> QED
        BY <4>1 DEF RowsTold
    <3> QED
      BY <1>11, <3>1, <3>2 DEF Open
  <2>3. LastWritesTold' /\ RowsTold(rows, queue)'
    BY <2>1, <2>2 DEF LastWritesTold, RowsTold
  <2>4. AnswersHold'
    BY <2>1, <2>2 DEF AnswersHold, Frequency, RowFrequency
  <2> QED
    BY <2>1, <2>3, <2>4 DEF Told, MemoryTold
<1>12. CASE Shutdown
  <2>1. /\ phase = "open" /\ phase' = "closing" /\ parked' = None
        /\ UNCHANGED <<queue, rows, told>>
    BY <1>12 DEF Shutdown, Ready, memory, disk
  <2>2. \A q \in Pairs : told[q] \subseteq told'[q]
    BY <2>1
  <2>3. LastWritesTold' /\ RowsTold(rows, queue)'
    BY <1>1, <2>1, <2>2, MoreTells
  <2> QED
    BY <2>1, <2>3 DEF Told, MemoryTold, AnswersHold
<1>13. CASE Stop
  <2>1. /\ phase = "closing" /\ phase' \in {"closed", "unflushed"} /\ parked' = None
        /\ queue = <<>> /\ UNCHANGED <<queue, rows, told>>
    BY <1>13 DEF Stop, Forget
  <2>2. \A q \in Pairs : told[q] \subseteq told'[q]
    BY <2>1
  <2>3. LastWritesTold' /\ RowsTold(rows, queue)'
    BY <1>1, <2>1, <2>2, MoreTells
  <2> QED
    BY <2>1, <2>3 DEF Told, MemoryTold, AnswersHold
<1>14. CASE Crash
  BY <1>14 DEF Crash, Forget, Told, MemoryTold, AnswersHold
<1>15. CASE PowerFailure
  <2>1. CASE phase = "closed"
    <3>1. /\ phase' = "closed" /\ queue = <<>> /\ parked' = None
          /\ UNCHANGED <<queue, rows, told>>
      BY <1>1, <1>15, <2>1 DEF PowerFailure, Forget, Types, Images
    <3>2. \A q \in Pairs : told[q] \subseteq told'[q]
      BY <3>1
    <3>3. LastWritesTold' /\ RowsTold(rows, queue)'
      BY <1>1, <2>1, <3>1, <3>2, MoreTells
    <3> QED
      BY <3>1, <3>3 DEF Told, MemoryTold, AnswersHold
  <2>2. CASE phase # "closed"
    BY <1>15, <2>2 DEF PowerFailure, Forget, Told, MemoryTold, AnswersHold
  <2> QED
    BY <2>1, <2>2
<1> QED
  BY <1>3, <1>4, <1>6, <1>7, <1>8, <1>9, <1>10, <1>11, <1>12, <1>13, <1>14, <1>15 DEF Next

(* The answers are kept, for any tenants, terms, weights and capacities:   *)
(* what a caller works out from 202, 204, 400 and 408 holds, across        *)
(* shutdown, crash, power failure and start, among rows of others.         *)
THEOREM AnswersKept ==
  ASSUME ~TrustNotFound
  PROVE  Spec => []AnswersHold
<1>1. Init => Told
  BY DEF Init, Told, MemoryTold, AnswersHold
<1>2. Stored /\ Told /\ [Next]_vars => Told'
  BY ToldStep
<1>3. Told => AnswersHold
  BY DEF Told, MemoryTold
<1> QED
  BY <1>1, <1>2, <1>3, AlwaysStored, PTL DEF Spec
=============================================================================
