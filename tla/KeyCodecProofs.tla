--------------------------- MODULE KeyCodecProofs ---------------------------
(***************************************************************************)
(* What the key encoding of src/storage/rocks.rs rests on: with validated  *)
(* tenants, a key decodes to the pair it was made from, so no two pairs    *)
(* share a row.  This is what lets Storage and Engine treat a pair as one  *)
(* abstract key.                                                           *)
(***************************************************************************)
EXTENDS KeyCodec, FoldProofs, SequenceTheorems, TLAPS

(* A key is the tenant, the separator, the term, byte by byte.             *)
IsKeyOf(key, tenant, term) ==
  /\ Len(tenant) \in Nat /\ Len(term) \in Nat
  /\ key \in Seq(Byte)
  /\ Len(key) = Len(tenant) + 1 + Len(term)
  /\ \A i \in 1..Len(tenant) : key[i] = tenant[i]
  /\ key[Len(tenant) + 1] = Sep
  /\ \A i \in 1..Len(term) : key[Len(tenant) + 1 + i] = term[i]

(* The bytes of a key, one by one.                                         *)
LEMMA KeyBytes ==
  ASSUME NEW tenant \in Seq(Byte), NEW term \in Seq(Byte)
  PROVE  IsKeyOf(EncodeKey(tenant, term), tenant, term)
BY CodecAssumption DEF EncodeKey, IsKeyOf

(* The first separator of a key is the one encode_key put there, as long   *)
(* as the tenant has none.                                                 *)
LEMMA SplitsBehindTenant ==
  ASSUME NEW tenant \in Seq(Byte), NEW term \in Seq(Byte), NEW key,
         IsKeyOf(key, tenant, term), Sep \notin BytesOf(tenant)
  PROVE  SplitAt(key) = Len(tenant) + 1
<1> DEFINE Splits(i) == i \in DOMAIN key /\ key[i] = Sep /\ \A j \in 1..(i - 1) : key[j] # Sep
           n == Len(tenant)
<1>1. n \in Nat /\ DOMAIN key = 1..(n + 1 + Len(term)) /\ Len(term) \in Nat
  BY DEF IsKeyOf
<1>2. \A i \in 1..n : key[i] # Sep
  <2>1. \A i \in 1..n : tenant[i] \in BytesOf(tenant)
    BY DEF BytesOf, ToSet
  <2> QED
    BY <2>1 DEF IsKeyOf
<1>3. key[n + 1] = Sep
  BY DEF IsKeyOf
<1> HIDE DEF n
<1>4. Splits(n + 1)
  <2>1. n + 1 \in DOMAIN key
    BY <1>1
  <2>2. \A j \in 1..((n + 1) - 1) : key[j] # Sep
    BY <1>1, <1>2
  <2> QED
    BY <1>3, <2>1, <2>2
<1>5. ASSUME NEW i, Splits(i)
      PROVE  i = n + 1
  <2>1. i \in Nat /\ i >= 1
    BY <1>1, <1>5
  <2>2. ~(i < n + 1)
    <3> SUFFICES ASSUME i < n + 1 PROVE FALSE
      OBVIOUS
    <3>1. i \in 1..n
      BY <1>1, <2>1
    <3> QED
      BY <1>2, <1>5, <3>1
  <2>3. ~(n + 1 < i)
    <3> SUFFICES ASSUME n + 1 < i PROVE FALSE
      OBVIOUS
    <3>1. n + 1 \in 1..(i - 1)
      BY <1>1, <2>1
    <3> QED
      BY <1>3, <1>5, <3>1
  <2> QED
    BY <1>1, <2>1, <2>2, <2>3
<1>6. SplitAt(key) = n + 1
  <2>1. Splits(SplitAt(key))
    <3>1. \E i \in DOMAIN key : key[i] = Sep /\ \A j \in 1..(i - 1) : key[j] # Sep
      BY <1>4
    <3> QED
      BY <3>1 DEF SplitAt
  <2> QED
    BY <1>5, <2>1
<1> QED
  BY <1>6 DEF n

(* decode_key undoes encode_key for every tenant without a separator and   *)
(* every term, whatever the term contains.                                 *)
THEOREM RoundTrip ==
  ASSUME NEW tenant \in Seq(Byte), NEW term \in Seq(Byte), Sep \notin BytesOf(tenant)
  PROVE  DecodeKey(EncodeKey(tenant, term)) = <<tenant, term>>
<1> DEFINE n == Len(tenant)
<1> SUFFICES ASSUME NEW key, key = EncodeKey(tenant, term)
             PROVE  DecodeKey(key) = <<tenant, term>>
  OBVIOUS
<1>1. IsKeyOf(key, tenant, term)
  BY KeyBytes
<1>2. SplitAt(key) = n + 1
  BY <1>1, SplitsBehindTenant
<1>3. key \in Seq(Byte) /\ n \in Nat /\ Len(term) \in Nat /\ Len(key) = n + 1 + Len(term)
  BY <1>1 DEF IsKeyOf
<1>4. Sep \in BytesOf(key) /\ BytesOf(key) \cap NotUtf8 = {}
  <2>1. n + 1 \in DOMAIN key /\ key[n + 1] = Sep
    BY <1>1, <1>3 DEF IsKeyOf
  <2>2. BytesOf(key) \subseteq Byte
    BY <1>3 DEF BytesOf, ToSet
  <2>3. Sep \in BytesOf(key)
    BY <2>1 DEF BytesOf, ToSet
  <2> QED
    BY <2>2, <2>3, CodecAssumption
<1>5. SubSeq(key, 1, (n + 1) - 1) = tenant
  <2>1. SubSeq(key, 1, n) \in Seq(Byte) /\ Len(SubSeq(key, 1, n)) = n
    BY <1>3, SubSeqProperties
  <2>2. \A i \in 1..n : SubSeq(key, 1, n)[i] = tenant[i]
    BY <1>1, <1>3, SubSeqProperties DEF IsKeyOf
  <2>3. SubSeq(key, 1, n) = tenant
    BY <2>1, <2>2, SeqEqual
  <2> QED
    BY <1>3, <2>3
<1>6. SubSeq(key, (n + 1) + 1, Len(key)) = term
  <2> DEFINE rest == SubSeq(key, n + 2, Len(key))
  <2>1. rest \in Seq(Byte) /\ Len(rest) = Len(term)
    BY <1>3, SubSeqProperties
  <2>2. \A i \in 1..Len(term) : rest[i] = term[i]
    <3> SUFFICES ASSUME NEW i \in 1..Len(term) PROVE rest[i] = term[i]
      OBVIOUS
    <3>1. rest[i] = key[n + 1 + i]
      BY <1>3, SubSeqProperties
    <3> QED
      BY <1>1, <3>1 DEF IsKeyOf
  <2> HIDE DEF rest
  <2>3. rest = term
    BY <2>1, <2>2, SeqEqual
  <2> QED
    BY <1>3, <2>3 DEF rest
<1> QED
  BY <1>2, <1>4, <1>5, <1>6 DEF DecodeKey

(* validate_tenant does its part: two pairs that pass it never share a     *)
(* row, so a batch, a replay and a delete reach the pair they name only.   *)
THEOREM PairsDoNotShareRows ==
  ASSUME NEW t1 \in Seq(Byte), NEW x1 \in Seq(Byte),
         NEW t2 \in Seq(Byte), NEW x2 \in Seq(Byte),
         ValidTenant(t1), ValidTenant(t2),
         EncodeKey(t1, x1) = EncodeKey(t2, x2)
  PROVE  t1 = t2 /\ x1 = x2
<1>1. Sep \notin BytesOf(t1) /\ Sep \notin BytesOf(t2)
  BY DEF ValidTenant
<1>2. <<t1, x1>> = <<t2, x2>>
  <2>1. DecodeKey(EncodeKey(t1, x1)) = <<t1, x1>>
    BY <1>1, RoundTrip
  <2>2. DecodeKey(EncodeKey(t2, x2)) = <<t2, x2>>
    BY <1>1, RoundTrip
  <2> QED
    BY <2>1, <2>2
<1> QED
  BY <1>2

----------------------------------------------------------------------------
(* Frequencies.                                                            *)

(* The weights of the bytes are the powers of the base.                    *)
LEMMA PowerSteps ==
  /\ Power \in [0..Width -> Nat \ {0}]
  /\ Power[0] = 1
  /\ \A i \in 1..Width : Power[i] = Base * Power[i - 1]
<1> DEFINE S == Nat \ {0}
           step == [i \in 1..Width |-> [x \in S |-> Base * x]]
           IsPower(p) == p = [i \in 0..Width |-> IF i = 0 THEN 1 ELSE Base * p[i - 1]]
<1>1. \A x \in S : Base * x \in S
  BY CodecAssumption
<1>2. step \in Steps(1..Width, S)
  BY <1>1 DEF Steps
<1>3. 1 \in S /\ Width \in Nat
  BY CodecAssumption
<1>4. PICK u : Iterates(u, Width, S, 1, step)
  <2> HIDE DEF S, step
  <2> QED
    BY <1>2, <1>3, IterationExists
<1> USE DEF Iterates
<1>5. ASSUME NEW i \in 1..Width PROVE u[i] = Base * u[i - 1]
  <2>1. i - 1 \in 0..Width
    BY <1>3
  <2>2. u[i - 1] \in S
    BY <1>4, <2>1
  <2>3. step[i][u[i - 1]] = Base * u[i - 1]
    BY <2>2
  <2> QED
    BY <1>4, <2>3
<1>6. IsPower(u)
  <2>1. u = [i \in 0..Width |-> u[i]]
    BY <1>4
  <2>2. \A i \in 0..Width : u[i] = IF i = 0 THEN 1 ELSE Base * u[i - 1]
    BY <1>3, <1>4, <1>5
  <2> QED
    BY <2>1, <2>2
<1>7. IsPower(Power)
  BY <1>6 DEF Power
<1> HIDE DEF IsPower
<1>8. \A i \in 0..Width : Power[i] = IF i = 0 THEN 1 ELSE Base * Power[i - 1]
  BY <1>7 DEF IsPower
<1>9. DOMAIN Power = 0..Width /\ Power = [i \in 0..Width |-> Power[i]]
  BY <1>7 DEF IsPower
<1> DEFINE Bad == {i \in 0..Width : Power[i] \notin S}
<1>10. Bad = {}
  <2> SUFFICES ASSUME Bad # {} PROVE FALSE
    OBVIOUS
  <2>1. PICK m \in Bad : \A j \in Bad : m <= j
    <3>1. Bad \in SUBSET Nat
      BY <1>3
    <3> HIDE DEF Bad
    <3> QED
      BY <3>1, LeastExists
  <2>2. m # 0
    BY <1>3, <1>8
  <2>3. m - 1 \in 0..Width /\ m - 1 \notin Bad
    BY <1>3, <2>1, <2>2
  <2>4. Power[m] = Base * Power[m - 1]
    BY <1>8, <2>2
  <2> QED
    BY <1>1, <2>3, <2>4
<1>11. \A i \in 0..Width : Power[i] \in S
  BY <1>10
<1>12. \A i \in 1..Width : Power[i] = Base * Power[i - 1]
  BY <1>8
<1> QED
  <2>1. Power \in [0..Width -> S]
    BY <1>9, <1>11
  <2>2. Power[0] = 1
    BY <1>3, <1>8
  <2> QED
    BY <1>12, <2>1, <2>2

Bytewise == [1..Width -> 0..(Base - 1)]

(* What from_le_bytes makes of a value, byte by byte from the highest.     *)
LEMMA DecodeSteps ==
  ASSUME NEW value \in Bytewise
  PROVE  \E u \in [1..(Width + 1) -> Nat] :
           /\ u[Width + 1] = 0
           /\ \A i \in 1..Width : u[i] = value[i] + Base * u[i + 1]
           /\ DecodeFrequency(value) = u[1]
<1> DEFINE D == 1..Width
           pick == [s \in SUBSET D |-> Min(s)]
           step == [i \in D |-> [x \in Nat |-> value[i] + Base * x]]
           Folds(h) == h = [s \in SUBSET D |->
                             IF s = {} THEN 0 ELSE value[Min(s)] + Base * h[s \ {Min(s)}]]
<1>1. /\ Width \in Nat \ {0} /\ Base \in Nat
      /\ \A i \in D : value[i] \in Nat
      /\ DOMAIN value = D /\ Len(value) = Width
  <2>1. Width \in Nat \ {0} /\ Base \in Nat
    BY CodecAssumption
  <2>2. DOMAIN value = D /\ \A i \in D : value[i] \in Nat
    BY <2>1 DEF Bytewise
  <2>3. value \in Seq(Nat) /\ Len(value) = Width
    BY <2>1, <2>2 DEF Bytewise
  <2> QED
    BY <2>1, <2>2, <2>3
<1>2. Picks(pick, D)
  <2>1. \A s \in SUBSET D : s # {} => Min(s) \in s
    <3> SUFFICES ASSUME NEW s \in SUBSET D, s # {} PROVE Min(s) \in s
      OBVIOUS
    <3>1. s \in SUBSET (0..Width)
      OBVIOUS
    <3> QED
      BY <1>1, <3>1, EndsExist
  <2> QED
    BY <2>1 DEF Picks
<1>3. step \in Steps(D, Nat)
  <2>1. \A i \in D : \A x \in Nat : value[i] + Base * x \in Nat
    BY <1>1
  <2> QED
    BY <2>1 DEF Steps
<1>4. IsFiniteSet(D) /\ 0 \in Nat
  BY <1>1, FS_Interval
<1>5. PICK h : IsFold(h, D, Nat, 0, step, pick)
  <2> HIDE DEF D, step, pick
  <2> QED
    BY <1>2, <1>3, <1>4, FoldExists
<1>6. Folds(h)
  <2>1. ASSUME NEW s \in SUBSET D, s # {}
        PROVE  step[pick[s]][h[s \ {pick[s]}]] = value[Min(s)] + Base * h[s \ {Min(s)}]
    <3>1. pick[s] = Min(s) /\ Min(s) \in D
      BY <1>2, <2>1 DEF Picks
    <3>2. h[s \ {Min(s)}] \in Nat
      BY <1>5 DEF IsFold
    <3> QED
      BY <3>1, <3>2
  <2>2. \A s \in SUBSET D :
          h[s] = IF s = {} THEN 0 ELSE value[Min(s)] + Base * h[s \ {Min(s)}]
    <3> HIDE DEF step, pick
    <3> QED
      BY <1>5, <2>1 DEF IsFold
  <2>3. h = [s \in SUBSET D |-> h[s]]
    BY <1>5 DEF IsFold
  <2> HIDE DEF D
  <2> QED
    BY <2>2, <2>3
<1> DEFINE fold == CHOOSE g : Folds(g)
<1>7. Folds(fold)
  BY <1>6
<1>8. DecodeFrequency(value) = fold[D]
  BY <1>1 DEF DecodeFrequency, FoldRight, MapThenFoldSet
<1> HIDE DEF fold
<1>9. fold[{}] = 0 /\ \A s \in SUBSET D : s # {} =>
        fold[s] = value[Min(s)] + Base * fold[s \ {Min(s)}]
  BY <1>7
<1> DEFINE u == [i \in 1..(Width + 1) |-> fold[i..Width]]
<1>10. u[Width + 1] = 0
  <2>1. (Width + 1)..Width = {} /\ Width + 1 \in 1..(Width + 1)
    BY <1>1
  <2> QED
    BY <1>9, <2>1
<1>11. ASSUME NEW i \in 1..Width PROVE u[i] = value[i] + Base * u[i + 1]
  <2>1. Min(i..Width) = i
    <3>1. i..Width \in SUBSET Int /\ i \in i..Width /\ \A j \in i..Width : i <= j
      BY <1>1
    <3> QED
      BY <3>1, MinIs
  <2>2. (i..Width) \ {i} = (i + 1)..Width
    BY <1>1
  <2>3. i..Width \in SUBSET D /\ i..Width # {}
    BY <1>1
  <2>4. fold[i..Width] = value[i] + Base * fold[(i + 1)..Width]
    BY <1>9, <2>1, <2>2, <2>3
  <2>5. i \in 1..(Width + 1) /\ i + 1 \in 1..(Width + 1)
    BY <1>1
  <2> QED
    BY <2>4, <2>5
<1>12. u[1] = DecodeFrequency(value)
  BY <1>1, <1>8
<1>13. u \in [1..(Width + 1) -> Nat]
  <2> DEFINE Bad == {k \in 0..Width : u[Width + 1 - k] \notin Nat}
  <2> SUFFICES Bad = {}
    <3>1. ASSUME NEW i \in 1..(Width + 1) PROVE u[i] \in Nat
      <4>1. Width + 1 - i \in 0..Width /\ Width + 1 - (Width + 1 - i) = i
        BY <1>1
      <4>2. Width + 1 - i \notin Bad
        OBVIOUS
      <4> HIDE DEF u
      <4> QED
        BY <4>1, <4>2
    <3> QED
      BY <3>1
  <2> HIDE DEF u
  <2> SUFFICES ASSUME Bad # {} PROVE FALSE
    OBVIOUS
  <2>1. PICK m \in Bad : \A j \in Bad : m <= j
    <3>1. Bad \in SUBSET Nat
      BY <1>1
    <3> HIDE DEF Bad
    <3> QED
      BY <3>1, LeastExists
  <2>2. m # 0
    BY <1>1, <1>10
  <2>3. m - 1 \in 0..Width /\ m - 1 \notin Bad /\ Width + 1 - m \in 1..Width
    <3>1. m \in 1..Width
      BY <1>1, <2>2
    <3>2. m - 1 \in 0..Width /\ Width + 1 - m \in 1..Width /\ ~ (m <= m - 1)
      BY <1>1, <3>1
    <3> QED
      BY <2>1, <3>2
  <2>4. u[Width + 1 - (m - 1)] \in Nat
    BY <2>3
  <2>5. Width + 1 - (m - 1) = (Width + 1 - m) + 1
    BY <1>1
  <2>6. u[Width + 1 - m] = value[Width + 1 - m] + Base * u[(Width + 1 - m) + 1]
    BY <1>11, <2>3
  <2>7. value[Width + 1 - m] \in Nat /\ u[(Width + 1 - m) + 1] \in Nat
    BY <1>1, <2>3, <2>4, <2>5
  <2>8. \A x, y \in Nat : x + Base * y \in Nat
    BY <1>1
  <2>9. u[Width + 1 - m] \in Nat
    BY <2>6, <2>7, <2>8
  <2> QED
    BY <2>9
<1> HIDE DEF u
<1> QED
  BY <1>10, <1>11, <1>12, <1>13

(* Dividing with a rest.                                                   *)
LEMMA DivMod ==
  ASSUME NEW x \in Nat, NEW b \in Nat \ {0}
  PROVE  (x % b) + b * (x \div b) = x
OBVIOUS

(* Dividing twice.                                                         *)
LEMMA DivDiv ==
  ASSUME NEW x \in Nat, NEW b \in Nat \ {0}, NEW c \in Nat \ {0}
  PROVE  x \div (c * b) = (x \div b) \div c
OBVIOUS

(* Dividing less than the divisor.                                         *)
LEMMA DivSmall ==
  ASSUME NEW x \in Nat, NEW b \in Nat, x < b
  PROVE  x \div b = 0
OBVIOUS

(* decode_frequency undoes encode_frequency for every u64.                 *)
THEOREM FrequencyRoundTrip ==
  ASSUME NEW f \in 0..MaxFreq
  PROVE  /\ EncodeFrequency(f) \in Bytewise
         /\ DecodeFrequency(EncodeFrequency(f)) = f
<1> DEFINE value == EncodeFrequency(f)
<1>1. /\ Width \in Nat \ {0} /\ Base \in Nat \ {0, 1}
      /\ \A i \in 0..Width : Power[i] \in Nat \ {0}
      /\ \A i \in 1..Width : Power[i] = Base * Power[i - 1]
  BY CodecAssumption, PowerSteps
<1>2. f \in Nat /\ f < Power[Width]
  <2>1. Power[Width] \in Nat
    BY <1>1
  <2> QED
    BY <2>1 DEF MaxFreq
<1>3. \A i \in 1..Width : f \div Power[i - 1] \in Nat
  <2>1. \A p \in Nat \ {0} : f \div p \in Nat
    BY <1>2
  <2>2. \A i \in 1..Width : i - 1 \in 0..Width
    BY <1>1
  <2> QED
    BY <1>1, <2>1, <2>2
<1>4. value \in Bytewise
  <2>1. \A x \in Nat : x % Base \in 0..(Base - 1)
    BY <1>1
  <2> QED
    BY <1>3, <2>1 DEF EncodeFrequency, Bytewise
<1>5. PICK u \in [1..(Width + 1) -> Nat] :
        /\ u[Width + 1] = 0
        /\ \A i \in 1..Width : u[i] = value[i] + Base * u[i + 1]
        /\ DecodeFrequency(value) = u[1]
  BY <1>4, DecodeSteps
<1> DEFINE Bad == {k \in 0..Width : u[Width + 1 - k] # f \div Power[Width - k]}
<1>6. Bad = {}
  <2> SUFFICES ASSUME Bad # {} PROVE FALSE
    OBVIOUS
  <2>1. PICK m \in Bad : \A j \in Bad : m <= j
    <3>1. Bad \in SUBSET Nat
      BY <1>1
    <3> HIDE DEF Bad
    <3> QED
      BY <3>1, LeastExists
  <2>2. m # 0
    <3>1. f \div Power[Width] = 0
      BY <1>1, <1>2, DivSmall
    <3> QED
      BY <1>1, <1>5, <3>1
  <2> DEFINE i == Width + 1 - m
             P == Power[i - 1]
  <2>3. i \in 1..Width /\ m \in 1..Width
    BY <1>1, <2>2
  <2>4. m - 1 \in 0..Width /\ m - 1 \notin Bad
    <3>1. m - 1 \in 0..Width /\ ~ (m <= m - 1)
      BY <1>1, <2>3
    <3> QED
      BY <2>1, <3>1
  <2>5. Width + 1 - (m - 1) = i + 1 /\ Width - (m - 1) = i /\ Width - m = i - 1
    BY <1>1, <2>3
  <2>6. u[i + 1] = f \div Power[i]
    BY <2>4, <2>5
  <2>7. Power[i] = Base * P /\ P \in Nat \ {0}
    <3>1. i - 1 \in 0..Width
      BY <1>1, <2>3
    <3> QED
      BY <1>1, <2>3, <3>1
  <2>8. u[i] = ((f \div P) % Base) + Base * (f \div Power[i])
    BY <1>5, <2>3, <2>6 DEF EncodeFrequency
  <2> HIDE DEF i, P
  <2>9. f \div P \in Nat
    BY <1>2, <2>7
  <2>10. f \div (Base * P) = (f \div P) \div Base
    <3>1. f \in Nat /\ P \in Nat \ {0} /\ Base \in Nat \ {0}
      BY <1>1, <1>2, <2>7
    <3> QED
      BY <3>1, DivDiv
  <2>11. ((f \div P) % Base) + Base * ((f \div P) \div Base) = f \div P
    BY <1>1, <2>9, DivMod
  <2>12. u[i] = f \div P
    BY <2>7, <2>8, <2>10, <2>11
  <2> QED
    BY <2>5, <2>12 DEF i, P
<1>7. u[1] = f \div Power[0]
  <2>1. Width \in 0..Width /\ Width + 1 - Width = 1 /\ Width - Width = 0
    BY <1>1
  <2> QED
    BY <1>6, <2>1
<1>8. f \div Power[0] = f
  BY <1>2, PowerSteps
<1> QED
  BY <1>4, <1>5, <1>7, <1>8

(* Any row's value of the right length is a u64.                           *)
LEMMA DecodedFrequency ==
  ASSUME NEW value \in Bytewise
  PROVE  DecodeFrequency(value) \in 0..MaxFreq
<1>1. /\ Width \in Nat \ {0} /\ Base \in Nat \ {0, 1}
      /\ \A i \in 0..Width : Power[i] \in Nat \ {0}
      /\ \A i \in 1..Width : Power[i] = Base * Power[i - 1]
  BY CodecAssumption, PowerSteps
<1>2. PICK u \in [1..(Width + 1) -> Nat] :
        /\ u[Width + 1] = 0
        /\ \A i \in 1..Width : u[i] = value[i] + Base * u[i + 1]
        /\ DecodeFrequency(value) = u[1]
  BY DecodeSteps
<1> DEFINE Bad == {k \in 0..Width : ~ (u[Width + 1 - k] < Power[k])}
<1>3. Bad = {}
  <2> SUFFICES ASSUME Bad # {} PROVE FALSE
    OBVIOUS
  <2>1. PICK m \in Bad : \A j \in Bad : m <= j
    <3>1. Bad \in SUBSET Nat
      BY <1>1
    <3> HIDE DEF Bad
    <3> QED
      BY <3>1, LeastExists
  <2>2. m # 0
    BY <1>1, <1>2
  <2> DEFINE i == Width + 1 - m
             P == Power[m - 1]
  <2>3. i \in 1..Width /\ m \in 1..Width
    BY <1>1, <2>2
  <2>4. m - 1 \in 0..Width /\ m - 1 \notin Bad
    <3>1. m - 1 \in 0..Width /\ ~ (m <= m - 1)
      BY <1>1, <2>3
    <3> QED
      BY <2>1, <3>1
  <2>5. Width + 1 - (m - 1) = i + 1
    BY <1>1, <2>3
  <2>6. u[i + 1] < P
    BY <2>4, <2>5
  <2>7. Power[m] = Base * P /\ P \in Nat \ {0}
    BY <1>1, <2>3, <2>4
  <2>8. u[i] = value[i] + Base * u[i + 1] /\ value[i] \in 0..(Base - 1)
    BY <1>2, <2>3 DEF Bytewise
  <2>9. u[i + 1] \in Nat
    BY <1>1, <1>2, <2>3
  <2> HIDE DEF i, P
  <2>10. \A x \in Nat, y \in 0..(Base - 1) : x < P => y + Base * x < Base * P
    <3> SUFFICES ASSUME NEW x \in Nat, NEW y \in 0..(Base - 1), x < P
                 PROVE  y + Base * x < Base * P
      OBVIOUS
    <3>1. Base * x + Base <= Base * P
      <4>1. x + 1 <= P
        BY <2>7
      <4>2. \A c \in Nat : x + 1 + c = P => Base * P = Base * x + Base + Base * c /\ Base * c >= 0
        BY <1>1
      <4>3. P - (x + 1) \in Nat /\ x + 1 + (P - (x + 1)) = P
        BY <2>7, <4>1
      <4> QED
        BY <1>1, <2>7, <4>2, <4>3
    <3>2. Base * x \in Nat /\ Base * P \in Nat
      BY <1>1, <2>7
    <3> QED
      BY <1>1, <3>1, <3>2
  <2>11. u[i] < Power[m]
    BY <2>6, <2>7, <2>8, <2>9, <2>10
  <2> QED
    BY <2>11 DEF i
<1>4. u[1] < Power[Width] /\ u[1] \in Nat /\ Power[Width] \in Nat
  <2>1. Width \in 0..Width /\ Width + 1 - Width = 1 /\ 1 \in 1..(Width + 1)
    BY <1>1
  <2> QED
    BY <1>1, <1>3, <2>1
<1> QED
  BY <1>2, <1>4 DEF MaxFreq

(* A key that decodes is the key of what it decodes to.                    *)
LEMMA DecodedKey ==
  ASSUME NEW key \in Seq(Byte \cup NotUtf8), DecodeKey(key) # Malformed
  PROVE  \E t, x \in Seq(Byte) :
           /\ DecodeKey(key) = <<t, x>>
           /\ Sep \notin BytesOf(t)
           /\ key = EncodeKey(t, x)
<1> DEFINE n == Len(key)
           i == SplitAt(key)
           t == SubSeq(key, 1, i - 1)
           x == SubSeq(key, i + 1, n)
<1>1. Sep \in BytesOf(key) /\ BytesOf(key) \cap NotUtf8 = {} /\ DecodeKey(key) = <<t, x>>
  BY DEF DecodeKey
<1>2. n \in Nat /\ DOMAIN key = 1..n /\ \A j \in 1..n : key[j] \in Byte
  BY <1>1 DEF BytesOf, ToSet
<1>3. /\ i \in 1..n /\ key[i] = Sep /\ \A j \in 1..(i - 1) : key[j] # Sep
  <2> DEFINE Seps == {j \in 1..n : key[j] = Sep}
  <2>1. Seps # {} /\ Seps \in SUBSET Nat
    BY <1>1, <1>2 DEF BytesOf, ToSet
  <2>2. PICK m \in Seps : \A j \in Seps : m <= j
    <3> HIDE DEF Seps
    <3> QED
      BY <2>1, LeastExists
  <2>3. \A j \in 1..(m - 1) : key[j] # Sep
    <3> SUFFICES ASSUME NEW j \in 1..(m - 1), key[j] = Sep PROVE FALSE
      OBVIOUS
    <3>1. j \in 1..n /\ ~ (m <= j)
      BY <1>2
    <3> QED
      BY <2>2, <3>1
  <2>4. \E j \in DOMAIN key : key[j] = Sep /\ \A k \in 1..(j - 1) : key[k] # Sep
    BY <1>2, <2>3
  <2>5. /\ SplitAt(key) \in DOMAIN key /\ key[SplitAt(key)] = Sep
        /\ \A k \in 1..(SplitAt(key) - 1) : key[k] # Sep
    BY <2>4 DEF SplitAt
  <2> QED
    BY <1>2, <2>5
<1> HIDE DEF i
<1>4. /\ t \in Seq(Byte) /\ Len(t) = i - 1
      /\ \A j \in 1..(i - 1) : t[j] = key[j]
  <2>1. \A j \in 1..(i - 1) : key[j] \in Byte
    BY <1>2, <1>3
  <2> QED
    BY <1>2, <1>3, <2>1, SubSeqProperties
<1>5. /\ x \in Seq(Byte) /\ Len(x) = n - i
      /\ \A j \in 1..(n - i) : x[j] = key[i + j]
  <2>1. \A j \in (i + 1)..n : key[j] \in Byte
    BY <1>2, <1>3
  <2>2. i + 1 \in Int /\ n \in Int /\ n - (i + 1) + 1 = n - i
    BY <1>2, <1>3
  <2>3. /\ x \in Seq(Byte) /\ Len(x) = IF i + 1 <= n THEN n - (i + 1) + 1 ELSE 0
        /\ \A j \in 1..(n - (i + 1) + 1) : x[j] = key[(i + 1) + j - 1]
    BY <2>1, <2>2, SubSeqProperties
  <2>4. \A j \in 1..(n - i) : (i + 1) + j - 1 = i + j
    BY <1>2, <1>3
  <2> HIDE DEF x, n
  <2>5. Len(x) = n - i
    BY <1>2, <1>3, <2>2, <2>3
  <2>6. ASSUME NEW j \in 1..(n - i) PROVE x[j] = key[i + j]
    <3>1. j \in 1..(n - (i + 1) + 1)
      BY <2>2
    <3> QED
      BY <2>3, <2>4, <3>1
  <2> QED
    BY <2>3, <2>5, <2>6
<1> HIDE DEF t, x
<1>6. Sep \notin BytesOf(t)
  <2>1. DOMAIN t = 1..(i - 1)
    BY <1>4
  <2> QED
    BY <1>3, <1>4, <2>1 DEF BytesOf, ToSet
<1>7. key = EncodeKey(t, x)
  <2> DEFINE e == EncodeKey(t, x)
  <2>1. IsKeyOf(e, t, x)
    BY <1>4, <1>5, KeyBytes
  <2>2. Len(e) = n /\ e \in Seq(Byte)
    BY <1>2, <1>3, <1>4, <1>5, <2>1 DEF IsKeyOf
  <2>3. ASSUME NEW j \in 1..n PROVE key[j] = e[j]
    <3>1. CASE j < i
      BY <1>3, <1>4, <2>1, <3>1 DEF IsKeyOf
    <3>2. CASE j = i
      BY <1>3, <1>4, <2>1, <3>2 DEF IsKeyOf
    <3>3. CASE j > i
      <4>1. j - i \in 1..(n - i) /\ j = i + (j - i) /\ (i - 1) + 1 + (j - i) = j
        BY <1>2, <1>3, <3>3
      <4>2. e[(i - 1) + 1 + (j - i)] = x[j - i]
        BY <1>4, <1>5, <2>1, <4>1 DEF IsKeyOf
      <4> QED
        BY <1>5, <4>1, <4>2
    <3> QED
      BY <1>3, <3>1, <3>2, <3>3
  <2> HIDE DEF e
  <2>4. key \in Seq(Byte)
    BY <1>2
  <2>5. key = e
    BY <2>2, <2>3, <2>4, SeqEqual
  <2> QED
    BY <2>5 DEF e
<1> QED
  BY <1>1, <1>4, <1>5, <1>6, <1>7 DEF t, x
=============================================================================
