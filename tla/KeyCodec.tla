------------------------------ MODULE KeyCodec ------------------------------
(***************************************************************************)
(* What tenants and terms may be (validate_tenant, validate_term), and how *)
(* a (tenant, term, frequency) record becomes a row of bytes and back      *)
(* (src/storage/rocks.rs).  A string is the sequence of its bytes.  Bytes  *)
(* are told apart only as far as the code does.                            *)
(***************************************************************************)
EXTENDS Naturals, SequencesExt

CONSTANTS Byte,        (* the bytes of strings                              *)
          Sep,         (* the byte 0: NUL, and the separator                *)
          Unroutable,  (* slash, whitespace and control bytes               *)
          NotUtf8,     (* bytes that make a string invalid UTF-8            *)
          Base,        (* values of a byte of a frequency: 256              *)
          Width,       (* bytes of a frequency: 8                           *)
          Malformed    (* None: nothing of ours                             *)

ASSUME CodecAssumption ==
  /\ Sep \in Byte \ Unroutable /\ Unroutable \subseteq Byte
  /\ Byte \cap NotUtf8 = {}
  /\ Base \in Nat \ {0, 1} /\ Width \in Nat \ {0}
  /\ Malformed \notin Seq(Seq(Byte)) \cup Nat

BytesOf(s) == ToSet(s)

ValidTenant_AllowsSeparator(tenant) ==
  /\ tenant # <<>>
  /\ BytesOf(tenant) \cap Unroutable = {}

ValidTenant(tenant) ==
  /\ tenant # <<>>
  /\ BytesOf(tenant) \cap ({Sep} \cup Unroutable) = {}

ValidTerm(term) ==
  /\ term # <<>>
  /\ Sep \notin BytesOf(term)

EncodeKey(tenant, term) == tenant \o <<Sep>> \o term

(* The first separator splits.                                             *)
SplitAt(key) == CHOOSE i \in DOMAIN key :
                  key[i] = Sep /\ \A j \in 1..(i - 1) : key[j] # Sep

DecodeKey(key) ==
  IF Sep \in BytesOf(key) /\ BytesOf(key) \cap NotUtf8 = {}
  THEN <<SubSeq(key, 1, SplitAt(key) - 1), SubSeq(key, SplitAt(key) + 1, Len(key))>>
  ELSE Malformed

(* The weight of a byte, and u64::MAX.                                     *)
Power[i \in 0..Width] == IF i = 0 THEN 1 ELSE Base * Power[i - 1]
MaxFreq == Power[Width] - 1

(* u64::to_le_bytes, and from_le_bytes on as many bytes.                   *)
EncodeFrequency(f) == [i \in 1..Width |-> (f \div Power[i - 1]) % Base]

DecodeFrequency(value) ==
  IF Len(value) = Width
  THEN FoldRight(LAMBDA byte, rest : byte + Base * rest, value, 0)
  ELSE Malformed
=============================================================================
