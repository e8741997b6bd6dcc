----------------------------- MODULE TokenCipher -----------------------------
(***************************************************************************)
(* credbroker/crypto/kms.py: the envelope encryption of one credential.    *)
(*                                                                         *)
(* A blob is a sequence of symbols.  AES-GCM is ideal: what one key sealed *)
(* with one nonce opens with that key and that nonce only, whole and       *)
(* unchanged.  Fields of many bytes are scaled down to a few symbols, the  *)
(* two bytes of the key length are one symbol, and a credential is a       *)
(* number; 0 stands for the ValueError of a blob that is refused.          *)
(***************************************************************************)
EXTENDS Naturals, Sequences

CONSTANTS
  NonceSize,        \* _NONCE_SIZE, in symbols
  TagSize,          \* _GCM_TAG_SIZE
  KeySize,          \* _DATA_KEY_SIZE
  MaxKeyLen         \* 0xFFFF, the largest length the header can hold

ASSUME SizesAssumption ==
  /\ NonceSize \in Nat \ {0} /\ TagSize \in Nat \ {0} /\ KeySize \in Nat \ {0}
  /\ MaxKeyLen \in Nat

Refused == 0

(* A symbol says what it is a part of, and which part. *)
Symbol(kind, key, val, size, pos) ==
  [kind |-> kind, key |-> key, val |-> val, size |-> size, pos |-> pos]

Plain    == <<"none", 0>>         \* the key of a symbol that is not sealed
Junk     == Symbol("junk", Plain, 0, 0, 0)
Magic    == Symbol("magic", Plain, 0, 0, 0)
Length(n) == Symbol("length", Plain, n, 0, 0)
HeaderSize == 2                   \* _HEADER_SIZE: the magic and the length

(* A fresh nonce, named after the one value it is drawn for. *)
Nonce(v) == [i \in 1..NonceSize |-> Symbol("nonce", Plain, v, 0, i)]

(* AESGCM(key).encrypt(nonce, value): the value and the tag. *)
Seal(key, v, size) ==
  [i \in 1..(size + TagSize) |-> Symbol("seal", key, v, size, i)]

(* AESGCM(key).decrypt; InvalidTag unless it is what encrypt returned. *)
Open(key, nonce, s) ==
  LET v == s[1].val IN
  IF s = Seal(key, v, s[1].size) /\ nonce = Nonce(v) THEN v ELSE Refused

Master(m) == <<"master", m>>
DataKey(d) == <<"data", d>>

(* generate_data_key: data key d, wrapped under master key m. *)
Wrap(m, d) == Nonce(d) \o Seal(Master(m), d, KeySize)

(* decrypt_data_key *)
Unwrap(m, w) ==
  IF Len(w) < NonceSize + TagSize THEN Refused
  ELSE Open(Master(m), SubSeq(w, 1, NonceSize), SubSeq(w, NonceSize + 1, Len(w)))

(* TokenCipher.encrypt: a fresh data key per value; the blob, or a refusal *)
(* if the wrapped key does not fit the header.                             *)
Encrypt(m, t) ==
  IF Len(Wrap(m, t)) > MaxKeyLen THEN <<>>
  ELSE <<Magic, Length(Len(Wrap(m, t)))>> \o Wrap(m, t)
         \o Nonce(t) \o Seal(DataKey(t), t, 1)

(* Mutation: the version is not looked at. *)
AnyVersion(b) == Len(b) >= HeaderSize

HeaderOK(b) == Len(b) >= HeaderSize /\ b[1] = Magic

(* Mutation: the body starts one symbol late. *)
LateBody(b) == HeaderSize + b[2].val + 1

BodyStart(b) == HeaderSize + b[2].val

(* TokenCipher.decrypt *)
Decrypt(m, b) ==
  IF ~HeaderOK(b) THEN Refused
  ELSE IF Len(b) < BodyStart(b) + NonceSize + TagSize THEN Refused
  ELSE LET start == BodyStart(b)
           d == Unwrap(m, SubSeq(b, HeaderSize + 1, start))
       IN  IF d = Refused THEN Refused
           ELSE Open(DataKey(d), SubSeq(b, start + 1, start + NonceSize),
                     SubSeq(b, start + NonceSize + 1, Len(b)))

(* A blob cut short, lengthened, or with one symbol overwritten. *)
Damaged(b) ==
  {SubSeq(b, 1, n) : n \in 0..(Len(b) - 1)} \cup {Append(b, Junk)}
    \cup {[b EXCEPT ![i] = Junk] : i \in 1..Len(b)}
    \cup {[b EXCEPT ![2] = Length(n)] : n \in (0..Len(b)) \ {b[2].val}}
==============================================================================
