-------------------------- MODULE TokenCipherProofs --------------------------
(***************************************************************************)
(* Proofs about TokenCipher, for any sizes of nonce, tag and key: what was *)
(* encrypted is decrypted under the same master key only, and a damaged    *)
(* blob is refused.                                                        *)
(***************************************************************************)
EXTENDS TokenCipher, SequenceTheorems, TLAPS

(* The symbols blobs are made of. *)
AnySymbol ==
  [kind: {"junk", "magic", "length", "nonce", "seal"},
   key: {"none", "master", "data"} \X Nat, val: Nat, size: Nat, pos: Nat]

LEMMA SymbolType ==
  /\ Junk \in AnySymbol /\ Magic \in AnySymbol /\ \A n \in Nat : Length(n) \in AnySymbol
  /\ \A v, i \in Nat : Symbol("nonce", Plain, v, 0, i) \in AnySymbol
  /\ \A m, v, z, i \in Nat : /\ Symbol("seal", Master(m), v, z, i) \in AnySymbol
                             /\ Symbol("seal", DataKey(m), v, z, i) \in AnySymbol
BY DEF AnySymbol, Junk, Magic, Length, Symbol, Plain, Master, DataKey

LEMMA KeysDiffer ==
  ASSUME NEW m \in Nat, NEW n \in Nat, Master(m) = Master(n)
  PROVE  m = n
BY DEF Master

(* A nonce and a sealed value, symbol by symbol. *)
LEMMA NonceSymbols ==
  ASSUME NEW v \in Nat
  PROVE  /\ Nonce(v) \in Seq(AnySymbol) /\ Len(Nonce(v)) = NonceSize
         /\ \A i \in 1..NonceSize : Nonce(v)[i] = Symbol("nonce", Plain, v, 0, i)
<1>1. \A i \in 1..NonceSize : Symbol("nonce", Plain, v, 0, i) \in AnySymbol
  BY SizesAssumption, SymbolType
<1> QED
  BY <1>1, SizesAssumption DEF Nonce

LEMMA SealSymbols ==
  ASSUME NEW key, NEW v \in Nat, NEW size \in Nat
  PROVE  /\ Len(Seal(key, v, size)) = size + TagSize
         /\ \A i \in 1..(size + TagSize) : Seal(key, v, size)[i] = Symbol("seal", key, v, size, i)
         /\ (\E m \in Nat : key \in {Master(m), DataKey(m)}) =>
              Seal(key, v, size) \in Seq(AnySymbol)
<1>1. (\E m \in Nat : key \in {Master(m), DataKey(m)}) =>
        \A i \in 1..(size + TagSize) : Symbol("seal", key, v, size, i) \in AnySymbol
  BY SizesAssumption, SymbolType
<1> QED
  BY <1>1, SizesAssumption DEF Seal

(* Two sequences in a row. *)
LEMMA Joined ==
  ASSUME NEW a \in Seq(AnySymbol), NEW s \in Seq(AnySymbol)
  PROVE  /\ a \o s \in Seq(AnySymbol) /\ Len(a \o s) = Len(a) + Len(s)
         /\ \A i \in 1..Len(a) : (a \o s)[i] = a[i]
         /\ \A i \in 1..Len(s) : (a \o s)[Len(a) + i] = s[i]
<1>0. Len(a) \in Nat /\ Len(s) \in Nat
  BY LenProperties
<1>1. /\ a \o s \in Seq(AnySymbol) /\ Len(a \o s) = Len(a) + Len(s)
      /\ \A i \in 1..Len(a) + Len(s) :
           (a \o s)[i] = IF i <= Len(a) THEN a[i] ELSE s[i - Len(a)]
  BY ConcatProperties
<1>2. ASSUME NEW i \in 1..Len(a) PROVE (a \o s)[i] = a[i]
  <2>1. i \in 1..Len(a) + Len(s) /\ i <= Len(a)
    BY <1>0
  <2> QED
    BY <1>1, <2>1
<1>3. ASSUME NEW i \in 1..Len(s) PROVE (a \o s)[Len(a) + i] = s[i]
  <2> DEFINE k == Len(a) + i
  <2>1. k \in 1..Len(a) + Len(s) /\ ~(k <= Len(a)) /\ k - Len(a) = i
    BY <1>0
  <2> HIDE DEF k
  <2>2. (a \o s)[k] = s[i]
    BY <1>1, <2>1
  <2> QED
    BY <2>2 DEF k
<1> QED
  BY <1>1, <1>2, <1>3

(* The length of a wrapped data key, and of a blob. *)
WrapLen == NonceSize + (KeySize + TagSize)
BlobLen == 2 + WrapLen + NonceSize + (1 + TagSize)

LEMMA WrapSymbols ==
  ASSUME NEW m \in Nat, NEW d \in Nat
  PROVE  /\ Wrap(m, d) \in Seq(AnySymbol) /\ Len(Wrap(m, d)) = WrapLen
         /\ \A i \in 1..NonceSize : Wrap(m, d)[i] = Symbol("nonce", Plain, d, 0, i)
         /\ \A i \in 1..(KeySize + TagSize) :
              Wrap(m, d)[NonceSize + i] = Symbol("seal", Master(m), d, KeySize, i)
<1> DEFINE a == Nonce(d)
           s == Seal(Master(m), d, KeySize)
<1>1. /\ a \in Seq(AnySymbol) /\ Len(a) = NonceSize
      /\ \A i \in 1..NonceSize : a[i] = Symbol("nonce", Plain, d, 0, i)
  BY NonceSymbols
<1>2. /\ s \in Seq(AnySymbol) /\ Len(s) = KeySize + TagSize
      /\ \A i \in 1..(KeySize + TagSize) : s[i] = Symbol("seal", Master(m), d, KeySize, i)
  BY SealSymbols, SizesAssumption
<1>3. Wrap(m, d) = a \o s
  BY DEF Wrap
<1> HIDE DEF a, s
<1>4. /\ a \o s \in Seq(AnySymbol) /\ Len(a \o s) = Len(a) + Len(s)
      /\ \A i \in 1..Len(a) : (a \o s)[i] = a[i]
      /\ \A i \in 1..Len(s) : (a \o s)[Len(a) + i] = s[i]
  BY <1>1, <1>2, Joined
<1> DEFINE w == a \o s
<1> HIDE DEF w
<1>5. w \in Seq(AnySymbol) /\ Len(w) = WrapLen
  BY <1>1, <1>2, <1>4 DEF w, WrapLen
<1>6. \A i \in 1..NonceSize : w[i] = Symbol("nonce", Plain, d, 0, i)
  BY <1>1, <1>4, Zenon DEF w
<1>7. \A i \in 1..(KeySize + TagSize) :
        w[NonceSize + i] = Symbol("seal", Master(m), d, KeySize, i)
  BY <1>1, <1>2, <1>4, Zenon DEF w
<1> QED
  BY <1>3, <1>5, <1>6, <1>7, Zenon DEF w

(* Blob b is laid out as TokenCipher.encrypt does, for token t. *)
Layout(b, m, t) ==
  /\ b \in Seq(AnySymbol) /\ Len(b) = BlobLen
  /\ b[1] = Magic /\ b[2] = Length(WrapLen)
  /\ \A i \in 1..NonceSize : b[2 + i] = Symbol("nonce", Plain, t, 0, i)
  /\ \A i \in 1..(KeySize + TagSize) :
       b[2 + (NonceSize + i)] = Symbol("seal", Master(m), t, KeySize, i)
  /\ \A i \in 1..NonceSize : b[2 + WrapLen + i] = Symbol("nonce", Plain, t, 0, i)
  /\ \A i \in 1..(1 + TagSize) :
       b[2 + WrapLen + NonceSize + i] = Symbol("seal", DataKey(t), t, 1, i)

LEMMA EncryptLayout ==
  ASSUME NEW m \in Nat, NEW t \in Nat, Encrypt(m, t) # <<>>
  PROVE  Layout(Encrypt(m, t), m, t)
<1> DEFINE h == <<Magic, Length(WrapLen)>>
           w == Wrap(m, t)
           a == Nonce(t)
           s == Seal(DataKey(t), t, 1)
           hw == h \o w
           hwa == hw \o a
           b == hwa \o s
<1>0. WrapLen \in Nat /\ NonceSize \in Nat /\ KeySize \in Nat /\ TagSize \in Nat
  BY SizesAssumption DEF WrapLen
<1>1. h \in Seq(AnySymbol) /\ Len(h) = 2 /\ h[1] = Magic /\ h[2] = Length(WrapLen)
  <2>1. Magic \in AnySymbol /\ Length(WrapLen) \in AnySymbol
    BY <1>0, SymbolType
  <2> HIDE DEF AnySymbol
  <2> QED
    BY <2>1
<1>2. /\ w \in Seq(AnySymbol) /\ Len(w) = WrapLen
      /\ \A i \in 1..NonceSize : w[i] = Symbol("nonce", Plain, t, 0, i)
      /\ \A i \in 1..(KeySize + TagSize) :
           w[NonceSize + i] = Symbol("seal", Master(m), t, KeySize, i)
  BY WrapSymbols
<1>3. /\ a \in Seq(AnySymbol) /\ Len(a) = NonceSize
      /\ \A i \in 1..NonceSize : a[i] = Symbol("nonce", Plain, t, 0, i)
  BY NonceSymbols
<1>4. /\ s \in Seq(AnySymbol) /\ Len(s) = 1 + TagSize
      /\ \A i \in 1..(1 + TagSize) : s[i] = Symbol("seal", DataKey(t), t, 1, i)
  <2>1. 1 \in Nat /\ \E d \in Nat : DataKey(t) \in {Master(d), DataKey(d)}
    OBVIOUS
  <2> QED
    BY <2>1, SealSymbols
<1>5. Encrypt(m, t) = b
  <2>1. Encrypt(m, t) = IF Len(w) > MaxKeyLen THEN <<>>
                        ELSE <<Magic, Length(Len(w))>> \o w \o a \o s
    BY DEF Encrypt
  <2>2. Encrypt(m, t) = <<Magic, Length(Len(w))>> \o w \o a \o s
    BY <2>1
  <2> QED
    BY <1>2, <2>2
<1> HIDE DEF h, w, a, s
<1>6. /\ hw \in Seq(AnySymbol) /\ Len(hw) = Len(h) + Len(w)
      /\ \A i \in 1..Len(h) : hw[i] = h[i]
      /\ \A i \in 1..Len(w) : hw[Len(h) + i] = w[i]
  BY <1>1, <1>2, Joined
<1> HIDE DEF hw
<1>7. /\ hwa \in Seq(AnySymbol) /\ Len(hwa) = Len(hw) + Len(a)
      /\ \A i \in 1..Len(hw) : hwa[i] = hw[i]
      /\ \A i \in 1..Len(a) : hwa[Len(hw) + i] = a[i]
  BY <1>3, <1>6, Joined
<1> HIDE DEF hwa
<1>8. /\ b \in Seq(AnySymbol) /\ Len(b) = Len(hwa) + Len(s)
      /\ \A i \in 1..Len(hwa) : b[i] = hwa[i]
      /\ \A i \in 1..Len(s) : b[Len(hwa) + i] = s[i]
  BY <1>4, <1>7, Joined
<1> HIDE DEF b
<1>9. Len(hw) = 2 + WrapLen /\ Len(hwa) = 2 + WrapLen + NonceSize /\ Len(b) = BlobLen
  BY <1>0, <1>1, <1>2, <1>3, <1>4, <1>6, <1>7, <1>8 DEF BlobLen
<1>10. b[1] = Magic /\ b[2] = Length(WrapLen)
  <2>1. ASSUME NEW i \in {1, 2}
        PROVE  i \in 1..Len(h) /\ i \in 1..Len(hw) /\ i \in 1..Len(hwa)
    BY <1>0, <1>1, <1>9
  <2>2. \A i \in {1, 2} : b[i] = h[i]
    <3> TAKE i \in {1, 2}
    <3>1. hw[i] = h[i]
      BY <2>1, <1>6, Zenon
    <3>2. hwa[i] = hw[i]
      BY <2>1, <1>7, Zenon
    <3>3. b[i] = hwa[i]
      BY <2>1, <1>8, Zenon
    <3> QED
      BY <3>1, <3>2, <3>3
  <2> QED
    BY <2>2, <1>1
<1>11. ASSUME NEW i \in 1..WrapLen PROVE b[2 + i] = w[i]
  <2>1. 2 + i \in 1..Len(hw) /\ 2 + i \in 1..Len(hwa)
    BY <1>0, <1>9
  <2>2. i \in 1..Len(w) /\ Len(h) = 2
    BY <1>1, <1>2
  <2>3. hw[2 + i] = w[i]
    BY <2>2, <1>6, Zenon
  <2>4. hwa[2 + i] = hw[2 + i] /\ b[2 + i] = hwa[2 + i]
    BY <2>1, <1>7, <1>8, Zenon
  <2> QED
    BY <2>3, <2>4
<1>12. ASSUME NEW i \in 1..NonceSize PROVE b[2 + WrapLen + i] = a[i]
  <2>1. 2 + WrapLen + i \in 1..Len(hwa)
    BY <1>0, <1>9
  <2>2. i \in 1..Len(a) /\ Len(hw) = 2 + WrapLen
    BY <1>3, <1>9
  <2> QED
    BY <2>1, <2>2, <1>7, <1>8, Zenon
<1>13. ASSUME NEW i \in 1..(1 + TagSize) PROVE b[2 + WrapLen + NonceSize + i] = s[i]
  <2>1. i \in 1..Len(s) /\ Len(hwa) = 2 + WrapLen + NonceSize
    BY <1>4, <1>9
  <2> QED
    BY <2>1, <1>8, Zenon
<1>14. ASSUME NEW i \in 1..NonceSize PROVE b[2 + i] = Symbol("nonce", Plain, t, 0, i)
  <2>1. i \in 1..WrapLen
    BY <1>0 DEF WrapLen
  <2> QED
    BY <2>1, <1>2, <1>11, Zenon
<1>15. ASSUME NEW i \in 1..(KeySize + TagSize)
       PROVE  b[2 + (NonceSize + i)] = Symbol("seal", Master(m), t, KeySize, i)
  <2>1. NonceSize + i \in 1..WrapLen
    BY <1>0 DEF WrapLen
  <2> QED
    BY <2>1, <1>2, <1>11, Zenon
<1>16. \A i \in 1..NonceSize : b[2 + WrapLen + i] = Symbol("nonce", Plain, t, 0, i)
  BY <1>3, <1>12, Zenon
<1>17. \A i \in 1..(1 + TagSize) :
         b[2 + WrapLen + NonceSize + i] = Symbol("seal", DataKey(t), t, 1, i)
  BY <1>4, <1>13, Zenon
<1>18. Layout(b, m, t)
  BY <1>8, <1>9, <1>10, <1>14, <1>15, <1>16, <1>17, Zenon DEF Layout
<1> QED
  BY <1>5, <1>18

-----------------------------------------------------------------------------
(* What decrypt accepts. *)

(* The k symbols of b that follow the first p. *)
LEMMA Part ==
  ASSUME NEW b \in Seq(AnySymbol), NEW p \in Nat, NEW k \in Nat, p + k <= Len(b)
  PROVE  /\ SubSeq(b, p + 1, p + k) \in Seq(AnySymbol)
         /\ Len(SubSeq(b, p + 1, p + k)) = k
         /\ \A i \in 1..k : SubSeq(b, p + 1, p + k)[i] = b[p + i]
<1>0. Len(b) \in Nat
  BY LenProperties
<1>1. \A i \in (p + 1)..(p + k) : b[i] \in AnySymbol
  BY <1>0, ElementOfSeq
<1>2. p + 1 \in Int /\ p + k \in Int
  OBVIOUS
<1> DEFINE q == SubSeq(b, p + 1, p + k)
<1>3. /\ q \in Seq(AnySymbol)
      /\ Len(q) = IF p + 1 <= p + k THEN p + k - (p + 1) + 1 ELSE 0
      /\ \A i \in 1..(p + k - (p + 1) + 1) : q[i] = b[p + 1 + i - 1]
  BY <1>1, <1>2, SubSeqProperties, SMTT(30)
<1> HIDE DEF q
<1>4. Len(q) = k
  BY <1>3
<1>5. ASSUME NEW i \in 1..k PROVE q[i] = b[p + i]
  <2>1. i \in 1..(p + k - (p + 1) + 1) /\ p + 1 + i - 1 = p + i
    OBVIOUS
  <2> QED
    BY <1>3, <2>1
<1> QED
  BY <1>3, <1>4, <1>5 DEF q

(* AES-GCM opens a sealed value whole, with its own key and nonce. *)
LEMMA OpenAccepts ==
  ASSUME NEW key, NEW nonce, NEW s, Open(key, nonce, s) # Refused
  PROVE  /\ Open(key, nonce, s) = s[1].val
         /\ s = Seal(key, s[1].val, s[1].size) /\ nonce = Nonce(s[1].val)
BY DEF Open, Refused

(* ... symbol by symbol. *)
LEMMA OpenedSymbols ==
  ASSUME NEW key, NEW a, NEW s \in Seq(AnySymbol), Len(s) # 0, Open(key, a, s) # Refused
  PROVE  \E v, z \in Nat :
           /\ v = Open(key, a, s) /\ Len(s) = z + TagSize
           /\ \A i \in 1..NonceSize : a[i] = Symbol("nonce", Plain, v, 0, i)
           /\ \A i \in 1..Len(s) : s[i] = Symbol("seal", key, v, z, i)
<1> DEFINE v == s[1].val
           z == s[1].size
<1>1. v = Open(key, a, s) /\ s = Seal(key, v, z) /\ a = Nonce(v)
  BY OpenAccepts
<1>2. s[1] \in AnySymbol
  <2>1. 1 \in 1..Len(s)
    BY LenProperties
  <2> QED
    BY <2>1, ElementOfSeq
<1>3. v \in Nat /\ z \in Nat
  BY <1>2 DEF AnySymbol
<1> HIDE DEF v, z
<1>4. /\ Len(s) = z + TagSize
      /\ \A i \in 1..(z + TagSize) : s[i] = Symbol("seal", key, v, z, i)
  BY <1>1, <1>3, SealSymbols
<1>5. \A i \in 1..NonceSize : a[i] = Symbol("nonce", Plain, v, 0, i)
  BY <1>1, <1>3, NonceSymbols
<1> QED
  BY <1>1, <1>3, <1>4, <1>5

(* The fields of a blob that decrypt has opened under master key m: it     *)
(* holds a data key d in n symbols and a value v after them, both whole.   *)
Readable(b, m, v, d, y, z) ==
  /\ b[1] = Magic /\ b[2].val = NonceSize + (y + TagSize)
  /\ Len(b) = 2 + b[2].val + NonceSize + (z + TagSize)
  /\ \A i \in 1..NonceSize : b[2 + i] = Symbol("nonce", Plain, d, 0, i)
  /\ \A i \in 1..(y + TagSize) : b[2 + NonceSize + i] = Symbol("seal", Master(m), d, y, i)
  /\ \A i \in 1..NonceSize : b[2 + b[2].val + i] = Symbol("nonce", Plain, v, 0, i)
  /\ \A i \in 1..(z + TagSize) :
       b[2 + b[2].val + NonceSize + i] = Symbol("seal", DataKey(d), v, z, i)

LEMMA DecryptAccepts ==
  ASSUME NEW m \in Nat, NEW b \in Seq(AnySymbol), Decrypt(m, b) # Refused
  PROVE  \E d, y, z \in Nat : Decrypt(m, b) \in Nat /\ Readable(b, m, Decrypt(m, b), d, y, z)
<1> DEFINE n == b[2].val
           w == SubSeq(b, 3, 2 + n)
           d == Unwrap(m, w)
           v == Open(DataKey(d), SubSeq(b, 2 + n + 1, 2 + n + NonceSize),
                     SubSeq(b, 2 + n + NonceSize + 1, Len(b)))
<1>0. NonceSize \in Nat /\ TagSize \in Nat \ {0} /\ Len(b) \in Nat
  BY SizesAssumption, LenProperties
<1>1. Len(b) >= 2 /\ b[1] = Magic
  BY DEF Decrypt, HeaderOK, HeaderSize
<1>2. n \in Nat
  <2>1. 2 \in 1..Len(b)
    BY <1>0, <1>1
  <2>2. b[2] \in AnySymbol
    BY <2>1, ElementOfSeq
  <2> QED
    BY <2>2 DEF AnySymbol
<1>3. HeaderOK(b) /\ BodyStart(b) = 2 + n /\ 2 + 1 = 3
  BY <1>1, <1>2 DEF HeaderOK, BodyStart, HeaderSize
<1>4. /\ ~(Len(b) < 2 + n + NonceSize + TagSize) /\ d # Refused /\ Decrypt(m, b) = v
  <2> HIDE DEF n
  <2> QED
    BY <1>3 DEF Decrypt, HeaderSize
<1>5. Len(b) >= 2 + n + NonceSize + TagSize
  <2>1. ~(Len(b) < 2 + n + NonceSize + TagSize)
    BY <1>4
  <2> HIDE DEF n
  <2> QED
    BY <1>0, <1>2, <2>1
<1> HIDE DEF n
<1>6. /\ w \in Seq(AnySymbol) /\ Len(w) = n /\ \A i \in 1..n : w[i] = b[2 + i]
  <2>1. 2 + n <= Len(b) /\ 2 \in Nat /\ 2 + 1 = 3
    BY <1>0, <1>2, <1>5
  <2> QED
    BY <1>2, <2>1, Part
<1> HIDE DEF w
<1>7. /\ n >= NonceSize + TagSize
      /\ d = Open(Master(m), SubSeq(w, 1, NonceSize), SubSeq(w, NonceSize + 1, n))
  BY <1>0, <1>2, <1>4, <1>6 DEF Unwrap
<1> DEFINE k == n - NonceSize
           wa == SubSeq(w, 1, NonceSize)
           ws == SubSeq(w, NonceSize + 1, n)
<1>8. k \in Nat \ {0} /\ n = NonceSize + k
  BY <1>0, <1>2, <1>7
<1> HIDE DEF k
<1>9. /\ \A i \in 1..NonceSize : wa[i] = b[2 + i]
      /\ ws \in Seq(AnySymbol) /\ Len(ws) = k
      /\ \A i \in 1..k : ws[i] = b[2 + NonceSize + i]
  <2>1. /\ 0 \in Nat /\ 0 + NonceSize <= Len(w) /\ 0 + 1 = 1 /\ 0 + NonceSize = NonceSize
        /\ NonceSize + k <= Len(w)
    BY <1>0, <1>6, <1>8
  <2>2. \A i \in 1..NonceSize : SubSeq(w, 0 + 1, 0 + NonceSize)[i] = w[0 + i]
    BY <1>0, <1>6, <2>1, Part
  <2>3. \A i \in 1..NonceSize : i \in 1..n /\ 0 + i = i
    BY <1>0, <1>8
  <2>4. \A i \in 1..NonceSize : wa[i] = b[2 + i]
    BY <1>6, <2>1, <2>2, <2>3
  <2>5. /\ ws \in Seq(AnySymbol) /\ Len(ws) = k /\ \A i \in 1..k : ws[i] = w[NonceSize + i]
    BY <1>0, <1>6, <1>8, <2>1, Part
  <2>6. \A i \in 1..k : NonceSize + i \in 1..n /\ 2 + (NonceSize + i) = 2 + NonceSize + i
    BY <1>0, <1>8
  <2>7. \A i \in 1..k : ws[i] = b[2 + NonceSize + i]
    <3> TAKE i \in 1..k
    <3>1. w[NonceSize + i] = b[2 + (NonceSize + i)]
      BY <1>6, <2>6, Zenon
    <3> QED
      BY <2>5, <2>6, <3>1
  <2> QED
    BY <2>4, <2>5, <2>7
<1>10. d = Open(Master(m), wa, ws) /\ d # Refused
  BY <1>4, <1>7
<1> HIDE DEF wa, ws, d
<1>11. PICK y \in Nat :
         /\ d \in Nat /\ k = y + TagSize
         /\ \A i \in 1..NonceSize : b[2 + i] = Symbol("nonce", Plain, d, 0, i)
         /\ \A i \in 1..k : b[2 + NonceSize + i] = Symbol("seal", Master(m), d, y, i)
  <2>1. \E x, y \in Nat :
          /\ x = Open(Master(m), wa, ws) /\ Len(ws) = y + TagSize
          /\ \A i \in 1..NonceSize : wa[i] = Symbol("nonce", Plain, x, 0, i)
          /\ \A i \in 1..Len(ws) : ws[i] = Symbol("seal", Master(m), x, y, i)
    <3>1. ws \in Seq(AnySymbol) /\ Len(ws) # 0 /\ Open(Master(m), wa, ws) # Refused
      BY <1>8, <1>9, <1>10
    <3> QED
      BY <3>1, OpenedSymbols, Zenon
  <2> QED
    BY <1>9, <1>10, <2>1, SMTT(30)
<1> DEFINE j == Len(b) - (2 + n + NonceSize)
           ba == SubSeq(b, 2 + n + 1, 2 + n + NonceSize)
           bs == SubSeq(b, 2 + n + NonceSize + 1, Len(b))
<1>12. /\ j \in Nat \ {0} /\ Len(b) = 2 + n + NonceSize + j /\ 2 + n \in Nat
       /\ 2 + n + NonceSize \in Nat /\ 2 + n + NonceSize <= Len(b)
       /\ 2 + n + NonceSize + j <= Len(b)
  BY <1>0, <1>2, <1>5
<1> HIDE DEF j
<1>13. /\ \A i \in 1..NonceSize : ba[i] = b[2 + n + i]
       /\ bs \in Seq(AnySymbol) /\ Len(bs) = j
       /\ \A i \in 1..j : bs[i] = b[2 + n + NonceSize + i]
  <2>1. \A i \in 1..NonceSize : ba[i] = b[2 + n + i]
    BY <1>0, <1>12, Part
  <2>2. bs = SubSeq(b, 2 + n + NonceSize + 1, 2 + n + NonceSize + j)
    BY <1>12
  <2> HIDE DEF bs
  <2>3. /\ bs \in Seq(AnySymbol) /\ Len(bs) = j
        /\ \A i \in 1..j : bs[i] = b[2 + n + NonceSize + i]
    <3> DEFINE p == 2 + n + NonceSize
    <3>1. p \in Nat /\ p + j <= Len(b) /\ j \in Nat /\ bs = SubSeq(b, p + 1, p + j)
      BY <1>12, <2>2
    <3> HIDE DEF p
    <3>2. bs \in Seq(AnySymbol) /\ Len(bs) = j /\ \A i \in 1..j : bs[i] = b[p + i]
      BY <3>1, Part
    <3> QED
      BY <3>2 DEF p
  <2> QED
    BY <2>1, <2>3
<1>14. v = Open(DataKey(d), ba, bs) /\ v # Refused
  BY <1>4
<1> HIDE DEF v, ba, bs
<1>15. PICK z \in Nat :
         /\ v \in Nat /\ j = z + TagSize
         /\ \A i \in 1..NonceSize : b[2 + n + i] = Symbol("nonce", Plain, v, 0, i)
         /\ \A i \in 1..j : b[2 + n + NonceSize + i] = Symbol("seal", DataKey(d), v, z, i)
  <2>1. \E x, z \in Nat :
          /\ x = Open(DataKey(d), ba, bs) /\ Len(bs) = z + TagSize
          /\ \A i \in 1..NonceSize : ba[i] = Symbol("nonce", Plain, x, 0, i)
          /\ \A i \in 1..Len(bs) : bs[i] = Symbol("seal", DataKey(d), x, z, i)
    <3>1. bs \in Seq(AnySymbol) /\ Len(bs) # 0 /\ Open(DataKey(d), ba, bs) # Refused
      BY <1>12, <1>13, <1>14
    <3> QED
      BY <3>1, OpenedSymbols, Zenon
  <2>2. PICK z \in Nat :
          /\ v \in Nat /\ Len(bs) = z + TagSize
          /\ \A i \in 1..NonceSize : ba[i] = Symbol("nonce", Plain, v, 0, i)
          /\ \A i \in 1..Len(bs) : bs[i] = Symbol("seal", DataKey(d), v, z, i)
    BY <1>14, <2>1
  <2>3. \A i \in 1..NonceSize : b[2 + n + i] = Symbol("nonce", Plain, v, 0, i)
    BY <1>13, <2>2
  <2>4. /\ j = z + TagSize
        /\ \A i \in 1..j : b[2 + n + NonceSize + i] = Symbol("seal", DataKey(d), v, z, i)
    BY <1>13, <2>2
  <2> QED
    BY <2>2, <2>3, <2>4
<1>16. Readable(b, m, v, d, y, z)
  BY <1>1, <1>8, <1>11, <1>12, <1>15 DEF Readable, n
<1> QED
  BY <1>4, <1>11, <1>15, <1>16

-----------------------------------------------------------------------------
(* What decrypt returns. *)

LEMMA PartIs ==
  ASSUME NEW b \in Seq(AnySymbol), NEW s \in Seq(AnySymbol), NEW p \in Nat,
         p + Len(s) <= Len(b), \A i \in 1..Len(s) : b[p + i] = s[i]
  PROVE  SubSeq(b, p + 1, p + Len(s)) = s
<1>0. Len(s) \in Nat
  BY LenProperties
<1> DEFINE q == SubSeq(b, p + 1, p + Len(s))
<1>1. q \in Seq(AnySymbol) /\ Len(q) = Len(s) /\ \A i \in 1..Len(s) : q[i] = b[p + i]
  BY <1>0, Part
<1> HIDE DEF q
<1>2. \A i \in 1..Len(q) : q[i] = s[i]
  BY <1>1
<1>3. q = s
  BY <1>1, <1>2, SeqEqual
<1> QED
  BY <1>3 DEF q

LEMMA OpenSealed ==
  ASSUME NEW key, NEW v \in Nat, NEW size \in Nat
  PROVE  Open(key, Nonce(v), Seal(key, v, size)) = v
<1> DEFINE s == Seal(key, v, size)
<1>1. s[1] = Symbol("seal", key, v, size, 1)
  <2>1. 1 \in 1..(size + TagSize)
    BY SizesAssumption
  <2> QED
    BY <2>1, SealSymbols
<1>2. s[1].val = v /\ s[1].size = size
  BY <1>1 DEF Symbol
<1>3. s = Seal(key, s[1].val, s[1].size) /\ Nonce(v) = Nonce(s[1].val)
  BY <1>2
<1> HIDE DEF s
<1>4. Open(key, Nonce(v), s) = s[1].val
  BY <1>3 DEF Open
<1> QED
  BY <1>2, <1>4 DEF s

LEMMA UnwrapWrapped ==
  ASSUME NEW m \in Nat, NEW d \in Nat
  PROVE  Unwrap(m, Wrap(m, d)) = d
<1> DEFINE w == Wrap(m, d)
           a == Nonce(d)
           s == Seal(Master(m), d, KeySize)
<1>0. NonceSize \in Nat /\ KeySize \in Nat \ {0} /\ TagSize \in Nat
  BY SizesAssumption
<1>1. /\ w \in Seq(AnySymbol) /\ Len(w) = WrapLen
      /\ \A i \in 1..NonceSize : w[i] = Symbol("nonce", Plain, d, 0, i)
      /\ \A i \in 1..(KeySize + TagSize) :
           w[NonceSize + i] = Symbol("seal", Master(m), d, KeySize, i)
  BY WrapSymbols
<1>2. /\ a \in Seq(AnySymbol) /\ Len(a) = NonceSize
      /\ \A i \in 1..NonceSize : a[i] = Symbol("nonce", Plain, d, 0, i)
  BY NonceSymbols
<1>3. /\ s \in Seq(AnySymbol) /\ Len(s) = KeySize + TagSize
      /\ \A i \in 1..(KeySize + TagSize) : s[i] = Symbol("seal", Master(m), d, KeySize, i)
  BY SealSymbols, <1>0
<1>4. Open(Master(m), a, s) = d
  BY <1>0, OpenSealed
<1> HIDE DEF w, a, s
<1>5. SubSeq(w, 1, NonceSize) = a
  <2>1. 0 \in Nat /\ 0 + Len(a) <= Len(w) /\ 0 + 1 = 1 /\ 0 + Len(a) = NonceSize
    BY <1>0, <1>1, <1>2 DEF WrapLen
  <2>2. \A i \in 1..Len(a) : w[0 + i] = a[i]
    <3> TAKE i \in 1..Len(a)
    <3>1. i \in 1..NonceSize /\ 0 + i = i
      BY <1>0, <1>2
    <3> QED
      BY <3>1, <1>1, <1>2
  <2>3. SubSeq(w, 0 + 1, 0 + Len(a)) = a
    BY <1>1, <1>2, <2>1, <2>2, PartIs
  <2> QED
    BY <2>1, <2>3
<1>6. SubSeq(w, NonceSize + 1, Len(w)) = s
  <2>1. NonceSize + Len(s) = Len(w) /\ NonceSize + Len(s) <= Len(w)
    BY <1>0, <1>1, <1>3 DEF WrapLen
  <2>2. \A i \in 1..Len(s) : w[NonceSize + i] = s[i]
    BY <1>1, <1>3, Zenon
  <2>3. SubSeq(w, NonceSize + 1, NonceSize + Len(s)) = s
    BY <1>0, <1>1, <1>3, <2>1, <2>2, PartIs
  <2> QED
    BY <2>1, <2>3
<1>7. ~(Len(w) < NonceSize + TagSize)
  BY <1>0, <1>1 DEF WrapLen
<1>8. Unwrap(m, w) = d
  BY <1>4, <1>5, <1>6, <1>7 DEF Unwrap
<1> QED
  BY <1>8 DEF w

(* What the same master key decrypts. *)
LEMMA DecryptSame ==
  ASSUME NEW m \in Nat, NEW t \in Nat \ {0}, NEW b, Layout(b, m, t)
  PROVE  Decrypt(m, b) = t
<1> DEFINE w == Wrap(m, t)
           a == Nonce(t)
           s == Seal(DataKey(t), t, 1)
<1>0. NonceSize \in Nat /\ KeySize \in Nat /\ TagSize \in Nat /\ WrapLen \in Nat
  BY SizesAssumption DEF WrapLen
<1>1. /\ w \in Seq(AnySymbol) /\ Len(w) = WrapLen
      /\ \A i \in 1..NonceSize : w[i] = Symbol("nonce", Plain, t, 0, i)
      /\ \A i \in 1..(KeySize + TagSize) :
           w[NonceSize + i] = Symbol("seal", Master(m), t, KeySize, i)
  BY WrapSymbols
<1>2. /\ a \in Seq(AnySymbol) /\ Len(a) = NonceSize
      /\ \A i \in 1..NonceSize : a[i] = Symbol("nonce", Plain, t, 0, i)
  BY NonceSymbols
<1>3. /\ s \in Seq(AnySymbol) /\ Len(s) = 1 + TagSize
      /\ \A i \in 1..(1 + TagSize) : s[i] = Symbol("seal", DataKey(t), t, 1, i)
  <2>1. 1 \in Nat /\ \E d \in Nat : DataKey(t) \in {Master(d), DataKey(d)}
    OBVIOUS
  <2> QED
    BY <2>1, SealSymbols
<1>4. Unwrap(m, w) = t /\ Open(DataKey(t), a, s) = t
  BY UnwrapWrapped, OpenSealed
<1> HIDE DEF w, a, s
<1>5. b \in Seq(AnySymbol) /\ Len(b) = BlobLen /\ b[1] = Magic /\ b[2] = Length(WrapLen)
  BY DEF Layout
<1>6. /\ \A i \in 1..NonceSize : b[2 + i] = w[i]
      /\ \A i \in 1..(KeySize + TagSize) : b[2 + (NonceSize + i)] = w[NonceSize + i]
      /\ \A i \in 1..NonceSize : b[2 + WrapLen + i] = a[i]
      /\ \A i \in 1..(1 + TagSize) : b[2 + WrapLen + NonceSize + i] = s[i]
  BY <1>1, <1>2, <1>3, Zenon DEF Layout
<1>7. SubSeq(b, 2 + 1, 2 + WrapLen) = w
  <2>1. ASSUME NEW i \in 1..Len(w) PROVE b[2 + i] = w[i]
    <3>1. CASE i \in 1..NonceSize
      BY <3>1, <1>6
    <3>2. CASE i \notin 1..NonceSize
      <4> DEFINE j == i - NonceSize
      <4>1. j \in 1..(KeySize + TagSize) /\ i = NonceSize + j
        BY <3>2, <1>0, <1>1 DEF WrapLen
      <4> HIDE DEF j
      <4> QED
        BY <4>1, <1>6
    <3> QED
      BY <3>1, <3>2
  <2>2. 2 \in Nat /\ 2 + Len(w) <= Len(b)
    BY <1>0, <1>1, <1>5 DEF BlobLen
  <2>3. SubSeq(b, 2 + 1, 2 + Len(w)) = w
    BY <1>1, <1>5, <2>1, <2>2, PartIs
  <2> QED
    BY <1>1, <2>3
<1>8. SubSeq(b, 2 + WrapLen + 1, 2 + WrapLen + NonceSize) = a
  <2>1. 2 + WrapLen \in Nat /\ 2 + WrapLen + Len(a) <= Len(b)
    BY <1>0, <1>2, <1>5 DEF BlobLen
  <2>2. SubSeq(b, 2 + WrapLen + 1, 2 + WrapLen + Len(a)) = a
    BY <1>2, <1>5, <1>6, <2>1, PartIs
  <2> QED
    BY <1>2, <2>2
<1>9. SubSeq(b, 2 + WrapLen + NonceSize + 1, Len(b)) = s
  <2>1. /\ 2 + WrapLen + NonceSize \in Nat /\ 2 + WrapLen + NonceSize + Len(s) <= Len(b)
        /\ 2 + WrapLen + NonceSize + Len(s) = Len(b)
    BY <1>0, <1>3, <1>5 DEF BlobLen
  <2>2. SubSeq(b, 2 + WrapLen + NonceSize + 1, 2 + WrapLen + NonceSize + Len(s)) = s
    BY <1>3, <1>5, <1>6, <2>1, PartIs
  <2> QED
    BY <2>1, <2>2
<1>10. HeaderOK(b) /\ BodyStart(b) = 2 + WrapLen
  BY <1>0, <1>5 DEF HeaderOK, BodyStart, HeaderSize, BlobLen, Length, Symbol
<1>11. ~(Len(b) < 2 + WrapLen + NonceSize + TagSize)
  BY <1>0, <1>5 DEF BlobLen
<1> QED
  BY <1>4, <1>7, <1>8, <1>9, <1>10, <1>11 DEF Decrypt, HeaderSize, Refused

(* TokenCipher.decrypt returns the value that encrypt was given under the  *)
(* same master key, and refuses the blob under every other.                *)
THEOREM DecryptEncrypt ==
  ASSUME NEW m \in Nat, NEW m2 \in Nat, NEW t \in Nat \ {0}, Encrypt(m, t) # <<>>
  PROVE  Decrypt(m2, Encrypt(m, t)) = IF m2 = m THEN t ELSE Refused
<1> DEFINE b == Encrypt(m, t)
<1>1. Layout(b, m, t)
  BY EncryptLayout
<1> HIDE DEF b
<1>2. CASE m2 = m
  BY <1>1, <1>2, DecryptSame DEF b
<1>3. CASE m2 # m
  <2> SUFFICES ASSUME Decrypt(m2, b) # Refused PROVE FALSE
    BY <1>3 DEF b
  <2>0. b \in Seq(AnySymbol)
    BY <1>1 DEF Layout
  <2>1. PICK d, y, z \in Nat : Readable(b, m2, Decrypt(m2, b), d, y, z)
    BY <2>0, DecryptAccepts
  <2>2. /\ 1 \in 1..(y + TagSize) /\ 1 \in 1..(KeySize + TagSize)
        /\ 2 + (NonceSize + 1) = 2 + NonceSize + 1
    BY SizesAssumption
  <2>3. b[2 + NonceSize + 1] = Symbol("seal", Master(m2), d, y, 1)
    BY <2>1, <2>2, Zenon DEF Readable
  <2>4. b[2 + (NonceSize + 1)] = Symbol("seal", Master(m), t, KeySize, 1)
    BY <1>1, <2>2, Zenon DEF Layout
  <2>5. Symbol("seal", Master(m2), d, y, 1).key = Symbol("seal", Master(m), t, KeySize, 1).key
    BY <2>2, <2>3, <2>4
  <2>6. Master(m2) = Master(m)
    BY <2>5 DEF Symbol
  <2> QED
    BY <1>3, <2>6, KeysDiffer
<1> QED
  BY <1>2, <1>3

-----------------------------------------------------------------------------
(* What damage does. *)

(* A readable blob that agrees with b up to the first symbol of b's sealed *)
(* value is as long as b.                                                  *)
LEMMA SameLength ==
  ASSUME NEW m \in Nat, NEW t \in Nat, NEW b, Layout(b, m, t),
         NEW c, NEW k, NEW v, NEW d, NEW y \in Nat, NEW z \in Nat, Readable(c, k, v, d, y, z),
         c[2] = b[2], \A i \in 1..Len(c) : i <= Len(b) => c[i] = b[i]
  PROVE  Len(c) = BlobLen
<1> DEFINE p == 2 + WrapLen + NonceSize + 1
<1>0. NonceSize \in Nat /\ KeySize \in Nat /\ TagSize \in Nat \ {0} /\ WrapLen \in Nat
  BY SizesAssumption DEF WrapLen
<1>1. c[2].val = WrapLen
  BY DEF Layout, Length, Symbol
<1>2. Len(c) = 2 + WrapLen + NonceSize + (z + TagSize) /\ Len(b) = BlobLen
  BY <1>1 DEF Readable, Layout
<1>3. p \in 1..Len(c) /\ p <= Len(b) /\ 1 \in 1..(z + TagSize) /\ 1 \in 1..(1 + TagSize)
  BY <1>0, <1>2 DEF BlobLen
<1>4. c[p] = Symbol("seal", DataKey(d), v, z, 1)
  BY <1>1, <1>3, Zenon DEF Readable
<1>5. b[p] = Symbol("seal", DataKey(t), t, 1, 1)
  BY <1>3, Zenon DEF Layout
<1> HIDE DEF p
<1>6. c[p] = b[p]
  BY <1>3
<1>7. z = 1
  BY <1>4, <1>5, <1>6 DEF Symbol
<1> QED
  BY <1>0, <1>2, <1>7 DEF BlobLen

LEMMA CutRefused ==
  ASSUME NEW m \in Nat, NEW t \in Nat, NEW b, Layout(b, m, t), NEW k \in Nat,
         NEW n \in 0..(Len(b) - 1)
  PROVE  Decrypt(k, SubSeq(b, 1, n)) = Refused
<1> DEFINE c == SubSeq(b, 1, n)
<1>0. b \in Seq(AnySymbol) /\ Len(b) = BlobLen /\ Len(b) \in Nat
  BY LenProperties DEF Layout
<1>1. /\ 0 \in Nat /\ n \in Nat /\ 0 + n <= Len(b) /\ 0 + 1 = 1 /\ 0 + n = n
      /\ \A i \in 1..n : 0 + i = i
  BY <1>0
<1>2. /\ SubSeq(b, 0 + 1, 0 + n) \in Seq(AnySymbol) /\ Len(SubSeq(b, 0 + 1, 0 + n)) = n
      /\ \A i \in 1..n : SubSeq(b, 0 + 1, 0 + n)[i] = b[0 + i]
  BY <1>0, <1>1, Part
<1>3. c \in Seq(AnySymbol) /\ Len(c) = n /\ \A i \in 1..n : c[i] = b[i]
  BY <1>1, <1>2
<1> HIDE DEF c
<1> SUFFICES ASSUME Decrypt(k, c) # Refused PROVE FALSE
  BY DEF c
<1>4. PICK d, y, z \in Nat : Readable(c, k, Decrypt(k, c), d, y, z)
  BY <1>3, DecryptAccepts
<1>5. 2 \in 1..n
  <2>1. n = 2 + c[2].val + NonceSize + (z + TagSize) /\ c[2].val = NonceSize + (y + TagSize)
    BY <1>3, <1>4 DEF Readable
  <2> HIDE DEF c
  <2>2. n = 2 + (NonceSize + (y + TagSize)) + NonceSize + (z + TagSize)
    BY <2>1
  <2> QED
    BY <2>2, SizesAssumption
<1>6. c[2] = b[2] /\ \A i \in 1..Len(c) : i <= Len(b) => c[i] = b[i]
  BY <1>3, <1>5
<1>7. Len(c) = BlobLen
  BY <1>4, <1>6, SameLength, SMTT(30)
<1> QED
  BY <1>0, <1>1, <1>3, <1>7

LEMMA LongerRefused ==
  ASSUME NEW m \in Nat, NEW t \in Nat, NEW b, Layout(b, m, t), NEW k \in Nat
  PROVE  Decrypt(k, Append(b, Junk)) = Refused
<1> DEFINE c == Append(b, Junk)
<1>0. b \in Seq(AnySymbol) /\ Len(b) = BlobLen /\ Len(b) \in Nat
  BY LenProperties DEF Layout
<1>1. /\ c \in Seq(AnySymbol) /\ Len(c) = Len(b) + 1 /\ \A i \in 1..Len(b) : c[i] = b[i]
  BY <1>0, SymbolType, AppendProperties
<1> HIDE DEF c
<1> SUFFICES ASSUME Decrypt(k, c) # Refused PROVE FALSE
  BY DEF c
<1>2. PICK d, y, z \in Nat : Readable(c, k, Decrypt(k, c), d, y, z)
  BY <1>1, DecryptAccepts
<1>3. 2 \in 1..Len(b)
  BY <1>0, SizesAssumption DEF BlobLen, WrapLen
<1>4. c[2] = b[2] /\ \A i \in 1..Len(c) : i <= Len(b) => c[i] = b[i]
  BY <1>0, <1>1, <1>3
<1>5. Len(c) = BlobLen
  BY <1>2, <1>4, SameLength
<1> QED
  BY <1>0, <1>1, <1>5

LEMMA RelengthRefused ==
  ASSUME NEW m \in Nat, NEW t \in Nat, NEW b, Layout(b, m, t), NEW k \in Nat,
         NEW n \in Nat, n # WrapLen
  PROVE  Decrypt(k, [b EXCEPT ![2] = Length(n)]) = Refused
<1> DEFINE c == [b EXCEPT ![2] = Length(n)]
           p == 2 + NonceSize + 1
<1>0. b \in Seq(AnySymbol) /\ Len(b) = BlobLen /\ Len(b) \in Nat
  BY LenProperties DEF Layout
<1>1. 2 \in 1..Len(b) /\ p \in 1..Len(b) /\ p # 2
  BY <1>0, SizesAssumption DEF BlobLen, WrapLen
<1>2. Length(n) \in AnySymbol
  BY SymbolType
<1>3. /\ c \in Seq(AnySymbol)
      /\ \A j \in 1..Len(b) : c[j] = IF j = 2 THEN Length(n) ELSE b[j]
  BY <1>0, <1>1, <1>2, ExceptSeq
<1> HIDE DEF c
<1> SUFFICES ASSUME Decrypt(k, c) # Refused PROVE FALSE
  BY DEF c
<1>4. PICK d, y, z \in Nat : Readable(c, k, Decrypt(k, c), d, y, z)
  BY <1>3, DecryptAccepts
<1>5. c[2] = Length(n) /\ c[p] = b[p]
  BY <1>1, <1>3
<1>6. n = NonceSize + (y + TagSize)
  <2>1. c[2].val = NonceSize + (y + TagSize)
    BY <1>4 DEF Readable
  <2>2. Length(n).val = n
    BY DEF Length, Symbol
  <2> QED
    BY <1>5, <2>1, <2>2
<1>7. /\ 1 \in 1..(y + TagSize) /\ 1 \in 1..(KeySize + TagSize)
      /\ 2 + (NonceSize + 1) = 2 + NonceSize + 1
  BY SizesAssumption
<1>8. c[p] = Symbol("seal", Master(k), d, y, 1)
  BY <1>4, <1>7, Zenon DEF Readable
<1>9. b[2 + (NonceSize + 1)] = Symbol("seal", Master(m), t, KeySize, 1)
  BY <1>7, Zenon DEF Layout
<1>10. b[p] = Symbol("seal", Master(m), t, KeySize, 1)
  BY <1>7, <1>9
<1> HIDE DEF p
<1>11. Symbol("seal", Master(k), d, y, 1) = Symbol("seal", Master(m), t, KeySize, 1)
  BY <1>5, <1>8, <1>10
<1>12. y = KeySize
  BY <1>11 DEF Symbol
<1> QED
  BY <1>6, <1>12 DEF WrapLen

LEMMA OverwrittenRefused ==
  ASSUME NEW m \in Nat, NEW t \in Nat, NEW b, Layout(b, m, t), NEW k \in Nat,
         NEW i \in 1..Len(b)
  PROVE  Decrypt(k, [b EXCEPT ![i] = Junk]) = Refused
<1> DEFINE c == [b EXCEPT ![i] = Junk]
<1>0. b \in Seq(AnySymbol) /\ Len(b) = BlobLen /\ Len(b) \in Nat
  BY LenProperties DEF Layout
<1>1. /\ c \in Seq(AnySymbol) /\ Len(c) = BlobLen
      /\ \A j \in 1..Len(b) : c[j] = IF j = i THEN Junk ELSE b[j]
  BY <1>0, SymbolType, ExceptSeq
<1> HIDE DEF c
<1> SUFFICES ASSUME Decrypt(k, c) # Refused PROVE FALSE
  BY DEF c
<1>2. PICK d, y, z \in Nat : Readable(c, k, Decrypt(k, c), d, y, z)
  BY <1>1, DecryptAccepts
<1> DEFINE v == Decrypt(k, c)
<1> HIDE DEF v
<1>3. NonceSize \in Nat \ {0} /\ TagSize \in Nat \ {0} /\ KeySize \in Nat \ {0}
  BY SizesAssumption
<1>4. 1 \in 1..Len(b) /\ 2 \in 1..Len(b)
  BY <1>0, <1>3 DEF BlobLen, WrapLen
<1>5. c[i] = Junk
  BY <1>1
<1>6. i # 1
  BY <1>2, <1>5 DEF Readable, Junk, Magic, Symbol
<1>7. i # 2
  <2>1. c[2].val = NonceSize + (y + TagSize)
    BY <1>2 DEF Readable
  <2>2. Junk.val = 0
    BY DEF Junk, Symbol
  <2> QED
    BY <1>3, <1>5, <2>1, <2>2
<1>8. c[2].val = WrapLen
  <2>1. c[2] = b[2] /\ b[2] = Length(WrapLen)
    BY <1>1, <1>4, <1>7 DEF Layout
  <2> QED
    BY <2>1 DEF Length, Symbol
<1>9. y = KeySize /\ z = 1
  <2>1. WrapLen = NonceSize + (y + TagSize) /\ BlobLen = 2 + WrapLen + NonceSize + (z + TagSize)
    BY <1>1, <1>2, <1>8 DEF Readable
  <2> QED
    BY <1>3, <2>1 DEF WrapLen, BlobLen
<1>10. /\ \A j \in 1..NonceSize : c[2 + j] = Symbol("nonce", Plain, d, 0, j)
       /\ \A j \in 1..(KeySize + TagSize) :
            c[2 + NonceSize + j] = Symbol("seal", Master(k), d, y, j)
       /\ \A j \in 1..NonceSize : c[2 + WrapLen + j] = Symbol("nonce", Plain, v, 0, j)
       /\ \A j \in 1..(1 + TagSize) :
            c[2 + WrapLen + NonceSize + j] = Symbol("seal", DataKey(d), v, z, j)
  BY <1>2, <1>8, <1>9, Zenon DEF Readable, v
<1>11. c[i].kind \in {"nonce", "seal"}
  <2>1. \A n, x, j : /\ Symbol("nonce", Plain, n, 0, j).kind = "nonce"
                     /\ Symbol("seal", x, n, y, j).kind = "seal"
                     /\ Symbol("seal", x, n, z, j).kind = "seal"
    BY DEF Symbol
  <2>2. i \in 1..(2 + WrapLen + NonceSize + (1 + TagSize)) /\ i # 1 /\ i # 2
    BY <1>0, <1>6, <1>7 DEF BlobLen
  <2>3. CASE i - 2 \in 1..NonceSize
    <3> DEFINE j == i - 2
    <3>1. j \in 1..NonceSize /\ i = 2 + j
      BY <2>2, <2>3
    <3> HIDE DEF j
    <3> QED
      BY <1>10, <2>1, <3>1
  <2>4. CASE i - (2 + NonceSize) \in 1..(KeySize + TagSize)
    <3> DEFINE j == i - (2 + NonceSize)
    <3>1. j \in 1..(KeySize + TagSize) /\ i = 2 + NonceSize + j
      BY <1>3, <2>2, <2>4
    <3> HIDE DEF j
    <3> QED
      BY <1>10, <2>1, <3>1
  <2>5. CASE i - (2 + WrapLen) \in 1..NonceSize
    <3> DEFINE j == i - (2 + WrapLen)
    <3>1. j \in 1..NonceSize /\ i = 2 + WrapLen + j
      BY <1>3, <2>2, <2>5 DEF WrapLen
    <3> HIDE DEF j
    <3> QED
      BY <1>10, <2>1, <3>1
  <2>6. CASE i - (2 + WrapLen + NonceSize) \in 1..(1 + TagSize)
    <3> DEFINE j == i - (2 + WrapLen + NonceSize)
    <3>1. j \in 1..(1 + TagSize) /\ i = 2 + WrapLen + NonceSize + j
      BY <1>3, <2>2, <2>6 DEF WrapLen
    <3> HIDE DEF j
    <3> QED
      BY <1>10, <2>1, <3>1
  <2> QED
    BY <1>3, <2>2, <2>3, <2>4, <2>5, <2>6 DEF WrapLen
<1> QED
  BY <1>5, <1>11 DEF Junk, Symbol

(* A blob that was cut short, lengthened, relabelled or overwritten in one *)
(* symbol is refused under every master key: decrypt never returns a value *)
(* from a damaged column, neither the one stored nor another.              *)
THEOREM DamagedRefused ==
  ASSUME NEW m \in Nat, NEW k \in Nat, NEW t \in Nat, Encrypt(m, t) # <<>>,
         NEW c \in Damaged(Encrypt(m, t))
  PROVE  Decrypt(k, c) = Refused
<1> DEFINE b == Encrypt(m, t)
<1>1. Layout(b, m, t)
  BY EncryptLayout
<1> HIDE DEF b
<1>2. b[2].val = WrapLen /\ Len(b) \in Nat
  BY <1>1, LenProperties DEF Layout, Length, Symbol
<1>3. \/ \E n \in 0..(Len(b) - 1) : c = SubSeq(b, 1, n)
      \/ c = Append(b, Junk)
      \/ \E i \in 1..Len(b) : c = [b EXCEPT ![i] = Junk]
      \/ \E n \in (0..Len(b)) \ {b[2].val} : c = [b EXCEPT ![2] = Length(n)]
  BY DEF Damaged, b
<1>4. CASE \E n \in 0..(Len(b) - 1) : c = SubSeq(b, 1, n)
  BY <1>1, <1>4, CutRefused
<1>5. CASE c = Append(b, Junk)
  BY <1>1, <1>5, LongerRefused
<1>6. CASE \E i \in 1..Len(b) : c = [b EXCEPT ![i] = Junk]
  BY <1>1, <1>6, OverwrittenRefused
<1>7. CASE \E n \in (0..Len(b)) \ {b[2].val} : c = [b EXCEPT ![2] = Length(n)]
  <2>1. PICK n \in (0..Len(b)) \ {b[2].val} : c = [b EXCEPT ![2] = Length(n)]
    BY <1>7
  <2>2. n \in Nat /\ n # WrapLen
    BY <1>2
  <2> QED
    BY <1>1, <2>1, <2>2, RelengthRefused
<1> QED
  BY <1>3, <1>4, <1>5, <1>6, <1>7
==============================================================================
