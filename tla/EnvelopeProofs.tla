---------------------------- MODULE EnvelopeProofs ----------------------------
(***************************************************************************)
(* The envelope loses nothing and has one form for each entry, for every   *)
(* entry and every sequence of bytes a store may give back.                *)
(***************************************************************************)
EXTENDS Envelope, SequenceTheorems, TLAPS

(* A concatenation, part by part.                                          *)
LEMMA Concat ==
    ASSUME NEW a \in Seq(Byte), NEW b \in Seq(Byte)
    PROVE  /\ a \o b \in Seq(Byte) /\ Len(a \o b) = Len(a) + Len(b)
           /\ \A k \in 1..Len(a) : (a \o b)[k] = a[k]
           /\ \A k \in 1..Len(b) : (a \o b)[Len(a) + k] = b[k]
<1>1. /\ a \o b \in Seq(Byte) /\ Len(a \o b) = Len(a) + Len(b)
      /\ \A i \in 1..(Len(a) + Len(b)) :
           (a \o b)[i] = IF i <= Len(a) THEN a[i] ELSE b[i - Len(a)]
  BY ConcatProperties
<1>2. Len(a) \in Nat /\ Len(b) \in Nat
  BY LenProperties
<1>3. ASSUME NEW k \in 1..Len(b) PROVE (a \o b)[Len(a) + k] = b[k]
  <2>1. Len(a) + k \in 1..(Len(a) + Len(b)) /\ ~(Len(a) + k <= Len(a))
        /\ (Len(a) + k) - Len(a) = k
    BY <1>2
  <2>2. QED
    BY <1>1, <2>1
<1>4. QED
  BY <1>1, <1>2, <1>3

LEMMA One ==
    ASSUME NEW x \in Byte
    PROVE  <<x>> \in Seq(Byte) /\ Len(<<x>>) = 1 /\ <<x>>[1] = x
OBVIOUS

(* The seven parts of an envelope, place by place.                         *)
Placed(d, v, f, w, c, codec, g, flat, payload) ==
    /\ d \in Seq(Byte)
    /\ Len(d) = 12 + c + 8 * g + Len(payload)
    /\ d[1] = v /\ d[2] = f /\ d[11] = c /\ d[12 + c] = g
    /\ \A k \in 1..8 : d[2 + k] = w[k]
    /\ \A k \in 1..c : d[11 + k] = codec[k]
    /\ \A k \in 1..(8 * g) : d[12 + c + k] = flat[k]
    /\ \A k \in 1..Len(payload) : d[12 + c + 8 * g + k] = payload[k]

Joined(v, f, w, c, codec, g, flat, payload) ==
    <<v, f>> \o w \o <<c>> \o codec \o <<g>> \o flat \o payload

LEMMA Layout ==
    ASSUME NEW v \in Byte, NEW f \in Byte, NEW w \in Seq(Byte), Len(w) = 8,
           NEW c \in Byte, NEW codec \in Seq(Byte), Len(codec) = c,
           NEW g \in Byte, NEW flat \in Seq(Byte), Len(flat) = 8 * g,
           NEW payload \in Seq(Byte)
    PROVE  Placed(Joined(v, f, w, c, codec, g, flat, payload),
                  v, f, w, c, codec, g, flat, payload)
<1> DEFINE cs == <<c>>
           gs == <<g>>
           h0 == <<v, f>>
           h1 == h0 \o w
           h2 == h1 \o cs
           h3 == h2 \o codec
           h4 == h3 \o gs
           h5 == h4 \o flat
           h6 == h5 \o payload
<1>0. /\ c \in Nat /\ g \in Nat /\ 8 * g \in Nat /\ Len(payload) \in Nat
      /\ 11 + c \in Nat /\ 12 + c \in Nat /\ 12 + c + 8 * g \in Nat
  BY LenProperties DEF Byte
<1>1. h0 \in Seq(Byte) /\ Len(h0) = 2 /\ h0[1] = v /\ h0[2] = f
  OBVIOUS
<1>a. /\ cs \in Seq(Byte) /\ Len(cs) = 1 /\ cs[1] = c
      /\ gs \in Seq(Byte) /\ Len(gs) = 1 /\ gs[1] = g
  BY One
<1> HIDE DEF h0, cs, gs
<1>2. /\ h1 \in Seq(Byte) /\ Len(h1) = 10
      /\ \A k \in 1..2 : h1[k] = h0[k]
      /\ \A k \in 1..8 : h1[2 + k] = w[k]
  <2>1. /\ h0 \o w \in Seq(Byte)
        /\ Len(h0 \o w) = Len(h0) + Len(w)
        /\ \A k \in 1..Len(h0) : (h0 \o w)[k] = h0[k]
        /\ \A k \in 1..Len(w) : (h0 \o w)[Len(h0) + k] = w[k]
    BY <1>1, Concat
  <2>2. h1 = h0 \o w
    OBVIOUS
  <2> HIDE DEF h1
  <2>3. Len(h0) = 2 /\ Len(h0 \o w) = 10
    BY <1>1, <2>1
  <2>4. /\ \A k \in 1..2 : (h0 \o w)[k] = h0[k]
        /\ \A k \in 1..8 : (h0 \o w)[2 + k] = w[k]
    BY <2>1, <2>3
  <2>5. QED
    BY <2>1, <2>2, <2>3, <2>4
<1> HIDE DEF h1
<1>3. /\ h2 \in Seq(Byte) /\ Len(h2) = 11
      /\ \A k \in 1..10 : h2[k] = h1[k]
      /\ \A k \in 1..1 : h2[10 + k] = cs[k]
  <2>1. /\ h1 \o cs \in Seq(Byte)
        /\ Len(h1 \o cs) = Len(h1) + Len(cs)
        /\ \A k \in 1..Len(h1) : (h1 \o cs)[k] = h1[k]
        /\ \A k \in 1..Len(cs) : (h1 \o cs)[Len(h1) + k] = cs[k]
    BY <1>2, <1>a, Concat
  <2>2. h2 = h1 \o cs
    OBVIOUS
  <2> HIDE DEF h2
  <2>3. Len(h1) = 10 /\ Len(cs) = 1
    BY <1>2, <1>a
  <2>4. h2 \in Seq(Byte) /\ Len(h2) = 11
    BY <2>1, <2>2, <2>3
  <2>5. \A k \in 1..10 : h2[k] = h1[k]
    BY <2>1, <2>2, <2>3
  <2>6. \A k \in 1..1 : h2[10 + k] = cs[k]
    BY <2>1, <2>2, <2>3
  <2>7. QED
    BY <2>4, <2>5, <2>6
<1> HIDE DEF h2
<1>4. /\ h3 \in Seq(Byte) /\ Len(h3) = 11 + c
      /\ \A k \in 1..11 : h3[k] = h2[k]
      /\ \A k \in 1..c : h3[11 + k] = codec[k]
  <2>1. /\ h2 \o codec \in Seq(Byte)
        /\ Len(h2 \o codec) = Len(h2) + Len(codec)
        /\ \A k \in 1..Len(h2) : (h2 \o codec)[k] = h2[k]
        /\ \A k \in 1..Len(codec) : (h2 \o codec)[Len(h2) + k] = codec[k]
    BY <1>3, Concat
  <2>2. h3 = h2 \o codec
    OBVIOUS
  <2> HIDE DEF h3
  <2>3. QED
    BY <1>0, <1>3, <2>1, <2>2
<1> HIDE DEF h3
<1>5. /\ h4 \in Seq(Byte) /\ Len(h4) = 12 + c
      /\ \A k \in 1..(11 + c) : h4[k] = h3[k]
      /\ \A k \in 1..1 : h4[11 + c + k] = gs[k]
  <2>1. /\ h3 \o gs \in Seq(Byte)
        /\ Len(h3 \o gs) = Len(h3) + Len(gs)
        /\ \A k \in 1..Len(h3) : (h3 \o gs)[k] = h3[k]
        /\ \A k \in 1..Len(gs) : (h3 \o gs)[Len(h3) + k] = gs[k]
    BY <1>4, <1>a, Concat
  <2>2. h4 = h3 \o gs
    OBVIOUS
  <2> HIDE DEF h4
  <2>3. Len(h3) = 11 + c /\ Len(gs) = 1
    BY <1>4, <1>a
  <2>4. h4 \in Seq(Byte) /\ Len(h4) = 12 + c
    BY <1>0, <2>1, <2>2, <2>3
  <2>5. \A k \in 1..(11 + c) : h4[k] = h3[k]
    BY <2>1, <2>2, <2>3
  <2>6. \A k \in 1..1 : h4[11 + c + k] = gs[k]
    BY <2>1, <2>2, <2>3
  <2>7. QED
    BY <2>4, <2>5, <2>6
<1> HIDE DEF h4
<1>6. /\ h5 \in Seq(Byte) /\ Len(h5) = 12 + c + 8 * g
      /\ \A k \in 1..(12 + c) : h5[k] = h4[k]
      /\ \A k \in 1..(8 * g) : h5[12 + c + k] = flat[k]
  <2>1. /\ h4 \o flat \in Seq(Byte)
        /\ Len(h4 \o flat) = Len(h4) + Len(flat)
        /\ \A k \in 1..Len(h4) : (h4 \o flat)[k] = h4[k]
        /\ \A k \in 1..Len(flat) : (h4 \o flat)[Len(h4) + k] = flat[k]
    BY <1>5, Concat
  <2>2. h5 = h4 \o flat
    OBVIOUS
  <2> HIDE DEF h5
  <2>3. QED
    BY <1>0, <1>5, <2>1, <2>2
<1> HIDE DEF h5
<1>7. /\ h6 \in Seq(Byte) /\ Len(h6) = 12 + c + 8 * g + Len(payload)
      /\ \A k \in 1..(12 + c + 8 * g) : h6[k] = h5[k]
      /\ \A k \in 1..Len(payload) : h6[12 + c + 8 * g + k] = payload[k]
  <2>1. /\ h5 \o payload \in Seq(Byte)
        /\ Len(h5 \o payload) = Len(h5) + Len(payload)
        /\ \A k \in 1..Len(h5) : (h5 \o payload)[k] = h5[k]
        /\ \A k \in 1..Len(payload) : (h5 \o payload)[Len(h5) + k] = payload[k]
    BY <1>6, Concat
  <2>2. h6 = h5 \o payload
    OBVIOUS
  <2> HIDE DEF h6
  <2>3. QED
    BY <1>0, <1>6, <2>1, <2>2
<1> HIDE DEF h6
<1>8. h2[11] = c /\ h4[12 + c] = g
  <2>1. h2[10 + 1] = cs[1] /\ h4[11 + c + 1] = gs[1]
    BY <1>3, <1>5
  <2>2. QED
    BY <1>0, <1>a, <2>1
<1>9. /\ \A k \in 1..(12 + c) : h6[k] = h4[k]
      /\ \A k \in 1..(8 * g) : h6[12 + c + k] = flat[k]
  <2>1. /\ \A k \in 1..(12 + c) : k \in 1..(12 + c + 8 * g)
        /\ \A k \in 1..(8 * g) : 12 + c + k \in 1..(12 + c + 8 * g)
    BY <1>0
  <2>2. \A k \in 1..(12 + c) : h6[k] = h4[k]
    BY <1>6, <1>7, <2>1
  <2>3. \A k \in 1..(8 * g) : h6[12 + c + k] = flat[k]
    BY <1>6, <1>7, <2>1
  <2>4. QED
    BY <2>2, <2>3
<1>10. h6[12 + c] = g /\ \A k \in 1..(11 + c) : h6[k] = h3[k]
  BY <1>0, <1>5, <1>8, <1>9
<1>11. /\ \A k \in 1..11 : h6[k] = h2[k]
       /\ \A k \in 1..c : h6[11 + k] = codec[k]
  <2>1. /\ \A k \in 1..11 : k \in 1..(11 + c)
        /\ \A k \in 1..c : 11 + k \in 1..(11 + c)
    BY <1>0
  <2>2. QED
    BY <1>4, <1>10, <2>1
<1>12. /\ h6[1] = v /\ h6[2] = f /\ h6[11] = c
       /\ \A k \in 1..8 : h6[2 + k] = w[k]
  <2>1. \A k \in 1..10 : h6[k] = h1[k]
    <3>1. \A k \in 1..10 : k \in 1..11
      OBVIOUS
    <3>2. QED
      BY <1>3, <1>11, <3>1
  <2>2. h6[1] = h0[1] /\ h6[2] = h0[2]
    BY <1>2, <2>1
  <2>3. \A k \in 1..8 : 2 + k \in 1..10
    OBVIOUS
  <2>4. \A k \in 1..8 : h6[2 + k] = w[k]
    BY <1>2, <2>1, <2>3
  <2>5. QED
    BY <1>1, <1>8, <1>11, <2>2, <2>4
<1>13. h6 = Joined(v, f, w, c, codec, g, flat, payload)
  BY DEF Joined, h6, h5, h4, h3, h2, h1, h0, cs, gs
<1>14. Placed(h6, v, f, w, c, codec, g, flat, payload)
  BY <1>7, <1>9, <1>10, <1>11, <1>12 DEF Placed
<1>15. QED
  BY <1>13, <1>14

-----------------------------------------------------------------------------
LEMMA Bytes ==
    ASSUME NEW n \in Nat, NEW f \in [1..n -> Byte]
    PROVE  f \in Seq(Byte) /\ Len(f) = n
OBVIOUS

LEMMA WordBytes ==
    ASSUME NEW w \in Word
    PROVE  w \in Seq(Byte) /\ Len(w) = 8
<1>1. w \in [1..8 -> Byte] /\ 8 \in Nat
  BY DEF Word
<1>2. QED
  BY <1>1, Bytes

(* Generations one after the other: the k-th byte of the i-th.             *)
LEMMA FlatBytes ==
    ASSUME NEW words \in Seq(Word)
    PROVE  /\ Flat(words) \in Seq(Byte) /\ Len(Flat(words)) = 8 * Len(words)
           /\ \A i \in 1..Len(words) : \A k \in 1..8 :
                Flat(words)[8 * (i - 1) + k] = words[i][k]
<1> DEFINE g == Len(words)
<1>0. g \in Nat
  BY LenProperties
<1>1. \A i \in 1..g : words[i] \in Word
  BY ElementOfSeq
<1>2. \A j \in 1..(8 * g) : /\ ((j - 1) \div 8) + 1 \in 1..g
                            /\ ((j - 1) % 8) + 1 \in 1..8
  <2> HIDE DEF g
  <2>1. QED
    BY <1>0
<1>3. \A j \in 1..(8 * g) :
        words[((j - 1) \div 8) + 1][((j - 1) % 8) + 1] \in Byte
  BY <1>1, <1>2 DEF Word
<1>4. Flat(words) \in [1..(8 * g) -> Byte]
  BY <1>3 DEF Flat
<1>5. Flat(words) \in Seq(Byte) /\ Len(Flat(words)) = 8 * g
  <2>1. 8 * g \in Nat
    BY <1>0
  <2> HIDE DEF g
  <2>2. QED
    BY <1>4, <2>1, Bytes
<1>6. ASSUME NEW i \in 1..g, NEW k \in 1..8
      PROVE  Flat(words)[8 * (i - 1) + k] = words[i][k]
  <2> DEFINE j == 8 * (i - 1) + k
  <2>1. j \in 1..(8 * g) /\ (j - 1) \div 8 = i - 1 /\ (j - 1) % 8 = k - 1
    <3> HIDE DEF g
    <3>1. QED
      BY <1>0
  <2>2. Flat(words)[j] = words[((j - 1) \div 8) + 1][((j - 1) % 8) + 1]
    BY <2>1 DEF Flat
  <2>3. (i - 1) + 1 = i /\ (k - 1) + 1 = k
    OBVIOUS
  <2>4. QED
    BY <2>1, <2>2, <2>3
<1>7. QED
  BY <1>5, <1>6

(* Part of a sequence of bytes.                                            *)
LEMMA Part ==
    ASSUME NEW d \in Seq(Byte), NEW s \in Seq(Byte), NEW at \in Nat,
           NEW n \in Nat, Len(s) = n, at + n <= Len(d),
           \A k \in 1..n : d[at + k] = s[k]
    PROVE  SubSeq(d, at + 1, at + n) = s
<1> DEFINE q == SubSeq(d, at + 1, at + n)
<1>1. Len(d) \in Nat
  BY LenProperties
<1>2. \A i \in (at + 1)..(at + n) : i \in 1..Len(d)
  BY <1>1
<1>3. \A i \in (at + 1)..(at + n) : d[i] \in Byte
  BY <1>2, ElementOfSeq
<1>4. at + 1 \in Int /\ at + n \in Int
  OBVIOUS
<1>5. /\ q \in Seq(Byte)
      /\ Len(q) = IF at + 1 <= at + n THEN (at + n) - (at + 1) + 1 ELSE 0
      /\ \A i \in 1..((at + n) - (at + 1) + 1) : q[i] = d[(at + 1) + i - 1]
  BY <1>3, <1>4, SubSeqProperties
<1> HIDE DEF q
<1>6. Len(q) = n
  BY <1>5
<1>7. \A i \in 1..n : q[i] = s[i]
  <2>1. (at + n) - (at + 1) + 1 = n /\ \A i \in 1..n : (at + 1) + i - 1 = at + i
    OBVIOUS
  <2>2. QED
    BY <1>5, <2>1
<1>8. q = s
  BY <1>5, <1>6, <1>7, SeqEqual
<1>9. QED
  BY <1>8 DEF q

-----------------------------------------------------------------------------
(* What Encode writes of an entry it accepts, place by place.              *)
LEMMA Encoded ==
    ASSUME NEW e \in Entry,
           check(e.Absent, e.Expires, Len(e.Codec), Len(e.Payload)),
           Len(e.Gens) <= MaxTags
    PROVE  LET d == Encode(e)
               c == Len(e.Codec)
               g == Len(e.Gens) IN
           /\ c \in 1..32 /\ g \in 0..8 /\ Len(e.Payload) \in Nat
           /\ d \in Seq(Byte)
           /\ Len(d) = 12 + c + 8 * g + Len(e.Payload)
           /\ d[1] = Version /\ d[2] = flagsOf(e.Absent)
           /\ d[11] = c /\ d[12 + c] = g
           /\ \A k \in 1..8 : d[2 + k] = e.Expires[k]
           /\ \A k \in 1..c : d[11 + k] = e.Codec[k]
           /\ \A i \in 1..g : \A k \in 1..8 :
                d[12 + c + (8 * (i - 1) + k)] = e.Gens[i][k]
           /\ \A k \in 1..Len(e.Payload) :
                d[12 + c + 8 * g + k] = e.Payload[k]
<1> DEFINE d == Encode(e)
           c == Len(e.Codec)
           g == Len(e.Gens)
           w == e.Expires
           f == flagsOf(e.Absent)
           flat == Flat(e.Gens)
<1>1. /\ e.Absent \in BOOLEAN /\ w \in Word /\ e.Codec \in Seq(Byte)
      /\ e.Gens \in Seq(Word) /\ e.Payload \in Seq(Byte)
  BY DEF Entry
<1>2. /\ c \in 1..32 /\ g \in 0..8 /\ Len(e.Payload) \in Nat
  <2>1. g \in Nat /\ Len(e.Payload) \in Nat
    BY <1>1, LenProperties
  <2>2. c \in 1..32
    BY DEF check, maxCodecID
  <2>3. g <= 8
    BY DEF MaxTags
  <2> HIDE DEF c, g
  <2>4. g \in 0..8
    BY <2>1, <2>3
  <2>5. QED
    BY <2>1, <2>2, <2>4
<1>3. c \in Byte /\ g \in Byte /\ f \in Byte /\ Version \in Byte
  BY <1>1, <1>2 DEF Byte, flagsOf, Version
<1>4. w \in Seq(Byte) /\ Len(w) = 8
  BY <1>1, WordBytes
<1>5. /\ flat \in Seq(Byte) /\ Len(flat) = 8 * g
      /\ \A i \in 1..g : \A k \in 1..8 : flat[8 * (i - 1) + k] = e.Gens[i][k]
  BY <1>1, FlatBytes
<1>6. d = <<Version, f>> \o w \o <<c>> \o e.Codec \o <<g>> \o flat \o e.Payload
  BY DEF Encode
<1> HIDE DEF d, c, g, w, f, flat
<1>7. /\ d \in Seq(Byte)
      /\ Len(d) = 12 + c + 8 * g + Len(e.Payload)
      /\ d[1] = Version /\ d[2] = f /\ d[11] = c /\ d[12 + c] = g
      /\ \A k \in 1..8 : d[2 + k] = w[k]
      /\ \A k \in 1..c : d[11 + k] = e.Codec[k]
      /\ \A k \in 1..(8 * g) : d[12 + c + k] = flat[k]
      /\ \A k \in 1..Len(e.Payload) : d[12 + c + 8 * g + k] = e.Payload[k]
  <2>1. /\ Version \in Byte /\ f \in Byte /\ c \in Byte /\ g \in Byte
        /\ w \in Seq(Byte) /\ e.Codec \in Seq(Byte)
        /\ flat \in Seq(Byte) /\ e.Payload \in Seq(Byte)
        /\ Len(w) = 8 /\ Len(e.Codec) = c /\ Len(flat) = 8 * g
    BY <1>1, <1>3, <1>4, <1>5 DEF c
  <2>2. Placed(Joined(Version, f, w, c, e.Codec, g, flat, e.Payload),
               Version, f, w, c, e.Codec, g, flat, e.Payload)
    BY <2>1, Layout, ZenonT(60)
  <2>3. d = Joined(Version, f, w, c, e.Codec, g, flat, e.Payload)
    BY <1>6 DEF Joined
  <2>4. QED
    BY <2>2, <2>3 DEF Placed
<1>8. \A i \in 1..g : \A k \in 1..8 :
        d[12 + c + (8 * (i - 1) + k)] = e.Gens[i][k]
  <2>1. \A i \in 1..g : \A k \in 1..8 : 8 * (i - 1) + k \in 1..(8 * g)
    BY <1>2
  <2>2. \A i \in 1..g : \A k \in 1..8 :
          d[12 + c + (8 * (i - 1) + k)] = flat[8 * (i - 1) + k]
    BY <1>7, <2>1
  <2>3. QED
    BY <1>5, <2>2
<1>9. QED
  BY <1>2, <1>7, <1>8 DEF d, c, g, w, f

(* Decode gives back the very entry Encode was given, whatever its codec,  *)
(* tags and payload (internal/envelope Encode, Decode).                    *)
THEOREM RoundTrip ==
    ASSUME NEW e \in Entry, NEW maxPayload \in Nat,
           check(e.Absent, e.Expires, Len(e.Codec), Len(e.Payload)),
           Len(e.Gens) <= MaxTags, Len(e.Payload) <= maxPayload
    PROVE  Decode(Encode(e), maxPayload) = e
<1> DEFINE d == Encode(e)
           c == Len(e.Codec)
           g == Len(e.Gens)
           p == Len(e.Payload)
<1>1. /\ c \in 1..32 /\ g \in 0..8 /\ p \in Nat
      /\ d \in Seq(Byte) /\ Len(d) = 12 + c + 8 * g + p
      /\ d[1] = Version /\ d[2] = flagsOf(e.Absent)
      /\ d[11] = c /\ d[12 + c] = g
      /\ \A k \in 1..8 : d[2 + k] = e.Expires[k]
      /\ \A k \in 1..c : d[11 + k] = e.Codec[k]
      /\ \A i \in 1..g : \A k \in 1..8 :
           d[12 + c + (8 * (i - 1) + k)] = e.Gens[i][k]
      /\ \A k \in 1..p : d[12 + c + 8 * g + k] = e.Payload[k]
  BY Encoded
<1>2. /\ e.Absent \in BOOLEAN /\ e.Expires \in Word /\ e.Codec \in Seq(Byte)
      /\ e.Gens \in Seq(Word) /\ e.Payload \in Seq(Byte)
      /\ e = [Absent |-> e.Absent, Expires |-> e.Expires, Codec |-> e.Codec,
              Gens |-> e.Gens, Payload |-> e.Payload]
  BY DEF Entry
<1>3. Len(e.Codec) = c /\ Len(e.Gens) = g /\ Len(e.Payload) = p
  OBVIOUS
<1>4. check(e.Absent, e.Expires, c, p) /\ p <= maxPayload
  OBVIOUS
<1> HIDE DEF d, c, g, p
<1>5. countAt(d) = 12 + c
  BY <1>1 DEF countAt, headerLen
<1>6. WordAt(d, 3) = e.Expires
  <2>1. \A k \in 1..8 : d[3 + k - 1] = e.Expires[k]
    <3>1. \A k \in 1..8 : 3 + k - 1 = 2 + k
      OBVIOUS
    <3>2. QED
      BY <1>1, <3>1
  <2>2. QED
    BY <1>2, <2>1 DEF WordAt, Word
<1>7. SubSeq(d, headerLen + 1, headerLen + d[11]) = e.Codec
  <2>1. c \in Nat /\ 11 \in Nat /\ 11 + c <= Len(d)
    BY <1>1
  <2>2. \A k \in 1..c : d[11 + k] = e.Codec[k]
    BY <1>1
  <2>3. d \in Seq(Byte) /\ e.Codec \in Seq(Byte) /\ Len(e.Codec) = c
    BY <1>1, <1>2, <1>3
  <2>4. SubSeq(d, 11 + 1, 11 + c) = e.Codec
    BY <2>1, <2>2, <2>3, Part
  <2>5. QED
    BY <1>1, <2>4 DEF headerLen
<1>8. gensOf(d) = e.Gens
  <2>1. ASSUME NEW i \in 1..g
        PROVE  WordAt(d, countAt(d) + 8 * i - 7) = e.Gens[i]
    <3>1. e.Gens[i] \in [1..8 -> Byte]
      BY <1>2, <1>3, ElementOfSeq DEF Word
    <3>2. \A k \in 1..8 :
            countAt(d) + 8 * i - 7 + k - 1 = 12 + c + (8 * (i - 1) + k)
      BY <1>1, <1>5
    <3>3. \A k \in 1..8 : d[countAt(d) + 8 * i - 7 + k - 1] = e.Gens[i][k]
      <4>1. \A k \in 1..8 : d[12 + c + (8 * (i - 1) + k)] = e.Gens[i][k]
        BY <1>1
      <4>2. QED
        BY <3>2, <4>1
    <3>4. QED
      BY <3>1, <3>3 DEF WordAt
  <2>2. e.Gens = [i \in 1..g |-> e.Gens[i]]
    BY <1>2, <1>3, LenProperties
  <2>3. gensOf(d) = [i \in 1..g |-> WordAt(d, countAt(d) + 8 * i - 7)]
    BY <1>1, <1>5 DEF gensOf
  <2>4. QED
    BY <2>1, <2>2, <2>3
<1>9. payloadOf(d) = e.Payload
  <2> DEFINE at == 12 + c + 8 * g
  <2>1. at \in Nat /\ at + p = Len(d) /\ at + p <= Len(d)
    BY <1>1
  <2>2. \A k \in 1..p : d[at + k] = e.Payload[k]
    BY <1>1
  <2> HIDE DEF at
  <2>3. SubSeq(d, at + 1, at + p) = e.Payload
    BY <1>1, <1>2, <1>3, <2>1, <2>2, Part
  <2>4. countAt(d) + 8 * d[countAt(d)] + 1 = at + 1
    BY <1>1, <1>5 DEF at
  <2>5. QED
    BY <2>1, <2>3, <2>4 DEF payloadOf
<1>10. d[2] \in {0, 1} /\ (d[2] = 1) = e.Absent
  BY <1>1, <1>2 DEF flagsOf
<1>11. /\ Len(d) >= headerLen /\ Len(d) >= countAt(d)
       /\ d[countAt(d)] <= MaxTags
       /\ Len(d) >= countAt(d) + 8 * d[countAt(d)]
  <2>1. d[countAt(d)] = g
    BY <1>1, <1>5
  <2>2. Len(d) = 12 + c + 8 * g + p /\ c \in 1..32 /\ g \in 0..8 /\ p \in Nat
    BY <1>1
  <2>3. QED
    BY <1>5, <2>1, <2>2 DEF headerLen, MaxTags
<1>12. check(d[2] = 1, WordAt(d, 3), d[11], Len(payloadOf(d)))
       /\ Len(payloadOf(d)) <= maxPayload
  BY <1>1, <1>3, <1>4, <1>6, <1>9, <1>10
<1>13. Decode(d, maxPayload)
         = [Absent |-> d[2] = 1, Expires |-> WordAt(d, 3),
            Codec |-> SubSeq(d, headerLen + 1, headerLen + d[11]),
            Gens |-> gensOf(d), Payload |-> payloadOf(d)]
  BY <1>1, <1>10, <1>11, <1>12 DEF Decode
<1>14. Decode(d, maxPayload) = e
  BY <1>2, <1>6, <1>7, <1>8, <1>9, <1>10, <1>13
<1>15. QED
  BY <1>14 DEF d
-----------------------------------------------------------------------------
(* What a part of a sequence of bytes holds.                               *)
LEMMA Cut ==
    ASSUME NEW d \in Seq(Byte), NEW at \in Nat, NEW n \in Nat,
           at + n <= Len(d)
    PROVE  LET q == SubSeq(d, at + 1, at + n) IN
           /\ q \in Seq(Byte) /\ Len(q) = n
           /\ \A k \in 1..n : q[k] = d[at + k]
<1> DEFINE q == SubSeq(d, at + 1, at + n)
<1>1. Len(d) \in Nat
  BY LenProperties
<1>2. \A i \in (at + 1)..(at + n) : i \in 1..Len(d)
  BY <1>1
<1>3. \A i \in (at + 1)..(at + n) : d[i] \in Byte
  BY <1>2, ElementOfSeq
<1>4. at + 1 \in Int /\ at + n \in Int
  OBVIOUS
<1>5. /\ q \in Seq(Byte)
      /\ Len(q) = IF at + 1 <= at + n THEN (at + n) - (at + 1) + 1 ELSE 0
      /\ \A i \in 1..((at + n) - (at + 1) + 1) : q[i] = d[(at + 1) + i - 1]
  BY <1>3, <1>4, SubSeqProperties
<1> HIDE DEF q
<1>6. Len(q) = n
  BY <1>5
<1>7. \A k \in 1..n : q[k] = d[at + k]
  <2>1. (at + n) - (at + 1) + 1 = n /\ \A i \in 1..n : (at + 1) + i - 1 = at + i
    OBVIOUS
  <2>2. QED
    BY <1>5, <2>1
<1>8. QED
  BY <1>5, <1>6, <1>7 DEF q

LEMMA Words ==
    ASSUME NEW n \in Nat, NEW f \in [1..n -> Word]
    PROVE  f \in Seq(Word) /\ Len(f) = n
OBVIOUS

(* What Decode accepts, and what it makes of it.                           *)
LEMMA Accepted ==
    ASSUME NEW data \in Seq(Byte), NEW maxPayload \in Nat,
           Decode(data, maxPayload) # Malformed
    PROVE  LET e == Decode(data, maxPayload)
               c == data[11]
               g == data[12 + c]
               at == 12 + c + 8 * g IN
           /\ c \in 1..32 /\ g \in 0..8 /\ Len(data) \in Nat
           /\ at <= Len(data)
           /\ data[1] = Version /\ data[2] = flagsOf(e.Absent)
           /\ e \in Entry
           /\ \A k \in 1..8 : e.Expires[k] = data[2 + k]
           /\ Len(e.Codec) = c /\ \A k \in 1..c : e.Codec[k] = data[11 + k]
           /\ Len(e.Gens) = g
           /\ \A i \in 1..g : \A k \in 1..8 :
                e.Gens[i][k] = data[12 + c + (8 * (i - 1) + k)]
           /\ Len(e.Payload) = Len(data) - at
           /\ \A k \in 1..(Len(data) - at) : e.Payload[k] = data[at + k]
           /\ check(e.Absent, e.Expires, Len(e.Codec), Len(e.Payload))
<1> DEFINE e == Decode(data, maxPayload)
           c == data[11]
           g == data[12 + c]
           at == 12 + c + 8 * g
<1>1. /\ Len(data) >= headerLen
      /\ data[1] = Version
      /\ data[2] \in {0, 1}
      /\ Len(data) >= countAt(data)
      /\ data[countAt(data)] <= MaxTags
      /\ Len(data) >= countAt(data) + 8 * data[countAt(data)]
      /\ check(data[2] = 1, WordAt(data, 3), data[11], Len(payloadOf(data)))
      /\ e = [Absent |-> data[2] = 1, Expires |-> WordAt(data, 3),
              Codec |-> SubSeq(data, headerLen + 1, headerLen + data[11]),
              Gens |-> gensOf(data), Payload |-> payloadOf(data)]
  BY DEF Decode
<1> HIDE DEF e
<1>2. /\ e.Absent = (data[2] = 1) /\ e.Expires = WordAt(data, 3)
      /\ e.Codec = SubSeq(data, headerLen + 1, headerLen + c)
      /\ e.Gens = gensOf(data) /\ e.Payload = payloadOf(data)
  BY <1>1
<1>3. Len(data) \in Nat /\ \A k \in 1..Len(data) : data[k] \in Byte
  BY LenProperties, ElementOfSeq
<1>4. c \in 1..32 /\ check(data[2] = 1, WordAt(data, 3), c, Len(payloadOf(data)))
  BY <1>1 DEF check, maxCodecID
<1>5. countAt(data) = 12 + c
  <2>1. countAt(data) = 11 + c + 1
    BY DEF countAt, headerLen
  <2> HIDE DEF c
  <2>2. 11 + c + 1 = 12 + c
    BY <1>4
  <2>3. QED
    BY <2>1, <2>2
<1>6. 12 + c <= Len(data) /\ g <= 8 /\ at <= Len(data)
  BY <1>1, <1>5 DEF MaxTags
<1>7. g \in 0..8
  <2> DEFINE j == 12 + c
  <2>1. j \in 1..Len(data)
    <3> HIDE DEF c
    <3>1. QED
      BY <1>3, <1>4, <1>6
  <2>2. g = data[j]
    OBVIOUS
  <2> HIDE DEF j, g
  <2>3. g \in 0..255
    BY <1>3, <2>1, <2>2 DEF Byte
  <2>4. QED
    BY <1>6, <2>3
<1>8. data[2] = flagsOf(e.Absent)
  BY <1>1, <1>2 DEF flagsOf
<1>9. gensOf(data) = [i \in 1..g |-> WordAt(data, 12 + c + 8 * i - 7)]
  BY <1>5 DEF gensOf
<1> HIDE DEF c, g
<1>10. /\ e.Expires \in Word
       /\ \A k \in 1..8 : e.Expires[k] = data[2 + k]
  <2>1. \A k \in 1..8 : 3 + k - 1 = 2 + k /\ 2 + k \in 1..Len(data)
    BY <1>3, <1>4, <1>6
  <2>2. \A k \in 1..8 : data[3 + k - 1] \in Byte
    BY <1>3, <2>1
  <2>3. WordAt(data, 3) = [k \in 1..8 |-> data[3 + k - 1]]
    BY DEF WordAt
  <2>4. QED
    BY <1>2, <2>1, <2>2, <2>3 DEF Word
<1>11. /\ e.Codec \in Seq(Byte) /\ Len(e.Codec) = c
       /\ \A k \in 1..c : e.Codec[k] = data[11 + k]
  <2>1. 11 \in Nat /\ c \in Nat /\ 11 + c <= Len(data)
    BY <1>3, <1>4, <1>6
  <2>2. e.Codec = SubSeq(data, 11 + 1, 11 + c)
    BY <1>2 DEF headerLen
  <2>3. QED
    BY <2>1, <2>2, Cut
<1>12. /\ e.Gens \in Seq(Word) /\ Len(e.Gens) = g
       /\ \A i \in 1..g : \A k \in 1..8 :
            e.Gens[i][k] = data[12 + c + (8 * (i - 1) + k)]
  <2>1. \A i \in 1..g : \A k \in 1..8 :
          /\ (12 + c + 8 * i - 7) + k - 1 = 12 + c + (8 * (i - 1) + k)
          /\ 12 + c + (8 * (i - 1) + k) \in 1..Len(data)
    BY <1>3, <1>4, <1>6, <1>7
  <2>2. ASSUME NEW i \in 1..g
        PROVE  /\ e.Gens[i] = WordAt(data, 12 + c + 8 * i - 7)
               /\ e.Gens[i] \in Word
               /\ \A k \in 1..8 :
                    e.Gens[i][k] = data[12 + c + (8 * (i - 1) + k)]
    <3>1. e.Gens[i] = WordAt(data, 12 + c + 8 * i - 7)
      BY <1>2, <1>9
    <3>2. WordAt(data, 12 + c + 8 * i - 7)
            = [k \in 1..8 |-> data[(12 + c + 8 * i - 7) + k - 1]]
      BY DEF WordAt
    <3>3. \A k \in 1..8 : data[(12 + c + 8 * i - 7) + k - 1]
                            = data[12 + c + (8 * (i - 1) + k)]
      BY <2>1
    <3>4. \A k \in 1..8 : data[12 + c + (8 * (i - 1) + k)] \in Byte
      BY <1>3, <2>1
    <3>5. QED
      BY <3>1, <3>2, <3>3, <3>4 DEF Word
  <2>3. g \in Nat /\ e.Gens = [i \in 1..g |-> WordAt(data, 12 + c + 8 * i - 7)]
    BY <1>2, <1>7, <1>9
  <2>4. e.Gens \in [1..g -> Word]
    BY <2>2, <2>3
  <2>5. e.Gens \in Seq(Word) /\ Len(e.Gens) = g
    BY <2>3, <2>4, Words
  <2>6. QED
    BY <2>2, <2>5
<1>13. /\ e.Payload \in Seq(Byte) /\ Len(e.Payload) = Len(data) - at
       /\ \A k \in 1..(Len(data) - at) : e.Payload[k] = data[at + k]
  <2>1. at \in Nat /\ Len(data) - at \in Nat
        /\ at + (Len(data) - at) = Len(data)
    BY <1>3, <1>4, <1>6, <1>7
  <2>2. e.Payload = SubSeq(data, at + 1, Len(data))
    BY <1>2, <1>5 DEF payloadOf, g
  <2> HIDE DEF at
  <2> DEFINE m == Len(data) - at
  <2>3. m \in Nat /\ at + m <= Len(data)
    BY <1>3, <2>1
  <2>4. e.Payload = SubSeq(data, at + 1, at + m)
    BY <2>1, <2>2
  <2> HIDE DEF m
  <2>5. /\ e.Payload \in Seq(Byte) /\ Len(e.Payload) = m
        /\ \A k \in 1..m : e.Payload[k] = data[at + k]
    BY <2>1, <2>3, <2>4, Cut
  <2>6. QED
    BY <2>5 DEF m
<1>14. e \in Entry
  BY <1>1, <1>2, <1>10, <1>11, <1>12, <1>13 DEF Entry
<1>15. check(e.Absent, e.Expires, Len(e.Codec), Len(e.Payload))
  BY <1>2, <1>4, <1>11
<1>16. QED
  BY <1>1, <1>3, <1>4, <1>6, <1>7, <1>8, <1>10, <1>11, <1>12, <1>13, <1>14,
     <1>15 DEF e, c, g

(* Decode accepts only what Encode produces: encoding again what it read   *)
(* gives back the very bytes, so no entry has two forms and nothing in a   *)
(* store is passed over (Decode's comment; FuzzDecode).                    *)
THEOREM Canonical ==
    ASSUME NEW data \in Seq(Byte), NEW maxPayload \in Nat,
           Decode(data, maxPayload) # Malformed
    PROVE  /\ Decode(data, maxPayload) \in Entry
           /\ Encode(Decode(data, maxPayload)) = data
<1> DEFINE e == Decode(data, maxPayload)
           E == Encode(e)
           c == data[11]
           g == data[12 + c]
           at == 12 + c + 8 * g
<1>1. /\ c \in 1..32 /\ g \in 0..8 /\ Len(data) \in Nat
      /\ at <= Len(data)
      /\ data[1] = Version /\ data[2] = flagsOf(e.Absent)
      /\ e \in Entry
      /\ \A k \in 1..8 : e.Expires[k] = data[2 + k]
      /\ Len(e.Codec) = c /\ \A k \in 1..c : e.Codec[k] = data[11 + k]
      /\ Len(e.Gens) = g
      /\ \A i \in 1..g : \A k \in 1..8 :
           e.Gens[i][k] = data[12 + c + (8 * (i - 1) + k)]
      /\ Len(e.Payload) = Len(data) - at
      /\ \A k \in 1..(Len(data) - at) : e.Payload[k] = data[at + k]
      /\ check(e.Absent, e.Expires, Len(e.Codec), Len(e.Payload))
  BY Accepted
<1> HIDE DEF e
<1>a. data[11] = c /\ data[12 + c] = g
  OBVIOUS
<1> HIDE DEF c, g
<1>b. c \in 1..32 /\ g \in 0..8 /\ Len(data) \in Nat /\ at <= Len(data)
  BY <1>1
<1>2. Len(e.Gens) <= MaxTags
  <2>1. Len(e.Gens) = g
    BY <1>1
  <2>2. QED
    BY <1>b, <2>1 DEF MaxTags
<1>3. /\ E \in Seq(Byte)
      /\ Len(E) = 12 + Len(e.Codec) + 8 * Len(e.Gens) + Len(e.Payload)
      /\ E[1] = Version /\ E[2] = flagsOf(e.Absent)
      /\ E[11] = Len(e.Codec) /\ E[12 + Len(e.Codec)] = Len(e.Gens)
      /\ \A k \in 1..8 : E[2 + k] = e.Expires[k]
      /\ \A k \in 1..Len(e.Codec) : E[11 + k] = e.Codec[k]
      /\ \A i \in 1..Len(e.Gens) : \A k \in 1..8 :
           E[12 + Len(e.Codec) + (8 * (i - 1) + k)] = e.Gens[i][k]
      /\ \A k \in 1..Len(e.Payload) :
           E[12 + Len(e.Codec) + 8 * Len(e.Gens) + k] = e.Payload[k]
  BY <1>1, <1>2, Encoded
<1> HIDE DEF E
<1>4. Len(E) = Len(data)
  BY <1>1, <1>3
<1>5. \A k \in 1..8 : E[2 + k] = data[2 + k]
  BY <1>1, <1>3
<1>6. \A k \in 1..c : E[11 + k] = data[11 + k]
  BY <1>1, <1>3
<1>7. \A i \in 1..g : \A k \in 1..8 :
        E[12 + c + (8 * (i - 1) + k)] = data[12 + c + (8 * (i - 1) + k)]
  <2>1. Len(e.Codec) = c /\ Len(e.Gens) = g
    BY <1>1
  <2>2. \A i \in 1..g : \A k \in 1..8 :
          E[12 + c + (8 * (i - 1) + k)] = e.Gens[i][k]
    BY <1>3, <2>1
  <2>3. \A i \in 1..g : \A k \in 1..8 :
          e.Gens[i][k] = data[12 + c + (8 * (i - 1) + k)]
    BY <1>1
  <2>4. QED
    BY <2>2, <2>3
<1>8. \A k \in 1..(Len(data) - at) : E[at + k] = data[at + k]
  BY <1>1, <1>3
<1>9. ASSUME NEW i \in 1..Len(data)
      PROVE  E[i] = data[i]
  <2>1. CASE i \in {1, 2}
    BY <1>1, <1>3, <2>1
  <2>2. CASE i \in 3..10
    <3>1. i - 2 \in 1..8 /\ 2 + (i - 2) = i
      BY <2>2
    <3>2. QED
      BY <1>5, <3>1
  <2>3. CASE i = 11
    BY <1>1, <1>3, <1>a, <2>3
  <2>4. CASE i \in 12..(11 + c)
    <3>1. i - 11 \in 1..c /\ 11 + (i - 11) = i
      BY <1>b, <2>4
    <3>2. QED
      BY <1>6, <3>1
  <2>5. CASE i = 12 + c
    BY <1>1, <1>3, <1>a, <2>5
  <2>6. CASE i \in (13 + c)..at
    <3> DEFINE m == i - 13 - c
               j == (m \div 8) + 1
               k == (m % 8) + 1
    <3>1. m \in 0..(8 * g - 1) /\ i = 12 + c + (m + 1)
      BY <1>b, <2>6
    <3> HIDE DEF m
    <3>2. j \in 1..g /\ k \in 1..8 /\ 8 * (j - 1) + k = m + 1
      BY <1>b, <3>1
    <3> HIDE DEF j, k
    <3>3. E[12 + c + (8 * (j - 1) + k)] = data[12 + c + (8 * (j - 1) + k)]
      BY <1>7, <3>2
    <3>4. QED
      BY <3>1, <3>2, <3>3
  <2>7. CASE i \in (at + 1)..Len(data)
    <3>1. i - at \in 1..(Len(data) - at) /\ at + (i - at) = i
      BY <1>b, <2>7
    <3> HIDE DEF at
    <3>2. QED
      BY <1>8, <3>1
  <2>8. i \in {1, 2} \/ i \in 3..10 \/ i = 11 \/ i \in 12..(11 + c)
        \/ i = 12 + c \/ i \in (13 + c)..at \/ i \in (at + 1)..Len(data)
    BY <1>b
  <2>9. QED
    BY <2>1, <2>2, <2>3, <2>4, <2>5, <2>6, <2>7, <2>8
<1>10. E = data
  BY <1>3, <1>4, <1>9, SeqEqual
<1>11. QED
  BY <1>1, <1>10 DEF e, E
===============================================================================
