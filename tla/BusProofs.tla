------------------------------- MODULE BusProofs -------------------------------
(***************************************************************************)
(* Proofs about Bus and the codec of its messages.                         *)
(*                                                                         *)
(* For every namespace, text and message: an invalidation survives the     *)
(* network, and a replica applies it to the very entry or tag it was       *)
(* published for.  For every number of handlers, of goroutines that        *)
(* unsubscribe them, of events and of outages: a handler is left alone     *)
(* once its unsubscribe function has returned, and what is due to it is    *)
(* not lost before.                                                        *)
(***************************************************************************)
EXTENDS Bus, SequenceTheorems, TLAPS

-----------------------------------------------------------------------------
(* The codec (EventCodec).                                                 *)

(* How many bytes more JSON may write for a text of 256, in the longest    *)
(* namespace, for its event to fit in MaxMessageBytes: 118 bytes of the    *)
(* kind that is written as six.                                            *)
MaxExtra == 592

(* What Sha must know for a key to have a physical key.                    *)
Digested(t) == Len(t.bytes) > MaxKeyBytes => t.bytes \in DOMAIN Sha

(* A record of events, names or results is none of the others.             *)
LEMMA NotRefused ==
    /\ \A t \in Text : t # Refused
    /\ \A a, b, c : [Namespace |-> a, Kind |-> b, Name |-> c] # Refused
    /\ \A a, b, c, d, e, f, g, h :
         [json |-> a, unknown |-> b, trailing |-> c, v |-> d, k |-> e,
          ns |-> f, n |-> g, bytes |-> h] # Refused
<1>1. ASSUME NEW t \in Text PROVE t # Refused
  <2>1. "bytes" \in DOMAIN t /\ "bytes" \notin DOMAIN Refused
    BY DEF Text, Refused
  <2>2. QED
    BY <2>1
<1>2. QED
  BY <1>1 DEF Refused

(* The two kinds are told apart by their names on the wire.                *)
LEMMA KindNames ==
    \A k \in DOMAIN kindNames : /\ kindNames[k] \in DOMAIN KindNamed
                                /\ KindNamed[kindNames[k]] = k
                                /\ k \in {KindKey, KindTag}
BY DEF kindNames, KindNamed, KindKey, KindTag

(* What check accepts, JSON writes and reads as it is.                     *)
LEMMA CheckedIsKept ==
    ASSUME NEW e, check(e)
    PROVE  JSON(e.Namespace) = e.Namespace /\ JSON(e.Name) = e.Name
<1>1. e.Namespace.utf8
  BY DEF check, NamespaceOK, Ascii
<1>2. QED
  BY <1>1 DEF check, validateKey, JSON

(* Decode gives back what Encode was given (bus.Encode, bus.Decode), if it *)
(* fits in MaxMessageBytes: the kinds have names of their own, and what    *)
(* JSON would mend is refused first.                                       *)
THEOREM RoundTrip ==
    ASSUME NEW ns, NEW kind, NEW name
    PROVE  LET e == [Namespace |-> ns, Kind |-> kind, Name |-> name] IN
           check(e) /\ MessageBytes(e) <= MaxMessageBytes => Decode(Encode(e)) = e
<1> DEFINE e == [Namespace |-> ns, Kind |-> kind, Name |-> name]
<1> SUFFICES ASSUME check(e), MessageBytes(e) <= MaxMessageBytes
             PROVE  Decode(Encode(e)) = e
  OBVIOUS
<1>1. JSON(ns) = ns /\ JSON(name) = name
  BY CheckedIsKept
<1>2. /\ kindNames[kind] \in DOMAIN KindNamed
      /\ KindNamed[kindNames[kind]] = kind
  BY KindNames DEF check
<1>3. Encode(e) = [json |-> TRUE, unknown |-> FALSE, trailing |-> FALSE,
                   v |-> 1, k |-> kindNames[kind], ns |-> ns, n |-> name,
                   bytes |-> MessageBytes(e)]
  BY <1>1 DEF Encode
<1> HIDE DEF e
<1>4. Decode(Encode(e)) = [Namespace |-> ns, Kind |-> kind, Name |-> name]
  BY <1>1, <1>2, <1>3 DEF Decode, e
<1>5. QED
  BY <1>4 DEF e

(* What Encode makes, Decode refuses or gives back.                        *)
LEMMA EncodedIsItself ==
    ASSUME NEW e, check(e), e = [Namespace |-> e.Namespace, Kind |-> e.Kind,
                                 Name |-> e.Name],
           Decode(Encode(e)) # Refused
    PROVE  Decode(Encode(e)) = e
<1>1. Encode(e).bytes = MessageBytes(e)
  BY DEF Encode
<1>2. MessageBytes(e) <= MaxMessageBytes
  BY <1>1 DEF Decode
<1>3. QED
  BY <1>2, RoundTrip

(* What Decode accepts is a well-formed event, whatever the network        *)
(* carried (RS-07), and Encode would encode it.                            *)
THEOREM Strict ==
    ASSUME NEW m, Decode(m) # Refused
    PROVE  check(Decode(m)) /\ Encode(Decode(m)) # Refused
<1>1. check(Decode(m))
  BY DEF Decode
<1>2. QED
  BY <1>1, NotRefused DEF Encode

-----------------------------------------------------------------------------
(* The strings the stores keep.                                            *)

LEMMA ConcatParts ==
    ASSUME NEW a \in Seq(Byte), NEW b \in Seq(Byte)
    PROVE  /\ a \o b \in Seq(Byte) /\ Len(a \o b) = Len(a) + Len(b)
           /\ Len(a) \in Nat /\ Len(b) \in Nat
           /\ \A k \in 1..Len(a) : (a \o b)[k] = a[k]
           /\ \A k \in 1..Len(b) : (a \o b)[Len(a) + k] = b[k]
<1>1. /\ a \o b \in Seq(Byte) /\ Len(a \o b) = Len(a) + Len(b)
      /\ \A i \in 1..(Len(a) + Len(b)) :
           (a \o b)[i] = IF i <= Len(a) THEN a[i] ELSE b[i - Len(a)]
  BY ConcatProperties
<1>2. Len(a) \in Nat /\ Len(b) \in Nat
  BY LenProperties
<1>3. ASSUME NEW k \in 1..Len(b) PROVE (a \o b)[Len(a) + k] = b[k]
  <2>1. /\ Len(a) + k \in 1..(Len(a) + Len(b)) /\ ~(Len(a) + k <= Len(a))
        /\ (Len(a) + k) - Len(a) = k
    BY <1>2
  <2>2. QED
    BY <1>1, <2>1
<1>4. QED
  BY <1>1, <1>2, <1>3

LEMMA Assoc ==
    ASSUME NEW a \in Seq(Byte), NEW b \in Seq(Byte), NEW c \in Seq(Byte)
    PROVE  (a \o b) \o c = a \o (b \o c)
BY ConcatAssociative

(* A namespace has no colon.                                               *)
LEMMA NamespaceParts ==
    ASSUME NEW ns, NamespaceOK(ns)
    PROVE  /\ ns.bytes \in Seq(Byte) /\ Len(ns.bytes) \in 1..64
           /\ \A k \in 1..Len(ns.bytes) : ns.bytes[k] # ":"
<1>1. NamespaceChar \subseteq Byte
  BY ByteAssumption
<1>0. ":" \notin NamespaceChar
  BY DEF NamespaceChar, Digit
<1>2. ns.bytes \in Seq(NamespaceChar)
  BY DEF NamespaceOK
<1>3. ns.bytes \in Seq(Byte)
  BY <1>1, <1>2
<1>4. \A k \in 1..Len(ns.bytes) : ns.bytes[k] \in NamespaceChar
  BY <1>2
<1>5. QED
  BY <1>0, <1>3, <1>4 DEF NamespaceOK

(* What is behind a prefix and what it tells, place by place.              *)
Placed(s, b, part, r) ==
    /\ s \in Seq(Byte) /\ Len(s) = 14 + Len(b) + Len(r)
    /\ \A k \in 1..Len(b) : s[11 + k] = b[k]
    /\ s[12 + Len(b)] = ":" /\ s[13 + Len(b)] = part
    /\ \A k \in 1..Len(r) : s[14 + Len(b) + k] = r[k]

LEMMA PrefixParts ==
    ASSUME NEW ns, NamespaceOK(ns), NEW part \in Byte, NEW r \in Seq(Byte)
    PROVE  /\ Prefix(ns, part) \in Seq(Byte)
           /\ Len(Prefix(ns, part)) = 14 + Len(ns.bytes)
           /\ Placed(Prefix(ns, part) \o r, ns.bytes, part, r)
<1> DEFINE root == <<"c", "i", "s", "t", "e", "r", "n", ":", "v", "1", ":">>
           end == <<":", part, ":">>
           b == ns.bytes
           n == Len(b)
           p1 == root \o b
           p == p1 \o end
           s == p \o r
<1>0. \A x \in {"c", "i", "s", "t", "e", "r", "n", "v", "1", ":"} : x \in Byte
  BY ByteAssumption DEF NamespaceChar, Digit
<1>1. root \in Seq(Byte) /\ Len(root) = 11
  BY <1>0
<1>2. /\ end \in Seq(Byte) /\ Len(end) = 3
      /\ end[1] = ":" /\ end[2] = part /\ end[3] = ":"
  BY <1>0
<1>3. b \in Seq(Byte) /\ n \in Nat
  BY NamespaceParts
<1>p. Prefix(ns, part) = p
  BY DEF Prefix
<1> HIDE DEF root, end, b
<1>4. /\ p1 \in Seq(Byte) /\ Len(p1) = 11 + n
      /\ \A k \in 1..n : p1[11 + k] = b[k]
  <2>1. /\ p1 \in Seq(Byte) /\ Len(p1) = Len(root) + Len(b)
        /\ \A k \in 1..Len(b) : p1[Len(root) + k] = b[k]
    BY <1>1, <1>3, ConcatParts
  <2>2. QED
    BY <1>1, <2>1
<1> HIDE DEF p1
<1>5. /\ p \in Seq(Byte) /\ Len(p) = 14 + n
      /\ \A k \in 1..(11 + n) : p[k] = p1[k]
      /\ \A k \in 1..3 : p[11 + n + k] = end[k]
  <2>1. /\ p \in Seq(Byte) /\ Len(p) = Len(p1) + Len(end)
        /\ \A k \in 1..Len(p1) : p[k] = p1[k]
        /\ \A k \in 1..Len(end) : p[Len(p1) + k] = end[k]
    BY <1>2, <1>4, ConcatParts
  <2>2. QED
    BY <1>2, <1>3, <1>4, <2>1
<1>6. /\ \A k \in 1..n : p[11 + k] = b[k]
      /\ p[12 + n] = ":" /\ p[13 + n] = part
  <2>1. \A k \in 1..n : 11 + k \in 1..(11 + n)
    BY <1>3
  <2>2. p[11 + n + 1] = ":" /\ p[11 + n + 2] = part
    BY <1>2, <1>5
  <2>3. 11 + n + 1 = 12 + n /\ 11 + n + 2 = 13 + n
    BY <1>3
  <2>4. QED
    BY <1>4, <1>5, <2>1, <2>2, <2>3
<1> HIDE DEF p
<1>7. /\ s \in Seq(Byte) /\ Len(s) = 14 + n + Len(r)
      /\ \A k \in 1..(14 + n) : s[k] = p[k]
      /\ \A k \in 1..Len(r) : s[14 + n + k] = r[k]
  <2>1. /\ s \in Seq(Byte) /\ Len(s) = Len(p) + Len(r)
        /\ \A k \in 1..Len(p) : s[k] = p[k]
        /\ \A k \in 1..Len(r) : s[Len(p) + k] = r[k]
    BY <1>5, ConcatParts
  <2>2. QED
    BY <1>5, <2>1
<1>8. /\ \A k \in 1..n : s[11 + k] = b[k]
      /\ s[12 + n] = ":" /\ s[13 + n] = part
  <2>1. /\ \A k \in 1..n : 11 + k \in 1..(14 + n)
        /\ 12 + n \in 1..(14 + n) /\ 13 + n \in 1..(14 + n)
    BY <1>3
  <2>2. QED
    BY <1>6, <1>7, <2>1
<1>9. Placed(p \o r, b, part, r)
  BY <1>7, <1>8 DEF Placed
<1>10. QED
  BY <1>p, <1>5, <1>9 DEF b

(* Namespace, kind of key and the rest can be read off a stored key: the   *)
(* first colon after the version ends the namespace.                       *)
LEMMA ReadOff ==
    ASSUME NEW ns1, NEW ns2, NamespaceOK(ns1), NamespaceOK(ns2),
           NEW p1 \in Byte, NEW p2 \in Byte,
           NEW r1 \in Seq(Byte), NEW r2 \in Seq(Byte), NEW s,
           Placed(s, ns1.bytes, p1, r1), Placed(s, ns2.bytes, p2, r2)
    PROVE  ns1.bytes = ns2.bytes /\ p1 = p2 /\ r1 = r2
<1> DEFINE b1 == ns1.bytes
           b2 == ns2.bytes
           n1 == Len(b1)
           n2 == Len(b2)
<1>1. Placed(s, b1, p1, r1) /\ Placed(s, b2, p2, r2)
  OBVIOUS
<1>3. /\ b1 \in Seq(Byte) /\ n1 \in Nat /\ \A k \in 1..n1 : b1[k] # ":"
      /\ b2 \in Seq(Byte) /\ n2 \in Nat /\ \A k \in 1..n2 : b2[k] # ":"
  BY NamespaceParts
<1>4. Len(r1) \in Nat /\ Len(r2) \in Nat
  BY LenProperties
<1> HIDE DEF b1, b2
<1>5. n1 = n2
  <2>1. ASSUME n1 < n2 PROVE FALSE
    <3>1. n1 + 1 \in 1..n2 /\ 11 + (n1 + 1) = 12 + n1
      BY <2>1, <1>3
    <3>2. s[11 + (n1 + 1)] = b2[n1 + 1] /\ s[12 + n1] = ":"
      BY <3>1, <1>1 DEF Placed
    <3>3. QED
      BY <3>1, <3>2, <1>3
  <2>2. ASSUME n2 < n1 PROVE FALSE
    <3>1. n2 + 1 \in 1..n1 /\ 11 + (n2 + 1) = 12 + n2
      BY <2>2, <1>3
    <3>2. s[11 + (n2 + 1)] = b1[n2 + 1] /\ s[12 + n2] = ":"
      BY <3>1, <1>1 DEF Placed
    <3>3. QED
      BY <3>1, <3>2, <1>3
  <2>3. QED
    BY <2>1, <2>2, <1>3
<1>6. b1 = b2
  <2>1. \A k \in 1..n1 : b1[k] = b2[k]
    BY <1>1, <1>5 DEF Placed
  <2>2. QED
    BY <2>1, <1>3, <1>5, SeqEqual
<1>7. Len(r1) = Len(r2) /\ p1 = p2
  BY <1>1, <1>3, <1>4, <1>5 DEF Placed
<1>8. r1 = r2
  <2>1. \A k \in 1..Len(r1) : r1[k] = r2[k]
    BY <1>1, <1>5, <1>7 DEF Placed
  <2>2. QED
    BY <2>1, <1>7, SeqEqual
<1>9. QED
  BY <1>6, <1>7, <1>8 DEF b1, b2

(* What physicalKey makes of a key it accepts: the text of the key, or its *)
(* digest, behind the namespace and the form.                              *)
LEMMA PhysicalKey ==
    ASSUME NEW ns, NamespaceOK(ns), NEW hash \in BOOLEAN, NEW t \in Text,
           Digested(t), physicalKey(ns, hash, t) # Refused
    PROVE  \/ /\ Len(t.bytes) <= MaxKeyBytes /\ validateKey(t)
              /\ physicalKey(ns, hash, t) = Behind(Kept(ns), t)
           \/ /\ Len(t.bytes) > MaxKeyBytes /\ t.bytes \in DOMAIN Sha
              /\ physicalKey(ns, hash, t) = Behind(Hashed(ns), Ascii(Sha[t.bytes]))
BY LenProperties DEF physicalKey, Digested, MaxKeyBytes, Text

LEMMA Digest ==
    ASSUME NEW s \in DOMAIN Sha
    PROVE  /\ Sha[s] \in Seq(Byte) /\ Sha[s] \in Seq(HexDigit)
           /\ Len(Sha[s]) = 64 /\ Ascii(Sha[s]) \in Text
<1>1. LowerHex \subseteq HexDigit /\ HexDigit \subseteq Byte
  BY ByteAssumption DEF HexDigit
<1>2. Sha[s] \in Seq(LowerHex) /\ Len(Sha[s]) = 64
  BY ShaAssumption
<1>3. Sha[s] \in Seq(Byte) /\ Sha[s] \in Seq(HexDigit)
  BY <1>1, <1>2
<1>4. QED
  BY <1>2, <1>3 DEF Ascii, Text

(* A form and what is behind it, place by place.                           *)
LEMMA FormParts ==
    ASSUME NEW f \in {"k", "h"}, NEW ns, NamespaceOK(ns), NEW b \in Seq(Byte)
    PROVE  LET p == Prefix(ns, "-") \o <<f, ":">>
               r == <<f, ":">> \o b
           IN /\ p \in Seq(Byte) /\ Len(p) = 16 + Len(ns.bytes)
              /\ p \o b = Prefix(ns, "-") \o r
              /\ r \in Seq(Byte) /\ Len(r) = 2 + Len(b) /\ r[1] = f
              /\ \A k \in 1..Len(b) : r[2 + k] = b[k]
<1> DEFINE q == Prefix(ns, "-")
           g == <<f, ":">>
<1>1. f \in Byte /\ ":" \in Byte /\ "-" \in Byte
  BY ByteAssumption DEF NamespaceChar
<1>2. g \in Seq(Byte) /\ Len(g) = 2 /\ g[1] = f
  BY <1>1
<1>3. q \in Seq(Byte) /\ Len(q) = 14 + Len(ns.bytes)
  <2>1. << >> \in Seq(Byte)
    OBVIOUS
  <2>2. QED
    BY <1>1, <2>1, PrefixParts
<1>4. Len(ns.bytes) \in Nat
  BY NamespaceParts
<1> HIDE DEF q, g
<1>5. (q \o g) \o b = q \o (g \o b)
  BY <1>2, <1>3, Assoc
<1>6. q \o g \in Seq(Byte) /\ Len(q \o g) = 16 + Len(ns.bytes)
  <2>1. q \o g \in Seq(Byte) /\ Len(q \o g) = Len(q) + Len(g)
    BY <1>2, <1>3, ConcatParts
  <2>2. QED
    BY <1>2, <1>3, <1>4, <2>1
<1>7. /\ g \o b \in Seq(Byte) /\ Len(g \o b) = Len(g) + Len(b)
      /\ \A k \in 1..Len(g) : (g \o b)[k] = g[k]
      /\ \A k \in 1..Len(b) : (g \o b)[Len(g) + k] = b[k]
  BY <1>2, ConcatParts
<1>8. QED
  BY <1>2, <1>5, <1>6, <1>7 DEF q, g

(* A stored key s: r behind the prefix, r being the form f, a colon and b, *)
(* which is the key or its digest.                                         *)
StoredKey(s, ns, t, f, b, r) ==
    /\ s = Prefix(ns, "-") \o r
    /\ r[1] = f /\ Len(r) = 2 + Len(b) /\ \A k \in 1..Len(b) : r[2 + k] = b[k]
    /\ f = "k" => b = t.bytes
    /\ f = "h" => t.bytes \in DOMAIN Sha /\ b = Sha[t.bytes]

LEMMA StoredAs ==
    ASSUME NEW ns, NamespaceOK(ns), NEW h \in BOOLEAN, NEW t \in Text,
           Digested(t), physicalKey(ns, h, t) # Refused
    PROVE  \E f \in {"k", "h"}, b \in Seq(Byte), r \in Seq(Byte) :
             StoredKey(physicalKey(ns, h, t).bytes, ns, t, f, b, r)
<1>1. CASE physicalKey(ns, h, t) = Behind(Kept(ns), t)
  <2> DEFINE b == t.bytes
             r == <<"k", ":">> \o b
  <2>1. b \in Seq(Byte)
    BY DEF Text
  <2>2. physicalKey(ns, h, t).bytes = (Prefix(ns, "-") \o <<"k", ":">>) \o b
    BY <1>1 DEF Behind, Kept, Text
  <2> HIDE DEF b
  <2>3. /\ physicalKey(ns, h, t).bytes = Prefix(ns, "-") \o r
        /\ r \in Seq(Byte) /\ r[1] = "k" /\ Len(r) = 2 + Len(b)
        /\ \A k \in 1..Len(b) : r[2 + k] = b[k]
    BY <2>1, <2>2, FormParts
  <2> HIDE DEF r
  <2>4. StoredKey(physicalKey(ns, h, t).bytes, ns, t, "k", b, r)
    BY <2>3 DEF StoredKey, b
  <2>5. QED
    BY <2>1, <2>3, <2>4
<1>2. CASE /\ t.bytes \in DOMAIN Sha
           /\ physicalKey(ns, h, t) = Behind(Hashed(ns), Ascii(Sha[t.bytes]))
  <2> DEFINE b == Sha[t.bytes]
             r == <<"h", ":">> \o b
  <2>1. b \in Seq(Byte)
    BY <1>2, Digest
  <2>2. physicalKey(ns, h, t).bytes = (Prefix(ns, "-") \o <<"h", ":">>) \o b
    BY <1>2 DEF Behind, Hashed, Ascii
  <2> HIDE DEF b
  <2>3. /\ physicalKey(ns, h, t).bytes = Prefix(ns, "-") \o r
        /\ r \in Seq(Byte) /\ r[1] = "h" /\ Len(r) = 2 + Len(b)
        /\ \A k \in 1..Len(b) : r[2 + k] = b[k]
    BY <2>1, <2>2, FormParts
  <2> HIDE DEF r
  <2>4. StoredKey(physicalKey(ns, h, t).bytes, ns, t, "h", b, r)
    BY <1>2, <2>3 DEF StoredKey, b
  <2>5. QED
    BY <2>1, <2>3, <2>4
<1>3. QED
  BY <1>1, <1>2, PhysicalKey

(* Two keys share a physical key only in one namespace and if they are the *)
(* same, or both hashed and of one digest: whatever their characters, no   *)
(* invalidation drops, and no read serves, the entry of another (keys.go,  *)
(* New, ADR-0008).                                                         *)
THEOREM KeysNeverShare ==
    ASSUME NEW ns1, NamespaceOK(ns1), NEW ns2, NamespaceOK(ns2),
           NEW h1 \in BOOLEAN, NEW h2 \in BOOLEAN,
           NEW t1 \in Text, NEW t2 \in Text, Digested(t1), Digested(t2),
           physicalKey(ns1, h1, t1) # Refused,
           physicalKey(ns2, h2, t2) # Refused,
           physicalKey(ns1, h1, t1).bytes = physicalKey(ns2, h2, t2).bytes
    PROVE  /\ ns1.bytes = ns2.bytes
           /\ \/ t1.bytes = t2.bytes
              \/ /\ {t1.bytes, t2.bytes} \subseteq DOMAIN Sha
                 /\ Sha[t1.bytes] = Sha[t2.bytes]
<1> DEFINE s == physicalKey(ns1, h1, t1).bytes
<1>1. PICK f1 \in {"k", "h"}, b1 \in Seq(Byte), r1 \in Seq(Byte) :
        StoredKey(s, ns1, t1, f1, b1, r1)
  BY StoredAs
<1>2. PICK f2 \in {"k", "h"}, b2 \in Seq(Byte), r2 \in Seq(Byte) :
        StoredKey(s, ns2, t2, f2, b2, r2)
  BY StoredAs
<1> HIDE DEF s
<1>3. "-" \in Byte
  BY ByteAssumption DEF NamespaceChar
<1>4. ns1.bytes = ns2.bytes /\ r1 = r2
  <2>1. Placed(s, ns1.bytes, "-", r1) /\ Placed(s, ns2.bytes, "-", r2)
    BY <1>1, <1>2, <1>3, PrefixParts DEF StoredKey
  <2>2. QED
    BY <1>3, <2>1, ReadOff
<1>5. f1 = f2
  BY <1>1, <1>2, <1>4 DEF StoredKey
<1>6. b1 = b2
  <2>1. Len(b1) \in Nat /\ Len(b2) \in Nat
    BY LenProperties
  <2>2. Len(b1) = Len(b2)
    BY <1>1, <1>2, <1>4, <2>1 DEF StoredKey
  <2>3. \A k \in 1..Len(b1) : b1[k] = b2[k]
    BY <1>1, <1>2, <1>4, <2>2 DEF StoredKey
  <2>4. QED
    BY <2>2, <2>3, SeqEqual
<1>7. QED
  BY <1>1, <1>2, <1>4, <1>5, <1>6 DEF StoredKey

(* Two tags share a counter only in one namespace and if they are the same *)
(* (genKey, ADR-0005).                                                     *)
THEOREM CountersNeverShare ==
    ASSUME NEW ns1, NamespaceOK(ns1), NEW ns2, NamespaceOK(ns2),
           NEW t1 \in Text, NEW t2 \in Text,
           genKey(ns1, t1) # Refused, genKey(ns2, t2) # Refused,
           genKey(ns1, t1).bytes = genKey(ns2, t2).bytes
    PROVE  ns1.bytes = ns2.bytes /\ t1.bytes = t2.bytes
<1>1. "g" \in Byte /\ t1.bytes \in Seq(Byte) /\ t2.bytes \in Seq(Byte)
  BY ByteAssumption DEF NamespaceChar, Text
<1>2. /\ genKey(ns1, t1).bytes = Prefix(ns1, "g") \o t1.bytes
      /\ genKey(ns2, t2).bytes = Prefix(ns2, "g") \o t2.bytes
  BY DEF genKey, Behind, Text
<1> DEFINE s == genKey(ns1, t1).bytes
           b1 == t1.bytes
           b2 == t2.bytes
<1>3. Placed(s, ns1.bytes, "g", b1) /\ Placed(s, ns2.bytes, "g", b2)
  BY <1>1, <1>2, PrefixParts
<1>4. b1 \in Seq(Byte) /\ b2 \in Seq(Byte)
  BY <1>1
<1> HIDE DEF s, b1, b2
<1>5. ns1.bytes = ns2.bytes /\ b1 = b2
  BY <1>1, <1>3, <1>4, ReadOff
<1>6. QED
  BY <1>5 DEF b1, b2

(* No counter is kept under the key of an entry, although one store may    *)
(* hold both (New: prefix and genPrefix, ADR-0008 as amended by ADR-0005). *)
THEOREM EntryIsNoCounter ==
    ASSUME NEW ns1, NamespaceOK(ns1), NEW ns2, NamespaceOK(ns2),
           NEW h \in BOOLEAN, NEW t1 \in Text, NEW t2 \in Text, Digested(t1),
           physicalKey(ns1, h, t1) # Refused, genKey(ns2, t2) # Refused
    PROVE  physicalKey(ns1, h, t1).bytes # genKey(ns2, t2).bytes
<1> SUFFICES ASSUME physicalKey(ns1, h, t1).bytes = genKey(ns2, t2).bytes
             PROVE  FALSE
  OBVIOUS
<1>1. "g" \in Byte /\ "-" \in Byte /\ t2.bytes \in Seq(Byte)
  BY ByteAssumption DEF NamespaceChar, Text
<1>2. genKey(ns2, t2).bytes = Prefix(ns2, "g") \o t2.bytes
  BY DEF genKey, Behind, Text
<1>3. PICK f \in {"k", "h"}, b \in Seq(Byte), r \in Seq(Byte) :
        StoredKey(physicalKey(ns1, h, t1).bytes, ns1, t1, f, b, r)
  BY StoredAs
<1> DEFINE s == genKey(ns2, t2).bytes
           b2 == t2.bytes
<1>4. Placed(s, ns1.bytes, "-", r) /\ Placed(s, ns2.bytes, "g", b2)
  BY <1>1, <1>2, <1>3, PrefixParts DEF StoredKey
<1>5. b2 \in Seq(Byte)
  BY <1>1
<1> HIDE DEF s, b2
<1>6. "-" = "g"
  BY <1>1, <1>4, <1>5, ReadOff
<1>7. QED
  BY <1>6

(* What is behind a prefix is found again (strings.CutPrefix).             *)
LEMMA Cut ==
    ASSUME NEW p \in Seq(Byte), NEW b \in Seq(Byte)
    PROVE  IsPrefix(p, p \o b) /\ SubSeq(p \o b, Len(p) + 1, Len(p \o b)) = b
<1> DEFINE s == p \o b
           m == Len(p)
           n == Len(b)
<1>1. /\ s \in Seq(Byte) /\ Len(s) = m + n /\ m \in Nat /\ n \in Nat
      /\ \A k \in 1..m : s[k] = p[k]
      /\ \A k \in 1..n : s[m + k] = b[k]
  BY ConcatParts
<1> HIDE DEF s
<1>2. SubSeq(s, 1, m) = p
  <2>1. \A i \in 1..m : s[i] \in Byte
    BY <1>1
  <2>2. /\ SubSeq(s, 1, m) \in Seq(Byte) /\ Len(SubSeq(s, 1, m)) = m
        /\ \A i \in 1..m : SubSeq(s, 1, m)[i] = s[i]
    BY <1>1, <2>1, SubSeqProperties
  <2>3. QED
    BY <1>1, <2>2, SeqEqual
<1>3. SubSeq(p, 1, m) = p
  BY SubSeqFull
<1>4. SubSeq(s, m + 1, m + n) = b
  <2>1. \A i \in (m + 1)..(m + n) : s[i] \in Byte
    BY <1>1
  <2>2. /\ SubSeq(s, m + 1, m + n) \in Seq(Byte)
        /\ Len(SubSeq(s, m + 1, m + n)) = n
        /\ \A i \in 1..n : SubSeq(s, m + 1, m + n)[i] = s[m + i]
    BY <1>1, <2>1, SubSeqProperties
  <2>3. QED
    BY <1>1, <2>2, SeqEqual
<1>5. QED
  BY <1>1, <1>2, <1>3, <1>4 DEF IsPrefix, s

LEMMA AfterBehind ==
    ASSUME NEW p \in Seq(Byte), NEW t \in Text
    PROVE  /\ Behind(p, t) \in Text /\ IsPrefix(p, Behind(p, t).bytes)
           /\ After(p, Behind(p, t)) = t
           /\ Len(Behind(p, t).bytes) = Len(p) + Len(t.bytes)
           /\ Behind(p, t).extra = t.extra
           /\ validateKey(t) => validateKey(Behind(p, t))
<1>1. t.bytes \in Seq(Byte) /\ Len(t.bytes) \in Nat
  BY DEF Text
<1>2. /\ p \o t.bytes \in Seq(Byte) /\ Len(p \o t.bytes) = Len(p) + Len(t.bytes)
      /\ Len(p) \in Nat
  BY <1>1, ConcatParts
<1>3. /\ IsPrefix(p, p \o t.bytes)
      /\ SubSeq(p \o t.bytes, Len(p) + 1, Len(p \o t.bytes)) = t.bytes
  BY <1>1, Cut
<1>4. /\ Behind(p, t) \in Text /\ Behind(p, t).bytes = p \o t.bytes
      /\ Behind(p, t).extra = t.extra /\ Behind(p, t).utf8 = t.utf8
      /\ Behind(p, t).control = t.control
  BY <1>2 DEF Behind, Text
<1>5. After(p, Behind(p, t)) = t
  <2>1. After(p, Behind(p, t))
          = [[t EXCEPT !.bytes = p \o t.bytes] EXCEPT !.bytes = t.bytes]
    BY <1>3, <1>4 DEF After, Behind
  <2>2. QED
    BY <2>1 DEF Text
<1>6. validateKey(t) => validateKey(Behind(p, t))
  <2>1. SUFFICES ASSUME validateKey(t) PROVE p \o t.bytes # << >>
    BY <1>4 DEF validateKey
  <2>2. Len(t.bytes) # 0
    BY <2>1, <1>1, EmptySeq DEF validateKey
  <2>3. Len(p \o t.bytes) # 0
    BY <1>1, <1>2, <2>2
  <2>4. QED
    BY <2>3
<1>7. QED
  BY <1>2, <1>3, <1>4, <1>5, <1>6

(* Sixteen bytes, a namespace and a key or a digest.                       *)
LEMMA NameFits ==
    ASSUME NEW n \in 1..64, NEW k \in Nat, k <= 256, NEW l, l = (16 + n) + k
    PROVE  l \in Nat /\ l <= 336
OBVIOUS

(* And a message: 32 bytes, a namespace, a name and what JSON adds.        *)
LEMMA MessageFits ==
    ASSUME NEW e, NEW n, e.Namespace = n, Len(n.bytes) \in 1..64,
           Len(e.Name.bytes) \in Nat, Len(e.Name.bytes) <= 336,
           e.Name.extra \in Nat, e.Name.extra <= MaxExtra
    PROVE  MessageBytes(e) <= MaxMessageBytes
<1> DEFINE a == Len(n.bytes)
           b == Len(e.Name.bytes)
           c == e.Name.extra
<1>1. a \in 1..64 /\ b \in Nat /\ b <= 336 /\ c \in Nat /\ c <= 592
  BY DEF MaxExtra
<1>2. MessageBytes(e) = 32 + a + b + c
  BY DEF MessageBytes
<1> HIDE DEF a, b, c
<1>3. QED
  BY <1>1, <1>2 DEF MaxMessageBytes

(* The name of an event that check accepts and a message can hold, for any *)
(* accepted key: what is kept is at most 16 bytes, the namespace and 256.  *)
LEMMA NameOfKey ==
    ASSUME NEW ns, NamespaceOK(ns), NEW hash \in BOOLEAN, NEW t \in Text,
           t.extra <= MaxExtra, Digested(t), physicalKey(ns, hash, t) # Refused
    PROVE  LET pk == physicalKey(ns, hash, t) IN
           /\ validateKey(pk) /\ eventKey(ns, pk)
           /\ Len(pk.bytes) \in Nat /\ Len(pk.bytes) <= 336
           /\ pk.extra \in Nat /\ pk.extra <= MaxExtra
<1> DEFINE pk == physicalKey(ns, hash, t)
<1>1. /\ \A f \in {"k", "h"} :
           /\ Prefix(ns, "-") \o <<f, ":">> \in Seq(Byte)
           /\ Len(Prefix(ns, "-") \o <<f, ":">>) = 16 + Len(ns.bytes)
      /\ Len(ns.bytes) \in 1..64
  <2>1. << >> \in Seq(Byte)
    OBVIOUS
  <2>2. QED
    BY <2>1, FormParts, NamespaceParts
<1>2. \/ /\ Len(t.bytes) <= MaxKeyBytes /\ validateKey(t)
         /\ pk = Behind(Kept(ns), t)
      \/ /\ t.bytes \in DOMAIN Sha
         /\ pk = Behind(Hashed(ns), Ascii(Sha[t.bytes]))
  BY PhysicalKey
<1> HIDE DEF pk
<1>3. CASE /\ Len(t.bytes) <= MaxKeyBytes /\ validateKey(t)
           /\ pk = Behind(Kept(ns), t)
  <2>1. Kept(ns) \in Seq(Byte) /\ Len(Kept(ns)) = 16 + Len(ns.bytes)
    BY <1>1 DEF Kept
  <2>2. /\ validateKey(pk) /\ IsPrefix(Kept(ns), pk.bytes)
        /\ After(Kept(ns), pk) = t /\ pk.extra = t.extra
        /\ Len(pk.bytes) = Len(Kept(ns)) + Len(t.bytes)
    BY <1>3, <2>1, AfterBehind
  <2>3. Len(t.bytes) \in Nat /\ t.extra \in Nat /\ Len(t.bytes) <= 256
    BY <1>3, LenProperties DEF Text, MaxKeyBytes
  <2>4. Len(pk.bytes) \in Nat /\ Len(pk.bytes) <= 336
    <3>1. Len(pk.bytes) = (16 + Len(ns.bytes)) + Len(t.bytes)
      BY <2>1, <2>2, Zenon
    <3>2. Len(ns.bytes) \in 1..64 /\ Len(t.bytes) \in Nat /\ Len(t.bytes) <= 256
      BY <1>1, <2>3
    <3> DEFINE l == Len(pk.bytes)
               n == Len(ns.bytes)
               k == Len(t.bytes)
    <3>3. l = (16 + n) + k /\ n \in 1..64 /\ k \in Nat /\ k <= 256
      BY <3>1, <3>2
    <3> HIDE DEF l, n, k
    <3>4. l \in Nat /\ l <= 336
      BY <3>3, NameFits
    <3>5. QED
      BY <3>4 DEF l
  <2>5. eventKey(ns, pk)
    BY <1>3, <2>2 DEF eventKey
  <2>6. QED
    BY <2>2, <2>3, <2>4, <2>5 DEF pk
<1>4. CASE /\ t.bytes \in DOMAIN Sha
           /\ pk = Behind(Hashed(ns), Ascii(Sha[t.bytes]))
  <2> DEFINE u == Ascii(Sha[t.bytes])
  <2>1. Hashed(ns) \in Seq(Byte) /\ Len(Hashed(ns)) = 16 + Len(ns.bytes)
    BY <1>1 DEF Hashed
  <2>2. /\ u \in Text /\ u.bytes \in Seq(HexDigit) /\ Len(u.bytes) = 64
        /\ u.extra = 0 /\ u.utf8 /\ ~u.control
    BY <1>4, Digest DEF Ascii
  <2>3. pk = Behind(Hashed(ns), u)
    BY <1>4
  <2> HIDE DEF u
  <2>4. validateKey(u)
    <3>1. u.bytes # << >>
      <4>1. Len(u.bytes) # 0
        BY <2>2
      <4>2. QED
        BY <2>2, <4>1, EmptySeq
    <3>2. QED
      BY <2>2, <3>1 DEF validateKey
  <2>5. /\ validateKey(pk) /\ IsPrefix(Hashed(ns), pk.bytes)
        /\ After(Hashed(ns), pk) = u /\ pk.extra = u.extra
        /\ Len(pk.bytes) = Len(Hashed(ns)) + Len(u.bytes)
    BY <2>1, <2>2, <2>3, <2>4, AfterBehind
  <2>6. Len(pk.bytes) \in Nat /\ Len(pk.bytes) <= 336
    <3>1. 64 \in Nat /\ 64 <= 256
      OBVIOUS
    <3>2. Len(pk.bytes) = (16 + Len(ns.bytes)) + 64
      BY <2>1, <2>2, <2>5, Zenon
    <3>3. QED
      BY <1>1, <3>1, <3>2, NameFits
  <2>7. eventKey(ns, pk)
    BY <2>2, <2>5, Zenon DEF eventKey
  <2>8. QED
    BY <2>2, <2>5, <2>6, <2>7 DEF MaxExtra, pk
<1>5. QED
  BY <1>2, <1>3, <1>4 DEF pk

(* Delete's event removes, from a replica with an L1 and of the same       *)
(* namespace, the entry of the key it was published for and nothing else,  *)
(* hashed or not, if the key is one JSON does not swell beyond MaxExtra    *)
(* (onEvent, eventKey, RF-12).                                             *)
THEOREM KeyInvalidationApplies ==
    ASSUME NEW ns, NamespaceOK(ns), NEW hash \in BOOLEAN, NEW t \in Text,
           t.extra <= MaxExtra, Digested(t), physicalKey(ns, hash, t) # Refused,
           NEW levels, "L1" \in levels, NEW tagged \in BOOLEAN
    PROVE  LET e == KeyEvent(ns, physicalKey(ns, hash, t)) IN
           onEvent(ns, levels, tagged, Decode(Encode(e)))
             = [does |-> "delete", of |-> physicalKey(ns, hash, t)]
<1> DEFINE pk == physicalKey(ns, hash, t)
           e == KeyEvent(ns, pk)
<1>1. /\ validateKey(pk) /\ eventKey(ns, pk)
      /\ Len(pk.bytes) \in Nat /\ Len(pk.bytes) <= 336
      /\ pk.extra \in Nat /\ pk.extra <= MaxExtra
  BY NameOfKey
<1>2. Len(ns.bytes) \in 1..64
  BY NamespaceParts
<1> HIDE DEF pk
<1>3. e.Namespace = ns /\ e.Kind = KindKey /\ e.Name = pk
  BY DEF KeyEvent
<1> HIDE DEF e
<1>4. check(e)
  BY <1>1, <1>3 DEF check, kindNames, KindKey
<1>5. MessageBytes(e) <= MaxMessageBytes
  BY <1>1, <1>2, <1>3, MessageFits
<1>6. Decode(Encode(e)) = e
  BY <1>4, <1>5, RoundTrip DEF KeyEvent, e
<1>7. onEvent(ns, levels, tagged, e) = [does |-> "delete", of |-> pk]
  <2> DEFINE here == /\ e.Namespace = ns /\ e.Kind = KindKey
                     /\ "L1" \in levels /\ eventKey(ns, e.Name)
             tag == /\ e.Namespace = ns /\ e.Kind = KindTag /\ tagged
                    /\ genKey(ns, e.Name) # Refused
  <2>1. here /\ ~tag
    BY <1>1, <1>3 DEF KindKey, KindTag
  <2>2. QED
    BY <1>3, <2>1 DEF onEvent
<1>8. QED
  BY <1>6, <1>7 DEF e, pk

(* InvalidateTag's event makes a replica of the same namespace drop its    *)
(* copy of that very tag's generation, or advance the one it alone keeps;  *)
(* one without an L1 has neither (onEvent, RF-12).                         *)
THEOREM TagInvalidationApplies ==
    ASSUME NEW ns, NamespaceOK(ns), NEW t \in Text, t.extra <= MaxExtra,
           genKey(ns, t) # Refused,
           NEW levels \in {{"L1"}, {"L2"}, {"L1", "L2"}}
    PROVE  LET does == onEvent(ns, levels, TRUE, Decode(Encode(TagEvent(ns, t))))
           IN  /\ levels = {"L1", "L2"} => does = [does |-> "drop", of |-> genKey(ns, t)]
               /\ levels = {"L1"} => does = [does |-> "bump", of |-> genKey(ns, t)]
               /\ levels = {"L2"} => does = Nothing
<1> DEFINE e == TagEvent(ns, t)
<1>1. /\ validateKey(t) /\ Len(t.bytes) <= 256 /\ Len(t.bytes) \in Nat
      /\ t.extra \in Nat
  BY DEF genKey, MaxKeyBytes, Text
<1>2. Len(ns.bytes) \in 1..64
  BY NamespaceParts
<1>3. e.Namespace = ns /\ e.Kind = KindTag /\ e.Name = t
  BY DEF TagEvent
<1> HIDE DEF e
<1>4. check(e)
  BY <1>1, <1>3 DEF check, kindNames, KindTag
<1>5. MessageBytes(e) <= MaxMessageBytes
  BY <1>1, <1>2, <1>3, MessageFits
<1>6. Decode(Encode(e)) = e
  BY <1>4, <1>5, RoundTrip DEF TagEvent, e
<1>7. e.Kind # KindKey
  BY <1>3 DEF KindKey, KindTag
<1>8. /\ levels = {"L1", "L2"} =>
           onEvent(ns, levels, TRUE, e) = [does |-> "drop", of |-> genKey(ns, t)]
      /\ levels = {"L1"} =>
           onEvent(ns, levels, TRUE, e) = [does |-> "bump", of |-> genKey(ns, t)]
      /\ levels = {"L2"} => onEvent(ns, levels, TRUE, e) = Nothing
  <2>1. /\ {"L1"} # {"L1", "L2"} /\ {"L2"} # {"L1", "L2"} /\ {"L1"} # {"L2"}
    <3>1. "L1" # "L2"
      OBVIOUS
    <3>2. QED
      BY <3>1
  <2>2. QED
    BY <1>3, <1>7, <2>1 DEF onEvent
<1>9. QED
  BY <1>6, <1>8 DEF e

-----------------------------------------------------------------------------
(* The handlers (Bus).                                                     *)
(* The types the proof needs.                                              *)
Typed ==
    /\ scenario \in Scenarios
    /\ sub \in [Sub -> {"new", "asking", "on"}]
    /\ once \in [Sub -> {"unused", "running", "done"}]
    /\ closer \in [Closer -> {"idle", "running", "blocked", "returned"}]
    /\ loop \in [Sub -> {"off", "ready", "handling", "ended"}]
    /\ heard = [s \in Sub |-> heard[s]]
    /\ gone \in [EventId -> SUBSET Sub] /\ todo \in [EventId -> SUBSET Sub]
    /\ next \in Nat /\ id \in [Sub -> Nat]
    /\ subs = [i \in DOMAIN subs |-> subs[i]]

(* An unsubscribe function is used only after Subscribe has returned it,   *)
(* and one that has returned has run, or waited for the one that did.      *)
OnceInv ==
    /\ \A s \in Sub : once[s] # "unused" => sub[s] = "on"
    /\ \A c \in Closer :
         /\ closer[c] # "idle" => once[ClosesOf[c]] # "unused"
         /\ closer[c] = "returned" => once[ClosesOf[c]] = "done"

(* The goroutine starts with the end of Subscribe, and has ended when      *)
(* unsubscribe is done without giving up.                                  *)
LoopInv ==
    \A s \in Sub :
      /\ sub[s] # "on" => loop[s] = "off"
      /\ Redis /\ once[s] = "done" /\ s \notin timedOut => loop[s] = "ended"

(* Local keeps each handler under the id it was given, and none that is    *)
(* unsubscribed.                                                           *)
IdsInv ==
    Local =>
      /\ \A i \in DOMAIN subs :
           /\ i \in Nat /\ i < next /\ subs[i] \in Sub
           /\ sub[subs[i]] = "on" /\ id[subs[i]] = i
           /\ once[subs[i]] # "done"
      /\ \A s \in Sub : sub[s] # "asking" /\ loop[s] = "off"

(* Nothing is heard before it is published, and what was published too     *)
(* late for a handler is not on its way to it.                             *)
HeardInv ==
    Local =>
      /\ \A s \in Sub : \A e \in EventId :
           Event[e] \in heard[s] => e \in published
      /\ \A e \in EventId : \A s \in Sub :
           /\ s \in todo[e] => e \in published
           /\ s \in gone[e] => /\ e \in published
                               /\ s \notin todo[e]
                               /\ Event[e] \notin heard[s]

BusInv == Typed /\ OnceInv /\ LoopInv /\ IdsInv /\ HeardInv

-----------------------------------------------------------------------------
LEMMA InitInv == Init => BusInv
BY BusAssumption
DEF Init, BusInv, Typed, OnceInv, LoopInv, IdsInv, HeardInv, Local, Redis,
    EventId

(* What an action may leave alone for the invariant to be left alone.      *)
quiet == <<scenario, sub, once, closer, loop, timedOut, heard, gone, todo,
           next, id, subs, published>>

LEMMA Quiet == BusInv /\ UNCHANGED quiet => BusInv'
<1> SUFFICES ASSUME BusInv, UNCHANGED quiet PROVE BusInv'
  OBVIOUS
<1>1. Typed'
  BY DEF BusInv, Typed, quiet
<1>2. OnceInv'
  BY DEF BusInv, OnceInv, quiet
<1>3. LoopInv'
  BY DEF BusInv, LoopInv, Redis, quiet
<1>4. IdsInv'
  BY DEF BusInv, IdsInv, Local, quiet
<1>5. HeardInv'
  BY DEF BusInv, HeardInv, Local, quiet
<1>6. QED
  BY <1>1, <1>2, <1>3, <1>4, <1>5 DEF BusInv

(* Subscribing to Local: under an id no other handler has.                 *)
LEMMA StepSubscribeLocal ==
    ASSUME BusInv, NEW s \in Sub, SubscribeLocal(s)
    PROVE  BusInv'
<1> USE DEF BusInv, SubscribeLocal, AddLocal, unsubVars, eventVars, redisVars
<1>1. subs' = [i \in DOMAIN subs \union {next} |->
                 IF i = next THEN s ELSE subs[i]]
  OBVIOUS
<1>2. Typed'
  BY <1>1 DEF Typed
<1>3. OnceInv' /\ LoopInv' /\ HeardInv'
  BY DEF Typed, OnceInv, LoopInv, IdsInv, HeardInv, Local, Redis
<1>4. IdsInv'
  <2>1. \A i \in DOMAIN subs : subs[i] # s /\ i # next
    BY DEF Typed, IdsInv, Local
  <2>2. once[s] = "unused" /\ Local
    BY DEF Typed, OnceInv
  <2>3. \A t \in Sub : sub'[t] # "asking" /\ loop'[t] = "off"
    BY <2>2 DEF Typed, IdsInv
  <2>4. QED
    BY <1>1, <2>1, <2>2, <2>3 DEF Typed, IdsInv, Local
<1>5. QED
  BY <1>2, <1>3, <1>4

(* Publishing to Local: no handler that unsubscribe has removed is called. *)
LEMMA StepPublishLocal ==
    ASSUME BusInv, NEW e \in EventId, PublishLocal(e)
    PROVE  BusInv'
<1> USE DEF BusInv, PublishLocal, Note, unsubVars, redisVars
<1>1. Range(subs) \subseteq Sub
  BY DEF IdsInv, Range
<1>2. Typed'
  BY <1>1 DEF Typed
<1>3. OnceInv' /\ LoopInv' /\ IdsInv'
  BY DEF OnceInv, LoopInv, IdsInv, Local, Redis
<1>4. \A s \in gone'[e] : s \notin Range(subs)
  BY DEF Typed, Unsubscribed, OnceInv, IdsInv, Range
<1>5. HeardInv'
  BY <1>4 DEF Typed, HeardInv, Local
<1>6. QED
  BY <1>2, <1>3, <1>5

LEMMA StepCallHandler ==
    ASSUME BusInv, NEW e \in EventId, NEW s \in Sub, CallHandler(e, s)
    PROVE  BusInv'
<1> USE DEF BusInv, CallHandler, Hear, unsubVars, eventVars, redisVars
<1>1. Typed' /\ OnceInv' /\ LoopInv' /\ IdsInv'
  <2>1. Typed'
    BY DEF Typed
  <2>2. OnceInv' /\ LoopInv' /\ IdsInv'
    BY DEF OnceInv, LoopInv, IdsInv, Local, Redis
  <2>3. QED
    BY <2>1, <2>2
<1>2. heard'[s] = heard[s] \union {Event[e]}
      /\ \A t \in Sub \ {s} : heard'[t] = heard[t]
  BY DEF Typed
<1>3. HeardInv'
  BY <1>2, BusAssumption DEF Typed, HeardInv, Local, EventId
<1>4. QED
  BY <1>1, <1>3

-----------------------------------------------------------------------------
(* Unsubscribing: a second caller of the function waits.                   *)
LEMMA StepBeginUnsubscribe ==
    ASSUME BusInv, NEW c \in Closer, BeginUnsubscribe(c)
    PROVE  BusInv'
<1> USE DEF BusInv, BeginUnsubscribe, CallUnsubscribe, eventVars, localVars
<1>1. ClosesOf[c] \in Sub
  BY BusAssumption
<1>2. Typed' /\ OnceInv'
  BY <1>1, BusAssumption DEF Typed, OnceInv
<1>3. LoopInv' /\ IdsInv' /\ HeardInv'
  BY <1>1 DEF Typed, LoopInv, IdsInv, HeardInv, Local, Redis
<1>4. QED
  BY <1>2, <1>3

(* What every way of finishing keeps.                                      *)
LEMMA StepFinish ==
    ASSUME Typed, OnceInv, NEW c \in Closer, Finish(c),
           UNCHANGED <<scenario, sub, heard, eventVars, next, id, todo, loop>>,
           subs' = [i \in DOMAIN subs' |-> subs'[i]]
    PROVE  /\ Typed' /\ OnceInv' /\ ClosesOf[c] \in Sub
           /\ sub[ClosesOf[c]] = "on"
           /\ once' = [once EXCEPT ![ClosesOf[c]] = "done"]
<1>1. ClosesOf[c] \in Sub
  BY BusAssumption
<1>2. Typed' /\ OnceInv'
  BY <1>1, BusAssumption DEF Typed, OnceInv, Finish, eventVars
<1>3. QED
  BY <1>1, <1>2 DEF Typed, OnceInv, Finish

LEMMA StepRemoveLocal ==
    ASSUME BusInv, NEW c \in Closer, RemoveLocal(c)
    PROVE  BusInv'
<1> USE DEF BusInv, RemoveLocal, redisVars
<1>1. subs' = [i \in DOMAIN subs \ {id[ClosesOf[c]]} |-> subs[i]]
  BY DEF Restrict
<1>2. /\ Typed' /\ OnceInv' /\ ClosesOf[c] \in Sub
      /\ sub[ClosesOf[c]] = "on"
      /\ once' = [once EXCEPT ![ClosesOf[c]] = "done"]
  BY <1>1, StepFinish
<1>3. LoopInv' /\ HeardInv'
  BY <1>2 DEF LoopInv, HeardInv, Local, Redis, eventVars
<1>4. IdsInv'
  <2>1. \A i \in DOMAIN subs' : /\ i \in DOMAIN subs /\ subs'[i] = subs[i]
                               /\ subs[i] # ClosesOf[c]
    BY <1>1 DEF IdsInv
  <2>2. \A s \in Sub : s # ClosesOf[c] => once'[s] = once[s]
    BY <1>2 DEF Typed
  <2>3. QED
    BY <2>1, <2>2 DEF IdsInv, Local
<1>5. QED
  BY <1>2, <1>3, <1>4

LEMMA StepStopped ==
    ASSUME BusInv, NEW c \in Closer, Stopped(c) \/ TimerFires(c)
    PROVE  BusInv'
<1> USE DEF BusInv
<1>1. /\ Finish(c) /\ Redis
      /\ UNCHANGED <<scenario, sub, heard, eventVars, next, id, todo, loop, subs>>
      /\ \/ loop[ClosesOf[c]] = "ended" /\ timedOut' = timedOut
         \/ timedOut' = timedOut \union {ClosesOf[c]}
  BY DEF Stopped, TimerFires, localVars, redisVars
<1>2. /\ Typed' /\ OnceInv' /\ ClosesOf[c] \in Sub
      /\ once' = [once EXCEPT ![ClosesOf[c]] = "done"]
  BY <1>1, StepFinish DEF Typed
<1>3. LoopInv'
  BY <1>1, <1>2 DEF Typed, LoopInv, Redis
<1>4. IdsInv' /\ HeardInv'
  BY <1>1 DEF IdsInv, HeardInv, Local, Redis
<1>5. QED
  BY <1>2, <1>3, <1>4

LEMMA StepUnblock ==
    ASSUME BusInv, NEW c \in Closer, Unblock(c)
    PROVE  BusInv'
<1> USE DEF BusInv, Unblock, eventVars, localVars, redisVars
<1>1. Typed' /\ OnceInv'
  BY DEF Typed, OnceInv
<1>2. LoopInv' /\ IdsInv' /\ HeardInv'
  BY DEF LoopInv, IdsInv, HeardInv, Local, Redis
<1>3. QED
  BY <1>1, <1>2

-----------------------------------------------------------------------------
(* Redis: Local is not concerned.                                          *)
LEMMA StepSubscribeRedis ==
    ASSUME BusInv, NEW s \in Sub, AskRedis(s) \/ Confirmed(s) \/ NotConfirmed(s)
    PROVE  BusInv'
<1> USE DEF BusInv
<1>1. /\ UNCHANGED <<scenario, heard, unsubVars, eventVars, localVars>>
      /\ \/ /\ Redis /\ sub[s] = "new" /\ sub' = [sub EXCEPT ![s] = "asking"]
            /\ loop' = loop
         \/ /\ sub[s] = "asking" /\ sub' = [sub EXCEPT ![s] = "on"]
            /\ loop' = [loop EXCEPT ![s] = "ready"]
  BY DEF AskRedis, Confirmed, NotConfirmed, StartLoop, redisVars
<1>2. Typed' /\ OnceInv'
  BY <1>1 DEF Typed, OnceInv, unsubVars, eventVars, localVars
<1>3. LoopInv'
  BY <1>1 DEF Typed, OnceInv, LoopInv, Redis, unsubVars
<1>4. Local => FALSE
  BY <1>1 DEF IdsInv, Local, Redis
<1>5. IdsInv' /\ HeardInv'
  BY <1>1, <1>4 DEF IdsInv, HeardInv, Local
<1>6. QED
  BY <1>2, <1>3, <1>5

LEMMA StepGoroutine ==
    ASSUME BusInv, NEW s \in Sub, Goroutine(s)
    PROVE  BusInv'
<1> USE DEF BusInv
<1>1. /\ UNCHANGED <<scenario, sub, unsubVars, eventVars, localVars>>
      /\ loop[s] \in {"ready", "handling"}
      /\ \E l \in {"ready", "handling", "ended"} : loop' = [loop EXCEPT ![s] = l]
      /\ heard' = heard \/ \E e : heard' = [heard EXCEPT ![s] = @ \union {e}]
  BY DEF Goroutine, Receive, Take, Hear, HandlerReturns, LoopEnds
<1>2. Typed' /\ OnceInv'
  BY <1>1 DEF Typed, OnceInv, unsubVars, eventVars, localVars
<1>3. LoopInv'
  BY <1>1 DEF Typed, LoopInv, Redis, unsubVars
<1>4. Local => FALSE
  BY <1>1 DEF IdsInv, Local
<1>5. IdsInv' /\ HeardInv'
  BY <1>1, <1>4 DEF IdsInv, HeardInv, Local
<1>6. QED
  BY <1>2, <1>3, <1>5

LEMMA StepPublishRedis ==
    ASSUME BusInv,
           \/ \E e \in EventId : PublishRedis(e)
           \/ \E f \in DOMAIN Foreign : PublishForeign(f)
    PROVE  BusInv'
<1> USE DEF BusInv
<1>1. /\ Redis /\ UNCHANGED <<scenario, sub, heard, unsubVars, localVars, loop>>
      /\ \/ gone' = gone
         \/ \E e \in EventId :
              gone' = [gone EXCEPT ![e] = {s \in Sub : Unsubscribed(s)}]
  BY DEF PublishRedis, PublishForeign, Note
<1>2. Typed' /\ OnceInv' /\ LoopInv'
  BY <1>1 DEF Typed, OnceInv, LoopInv, Redis, unsubVars, localVars
<1>3. Local => FALSE
  BY <1>1 DEF Local, Redis
<1>4. IdsInv' /\ HeardInv'
  BY <1>1, <1>3 DEF IdsInv, HeardInv, Local
<1>5. QED
  BY <1>2, <1>4

-----------------------------------------------------------------------------
LEMMA Inductive == BusInv /\ [Next]_vars => BusInv'
<1> SUFFICES ASSUME BusInv, [Next]_vars PROVE BusInv'
  OBVIOUS
<1>1. CASE UNCHANGED vars
  BY <1>1, Quiet
  DEF vars, unsubVars, eventVars, localVars, redisVars, quiet
<1>2. ASSUME NEW s \in Sub,
             \/ SubscribeLocal(s) \/ AskRedis(s) \/ Confirmed(s)
             \/ NotConfirmed(s) \/ Goroutine(s)
      PROVE  BusInv'
  BY <1>2, StepSubscribeLocal, StepSubscribeRedis, StepGoroutine
<1>3. CASE \E s \in Sub : Register(s) \/ PubSubCloses(s)
  BY <1>3, Quiet
  DEF Register, PubSubCloses, unsubVars, eventVars, localVars, quiet
<1>4. CASE Outage \/ Recover
  BY <1>4, Quiet
  DEF Outage, Recover, unsubVars, eventVars, localVars, quiet
<1>5. CASE \/ \E e \in EventId :
                \/ PublishLocal(e) \/ PublishRedis(e)
                \/ \E s \in Sub : CallHandler(e, s)
           \/ \E f \in DOMAIN Foreign : PublishForeign(f)
  BY <1>5, StepPublishLocal, StepPublishRedis, StepCallHandler
<1>6. CASE \E c \in Closer : BeginUnsubscribe(c) \/ Unsubscribe(c)
  BY <1>6, StepBeginUnsubscribe, StepRemoveLocal, StepStopped, StepUnblock
  DEF Unsubscribe
<1>7. QED
  BY <1>1, <1>2, <1>3, <1>4, <1>5, <1>6 DEF Next

(* Whichever goroutine's call of an unsubscribe function returned, and     *)
(* whatever the order of calls, messages, outages and handlers: the        *)
(* handler is left alone (bus.Local, redisstore Bus.Subscribe, #121).      *)
THEOREM Silent == Spec => []UnsubscribedIsSilent
<1>1. BusInv => UnsubscribedIsSilent
  BY DEF BusInv, OnceInv, LoopInv, HeardInv, Typed, UnsubscribedIsSilent,
         Unsubscribed
<1>2. QED
  BY InitInv, Inductive, <1>1, PTL DEF Spec

-----------------------------------------------------------------------------
(* What is on its way to a handler.                                        *)

Message == {Encode(Event[e]) : e \in EventId} \union Range(Foreign)

(* The rest of the types.                                                  *)
WayTyped ==
    /\ timedOut \subseteq Sub
    /\ published \subseteq EventId \union (IF Redis THEN DOMAIN Foreign ELSE {})
    /\ due \in [EventId -> SUBSET Sub]
    /\ id \in [Sub -> 0..next]
    /\ up \in BOOLEAN /\ outages \in 0..scenario.maxOutages
    /\ reg \subseteq Sub /\ steady \subseteq Sub
    /\ ps \in [Sub -> {"open", "closing", "closed"}]
    /\ queue \in [Sub -> Seq(Message)]

(* Local: a handler nobody unsubscribes stays under its id, which no other *)
(* was given.                                                              *)
KeptInv ==
    Local =>
      /\ \A s \in Sub : sub[s] = "on" =>
           /\ id[s] < next
           /\ once[s] = "unused" => id[s] \in DOMAIN subs /\ subs[id[s]] = s
      /\ \A s, t \in Sub :
           sub[s] = "on" /\ sub[t] = "on" /\ id[s] = id[t] => s = t

(* Redis: the server holds what Subscribe saw confirmed, until an outage,  *)
(* and nobody but unsubscribe closes a PubSub.                             *)
ServerInv ==
    /\ \A s \in Sub : once[s] = "unused" => ps[s] = "open"
    /\ \A s \in reg : ps[s] # "closed"
    /\ steady \subseteq reg

(* What each handler was called with.                                      *)
HeardTyped ==
    \A s \in Sub : \A e \in heard[s] :
      /\ Redis => check(e)
      /\ Local => \E f \in EventId : f \in published /\ e = Event[f]

(* Over Redis the state of Local is unused.                                *)
UnusedInv == Redis => subs = << >> /\ \A e \in EventId : todo[e] = {}

(* Only what is published is due, and to whom Subscribe has returned.      *)
DueInv ==
    /\ \A e \in EventId : due[e] # {} => e \in published
    /\ \A e \in EventId : \A s \in due[e] : sub[s] = "on"
    /\ \A e \in EventId : Redis /\ due[e] # {} => check(Event[e])
    /\ \A s \in steady : sub[s] = "on"

WayInv ==
    /\ WayTyped /\ KeptInv /\ ServerInv /\ HeardTyped /\ UnusedInv /\ DueInv
    /\ DueIsOnItsWay

LEMMA InitWay == Init => WayInv
<1> SUFFICES ASSUME Init PROVE WayInv
  OBVIOUS
<1>1. WayTyped
  <2>1. << >> \in Seq(Message)
    OBVIOUS
  <2>2. queue \in [Sub -> Seq(Message)]
    BY <2>1 DEF Init
  <2>3. scenario.maxOutages \in Nat
    BY BusAssumption DEF Init
  <2>4. due \in [EventId -> SUBSET Sub]
    BY DEF Init
  <2>5. id \in [Sub -> 0..next]
    BY DEF Init
  <2>6. ps \in [Sub -> {"open", "closing", "closed"}] /\ up \in BOOLEAN
    BY DEF Init, Local
  <2>7. outages \in 0..scenario.maxOutages
    BY <2>3 DEF Init
  <2>8. QED
    BY <2>2, <2>4, <2>5, <2>6, <2>7 DEF Init, WayTyped
<1>2. KeptInv /\ ServerInv /\ HeardTyped /\ DueInv /\ DueIsOnItsWay
  BY DEF Init, KeptInv, ServerInv, HeardTyped, DueInv, DueIsOnItsWay, Redis
<1>3. UnusedInv
  BY DEF Init, UnusedInv
<1>4. QED
  BY <1>1, <1>2, <1>3 DEF WayInv

-----------------------------------------------------------------------------
(* Local.                                                                  *)
LEMMA WaySubscribeLocal ==
    ASSUME BusInv, WayInv, NEW s \in Sub, SubscribeLocal(s)
    PROVE  WayInv'
<1> USE DEF WayInv, SubscribeLocal, AddLocal, unsubVars, eventVars, redisVars
<1>1. /\ next \in Nat /\ id \in [Sub -> Nat]
      /\ sub \in [Sub -> {"new", "asking", "on"}]
      /\ \A i \in DOMAIN subs : i # next
  BY DEF BusInv, Typed, IdsInv
<1>2. WayTyped'
  <2>1. id' \in [Sub -> 0..next']
    BY <1>1 DEF WayTyped
  <2>2. QED
    BY <2>1 DEF WayTyped, Redis
<1>3. KeptInv'
  <2>1. subs' = [i \in DOMAIN subs \union {next} |->
                   IF i = next THEN s ELSE subs[i]]
    OBVIOUS
  <2>2. /\ id'[s] = next /\ sub'[s] = "on" /\ next' = next + 1
        /\ \A t \in Sub \ {s} : id'[t] = id[t] /\ sub'[t] = sub[t]
    BY <1>1
  <2>3. QED
    BY <1>1, <2>1, <2>2 DEF KeptInv, Local
<1>4. /\ ServerInv' /\ HeardTyped' /\ UnusedInv' /\ DueInv'
      /\ DueIsOnItsWay'
  BY DEF ServerInv, HeardTyped, UnusedInv, DueInv, DueIsOnItsWay, Carried,
         Local, Redis
<1>5. QED
  BY <1>2, <1>3, <1>4

(* Local copies every handler that may be due the event.                   *)
LEMMA WayPublishLocal ==
    ASSUME BusInv, WayInv, NEW e \in EventId, PublishLocal(e)
    PROVE  WayInv'
<1> USE DEF WayInv, PublishLocal, Note, unsubVars, redisVars
<1>1. todo \in [EventId -> SUBSET Sub] /\ Range(subs) \subseteq Sub
  BY DEF BusInv, Typed, IdsInv, Range
<1>2. WayTyped'
  BY DEF WayTyped, Redis
<1>3. KeptInv' /\ ServerInv' /\ HeardTyped' /\ UnusedInv'
  BY DEF KeptInv, ServerInv, HeardTyped, UnusedInv, Local, Redis
<1>4. /\ due'[e] = {t \in Sub : sub[t] = "on" /\ once[t] = "unused"}
      /\ todo'[e] = Range(subs)
      /\ \A f \in EventId \ {e} : due'[f] = due[f] /\ todo'[f] = todo[f]
  BY <1>1 DEF WayTyped
<1>5. DueInv'
  BY <1>4 DEF DueInv, Local, Redis
<1>6. \A t \in due'[e] : t \in todo'[e]
  BY <1>4 DEF KeptInv, Range
<1>7. DueIsOnItsWay'
  BY <1>4, <1>6 DEF DueIsOnItsWay, Carried, Local, Redis
<1>8. QED
  BY <1>2, <1>3, <1>5, <1>7

LEMMA WayCallHandler ==
    ASSUME BusInv, WayInv, NEW e \in EventId, NEW s \in Sub, CallHandler(e, s)
    PROVE  WayInv'
<1> USE DEF WayInv, CallHandler, Hear, unsubVars, eventVars, redisVars
<1>1. Local /\ ~Redis
  BY BusAssumption DEF UnusedInv, BusInv, Typed, Local, Redis
<1>2. WayTyped' /\ KeptInv' /\ ServerInv' /\ UnusedInv' /\ DueInv'
  BY <1>1 DEF WayTyped, KeptInv, ServerInv, UnusedInv, DueInv, Local, Redis
<1>3. /\ heard'[s] = heard[s] \union {Event[e]}
      /\ todo'[e] = todo[e] \ {s}
      /\ \A t \in Sub \ {s} : heard'[t] = heard[t]
      /\ \A f \in EventId \ {e} : todo'[f] = todo[f]
  BY DEF BusInv, Typed
<1>4. e \in published
  BY <1>1 DEF BusInv, HeardInv
<1>5. HeardTyped'
  BY <1>1, <1>3, <1>4 DEF HeardTyped, Local, Redis
<1>6. DueIsOnItsWay'
  BY <1>1, <1>3 DEF DueIsOnItsWay, Carried, Local, Redis
<1>7. QED
  BY <1>2, <1>5, <1>6

-----------------------------------------------------------------------------
(* Unsubscribing: the handler is due nothing any more.                     *)
LEMMA WayBeginUnsubscribe ==
    ASSUME BusInv, WayInv, NEW c \in Closer, BeginUnsubscribe(c)
    PROVE  WayInv'
<1> USE DEF WayInv, BeginUnsubscribe, CallUnsubscribe, eventVars, localVars
<1>1. ClosesOf[c] \in Sub /\ once \in [Sub -> {"unused", "running", "done"}]
  BY BusAssumption DEF BusInv, Typed
<1>2. WayTyped' /\ UnusedInv' /\ HeardTyped' /\ DueInv'
  BY <1>1 DEF WayTyped, UnusedInv, HeardTyped, DueInv, Local, Redis
<1>3. \A s \in Sub : once'[s] = "unused" => once[s] = "unused" /\ ps'[s] = ps[s]
  BY <1>1 DEF WayTyped
<1>4. KeptInv'
  BY <1>3 DEF KeptInv, Local
<1>5. ServerInv'
  BY <1>1, <1>3 DEF WayTyped, ServerInv
<1>6. DueIsOnItsWay'
  BY <1>3 DEF DueIsOnItsWay, Carried, Local, Redis
<1>7. QED
  BY <1>2, <1>4, <1>5, <1>6

LEMMA WayFinish ==
    ASSUME BusInv, WayInv, NEW c \in Closer, Unsubscribe(c)
    PROVE  WayInv'
<1> USE DEF WayInv
<1>1. /\ UNCHANGED <<scenario, sub, heard, eventVars, next, id, todo, redisVars>>
      /\ timedOut' \in {timedOut, timedOut \union {ClosesOf[c]}}
      /\ \/ once' = once
         \/ once' = [once EXCEPT ![ClosesOf[c]] = "done"]
      /\ \/ subs' = subs
         \/ /\ Local /\ closer[c] = "running"
            /\ once' = [once EXCEPT ![ClosesOf[c]] = "done"]
            /\ subs' = Restrict(subs, DOMAIN subs \ {id[ClosesOf[c]]})
  BY DEF Unsubscribe, RemoveLocal, Unblock, Stopped, TimerFires, Finish,
         localVars, redisVars
<1>2. /\ ClosesOf[c] \in Sub /\ once \in [Sub -> {"unused", "running", "done"}]
      /\ closer[c] # "idle" => sub[ClosesOf[c]] = "on"
  BY BusAssumption DEF BusInv, Typed, OnceInv
<1>3. \A s \in Sub : once'[s] = "unused" =>
        /\ once[s] = "unused"
        /\ once' # once => s # ClosesOf[c]
  BY <1>1, <1>2
<1>4. WayTyped' /\ UnusedInv' /\ HeardTyped' /\ DueInv' /\ ServerInv'
  BY <1>1, <1>2, <1>3
  DEF WayTyped, UnusedInv, HeardTyped, DueInv, ServerInv, Local, Redis,
      eventVars, redisVars
<1>5. DueIsOnItsWay'
  BY <1>1, <1>3
  DEF DueIsOnItsWay, Carried, Local, Redis, eventVars, redisVars
<1>6. KeptInv'
  <2>1. CASE subs' = subs
    BY <2>1, <1>1, <1>3 DEF KeptInv, Local
  <2>2. CASE /\ Local /\ closer[c] = "running"
             /\ once' = [once EXCEPT ![ClosesOf[c]] = "done"]
             /\ subs' = Restrict(subs, DOMAIN subs \ {id[ClosesOf[c]]})
    <3>1. \A s \in Sub : sub[s] = "on" /\ once'[s] = "unused" =>
            s # ClosesOf[c] /\ id[s] # id[ClosesOf[c]]
      BY <2>2, <1>2 DEF KeptInv
    <3>2. subs' = [i \in DOMAIN subs \ {id[ClosesOf[c]]} |-> subs[i]]
      BY <2>2 DEF Restrict
    <3>3. QED
      BY <1>1, <1>3, <3>1, <3>2 DEF KeptInv, Local
  <2>3. QED
    BY <1>1, <2>1, <2>2
<1>7. QED
  BY <1>4, <1>5, <1>6

-----------------------------------------------------------------------------
(* Redis.                                                                  *)
LEMMA WaySubscribeRedis ==
    ASSUME BusInv, WayInv, NEW s \in Sub, AskRedis(s) \/ Confirmed(s) \/ NotConfirmed(s)
    PROVE  WayInv'
<1> USE DEF WayInv
<1>1. /\ UNCHANGED <<scenario, heard, once, timedOut, eventVars, localVars, up,
                     outages, queue, reg, ps>>
      /\ \/ sub[s] = "new" /\ sub' = [sub EXCEPT ![s] = "asking"]
         \/ sub[s] = "asking" /\ sub' = [sub EXCEPT ![s] = "on"]
      /\ \/ steady' = steady
         \/ s \in reg /\ sub[s] = "asking" /\ sub'[s] = "on"
              /\ steady' = steady \union {s}
  BY DEF AskRedis, Confirmed, NotConfirmed, StartLoop, redisVars, unsubVars,
         BusInv, Typed
<1>2. Redis /\ ~Local
  BY BusAssumption
  DEF AskRedis, Confirmed, NotConfirmed, StartLoop, BusInv, Typed, IdsInv,
      Local, Redis
<1>3. sub \in [Sub -> {"new", "asking", "on"}]
  BY DEF BusInv, Typed
<1>4. WayTyped' /\ UnusedInv' /\ HeardTyped' /\ ServerInv' /\ KeptInv'
  BY <1>1, <1>2
  DEF WayTyped, UnusedInv, HeardTyped, ServerInv, KeptInv, Local, Redis,
      eventVars, localVars
<1>5. DueInv'
  BY <1>1, <1>3 DEF DueInv, WayTyped, Redis, eventVars
<1>6. \A e \in EventId : \A t \in due[e] : t \in steady' => t \in steady
  BY <1>1 DEF DueInv
<1>7. DueIsOnItsWay'
  BY <1>1, <1>2, <1>6 DEF DueIsOnItsWay, Carried, Local, Redis, eventVars
<1>8. QED
  BY <1>4, <1>5, <1>7

LEMMA WayRegister ==
    ASSUME BusInv, WayInv, NEW s \in Sub, Register(s)
    PROVE  WayInv'
<1> USE DEF WayInv, Register, unsubVars, eventVars, localVars
<1>1. WayTyped' /\ UnusedInv' /\ HeardTyped' /\ ServerInv' /\ KeptInv' /\ DueInv'
  BY DEF WayTyped, UnusedInv, HeardTyped, ServerInv, KeptInv, DueInv, Local, Redis
<1>2. DueIsOnItsWay'
  BY DEF DueIsOnItsWay, Carried, Local, Redis
<1>3. QED
  BY <1>1, <1>2

(* Publishing over Redis: the server has every confirmed subscription.     *)
LEMMA WaySend ==
    ASSUME NEW m \in Message, WayTyped, Send(m)
    PROVE  /\ queue' \in [Sub -> Seq(Message)]
           /\ \A s \in Sub : Range(queue[s]) \subseteq Range(queue'[s])
           /\ \A s \in reg : m \in Range(queue'[s])
<1> USE DEF WayTyped, Send
<1>1. \A s \in Sub : queue[s] \in Seq(Message)
  OBVIOUS
<1>2. \A q \in Seq(Message) :
        /\ Append(q, m) \in Seq(Message)
        /\ Range(q) \subseteq Range(Append(q, m))
        /\ m \in Range(Append(q, m))
  <2> SUFFICES ASSUME NEW q \in Seq(Message)
               PROVE  /\ Append(q, m) \in Seq(Message)
                      /\ Range(q) \subseteq Range(Append(q, m))
                      /\ m \in Range(Append(q, m))
    OBVIOUS
  <2>1. /\ Append(q, m) \in Seq(Message)
        /\ DOMAIN Append(q, m) = 1..(Len(q) + 1)
        /\ DOMAIN q = 1..Len(q) /\ Len(q) \in Nat
    OBVIOUS
  <2>2. /\ Append(q, m)[Len(q) + 1] = m
        /\ \A i \in 1..Len(q) : Append(q, m)[i] = q[i]
    OBVIOUS
  <2> DEFINE r == Append(q, m)
  <2> HIDE DEF r
  <2>3. Len(q) + 1 \in DOMAIN r /\ DOMAIN q \subseteq DOMAIN r
    BY <2>1 DEF r
  <2>4. r[Len(q) + 1] = m /\ \A i \in DOMAIN q : r[i] = q[i]
    BY <2>1, <2>2 DEF r
  <2>5. Range(q) \subseteq Range(r) /\ m \in Range(r)
    BY <2>3, <2>4, Zenon DEF Range
  <2>6. QED
    BY <2>1, <2>5 DEF r
<1>3. QED
  BY <1>1, <1>2

LEMMA WayPublishRedis ==
    ASSUME BusInv, WayInv, NEW e \in EventId, PublishRedis(e)
    PROVE  WayInv'
<1> USE DEF WayInv, PublishRedis, Note, unsubVars, localVars
<1>1. Encode(Event[e]) \in Message /\ ~Local
  BY DEF Message, Local, Redis
<1>2. /\ queue' \in [Sub -> Seq(Message)]
      /\ \A s \in Sub : Range(queue[s]) \subseteq Range(queue'[s])
      /\ \A s \in reg : Encode(Event[e]) \in Range(queue'[s])
  BY <1>1, WaySend
<1>3. /\ due'[e] = {s \in steady : once[s] = "unused"}
      /\ \A f \in EventId \ {e} : due'[f] = due[f]
  BY DEF WayTyped
<1>4. WayTyped' /\ UnusedInv' /\ HeardTyped' /\ ServerInv' /\ KeptInv'
  BY <1>1, <1>2
  DEF WayTyped, UnusedInv, HeardTyped, ServerInv, KeptInv, Local, Redis
<1>5. DueInv'
  <2>1. check(Event[e])
    BY DEF Encode
  <2>2. QED
    BY <1>3, <2>1 DEF DueInv, Redis
<1>6. \A s \in due'[e] : s \in reg
  BY <1>3 DEF ServerInv
<1>7. DueIsOnItsWay'
  BY <1>1, <1>2, <1>3, <1>6 DEF DueIsOnItsWay, Carried, Local, Redis
<1>8. QED
  BY <1>4, <1>5, <1>7

LEMMA WayPublishForeign ==
    ASSUME BusInv, WayInv, NEW f \in DOMAIN Foreign, PublishForeign(f)
    PROVE  WayInv'
<1> USE DEF WayInv, PublishForeign, unsubVars, localVars
<1>1. Foreign[f] \in Message /\ ~Local
  BY DEF Message, Range, Local, Redis
<1>2. /\ queue' \in [Sub -> Seq(Message)]
      /\ \A s \in Sub : Range(queue[s]) \subseteq Range(queue'[s])
  BY <1>1, WaySend
<1>3. WayTyped' /\ UnusedInv' /\ HeardTyped' /\ ServerInv' /\ KeptInv' /\ DueInv'
  BY <1>1, <1>2
  DEF WayTyped, UnusedInv, HeardTyped, ServerInv, KeptInv, DueInv, Local, Redis
<1>4. DueIsOnItsWay'
  BY <1>1, <1>2 DEF DueIsOnItsWay, Carried, Local, Redis
<1>5. QED
  BY <1>3, <1>4

(* An outage takes every confirmation with what it loses.                  *)
LEMMA WayOutage ==
    ASSUME BusInv, WayInv, Outage \/ Recover
    PROVE  WayInv'
<1> USE DEF WayInv, Outage, Recover, unsubVars, eventVars, localVars
<1>1. scenario.maxOutages \in Nat
  BY BusAssumption DEF BusInv, Typed
<1>2. queue' \in [Sub -> Seq(Message)]
  <2>1. << >> \in Seq(Message)
    OBVIOUS
  <2>2. QED
    BY <2>1 DEF WayTyped
<1>3. WayTyped'
  <2>1. outages' \in 0..scenario'.maxOutages
    BY <1>1 DEF WayTyped
  <2>2. up' \in BOOLEAN /\ reg' \subseteq Sub /\ steady' \subseteq Sub
    BY DEF WayTyped
  <2>3. QED
    BY <1>2, <2>1, <2>2 DEF WayTyped, Redis
<1>4. UnusedInv' /\ HeardTyped' /\ ServerInv' /\ KeptInv' /\ DueInv'
  BY DEF UnusedInv, HeardTyped, ServerInv, KeptInv, DueInv, Local, Redis
<1>5. DueIsOnItsWay'
  BY BusAssumption DEF DueIsOnItsWay, Carried, Local, Redis, BusInv, Typed
<1>6. QED
  BY <1>3, <1>4, <1>5

(* A PubSub is closed only for a handler that was unsubscribed.            *)
LEMMA WayPubSubCloses ==
    ASSUME BusInv, WayInv, NEW s \in Sub, PubSubCloses(s)
    PROVE  WayInv'
<1> USE DEF WayInv, PubSubCloses, unsubVars, eventVars, localVars
<1>1. once[s] # "unused"
  BY DEF ServerInv
<1>2. \A kept \in Prefixes(queue[s]) : kept \in Seq(Message)
  <2>1. queue[s] \in Seq(Message)
    BY DEF WayTyped
  <2>2. \A l \in 0..Len(queue[s]) : SubSeq(queue[s], 1, l) \in Seq(Message)
    BY <2>1
  <2>3. QED
    BY <2>2 DEF Prefixes
<1>3. queue' \in [Sub -> Seq(Message)]
      /\ \A t \in Sub \ {s} : queue'[t] = queue[t]
  BY <1>2 DEF WayTyped
<1>4. WayTyped' /\ UnusedInv' /\ HeardTyped' /\ KeptInv' /\ DueInv'
  BY <1>3 DEF WayTyped, UnusedInv, HeardTyped, KeptInv, DueInv, Local, Redis
<1>5. ServerInv'
  BY <1>1 DEF ServerInv, WayTyped
<1>6. DueIsOnItsWay'
  BY <1>1, <1>3 DEF DueIsOnItsWay, Carried, Local, Redis
<1>7. QED
  BY <1>4, <1>5, <1>6

(* The goroutine: what it takes out of the queue and Decode accepts, the   *)
(* handler hears.                                                          *)
LEMMA WayReceive ==
    ASSUME BusInv, WayInv, NEW s \in Sub, Receive(s)
    PROVE  WayInv'
<1> USE DEF WayInv, Receive, Take, Hear, unsubVars, eventVars, localVars
<1> DEFINE q == queue[s]
<1>1. Redis /\ ~Local
  BY BusAssumption DEF BusInv, Typed, IdsInv, Local, Redis
<1>2. q \in Seq(Message) /\ q # << >>
  BY DEF WayTyped
<1>3. /\ Tail(q) \in Seq(Message)
      /\ \A m \in Range(q) : m = Head(q) \/ m \in Range(Tail(q))
  <2> HIDE DEF q
  <2>1. /\ Tail(q) \in Seq(Message) /\ Len(q) \in Nat /\ Len(q) > 0
        /\ DOMAIN q = 1..Len(q) /\ DOMAIN Tail(q) = 1..(Len(q) - 1)
    BY <1>2
  <2>2. /\ Head(q) = q[1]
        /\ \A i \in 1..(Len(q) - 1) : Tail(q)[i] = q[i + 1]
    BY <1>2
  <2>3. \A i \in 1..Len(q) : i = 1 \/ i - 1 \in 1..(Len(q) - 1)
    BY <2>1
  <2>4. \A i \in 1..Len(q) : i = 1 \/ q[i] = Tail(q)[i - 1]
    BY <2>1, <2>2, <2>3
  <2> DEFINE r == Tail(q)
             h == Head(q)
  <2> HIDE DEF r, h
  <2>5. \A i \in DOMAIN q : q[i] = h \/ \E j \in DOMAIN r : q[i] = r[j]
    <3> SUFFICES ASSUME NEW i \in 1..Len(q), i # 1
                 PROVE  i - 1 \in 1..(Len(q) - 1) /\ q[i] = Tail(q)[i - 1]
      BY <2>1, <2>2 DEF r, h
    <3>1. QED
      BY <2>3, <2>4
  <2>6. \A m \in Range(q) : m = h \/ m \in Range(r)
    BY <2>5, Zenon DEF Range
  <2>7. QED
    BY <2>1, <2>6 DEF r, h
<1>4. /\ queue' \in [Sub -> Seq(Message)] /\ queue'[s] = Tail(q)
      /\ \A t \in Sub \ {s} : queue'[t] = queue[t]
  BY <1>3 DEF WayTyped
<1>5. /\ heard'[s] = IF Decode(Head(q)) = Refused THEN heard[s]
                     ELSE heard[s] \union {Decode(Head(q))}
      /\ \A t \in Sub \ {s} : heard'[t] = heard[t]
  BY DEF BusInv, Typed
<1>6. WayTyped' /\ UnusedInv' /\ KeptInv' /\ ServerInv' /\ DueInv'
  BY <1>1, <1>4 DEF WayTyped, UnusedInv, KeptInv, ServerInv, DueInv, Local, Redis
<1>7. HeardTyped'
  BY <1>1, <1>5, Strict DEF HeardTyped, Local, Redis
<1>8. DueIsOnItsWay'
  <2>1. \A e \in EventId : due[e] # {} /\ Carried(e) =>
                           Decode(Encode(Event[e])) = Event[e]
    BY <1>1, EncodedIsItself, BusAssumption DEF Carried, DueInv, EventId
  <2>2. QED
    BY <1>1, <1>3, <1>4, <1>5, <2>1 DEF DueIsOnItsWay, Carried, Local, Redis
<1>9. QED
  BY <1>6, <1>7, <1>8

LEMMA WayLoop ==
    ASSUME BusInv, WayInv, NEW s \in Sub, HandlerReturns(s) \/ LoopEnds(s)
    PROVE  WayInv'
<1> USE DEF WayInv, HandlerReturns, LoopEnds, unsubVars, eventVars, localVars
<1>1. WayTyped' /\ UnusedInv' /\ HeardTyped' /\ ServerInv' /\ KeptInv' /\ DueInv'
  BY DEF WayTyped, UnusedInv, HeardTyped, ServerInv, KeptInv, DueInv, Local, Redis
<1>2. DueIsOnItsWay'
  BY DEF DueIsOnItsWay, Carried, Local, Redis
<1>3. QED
  BY <1>1, <1>2

LEMMA WayQuiet ==
    ASSUME WayInv, UNCHANGED vars
    PROVE  WayInv'
BY DEF WayInv, WayTyped, UnusedInv, HeardTyped, ServerInv, KeptInv, DueInv,
       DueIsOnItsWay, Carried, Local, Redis, vars, unsubVars, eventVars,
       localVars, redisVars

LEMMA WayInductive == BusInv /\ WayInv /\ [Next]_vars => WayInv'
<1> SUFFICES ASSUME BusInv, WayInv, [Next]_vars PROVE WayInv'
  OBVIOUS
<1>1. CASE UNCHANGED vars
  BY <1>1, WayQuiet
<1>2. ASSUME NEW s \in Sub,
             \/ SubscribeLocal(s) \/ AskRedis(s) \/ Confirmed(s)
             \/ NotConfirmed(s) \/ Register(s) \/ PubSubCloses(s)
             \/ Goroutine(s)
      PROVE  WayInv'
  BY <1>2, WaySubscribeLocal, WaySubscribeRedis, WayRegister,
     WayPubSubCloses, WayReceive, WayLoop DEF Goroutine
<1>3. CASE Outage \/ Recover
  BY <1>3, WayOutage
<1>4. CASE \/ \E e \in EventId :
                \/ PublishLocal(e) \/ PublishRedis(e)
                \/ \E s \in Sub : CallHandler(e, s)
           \/ \E f \in DOMAIN Foreign : PublishForeign(f)
  BY <1>4, WayPublishLocal, WayPublishRedis, WayPublishForeign, WayCallHandler
<1>5. CASE \E c \in Closer : BeginUnsubscribe(c) \/ Unsubscribe(c)
  BY <1>5, WayBeginUnsubscribe, WayFinish
<1>6. QED
  BY <1>1, <1>2, <1>3, <1>4, <1>5 DEF Next

LEMMA BothInvariants == Spec => [](BusInv /\ WayInv)
BY InitInv, Inductive, InitWay, WayInductive, PTL DEF Spec

(* Every id Local hands out is a handler's own, Local calls handlers with  *)
(* what was published and nothing else, and over Redis they hear           *)
(* well-formed events only (bus.Local, redisstore Bus.Subscribe, RS-07).   *)
THEOREM BusTypeCorrect == Spec => []TypeOK
<1>1. BusInv /\ WayInv => TypeOK
  <2> SUFFICES ASSUME BusInv, WayInv PROVE TypeOK
    OBVIOUS
  <2> USE DEF BusInv, WayInv
  <2>1. Redis => \A s \in Sub : \A e \in heard[s] : check(e)
    BY DEF HeardTyped
  <2>2. Local => \A s \in Sub : heard[s] \subseteq {Event[e] : e \in published}
    BY DEF HeardTyped
  <2>3. DOMAIN subs \subseteq 0..(next - 1) /\ Range(subs) \subseteq Sub
    <3>1. CASE Local
      BY <3>1 DEF Typed, IdsInv, Range
    <3>2. CASE Redis
      BY <3>2 DEF UnusedInv, Range
    <3>3. QED
      BY <3>1, <3>2, BusAssumption DEF Typed, Local, Redis
  <2>4. \A s, t \in Sub :
          Local /\ sub[s] = "on" /\ sub[t] = "on" /\ id[s] = id[t] => s = t
    BY DEF KeptInv
  <2>5. QED
    BY <2>1, <2>2, <2>3, <2>4 DEF Typed, WayTyped, ServerInv, TypeOK
<1>2. QED
  BY BothInvariants, <1>1, PTL

(* An event on its way to a handler that is due it is not lost, for any    *)
(* number of handlers that come and go, of outages and of messages of      *)
(* other programs: Local's Publish has copied the handler, or the message  *)
(* is in its queue (bus.Local, redisstore Bus.Subscribe).                  *)
THEOREM DueIsKept == Spec => []DueIsOnItsWay
<1>1. WayInv => DueIsOnItsWay
  BY DEF WayInv
<1>2. QED
  BY BothInvariants, <1>1, PTL
================================================================================
