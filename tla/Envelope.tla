-------------------------------- MODULE Envelope --------------------------------
(***************************************************************************)
(* The storage format of internal/envelope/envelope.go: Encode, Decode and *)
(* check, byte by byte.  A 64-bit number, an expiry or a generation, is    *)
(* its eight bytes, most significant first, as AppendUint64 writes it.     *)
(***************************************************************************)
EXTENDS Integers, Sequences

Version == 2
MaxTags == 8
headerLen == 11      \* version, flags, expiry, length of the codec's id
maxCodecID == 32

Byte == 0..255
Word == [1..8 -> Byte]

(* As an int64: neither zero nor negative.                                 *)
Positive(w) == w[1] < 128 /\ \E i \in 1..8 : w[i] # 0

Entry == [Absent : BOOLEAN, Expires : Word, Codec : Seq(Byte),
          Gens : Seq(Word), Payload : Seq(Byte)]

Malformed == [malformed |-> TRUE]
Refused == << >>

check(absent, expiry, codecLen, payloadLen) ==
    /\ Positive(expiry)
    /\ codecLen \in 1..maxCodecID
    /\ absent <=> payloadLen = 0

(* The bytes of a sequence of words, and a word among bytes.               *)
Flat(words) ==
    [j \in 1..(8 * Len(words)) |->
       words[((j - 1) \div 8) + 1][((j - 1) % 8) + 1]]
WordAt(data, i) == [k \in 1..8 |-> data[i + k - 1]]

flagsOf(absent) == IF absent THEN 1 ELSE 0

Encode(e) ==
    IF /\ check(e.Absent, e.Expires, Len(e.Codec), Len(e.Payload))
       /\ Len(e.Gens) <= MaxTags
      THEN <<Version, flagsOf(e.Absent)>> \o e.Expires
             \o <<Len(e.Codec)>> \o e.Codec
             \o <<Len(e.Gens)>> \o Flat(e.Gens) \o e.Payload
      ELSE Refused

(* Where the number of tags stands, and what follows the generations.      *)
countAt(data) == headerLen + data[11] + 1
gensOf(data) ==
    [i \in 1..data[countAt(data)] |-> WordAt(data, countAt(data) + 8 * i - 7)]
payloadOf(data) ==
    SubSeq(data, countAt(data) + 8 * data[countAt(data)] + 1, Len(data))

Decode(data, maxPayload) ==
    IF /\ Len(data) >= headerLen
       /\ data[1] = Version
       /\ data[2] \in {0, 1}
       /\ Len(data) >= countAt(data)
       /\ data[countAt(data)] <= MaxTags
       /\ Len(data) >= countAt(data) + 8 * data[countAt(data)]
       /\ check(data[2] = 1, WordAt(data, 3), data[11], Len(payloadOf(data)))
       /\ Len(payloadOf(data)) <= maxPayload
      THEN [Absent |-> data[2] = 1,
            Expires |-> WordAt(data, 3),
            Codec |-> SubSeq(data, headerLen + 1, headerLen + data[11]),
            Gens |-> gensOf(data),
            Payload |-> payloadOf(data)]
      ELSE Malformed
=================================================================================
