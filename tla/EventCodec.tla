------------------------------ MODULE EventCodec ------------------------------
(***************************************************************************)
(* What an invalidation event is made of, from the consumer key to the     *)
(* replica that applies it: physicalKey, genKey and validateKey of keys.go *)
(* and tags.go, Encode, Decode and check of bus/bus.go, and what onEvent   *)
(* of events.go accepts.                                                   *)
(*                                                                         *)
(* A text (a consumer key, a tag, a namespace, a name on the wire) is its  *)
(* bytes, and what the code or JSON sees in them: how many bytes more JSON *)
(* writes for it (five for each <, > and &, three for U+2028 and U+2029,   *)
(* one for a quote or a backslash), whether it is valid UTF-8, and whether *)
(* it has a control character.                                             *)
(***************************************************************************)
EXTENDS Integers, Sequences, SequencesExt

CONSTANTS
    Byte,   \* what a byte of a text can be, the printable ASCII as itself
    Sha     \* the SHA-256 digest of each long key, as hexadecimal digits

Digit == {"0", "1", "2", "3", "4", "5", "6", "7", "8", "9"}
LowerHex == Digit \union {"a", "b", "c", "d", "e", "f"}
HexDigit == LowerHex \union {"A", "B", "C", "D", "E", "F"}

NamespaceChar ==
    Digit \union {".", "_", "-", "a", "b", "c", "d", "e", "f", "g", "h", "i",
                  "j", "k", "l", "m", "n", "o", "p", "q", "r", "s", "t", "u",
                  "v", "w", "x", "y", "z"}

Replacement == <<"EF", "BF", "BD">>    \* U+FFFD

ASSUME ByteAssumption ==
    NamespaceChar \union HexDigit \union {":", "EF", "BF", "BD"} \subseteq Byte
ASSUME ShaAssumption ==
    \A s \in DOMAIN Sha : Sha[s] \in Seq(LowerHex) /\ Len(Sha[s]) = 64

MaxKeyBytes == 256
MaxMessageBytes == 1024

Refused == [refused |-> TRUE]

Text == [bytes : Seq(Byte), extra : Nat, utf8 : BOOLEAN, control : BOOLEAN]

Ascii(s) == [bytes |-> s, extra |-> 0, utf8 |-> TRUE, control |-> FALSE]

(* A text behind some ASCII.                                               *)
Behind(s, t) == [t EXCEPT !.bytes = s \o @]

validateKey(t) == t.bytes # << >> /\ t.utf8 /\ ~t.control

-----------------------------------------------------------------------------
(* What the stores keep.  cistern:v1:<ns>:-: precedes entries (prefix) and *)
(* cistern:v1:<ns>:g: counters (genPrefix).                                *)
Prefix(ns, part) ==
    <<"c", "i", "s", "t", "e", "r", "n", ":", "v", "1", ":">>
      \o ns.bytes \o <<":", part, ":">>

Kept(ns) == Prefix(ns, "-") \o <<"k", ":">>
Hashed(ns) == Prefix(ns, "-") \o <<"h", ":">>

physicalKey(ns, hashKeys, t) ==
    IF validateKey(t) /\ (Len(t.bytes) <= MaxKeyBytes \/ hashKeys)
      THEN IF Len(t.bytes) <= MaxKeyBytes
             THEN Behind(Kept(ns), t)
             ELSE Behind(Hashed(ns), Ascii(Sha[t.bytes]))
      ELSE Refused

genKey(ns, t) ==
    IF validateKey(t) /\ Len(t.bytes) <= MaxKeyBytes
      THEN Behind(Prefix(ns, "g"), t) ELSE Refused

-----------------------------------------------------------------------------
(* An event, and the message that carries it.                              *)

KindKey == 1
KindTag == 2

kindNames == <<"key", "tag">>
KindNamed == [key |-> KindKey, tag |-> KindTag]

KeyEvent(ns, pk) == [Namespace |-> ns, Kind |-> KindKey, Name |-> pk]
TagEvent(ns, t) == [Namespace |-> ns, Kind |-> KindTag, Name |-> t]

(* A text of these characters is ASCII, with nothing JSON escapes.         *)
NamespaceOK(ns) ==
    /\ ns.bytes \in Seq(NamespaceChar) /\ Len(ns.bytes) \in 1..64
    /\ ns = Ascii(ns.bytes)

(* The tests of a name are those of validateKey.                           *)
check(e) ==
    /\ e.Kind \in DOMAIN kindNames
    /\ NamespaceOK(e.Namespace)
    /\ validateKey(e.Name)

(* encoding/json puts U+FFFD for what is no UTF-8, as it writes and as it  *)
(* reads; here for the whole text.                                         *)
JSON(t) == IF t.utf8 THEN t
           ELSE [t EXCEPT !.bytes = Replacement, !.utf8 = TRUE]

(* The JSON of a wire value: its punctuation, field names and kind, and    *)
(* the two strings.                                                        *)
MessageBytes(e) ==
    32 + Len(e.Namespace.bytes) + Len(e.Name.bytes) + e.Name.extra

(* v, k, ns and n are the fields of wire; unknown stands for any other     *)
(* field, trailing for data after the value, json for being JSON at all.   *)
Encode(e) ==
    IF check(e)
      THEN [json |-> TRUE, unknown |-> FALSE, trailing |-> FALSE, v |-> 1,
            k |-> kindNames[e.Kind], ns |-> JSON(e.Namespace),
            n |-> JSON(e.Name), bytes |-> MessageBytes(e)]
      ELSE Refused

Decode(m) ==
    LET e == [Namespace |-> JSON(m.ns), Kind |-> KindNamed[m.k],
              Name |-> JSON(m.n)] IN
    IF /\ m.bytes <= MaxMessageBytes
       /\ m.json /\ ~m.unknown /\ ~m.trailing
       /\ m.v = 1 /\ m.k \in DOMAIN KindNamed
       /\ check(e)
      THEN e
      ELSE Refused

-----------------------------------------------------------------------------
(* eventKey: the name is a physical key this namespace could have stored.  *)
After(s, t) == [t EXCEPT !.bytes = SubSeq(@, Len(s) + 1, Len(@))]

eventKey(ns, name) ==
    \/ /\ IsPrefix(Kept(ns), name.bytes)
       /\ validateKey(After(Kept(ns), name))
       /\ Len(After(Kept(ns), name).bytes) <= MaxKeyBytes
    \/ /\ IsPrefix(Hashed(ns), name.bytes)
       /\ After(Hashed(ns), name).bytes \in Seq(HexDigit)
       /\ Len(After(Hashed(ns), name).bytes) = 64

(* onEvent: what a replica does to its local state for an event, if        *)
(* anything: it drops an L1 entry or its copy of a generation, or bumps    *)
(* the generation it alone keeps.  levels are those it was built with.     *)
Nothing == [does |-> "nothing"]

onEvent(ns, levels, tagged, e) ==
    LET here == e.Namespace = ns
        tag == here /\ e.Kind = KindTag /\ tagged /\ genKey(ns, e.Name) # Refused
    IN CASE here /\ e.Kind = KindKey /\ "L1" \in levels /\ eventKey(ns, e.Name) ->
              [does |-> "delete", of |-> e.Name]
         [] tag /\ levels = {"L1", "L2"} ->
              [does |-> "drop", of |-> genKey(ns, e.Name)]
         [] tag /\ levels = {"L1"} ->
              [does |-> "bump", of |-> genKey(ns, e.Name)]
         [] OTHER -> Nothing
==============================================================================
