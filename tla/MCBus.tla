--------------------------------- MODULE MCBus ---------------------------------
(* The buses on small instances: three handlers of a Local bus, of which   *)
(* one is unsubscribed by two goroutines, and one handler over Redis with  *)
(* one outage, unsubscribed by two goroutines as well.                     *)
EXTENDS Bus

CONSTANTS s1, s2, s3, c1, c2

Closes == [c \in {c1, c2} |-> s1]

Shop == Ascii(<<"s", "h", "o", "p">>)

Bytes == NamespaceChar \union HexDigit \union {":", "<", "EF", "BF", "BD"}
Long == [i \in 1..300 |-> "x"]
Digests == Long :> [i \in 1..64 |-> "0"]

(* The event of a hashed key, and that of a tag of 256 bytes JSON writes   *)
(* as six each.                                                            *)
Events ==
    [key  |-> KeyEvent(Shop, physicalKey(Shop, TRUE, Ascii(Long))),
     wide |-> TagEvent(Shop, [Ascii([i \in 1..256 |-> "<"]) EXCEPT !.extra = 1280])]

Malformed ==
    [junk |-> [Encode(Events.key) EXCEPT !.json = FALSE]]

LocalBus == [medium |-> "local", subs |-> {s1, s2, s3}, closers |-> {c1, c2},
             events |-> {"key"}, maxOutages |-> 0]
RedisBus == [medium |-> "redis", subs |-> {s1}, closers |-> {c1, c2},
             events |-> {"key", "wide"}, maxOutages |-> 1]
Both == {LocalBus, RedisBus}
==============================================================================
