------------------------- MODULE RedisTagStoreProofs --------------------------
(***************************************************************************)
(* Proofs about RedisTagStore, for every number of counters, requests,     *)
(* tags, draws and losses: the pipelines of redisstore keep the TagStore   *)
(* contract, a read sees the Bumps that returned before it was sent, and   *)
(* no counter is left without a time to live, when no counter is lost      *)
(* between the SETNX and the INCR of a Bump; and what a read is given was  *)
(* a generation of its tag, lost or not.                                   *)
(*                                                                         *)
(* Every generation descends from a draw.  A draw waits in the SETNX of    *)
(* one pipeline until Redis runs it, and has not been a counter's until    *)
(* then; a counter holds the last of the generations of its draw.  So what *)
(* a SETNX or an INCR makes of a counter is new to it.                     *)
(***************************************************************************)
EXTENDS RedisTagStore, SequenceTheorems, TLAPS

-----------------------------------------------------------------------------
(* The invariant.                                                          *)

CommandType ==
    [cmd : {"SETNX"}, tag : Counter, gen : (Nat \ {0}) \X {0}]
      \cup [cmd : {"INCR", "PEXPIRE"}, tag : Counter, gen : {NoGeneration}]
      \cup [cmd : {"MGET"}, tag : Seq(Counter), gen : {NoGeneration}]

History == [Counter -> SUBSET Generation]

RequestType ==
    [op : {"none", "GetTagged", "Bump"}, tags : Seq(Counter),
     state : {"unsent", "sent", "ok", "failed"}, gens : Seq(Generation),
     before : History, gone : History]

TypeInv ==
    /\ ctr \in [Counter -> Generation]
    /\ ttl \in [Counter -> BOOLEAN]
    /\ todo \in [Request -> Seq(CommandType)]
    /\ req \in [Request -> RequestType]
    /\ draws \in Nat
    /\ used \in History
    /\ retired \in History

(* An INCR follows the SETNX of its counter, and MGET comes last.          *)
Ordered(s) ==
    \A i \in 1..Len(s) :
      /\ s[i].cmd = "INCR" /\ i > 1 =>
           s[i - 1].cmd = "SETNX" /\ s[i - 1].tag = s[i].tag
      /\ s[i].cmd = "MGET" => i = Len(s)

(* A read ends with its MGET, and has what MGET gave it afterwards.        *)
ReadOK(q, s, held) ==
    q.op = "GetTagged" /\ q.state \in {"sent", "ok"} =>
      IF s # <<>>
        THEN /\ q.state = "sent"
             /\ s[Len(s)].cmd = "MGET" /\ s[Len(s)].tag = q.tags
        ELSE /\ DOMAIN q.gens = DOMAIN q.tags
             /\ \A n \in DOMAIN q.tags :
                  \/ q.gens[n] \in held[q.tags[n]]
                  \/ q.state = "sent" /\ q.gens[n] = NoGeneration

ReadInv ==
    /\ \A t \in Counter : ctr[t] = NoGeneration \/ ctr[t] \in used[t]
    /\ \A r \in Request : Ordered(todo[r])
    /\ \A r \in Request : ReadOK(req[r], todo[r], used)

(* A draw that waits has been no counter's, and waits in one place.        *)
Waiting(s) == {i \in 1..Len(s) : s[i].cmd = "SETNX"}

DrawsOK ==
    /\ \A r \in Request : \A i \in Waiting(todo[r]) :
         /\ todo[r][i].gen[1] \in 1..draws
         /\ \A t \in Counter : \A g \in used[t] : g[1] # todo[r][i].gen[1]
    /\ \A r, o \in Request :
         \A i \in Waiting(todo[r]), j \in Waiting(todo[o]) :
           todo[r][i].gen[1] = todo[o][j].gen[1] => r = o /\ i = j

(* A counter holds the last generation of its draw.                        *)
LastOK ==
    \A t \in Counter : \A g \in used[t] :
      /\ g[1] \in 1..draws
      /\ ctr[t] # NoGeneration /\ g[1] = ctr[t][1] => g[2] <= ctr[t][2]

(* The INCR that comes next finds its counter.                             *)
FindsCounter ==
    \A r \in Request : IsNext(r, "INCR") => ctr[Head(todo[r]).tag] # NoGeneration

(* What is retired was held, and is not held any more.                     *)
RetiredOK ==
    \A t \in Counter : retired[t] \subseteq used[t] /\ ctr[t] \notin retired[t]

(* A Bump has yet to advance a tag, or its generation is a new one.        *)
BumpOK(q, s, now, held) ==
    q.op = "Bump" /\ q.state = "sent" =>
      \A n \in DOMAIN q.tags :
        /\ q.before[q.tags[n]] \subseteq held[q.tags[n]]
        /\ \/ \E i \in 1..Len(s) : s[i].cmd = "INCR" /\ s[i].tag = q.tags[n]
           \/ now[q.tags[n]] \notin q.before[q.tags[n]]

(* What a read was given was not retired when it was sent.                 *)
SeesOK(q, s, over) ==
    q.op = "GetTagged" /\ q.state \in {"sent", "ok"} =>
      /\ \A t \in Counter : q.gone[t] \subseteq over[t]
      /\ s = <<>> => \A n \in DOMAIN q.tags : q.gens[n] \notin q.gone[q.tags[n]]

FreshInv ==
    /\ DrawsOK /\ LastOK /\ FindsCounter /\ CountersExpire /\ RetiredOK
    /\ \A r \in Request : /\ BumpOK(req[r], todo[r], ctr, used)
                          /\ SeesOK(req[r], todo[r], retired)

-----------------------------------------------------------------------------
(* Sequences of commands.                                                  *)

LEMMA TailOf ==
  ASSUME NEW S, NEW s \in Seq(S), s # <<>>
  PROVE  /\ Head(s) = s[1] /\ s[1] \in S
         /\ Tail(s) \in Seq(S) /\ Len(s) \in Nat /\ Len(Tail(s)) = Len(s) - 1
         /\ \A i \in 1..Len(Tail(s)) : Tail(s)[i] = s[i + 1]
         /\ (Tail(s) = <<>>) <=> (Len(s) = 1)
  <1>1. /\ Len(s) \in Nat /\ s # <<>> => Len(s) # 0
        /\ Tail(s) \in Seq(S) /\ Len(Tail(s)) = Len(s) - 1
        /\ \A i \in 1..Len(Tail(s)) : Tail(s)[i] = s[i + 1]
    BY HeadTailProperties, EmptySeq, LenProperties
  <1>2. Head(s) = s[1] /\ s[1] \in S
    BY <1>1, ElementOfSeq
  <1>3. (Tail(s) = <<>>) <=> (Len(s) = 1)
    BY <1>1, EmptySeq
  <1> QED  BY <1>1, <1>2, <1>3

LEMMA TagListOf ==
  ASSUME NEW ts \in TagLists
  PROVE  ts \in Seq(Counter) /\ Len(ts) \in Nat \ {0} /\ DOMAIN ts = 1..Len(ts)
  <1>1. PICK n \in 1..MaxTags : ts \in [1..n -> Counter]
    BY DEF TagLists
  <1>2. n \in Nat \ {0}
    BY RedisAssumption DEF RedisAssumption
  <1> QED  BY <1>1, <1>2

(* The pipeline of GetTagged: a SETNX for each tag, then MGET.             *)
LEMMA ReadPipelineIs ==
  ASSUME NEW ts \in TagLists, draws \in Nat
  PROVE  LET s == ReadPipeline(ts) IN
         /\ s \in Seq(CommandType) /\ Len(s) = Len(ts) + 1
         /\ \A i \in 1..Len(ts) : s[i] = SetNXOf(ts, i)
         /\ s[Len(ts) + 1] = Command("MGET", ts, NoGeneration)
  <1> DEFINE a == [n \in DOMAIN ts |-> SetNXOf(ts, n)]
             b == <<Command("MGET", ts, NoGeneration)>>
  <1>1. a \in Seq(CommandType) /\ Len(a) = Len(ts)
    <2>1. \A n \in DOMAIN ts : SetNXOf(ts, n) \in CommandType
      BY TagListOf DEF SetNXOf, Command, CommandType, NewGeneration
    <2> QED  BY <2>1, TagListOf
  <1>2. b \in Seq(CommandType) /\ Len(b) = 1 /\ b[1] = Command("MGET", ts, NoGeneration)
    BY TagListOf DEF Command, CommandType
  <1>3. \A n \in 1..Len(ts) : a[n] = SetNXOf(ts, n)
    BY TagListOf
  <1>4. ReadPipeline(ts) = a \o b
    BY DEF ReadPipeline
  <1>5. Len(ts) \in Nat
    BY TagListOf
  <1> HIDE DEF a, b
  <1>6. /\ a \o b \in Seq(CommandType) /\ Len(a \o b) = Len(ts) + 1
        /\ \A i \in 1..(Len(ts) + 1) :
             (a \o b)[i] = IF i <= Len(ts) THEN a[i] ELSE b[i - Len(ts)]
    <2>1. /\ a \o b \in Seq(CommandType) /\ Len(a \o b) = Len(a) + Len(b)
          /\ \A i \in 1..(Len(a) + Len(b)) :
               (a \o b)[i] = IF i <= Len(a) THEN a[i] ELSE b[i - Len(a)]
      BY ONLY <1>1, <1>2, ConcatProperties
    <2> QED  BY ONLY <1>1, <1>2, <1>5, <2>1
  <1>7. (a \o b)[Len(ts) + 1] = b[1]
    BY <1>5, <1>6
  <1> QED  BY <1>2, <1>3, <1>4, <1>5, <1>6, <1>7

(* The pipeline of Bump: for each tag a SETNX, an INCR and a PEXPIRE.      *)
LEMMA BumpPipelineIs ==
  ASSUME NEW ts \in TagLists, draws \in Nat
  PROVE  LET s == BumpPipeline(ts) IN
         /\ s \in Seq(CommandType) /\ Len(s) = 3 * Len(ts)
         /\ \A n \in 1..Len(ts) : /\ s[3 * n - 2] = SetNXOf(ts, n)
                                  /\ s[3 * n - 1] = IncrOf(ts, n)
                                  /\ s[3 * n] = PExpireOf(ts, n)
         /\ \A i \in 1..Len(s) : \E n \in 1..Len(ts) :
              i \in {3 * n - 2, 3 * n - 1, 3 * n}
  <1> DEFINE D(i, n) == CASE i = 3 * n - 2 -> SetNXOf(ts, n)
                          [] i = 3 * n - 1 -> IncrOf(ts, n)
                          [] i = 3 * n -> PExpireOf(ts, n)
             C(i) == D(i, (i + 2) \div 3)
             s == BumpPipeline(ts)
  <1>l. Len(ts) \in Nat \ {0} /\ DOMAIN ts = 1..Len(ts) /\ ts \in Seq(Counter)
    BY TagListOf
  <1>1. s = [i \in 1..(3 * Len(ts)) |-> C(i)]
    BY DEF BumpPipeline, ThreeOf
  <1>2. \A n \in 1..Len(ts) : /\ C(3 * n - 2) = SetNXOf(ts, n)
                              /\ C(3 * n - 1) = IncrOf(ts, n)
                              /\ C(3 * n) = PExpireOf(ts, n)
    <2> TAKE n \in 1..Len(ts)
    <2>1. n \in Nat /\ n \in Int
      BY <1>l
    <2>2. /\ (3 * n - 2 + 2) \div 3 = n /\ (3 * n - 1 + 2) \div 3 = n
          /\ (3 * n + 2) \div 3 = n
      BY <2>1
    <2>3. /\ D(3 * n - 2, n) = SetNXOf(ts, n)
          /\ D(3 * n - 1, n) = IncrOf(ts, n)
          /\ D(3 * n, n) = PExpireOf(ts, n)
      <3>1. 3 * n - 1 # 3 * n - 2 /\ 3 * n # 3 * n - 1 /\ 3 * n # 3 * n - 2
        BY <2>1
      <3> QED  BY <3>1
    <2> HIDE DEF D
    <2> QED  BY <2>2, <2>3
  <1>3. \A i \in 1..(3 * Len(ts)) : \E n \in 1..Len(ts) :
          i \in {3 * n - 2, 3 * n - 1, 3 * n}
    <2> TAKE i \in 1..(3 * Len(ts))
    <2> DEFINE n == (i + 2) \div 3
    <2>1. n \in 1..Len(ts) /\ i \in {3 * n - 2, 3 * n - 1, 3 * n}
      BY <1>l
    <2> QED  BY <2>1
  <1>4. \A n \in 1..Len(ts) : /\ SetNXOf(ts, n) \in CommandType
                              /\ IncrOf(ts, n) \in CommandType
                              /\ PExpireOf(ts, n) \in CommandType
    BY <1>l DEF SetNXOf, IncrOf, PExpireOf, Command, CommandType, NewGeneration
  <1> HIDE DEF C
  <1>5. \A i \in 1..(3 * Len(ts)) : C(i) \in CommandType
    BY <1>2, <1>3, <1>4
  <1>6. s \in Seq(CommandType) /\ Len(s) = 3 * Len(ts)
    BY <1>1, <1>5, <1>l
  <1>7. \A n \in 1..Len(ts) :
          /\ 3 * n - 2 \in 1..(3 * Len(ts)) /\ 3 * n - 1 \in 1..(3 * Len(ts))
          /\ 3 * n \in 1..(3 * Len(ts))
    BY <1>l
  <1>8. \A n \in 1..Len(ts) : /\ s[3 * n - 2] = SetNXOf(ts, n)
                              /\ s[3 * n - 1] = IncrOf(ts, n)
                              /\ s[3 * n] = PExpireOf(ts, n)
    BY <1>1, <1>2, <1>7
  <1> HIDE DEF s
  <1> QED  BY <1>3, <1>6, <1>8 DEF s

-----------------------------------------------------------------------------
(* Types.                                                                  *)

LEMMA UnsentTyped ==
  ASSUME NEW state \in {"unsent", "sent", "ok", "failed"}
  PROVE  [Unsent EXCEPT !.state = state] \in RequestType
  <1>1. <<>> \in Seq(Counter) /\ <<>> \in Seq(Generation)
    BY EmptySeq
  <1>2. [t \in Counter |-> {}] \in History
    BY DEF History
  <1> QED  BY <1>1, <1>2 DEF Unsent, RequestType

(* A pipeline is sent.                                                     *)
LEMMA SendIs ==
  ASSUME TypeInv, NEW r \in Request, NEW op \in {"GetTagged", "Bump"},
         NEW ts \in TagLists, NEW commands \in Seq(CommandType),
         Send(r, op, ts, commands)
  PROVE  /\ TypeInv'
         /\ \A o \in Request \ {r} : todo'[o] = todo[o] /\ req'[o] = req[o]
         /\ todo'[r] = commands
         /\ req'[r].op = op /\ req'[r].tags = ts /\ req'[r].state = "sent"
         /\ req'[r].before = used /\ req'[r].gone = retired
         /\ draws' = draws + Len(ts)
         /\ UNCHANGED <<ctr, ttl, used, retired>>
  <1> DEFINE q == [Unsent EXCEPT !.op = op, !.tags = ts, !.state = "sent",
                                 !.before = used, !.gone = retired]
  <1>1. /\ q \in RequestType
        /\ q.op = op /\ q.tags = ts /\ q.state = "sent"
        /\ q.before = used /\ q.gone = retired
    <2>1. <<>> \in Seq(Generation) /\ ts \in Seq(Counter)
      BY EmptySeq, TagListOf
    <2> QED  BY <2>1 DEF Unsent, RequestType, TypeInv
  <1>2. /\ req' = [req EXCEPT ![r] = q]
        /\ todo' = [todo EXCEPT ![r] = commands]
        /\ draws' = draws + Len(ts)
        /\ UNCHANGED <<ctr, ttl, used, retired>>
    BY DEF Send, redis
  <1>3. Len(ts) \in Nat
    BY TagListOf
  <1> HIDE DEF q
  <1> QED  BY <1>1, <1>2, <1>3 DEF TypeInv

(* A call is over.                                                         *)
LEMMA OverIs ==
  ASSUME TypeInv, NEW r \in Request, NEW state \in {"ok", "failed"},
         Over(r, state)
  PROVE  /\ req' \in [Request -> RequestType]
         /\ \A o \in Request \ {r} : req'[o] = req[o]
         /\ req'[r].op = "none" /\ req'[r].state = state
  <1> DEFINE q == [Unsent EXCEPT !.state = state]
  <1>1. q \in RequestType
    BY UnsentTyped
  <1>2. q.op = "none" /\ q.state = state
    BY DEF Unsent
  <1>3. req' = [req EXCEPT ![r] = q]
    BY DEF Over
  <1> HIDE DEF q
  <1> QED  BY <1>1, <1>2, <1>3 DEF TypeInv

(* The next command of a pipeline is run.                                  *)
LEMMA RunIs ==
  ASSUME TypeInv, NEW r \in Request, todo[r] # <<>>,
         todo' = [todo EXCEPT ![r] = Tail(@)]
  PROVE  /\ todo' \in [Request -> Seq(CommandType)]
         /\ Head(todo[r]) \in CommandType /\ Head(todo[r]) = todo[r][1]
         /\ \A o \in Request \ {r} : todo'[o] = todo[o]
         /\ Len(todo[r]) \in Nat \ {0} /\ Len(todo'[r]) = Len(todo[r]) - 1
         /\ \A i \in 1..Len(todo'[r]) : todo'[r][i] = todo[r][i + 1]
         /\ (todo'[r] = <<>>) <=> (Len(todo[r]) = 1)
  <1>1. todo[r] \in Seq(CommandType)
    BY DEF TypeInv
  <1>2. Len(todo[r]) \in Nat \ {0}
    BY <1>1, EmptySeq
  <1>3. /\ todo'[r] = Tail(todo[r])
        /\ \A o \in Request \ {r} : todo'[o] = todo[o]
    BY DEF TypeInv
  <1>4. /\ Tail(todo[r]) \in Seq(CommandType)
        /\ Head(todo[r]) \in CommandType /\ Head(todo[r]) = todo[r][1]
        /\ Len(Tail(todo[r])) = Len(todo[r]) - 1
        /\ \A i \in 1..Len(Tail(todo[r])) : Tail(todo[r])[i] = todo[r][i + 1]
        /\ (Tail(todo[r]) = <<>>) <=> (Len(todo[r]) = 1)
    BY <1>1, TailOf
  <1>5. todo' \in [Request -> Seq(CommandType)]
    BY <1>4 DEF TypeInv
  <1> QED  BY <1>2, <1>3, <1>4, <1>5

LEMMA Commands ==
  ASSUME NEW c \in CommandType
  PROVE  /\ c.cmd \in {"SETNX", "INCR", "PEXPIRE", "MGET"}
         /\ c.cmd \in {"SETNX", "INCR", "PEXPIRE"} => c.tag \in Counter
         /\ c.cmd = "SETNX" => /\ c.gen \in Generation /\ c.gen[1] # 0
                               /\ c.gen[2] = 0 /\ c.gen # NoGeneration
         /\ c.cmd = "MGET" => c.tag \in Seq(Counter)
  BY DEF CommandType, Generation, NoGeneration

LEMMA InitTyped == Init => TypeInv
  <1> SUFFICES ASSUME Init PROVE TypeInv
    OBVIOUS
  <1>1. NoGeneration \in Generation
    BY DEF NoGeneration, Generation
  <1>2. Unsent \in RequestType
    <2>1. <<>> \in Seq(Counter) /\ <<>> \in Seq(Generation)
      BY EmptySeq
    <2> QED  BY <2>1 DEF Unsent, RequestType, History
  <1>3. <<>> \in Seq(CommandType)
    BY EmptySeq
  <1> QED  BY <1>1, <1>2, <1>3 DEF Init, TypeInv, History

LEMMA StepTyped == TypeInv /\ [Next]_vars => TypeInv'
  <1> SUFFICES ASSUME TypeInv, [Next]_vars PROVE TypeInv'
    OBVIOUS
  <1>g. NoGeneration \in Generation /\ \A g \in Generation : Advance(g) \in Generation
    BY DEF NoGeneration, Generation, Advance
  <1>h. ASSUME NEW t \in Counter, NEW g \in Generation, Hold(t, g)
        PROVE  ctr' \in [Counter -> Generation] /\ used' \in History
    BY <1>h DEF Hold, TypeInv, History
  <1>n. ASSUME NEW r \in Request, NEW cmd, IsNext(r, cmd)
        PROVE  todo[r] # <<>> /\ Head(todo[r]).cmd = cmd
    BY <1>n DEF IsNext
  <1>1. ASSUME NEW r \in Request, NEW ts \in TagLists,
               GetTagged(r, ts) \/ Bump(r, ts)
        PROVE  TypeInv'
    <2>1. draws \in Nat
      BY DEF TypeInv
    <2> QED
      BY <1>1, <2>1, ReadPipelineIs, BumpPipelineIs, SendIs DEF GetTagged, Bump
  <1>2. ASSUME NEW r \in Request, SetNX(r)
        PROVE  TypeInv'
    <2>1. /\ todo' \in [Request -> Seq(CommandType)]
          /\ Head(todo[r]).tag \in Counter /\ Head(todo[r]).gen \in Generation
      BY <1>2, <1>n, RunIs, Commands DEF SetNX
    <2>2. ttl' \in [Counter -> BOOLEAN]
      BY <1>2, <2>1 DEF SetNX, TypeInv
    <2>3. ctr' \in [Counter -> Generation] /\ used' \in History
      BY <1>2, <1>h, <2>1 DEF SetNX, TypeInv
    <2> QED  BY <1>2, <2>1, <2>2, <2>3 DEF SetNX, TypeInv
  <1>3. ASSUME NEW r \in Request, Incr(r)
        PROVE  TypeInv'
    <2>1. todo' \in [Request -> Seq(CommandType)] /\ Head(todo[r]).tag \in Counter
      BY <1>3, <1>n, RunIs, Commands DEF Incr
    <2>2. Advance(ctr[Head(todo[r]).tag]) \in Generation
      BY <1>g, <2>1 DEF TypeInv
    <2> QED  BY <1>3, <2>1, <2>2 DEF Incr, Hold, TypeInv, History
  <1>4. ASSUME NEW r \in Request, PExpire(r)
        PROVE  TypeInv'
    <2>1. todo' \in [Request -> Seq(CommandType)] /\ Head(todo[r]).tag \in Counter
      BY <1>4, <1>n, RunIs, Commands DEF PExpire
    <2> QED  BY <1>4, <2>1 DEF PExpire, TypeInv, History
  <1>5. ASSUME NEW r \in Request, MGet(r)
        PROVE  TypeInv'
    <2> DEFINE ts == Head(todo[r]).tag
    <2>1. todo' \in [Request -> Seq(CommandType)] /\ ts \in Seq(Counter)
      BY <1>5, <1>n, RunIs, Commands DEF MGet
    <2>2. [n \in DOMAIN ts |-> ctr[ts[n]]] \in Seq(Generation)
      <3>1. DOMAIN ts = 1..Len(ts) /\ Len(ts) \in Nat /\ ts \in [1..Len(ts) -> Counter]
        BY <2>1, LenProperties
      <3> HIDE DEF ts
      <3> QED  BY <3>1 DEF TypeInv
    <2>3. req' \in [Request -> RequestType]
      BY <1>5, <2>2 DEF MGet, TypeInv, RequestType
    <2> QED  BY <1>5, <2>1, <2>3 DEF MGet, redis, TypeInv
  <1>6. ASSUME NEW r \in Request, Cut(r)
        PROVE  TypeInv'
    <2>1. <<>> \in Seq(CommandType)
      BY EmptySeq
    <2> QED  BY <1>6, <2>1, OverIs DEF Cut, redis, TypeInv
  <1>7. ASSUME NEW r \in Request, Refuse(r) \/ GiveUp(r)
        PROVE  TypeInv'
    BY <1>7, OverIs DEF Refuse, GiveUp, redis, TypeInv
  <1>8. ASSUME NEW r \in Request, ReadReturns(r)
        PROVE  TypeInv'
    <2>1. CASE Over(r, "failed")
      BY <1>8, <2>1, OverIs DEF ReadReturns, redis, TypeInv
    <2>2. CASE req' = [req EXCEPT ![r].state = "ok"]
      <3>1. req' \in [Request -> RequestType]
        BY <2>2 DEF TypeInv, RequestType
      <3> QED  BY <1>8, <3>1 DEF ReadReturns, redis, TypeInv
    <2> QED  BY <1>8, <2>1, <2>2 DEF ReadReturns
  <1>9. ASSUME NEW r \in Request, BumpReturns(r)
        PROVE  TypeInv'
    <2>1. retired' \in History
      <3>1. \A t \in Counter :
              /\ retired[t] \in SUBSET Generation
              /\ req[r].before[t] \in SUBSET Generation
        BY DEF TypeInv, History, RequestType
      <3> QED  BY <1>9, <3>1 DEF BumpReturns, History
    <2> QED  BY <1>9, <2>1, OverIs DEF BumpReturns, redis, TypeInv
  <1>10. ASSUME NEW t \in Counter, Lose(t)
         PROVE  TypeInv'
    BY <1>10, <1>g DEF Lose, TypeInv
  <1>11. CASE UNCHANGED vars
    BY <1>11 DEF vars, redis, TypeInv
  <1> QED
    BY <1>1, <1>2, <1>3, <1>4, <1>5, <1>6, <1>7, <1>8, <1>9, <1>10, <1>11
       DEF Next, Server, Client

-----------------------------------------------------------------------------
(* Reads.                                                                  *)

LEMMA PipelinesOrdered ==
  ASSUME NEW ts \in TagLists, draws \in Nat
  PROVE  Ordered(ReadPipeline(ts)) /\ Ordered(BumpPipeline(ts))
  <1>l. Len(ts) \in Nat \ {0}
    BY TagListOf
  <1>c. \A n : /\ SetNXOf(ts, n).cmd = "SETNX" /\ SetNXOf(ts, n).tag = ts[n]
               /\ IncrOf(ts, n).cmd = "INCR" /\ IncrOf(ts, n).tag = ts[n]
               /\ PExpireOf(ts, n).cmd = "PEXPIRE"
    BY DEF SetNXOf, IncrOf, PExpireOf, Command
  <1>1. Ordered(ReadPipeline(ts))
    <2> DEFINE s == ReadPipeline(ts)
    <2>1. /\ Len(s) = Len(ts) + 1 /\ s[Len(ts) + 1].cmd = "MGET"
          /\ \A i \in 1..Len(ts) : s[i].cmd = "SETNX"
      <3>1. Command("MGET", ts, NoGeneration).cmd = "MGET"
        BY DEF Command
      <3>2. /\ Len(s) = Len(ts) + 1
            /\ s[Len(ts) + 1] = Command("MGET", ts, NoGeneration)
            /\ \A i \in 1..Len(ts) : s[i] = SetNXOf(ts, i)
        BY ReadPipelineIs
      <3> HIDE DEF s
      <3> QED  BY <1>c, <3>1, <3>2
    <2> HIDE DEF s
    <2>2. \A i \in 1..Len(s) : /\ s[i].cmd # "INCR"
                               /\ s[i].cmd = "MGET" => i = Len(s)
      BY <1>l, <2>1
    <2>3. Ordered(s)
      BY <2>2 DEF Ordered
    <2> QED  BY <2>3 DEF s
  <1>2. Ordered(BumpPipeline(ts))
    <2> DEFINE s == BumpPipeline(ts)
    <2>1. /\ Len(s) = 3 * Len(ts)
          /\ \A n \in 1..Len(ts) :
               /\ s[3 * n - 2].cmd = "SETNX" /\ s[3 * n - 2].tag = ts[n]
               /\ s[3 * n - 1].cmd = "INCR" /\ s[3 * n - 1].tag = ts[n]
               /\ s[3 * n].cmd = "PEXPIRE"
          /\ \A i \in 1..Len(s) : \E n \in 1..Len(ts) :
               i \in {3 * n - 2, 3 * n - 1, 3 * n}
      BY <1>c, BumpPipelineIs
    <2> HIDE DEF s
    <2>2. ASSUME NEW i \in 1..Len(s)
          PROVE  /\ s[i].cmd = "INCR" =>
                      s[i - 1].cmd = "SETNX" /\ s[i - 1].tag = s[i].tag
                 /\ s[i].cmd # "MGET"
      <3>1. PICK n \in 1..Len(ts) : i \in {3 * n - 2, 3 * n - 1, 3 * n}
        BY <2>1
      <3>2. (3 * n - 1) - 1 = 3 * n - 2
        BY <1>l
      <3>3. CASE i = 3 * n - 2
        BY <2>1, <3>3
      <3>4. CASE i = 3 * n - 1
        BY <2>1, <3>2, <3>4
      <3>5. CASE i = 3 * n
        BY <2>1, <3>5
      <3> QED  BY <3>1, <3>3, <3>4, <3>5
    <2>3. Ordered(s)
      BY <2>2 DEF Ordered
    <2> QED  BY <2>3 DEF s
  <1> QED  BY <1>1, <1>2

(* What is left of an ordered pipeline is ordered.                         *)
LEMMA RunOrdered ==
  ASSUME TypeInv, NEW r \in Request, todo[r] # <<>>, Ordered(todo[r]),
         todo' = [todo EXCEPT ![r] = Tail(@)]
  PROVE  Ordered(todo[r])'
  <1> DEFINE s == todo[r]
             s2 == todo'[r]
  <1>1. /\ Len(s) \in Nat \ {0} /\ Len(s2) = Len(s) - 1
        /\ \A i \in 1..Len(s2) : s2[i] = s[i + 1]
    BY RunIs
  <1>2. Ordered(s)
    OBVIOUS
  <1> HIDE DEF s, s2
  <1>3. ASSUME NEW i \in 1..Len(s2)
        PROVE  /\ s2[i].cmd = "INCR" /\ i > 1 =>
                    s2[i - 1].cmd = "SETNX" /\ s2[i - 1].tag = s2[i].tag
               /\ s2[i].cmd = "MGET" => i = Len(s2)
    <2>1. i \in Nat \ {0} /\ i + 1 \in 1..Len(s) /\ (i + 1) - 1 = i
      BY <1>1
    <2>2. s2[i] = s[i + 1] /\ (i > 1 => s2[i - 1] = s[i])
      BY <1>1, <2>1
    <2> QED  BY <1>1, <1>2, <2>1, <2>2 DEF Ordered
  <1>4. Ordered(s2)
    BY <1>3 DEF Ordered
  <1> QED  BY <1>4 DEF s2

(* Running a command that is not its MGET leaves a read as it was.         *)
LEMMA RunRead ==
  ASSUME TypeInv, NEW r \in Request, todo[r] # <<>>,
         todo' = [todo EXCEPT ![r] = Tail(@)], Head(todo[r]).cmd # "MGET",
         NEW q, NEW held, NEW held2, ReadOK(q, todo[r], held)
  PROVE  /\ ReadOK(q, todo'[r], held2)
         /\ q.op = "GetTagged" /\ q.state \in {"sent", "ok"} =>
              todo'[r] # <<>>
  <1> DEFINE s == todo[r]
             s2 == todo'[r]
  <1>1. /\ Len(s) \in Nat \ {0} /\ Len(s2) = Len(s) - 1
        /\ \A i \in 1..Len(s2) : s2[i] = s[i + 1]
        /\ (s2 = <<>>) <=> (Len(s) = 1)
        /\ s[1].cmd # "MGET" /\ s # <<>>
    BY RunIs
  <1>2. ReadOK(q, s, held)
    OBVIOUS
  <1> HIDE DEF s, s2
  <1>3. ASSUME q.op = "GetTagged", q.state \in {"sent", "ok"}
        PROVE  /\ s2 # <<>> /\ q.state = "sent"
               /\ s2[Len(s2)].cmd = "MGET" /\ s2[Len(s2)].tag = q.tags
    <2>1. q.state = "sent" /\ s[Len(s)].cmd = "MGET" /\ s[Len(s)].tag = q.tags
      BY <1>1, <1>2, <1>3 DEF ReadOK
    <2>2. Len(s) # 1 /\ s2[Len(s2)] = s[Len(s)]
      BY <1>1, <2>1
    <2> QED  BY <1>1, <2>1, <2>2
  <1>4. ReadOK(q, s2, held2)
    BY <1>3 DEF ReadOK
  <1> QED  BY <1>3, <1>4 DEF s2

(* More has been held since.                                               *)
LEMMA ReadStays ==
  ASSUME NEW q, NEW s, NEW held, NEW held2, q \in RequestType,
         \A t \in Counter : held[t] \subseteq held2[t], ReadOK(q, s, held)
  PROVE  ReadOK(q, s, held2)
  <1>1. \A n \in DOMAIN q.tags : q.tags[n] \in Counter
    <2>1. q.tags \in Seq(Counter)
      BY DEF RequestType
    <2> QED  BY <2>1, LenProperties
  <1> QED  BY <1>1 DEF ReadOK

(* A step that runs a command, or none.                                    *)
LEMMA ReadNext ==
  ASSUME TypeInv, ReadInv,
         \A t \in Counter : used[t] \subseteq used'[t],
         \A t \in Counter : ctr'[t] = NoGeneration \/ ctr'[t] \in used'[t],
         NEW r \in Request,
         \A o \in Request \ {r} : todo'[o] = todo[o] /\ req'[o] = req[o],
         Ordered(todo[r])', ReadOK(req[r], todo[r], used)'
  PROVE  ReadInv'
  <1>1. ASSUME NEW o \in Request
        PROVE  Ordered(todo[o])' /\ ReadOK(req[o], todo[o], used)'
    <2>1. CASE o = r
      BY <2>1
    <2>2. CASE o # r
      <3>1. req[o] \in RequestType
        BY DEF TypeInv
      <3>2. ReadOK(req[o], todo[o], used')
        BY <3>1, ReadStays DEF ReadInv
      <3> QED  BY <2>2, <3>2 DEF ReadInv
    <2> QED  BY <2>1, <2>2
  <1> QED  BY <1>1 DEF ReadInv

(* What is held after a command that writes a counter.                     *)
LEMMA HoldIs ==
  ASSUME TypeInv, NEW t \in Counter, NEW gen, Hold(t, gen)
  PROVE  /\ ctr'[t] = gen /\ used'[t] = used[t] \cup {gen}
         /\ \A o \in Counter \ {t} : ctr'[o] = ctr[o] /\ used'[o] = used[o]
  BY DEF Hold, TypeInv, History

LEMMA ReadInvStep == TypeInv /\ ReadInv /\ [Next]_vars => ReadInv'
  <1> SUFFICES ASSUME TypeInv, ReadInv, [Next]_vars PROVE ReadInv'
    OBVIOUS
  <1>n. ASSUME NEW r \in Request, NEW cmd, IsNext(r, cmd)
        PROVE  todo[r] # <<>> /\ Head(todo[r]).cmd = cmd
    BY <1>n DEF IsNext
  <1>c. ASSUME NEW r \in Request, NEW t \in Counter, NEW gen,
               \/ Hold(t, gen)
               \/ UNCHANGED <<ctr, used>>,
               todo[r] # <<>>, todo' = [todo EXCEPT ![r] = Tail(@)],
               Head(todo[r]).cmd # "MGET", UNCHANGED req
        PROVE  ReadInv'
    <2>1. /\ \A u \in Counter : used[u] \subseteq used'[u]
          /\ \A u \in Counter : ctr'[u] = NoGeneration \/ ctr'[u] \in used'[u]
      BY <1>c, HoldIs DEF ReadInv
    <2>2. Ordered(todo[r])' /\ \A o \in Request \ {r} : todo'[o] = todo[o]
      BY <1>c, RunIs, RunOrdered DEF ReadInv
    <2>3. ReadOK(req[r], todo'[r], used')
      BY <1>c, RunRead DEF ReadInv
    <2> QED  BY <1>c, <2>1, <2>2, <2>3, ReadNext
  <1>o. ASSUME NEW r \in Request, UNCHANGED <<ctr, used, todo>>,
               \A o \in Request \ {r} : req'[o] = req[o],
               ReadOK(req[r], todo[r], used)'
        PROVE  ReadInv'
    BY <1>o, ReadNext DEF ReadInv
  <1>1. ASSUME NEW r \in Request, NEW ts \in TagLists, GetTagged(r, ts)
        PROVE  ReadInv'
    <2> DEFINE s == ReadPipeline(ts)
    <2>d. draws \in Nat /\ Len(ts) \in Nat \ {0}
      BY TagListOf DEF TypeInv
    <2>1. /\ s \in Seq(CommandType) /\ Len(s) = Len(ts) + 1
          /\ s[Len(ts) + 1] = Command("MGET", ts, NoGeneration)
      BY <2>d, ReadPipelineIs
    <2>2. Ordered(s)
      BY <2>d, PipelinesOrdered
    <2> HIDE DEF s
    <2>3. s # <<>> /\ s[Len(s)].cmd = "MGET" /\ s[Len(s)].tag = ts
      BY <2>1, <2>d, EmptySeq DEF Command
    <2>4. /\ \A o \in Request \ {r} : todo'[o] = todo[o] /\ req'[o] = req[o]
          /\ todo'[r] = s /\ req'[r].tags = ts /\ req'[r].state = "sent"
          /\ UNCHANGED <<ctr, used>>
      BY <1>1, <2>1, SendIs DEF GetTagged, s
    <2>5. ReadOK(req[r], todo[r], used)'
      BY <2>3, <2>4 DEF ReadOK
    <2> QED  BY <2>2, <2>4, <2>5, ReadNext DEF ReadInv
  <1>2. ASSUME NEW r \in Request, NEW ts \in TagLists, Bump(r, ts)
        PROVE  ReadInv'
    <2>d. draws \in Nat
      BY DEF TypeInv
    <2>1. BumpPipeline(ts) \in Seq(CommandType) /\ Ordered(BumpPipeline(ts))
      BY <2>d, BumpPipelineIs, PipelinesOrdered
    <2>2. /\ \A o \in Request \ {r} : todo'[o] = todo[o] /\ req'[o] = req[o]
          /\ todo'[r] = BumpPipeline(ts) /\ req'[r].op = "Bump"
          /\ UNCHANGED <<ctr, used>>
      BY <1>2, <2>1, SendIs DEF Bump
    <2>3. ReadOK(req[r], todo[r], used)'
      BY <2>2 DEF ReadOK
    <2> QED  BY <2>1, <2>2, <2>3, ReadNext DEF ReadInv
  <1>3. ASSUME NEW r \in Request, SetNX(r)
        PROVE  ReadInv'
    <2>1. todo[r] # <<>> /\ Head(todo[r]).cmd = "SETNX" /\ Head(todo[r]).tag \in Counter
      BY <1>3, <1>n, RunIs, Commands DEF SetNX
    <2> QED  BY <1>3, <1>c, <2>1 DEF SetNX
  <1>4. ASSUME NEW r \in Request, Incr(r)
        PROVE  ReadInv'
    <2>1. todo[r] # <<>> /\ Head(todo[r]).cmd = "INCR" /\ Head(todo[r]).tag \in Counter
      BY <1>4, <1>n, RunIs, Commands DEF Incr
    <2> QED  BY <1>4, <1>c, <2>1 DEF Incr
  <1>5. ASSUME NEW r \in Request, PExpire(r)
        PROVE  ReadInv'
    <2>1. todo[r] # <<>> /\ Head(todo[r]).cmd = "PEXPIRE" /\ Head(todo[r]).tag \in Counter
      BY <1>5, <1>n, RunIs, Commands DEF PExpire
    <2> QED  BY <1>5, <1>c, <2>1 DEF PExpire
  <1>6. ASSUME NEW r \in Request, MGet(r)
        PROVE  ReadInv'
    <2> DEFINE q == req[r]
               s == todo[r]
               ts == Head(s).tag
    <2>1. s # <<>> /\ s[1].cmd = "MGET" /\ Head(s) = s[1] /\ ts \in Seq(Counter)
      BY <1>6, <1>n, RunIs, Commands DEF MGet
    <2>2. Len(s) = 1 /\ todo'[r] = <<>> /\ \A o \in Request \ {r} : todo'[o] = todo[o]
      <3>1. Len(s) \in Nat \ {0}
        BY <1>6, <2>1, RunIs DEF MGet
      <3>2. Len(s) = 1
        <4>1. Ordered(s) /\ 1 \in 1..Len(s)
          BY <3>1 DEF ReadInv
        <4> HIDE DEF s
        <4> QED  BY <2>1, <4>1 DEF Ordered
      <3> QED  BY <1>6, <2>1, <3>2, RunIs DEF MGet
    <2>3. UNCHANGED <<ctr, used>> /\ \A o \in Request \ {r} : req'[o] = req[o]
      BY <1>6 DEF MGet, redis, TypeInv
    <2>4. CASE q.op = "GetTagged" /\ q.state = "sent"
      <3>1. ts = q.tags
        BY <2>1, <2>2, <2>4 DEF ReadInv, ReadOK
      <3>2. /\ req'[r].gens = [n \in DOMAIN ts |-> ctr[ts[n]]]
            /\ req'[r].tags = q.tags /\ req'[r].state = "sent"
        BY <1>6, <2>4 DEF MGet, TypeInv, RequestType
      <3>3. \A n \in DOMAIN ts : ts[n] \in Counter
        BY <2>1, LenProperties
      <3> HIDE DEF q, ts
      <3>4. ReadOK(req[r], todo[r], used)'
        BY <2>2, <2>3, <3>1, <3>2, <3>3 DEF ReadInv, ReadOK
      <3> QED
        BY <2>2, <2>3, <3>4, ReadNext, RunOrdered, <1>6, <2>1 DEF ReadInv, MGet
    <2>5. CASE ~(q.op = "GetTagged" /\ q.state = "sent")
      <3>1. req'[r].op = q.op /\ (q.op = "GetTagged" => req'[r].state = q.state)
        BY <1>6, <2>5 DEF MGet, TypeInv, RequestType
      <3>2. ReadOK(req[r], todo[r], used)'
        BY <2>1, <2>5, <3>1 DEF ReadInv, ReadOK
      <3> QED
        BY <2>2, <2>3, <3>2, ReadNext, RunOrdered, <1>6, <2>1 DEF ReadInv, MGet
    <2> QED  BY <2>4, <2>5
  <1>7. ASSUME NEW r \in Request, Cut(r)
        PROVE  ReadInv'
    <2>1. /\ todo'[r] = <<>> /\ \A o \in Request \ {r} : todo'[o] = todo[o]
          /\ UNCHANGED <<ctr, used>>
      BY <1>7 DEF Cut, redis, TypeInv
    <2>2. req'[r].op = "none" /\ \A o \in Request \ {r} : req'[o] = req[o]
      BY <1>7, OverIs DEF Cut
    <2>3. Ordered(todo[r])' /\ ReadOK(req[r], todo[r], used)'
      BY <2>1, <2>2 DEF Ordered, ReadOK
    <2> QED  BY <2>1, <2>2, <2>3, ReadNext DEF ReadInv
  <1>8. ASSUME NEW r \in Request, NEW state \in {"ok", "failed"}, Over(r, state),
               UNCHANGED <<ctr, used, todo>>
        PROVE  ReadInv'
    <2>1. req'[r].op = "none" /\ \A o \in Request \ {r} : req'[o] = req[o]
      BY <1>8, OverIs
    <2>2. ReadOK(req[r], todo[r], used)'
      BY <2>1 DEF ReadOK
    <2> QED  BY <1>8, <1>o, <2>1, <2>2
  <1>9. ASSUME NEW r \in Request, ReadReturns(r)
        PROVE  ReadInv'
    <2>u. UNCHANGED <<ctr, used, todo>>
      BY <1>9 DEF ReadReturns, redis
    <2>1. CASE Over(r, "failed")
      BY <1>8, <2>1, <2>u
    <2>2. CASE /\ \A n \in DOMAIN req[r].gens : req[r].gens[n] # NoGeneration
               /\ req' = [req EXCEPT ![r].state = "ok"]
      <3>1. /\ req'[r].gens = req[r].gens /\ req'[r].tags = req[r].tags
            /\ \A o \in Request \ {r} : req'[o] = req[o]
        BY <2>2 DEF TypeInv, RequestType
      <3>2. /\ todo[r] = <<>> /\ req[r].op = "GetTagged"
            /\ req[r].state = "sent"
        BY <1>9 DEF ReadReturns
      <3>3. ReadOK(req[r], todo[r], used)'
        BY <2>2, <2>u, <3>1, <3>2 DEF ReadInv, ReadOK
      <3> QED  BY <1>o, <2>u, <3>1, <3>3
    <2> QED  BY <1>9, <2>1, <2>2 DEF ReadReturns
  <1>10. ASSUME NEW r \in Request, Refuse(r) \/ GiveUp(r) \/ BumpReturns(r)
         PROVE  ReadInv'
    BY <1>8, <1>10 DEF Refuse, GiveUp, BumpReturns, redis
  <1>11. ASSUME NEW t \in Counter, Lose(t)
         PROVE  ReadInv'
    BY <1>11 DEF Lose, TypeInv, ReadInv
  <1>12. CASE UNCHANGED vars
    BY <1>12 DEF vars, redis, ReadInv
  <1> QED
    BY <1>1, <1>2, <1>3, <1>4, <1>5, <1>6, <1>7, <1>9, <1>10, <1>11, <1>12
       DEF Next, Server, Client

LEMMA ReadInit == Init => ReadInv
  <1> SUFFICES ASSUME Init PROVE ReadInv
    OBVIOUS
  <1>1. \A r \in Request : todo[r] = <<>> /\ req[r].op = "none"
    BY DEF Init, Unsent
  <1>2. \A t \in Counter : ctr[t] = NoGeneration
    BY DEF Init
  <1>3. Ordered(<<>>)
    BY DEF Ordered
  <1> QED  BY <1>1, <1>2, <1>3 DEF ReadInv, ReadOK

(* GetTagged of redisstore: a read that succeeds was given, for each of    *)
(* its tags, a generation that tag's counter held, whatever ran between    *)
(* its SETNXs and its MGET, and whatever was lost meanwhile.               *)
THEOREM ReadsHold == Spec => []ReadsRealGenerations
  <1>1. Init => TypeInv /\ ReadInv
    BY InitTyped, ReadInit
  <1>2. TypeInv /\ ReadInv => ReadsRealGenerations
    <2> SUFFICES ASSUME ReadInv, NEW r \in Request,
                        req[r].op = "GetTagged", req[r].state = "ok"
                 PROVE  /\ DOMAIN req[r].gens = DOMAIN req[r].tags
                        /\ \A n \in DOMAIN req[r].tags :
                             req[r].gens[n] \in used[req[r].tags[n]]
      BY DEF ReadsRealGenerations
    <2> QED  BY DEF ReadInv, ReadOK
  <1> QED  BY <1>1, <1>2, StepTyped, ReadInvStep, PTL DEF Spec

-----------------------------------------------------------------------------
(* Draws.                                                                  *)

(* The draws of a pipeline are new, and each has its place.                *)
LEMMA PipelineWaits ==
  ASSUME NEW ts \in TagLists, draws \in Nat,
         NEW s, s = ReadPipeline(ts) \/ s = BumpPipeline(ts)
  PROVE  /\ s \in Seq(CommandType) /\ s # <<>> /\ s[1].cmd # "INCR"
         /\ \A i \in Waiting(s) : s[i].gen[1] \in (draws + 1)..(draws + Len(ts))
         /\ \A i, j \in Waiting(s) : s[i].gen[1] = s[j].gen[1] => i = j
  <1>l. Len(ts) \in Nat \ {0}
    BY TagListOf
  <1>c. \A n \in 1..Len(ts) :
          /\ SetNXOf(ts, n).cmd = "SETNX" /\ SetNXOf(ts, n).gen[1] = draws + n
          /\ IncrOf(ts, n).cmd = "INCR" /\ PExpireOf(ts, n).cmd = "PEXPIRE"
    BY DEF SetNXOf, IncrOf, PExpireOf, Command, NewGeneration
  <1>1. CASE s = ReadPipeline(ts)
    <2>1. /\ s \in Seq(CommandType) /\ Len(s) = Len(ts) + 1
          /\ s[Len(ts) + 1] = Command("MGET", ts, NoGeneration)
          /\ \A i \in 1..Len(ts) : s[i] = SetNXOf(ts, i)
      BY <1>1, ReadPipelineIs
    <2>2. s[Len(ts) + 1].cmd # "SETNX"
      BY <2>1 DEF Command
    <2>3. ASSUME NEW i \in Waiting(s)
          PROVE  i \in 1..Len(ts) /\ s[i].gen[1] = draws + i
      BY <1>c, <1>l, <2>1, <2>2 DEF Waiting
    <2>4. s # <<>> /\ s[1].cmd # "INCR"
      BY <1>c, <1>l, <2>1, EmptySeq
    <2>5. \A i \in Waiting(s) : s[i].gen[1] \in (draws + 1)..(draws + Len(ts))
      BY <1>l, <2>3
    <2>6. \A i, j \in Waiting(s) : s[i].gen[1] = s[j].gen[1] => i = j
      BY <1>l, <2>3
    <2> QED  BY <2>1, <2>4, <2>5, <2>6
  <1>2. CASE s = BumpPipeline(ts)
    <2>1. /\ s \in Seq(CommandType) /\ Len(s) = 3 * Len(ts)
          /\ \A n \in 1..Len(ts) : /\ s[3 * n - 2] = SetNXOf(ts, n)
                                   /\ s[3 * n - 1] = IncrOf(ts, n)
                                   /\ s[3 * n] = PExpireOf(ts, n)
          /\ \A i \in 1..Len(s) : \E n \in 1..Len(ts) :
               i \in {3 * n - 2, 3 * n - 1, 3 * n}
      BY <1>2, BumpPipelineIs
    <2>2. ASSUME NEW i \in Waiting(s)
          PROVE  \E n \in 1..Len(ts) : i = 3 * n - 2 /\ s[i].gen[1] = draws + n
      <3>1. i \in 1..Len(s) /\ s[i].cmd = "SETNX"
        BY DEF Waiting
      <3>2. PICK n \in 1..Len(ts) : i \in {3 * n - 2, 3 * n - 1, 3 * n}
        BY <2>1, <3>1
      <3>3. i # 3 * n - 1 /\ i # 3 * n
        BY <1>c, <2>1, <3>1
      <3>4. i = 3 * n - 2 /\ s[i].gen[1] = draws + n
        BY <1>c, <2>1, <3>1, <3>2, <3>3
      <3> QED  BY <3>4
    <2>3. s # <<>> /\ s[1].cmd # "INCR"
      <3>1. 1 \in 1..Len(ts) /\ 3 * 1 - 2 = 1
        BY <1>l
      <3>2. s[1] = SetNXOf(ts, 1)
        BY <2>1, <3>1
      <3> QED  BY <1>c, <1>l, <2>1, <3>1, <3>2, EmptySeq
    <2>4. \A i \in Waiting(s) : s[i].gen[1] \in (draws + 1)..(draws + Len(ts))
      BY <1>l, <2>2
    <2>5. ASSUME NEW i \in Waiting(s), NEW j \in Waiting(s),
                 s[i].gen[1] = s[j].gen[1]
          PROVE  i = j
      <3>1. PICK n \in 1..Len(ts) : i = 3 * n - 2 /\ s[i].gen[1] = draws + n
        BY <2>2
      <3>2. PICK m \in 1..Len(ts) : j = 3 * m - 2 /\ s[j].gen[1] = draws + m
        BY <2>2
      <3>3. n = m
        BY <1>l, <2>5, <3>1, <3>2
      <3> QED  BY <3>1, <3>2, <3>3
    <2> QED  BY <2>1, <2>3, <2>4, <2>5
  <1> QED  BY <1>1, <1>2

(* Sending makes draws wait that no one has.                               *)
LEMMA DrawsSend ==
  ASSUME TypeInv, DrawsOK, LastOK, NEW r \in Request, NEW n \in Nat,
         draws' = draws + n, UNCHANGED used,
         \A o \in Request \ {r} : todo'[o] = todo[o], NEW s, todo'[r] = s,
         \A i \in Waiting(s) : s[i].gen[1] \in (draws + 1)..(draws + n),
         \A i, j \in Waiting(s) : s[i].gen[1] = s[j].gen[1] => i = j
  PROVE  DrawsOK'
  <1>d. draws \in Nat
    BY DEF TypeInv
  <1>1. ASSUME NEW i \in Waiting(s)
        PROVE  /\ s[i].gen[1] \in 1..draws' /\ s[i].gen[1] \notin 1..draws
               /\ \A t \in Counter : \A g \in used[t] : g[1] # s[i].gen[1]
    BY <1>d DEF LastOK
  <1>2. ASSUME NEW o \in Request \ {r}, NEW i \in Waiting(todo[o])
        PROVE  /\ todo[o][i].gen[1] \in 1..draws
               /\ todo[o][i].gen[1] \in 1..draws'
               /\ \A t \in Counter : \A g \in used[t] : g[1] # todo[o][i].gen[1]
    BY <1>d DEF DrawsOK
  <1>3. ASSUME NEW o \in Request, NEW i \in Waiting(todo'[o])
        PROVE  /\ todo'[o][i].gen[1] \in 1..draws'
               /\ \A t \in Counter : \A g \in used[t] : g[1] # todo'[o][i].gen[1]
               /\ (todo'[o][i].gen[1] \in 1..draws) <=> (o # r)
    BY <1>1, <1>2
  <1>4. ASSUME NEW o \in Request, NEW u \in Request,
               NEW i \in Waiting(todo'[o]), NEW j \in Waiting(todo'[u]),
               todo'[o][i].gen[1] = todo'[u][j].gen[1]
        PROVE  o = u /\ i = j
    <2>1. (o = r) <=> (u = r)
      BY <1>3, <1>4
    <2>2. CASE o = r /\ u = r
      BY <1>4, <2>2
    <2>3. CASE o # r /\ u # r
      BY <1>4, <2>3 DEF DrawsOK
    <2> QED  BY <2>1, <2>2, <2>3
  <1> QED  BY <1>3, <1>4 DEF DrawsOK

(* Running a command spends at most its own draw.                          *)
LEMMA DrawsRun ==
  ASSUME TypeInv, DrawsOK, NEW r \in Request, todo[r] # <<>>,
         todo' = [todo EXCEPT ![r] = Tail(@)], UNCHANGED draws,
         \A t \in Counter : \A g \in used'[t] :
           \/ 1 \in Waiting(todo[r]) /\ g[1] = todo[r][1].gen[1]
           \/ \E g2 \in used[t] : g2[1] = g[1]
  PROVE  DrawsOK'
  <1>r. /\ Len(todo[r]) \in Nat \ {0} /\ Len(todo'[r]) = Len(todo[r]) - 1
        /\ \A i \in 1..Len(todo'[r]) : todo'[r][i] = todo[r][i + 1]
        /\ \A o \in Request \ {r} : todo'[o] = todo[o]
    BY RunIs
  <1> DEFINE At(o, i) == IF o = r THEN i + 1 ELSE i
  <1>1. ASSUME NEW o \in Request, NEW i \in Waiting(todo'[o])
        PROVE  /\ i \in Nat \ {0}
               /\ At(o, i) \in Waiting(todo[o]) /\ (o = r => At(o, i) # 1)
               /\ todo'[o][i] = todo[o][At(o, i)]
    <2>1. CASE o = r
      BY <1>r, <2>1 DEF Waiting
    <2>2. CASE o # r
      <3>1. todo[o] \in Seq(CommandType)
        BY DEF TypeInv
      <3> QED  BY <1>r, <2>2, <3>1 DEF Waiting
    <2> QED  BY <2>1, <2>2
  <1> HIDE DEF At
  <1>2. ASSUME NEW o \in Request, NEW i \in Waiting(todo'[o])
        PROVE  /\ todo'[o][i].gen[1] \in 1..draws
               /\ \A t \in Counter : \A g \in used'[t] :
                    g[1] # todo'[o][i].gen[1]
    <2> DEFINE k == At(o, i)
    <2>1. k \in Waiting(todo[o]) /\ todo'[o][i] = todo[o][k] /\ (o = r => k # 1)
      BY <1>1
    <2> HIDE DEF k
    <2>2. todo[o][k].gen[1] \in 1..draws
      BY <2>1 DEF DrawsOK
    <2>3. \A t \in Counter : \A g \in used[t] : g[1] # todo[o][k].gen[1]
      BY <2>1 DEF DrawsOK
    <2>4. 1 \in Waiting(todo[r]) => todo[r][1].gen[1] # todo[o][k].gen[1]
      BY <2>1 DEF DrawsOK
    <2>5. ASSUME NEW t \in Counter, NEW g \in used'[t]
          PROVE  g[1] # todo[o][k].gen[1]
      <3>1. CASE 1 \in Waiting(todo[r]) /\ g[1] = todo[r][1].gen[1]
        BY <2>4, <3>1
      <3>2. CASE \E g2 \in used[t] : g2[1] = g[1]
        BY <2>3, <3>2
      <3> QED  BY <3>1, <3>2
    <2> QED  BY <2>1, <2>2, <2>5
  <1>3. ASSUME NEW o \in Request, NEW u \in Request,
               NEW i \in Waiting(todo'[o]), NEW j \in Waiting(todo'[u]),
               todo'[o][i].gen[1] = todo'[u][j].gen[1]
        PROVE  o = u /\ i = j
    <2> DEFINE k == At(o, i)
               m == At(u, j)
    <2>1. /\ k \in Waiting(todo[o]) /\ todo'[o][i] = todo[o][k]
          /\ m \in Waiting(todo[u]) /\ todo'[u][j] = todo[u][m]
          /\ i \in Nat /\ j \in Nat
      BY <1>1
    <2> HIDE DEF k, m
    <2>2. o = u /\ k = m
      <3>1. todo[o][k].gen[1] = todo[u][m].gen[1]
        BY <1>3, <2>1
      <3>2. \A r1, r2 \in Request :
              \A i1 \in Waiting(todo[r1]), i2 \in Waiting(todo[r2]) :
                todo[r1][i1].gen[1] = todo[r2][i2].gen[1] => r1 = r2 /\ i1 = i2
        BY DEF DrawsOK
      <3> QED  BY ONLY <2>1, <3>1, <3>2, o \in Request, u \in Request
    <2> QED  BY <2>1, <2>2 DEF At, k, m
  <1>4. \A o \in Request : \A i \in Waiting(todo[o])' :
          /\ todo'[o][i].gen[1] \in 1..draws'
          /\ \A t \in Counter : \A g \in used'[t] : g[1] # todo'[o][i].gen[1]
    BY <1>2
  <1> QED  BY <1>3, <1>4 DEF DrawsOK

-----------------------------------------------------------------------------
(* The contract.                                                           *)

(* A counter stays, is lost, or takes a generation it never held.          *)
Renews(t) ==
    \/ ctr'[t] \in {ctr[t], NoGeneration} /\ used'[t] = used[t]
    \/ /\ ctr'[t] # NoGeneration /\ ctr'[t] \notin used[t]
       /\ used'[t] = used[t] \cup {ctr'[t]}

LEMMA HeadIs ==
  ASSUME TypeInv, NEW r \in Request, NEW cmd, IsNext(r, cmd)
  PROVE  LET c == Head(todo[r]) IN
         /\ todo[r] # <<>> /\ c \in CommandType /\ c = todo[r][1] /\ c.cmd = cmd
         /\ cmd \in {"SETNX", "INCR", "PEXPIRE"} => c.tag \in Counter
         /\ cmd = "SETNX" => /\ 1 \in Waiting(todo[r])
                             /\ c.gen \in Generation /\ c.gen # NoGeneration
                             /\ c.gen[2] = 0
  <1>1. todo[r] \in Seq(CommandType) /\ todo[r] # <<>> /\ Head(todo[r]).cmd = cmd
    BY DEF TypeInv, IsNext
  <1>2. Head(todo[r]) \in CommandType /\ Head(todo[r]) = todo[r][1]
    BY <1>1, TailOf
  <1>3. 1 \in 1..Len(todo[r])
    BY <1>1, EmptySeq
  <1>4. cmd = "SETNX" => 1 \in Waiting(todo[r])
    BY <1>1, <1>2, <1>3 DEF Waiting
  <1> QED  BY <1>1, <1>2, <1>4, Commands

(* A SETNX that creates its counter gives it a generation no counter held. *)
LEMMA SetNXRenews ==
  ASSUME TypeInv, DrawsOK, NEW r \in Request, SetNX(r)
  PROVE  LET c == Head(todo[r]) IN
         /\ \A t \in Counter : Renews(t)
         /\ \A t \in Counter \ {c.tag} : ctr'[t] = ctr[t] /\ used'[t] = used[t]
         /\ ctr'[c.tag] # NoGeneration
         /\ UNCHANGED <<ctr, used>> \/
              /\ ctr'[c.tag] = c.gen /\ used'[c.tag] = used[c.tag] \cup {c.gen}
              /\ \A g \in used[c.tag] : g[1] # c.gen[1]
  <1> DEFINE c == Head(todo[r])
  <1>1. /\ c.tag \in Counter /\ 1 \in Waiting(todo[r]) /\ c = todo[r][1]
        /\ c.gen \in Generation /\ c.gen # NoGeneration
    BY HeadIs DEF SetNX
  <1>2. \A g \in used[c.tag] : g[1] # c.gen[1]
    BY <1>1 DEF DrawsOK
  <1>3. c.gen \notin used[c.tag]
    BY <1>2
  <1>4. CASE ctr[c.tag] = NoGeneration /\ Hold(c.tag, c.gen)
    <2>1. /\ ctr'[c.tag] = c.gen /\ used'[c.tag] = used[c.tag] \cup {c.gen}
          /\ \A o \in Counter \ {c.tag} : ctr'[o] = ctr[o] /\ used'[o] = used[o]
      BY <1>1, <1>4, HoldIs
    <2> HIDE DEF c
    <2>2. \A t \in Counter : Renews(t)
      BY <1>1, <1>3, <2>1 DEF Renews
    <2> QED  BY <1>1, <1>2, <2>1, <2>2 DEF c
  <1>5. CASE ctr[c.tag] # NoGeneration /\ UNCHANGED <<ctr, used>>
    BY <1>5 DEF Renews
  <1> QED  BY <1>4, <1>5 DEF SetNX

(* An INCR moves its counter past every generation of its draw.            *)
LEMMA IncrRenews ==
  ASSUME TypeInv, ReadInv, LastOK, FindsCounter, NEW r \in Request, Incr(r)
  PROVE  LET t == Head(todo[r]).tag IN
         /\ \A o \in Counter : Renews(o)
         /\ t \in Counter /\ ctr[t] \in used[t]
         /\ ctr[t] # NoGeneration /\ ctr'[t] # NoGeneration
         /\ ctr'[t] = <<ctr[t][1], ctr[t][2] + 1>>
         /\ used'[t] = used[t] \cup {ctr'[t]} /\ ctr'[t] \notin used[t]
         /\ \A o \in Counter \ {t} : ctr'[o] = ctr[o] /\ used'[o] = used[o]
  <1> DEFINE t == Head(todo[r]).tag
  <1>1. t \in Counter /\ IsNext(r, "INCR") /\ Hold(t, Advance(ctr[t]))
    BY HeadIs DEF Incr
  <1>2. ctr[t] # NoGeneration /\ ctr[t] \in used[t]
    BY <1>1 DEF FindsCounter, ReadInv
  <1>3. /\ ctr'[t] = Advance(ctr[t]) /\ used'[t] = used[t] \cup {Advance(ctr[t])}
        /\ \A o \in Counter \ {t} : ctr'[o] = ctr[o] /\ used'[o] = used[o]
    BY <1>1, HoldIs
  <1>4. ctr[t] \in Generation /\ ctr[t][2] \in Nat
    BY <1>1 DEF TypeInv, Generation
  <1> HIDE DEF t
  <1>5. ctr'[t] = <<ctr[t][1], ctr[t][2] + 1>> /\ ctr'[t] # NoGeneration
    BY <1>3, <1>4 DEF Advance, NoGeneration
  <1>6. ctr'[t] \notin used[t]
    <2>1. \A g \in used[t] : g[1] = ctr[t][1] => g[2] <= ctr[t][2]
      BY <1>1, <1>2 DEF LastOK
    <2>2. ctr'[t][1] = ctr[t][1] /\ ctr'[t][2] = ctr[t][2] + 1
      BY <1>5
    <2> QED  BY <1>4, <2>1, <2>2
  <1>7. \A o \in Counter : Renews(o)
    BY <1>1, <1>3, <1>5, <1>6 DEF Renews
  <1> QED  BY <1>1, <1>2, <1>3, <1>5, <1>6, <1>7 DEF t

(* No other step changes what was held.                                    *)
LEMMA OtherRenews ==
  ASSUME TypeInv, [Next]_vars, \A r \in Request : ~SetNX(r) /\ ~Incr(r)
  PROVE  \A t \in Counter : Renews(t) /\ ctr'[t] \in {ctr[t], NoGeneration}
                              /\ used'[t] = used[t]
  <1>1. UNCHANGED <<ctr, used>> \/ \E t \in Counter : Lose(t)
    BY DEF Next, Server, Client, GetTagged, Bump, Send, PExpire, MGet, Cut,
           GiveUp, Refuse, ReadReturns, BumpReturns, vars, redis
  <1>2. CASE UNCHANGED <<ctr, used>>
    BY <1>2 DEF Renews
  <1>3. ASSUME NEW t \in Counter, Lose(t)
        PROVE  \A o \in Counter : ctr'[o] \in {ctr[o], NoGeneration}
                                    /\ used'[o] = used[o]
    BY <1>3 DEF Lose, TypeInv
  <1> QED  BY <1>1, <1>2, <1>3 DEF Renews

LEMMA StepRenews ==
  ASSUME TypeInv, ReadInv, DrawsOK, LastOK, FindsCounter, [Next]_vars
  PROVE  \A t \in Counter : Renews(t)
  <1>1. ASSUME NEW r \in Request, SetNX(r)
        PROVE  \A t \in Counter : Renews(t)
    BY <1>1, SetNXRenews
  <1>2. ASSUME NEW r \in Request, Incr(r)
        PROVE  \A t \in Counter : Renews(t)
    BY <1>2, IncrRenews
  <1> QED  BY <1>1, <1>2, OtherRenews

-----------------------------------------------------------------------------
(* The draws stay apart, and the counters above what they have held.       *)

(* What a step that is no SETNX and no INCR does to the pipelines.         *)
LEMMA OtherRuns ==
  ASSUME TypeInv, [Next]_vars, \A r \in Request : ~SetNX(r) /\ ~Incr(r)
  PROVE  \/ \E r \in Request, ts \in TagLists : GetTagged(r, ts) \/ Bump(r, ts)
         \/ \E r \in Request :
              /\ PExpire(r) \/ MGet(r)
              /\ todo[r] # <<>> /\ todo' = [todo EXCEPT ![r] = Tail(@)]
              /\ UNCHANGED <<draws, used>>
         \/ /\ \A o \in Request : todo'[o] = todo[o] \/ todo'[o] = <<>>
            /\ UNCHANGED <<draws, used>>
  <1>1. ASSUME NEW r \in Request, PExpire(r) \/ MGet(r)
        PROVE  /\ todo[r] # <<>> /\ todo' = [todo EXCEPT ![r] = Tail(@)]
               /\ UNCHANGED <<draws, used>>
    BY <1>1 DEF PExpire, MGet, IsNext, redis
  <1>2. ASSUME NEW r \in Request, Cut(r)
        PROVE  /\ \A o \in Request : todo'[o] = todo[o] \/ todo'[o] = <<>>
               /\ UNCHANGED <<draws, used>>
    BY <1>2 DEF Cut, redis, TypeInv
  <1>3. ASSUME \/ \E r \in Request : Client(r)
               \/ \E t \in Counter : Lose(t)
               \/ UNCHANGED vars
        PROVE  /\ \A o \in Request : todo'[o] = todo[o] \/ todo'[o] = <<>>
               /\ UNCHANGED <<draws, used>>
    BY <1>3 DEF Client, GiveUp, Refuse, ReadReturns, BumpReturns, Lose, vars, redis
  <1> QED  BY <1>1, <1>2, <1>3 DEF Next, Server

LEMMA DrawsKeeps ==
  ASSUME TypeInv, ReadInv, DrawsOK, LastOK, FindsCounter, [Next]_vars
  PROVE  DrawsOK'
  <1>1. ASSUME NEW r \in Request, SetNX(r)
        PROVE  DrawsOK'
    <2> DEFINE c == Head(todo[r])
    <2>1. /\ todo[r] # <<>> /\ c = todo[r][1] /\ 1 \in Waiting(todo[r])
          /\ todo' = [todo EXCEPT ![r] = Tail(@)] /\ UNCHANGED draws
      BY <1>1, HeadIs DEF SetNX
    <2>2. /\ \A t \in Counter \ {c.tag} : used'[t] = used[t]
          /\ used'[c.tag] \in {used[c.tag], used[c.tag] \cup {c.gen}}
      BY <1>1, SetNXRenews
    <2> HIDE DEF c
    <2>3. ASSUME NEW t \in Counter, NEW g \in used'[t]
          PROVE  \/ 1 \in Waiting(todo[r]) /\ g[1] = todo[r][1].gen[1]
                 \/ \E g2 \in used[t] : g2[1] = g[1]
      BY <2>1, <2>2
    <2> QED  BY <2>1, <2>3, DrawsRun
  <1>2. ASSUME NEW r \in Request, Incr(r)
        PROVE  DrawsOK'
    <2> DEFINE t == Head(todo[r]).tag
    <2>1. /\ todo[r] # <<>>
          /\ todo' = [todo EXCEPT ![r] = Tail(@)] /\ UNCHANGED draws
      BY <1>2 DEF Incr, IsNext
    <2>2. /\ ctr[t] \in used[t] /\ ctr'[t] = <<ctr[t][1], ctr[t][2] + 1>>
          /\ used'[t] = used[t] \cup {ctr'[t]}
          /\ \A o \in Counter \ {t} : used'[o] = used[o]
      BY <1>2, IncrRenews
    <2> HIDE DEF t
    <2>3. ASSUME NEW u \in Counter, NEW g \in used'[u]
          PROVE  \E g2 \in used[u] : g2[1] = g[1]
      <3>1. CASE u # t \/ g # ctr'[t]
        BY <2>2, <3>1
      <3>2. CASE u = t /\ g = ctr'[t]
        BY <2>2, <3>2
      <3> QED  BY <3>1, <3>2
    <2> QED  BY <2>1, <2>3, DrawsRun
  <1>3. ASSUME NEW r \in Request, NEW ts \in TagLists,
               GetTagged(r, ts) \/ Bump(r, ts)
        PROVE  DrawsOK'
    <2> DEFINE s == IF GetTagged(r, ts) THEN ReadPipeline(ts) ELSE BumpPipeline(ts)
               op == IF GetTagged(r, ts) THEN "GetTagged" ELSE "Bump"
    <2>1. Send(r, op, ts, s) /\ (s = ReadPipeline(ts) \/ s = BumpPipeline(ts))
      BY <1>3 DEF GetTagged, Bump
    <2>2. op \in {"GetTagged", "Bump"} /\ draws \in Nat /\ Len(ts) \in Nat
      BY TagListOf DEF TypeInv
    <2> HIDE DEF s, op
    <2>3. /\ s \in Seq(CommandType)
          /\ \A i \in Waiting(s) : s[i].gen[1] \in (draws + 1)..(draws + Len(ts))
          /\ \A i, j \in Waiting(s) : s[i].gen[1] = s[j].gen[1] => i = j
      BY <2>1, <2>2, PipelineWaits
    <2>4. /\ \A o \in Request \ {r} : todo'[o] = todo[o]
          /\ todo'[r] = s /\ draws' = draws + Len(ts) /\ UNCHANGED used
      BY <2>1, <2>2, <2>3, SendIs
    <2> QED  BY <2>2, <2>3, <2>4, DrawsSend
  <1>4. ASSUME NEW r \in Request, todo[r] # <<>>, UNCHANGED <<draws, used>>,
               todo' = [todo EXCEPT ![r] = Tail(@)]
        PROVE  DrawsOK'
    BY <1>4, DrawsRun
  <1>5. ASSUME \A o \in Request : todo'[o] = todo[o] \/ todo'[o] = <<>>,
               UNCHANGED <<draws, used>>
        PROVE  DrawsOK'
    <2>1. Waiting(<<>>) = {}
      BY DEF Waiting
    <2>2. ASSUME NEW o \in Request, NEW i \in Waiting(todo'[o])
          PROVE  i \in Waiting(todo[o]) /\ todo'[o] = todo[o]
      BY <1>5, <2>1, <2>2
    <2>3. \A o \in Request : \A i \in Waiting(todo'[o]) :
            /\ todo'[o][i].gen[1] \in 1..draws'
            /\ \A t \in Counter : \A g \in used'[t] : g[1] # todo'[o][i].gen[1]
      <3>1. \A o \in Request : \A i \in Waiting(todo[o]) :
              /\ todo[o][i].gen[1] \in 1..draws
              /\ \A t \in Counter : \A g \in used[t] : g[1] # todo[o][i].gen[1]
        BY DEF DrawsOK
      <3> QED  BY ONLY <1>5, <2>2, <3>1
    <2>4. \A o, u \in Request :
            \A i \in Waiting(todo'[o]), j \in Waiting(todo'[u]) :
              todo'[o][i].gen[1] = todo'[u][j].gen[1] => o = u /\ i = j
      <3>1. \A o, u \in Request :
              \A i \in Waiting(todo[o]), j \in Waiting(todo[u]) :
                todo[o][i].gen[1] = todo[u][j].gen[1] => o = u /\ i = j
        BY DEF DrawsOK
      <3> QED  BY ONLY <1>5, <2>2, <3>1
    <2> QED  BY <2>3, <2>4 DEF DrawsOK
  <1> QED  BY <1>1, <1>2, <1>3, <1>4, <1>5, OtherRuns

LEMMA LastKeeps ==
  ASSUME TypeInv, ReadInv, DrawsOK, LastOK, FindsCounter, [Next]_vars
  PROVE  LastOK'
  <1>1. ASSUME NEW r \in Request, SetNX(r)
        PROVE  LastOK'
    <2> DEFINE c == Head(todo[r])
    <2>1. /\ c.tag \in Counter /\ c = todo[r][1] /\ 1 \in Waiting(todo[r])
          /\ c.gen \in Generation /\ UNCHANGED draws
      BY <1>1, HeadIs DEF SetNX
    <2>2. c.gen[1] \in 1..draws
      BY <2>1 DEF DrawsOK
    <2>3. \A o \in Counter \ {c.tag} : ctr'[o] = ctr[o] /\ used'[o] = used[o]
      BY <1>1, SetNXRenews
    <2>4. UNCHANGED <<ctr, used>> \/
            /\ ctr'[c.tag] = c.gen /\ used'[c.tag] = used[c.tag] \cup {c.gen}
            /\ \A g \in used[c.tag] : g[1] # c.gen[1]
      BY <1>1, SetNXRenews
    <2> HIDE DEF c
    <2>5. CASE UNCHANGED <<ctr, used>>
      BY <2>1, <2>5 DEF LastOK
    <2>6. CASE /\ ctr'[c.tag] = c.gen /\ used'[c.tag] = used[c.tag] \cup {c.gen}
               /\ \A g \in used[c.tag] : g[1] # c.gen[1]
      <3>1. ASSUME NEW t \in Counter, NEW g \in used'[t]
            PROVE  /\ g[1] \in 1..draws'
                   /\ ctr'[t] # NoGeneration /\ g[1] = ctr'[t][1] => g[2] <= ctr'[t][2]
        <4>1. CASE t # c.tag
          BY <2>1, <2>3, <3>1, <4>1 DEF LastOK
        <4>2. CASE t = c.tag /\ g # c.gen
          BY <2>1, <2>6, <3>1, <4>2 DEF LastOK
        <4>3. CASE t = c.tag /\ g = c.gen
          <5>1. g[2] \in Nat
            BY <2>1, <4>3 DEF Generation
          <5> QED  BY <2>1, <2>2, <2>6, <4>3, <5>1
        <4> QED  BY <4>1, <4>2, <4>3
      <3> QED  BY <3>1 DEF LastOK
    <2> QED  BY <2>4, <2>5, <2>6
  <1>2. ASSUME NEW r \in Request, Incr(r)
        PROVE  LastOK'
    <2> DEFINE t == Head(todo[r]).tag
    <2>1. /\ t \in Counter /\ ctr[t] \in used[t] /\ ctr[t] # NoGeneration
          /\ ctr'[t] = <<ctr[t][1], ctr[t][2] + 1>>
          /\ used'[t] = used[t] \cup {ctr'[t]}
          /\ \A o \in Counter \ {t} : ctr'[o] = ctr[o] /\ used'[o] = used[o]
      BY <1>2, IncrRenews
    <2>2. UNCHANGED draws
      BY <1>2 DEF Incr
    <2> HIDE DEF t
    <2>3. ctr[t][2] \in Nat /\ used[t] \subseteq Generation
      BY <2>1 DEF TypeInv, Generation, History
    <2>4. ASSUME NEW u \in Counter, NEW g \in used'[u]
          PROVE  /\ g[1] \in 1..draws'
                 /\ ctr'[u] # NoGeneration /\ g[1] = ctr'[u][1] => g[2] <= ctr'[u][2]
      <3>1. CASE u # t
        BY <2>1, <2>2, <2>4, <3>1 DEF LastOK
      <3>2. CASE u = t /\ g = ctr'[t]
        BY <2>1, <2>2, <2>3, <3>2 DEF LastOK
      <3>3. CASE u = t /\ g \in used[t]
        <4>1. g[2] \in Nat
          BY <2>3, <3>3 DEF Generation
        <4>2. /\ g[1] \in 1..draws
              /\ g[1] = ctr[t][1] => g[2] <= ctr[t][2]
          BY <2>1, <3>3 DEF LastOK
        <4>3. ctr'[t][1] = ctr[t][1] /\ ctr'[t][2] = ctr[t][2] + 1
          BY <2>1
        <4> QED  BY <2>2, <2>3, <3>3, <4>1, <4>2, <4>3
      <3> QED  BY <2>1, <2>4, <3>1, <3>2, <3>3
    <2> QED  BY <2>4 DEF LastOK
  <1>3. CASE \A r \in Request : ~SetNX(r) /\ ~Incr(r)
    <2>1. \A t \in Counter : ctr'[t] \in {ctr[t], NoGeneration} /\ used'[t] = used[t]
      BY <1>3, OtherRenews
    <2>2. draws \in Nat /\ draws' \in Nat /\ draws <= draws'
      <3>1. ASSUME NEW r \in Request, NEW ts \in TagLists,
                   GetTagged(r, ts) \/ Bump(r, ts)
            PROVE  draws' = draws + Len(ts) /\ Len(ts) \in Nat
        BY <3>1, TagListOf DEF GetTagged, Bump, Send
      <3>2. draws \in Nat
        BY DEF TypeInv
      <3>3. CASE UNCHANGED draws
        BY <3>2, <3>3
      <3> QED  BY <1>3, <3>1, <3>2, <3>3, OtherRuns
    <2>3. ASSUME NEW t \in Counter, NEW g \in used'[t]
          PROVE  /\ g[1] \in 1..draws'
                 /\ ctr'[t] # NoGeneration /\ g[1] = ctr'[t][1] => g[2] <= ctr'[t][2]
      <3>1. g \in used[t] /\ (ctr'[t] # NoGeneration => ctr'[t] = ctr[t])
        BY <2>1, <2>3
      <3>2. g[1] \in 1..draws
        BY <3>1 DEF LastOK
      <3>3. ctr[t] # NoGeneration /\ g[1] = ctr[t][1] => g[2] <= ctr[t][2]
        BY <3>1 DEF LastOK
      <3> QED  BY <2>2, <3>1, <3>2, <3>3
    <2> QED  BY <2>3 DEF LastOK
  <1> QED  BY <1>1, <1>2, <1>3

-----------------------------------------------------------------------------
(* Between SETNX and INCR, and the times to live.                          *)

(* An INCR that comes next now follows the SETNX that ran.                 *)
LEMMA RunIncr ==
  ASSUME TypeInv, NEW r \in Request, todo[r] # <<>>, Ordered(todo[r]),
         todo' = [todo EXCEPT ![r] = Tail(@)], IsNext(r, "INCR")'
  PROVE  /\ Head(todo[r]).cmd = "SETNX"
         /\ Head(todo'[r]).tag = Head(todo[r]).tag
  <1>1. /\ todo'[r] \in Seq(CommandType) /\ Head(todo[r]) = todo[r][1]
        /\ Len(todo[r]) \in Nat \ {0} /\ Len(todo'[r]) = Len(todo[r]) - 1
        /\ \A i \in 1..Len(todo'[r]) : todo'[r][i] = todo[r][i + 1]
    BY RunIs
  <1>2. todo'[r] # <<>> /\ Head(todo'[r]).cmd = "INCR"
    BY DEF IsNext
  <1>3. Head(todo'[r]) = todo'[r][1] /\ Len(todo'[r]) # 0
    BY <1>1, <1>2, TailOf, EmptySeq
  <1>4. todo'[r][1] = todo[r][2] /\ 2 \in 1..Len(todo[r]) /\ 2 > 1 /\ 2 - 1 = 1
    <2>1. 1 \in 1..Len(todo'[r]) /\ 2 \in 1..Len(todo[r])
      <3>1. Len(todo[r]) \in Nat \ {0} /\ Len(todo'[r]) = Len(todo[r]) - 1
        BY <1>1
      <3>2. Len(todo'[r]) # 0
        BY <1>3
      <3>3. \A m \in Nat \ {0} : \A k : k = m - 1 /\ k # 0 => 1 \in 1..k /\ 2 \in 1..m
        OBVIOUS
      <3> QED  BY ONLY <3>1, <3>2, <3>3
    <2>2. todo'[r][1] = todo[r][1 + 1] /\ 1 + 1 = 2
      BY <1>1, <2>1
    <2> QED  BY <2>1, <2>2
  <1> QED  BY <1>1, <1>2, <1>3, <1>4 DEF Ordered

(* Nothing but a loss makes a counter vanish.                              *)
LEMMA OnlyLost ==
  ASSUME TypeInv, ReadInv, DrawsOK, LastOK, FindsCounter, [Next]_vars,
         NEW t \in Counter, ctr[t] # NoGeneration, ctr'[t] = NoGeneration
  PROVE  Lose(t)
  <1>1. ASSUME NEW r \in Request, SetNX(r)
        PROVE  FALSE
    BY <1>1, SetNXRenews
  <1>2. ASSUME NEW r \in Request, Incr(r)
        PROVE  FALSE
    BY <1>2, IncrRenews
  <1>3. CASE \A r \in Request : ~SetNX(r) /\ ~Incr(r)
    <2>1. UNCHANGED ctr \/ \E u \in Counter : Lose(u)
      BY <1>3 DEF Next, Server, Client, GetTagged, Bump, Send, PExpire, MGet, Cut,
             GiveUp, Refuse, ReadReturns, BumpReturns, vars, redis
    <2>2. ASSUME NEW u \in Counter, Lose(u)
          PROVE  u = t
      BY <2>2 DEF Lose, TypeInv
    <2> QED  BY <2>1, <2>2
  <1> QED  BY <1>1, <1>2, <1>3

LEMMA FindsKeeps ==
  ASSUME ~LossInBump, TypeInv, ReadInv, DrawsOK, LastOK, FindsCounter, [Next]_vars
  PROVE  FindsCounter'
  <1> SUFFICES ASSUME NEW o \in Request, IsNext(o, "INCR")'
               PROVE  ctr'[Head(todo'[o]).tag] # NoGeneration
    BY DEF FindsCounter
  <1>n. todo'[o] # <<>> /\ Head(todo'[o]).cmd = "INCR"
    BY DEF IsNext
  <1>1. CASE todo'[o] = todo[o]
    <2> DEFINE t == Head(todo[o]).tag
    <2>1. IsNext(o, "INCR") /\ t \in Counter /\ ctr[t] # NoGeneration
      BY <1>1, <1>n, HeadIs DEF IsNext, FindsCounter
    <2>2. ~Lose(t)
      BY <2>1 DEF Lose, InBump
    <2> HIDE DEF t
    <2>3. ctr'[t] # NoGeneration
      BY <2>1, <2>2, OnlyLost
    <2> QED  BY <1>1, <2>3 DEF t
  <1>r. ASSUME todo[o] # <<>>, todo' = [todo EXCEPT ![o] = Tail(@)]
        PROVE  Head(todo[o]).cmd = "SETNX" /\ Head(todo'[o]).tag = Head(todo[o]).tag
    BY <1>r, RunIncr DEF ReadInv
  <1>2. ASSUME NEW r \in Request, SetNX(r), todo'[o] # todo[o]
        PROVE  ctr'[Head(todo'[o]).tag] # NoGeneration
    <2>1. todo[r] # <<>> /\ todo' = [todo EXCEPT ![r] = Tail(@)]
      BY <1>2 DEF SetNX, IsNext
    <2>2. r = o
      BY <1>2, <2>1 DEF TypeInv
    <2> QED  BY <1>2, <1>r, <2>1, <2>2, SetNXRenews
  <1>3. ASSUME NEW r \in Request, todo[r] # <<>>, Head(todo[r]).cmd # "SETNX",
               todo' = [todo EXCEPT ![r] = Tail(@)], todo'[o] # todo[o]
        PROVE  FALSE
    <2>1. r = o
      BY <1>3 DEF TypeInv
    <2> QED  BY <1>3, <1>r, <2>1
  <1>4. ASSUME NEW r \in Request, Incr(r) \/ PExpire(r) \/ MGet(r),
               todo'[o] # todo[o]
        PROVE  FALSE
    BY <1>3, <1>4 DEF Incr, PExpire, MGet, IsNext
  <1>5. ASSUME NEW r \in Request, NEW ts \in TagLists,
               GetTagged(r, ts) \/ Bump(r, ts), todo'[o] # todo[o]
        PROVE  FALSE
    <2> DEFINE s == IF GetTagged(r, ts) THEN ReadPipeline(ts) ELSE BumpPipeline(ts)
               op == IF GetTagged(r, ts) THEN "GetTagged" ELSE "Bump"
    <2>1. Send(r, op, ts, s) /\ (s = ReadPipeline(ts) \/ s = BumpPipeline(ts))
      BY <1>5 DEF GetTagged, Bump
    <2>2. op \in {"GetTagged", "Bump"} /\ draws \in Nat
      BY DEF TypeInv
    <2> HIDE DEF s, op
    <2>3. s \in Seq(CommandType) /\ s # <<>> /\ s[1].cmd # "INCR"
      BY <2>1, <2>2, PipelineWaits
    <2>4. todo'[o] = s
      BY <1>5, <2>1, <2>2, <2>3, SendIs
    <2>5. Head(s) = s[1]
      BY <2>3, TailOf
    <2> QED  BY <1>n, <2>3, <2>4, <2>5
  <1> QED  BY <1>1, <1>2, <1>4, <1>5, <1>n, OtherRuns

LEMMA ExpiresKeeps ==
  ASSUME TypeInv, ReadInv, LastOK, FindsCounter, CountersExpire, [Next]_vars
  PROVE  CountersExpire'
  <1>1. ASSUME NEW r \in Request, SetNX(r)
        PROVE  CountersExpire'
    <2> DEFINE c == Head(todo[r])
    <2>1. /\ c.tag \in Counter
          /\ \/ Hold(c.tag, c.gen) /\ ttl' = [ttl EXCEPT ![c.tag] = TRUE]
             \/ UNCHANGED <<ctr, used, ttl>>
      BY <1>1, HeadIs DEF SetNX
    <2> HIDE DEF c
    <2> QED  BY <2>1, HoldIs DEF CountersExpire, TypeInv
  <1>2. ASSUME NEW r \in Request, Incr(r)
        PROVE  CountersExpire'
    <2> DEFINE t == Head(todo[r]).tag
    <2>1. /\ t \in Counter /\ ctr[t] # NoGeneration
          /\ \A o \in Counter \ {t} : ctr'[o] = ctr[o]
      BY <1>2, IncrRenews
    <2>2. UNCHANGED ttl
      BY <1>2 DEF Incr
    <2> HIDE DEF t
    <2> QED  BY <2>1, <2>2 DEF CountersExpire
  <1>3. ASSUME NEW r \in Request, PExpire(r)
        PROVE  CountersExpire'
    <2> DEFINE t == Head(todo[r]).tag
    <2>1. /\ t \in Counter /\ UNCHANGED ctr
          /\ ttl' = [ttl EXCEPT ![t] = ctr[t] # NoGeneration]
      BY <1>3, HeadIs DEF PExpire
    <2> HIDE DEF t
    <2>2. \A o \in Counter : ttl'[o] = IF o = t THEN ctr[t] # NoGeneration ELSE ttl[o]
      BY <2>1 DEF TypeInv
    <2> QED  BY <2>1, <2>2 DEF CountersExpire
  <1>4. ASSUME NEW t \in Counter, Lose(t)
        PROVE  CountersExpire'
    BY <1>4 DEF Lose, TypeInv, CountersExpire
  <1>5. CASE UNCHANGED <<ctr, ttl>>
    BY <1>5 DEF CountersExpire
  <1>6. ASSUME \A r \in Request : ~SetNX(r) /\ ~Incr(r) /\ ~PExpire(r),
               \A t \in Counter : ~Lose(t)
        PROVE  UNCHANGED <<ctr, ttl>>
    BY <1>6 DEF Next, Server, Client, GetTagged, Bump, Send, MGet, Cut,
           GiveUp, Refuse, ReadReturns, BumpReturns, vars, redis
  <1> QED  BY <1>1, <1>2, <1>3, <1>4, <1>5, <1>6

-----------------------------------------------------------------------------
(* Bumps and the reads sent after them.                                    *)

LEMMA NeverNone ==
  ASSUME TypeInv, LastOK
  PROVE  \A t \in Counter : NoGeneration \notin used[t]
  BY DEF LastOK, NoGeneration, TypeInv

(* Retired generations stay retired.                                       *)
LEMMA RetiredGrows ==
  ASSUME TypeInv, [Next]_vars
  PROVE  \A t \in Counter : retired[t] \subseteq retired'[t]
  <1>1. ASSUME NEW r \in Request, BumpReturns(r)
        PROVE  \A t \in Counter : retired[t] \subseteq retired'[t]
    BY <1>1 DEF BumpReturns
  <1>2. ASSUME \A r \in Request : ~BumpReturns(r)
        PROVE  UNCHANGED retired
    BY <1>2 DEF Next, Server, Client, GetTagged, Bump, Send, SetNX, Incr,
           PExpire, MGet, Cut, GiveUp, Refuse, ReadReturns, Lose, vars, redis
  <1> QED  BY <1>1, <1>2

(* A Bump that returns has moved each of its counters.                     *)
LEMMA RetiredKeeps ==
  ASSUME TypeInv, ReadInv, FreshInv, [Next]_vars
  PROVE  RetiredOK'
  <1>1. ASSUME NEW r \in Request, BumpReturns(r)
        PROVE  RetiredOK'
    <2> DEFINE q == req[r]
    <2>1. /\ q.op = "Bump" /\ q.state = "sent" /\ todo[r] = <<>>
          /\ BumpOK(q, todo[r], ctr, used)
          /\ UNCHANGED <<ctr, used>>
          /\ \A t \in Counter : retired'[t] = retired[t] \cup
               (IF t \in TagsOf(r) THEN q.before[t] ELSE {})
      BY <1>1 DEF BumpReturns, FreshInv, redis
    <2>2. \A i \in 1..Len(todo[r]) : FALSE
      BY <2>1
    <2>3. \A n \in DOMAIN q.tags : /\ q.before[q.tags[n]] \subseteq used[q.tags[n]]
                                   /\ ctr[q.tags[n]] \notin q.before[q.tags[n]]
      BY <2>1, <2>2 DEF BumpOK
    <2>4. ASSUME NEW t \in Counter, t \in TagsOf(r)
          PROVE  q.before[t] \subseteq used[t] /\ ctr[t] \notin q.before[t]
      BY <2>3, <2>4 DEF TagsOf
    <2> HIDE DEF q
    <2> QED  BY <2>1, <2>4 DEF RetiredOK, FreshInv
  <1>2. CASE UNCHANGED retired
    <2>1. \A t \in Counter : Renews(t) /\ NoGeneration \notin used[t]
      BY StepRenews, NeverNone DEF FreshInv
    <2> QED  BY <1>2, <2>1 DEF RetiredOK, FreshInv, Renews
  <1>3. ASSUME \A r \in Request : ~BumpReturns(r)
        PROVE  UNCHANGED retired
    BY <1>3 DEF Next, Server, Client, GetTagged, Bump, Send, SetNX, Incr,
           PExpire, MGet, Cut, GiveUp, Refuse, ReadReturns, Lose, vars, redis
  <1> QED  BY <1>1, <1>2, <1>3

LEMMA TagsAre ==
  ASSUME NEW q \in RequestType
  PROVE  /\ DOMAIN q.tags = 1..Len(q.tags) /\ Len(q.tags) \in Nat
         /\ \A n \in DOMAIN q.tags : q.tags[n] \in Counter
  <1>1. q.tags \in Seq(Counter)
    BY DEF RequestType
  <1> QED  BY <1>1, LenProperties

(* A counter that moves moves on.                                          *)
LEMMA BumpStays ==
  ASSUME NEW q \in RequestType, NEW s, BumpOK(q, s, ctr, used),
         \A t \in Counter : Renews(t) /\ NoGeneration \notin used[t]
  PROVE  BumpOK(q, s, ctr', used')
  <1> SUFFICES ASSUME q.op = "Bump", q.state = "sent", NEW n \in DOMAIN q.tags
               PROVE  /\ q.before[q.tags[n]] \subseteq used'[q.tags[n]]
                      /\ \/ \E i \in 1..Len(s) : s[i].cmd = "INCR" /\ s[i].tag = q.tags[n]
                         \/ ctr'[q.tags[n]] \notin q.before[q.tags[n]]
    BY DEF BumpOK
  <1>1. q.tags[n] \in Counter
    BY TagsAre
  <1> DEFINE t == q.tags[n]
  <1>2. q.before[t] \subseteq used[t] /\ Renews(t) /\ NoGeneration \notin used[t]
    BY <1>1 DEF BumpOK
  <1>3. q.before[t] \subseteq used'[t]
    BY <1>2 DEF Renews
  <1>4. ctr[t] \notin q.before[t] => ctr'[t] \notin q.before[t]
    BY <1>2 DEF Renews
  <1> QED  BY <1>3, <1>4 DEF BumpOK

(* Its own INCR moves a counter; no other command of it has to.            *)
LEMMA BumpRuns ==
  ASSUME TypeInv, NEW r \in Request, todo[r] # <<>>,
         todo' = [todo EXCEPT ![r] = Tail(@)],
         NEW q \in RequestType, BumpOK(q, todo[r], ctr, used),
         \A t \in Counter : Renews(t) /\ NoGeneration \notin used[t],
         Head(todo[r]).cmd = "INCR" =>
           LET t == Head(todo[r]).tag IN ctr'[t] \notin used[t]
  PROVE  BumpOK(q, todo'[r], ctr', used')
  <1> DEFINE s == todo[r]
             s2 == todo'[r]
  <1>1. /\ Head(s) = s[1] /\ Len(s) \in Nat \ {0} /\ Len(s2) = Len(s) - 1
        /\ \A i \in 1..Len(s2) : s2[i] = s[i + 1]
    BY RunIs
  <1>2. s[1].cmd = "INCR" => ctr'[s[1].tag] \notin used[s[1].tag]
    BY <1>1
  <1>3. BumpOK(q, s, ctr, used) /\ BumpOK(q, s, ctr', used')
    BY BumpStays
  <1> HIDE DEF s, s2
  <1>4. ASSUME q.op = "Bump", q.state = "sent", NEW n \in DOMAIN q.tags
        PROVE  /\ q.before[q.tags[n]] \subseteq used'[q.tags[n]]
               /\ \/ \E i \in 1..Len(s2) : s2[i].cmd = "INCR" /\ s2[i].tag = q.tags[n]
                  \/ ctr'[q.tags[n]] \notin q.before[q.tags[n]]
    <2>1. /\ q.before[q.tags[n]] \subseteq used[q.tags[n]]
          /\ q.before[q.tags[n]] \subseteq used'[q.tags[n]]
      BY <1>3, <1>4 DEF BumpOK
    <2>2. CASE ctr'[q.tags[n]] \notin q.before[q.tags[n]]
      BY <2>1, <2>2
    <2>3. CASE \E i \in 1..Len(s) : s[i].cmd = "INCR" /\ s[i].tag = q.tags[n]
      <3>1. PICK i \in 1..Len(s) : s[i].cmd = "INCR" /\ s[i].tag = q.tags[n]
        BY <2>3
      <3>2. CASE i = 1
        BY <1>2, <2>1, <3>1, <3>2
      <3>3. CASE i # 1
        <4>1. i - 1 \in 1..Len(s2) /\ (i - 1) + 1 = i
          BY <1>1, <3>3
        <4>2. s2[i - 1] = s[i]
          BY <1>1, <4>1
        <4> QED  BY <2>1, <3>1, <4>1, <4>2
      <3> QED  BY <3>2, <3>3
    <2> QED  BY <1>3, <1>4, <2>2, <2>3 DEF BumpOK
  <1>5. BumpOK(q, s2, ctr', used')
    BY <1>4 DEF BumpOK
  <1> QED  BY <1>5 DEF s2

(* A Bump that is sent has an INCR for each of its tags.                   *)
LEMMA BumpSends ==
  ASSUME NEW ts \in TagLists, draws \in Nat
  PROVE  \A n \in DOMAIN ts : \E i \in 1..Len(BumpPipeline(ts)) :
           BumpPipeline(ts)[i].cmd = "INCR" /\ BumpPipeline(ts)[i].tag = ts[n]
  <1> DEFINE s == BumpPipeline(ts)
  <1>1. Len(ts) \in Nat /\ DOMAIN ts = 1..Len(ts)
    BY TagListOf
  <1>2. /\ Len(s) = 3 * Len(ts)
        /\ \A n \in 1..Len(ts) : s[3 * n - 1] = IncrOf(ts, n)
    BY BumpPipelineIs
  <1>3. \A n : IncrOf(ts, n).cmd = "INCR" /\ IncrOf(ts, n).tag = ts[n]
    BY DEF IncrOf, Command
  <1> HIDE DEF s
  <1>4. \A n \in 1..Len(ts) : 3 * n - 1 \in 1..Len(s)
    BY <1>1, <1>2
  <1>5. \A n \in DOMAIN ts : \E i \in 1..Len(s) :
          s[i].cmd = "INCR" /\ s[i].tag = ts[n]
    BY <1>1, <1>2, <1>3, <1>4
  <1> QED  BY <1>5 DEF s

(* More has been retired since.                                            *)
LEMMA SeesStays ==
  ASSUME NEW q, NEW s, NEW over, NEW over2, SeesOK(q, s, over),
         \A t \in Counter : over[t] \subseteq over2[t]
  PROVE  SeesOK(q, s, over2)
  BY DEF SeesOK

(* A step of one request.                                                  *)
LEMMA FreshNext ==
  ASSUME TypeInv, ReadInv, FreshInv, [Next]_vars, NEW r \in Request,
         \A o \in Request \ {r} : todo'[o] = todo[o] /\ req'[o] = req[o],
         BumpOK(req'[r], todo'[r], ctr', used'),
         SeesOK(req'[r], todo'[r], retired')
  PROVE  \A o \in Request : /\ BumpOK(req'[o], todo'[o], ctr', used')
                            /\ SeesOK(req'[o], todo'[o], retired')
  <1> SUFFICES ASSUME NEW o \in Request \ {r}
               PROVE  /\ BumpOK(req'[o], todo'[o], ctr', used')
                      /\ SeesOK(req'[o], todo'[o], retired')
    OBVIOUS
  <1>1. todo'[o] = todo[o] /\ req'[o] = req[o] /\ req[o] \in RequestType
    BY DEF TypeInv
  <1>2. BumpOK(req[o], todo[o], ctr, used) /\ SeesOK(req[o], todo[o], retired)
    BY DEF FreshInv
  <1>3. \A t \in Counter : Renews(t) /\ NoGeneration \notin used[t]
    BY StepRenews, NeverNone DEF FreshInv
  <1>4. BumpOK(req[o], todo[o], ctr', used')
    BY <1>1, <1>2, <1>3, BumpStays
  <1>5. SeesOK(req[o], todo[o], retired')
    BY <1>2, SeesStays, RetiredGrows
  <1> QED  BY <1>1, <1>4, <1>5

LEMMA CallsKeep ==
  ASSUME TypeInv, ReadInv, FreshInv, [Next]_vars
  PROVE  \A o \in Request : /\ BumpOK(req'[o], todo'[o], ctr', used')
                            /\ SeesOK(req'[o], todo'[o], retired')
  <1> DEFINE Calls == \A o \in Request : /\ BumpOK(req'[o], todo'[o], ctr', used')
                                         /\ SeesOK(req'[o], todo'[o], retired')
  <1>s. \A t \in Counter : Renews(t) /\ NoGeneration \notin used[t]
    BY StepRenews, NeverNone DEF FreshInv
  <1>n. ASSUME NEW r \in Request,
               \A o \in Request \ {r} : todo'[o] = todo[o] /\ req'[o] = req[o],
               BumpOK(req'[r], todo'[r], ctr', used'),
               SeesOK(req'[r], todo'[r], retired')
        PROVE  Calls
    BY <1>n, FreshNext
  <1> HIDE DEF Calls
  <1>o. ASSUME NEW r \in Request,
               \A o \in Request \ {r} : todo'[o] = todo[o] /\ req'[o] = req[o],
               req'[r].op = "none"
        PROVE  Calls
    <2>1. BumpOK(req'[r], todo'[r], ctr', used') /\ SeesOK(req'[r], todo'[r], retired')
      BY <1>o DEF BumpOK, SeesOK
    <2> QED  BY <1>n, <1>o, <2>1
  <1>1. ASSUME NEW r \in Request, NEW ts \in TagLists, GetTagged(r, ts)
        PROVE  Calls
    <2> DEFINE s == ReadPipeline(ts)
    <2>1. draws \in Nat
      BY DEF TypeInv
    <2>2. s \in Seq(CommandType) /\ s # <<>>
      BY <2>1, PipelineWaits
    <2>3. /\ \A o \in Request \ {r} : todo'[o] = todo[o] /\ req'[o] = req[o]
          /\ todo'[r] = s /\ req'[r].op = "GetTagged"
          /\ req'[r].gone = retired /\ UNCHANGED retired
      BY <1>1, <2>2, SendIs DEF GetTagged
    <2> HIDE DEF s
    <2>4. BumpOK(req'[r], todo'[r], ctr', used') /\ SeesOK(req'[r], todo'[r], retired')
      BY <2>2, <2>3 DEF BumpOK, SeesOK
    <2> QED  BY <1>n, <2>3, <2>4
  <1>2. ASSUME NEW r \in Request, NEW ts \in TagLists, Bump(r, ts)
        PROVE  Calls
    <2>1. draws \in Nat
      BY DEF TypeInv
    <2>2. /\ BumpPipeline(ts) \in Seq(CommandType)
          /\ \A n \in DOMAIN ts : \E i \in 1..Len(BumpPipeline(ts)) :
               BumpPipeline(ts)[i].cmd = "INCR" /\ BumpPipeline(ts)[i].tag = ts[n]
      BY <2>1, BumpPipelineIs, BumpSends
    <2>3. /\ \A o \in Request \ {r} : todo'[o] = todo[o] /\ req'[o] = req[o]
          /\ todo'[r] = BumpPipeline(ts) /\ req'[r].op = "Bump"
          /\ req'[r].tags = ts /\ req'[r].before = used /\ UNCHANGED used
      BY <1>2, <2>2, SendIs DEF Bump
    <2>4. BumpOK(req'[r], todo'[r], ctr', used') /\ SeesOK(req'[r], todo'[r], retired')
      BY <2>2, <2>3 DEF BumpOK, SeesOK
    <2> QED  BY <1>n, <2>3, <2>4
  <1>3. ASSUME NEW r \in Request, todo[r] # <<>>, Head(todo[r]).cmd # "MGET",
               todo' = [todo EXCEPT ![r] = Tail(@)], UNCHANGED req,
               Head(todo[r]).cmd = "INCR" => Incr(r)
        PROVE  Calls
    <2>1. req[r] \in RequestType
      BY DEF TypeInv
    <2>2. BumpOK(req[r], todo[r], ctr, used) /\ ReadOK(req[r], todo[r], used)
          /\ SeesOK(req[r], todo[r], retired)
      BY DEF FreshInv, ReadInv
    <2>3. Head(todo[r]).cmd = "INCR" =>
            LET t == Head(todo[r]).tag IN ctr'[t] \notin used[t]
      BY <1>3, IncrRenews DEF FreshInv
    <2>4. BumpOK(req[r], todo'[r], ctr', used')
      BY <1>3, <1>s, <2>1, <2>2, <2>3, BumpRuns
    <2>5. SeesOK(req[r], todo'[r], retired')
      <3>1. req[r].op = "GetTagged" /\ req[r].state \in {"sent", "ok"} => todo'[r] # <<>>
        BY <1>3, <2>2, RunRead
      <3>2. \A t \in Counter : retired[t] \subseteq retired'[t]
        BY RetiredGrows
      <3> QED  BY <2>2, <3>1, <3>2 DEF SeesOK
    <2>6. \A o \in Request \ {r} : todo'[o] = todo[o] /\ req'[o] = req[o]
      BY <1>3, RunIs
    <2> QED  BY <1>3, <1>n, <2>4, <2>5, <2>6
  <1>4. ASSUME NEW r \in Request, SetNX(r) \/ Incr(r) \/ PExpire(r)
        PROVE  Calls
    BY <1>3, <1>4 DEF SetNX, Incr, PExpire, IsNext
  <1>5. ASSUME NEW r \in Request, MGet(r)
        PROVE  Calls
    <2> DEFINE q == req[r]
               q2 == req'[r]
               s == todo[r]
               ts == Head(s).tag
    <2>1. /\ s # <<>> /\ s[1].cmd = "MGET" /\ Head(s) = s[1] /\ Head(s).cmd = "MGET"
          /\ todo' = [todo EXCEPT ![r] = Tail(@)]
          /\ UNCHANGED <<ctr, used, retired>>
      BY <1>5, HeadIs DEF MGet, redis
    <2>2. /\ Len(s) = 1 /\ todo'[r] = <<>>
          /\ \A o \in Request \ {r} : todo'[o] = todo[o] /\ req'[o] = req[o]
      <3>1. Len(s) \in Nat \ {0}
        BY <2>1, RunIs
      <3>2. Len(s) = 1
        <4>1. Ordered(s) /\ 1 \in 1..Len(s)
          BY <3>1 DEF ReadInv
        <4> HIDE DEF s
        <4> QED  BY <2>1, <4>1 DEF Ordered
      <3>3. \A o \in Request \ {r} : req'[o] = req[o]
        BY <1>5 DEF MGet, TypeInv
      <3> QED  BY <2>1, <3>2, <3>3, RunIs
    <2>3. /\ q \in RequestType
          /\ q2.op = q.op /\ q2.tags = q.tags /\ q2.state = q.state
          /\ q2.before = q.before /\ q2.gone = q.gone
          /\ q.state = "sent" => q2.gens = [n \in DOMAIN ts |-> ctr[ts[n]]]
      BY <1>5 DEF MGet, TypeInv, RequestType
    <2>4. BumpOK(q2, todo'[r], ctr', used')
      <3>1. BumpOK(q, todo'[r], ctr', used')
        BY <1>s, <2>1, <2>3, BumpRuns DEF FreshInv
      <3> HIDE DEF q, q2
      <3> QED  BY <2>3, <3>1 DEF BumpOK
    <2>5. SeesOK(q2, todo'[r], retired')
      <3>1. SUFFICES ASSUME q.op = "GetTagged", q.state \in {"sent", "ok"}
                     PROVE  /\ \A t \in Counter : q.gone[t] \subseteq retired[t]
                            /\ \A n \in DOMAIN q.tags :
                                 q2.gens[n] \notin q.gone[q.tags[n]]
        <4> HIDE DEF q, q2
        <4> QED  BY <2>1, <2>3 DEF SeesOK
      <3>2. \A t \in Counter : q.gone[t] \subseteq retired[t] /\ ctr[t] \notin retired[t]
        BY <3>1 DEF FreshInv, SeesOK, RetiredOK
      <3>3. q.state = "sent" /\ ts = q.tags
        BY <2>1, <2>2, <3>1 DEF ReadInv, ReadOK
      <3>4. \A n \in DOMAIN q.tags : q.tags[n] \in Counter
        BY <2>3, TagsAre
      <3>5. q2.gens = [n \in DOMAIN q.tags |-> ctr[q.tags[n]]]
        BY <2>3, <3>3
      <3> HIDE DEF q, q2, ts
      <3> QED  BY <3>2, <3>4, <3>5
    <2> QED  BY <1>n, <2>2, <2>4, <2>5
  <1>6. ASSUME NEW r \in Request, Cut(r)
        PROVE  Calls
    <2>1. \A o \in Request \ {r} : todo'[o] = todo[o]
      BY <1>6 DEF Cut, TypeInv
    <2> QED  BY <1>6, <1>o, <2>1, OverIs DEF Cut
  <1>7. ASSUME NEW r \in Request, Refuse(r) \/ GiveUp(r) \/ BumpReturns(r)
        PROVE  Calls
    <2>1. UNCHANGED todo /\ (Over(r, "ok") \/ Over(r, "failed"))
      BY <1>7 DEF Refuse, GiveUp, BumpReturns
    <2> QED  BY <1>o, <2>1, OverIs
  <1>8. ASSUME NEW r \in Request, ReadReturns(r)
        PROVE  Calls
    <2>1. UNCHANGED <<todo, retired>> /\ req[r].op = "GetTagged" /\ req[r].state = "sent"
      BY <1>8 DEF ReadReturns
    <2>2. CASE Over(r, "failed")
      BY <1>o, <2>1, <2>2, OverIs
    <2>3. CASE req' = [req EXCEPT ![r].state = "ok"]
      <3>1. /\ \A o \in Request \ {r} : req'[o] = req[o]
            /\ req'[r].op = "GetTagged" /\ req'[r].tags = req[r].tags
            /\ req'[r].gens = req[r].gens /\ req'[r].gone = req[r].gone
        BY <2>1, <2>3 DEF TypeInv, RequestType
      <3>2. SeesOK(req[r], todo[r], retired)
        BY DEF FreshInv
      <3>3. BumpOK(req'[r], todo'[r], ctr', used') /\ SeesOK(req'[r], todo'[r], retired')
        BY <2>1, <3>1, <3>2 DEF BumpOK, SeesOK
      <3> QED  BY <1>n, <2>1, <3>1, <3>3
    <2> QED  BY <1>8, <2>2, <2>3 DEF ReadReturns
  <1>9. ASSUME UNCHANGED <<todo, req>>
        PROVE  Calls
    <2>1. ASSUME NEW o \in Request
          PROVE  /\ BumpOK(req[o], todo[o], ctr', used')
                 /\ SeesOK(req[o], todo[o], retired')
      <3>1. req[o] \in RequestType
        BY DEF TypeInv
      <3> QED  BY <1>s, <3>1, BumpStays, SeesStays, RetiredGrows DEF FreshInv
    <2> QED  BY <1>9, <2>1 DEF Calls
  <1>10. (\E t \in Counter : Lose(t)) \/ UNCHANGED vars => UNCHANGED <<todo, req>>
    BY DEF Lose, vars
  <1> QED
    BY <1>1, <1>2, <1>4, <1>5, <1>6, <1>7, <1>8, <1>9, <1>10
       DEF Next, Server, Client, Calls

-----------------------------------------------------------------------------
(* What follows holds when no counter is lost between the SETNX and the    *)
(* INCR of a Bump.  Otherwise that INCR starts its counter at a value it   *)
(* may have held, with no time to live until the PEXPIRE.                  *)

LEMMA FreshInit == Init => FreshInv
  <1> SUFFICES ASSUME Init PROVE FreshInv
    OBVIOUS
  <1>1. /\ \A r \in Request : todo[r] = <<>> /\ req[r].op = "none"
        /\ \A t \in Counter : /\ ctr[t] = NoGeneration /\ used[t] = {}
                              /\ retired[t] = {}
    BY DEF Init, Unsent
  <1>2. Waiting(<<>>) = {}
    BY DEF Waiting
  <1> QED
    BY <1>1, <1>2 DEF FreshInv, DrawsOK, LastOK, FindsCounter, IsNext,
       CountersExpire, RetiredOK, BumpOK, SeesOK

LEMMA FreshStep ==
  ASSUME ~LossInBump, TypeInv, ReadInv, FreshInv, [Next]_vars
  PROVE  FreshInv'
  <1>1. DrawsOK' /\ LastOK' /\ FindsCounter' /\ CountersExpire'
    BY DrawsKeeps, LastKeeps, FindsKeeps, ExpiresKeeps DEF FreshInv
  <1>2. RetiredOK'
    BY RetiredKeeps
  <1>3. \A r \in Request : /\ BumpOK(req[r], todo[r], ctr, used)'
                           /\ SeesOK(req[r], todo[r], retired)'
    BY CallsKeep
  <1> QED  BY <1>1, <1>2, <1>3 DEF FreshInv

THEOREM FreshInvHolds ==
  ASSUME ~LossInBump
  PROVE  Spec => [](TypeInv /\ ReadInv /\ FreshInv)
  <1>1. Init => TypeInv /\ ReadInv /\ FreshInv
    BY InitTyped, ReadInit, FreshInit
  <1>2. TypeInv /\ ReadInv /\ FreshInv /\ [Next]_vars
          => (TypeInv /\ ReadInv /\ FreshInv)'
    BY StepTyped, ReadInvStep, FreshStep
  <1> QED  BY <1>1, <1>2, PTL DEF Spec

(* tagstore.go, "with genTTL": whatever pipelines interleave or are cut,   *)
(* every counter Redis holds has a time to live, and none stays for ever.  *)
THEOREM CountersDoExpire ==
  ASSUME ~LossInBump
  PROVE  Spec => []CountersExpire
  <1>1. FreshInv => CountersExpire
    BY DEF FreshInv
  <1> QED  BY <1>1, FreshInvHolds, PTL

(* Bump's "concurrent bumps from many replicas all count": once a Bump     *)
(* has returned nil, no GetTagged sent afterwards is given a generation    *)
(* that the counter held before that Bump was called.                      *)
THEOREM ReadsSeeBumps ==
  ASSUME ~LossInBump
  PROVE  Spec => []ReadSeesBump
  <1>1. ReadInv /\ FreshInv => ReadSeesBump
    <2> SUFFICES ASSUME ReadInv, FreshInv, NEW r \in Request,
                        req[r].op = "GetTagged", req[r].state = "ok",
                        NEW n \in DOMAIN req[r].tags
                 PROVE  req[r].gens[n] \notin req[r].gone[req[r].tags[n]]
      BY DEF ReadSeesBump
    <2>1. todo[r] = <<>>
      BY DEF ReadInv, ReadOK
    <2>2. SeesOK(req[r], todo[r], retired)
      BY DEF FreshInv
    <2> QED  BY <2>1, <2>2 DEF SeesOK
  <1> QED  BY <1>1, FreshInvHolds, PTL

-----------------------------------------------------------------------------
(* The contract of a TagStore.                                             *)

LEMMA ContractInit == Init => Contract!Init
  BY DEF Init, Contract!Init, Contract!NoGeneration, NoGeneration

(* Seen through its counters, every step is a Read of the contract.        *)
LEMMA ContractStep ==
  ASSUME TypeInv, TypeInv', ReadInv, FreshInv, [Next]_vars
  PROVE  Contract!Next
  <1>n. Contract!NoGeneration = NoGeneration
    BY DEF Contract!NoGeneration, NoGeneration
  <1>1. \A t \in Counter : Renews(t)
    BY StepRenews DEF FreshInv
  <1>2. \A t \in Counter : ctr[t] = NoGeneration \/ ctr[t] \in used[t]
    BY DEF ReadInv
  <1>3. DOMAIN ctr' = Counter
    BY DEF TypeInv
  <1>4. \A t \in Counter : Contract!KeptOrLost(t) \/ Contract!Fresh(t)
    BY <1>1, <1>n DEF Renews, Contract!KeptOrLost, Contract!Fresh
  <1>5. Contract!Record
    <2>1. \A t \in Counter : used'[t] = used[t] \cup ({ctr'[t]} \ {NoGeneration})
      BY <1>1, <1>2 DEF Renews
    <2>2. used' \in [Counter -> SUBSET Generation]
      BY DEF TypeInv, History
    <2> QED  BY <1>n, <2>1, <2>2 DEF Contract!Record
  <1> QED  BY <1>3, <1>4, <1>5 DEF Contract!Next, Contract!Read

(* tagstore.go: Bump advances each counter "to a value it has never held". *)
(* The commands of redisstore implement the TagStore contract: a counter   *)
(* is kept, lost, or moves to a generation it never held.                  *)
THEOREM KeepsTheContract ==
  ASSUME ~LossInBump
  PROVE  Spec => KeepsContract
  <1>1. TypeInv /\ TypeInv' /\ ReadInv /\ FreshInv /\ [Next]_vars
          => [Contract!Next]_(Contract!vars)
    BY ContractStep
  <1>2. Spec => [](TypeInv /\ ReadInv /\ FreshInv)
    BY FreshInvHolds
  <1> QED
    BY <1>1, <1>2, ContractInit, PTL DEF Spec, KeepsContract, Contract!Spec
==============================================================================
