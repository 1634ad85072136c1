--------------------------- MODULE LoadBalanceProofs ---------------------------
(***************************************************************************)
(* Proofs about LoadBalance for any urls, any lists of them, any number of *)
(* calls of refreshUrl and any CounterEnd.  Where a theorem needs it,      *)
(* NoRepeats is said to hold.                                              *)
(***************************************************************************)
EXTENDS LoadBalance, WellFoundedInduction, TLAPS

-----------------------------------------------------------------------------
(* The invariants                                                          *)

\* A call that has not begun holds nothing, and one that awaits a connection
\* knows for which url.
Underway(call) ==
    /\ call.state = "idle" => call.list = <<>> /\ call.map = Empty
    /\ call.state = "connecting" => call.todo # <<>>

\* What a call has in its map it has in its list.
MapInList(call) == Range(call.map) \subseteq Range(call.list)

CallsOK == \A k \in Refreshes : Underway(refresh[k]) /\ MapInList(refresh[k])

TInv == TypeOK /\ CallsOK /\ Range(url2Conn) \subseteq Range(connections)

\* What a call has in its list it has in its map, and it has not met what is left.
Paired(call) ==
    /\ Range(call.list) \subseteq Range(call.map)
    /\ IsInjective(call.todo)
    /\ Range(call.todo) \cap DOMAIN call.map = {}

Pairs ==
    /\ \A k \in Refreshes : Paired(refresh[k])
    /\ Range(connections) \subseteq Range(url2Conn)

MInv == NoRepeats /\ TInv /\ Pairs

\* What a call holds while no other interferes: of a url that is in the pool, the
\* connection of the pool; of another, one that the pool does not have; and
\* none that is closed.
Holds(call) ==
    /\ IsInjective(call.map)
    /\ \A u \in DOMAIN call.map :
          IF u \in DOMAIN url2Conn THEN call.map[u] = url2Conn[u]
                                   ELSE call.map[u] \notin Range(url2Conn)
    /\ \A c \in Range(call.list) :
          c \in Range(url2Conn) =>
              \E u \in DOMAIN call.map \cap DOMAIN url2Conn : c = url2Conn[u]
    /\ Range(call.list) \cap closed = {}

\* The url that it awaits is not in the pool.
Awaits(call) == call.todo # <<>> => Head(call.todo) \notin DOMAIN url2Conn

Connecting == {k \in Refreshes : refresh[k].state = "connecting"}

Alone ==
    /\ \A j, k \in Connecting : j = k
    /\ \A k \in Connecting : Holds(refresh[k]) /\ Awaits(refresh[k])
    /\ IsInjective(url2Conn)
    /\ Range(connections) \cap closed = {}

PInv == TInv /\ (~overlapped => Alone)

\* In a pool of p: the place d steps on from place s, and how far from it place i is.
At(p, s, d) == IF s + d < p THEN s + d ELSE s + d - p
Ahead(p, s, i) == IF i >= s THEN i - s ELSE i - s + p

\* Since the counter last went back to 0, or since the swap, the requests have
\* gone round from place s on: each connection got n, and those of the d places
\* from s on one more.  What they had before that differs by the turns at most.
Rounds(before, s, d, n) ==
    /\ \A i, j \in 1..poolSize : before[i] - before[j] <= turns
    /\ \A i \in 1..poolSize :
          asked[i] = before[i] + n + (IF Ahead(poolSize, s, i - 1) < d THEN 1 ELSE 0)
    /\ (counter + 1) % poolSize = At(poolSize, s, d)

RoundRobin ==
    poolSize > 0 =>
        \E before \in [1..poolSize -> Nat], s, d \in 0..poolSize - 1, n \in Nat :
            Rounds(before, s, d, n)

-----------------------------------------------------------------------------
(* Sequences, maps and the least number                                    *)

LEMMA Smallest ==
    ASSUME NEW S, S \subseteq Nat, S # {}
    PROVE  \E n \in S : \A m \in S : n <= m
<1> DEFINE Less == OpToRel(<, Nat)
<1>1. IsWellFoundedOn(Less, Nat)
  BY NatLessThanWellFounded, Zenon
<1>2. \A x, y \in Nat : x < y => <<x, y>> \in Less
  BY DEF OpToRel
<1> HIDE DEF Less
<1>3. PICK n \in S : \A m \in S : <<m, n>> \notin Less
  BY <1>1, WFMin
<1>4. \A m \in S : ~(m < n)
  BY <1>2, <1>3
<1>5. \A m \in S : n <= m
  BY <1>4
<1> QED
  BY <1>5

LEMMA MapsAre ==
    ASSUME NEW n \in Nat, NEW m
    PROVE  m \in MapsTo(n) <=> DOMAIN m \subseteq Urls /\ m \in [DOMAIN m -> 1..n]
BY DEF MapsTo

LEMMA EmptyMap ==
    /\ DOMAIN Empty = {} /\ Range(Empty) = {} /\ IsInjective(Empty)
    /\ \A n \in Nat : Empty \in MapsTo(n)
BY MapsAre DEF Empty, Range, IsInjective

LEMMA EmptySequence ==
    ASSUME NEW S
    PROVE  <<>> \in Seq(S) /\ Range(<<>>) = {} /\ Len(<<>>) = 0
BY DEF Range

\* With more connections there are the same locals.
LEMMA LocalsGrow ==
    ASSUME NEW n \in Nat
    PROVE  /\ Locals(n) \subseteq Locals(n + 1)
           /\ MapsTo(n) \subseteq MapsTo(n + 1)
           /\ Seq(1..n) \subseteq Seq(1..(n + 1))
<1>1. 1..n \subseteq 1..(n + 1)
  OBVIOUS
<1>2. MapsTo(n) \subseteq MapsTo(n + 1)
  BY <1>1, MapsAre
<1>3. Seq(1..n) \subseteq Seq(1..(n + 1))
  BY <1>1
<1> QED
  BY <1>2, <1>3 DEF Locals

\* Known(todo) is there, and is what it says.
LEMMA KnownIs ==
    ASSUME NEW todo \in Seq(Urls)
    PROVE  /\ Known(todo) \in 0..Len(todo)
           /\ \A i \in 1..Known(todo) : todo[i] \in DOMAIN url2Conn
           /\ Known(todo) < Len(todo) => todo[Known(todo) + 1] \notin DOMAIN url2Conn
<1> DEFINE Stop == {n \in Nat : n < Len(todo) => todo[n + 1] \notin DOMAIN url2Conn}
<1>1. Len(todo) \in Stop
  OBVIOUS
<1>2. PICK n \in Stop : \A m \in Stop : n <= m
  BY <1>1, Smallest
<1>3. n \in 0..Len(todo) /\ (n < Len(todo) => todo[n + 1] \notin DOMAIN url2Conn)
  BY <1>1, <1>2
<1>4. \A i \in 1..n : todo[i] \in DOMAIN url2Conn
  <2> SUFFICES ASSUME NEW i \in 1..n
               PROVE  todo[i] \in DOMAIN url2Conn
    OBVIOUS
  <2>1. i - 1 \in Nat /\ ~(n <= i - 1) /\ (i - 1) + 1 = i
    OBVIOUS
  <2>2. i - 1 \notin Stop
    BY <1>2, <2>1
  <2> QED
    BY <2>1, <2>2
<1> HIDE DEF Stop
<1> QED
  BY <1>3, <1>4 DEF Known

LEMMA RangeOfConcat ==
    ASSUME NEW S, NEW s \in Seq(S), NEW t \in Seq(S)
    PROVE  Range(s \o t) = Range(s) \cup Range(t)
<1> DEFINE m == Len(s)
           n == Len(t)
<1>1. /\ m \in Nat /\ n \in Nat /\ DOMAIN s = 1..m /\ DOMAIN t = 1..n
      /\ DOMAIN (s \o t) = 1..(m + n)
      /\ \A i \in 1..(m + n) : (s \o t)[i] = IF i <= m THEN s[i] ELSE t[i - m]
  OBVIOUS
<1> HIDE DEF m, n
<1>2. ASSUME NEW i \in 1..(m + n)
      PROVE  (s \o t)[i] \in Range(s) \cup Range(t)
  <2>1. CASE i <= m
    <3>1. i \in 1..m
      BY <1>1, <2>1
    <3> QED
      BY <1>1, <2>1, <3>1 DEF Range
  <2>2. CASE ~(i <= m)
    <3>1. i - m \in 1..n
      BY <1>1, <2>2
    <3> QED
      BY <1>1, <2>2, <3>1 DEF Range
  <2> QED
    BY <2>1, <2>2
<1>3. ASSUME NEW i \in 1..m
      PROVE  s[i] \in Range(s \o t)
  <2>1. i \in 1..(m + n) /\ i <= m
    BY <1>1
  <2> QED
    BY <1>1, <2>1 DEF Range
<1>4. ASSUME NEW i \in 1..n
      PROVE  t[i] \in Range(s \o t)
  <2>1. m + i \in 1..(m + n) /\ ~(m + i <= m) /\ (m + i) - m = i
    BY <1>1
  <2> QED
    BY <1>1, <2>1 DEF Range
<1> QED
  BY <1>1, <1>2, <1>3, <1>4 DEF Range

LEMMA RangeOfAppend ==
    ASSUME NEW S, NEW s \in Seq(S), NEW x \in S
    PROVE  Range(Append(s, x)) = Range(s) \cup {x}
<1> DEFINE n == Len(s)
           t == Append(s, x)
<1>1. /\ n \in Nat /\ DOMAIN s = 1..n /\ DOMAIN t = 1..(n + 1)
      /\ t[n + 1] = x /\ \A k \in 1..n : t[k] = s[k]
  OBVIOUS
<1>2. 1..(n + 1) = 1..n \cup {n + 1}
  BY <1>1
<1> HIDE DEF n, t
<1> QED
  BY <1>1, <1>2 DEF Range

\* The urls at the front of what is left of a call.
Front(call, n) == {call.todo[i] : i \in 1..n}

\* What a call has when it has taken n connections of the pool.
LEMMA TakenIs ==
    ASSUME NEW N \in Nat, url2Conn \in MapsTo(N), NEW call \in Locals(N),
           NEW n \in 0..Len(call.todo), Front(call, n) \subseteq DOMAIN url2Conn,
           NEW next, next = Taken(call, n)
    PROVE  /\ next \in Locals(N) /\ next.state = call.state
           /\ Len(next.todo) = Len(call.todo) - n
           /\ \A i \in 1..Len(next.todo) : next.todo[i] = call.todo[n + i]
           /\ DOMAIN next.map = DOMAIN call.map \cup Front(call, n)
           /\ \A u \in DOMAIN next.map :
                 next.map[u] = IF u \in Front(call, n) THEN url2Conn[u] ELSE call.map[u]
           /\ Range(next.list) = Range(call.list) \cup {url2Conn[u] : u \in Front(call, n)}
<1> DEFINE more == [i \in 1..n |-> url2Conn[call.todo[i]]]
           rest == SubSeq(call.todo, n + 1, Len(call.todo))
           map == [u \in DOMAIN call.map \cup Front(call, n) |->
                      IF u \in Front(call, n) THEN url2Conn[u] ELSE call.map[u]]
<1>1. /\ call.todo \in Seq(Urls) /\ call.list \in Seq(1..N) /\ call.map \in MapsTo(N)
      /\ Len(call.todo) \in Nat /\ n \in Nat /\ n <= Len(call.todo)
  BY DEF Locals
<1>2. /\ next = [call EXCEPT !.todo = rest, !.list = call.list \o more, !.map = map]
  BY DEF Taken, Front
<1>3. /\ rest \in Seq(Urls) /\ Len(rest) = Len(call.todo) - n
      /\ \A i \in 1..Len(rest) : rest[i] = call.todo[n + i]
  BY <1>1
<1>4. \A i \in 1..n : call.todo[i] \in Front(call, n)
  BY DEF Front
<1>5. more \in Seq(1..N)
  <2>1. \A i \in 1..n : url2Conn[call.todo[i]] \in 1..N
    BY <1>4, MapsAre
  <2> QED
    BY <1>1, <2>1
<1>6. Range(more) = {url2Conn[u] : u \in Front(call, n)}
  BY DEF Range, Front
<1>7. map \in MapsTo(N)
  <2>1. Front(call, n) \subseteq Urls
    BY MapsAre
  <2>2. \A u \in DOMAIN map : map[u] \in 1..N
    BY <1>1, MapsAre
  <2>3. map \in [DOMAIN map -> 1..N]
    BY <2>2
  <2>4. DOMAIN map \subseteq Urls
    BY <1>1, <2>1, MapsAre
  <2> HIDE DEF map
  <2> QED
    BY <2>3, <2>4, MapsAre
<1>8. /\ DOMAIN map = DOMAIN call.map \cup Front(call, n)
      /\ \A u \in DOMAIN map :
            map[u] = IF u \in Front(call, n) THEN url2Conn[u] ELSE call.map[u]
  OBVIOUS
<1> HIDE DEF more, rest, map
<1>9. /\ call.list \o more \in Seq(1..N)
      /\ Range(call.list \o more) = Range(call.list) \cup Range(more)
  BY <1>1, <1>5, RangeOfConcat
<1>10. /\ next.state = call.state /\ next.todo = rest
       /\ next.list = call.list \o more /\ next.map = map
       /\ next \in Locals(N)
  BY <1>2, <1>3, <1>7, <1>9 DEF Locals
<1> QED
  BY <1>3, <1>6, <1>8, <1>9, <1>10

-----------------------------------------------------------------------------
(* How a call of refreshUrl goes on                                        *)

\* A call as it is when it has gone on.
Onward(call) == Taken(call, Known(call.todo))

\* What the state is made of, with n connections.
Held(n) ==
    /\ connections \in Seq(1..n) /\ url2Conn \in MapsTo(n) /\ poolSize \in Nat
    /\ refresh \in [Refreshes -> Locals(n)] /\ closed \subseteq 1..n
    /\ asked \in [1..poolSize -> Nat] /\ turns \in Nat

LEMMA GoesOn ==
    ASSUME NEW N \in Nat, url2Conn \in MapsTo(N), NEW call \in Locals(N),
           NEW next, next = Onward(call)
    PROVE  /\ next \in Locals(N)
           /\ Awaits(next)
           /\ Range(call.list) \subseteq Range(next.list)
           /\ MapInList(call) => MapInList(next)
           /\ Paired(call) => Paired(next)
           /\ \E F \in SUBSET DOMAIN url2Conn :
                 /\ DOMAIN next.map = DOMAIN call.map \cup F
                 /\ \A u \in DOMAIN next.map :
                       next.map[u] = IF u \in F THEN url2Conn[u] ELSE call.map[u]
                 /\ Range(next.list) = Range(call.list) \cup {url2Conn[u] : u \in F}
<1> DEFINE n == Known(call.todo)
           F == Front(call, n)
<1>1. call.todo \in Seq(Urls)
  BY DEF Locals
<1>2. /\ n \in 0..Len(call.todo)
      /\ \A i \in 1..n : call.todo[i] \in DOMAIN url2Conn
      /\ n < Len(call.todo) => call.todo[n + 1] \notin DOMAIN url2Conn
  BY <1>1, KnownIs
<1>3. F \subseteq DOMAIN url2Conn
  BY <1>2 DEF Front
<1>4. next = Taken(call, n)
  BY DEF Onward
<1>5. /\ \A i \in 1..n : call.todo[i] \in F
      /\ \A u \in F : \E i \in 1..n : u = call.todo[i]
  BY DEF Front
<1> HIDE DEF n
<1>6. /\ next \in Locals(N)
      /\ Len(next.todo) = Len(call.todo) - n
      /\ \A i \in 1..Len(next.todo) : next.todo[i] = call.todo[n + i]
      /\ DOMAIN next.map = DOMAIN call.map \cup F
      /\ \A u \in DOMAIN next.map :
            next.map[u] = IF u \in F THEN url2Conn[u] ELSE call.map[u]
      /\ Range(next.list) = Range(call.list) \cup {url2Conn[u] : u \in F}
  <2>1. n \in 0..Len(call.todo) /\ Front(call, n) \subseteq DOMAIN url2Conn
    BY <1>2, <1>3
  <2> HIDE DEF F
  <2>2. Front(call, n) = F
    BY DEF F
  <2>3. /\ next \in Locals(N)
        /\ Len(next.todo) = Len(call.todo) - n
        /\ \A i \in 1..Len(next.todo) : next.todo[i] = call.todo[n + i]
    BY <1>4, <2>1, TakenIs
  <2>4. /\ DOMAIN next.map = DOMAIN call.map \cup Front(call, n)
        /\ \A u \in DOMAIN next.map :
              next.map[u] = IF u \in Front(call, n) THEN url2Conn[u] ELSE call.map[u]
        /\ Range(next.list) = Range(call.list) \cup {url2Conn[u] : u \in Front(call, n)}
    BY <1>4, <2>1, TakenIs
  <2> QED
    BY <2>2, <2>3, <2>4
<1> HIDE DEF F
<1>7. next.todo \in Seq(Urls)
  BY <1>6 DEF Locals
<1>8. Awaits(next)
  <2> SUFFICES ASSUME next.todo # <<>>
               PROVE  Head(next.todo) \notin DOMAIN url2Conn
    BY DEF Awaits
  <2>1. Len(next.todo) \in Nat \ {0} /\ Head(next.todo) = next.todo[1]
    BY <1>7
  <2>2. 1 \in 1..Len(next.todo) /\ n < Len(call.todo)
    BY <1>1, <1>2, <1>6, <2>1
  <2> QED
    BY <1>2, <1>6, <2>1, <2>2
<1>9. ASSUME MapInList(call)
      PROVE  MapInList(next)
  <2> SUFFICES ASSUME NEW u \in DOMAIN next.map
               PROVE  next.map[u] \in Range(next.list)
    BY DEF MapInList, Range
  <2>1. CASE u \in F
    BY <1>6, <2>1
  <2>2. CASE u \notin F
    <3>1. u \in DOMAIN call.map /\ next.map[u] = call.map[u]
      BY <1>6, <2>2
    <3>2. call.map[u] \in Range(call.list)
      BY <1>9, <3>1 DEF MapInList, Range
    <3> QED
      BY <1>6, <3>1, <3>2
  <2> QED
    BY <2>1, <2>2
<1>10. ASSUME Paired(call)
       PROVE  Paired(next)
  <2>1. /\ DOMAIN call.todo = 1..Len(call.todo) /\ DOMAIN next.todo = 1..Len(next.todo)
        /\ Len(call.todo) \in Nat /\ Len(next.todo) \in Nat
    BY <1>1, <1>7
  <2>2. \A i, j \in 1..Len(call.todo) : call.todo[i] = call.todo[j] => i = j
    BY <1>10, <2>1 DEF Paired, IsInjective
  <2>3. \A i \in 1..Len(call.todo) : call.todo[i] \notin DOMAIN call.map
    BY <1>10, <2>1 DEF Paired, Range
  <2>4. \A i \in 1..Len(next.todo) : n + i \in 1..Len(call.todo) /\ n + i \notin 1..n
    BY <1>2, <1>6, <2>1
  <2>5. \A i \in 1..n : i \in 1..Len(call.todo)
    BY <1>2, <2>1
  <2>6. F \cap DOMAIN call.map = {}
    BY <1>5, <2>3, <2>5
  <2>7. IsInjective(next.todo)
    <3> SUFFICES ASSUME NEW i \in 1..Len(next.todo), NEW j \in 1..Len(next.todo),
                        next.todo[i] = next.todo[j]
                 PROVE  i = j
      BY <2>1 DEF IsInjective
    <3>1. n + i = n + j
      BY <1>6, <2>2, <2>4
    <3> QED
      BY <1>2, <2>1, <3>1
  <2>8. Range(next.todo) \cap DOMAIN next.map = {}
    <3> SUFFICES ASSUME NEW i \in 1..Len(next.todo)
                 PROVE  next.todo[i] \notin DOMAIN next.map
      BY <2>1 DEF Range
    <3>1. next.todo[i] = call.todo[n + i] /\ n + i \in 1..Len(call.todo)
      BY <1>6, <2>4
    <3>2. next.todo[i] \notin F
      BY <1>5, <2>2, <2>4, <2>5, <3>1
    <3> QED
      BY <1>6, <2>3, <3>1, <3>2
  <2>9. Range(next.list) \subseteq Range(next.map)
    <3> SUFFICES ASSUME NEW c \in Range(next.list)
                 PROVE  \E u \in DOMAIN next.map : next.map[u] = c
      BY DEF Range
    <3>1. CASE c \in Range(call.list)
      <4>1. PICK u \in DOMAIN call.map : call.map[u] = c
        BY <1>10, <3>1 DEF Paired, Range
      <4> QED
        BY <1>6, <2>6, <4>1
    <3>2. CASE \E u \in F : c = url2Conn[u]
      BY <1>6, <3>2
    <3> QED
      BY <1>6, <3>1, <3>2
  <2> QED
    BY <2>7, <2>8, <2>9 DEF Paired
<1> QED
  BY <1>3, <1>6, <1>8, <1>9, <1>10

\* The two ways in which it goes on.
LEMMA GoOnIs ==
    ASSUME NEW k \in Refreshes, NEW call, GoOn(k, call), NEW next, next = Onward(call)
    PROVE  \/ /\ next.todo # <<>>
              /\ refresh' = [refresh EXCEPT ![k] = [next EXCEPT !.state = "connecting"]]
              /\ UNCHANGED <<connections, url2Conn, poolSize, closed, asked, turns>>
           \/ /\ next.todo = <<>>
              /\ refresh' = [refresh EXCEPT ![k] = [next EXCEPT !.state = "done"]]
              /\ connections' = next.list /\ url2Conn' = next.map
              /\ poolSize' = Len(next.list) /\ closed' = closed \cup Stale(next.map)
              /\ asked' = [i \in 1..Len(next.list) |-> 0] /\ turns' = 0
BY DEF GoOn, Onward, Swap, poolVars

\* A call whose connection has come.
Met(call, c) ==
    [call EXCEPT !.todo = Tail(@), !.list = Append(@, c), !.map = With(@, Head(call.todo), c)]

\* It has what it had, and the connection for the url it waited for.
Brings(met, call, c) ==
    /\ Range(met.list) = Range(call.list) \cup {c}
    /\ DOMAIN met.map = DOMAIN call.map \cup {Head(call.todo)}
    /\ \A u \in DOMAIN met.map : met.map[u] = IF u = Head(call.todo) THEN c ELSE call.map[u]

LEMMA MetIs ==
    ASSUME NEW N \in Nat, NEW call \in Locals(N), call.todo # <<>>,
           NEW met, met = Met(call, N + 1)
    PROVE  /\ met \in Locals(N + 1)
           /\ Brings(met, call, N + 1)
           /\ MapInList(call) => MapInList(met)
           /\ Paired(call) => Paired(met)
<1> DEFINE c == N + 1
           u == Head(call.todo)
           map == With(call.map, u, c)
           list == Append(call.list, c)
<1>1. /\ call.todo \in Seq(Urls) /\ call.list \in Seq(1..c) /\ call.map \in MapsTo(c)
      /\ call \in Locals(c) /\ c \in 1..c /\ c \in Nat
  BY LocalsGrow DEF Locals
<1>2. /\ u \in Urls /\ Tail(call.todo) \in Seq(Urls)
      /\ Len(Tail(call.todo)) = Len(call.todo) - 1 /\ Len(call.todo) \in Nat
      /\ DOMAIN call.todo = 1..Len(call.todo) /\ u = call.todo[1]
      /\ DOMAIN Tail(call.todo) = 1..(Len(call.todo) - 1) /\ 1 \in 1..Len(call.todo)
      /\ \A i \in 1..(Len(call.todo) - 1) : Tail(call.todo)[i] = call.todo[i + 1]
  BY <1>1
<1>3. /\ DOMAIN map = DOMAIN call.map \cup {u}
      /\ \A v \in DOMAIN map : map[v] = IF v = u THEN c ELSE call.map[v]
      /\ map \in [DOMAIN map -> 1..c]
  <2>1. map = [v \in DOMAIN call.map \cup {u} |-> IF v = u THEN c ELSE call.map[v]]
    BY DEF With
  <2>2. \A v \in DOMAIN call.map \cup {u} : (IF v = u THEN c ELSE call.map[v]) \in 1..c
    BY <1>1, MapsAre
  <2> QED
    BY <2>1, <2>2
<1> HIDE DEF u, map
<1>4. map \in MapsTo(c)
  BY <1>1, <1>2, <1>3, MapsAre
<1>5. list \in Seq(1..c) /\ Range(list) = Range(call.list) \cup {c}
  BY <1>1, RangeOfAppend
<1> HIDE DEF c, list
<1>6. met = [call EXCEPT !.todo = Tail(call.todo), !.list = list, !.map = map]
  BY DEF Met, c, u, list, map
<1>7. /\ met.todo = Tail(call.todo) /\ met.list = list /\ met.map = map
      /\ met \in Locals(c)
  BY <1>1, <1>2, <1>4, <1>5, <1>6 DEF Locals
<1>8. ASSUME MapInList(call)
      PROVE  MapInList(met)
  <2>1. \A v \in DOMAIN call.map : call.map[v] \in Range(call.list)
    BY <1>8 DEF MapInList, Range
  <2>2. \A v \in DOMAIN map : map[v] \in Range(list)
    BY <1>3, <1>5, <2>1
  <2>3. Range(map) \subseteq Range(list)
    BY <2>2 DEF Range
  <2> QED
    BY <1>7, <2>3 DEF MapInList
<1>9. ASSUME Paired(call)
      PROVE  Paired(met)
  <2>1. u \notin DOMAIN call.map
    BY <1>2, <1>9 DEF Paired, Range
  <2>2. Range(list) \subseteq Range(map)
    <3> SUFFICES ASSUME NEW x \in Range(list)
                 PROVE  \E v \in DOMAIN map : map[v] = x
      BY DEF Range
    <3>1. CASE x = c
      BY <1>3, <3>1
    <3>2. CASE x \in Range(call.list)
      <4>1. PICK v \in DOMAIN call.map : call.map[v] = x
        BY <1>9, <3>2 DEF Paired, Range
      <4> QED
        BY <1>3, <2>1, <4>1
    <3> QED
      BY <1>5, <3>1, <3>2
  <2>3. \A i \in 1..(Len(call.todo) - 1) :
            i + 1 \in DOMAIN call.todo /\ i + 1 # 1 /\ Tail(call.todo)[i] = call.todo[i + 1]
    BY <1>2
  <2>4. \A i, j \in DOMAIN call.todo : call.todo[i] = call.todo[j] => i = j
    BY <1>9 DEF Paired, IsInjective
  <2>5. IsInjective(Tail(call.todo))
    <3> SUFFICES ASSUME NEW i \in 1..(Len(call.todo) - 1), NEW j \in 1..(Len(call.todo) - 1),
                        Tail(call.todo)[i] = Tail(call.todo)[j]
                 PROVE  i = j
      BY <1>2 DEF IsInjective
    <3>1. i + 1 = j + 1
      BY <2>3, <2>4
    <3> QED
      BY <3>1
  <2>6. Range(Tail(call.todo)) \cap DOMAIN map = {}
    <3> SUFFICES ASSUME NEW i \in 1..(Len(call.todo) - 1)
                 PROVE  Tail(call.todo)[i] \notin DOMAIN map
      BY <1>2 DEF Range
    <3>1. call.todo[i + 1] # u
      BY <1>2, <2>3, <2>4
    <3>2. call.todo[i + 1] \notin DOMAIN call.map
      BY <1>9, <2>3 DEF Paired, Range
    <3> QED
      BY <1>3, <2>3, <3>1, <3>2
  <2> QED
    BY <1>7, <2>2, <2>5, <2>6 DEF Paired
<1>10. Brings(met, call, N + 1)
  BY <1>3, <1>5, <1>7 DEF Brings, c, u
<1> QED
  BY <1>7, <1>8, <1>9, <1>10 DEF c

-----------------------------------------------------------------------------
(* Types                                                                   *)

LEMMA TypeOKIs == TypeOK <=> /\ made \in Nat /\ Held(made)
                             /\ counter \in 0..CounterEnd - 1
                             /\ overlapped \in BOOLEAN /\ shut \subseteq Connections
BY DEF TypeOK, Held, Connections

LEMMA HeldGrows ==
    ASSUME NEW N \in Nat, Held(N)
    PROVE  Held(N + 1)
<1>1. /\ connections \in Seq(1..(N + 1)) /\ url2Conn \in MapsTo(N + 1)
      /\ refresh \in [Refreshes -> Locals(N + 1)]
  BY LocalsGrow DEF Held
<1>2. closed \subseteq 1..(N + 1)
  BY DEF Held
<1> QED
  BY <1>1, <1>2 DEF Held

LEMMA GoOnTypes ==
    ASSUME NEW N \in Nat, Held(N), CallsOK, Range(url2Conn) \subseteq Range(connections),
           NEW k \in Refreshes, NEW call \in Locals(N), MapInList(call), GoOn(k, call)
    PROVE  Held(N)' /\ CallsOK' /\ (Range(url2Conn) \subseteq Range(connections))'
<1>1. PICK next : next = Onward(call)
  OBVIOUS
<1>2. next \in Locals(N) /\ MapInList(next)
  BY <1>1, GoesOn DEF Held
<1>3. ASSUME NEW st \in {"connecting", "done"}, st = "connecting" => next.todo # <<>>,
             refresh' = [refresh EXCEPT ![k] = [next EXCEPT !.state = st]]
      PROVE  refresh' \in [Refreshes -> Locals(N)] /\ CallsOK'
  <2> DEFINE new == [next EXCEPT !.state = st]
  <2>1. /\ new \in Locals(N) /\ new.state = st /\ new.todo = next.todo
        /\ new.list = next.list /\ new.map = next.map
    BY <1>2 DEF Locals
  <2> HIDE DEF new
  <2>2. refresh' = [refresh EXCEPT ![k] = new] /\ refresh \in [Refreshes -> Locals(N)]
    BY <1>3 DEF new, Held
  <2>3. Underway(new) /\ MapInList(new)
    BY <1>2, <1>3, <2>1 DEF Underway, MapInList
  <2>4. \A j \in Refreshes : refresh'[j] = IF j = k THEN new ELSE refresh[j]
    BY <2>2
  <2> QED
    BY <2>1, <2>2, <2>3, <2>4 DEF CallsOK
<1>4. CASE /\ next.todo # <<>>
           /\ refresh' = [refresh EXCEPT ![k] = [next EXCEPT !.state = "connecting"]]
           /\ UNCHANGED <<connections, url2Conn, poolSize, closed, asked, turns>>
  BY <1>3, <1>4 DEF Held
<1>5. CASE /\ next.todo = <<>>
           /\ refresh' = [refresh EXCEPT ![k] = [next EXCEPT !.state = "done"]]
           /\ connections' = next.list /\ url2Conn' = next.map
           /\ poolSize' = Len(next.list) /\ closed' = closed \cup Stale(next.map)
           /\ asked' = [i \in 1..Len(next.list) |-> 0] /\ turns' = 0
  <2>1. refresh' \in [Refreshes -> Locals(N)] /\ CallsOK'
    BY <1>3, <1>5
  <2>2. next.list \in Seq(1..N) /\ next.map \in MapsTo(N) /\ Len(next.list) \in Nat
    BY <1>2 DEF Locals
  <2>3. closed' \subseteq 1..N
    BY <1>5, MapsAre DEF Held, Stale
  <2>4. asked' \in [1..poolSize' -> Nat]
    BY <1>5
  <2>5. (Range(url2Conn) \subseteq Range(connections))'
    BY <1>2, <1>5 DEF MapInList
  <2> QED
    BY <1>5, <2>1, <2>2, <2>3, <2>4, <2>5 DEF Held
<1> QED
  BY <1>1, <1>4, <1>5, GoOnIs

LEMMA InitTInv ==
    ASSUME Init
    PROVE  TInv
<1>1. made = 0 /\ 0 \in Nat /\ <<>> \in Seq(1..0) /\ <<>> \in Seq(Urls)
  BY DEF Init
<1>2. Empty \in MapsTo(0)
  BY EmptyMap
<1>3. refresh \in [Refreshes -> Locals(0)]
  BY <1>1, <1>2 DEF Init, Locals
<1>4. asked \in [1..0 -> Nat]
  BY DEF Init
<1>5. TypeOK
  <2>1. 0 \in 0..CounterEnd - 1
    BY CounterAssumption
  <2>2. Held(0)
    BY <1>1, <1>2, <1>3, <1>4 DEF Init, Held
  <2> QED
    BY <1>1, <2>1, <2>2, TypeOKIs DEF Init, Connections
<1>6. CallsOK
  BY EmptyMap, EmptySequence DEF Init, CallsOK, Underway, MapInList
<1>7. Range(url2Conn) \subseteq Range(connections)
  BY EmptyMap DEF Init
<1> QED
  BY <1>5, <1>6, <1>7 DEF TInv

\* What the first and every later stretch of a call starts with.
LEMMA BegunIs ==
    ASSUME NEW N \in Nat, refresh \in [Refreshes -> Locals(N)], CallsOK,
           NEW k \in Refreshes, refresh[k].state = "idle", NEW urls \in Lists,
           NEW begun, begun = [refresh[k] EXCEPT !.todo = urls]
    PROVE  begun \in Locals(N) /\ begun.todo = urls /\ MapInList(begun)
<1>1. refresh[k] \in Locals(N) /\ urls \in Seq(Urls)
  BY ListsAssumption
<1>2. /\ begun \in Locals(N) /\ begun.todo = urls
      /\ begun.list = refresh[k].list /\ begun.map = refresh[k].map
  BY <1>1 DEF Locals
<1>3. refresh[k].list = <<>> /\ refresh[k].map = Empty /\ MapInList(refresh[k])
  BY DEF CallsOK, Underway
<1> QED
  BY <1>2, <1>3 DEF MapInList

LEMMA ConnectedIs ==
    ASSUME TInv, NEW k \in Refreshes, Connected(k), NEW met, met = Met(refresh[k], made + 1)
    PROVE  /\ refresh[k].state = "connecting" /\ refresh[k].todo # <<>>
           /\ refresh[k] \in Locals(made) /\ made' = made + 1
           /\ GoOn(k, met) /\ UNCHANGED <<overlapped, shut, counter>>
<1>1. /\ refresh[k].state = "connecting" /\ made' = made + 1 /\ GoOn(k, met)
      /\ UNCHANGED <<overlapped, shut, counter>>
  BY DEF Connected, Met
<1>2. refresh[k].todo # <<>>
  BY <1>1 DEF TInv, CallsOK, Underway
<1> QED
  BY <1>1, <1>2 DEF TInv, TypeOK

LEMMA CounterMoves ==
    ASSUME counter \in 0..CounterEnd - 1
    PROVE  NextCounter(counter) \in 0..CounterEnd - 1
BY CounterAssumption DEF NextCounter

LEMMA NextTInv ==
    ASSUME TInv, [Next]_vars
    PROVE  TInv'
<1>1. /\ made \in Nat /\ Held(made) /\ counter \in 0..CounterEnd - 1
      /\ overlapped \in BOOLEAN /\ shut \subseteq 1..made
      /\ CallsOK /\ Range(url2Conn) \subseteq Range(connections)
  BY TypeOKIs DEF TInv, Connections
<1>2. ASSUME NEW N \in Nat, made' = N, Held(N)', counter' \in 0..CounterEnd - 1,
             overlapped' \in BOOLEAN, shut' \subseteq 1..N, CallsOK',
             (Range(url2Conn) \subseteq Range(connections))'
      PROVE  TInv'
  <2>1. TypeOK'
    BY <1>2 DEF Held, TypeOK, Connections
  <2> QED
    BY <1>2, <2>1 DEF TInv
<1>3. ASSUME NEW k \in Refreshes, NEW urls \in Lists, RefreshUrl(k, urls)
      PROVE  TInv'
  <2>1. PICK N, begun : N \in Nat /\ N = made /\ begun = [refresh[k] EXCEPT !.todo = urls]
    BY <1>1
  <2>2. /\ refresh[k].state = "idle" /\ GoOn(k, begun)
        /\ made' = made /\ shut' = shut /\ counter' = counter /\ overlapped' \in BOOLEAN
    BY <1>3, <2>1 DEF RefreshUrl
  <2>3. Held(N) /\ begun \in Locals(N) /\ MapInList(begun)
    BY <1>1, <2>1, <2>2, BegunIs DEF Held
  <2>4. Held(N)' /\ CallsOK' /\ (Range(url2Conn) \subseteq Range(connections))'
    BY <1>1, <2>1, <2>2, <2>3, GoOnTypes
  <2> QED
    BY <1>1, <1>2, <2>1, <2>2, <2>4
<1>4. ASSUME NEW k \in Refreshes, Connected(k)
      PROVE  TInv'
  <2>1. PICK N, met : N \in Nat /\ N = made + 1 /\ met = Met(refresh[k], made + 1)
    BY <1>1
  <2>2. /\ refresh[k].todo # <<>> /\ refresh[k] \in Locals(made) /\ made' = made + 1
        /\ GoOn(k, met) /\ overlapped' = overlapped /\ shut' = shut /\ counter' = counter
    BY <1>4, <2>1, ConnectedIs
  <2>3. met \in Locals(N) /\ MapInList(met)
    BY <1>1, <2>1, <2>2, MetIs DEF CallsOK
  <2>4. Held(N)
    BY <1>1, <2>1, HeldGrows
  <2>5. Held(N)' /\ CallsOK' /\ (Range(url2Conn) \subseteq Range(connections))'
    BY <1>1, <2>1, <2>2, <2>3, <2>4, GoOnTypes
  <2>6. made' = N /\ shut' \subseteq 1..N
    BY <1>1, <2>1, <2>2
  <2> QED
    BY <1>1, <1>2, <2>2, <2>5, <2>6
<1>5. ASSUME NEW k \in Refreshes, ConnectFails(k)
      PROVE  TInv'
  <2>1. /\ refresh[k].state = "connecting" /\ refresh \in [Refreshes -> Locals(made)]
        /\ refresh' = [refresh EXCEPT ![k] = [refresh[k] EXCEPT !.state = "failed"]]
        /\ UNCHANGED <<connections, url2Conn, poolSize, overlapped, made, closed, shut,
                       counter, asked, turns>>
    BY <1>1, <1>5 DEF ConnectFails, poolVars, requestVars, Held
  <2>2. PICK new : new = [refresh[k] EXCEPT !.state = "failed"]
    OBVIOUS
  <2>3. /\ new \in Locals(made) /\ new.state = "failed"
        /\ new.list = refresh[k].list /\ new.map = refresh[k].map
    BY <2>1, <2>2 DEF Locals
  <2>4. \A j \in Refreshes : refresh'[j] = IF j = k THEN new ELSE refresh[j]
    BY <2>1, <2>2
  <2>5. CallsOK'
    BY <1>1, <2>3, <2>4 DEF CallsOK, Underway, MapInList
  <2>6. refresh' \in [Refreshes -> Locals(made)]
    BY <2>1, <2>2, <2>3
  <2> QED
    BY <1>1, <1>2, <2>1, <2>5, <2>6 DEF Held
<1>6. CASE Request
  <2>1. PICK i, n : /\ poolSize > 0 /\ n = NextCounter(counter) /\ counter' = n
                    /\ i = (n % poolSize) + 1
                    /\ asked' = [asked EXCEPT ![i] = @ + 1]
                    /\ turns' = (IF n = 0 THEN turns + 1 ELSE turns)
                    /\ UNCHANGED <<connections, url2Conn, poolSize, refresh, overlapped, made,
                                   closed, shut>>
    BY <1>6 DEF Request, poolVars, refreshVars
  <2>2. poolSize \in Nat /\ asked \in [1..poolSize -> Nat] /\ turns \in Nat
    BY <1>1 DEF Held
  <2>3. counter' \in 0..CounterEnd - 1
    BY <1>1, <2>1, CounterMoves
  <2>4. asked' \in [1..poolSize -> Nat] /\ turns' \in Nat
    <3>1. turns' \in Nat
      BY <2>1, <2>2
    <3>2. \A j \in 1..poolSize : asked[j] \in Nat /\ asked[j] + 1 \in Nat
      BY <2>2
    <3>3. asked' \in [1..poolSize -> Nat]
      BY <2>1, <2>2, <3>2
    <3> QED
      BY <3>1, <3>3
  <2>5. Held(made)' /\ CallsOK'
    BY <1>1, <2>1, <2>4 DEF Held, CallsOK
  <2> QED
    BY <1>1, <1>2, <2>1, <2>3, <2>5
<1>7. CASE RequestThrows
  <2>1. counter' \in 0..CounterEnd - 1
    BY <1>1, <1>7, CounterMoves DEF RequestThrows
  <2> QED
    BY <1>1, <1>2, <1>7, <2>1
       DEF RequestThrows, poolVars, refreshVars, Held, CallsOK
<1>8. CASE Close
  <2>1. Range(connections) \subseteq 1..made
    BY <1>1 DEF Held, Range
  <2> QED
    BY <1>1, <1>2, <1>8, <2>1 DEF Close, poolVars, refreshVars, requestVars, Held, CallsOK
<1>9. CASE UNCHANGED vars
  BY <1>1, <1>2, <1>9 DEF vars, poolVars, refreshVars, requestVars, Held, CallsOK
<1> QED
  BY <1>3, <1>4, <1>5, <1>6, <1>7, <1>8, <1>9 DEF Next

LEMMA TInvCorrect == Spec => []TInv
BY InitTInv, NextTInv, PTL DEF Spec

\* Every call, map and pool keeps its type: no connection is known that was not
\* made, and the counter never reaches CounterEnd.
THEOREM TypeCorrect == Spec => []TypeOK
<1>1. TInv => TypeOK
  BY DEF TInv
<1> QED
  BY <1>1, TInvCorrect, PTL

-----------------------------------------------------------------------------
(* The round robin                                                         *)

LEMMA Remainder ==
    ASSUME NEW q \in Nat, NEW p \in Nat \ {0}, NEW r \in 0..p - 1
    PROVE  (p * q + r) % p = r
OBVIOUS

LEMMA RemainderOfNext ==
    ASSUME NEW n \in Nat, NEW p \in Nat \ {0}
    PROVE  (n + 1) % p = IF (n % p) + 1 = p THEN 0 ELSE (n % p) + 1
<1> DEFINE q == n \div p
           r == n % p
<1>1. n = (p * q) + r /\ r \in 0..p - 1 /\ q \in Nat
  OBVIOUS
<1> HIDE DEF q, r
<1>2. CASE r + 1 = p
  <2>1. n + 1 = (p * (q + 1)) + 0
    BY <1>1, <1>2
  <2>2. ((p * (q + 1)) + 0) % p = 0
    BY <1>1, Remainder
  <2> QED
    BY <1>2, <2>1, <2>2 DEF r
<1>3. CASE r + 1 # p
  <2>1. n + 1 = (p * q) + (r + 1) /\ r + 1 \in 0..p - 1
    BY <1>1, <1>3
  <2>2. ((p * q) + (r + 1)) % p = r + 1
    BY <1>1, <2>1, Remainder
  <2> QED
    BY <1>3, <2>1, <2>2 DEF r
<1> QED
  BY <1>2, <1>3

LEMMA StepsType ==
    ASSUME NEW p \in Nat \ {0}, NEW s \in 0..p - 1, NEW d \in 0..p - 1
    PROVE  /\ At(p, s, d) \in 0..p - 1 /\ At(p, s, 0) = s
           /\ Ahead(p, s, d) \in 0..p - 1
BY DEF At, Ahead

LEMMA AheadOfAt ==
    ASSUME NEW p \in Nat \ {0}, NEW s \in 0..p - 1, NEW d \in 0..p - 1, NEW i \in 0..p - 1
    PROVE  (Ahead(p, s, i) = d) <=> (i = At(p, s, d))
BY DEF At, Ahead

\* One place further.
LEMMA NextPlace ==
    ASSUME NEW p \in Nat \ {0}, NEW s \in 0..p - 1, NEW d \in 0..p - 1, NEW e,
           e = IF d + 1 = p THEN 0 ELSE d + 1
    PROVE  At(p, s, e) = IF At(p, s, d) + 1 = p THEN 0 ELSE At(p, s, d) + 1
BY DEF At

LEMMA RoundStarts ==
    ASSUME NEW p \in Nat \ {0}, NEW c \in Nat, NEW t \in Nat, NEW got \in [1..p -> Nat],
           poolSize' = p, counter' = c, turns' = t, asked' = got,
           \A i, j \in 1..p : got[i] - got[j] <= t
    PROVE  RoundRobin'
<1>1. PICK s : s = (c + 1) % p
  OBVIOUS
<1>2. s \in 0..p - 1 /\ 0 \in 0..p - 1
  BY <1>1
<1>3. At(p, s, 0) = s /\ \A i \in 1..p : ~(Ahead(p, s, i - 1) < 0)
  <2>1. \A i \in 1..p : i - 1 \in 0..p - 1
    OBVIOUS
  <2>2. \A i \in 0..p - 1 : ~(Ahead(p, s, i) < 0)
    BY <1>2 DEF Ahead
  <2> QED
    BY <1>2, <2>1, <2>2, StepsType
<1>4. Rounds(got, s, 0, 0)'
  BY <1>1, <1>3 DEF Rounds
<1> QED
  BY <1>2, <1>4 DEF RoundRobin

\* Two that got n each, and one more or not, are apart by one more than before.
LEMMA OneMore ==
    ASSUME NEW n \in Nat, NEW t \in Nat, NEW b1 \in Nat, NEW b2 \in Nat, b1 - b2 <= t,
           NEW g1, NEW g2, g1 = b1 + n \/ g1 = b1 + n + 1, g2 = b2 + n \/ g2 = b2 + n + 1
    PROVE  g1 - g2 <= t + 1
OBVIOUS

LEMMA RequestKeepsRound ==
    ASSUME TInv, RoundRobin, Request
    PROVE  RoundRobin'
<1>1. /\ poolSize \in Nat \ {0} /\ counter \in Nat
      /\ asked \in [1..poolSize -> Nat] /\ turns \in Nat
  BY CounterAssumption DEF TInv, TypeOK, Request
<1>2. PICK p \in Nat \ {0}, c \in Nat, t \in Nat : p = poolSize /\ c = counter /\ t = turns
  BY <1>1
<1>3. PICK got \in [1..p -> Nat] : got = asked
  BY <1>1, <1>2
<1>4. PICK x : x = NextCounter(c) % p
  OBVIOUS
<1>5. poolSize' = p /\ counter' = NextCounter(c)
  BY <1>2 DEF Request, poolVars
<1>6. asked' = [got EXCEPT ![x + 1] = @ + 1]
  BY <1>2, <1>3, <1>4 DEF Request
<1>7. turns' = IF NextCounter(c) = 0 THEN t + 1 ELSE t
  BY <1>2 DEF Request
<1>8. PICK before \in [1..p -> Nat], s \in 0..p - 1, d \in 0..p - 1, n \in Nat :
          Rounds(before, s, d, n)
  BY <1>2 DEF RoundRobin
<1>9. \A i, j \in 1..p : before[i] - before[j] <= t
  BY <1>2, <1>8 DEF Rounds
<1>10. \A i \in 1..p : got[i] = before[i] + n + (IF Ahead(p, s, i - 1) < d THEN 1 ELSE 0)
  BY <1>2, <1>3, <1>8 DEF Rounds
<1>11. (c + 1) % p = At(p, s, d)
  BY <1>2, <1>8 DEF Rounds
<1>12. \A i \in 1..p :
           /\ i - 1 \in 0..p - 1 /\ before[i] \in Nat /\ got[i] \in Nat
           /\ asked'[i] = IF i = x + 1 THEN got[i] + 1 ELSE got[i]
  BY <1>6
<1>13. CASE NextCounter(c) = c + 1
  <2>1. PICK e : e = IF d + 1 = p THEN 0 ELSE d + 1
    OBVIOUS
  <2>2. PICK m : m = IF d + 1 = p THEN n + 1 ELSE n
    OBVIOUS
  <2>3. e \in 0..p - 1 /\ m \in Nat
    BY <2>1, <2>2
  <2>4. ((c + 1) + 1) % p = At(p, s, e)
    <3>1. PICK y \in Nat : y = c + 1
      OBVIOUS
    <3>2. (y + 1) % p = IF (y % p) + 1 = p THEN 0 ELSE (y % p) + 1
      BY RemainderOfNext
    <3>3. At(p, s, e) = IF At(p, s, d) + 1 = p THEN 0 ELSE At(p, s, d) + 1
      BY <2>1, NextPlace
    <3> QED
      BY <1>11, <3>1, <3>2, <3>3
  <2>5. x = At(p, s, d) /\ x \in 0..p - 1
    BY <1>4, <1>11, <1>13, StepsType
  <2>6. \A i \in 1..p : asked'[i] = before[i] + m + (IF Ahead(p, s, i - 1) < e THEN 1 ELSE 0)
    <3> SUFFICES ASSUME NEW i \in 1..p
                 PROVE  asked'[i] = before[i] + m + (IF Ahead(p, s, i - 1) < e THEN 1 ELSE 0)
      OBVIOUS
    <3>1. PICK a : a = Ahead(p, s, i - 1)
      OBVIOUS
    <3>2. a \in 0..p - 1
      BY <1>12, <3>1, StepsType
    <3>3. (a = d) <=> (i = x + 1)
      <4>1. (a = d) <=> (i - 1 = At(p, s, d))
        BY <1>12, <3>1, AheadOfAt
      <4> QED
        BY <2>5, <4>1
    <3>4. got[i] = before[i] + n + (IF a < d THEN 1 ELSE 0) /\ before[i] \in Nat
      BY <1>10, <1>12, <3>1
    <3>5. asked'[i] = IF a = d THEN got[i] + 1 ELSE got[i]
      BY <1>12, <3>3
    <3>6. asked'[i] = before[i] + m + (IF a < e THEN 1 ELSE 0)
      BY <2>1, <2>2, <3>2, <3>4, <3>5
    <3> QED
      BY <3>1, <3>6
  <2>7. turns' = t /\ counter' = c + 1
    BY <1>5, <1>7, <1>13
  <2>8. Rounds(before, s, e, m)'
    BY <1>5, <1>9, <2>4, <2>6, <2>7 DEF Rounds
  <2> QED
    BY <1>5, <2>3, <2>8 DEF RoundRobin
<1>14. CASE NextCounter(c) = 0
  <2>1. PICK e, m : e = (IF p = 1 THEN 0 ELSE 1) /\ m = (IF p = 1 THEN 1 ELSE 0)
    OBVIOUS
  <2>2. 0 % p = 0
    BY Remainder
  <2>3. (0 + 1) % p = At(p, 0, e)
    <3>1. (0 + 1) % p = IF (0 % p) + 1 = p THEN 0 ELSE (0 % p) + 1
      BY RemainderOfNext
    <3> QED
      BY <2>1, <2>2, <3>1 DEF At
  <2>4. x = 0 /\ counter' = 0 /\ turns' = t + 1
    BY <1>4, <1>5, <1>7, <1>14, <2>2
  <2>5. \A i \in 1..p : asked'[i] = got[i] + m + (IF Ahead(p, 0, i - 1) < e THEN 1 ELSE 0)
    <3> SUFFICES ASSUME NEW i \in 1..p
                 PROVE  asked'[i] = got[i] + m + (IF Ahead(p, 0, i - 1) < e THEN 1 ELSE 0)
      OBVIOUS
    <3>1. Ahead(p, 0, i - 1) = i - 1
      BY DEF Ahead
    <3>2. asked'[i] = (IF i = 1 THEN got[i] + 1 ELSE got[i]) /\ got[i] \in Nat
      BY <1>12, <2>4
    <3> QED
      BY <2>1, <3>1, <3>2
  <2>6. \A i, j \in 1..p : got[i] - got[j] <= t + 1
    <3> SUFFICES ASSUME NEW i \in 1..p, NEW j \in 1..p
                 PROVE  got[i] - got[j] <= t + 1
      OBVIOUS
    <3>1. before[i] \in Nat /\ before[j] \in Nat /\ before[i] - before[j] <= t
      BY <1>9
    <3>2. ASSUME NEW k \in 1..p
          PROVE  got[k] = before[k] + n \/ got[k] = before[k] + n + 1
      <4>1. PICK a \in {0, 1} : got[k] = before[k] + n + a
        BY <1>10
      <4>2. before[k] \in Nat
        OBVIOUS
      <4> QED
        BY <4>1, <4>2
    <3>3. got[i] = before[i] + n \/ got[i] = before[i] + n + 1
      BY <3>2
    <3>4. got[j] = before[j] + n \/ got[j] = before[j] + n + 1
      BY <3>2
    <3> QED
      BY <3>1, <3>3, <3>4, OneMore
  <2>7. Rounds(got, 0, e, m)'
    BY <1>5, <2>3, <2>4, <2>5, <2>6 DEF Rounds
  <2>8. 0 \in 0..p - 1 /\ e \in 0..p - 1 /\ m \in Nat
    BY <2>1
  <2> QED
    BY <1>5, <2>7, <2>8 DEF RoundRobin
<1> QED
  BY <1>13, <1>14 DEF NextCounter

LEMMA GoOnKeepsRound ==
    ASSUME TInv, TInv', RoundRobin, NEW k \in Refreshes, NEW call, GoOn(k, call),
           counter' = counter
    PROVE  RoundRobin'
<1>1. CASE UNCHANGED <<poolSize, asked, turns>>
  BY <1>1 DEF RoundRobin, Rounds
<1>2. CASE asked' = [i \in 1..poolSize' |-> 0] /\ turns' = 0
  <2> SUFFICES ASSUME poolSize' > 0
               PROVE  RoundRobin'
    BY DEF RoundRobin
  <2>1. PICK p \in Nat \ {0}, c \in Nat : p = poolSize' /\ c = counter
    BY DEF TInv, TypeOK
  <2>2. PICK got \in [1..p -> Nat] : got = asked' /\ \A i \in 1..p : got[i] = 0
    BY <1>2, <2>1
  <2>3. \A i, j \in 1..p : got[i] - got[j] <= 0
    BY <2>2
  <2> QED
    BY <1>2, <2>1, <2>2, <2>3, RoundStarts
<1> QED
  BY <1>1, <1>2, GoOnIs

LEMMA NextRound ==
    ASSUME TInv, TInv', RoundRobin, [Next]_vars
    PROVE  RoundRobin'
<1>1. ASSUME NEW k \in Refreshes, NEW urls \in Lists, RefreshUrl(k, urls)
      PROVE  RoundRobin'
  BY <1>1, GoOnKeepsRound DEF RefreshUrl
<1>2. ASSUME NEW k \in Refreshes, Connected(k)
      PROVE  RoundRobin'
  BY <1>2, GoOnKeepsRound DEF Connected
<1>3. CASE Request
  BY <1>3, RequestKeepsRound
<1>4. CASE RequestThrows
  BY <1>4 DEF RequestThrows, RoundRobin, poolVars
<1>5. CASE UNCHANGED <<poolSize, counter, asked, turns>>
  BY <1>5 DEF RoundRobin, Rounds
<1> QED
  BY <1>1, <1>2, <1>3, <1>4, <1>5
     DEF Next, ConnectFails, Close, vars, poolVars, requestVars

LEMMA RoundIsFair ==
    ASSUME TInv, RoundRobin
    PROVE  Balanced
<1> SUFFICES ASSUME NEW i \in 1..poolSize, NEW j \in 1..poolSize
             PROVE  asked[i] - asked[j] <= 1 + turns
  BY DEF Balanced
<1>1. poolSize \in Nat /\ poolSize > 0 /\ turns \in Nat
  BY DEF TInv, TypeOK
<1>2. PICK before \in [1..poolSize -> Nat], s, d \in 0..poolSize - 1, n \in Nat :
          Rounds(before, s, d, n)
  BY <1>1 DEF RoundRobin
<1>3. /\ before[i] \in Nat /\ before[j] \in Nat /\ before[i] - before[j] <= turns
      /\ asked[i] \in {before[i] + n, before[i] + n + 1}
      /\ asked[j] \in {before[j] + n, before[j] + n + 1}
  BY <1>2 DEF Rounds
<1> QED
  BY <1>1, <1>3

\* The round robin is fair for any CounterEnd and any pools: where the pool does
\* not divide CounterEnd, each turn of the counter costs one request and no more.
THEOREM RoundIsBalanced == Spec => []Balanced
<1>1. Init => RoundRobin
  BY DEF Init, RoundRobin
<1> QED
  BY <1>1, TInvCorrect, NextRound, RoundIsFair, PTL DEF Spec

-----------------------------------------------------------------------------
(* The pool and its map                                                    *)

LEMMA StateSet ==
    ASSUME NEW N \in Nat, NEW call \in Locals(N),
           NEW st \in {"idle", "connecting", "done", "failed"},
           NEW new, new = [call EXCEPT !.state = st]
    PROVE  /\ new \in Locals(N) /\ new.state = st /\ new.todo = call.todo
           /\ new.list = call.list /\ new.map = call.map
BY DEF Locals

\* What GoOn leaves of the calls, whichever way it goes.
LEMMA GoOnCalls ==
    ASSUME NEW N \in Nat, Held(N), NEW k \in Refreshes, NEW call \in Locals(N),
           GoOn(k, call), NEW next, next = Onward(call)
    PROVE  \E new \in Locals(N) :
              /\ new.todo = next.todo /\ new.list = next.list /\ new.map = next.map
              /\ \A j \in Refreshes : refresh'[j] = IF j = k THEN new ELSE refresh[j]
              /\ \/ /\ new.state = "connecting"
                    /\ UNCHANGED <<connections, url2Conn, closed>>
                 \/ /\ new.state = "done" /\ connections' = next.list
                    /\ url2Conn' = next.map /\ closed' = closed \cup Stale(next.map)
<1>1. next \in Locals(N) /\ refresh \in [Refreshes -> Locals(N)]
  BY GoesOn DEF Held
<1>2. ASSUME NEW st \in {"connecting", "done"}, NEW new, new = [next EXCEPT !.state = st],
             refresh' = [refresh EXCEPT ![k] = new]
      PROVE  /\ new \in Locals(N) /\ new.state = st /\ new.todo = next.todo
             /\ new.list = next.list /\ new.map = next.map
             /\ \A j \in Refreshes : refresh'[j] = IF j = k THEN new ELSE refresh[j]
  BY <1>1, <1>2, StateSet
<1>3. CASE /\ refresh' = [refresh EXCEPT ![k] = [next EXCEPT !.state = "connecting"]]
           /\ UNCHANGED <<connections, url2Conn, closed>>
  <2>1. PICK new : new = [next EXCEPT !.state = "connecting"]
    OBVIOUS
  <2> QED
    BY <1>2, <1>3, <2>1
<1>4. CASE /\ refresh' = [refresh EXCEPT ![k] = [next EXCEPT !.state = "done"]]
           /\ connections' = next.list /\ url2Conn' = next.map
           /\ closed' = closed \cup Stale(next.map)
  <2>1. PICK new : new = [next EXCEPT !.state = "done"]
    OBVIOUS
  <2> QED
    BY <1>2, <1>4, <2>1
<1> QED
  BY <1>3, <1>4, GoOnIs

LEMMA PairedSame ==
    ASSUME NEW a, NEW b, a.todo = b.todo, a.list = b.list, a.map = b.map, Paired(a)
    PROVE  Paired(b)
BY DEF Paired

LEMMA GoOnPairs ==
    ASSUME NEW N \in Nat, Held(N), Pairs, NEW k \in Refreshes, NEW call \in Locals(N),
           Paired(call), GoOn(k, call)
    PROVE  Pairs'
<1>1. PICK next : next = Onward(call)
  OBVIOUS
<1>2. Paired(next)
  BY <1>1, GoesOn DEF Held
<1>3. PICK new \in Locals(N) :
          /\ new.todo = next.todo /\ new.list = next.list /\ new.map = next.map
          /\ \A j \in Refreshes : refresh'[j] = IF j = k THEN new ELSE refresh[j]
          /\ \/ UNCHANGED <<connections, url2Conn>>
             \/ connections' = next.list /\ url2Conn' = next.map
  BY <1>1, GoOnCalls
<1>4. Paired(new)
  BY <1>2, <1>3, PairedSame
<1>5. (Range(connections) \subseteq Range(url2Conn))'
  BY <1>2, <1>3 DEF Pairs, Paired
<1> QED
  BY <1>3, <1>4, <1>5 DEF Pairs

LEMMA InitPairs ==
    ASSUME Init
    PROVE  Pairs
<1>1. \A k \in Refreshes : /\ refresh[k].todo = <<>> /\ refresh[k].list = <<>>
                            /\ refresh[k].map = Empty
  BY DEF Init
<1>2. Range(<<>>) = {} /\ IsInjective(<<>>)
  BY DEF Range, IsInjective
<1> QED
  BY <1>1, <1>2, EmptyMap DEF Init, Pairs, Paired

LEMMA NextPairs ==
    ASSUME NoRepeats, TInv, Pairs, [Next]_vars
    PROVE  Pairs'
<1>1. made \in Nat /\ Held(made) /\ CallsOK
  BY TypeOKIs DEF TInv
<1>2. ASSUME NEW k \in Refreshes, NEW urls \in Lists, RefreshUrl(k, urls)
      PROVE  Pairs'
  <2>1. PICK N, begun : N \in Nat /\ N = made /\ begun = [refresh[k] EXCEPT !.todo = urls]
    BY <1>1
  <2>2. refresh[k].state = "idle" /\ GoOn(k, begun)
    BY <1>2, <2>1 DEF RefreshUrl
  <2>3. /\ begun \in Locals(N) /\ begun.todo = urls
        /\ begun.list = <<>> /\ begun.map = Empty
    <3>1. refresh \in [Refreshes -> Locals(N)]
      BY <1>1, <2>1 DEF Held
    <3>2. refresh[k].list = <<>> /\ refresh[k].map = Empty
      BY <1>1, <2>2 DEF CallsOK, Underway
    <3>3. begun.list = refresh[k].list /\ begun.map = refresh[k].map
      BY <2>1, <3>1 DEF Locals
    <3>4. begun \in Locals(N) /\ begun.todo = urls
      BY <1>1, <2>1, <2>2, <3>1, BegunIs
    <3> QED
      BY <3>2, <3>3, <3>4
  <2>4. Paired(begun)
    BY <2>3, EmptyMap, EmptySequence DEF Paired, NoRepeats
  <2> QED
    BY <1>1, <2>1, <2>2, <2>3, <2>4, GoOnPairs
<1>3. ASSUME NEW k \in Refreshes, Connected(k)
      PROVE  Pairs'
  <2>1. PICK N, met : N \in Nat /\ N = made + 1 /\ met = Met(refresh[k], made + 1)
    BY <1>1
  <2>2. refresh[k].todo # <<>> /\ refresh[k] \in Locals(made) /\ GoOn(k, met)
    BY <1>3, <2>1, ConnectedIs
  <2>3. met \in Locals(N) /\ Paired(met)
    <3>1. PICK m : m \in Nat /\ m = made
      BY <1>1
    <3>2. /\ refresh[k] \in Locals(m) /\ met = Met(refresh[k], m + 1) /\ N = m + 1
          /\ Paired(refresh[k])
      BY <2>1, <2>2, <3>1 DEF Pairs
    <3> QED
      BY <2>2, <3>1, <3>2, MetIs
  <2>4. Held(N)
    BY <1>1, <2>1, HeldGrows
  <2> QED
    BY <2>1, <2>2, <2>3, <2>4, GoOnPairs
<1>4. ASSUME NEW k \in Refreshes, ConnectFails(k)
      PROVE  Pairs'
  <2>1. PICK new : new = [refresh[k] EXCEPT !.state = "failed"]
    OBVIOUS
  <2>2. /\ refresh[k] \in Locals(made)
        /\ \A j \in Refreshes : refresh'[j] = IF j = k THEN new ELSE refresh[j]
        /\ UNCHANGED <<connections, url2Conn>>
    BY <1>1, <1>4, <2>1 DEF ConnectFails, poolVars, Held
  <2>3. Paired(new)
    BY <1>1, <2>1, <2>2, StateSet, PairedSame DEF Pairs
  <2> QED
    BY <2>2, <2>3 DEF Pairs
<1>5. ASSUME UNCHANGED <<poolVars, refreshVars>>
      PROVE  Pairs'
  BY <1>5 DEF Pairs, poolVars, refreshVars
<1>6. CASE Request \/ RequestThrows \/ Close \/ UNCHANGED vars
  BY <1>5, <1>6 DEF Request, RequestThrows, Close, vars
<1>7. CASE \E k \in Refreshes :
               (\E urls \in Lists : RefreshUrl(k, urls)) \/ Connected(k) \/ ConnectFails(k)
  BY <1>2, <1>3, <1>4, <1>7
<1> QED
  BY <1>6, <1>7 DEF Next

LEMMA MInvCorrect == NoRepeats /\ Spec => []MInv
<1>1. NoRepeats /\ Init => MInv
  BY InitTInv, InitPairs DEF MInv
<1>2. MInv /\ [Next]_vars => MInv'
  BY NextTInv, NextPairs DEF MInv
<1> QED
  BY <1>1, <1>2, PTL DEF Spec

\* Whatever calls of refreshUrl overlap or fail, the pool and its map are those of
\* one and the same call: what leaves the pool later can be found to be stale.
THEOREM MapIsThePool == NoRepeats /\ Spec => []MapMatchesPool
<1>1. MInv => MapMatchesPool
  BY DEF MInv, TInv, Pairs, MapMatchesPool
<1> QED
  BY <1>1, MInvCorrect, PTL

-----------------------------------------------------------------------------
(* One call at a time                                                      *)

LEMMA HoldsBegun ==
    ASSUME NEW call, call.list = <<>>, call.map = Empty
    PROVE  Holds(call)
BY EmptyMap, EmptySequence DEF Holds

LEMMA HoldsSame ==
    ASSUME NEW a, NEW b, a.list = b.list, a.map = b.map, Holds(a)
    PROVE  Holds(b)
BY DEF Holds

\* A new connection, for a url that the pool does not have.
LEMMA HoldsMet ==
    ASSUME NEW N \in Nat, Held(N), NEW call \in Locals(N), call.todo # <<>>,
           Holds(call), Awaits(call), NEW met, met = Met(call, N + 1)
    PROVE  Holds(met)
<1> DEFINE c == N + 1
           h == Head(call.todo)
<1>1. /\ Range(met.list) = Range(call.list) \cup {c}
      /\ DOMAIN met.map = DOMAIN call.map \cup {h}
      /\ \A u \in DOMAIN met.map : met.map[u] = IF u = h THEN c ELSE call.map[u]
  <2>1. Brings(met, call, N + 1)
    BY MetIs
  <2> QED
    BY <2>1 DEF Brings
<1>2. h \notin DOMAIN url2Conn
  BY DEF Awaits
<1>3. c \notin 1..N
  OBVIOUS
<1>4. Range(url2Conn) \subseteq 1..N /\ closed \subseteq 1..N
  BY MapsAre DEF Held, Range
<1>5. \A u \in DOMAIN call.map : call.map[u] \in 1..N
  BY MapsAre DEF Locals
<1> HIDE DEF c, h
<1>6. IsInjective(met.map)
  <2> SUFFICES ASSUME NEW u \in DOMAIN met.map, NEW v \in DOMAIN met.map,
                      met.map[u] = met.map[v]
               PROVE  u = v
    BY DEF IsInjective
  <2>1. \A x, y \in DOMAIN call.map : call.map[x] = call.map[y] => x = y
    BY DEF Holds, IsInjective
  <2>2. CASE u = h \/ v = h
    BY <1>1, <1>3, <1>5, <2>2
  <2>3. CASE u # h /\ v # h
    BY <1>1, <2>1, <2>3
  <2> QED
    BY <2>2, <2>3
<1>7. ASSUME NEW u \in DOMAIN met.map
      PROVE  IF u \in DOMAIN url2Conn THEN met.map[u] = url2Conn[u]
                                      ELSE met.map[u] \notin Range(url2Conn)
  <2>1. CASE u = h
    BY <1>1, <1>2, <1>3, <1>4, <2>1
  <2>2. CASE u # h
    BY <1>1, <2>2 DEF Holds
  <2> QED
    BY <2>1, <2>2
<1>8. ASSUME NEW x \in Range(met.list), x \in Range(url2Conn)
      PROVE  \E u \in DOMAIN met.map \cap DOMAIN url2Conn : x = url2Conn[u]
  <2>1. x \in Range(call.list)
    BY <1>1, <1>3, <1>4, <1>8
  <2>2. PICK u \in DOMAIN call.map \cap DOMAIN url2Conn : x = url2Conn[u]
    BY <1>8, <2>1 DEF Holds
  <2> QED
    BY <1>1, <2>2
<1>9. Range(met.list) \cap closed = {}
  BY <1>1, <1>3, <1>4 DEF Holds
<1> QED
  BY <1>6, <1>7, <1>8, <1>9 DEF Holds

\* Going on keeps what a call holds: what it takes is the pool's own.
LEMMA HoldsOnward ==
    ASSUME NEW N \in Nat, Held(N), NEW call \in Locals(N), Holds(call),
           IsInjective(url2Conn), Range(url2Conn) \cap closed = {},
           NEW next, next = Onward(call)
    PROVE  Holds(next)
<1>1. PICK F \in SUBSET DOMAIN url2Conn :
          /\ DOMAIN next.map = DOMAIN call.map \cup F
          /\ \A u \in DOMAIN next.map :
                next.map[u] = IF u \in F THEN url2Conn[u] ELSE call.map[u]
          /\ Range(next.list) = Range(call.list) \cup {url2Conn[u] : u \in F}
  BY GoesOn DEF Held
<1>2. \A u \in DOMAIN call.map :
          IF u \in DOMAIN url2Conn THEN call.map[u] = url2Conn[u]
                                   ELSE call.map[u] \notin Range(url2Conn)
  BY DEF Holds
<1>3. \A u \in DOMAIN url2Conn : url2Conn[u] \in Range(url2Conn)
  BY DEF Range
<1>4. \A u \in DOMAIN next.map :
          IF u \in DOMAIN url2Conn THEN next.map[u] = url2Conn[u]
                                   ELSE /\ u \in DOMAIN call.map
                                        /\ next.map[u] = call.map[u]
                                        /\ next.map[u] \notin Range(url2Conn)
  BY <1>1, <1>2
<1>5. IsInjective(next.map)
  <2> SUFFICES ASSUME NEW u \in DOMAIN next.map, NEW v \in DOMAIN next.map,
                      next.map[u] = next.map[v]
               PROVE  u = v
    BY DEF IsInjective
  <2>1. \A x, y \in DOMAIN call.map : call.map[x] = call.map[y] => x = y
    BY DEF Holds, IsInjective
  <2>2. \A x, y \in DOMAIN url2Conn : url2Conn[x] = url2Conn[y] => x = y
    BY DEF IsInjective
  <2>3. CASE u \in DOMAIN url2Conn /\ v \in DOMAIN url2Conn
    BY <1>4, <2>2, <2>3
  <2>4. CASE u \notin DOMAIN url2Conn /\ v \notin DOMAIN url2Conn
    BY <1>4, <2>1, <2>4
  <2>5. CASE (u \in DOMAIN url2Conn) # (v \in DOMAIN url2Conn)
    BY <1>3, <1>4, <2>5
  <2> QED
    BY <2>3, <2>4, <2>5
<1>6. ASSUME NEW c \in Range(next.list), c \in Range(url2Conn)
      PROVE  \E u \in DOMAIN next.map \cap DOMAIN url2Conn : c = url2Conn[u]
  <2>1. CASE c \in Range(call.list)
    <3>1. PICK u \in DOMAIN call.map \cap DOMAIN url2Conn : c = url2Conn[u]
      BY <1>6, <2>1 DEF Holds
    <3> QED
      BY <1>1, <3>1
  <2>2. CASE \E u \in F : c = url2Conn[u]
    BY <1>1, <2>2
  <2> QED
    BY <1>1, <2>1, <2>2
<1>7. Range(next.list) \cap closed = {}
  BY <1>1, <1>3 DEF Holds
<1> QED
  BY <1>4, <1>5, <1>6, <1>7 DEF Holds

\* The swap closes nothing that it puts into the pool.
LEMMA SwapIsOpen ==
    ASSUME NEW call, Holds(call), IsInjective(url2Conn)
    PROVE  Range(call.list) \cap (closed \cup Stale(call.map)) = {}
<1> SUFFICES ASSUME NEW c \in Range(call.list), c \in Stale(call.map)
             PROVE  FALSE
  BY DEF Holds
<1>1. PICK v \in DOMAIN url2Conn \ DOMAIN call.map : c = url2Conn[v]
  BY DEF Stale
<1>2. PICK u \in DOMAIN call.map \cap DOMAIN url2Conn : c = url2Conn[u]
  BY <1>1 DEF Holds, Range
<1> QED
  BY <1>1, <1>2 DEF IsInjective

\* What a stretch of a call does, if no other call is under way.
LEMMA GoOnAlone ==
    ASSUME NEW N \in Nat, Held(N), Range(url2Conn) \subseteq Range(connections),
           IsInjective(url2Conn), Range(connections) \cap closed = {},
           NEW k \in Refreshes, Connecting \subseteq {k},
           NEW call \in Locals(N), Holds(call), GoOn(k, call)
    PROVE  /\ Alone'
           /\ \A u \in DOMAIN url2Conn \cap DOMAIN url2Conn' : url2Conn'[u] = url2Conn[u]
<1>1. PICK next : next = Onward(call)
  OBVIOUS
<1>2. Holds(next) /\ Awaits(next)
  <2>1. Range(url2Conn) \cap closed = {}
    OBVIOUS
  <2>2. Holds(next)
    BY <1>1, <2>1, HoldsOnward
  <2>3. Awaits(next)
    BY <1>1, GoesOn DEF Held
  <2> QED
    BY <2>2, <2>3
<1>3. PICK new \in Locals(N) :
          /\ new.todo = next.todo /\ new.list = next.list /\ new.map = next.map
          /\ \A j \in Refreshes : refresh'[j] = IF j = k THEN new ELSE refresh[j]
          /\ \/ /\ new.state = "connecting"
                /\ UNCHANGED <<connections, url2Conn, closed>>
             \/ /\ new.state = "done" /\ connections' = next.list
                /\ url2Conn' = next.map /\ closed' = closed \cup Stale(next.map)
  BY <1>1, GoOnCalls
<1>4. Holds(new) /\ Awaits(new)
  BY <1>2, <1>3, HoldsSame DEF Awaits
<1>5. Connecting' \subseteq {k}
  BY <1>3 DEF Connecting
<1>6. CASE new.state = "connecting" /\ UNCHANGED <<connections, url2Conn, closed>>
  <2>1. Holds(new)' /\ Awaits(new)'
    BY <1>4, <1>6 DEF Holds, Awaits
  <2>2. \A j \in Connecting' : Holds(refresh[j])' /\ Awaits(refresh[j])'
    <3> SUFFICES ASSUME NEW j \in Connecting'
                 PROVE  Holds(refresh[j])' /\ Awaits(refresh[j])'
      OBVIOUS
    <3>1. refresh'[j] = new
      BY <1>3, <1>5
    <3> QED
      BY <2>1, <3>1 DEF Holds, Awaits
  <2> QED
    BY <1>5, <1>6, <2>2 DEF Alone
<1>7. CASE /\ new.state = "done" /\ connections' = next.list
           /\ url2Conn' = next.map /\ closed' = closed \cup Stale(next.map)
  <2>1. Connecting' = {}
    BY <1>3, <1>5, <1>7 DEF Connecting
  <2>2. (Range(connections) \cap closed = {})'
    BY <1>2, <1>7, SwapIsOpen
  <2>3. IsInjective(url2Conn)'
    BY <1>2, <1>7 DEF Holds
  <2>4. \A u \in DOMAIN url2Conn \cap DOMAIN url2Conn' : url2Conn'[u] = url2Conn[u]
    BY <1>2, <1>7 DEF Holds
  <2> QED
    BY <2>1, <2>2, <2>3, <2>4 DEF Alone
<1> QED
  BY <1>3, <1>6, <1>7

LEMMA InitAlone ==
    ASSUME Init
    PROVE  Alone
<1>1. Connecting = {}
  BY DEF Init, Connecting
<1>2. Range(connections) = {}
  BY EmptySequence DEF Init
<1> QED
  BY <1>1, <1>2, EmptyMap DEF Alone, Init

\* As long as calls do not overlap: their invariant, and StaysConnected's step.
LEMMA NextAlone ==
    ASSUME TInv, ~overlapped => Alone, [Next]_vars, ~overlapped'
    PROVE  /\ Alone'
           /\ \A u \in DOMAIN url2Conn \cap DOMAIN url2Conn' : url2Conn'[u] = url2Conn[u]
<1>1. made \in Nat /\ Held(made) /\ CallsOK /\ Range(url2Conn) \subseteq Range(connections)
  BY TypeOKIs DEF TInv
<1> DEFINE Same == \A u \in DOMAIN url2Conn \cap DOMAIN url2Conn' : url2Conn'[u] = url2Conn[u]
<1>2. ASSUME NEW k \in Refreshes, NEW urls \in Lists, RefreshUrl(k, urls)
      PROVE  Alone' /\ Same
  <2>1. PICK N, begun : N \in Nat /\ N = made /\ begun = [refresh[k] EXCEPT !.todo = urls]
    BY <1>1
  <2>2. /\ refresh[k].state = "idle" /\ GoOn(k, begun)
        /\ ~overlapped /\ Connecting = {}
    BY <1>2, <2>1 DEF RefreshUrl, Connecting
  <2>3. refresh \in [Refreshes -> Locals(N)]
    BY <1>1, <2>1 DEF Held
  <2>4. begun \in Locals(N)
    BY <1>1, <2>1, <2>2, <2>3, BegunIs
  <2>5. refresh[k].list = <<>> /\ refresh[k].map = Empty
    BY <1>1, <2>2 DEF CallsOK, Underway
  <2>6. begun.list = refresh[k].list /\ begun.map = refresh[k].map
    BY <2>1, <2>3 DEF Locals
  <2>7. Holds(begun)
    BY <2>5, <2>6, HoldsBegun
  <2>8. IsInjective(url2Conn) /\ Range(connections) \cap closed = {} /\ Connecting \subseteq {k}
    BY <2>2 DEF Alone
  <2> QED
    BY <1>1, <2>1, <2>2, <2>4, <2>7, <2>8, GoOnAlone
<1>3. ASSUME NEW k \in Refreshes, Connected(k)
      PROVE  Alone' /\ Same
  <2>1. PICK N, met : N \in Nat /\ N = made /\ met = Met(refresh[k], N + 1)
    BY <1>1
  <2>2. /\ refresh[k].state = "connecting" /\ refresh[k].todo # <<>>
        /\ refresh[k] \in Locals(N) /\ GoOn(k, met) /\ overlapped' = overlapped
    BY <1>3, <2>1, ConnectedIs
  <2>3. k \in Connecting /\ Alone
    BY <2>2 DEF Connecting
  <2>4. Connecting \subseteq {k} /\ Holds(refresh[k]) /\ Awaits(refresh[k])
    BY <2>3 DEF Alone
  <2>5. Held(N) /\ Held(N + 1)
    BY <1>1, <2>1, HeldGrows
  <2>6. met \in Locals(N + 1)
    BY <2>1, <2>2, MetIs
  <2>7. Holds(met)
    BY <2>1, <2>2, <2>4, <2>5, HoldsMet
  <2>8. PICK M \in Nat : M = N + 1
    BY <2>1
  <2>9. IsInjective(url2Conn) /\ Range(connections) \cap closed = {}
    BY <2>3 DEF Alone
  <2> QED
    BY <1>1, <2>2, <2>4, <2>5, <2>6, <2>7, <2>8, <2>9, GoOnAlone
<1>4. ASSUME NEW k \in Refreshes, ConnectFails(k)
      PROVE  Alone' /\ Same
  <2>1. PICK new : new = [refresh[k] EXCEPT !.state = "failed"]
    OBVIOUS
  <2>2. /\ refresh[k] \in Locals(made) /\ overlapped' = overlapped
        /\ \A j \in Refreshes : refresh'[j] = IF j = k THEN new ELSE refresh[j]
        /\ UNCHANGED <<connections, url2Conn, closed>>
    BY <1>1, <1>4, <2>1 DEF ConnectFails, poolVars, Held
  <2>3. new.state = "failed"
    BY <1>1, <2>1, <2>2, StateSet
  <2>4. \A j \in Connecting' : j \in Connecting /\ refresh'[j] = refresh[j]
    BY <2>2, <2>3 DEF Connecting
  <2>5. Alone
    BY <2>2
  <2> QED
    BY <2>2, <2>4, <2>5 DEF Alone, Holds, Awaits
<1>5. ASSUME UNCHANGED <<poolVars, refreshVars, closed>>
      PROVE  Alone' /\ Same
  BY <1>5 DEF Alone, Holds, Awaits, Connecting, poolVars, refreshVars
<1>6. CASE Request \/ RequestThrows \/ Close \/ UNCHANGED vars
  BY <1>5, <1>6 DEF Request, RequestThrows, Close, vars
<1>7. CASE \E k \in Refreshes :
               (\E urls \in Lists : RefreshUrl(k, urls)) \/ Connected(k) \/ ConnectFails(k)
  BY <1>2, <1>3, <1>4, <1>7
<1> QED
  BY <1>6, <1>7 DEF Next

LEMMA PInvCorrect == Spec => []PInv
<1>1. Init => PInv
  BY InitTInv, InitAlone DEF PInv
<1>2. PInv /\ [Next]_vars => PInv'
  BY NextTInv, NextAlone DEF PInv
<1> QED
  BY <1>1, <1>2, PTL DEF Spec

\* As long as calls do not overlap, for any lists (with repetitions too): nothing
\* that closeStales has closed is in the pool or on its way there.
THEOREM PoolStaysOpen == Spec => []PoolIsOpen
<1>1. PInv => PoolIsOpen
  BY DEF PInv, Alone, PoolIsOpen, Connecting, Holds
<1> QED
  BY <1>1, PInvCorrect, PTL

\* As long as calls do not overlap, for any lists: a url that is in the pool before
\* and after a refresh has the same connection.
THEOREM UrlsStayConnected == Spec => StaysConnected
<1>1. PInv /\ [Next]_vars =>
          [~overlapped' => \A u \in DOMAIN url2Conn \cap DOMAIN url2Conn' :
                              url2Conn'[u] = url2Conn[u]]_vars
  BY NextAlone DEF PInv
<1> QED
  BY <1>1, PInvCorrect, PTL DEF Spec, StaysConnected

-----------------------------------------------------------------------------
(* No connection is dropped                                                *)

\* A connection that a call of refreshUrl has, or that it has failed with.
Kept(c) ==
    \E k \in Refreshes :
       refresh[k].state \in {"connecting", "failed"} /\ c \in Range(refresh[k].list)

\* A stretch of the call k keeps whatever the pool, the call itself or a call that
\* has failed has, but for what it closes.
LEMMA GoOnKeeps ==
    ASSUME NEW N \in Nat, Held(N), NEW k \in Refreshes, NEW call \in Locals(N),
           Holds(call), MapInList(call), GoOn(k, call),
           IsInjective(url2Conn), Range(url2Conn) \cap closed = {},
           Range(connections) \subseteq Range(url2Conn),
           NEW c, c \notin closed',
           \/ c \in Range(connections)
           \/ c \in Range(call.list)
           \/ \E j \in Refreshes \ {k} :
                 refresh[j].state = "failed" /\ c \in Range(refresh[j].list)
    PROVE  c \in Range(connections)' \/ Kept(c)'
<1>1. PICK next : next = Onward(call)
  OBVIOUS
<1>2. Holds(next) /\ MapInList(next) /\ Range(call.list) \subseteq Range(next.list)
  <2>1. Holds(next)
    BY <1>1, HoldsOnward
  <2>2. MapInList(next) /\ Range(call.list) \subseteq Range(next.list)
    BY <1>1, GoesOn DEF Held
  <2> QED
    BY <2>1, <2>2
<1>3. PICK new \in Locals(N) :
          /\ new.todo = next.todo /\ new.list = next.list /\ new.map = next.map
          /\ \A j \in Refreshes : refresh'[j] = IF j = k THEN new ELSE refresh[j]
          /\ \/ /\ new.state = "connecting"
                /\ UNCHANGED <<connections, url2Conn, closed>>
             \/ /\ new.state = "done" /\ connections' = next.list
                /\ url2Conn' = next.map /\ closed' = closed \cup Stale(next.map)
  BY <1>1, GoOnCalls
<1>4. CASE \E j \in Refreshes \ {k} :
              refresh[j].state = "failed" /\ c \in Range(refresh[j].list)
  BY <1>3, <1>4 DEF Kept
<1>5. CASE c \in Range(call.list)
  <2>1. c \in Range(new.list)
    BY <1>2, <1>3, <1>5
  <2>2. CASE new.state = "connecting"
    BY <1>3, <2>1, <2>2 DEF Kept
  <2>3. CASE connections' = next.list
    BY <1>3, <2>1, <2>3
  <2> QED
    BY <1>3, <2>2, <2>3
<1>6. CASE c \in Range(connections)
  <2>1. CASE UNCHANGED connections
    BY <1>6, <2>1
  <2>2. CASE connections' = next.list /\ closed' = closed \cup Stale(next.map)
    <3>1. PICK u \in DOMAIN url2Conn : c = url2Conn[u]
      BY <1>6 DEF Range
    <3>2. u \in DOMAIN next.map
      BY <2>2, <3>1 DEF Stale
    <3>3. next.map[u] = c
      BY <1>2, <3>1, <3>2 DEF Holds
    <3>4. c \in Range(next.list)
      BY <1>2, <3>2, <3>3 DEF MapInList, Range
    <3> QED
      BY <2>2, <3>4
  <2> QED
    BY <1>3, <2>1, <2>2
<1> QED
  BY <1>4, <1>5, <1>6

LEMMA NextLeaks ==
    ASSUME MInv, PInv, NothingLeaks, [Next]_vars
    PROVE  NothingLeaks'
<1>1. /\ made \in Nat /\ Held(made) /\ CallsOK /\ (~overlapped => Alone)
      /\ Range(connections) \subseteq Range(url2Conn)
      /\ Range(url2Conn) \subseteq Range(connections)
  BY TypeOKIs DEF MInv, PInv, TInv, Pairs
<1> SUFFICES ASSUME ~overlapped', NEW c \in 1..made', c \notin closed', c \notin shut'
             PROVE  c \in Range(connections)' \/ Kept(c)'
  BY DEF NothingLeaks, Connections, Kept
<1>2. ASSUME c \in 1..made, c \notin closed, c \notin shut, ~overlapped
      PROVE  c \in Range(connections) \/ Kept(c)
  BY <1>2 DEF NothingLeaks, Connections, Kept
<1>3. ASSUME ~overlapped
      PROVE  IsInjective(url2Conn) /\ Range(url2Conn) \cap closed = {}
  BY <1>1, <1>3 DEF Alone
<1>4. ASSUME NEW k \in Refreshes, NEW urls \in Lists, RefreshUrl(k, urls)
      PROVE  c \in Range(connections)' \/ Kept(c)'
  <2>1. PICK N, begun : N \in Nat /\ N = made /\ begun = [refresh[k] EXCEPT !.todo = urls]
    BY <1>1
  <2>2. /\ refresh[k].state = "idle" /\ GoOn(k, begun) /\ made' = made /\ shut' = shut
        /\ ~overlapped /\ Connecting = {}
    BY <1>4, <2>1 DEF RefreshUrl, Connecting
  <2>3. refresh \in [Refreshes -> Locals(N)]
    BY <1>1, <2>1 DEF Held
  <2>4. begun \in Locals(N) /\ MapInList(begun)
    BY <1>1, <2>1, <2>2, <2>3, BegunIs
  <2>5. refresh[k].list = <<>> /\ refresh[k].map = Empty
    BY <1>1, <2>2 DEF CallsOK, Underway
  <2>6. begun.list = refresh[k].list /\ begun.map = refresh[k].map
    BY <2>1, <2>3 DEF Locals
  <2>7. Holds(begun)
    BY <2>5, <2>6, HoldsBegun
  <2>8. c \notin closed
    <3>1. closed \subseteq closed'
      BY <2>2, GoOnIs
    <3> QED
      BY <3>1
  <2>9. c \in Range(connections) \/ Kept(c)
    BY <1>2, <2>2, <2>8
  <2>10. \/ c \in Range(connections)
         \/ \E j \in Refreshes \ {k} :
               refresh[j].state = "failed" /\ c \in Range(refresh[j].list)
    BY <2>2, <2>9 DEF Kept, Connecting
  <2> QED
    BY <1>1, <1>3, <2>1, <2>2, <2>4, <2>7, <2>10, GoOnKeeps
<1>5. ASSUME NEW k \in Refreshes, Connected(k)
      PROVE  c \in Range(connections)' \/ Kept(c)'
  <2>1. PICK N, met : N \in Nat /\ N = made /\ met = Met(refresh[k], N + 1)
    BY <1>1
  <2>2. /\ refresh[k].state = "connecting" /\ refresh[k].todo # <<>>
        /\ refresh[k] \in Locals(N) /\ GoOn(k, met) /\ made' = N + 1
        /\ overlapped' = overlapped /\ shut' = shut
    BY <1>5, <2>1, ConnectedIs DEF MInv
  <2>3. k \in Connecting /\ Alone
    BY <1>1, <2>2 DEF Connecting
  <2>4. Connecting \subseteq {k} /\ Holds(refresh[k]) /\ Awaits(refresh[k])
    BY <2>3 DEF Alone
  <2>5. Held(N) /\ Held(N + 1) /\ MapInList(refresh[k])
    BY <1>1, <2>1, HeldGrows DEF CallsOK
  <2>6. met \in Locals(N + 1)
    BY <2>1, <2>2, MetIs
  <2>7. MapInList(met)
    BY <2>1, <2>2, <2>5, MetIs
  <2>8. Range(met.list) = Range(refresh[k].list) \cup {N + 1}
    BY <2>1, <2>2, MetIs DEF Brings
  <2>9. Holds(met)
    BY <2>1, <2>2, <2>4, <2>5, HoldsMet
  <2>10. closed \subseteq closed'
    BY <2>2, GoOnIs
  <2>11. \/ c \in Range(connections)
         \/ c \in Range(met.list)
         \/ \E j \in Refreshes \ {k} :
               refresh[j].state = "failed" /\ c \in Range(refresh[j].list)
    <3>1. CASE c = N + 1
      BY <2>8, <3>1
    <3>2. CASE c # N + 1
      <4>1. c \in 1..made /\ c \notin closed /\ c \notin shut
        BY <2>1, <2>2, <2>10, <3>2
      <4>2. c \in Range(connections) \/ Kept(c)
        BY <1>2, <2>2, <4>1
      <4>3. ASSUME NEW j \in Refreshes, refresh[j].state \in {"connecting", "failed"},
                   c \in Range(refresh[j].list)
            PROVE  \/ c \in Range(met.list)
                   \/ \E i \in Refreshes \ {k} :
                         refresh[i].state = "failed" /\ c \in Range(refresh[i].list)
        <5>1. CASE j = k
          BY <2>8, <4>3, <5>1
        <5>2. CASE j # k
          BY <2>4, <4>3, <5>2 DEF Connecting
        <5> QED
          BY <5>1, <5>2
      <4> QED
        BY <4>2, <4>3 DEF Kept
    <3> QED
      BY <3>1, <3>2
  <2>12. PICK M \in Nat : M = N + 1
    BY <2>1
  <2> QED
    BY <1>1, <1>3, <2>2, <2>5, <2>6, <2>7, <2>9, <2>11, <2>12, GoOnKeeps
<1>6. ASSUME NEW k \in Refreshes, ConnectFails(k)
      PROVE  c \in Range(connections)' \/ Kept(c)'
  <2>1. PICK new : new = [refresh[k] EXCEPT !.state = "failed"]
    OBVIOUS
  <2>2. /\ refresh[k] \in Locals(made) /\ refresh[k].state = "connecting"
        /\ \A j \in Refreshes : refresh'[j] = IF j = k THEN new ELSE refresh[j]
        /\ UNCHANGED <<connections, made, overlapped, closed, shut>>
    BY <1>1, <1>6, <2>1 DEF ConnectFails, poolVars, Held
  <2>3. new.state = "failed" /\ new.list = refresh[k].list
    BY <1>1, <2>1, <2>2, StateSet
  <2>4. c \in Range(connections) \/ Kept(c)
    BY <1>2, <2>2
  <2> QED
    BY <2>2, <2>3, <2>4 DEF Kept
<1>7. CASE Close
  <2>1. /\ UNCHANGED <<connections, refresh, made, overlapped, closed>>
        /\ shut \subseteq shut'
    BY <1>7 DEF Close, poolVars, refreshVars
  <2> QED
    BY <1>2, <2>1 DEF Kept
<1>8. CASE UNCHANGED <<connections, refresh, made, overlapped, closed, shut>>
  BY <1>2, <1>8 DEF Kept
<1>9. CASE Request \/ RequestThrows \/ UNCHANGED vars
  BY <1>8, <1>9 DEF Request, RequestThrows, vars, poolVars, refreshVars
<1>10. CASE \E k \in Refreshes :
               (\E urls \in Lists : RefreshUrl(k, urls)) \/ Connected(k) \/ ConnectFails(k)
  BY <1>4, <1>5, <1>6, <1>10
<1> QED
  BY <1>7, <1>9, <1>10 DEF Next

\* As long as calls do not overlap, for any lists without repetitions: a connection
\* that was made is in the pool, with a call, or has been closed.
THEOREM NoneIsDropped == NoRepeats /\ Spec => []NothingLeaks
<1>1. Init => NothingLeaks
  BY DEF Init, NothingLeaks, Connections
<1>2. MInv /\ PInv /\ NothingLeaks /\ [Next]_vars => NothingLeaks'
  BY NextLeaks
<1> QED
  BY <1>1, <1>2, MInvCorrect, PInvCorrect, PTL DEF Spec
=============================================================================
