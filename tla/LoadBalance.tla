----------------------------- MODULE LoadBalance -----------------------------
(***************************************************************************)
(* rsocket/loadbalance/LoadBalanceRSocket.ts: the pool of connections, the *)
(* round robin over it, and refreshUrl, which runs from one await to the   *)
(* next: a step of a refresh takes what is already connected, up to the    *)
(* first url that it must connect to, or to the end, where it swaps the    *)
(* pool and closes what has become stale.                                  *)
(*                                                                         *)
(* connect() ignores the url it is given; what a connection leads to plays *)
(* no part here.  A connection is a number, in the order they are made.    *)
(***************************************************************************)
EXTENDS Integers, Sequences, FiniteSets, Functions

CONSTANTS
    Urls,        \* the urls that may be asked for
    Lists,       \* what refreshUrl is called with: sequences of urls
    Refreshes,   \* calls of refreshUrl
    Failing,     \* may connect() reject?
    CounterEnd,  \* 0x7FFFFFFF
    MaxRequests  \* bound: requests after a change of the pool

ASSUME ListsAssumption == Lists \subseteq Seq(Urls)
ASSUME CounterAssumption == CounterEnd \in Nat \ {0} /\ MaxRequests \in Nat
ASSUME FailingAssumption == Failing \in BOOLEAN

\* Nobody passes a url twice: the code does not look for that, and would make a
\* connection for each, of which the map would know the last alone.
NoRepeats == \A urls \in Lists : IsInjective(urls)

VARIABLES
    connections,  \* the pool, a sequence
    url2Conn,     \* a function from the urls of the pool
    poolSize,
    counter,
    refresh,      \* refresh[k]: the locals of a call of refreshUrl
    overlapped,   \* has a call begun before another had ended? (history)
    made,         \* how many connections have been made
    closed,       \* those that closeStales has closed
    shut,         \* those that close() has closed
    asked,        \* how many requests each connection of the pool got (history)
    turns         \* how often the counter went back to 0 meanwhile (history)

poolVars == <<connections, url2Conn, poolSize>>
requestVars == <<counter, asked, turns>>
refreshVars == <<refresh, overlapped>>
vars == <<poolVars, refreshVars, made, closed, shut, requestVars>>

Connections == 1..made
Empty == [u \in {} |-> 0]  \* an empty Map

\* The Maps there can be from urls to the connections 1..n, and the locals of a
\* call: `todo` is what is left of its urls, `list` is its newConnections and
\* `map` its newUrl2Conn.
MapsTo(n) == UNION {[us -> 1..n] : us \in SUBSET Urls}
Locals(n) ==
    [state : {"idle", "connecting", "done", "failed"},
     todo : Seq(Urls), list : Seq(1..n), map : MapsTo(n)]

TypeOK ==
    /\ connections \in Seq(Connections)
    /\ url2Conn \in MapsTo(made)
    /\ poolSize \in Nat
    /\ counter \in 0..CounterEnd - 1
    /\ refresh \in [Refreshes -> Locals(made)]
    /\ overlapped \in BOOLEAN
    /\ made \in Nat
    /\ closed \subseteq Connections
    /\ shut \subseteq Connections
    /\ asked \in [1..poolSize -> Nat]
    /\ turns \in Nat

Init ==
    /\ connections = <<>>
    /\ url2Conn = Empty
    /\ poolSize = 0
    /\ counter = 0
    /\ refresh = [k \in Refreshes |->
           [state |-> "idle", todo |-> <<>>, list |-> <<>>, map |-> Empty]]
    /\ overlapped = FALSE
    /\ made = 0
    /\ closed = {}
    /\ shut = {}
    /\ asked = <<>>
    /\ turns = 0

-----------------------------------------------------------------------------
(* refreshUrl                                                              *)

With(map, u, c) == [v \in DOMAIN map \cup {u} |-> IF v = u THEN c ELSE map[v]]

\* Slip: nobody looks for a connection that is there already.
KnownNothing(todo) == 0

\* How many urls at the front of todo have a connection now.
Known(todo) ==
    CHOOSE n \in 0..Len(todo) :
        /\ \A i \in 1..n : todo[i] \in DOMAIN url2Conn
        /\ n < Len(todo) => todo[n + 1] \notin DOMAIN url2Conn

\* Slip: what is taken over is not entered into the new map.
TakenUnmapped(call, n) ==
    [call EXCEPT !.todo = SubSeq(@, n + 1, Len(@)),
                 !.list = @ \o [i \in 1..n |-> url2Conn[call.todo[i]]]]

\* The call takes the connections of the first n urls of todo as they are.
Taken(call, n) ==
    [call EXCEPT
        !.todo = SubSeq(@, n + 1, Len(@)),
        !.list = @ \o [i \in 1..n |-> url2Conn[call.todo[i]]],
        !.map = [u \in DOMAIN @ \cup {call.todo[i] : i \in 1..n} |->
                    IF \E i \in 1..n : call.todo[i] = u THEN url2Conn[u] ELSE @[u]]]

\* Slip: what is stale is looked for among the urls that have stayed.
StaleKept(map) == {url2Conn[u] : u \in DOMAIN url2Conn \cap DOMAIN map}

\* Slip: url2Conn has been replaced before what is stale in it is looked for.
StaleInNew(map) == {map[u] : u \in DOMAIN map \ DOMAIN map}

\* staleConnections: those of the urls that are no longer asked for.
Stale(map) == {url2Conn[u] : u \in DOMAIN url2Conn \ DOMAIN map}

\* The end of refreshUrl, which nothing interrupts.
Swap(call) ==
    /\ connections' = call.list
    /\ url2Conn' = call.map
    /\ poolSize' = Len(call.list)
    /\ closed' = closed \cup Stale(call.map)
    /\ asked' = [i \in 1..Len(call.list) |-> 0]
    /\ turns' = 0

\* Goes on with a call until it awaits connect() or has swapped the pool.
GoOn(k, call) ==
    LET next == Taken(call, Known(call.todo))
    IN  IF next.todo # <<>>
        THEN /\ refresh' = [refresh EXCEPT ![k] = [next EXCEPT !.state = "connecting"]]
             /\ UNCHANGED <<poolVars, closed, asked, turns>>
        ELSE /\ refresh' = [refresh EXCEPT ![k] = [next EXCEPT !.state = "done"]]
             /\ Swap(next)

RefreshUrl(k, urls) ==
    /\ refresh[k].state = "idle"
    /\ GoOn(k, [refresh[k] EXCEPT !.todo = urls])
    /\ overlapped' = (overlapped \/ \E j \in Refreshes : refresh[j].state = "connecting")
    /\ UNCHANGED <<made, shut, counter>>

\* The awaited connection is there; the map that is read next may be another.
Connected(k) ==
    LET call == refresh[k]
        u == Head(call.todo)
        c == made + 1
    IN  /\ call.state = "connecting"
        /\ made' = c
        /\ GoOn(k, [call EXCEPT !.todo = Tail(@), !.list = Append(@, c),
                                !.map = With(@, u, c)])
        /\ UNCHANGED <<overlapped, shut, counter>>

\* connect() rejects, and refreshUrl with it: what it had connected is dropped.
ConnectFails(k) ==
    /\ Failing
    /\ refresh[k].state = "connecting"
    /\ refresh' = [refresh EXCEPT ![k].state = "failed"]
    /\ UNCHANGED <<poolVars, overlapped, made, closed, shut, requestVars>>

-----------------------------------------------------------------------------
(* Requests and close()                                                    *)

\* Slip: the counter goes back one step too late.
NextCounterLate(n) == IF n + 1 > CounterEnd THEN 0 ELSE n + 1

\* Slip: at the end the counter stays where it is.
NextCounterStuck(n) == IF n + 1 >= CounterEnd THEN n ELSE n + 1

NextCounter(n) == IF n + 1 >= CounterEnd THEN 0 ELSE n + 1

\* getRandomRSocket and the request made of it.
Request ==
    LET n == NextCounter(counter)
    IN  /\ poolSize > 0
        /\ SumFunction(asked) < MaxRequests
        /\ counter' = n
        /\ turns' = IF n = 0 THEN turns + 1 ELSE turns
        /\ asked' = [asked EXCEPT ![(n % poolSize) + 1] = @ + 1]
        /\ UNCHANGED <<poolVars, refreshVars, made, closed, shut>>

\* Without a pool the index is NaN: the call throws, the counter has moved.
RequestThrows ==
    /\ poolSize = 0
    /\ counter' = NextCounter(counter)
    /\ UNCHANGED <<poolVars, refreshVars, made, closed, shut, asked, turns>>

\* close() leaves the pool as it is, and knows nothing of a refresh under way.
Close ==
    /\ shut' = shut \cup Range(connections)
    /\ UNCHANGED <<poolVars, refreshVars, made, closed, requestVars>>

Next ==
    \/ \E k \in Refreshes :
          \/ \E urls \in Lists : RefreshUrl(k, urls)
          \/ Connected(k)
          \/ ConnectFails(k)
    \/ Request
    \/ RequestThrows
    \/ Close

Spec == Init /\ [][Next]_vars

-----------------------------------------------------------------------------
\* Every connection that has been made and not closed is in the pool, or a
\* refresh still holds it or has failed with it: none is dropped unclosed, as
\* long as calls of refreshUrl do not overlap (refreshUrl, closeStales).
NothingLeaks ==
    ~overlapped => \A c \in Connections \ (closed \cup shut) :
        \/ c \in Range(connections)
        \/ \E k \in Refreshes :
              refresh[k].state \in {"connecting", "failed"} /\ c \in Range(refresh[k].list)

\* As long as calls do not overlap, closeStales never closes a connection of the
\* pool, nor one that a refresh still awaiting others is about to put there.
PoolIsOpen ==
    ~overlapped =>
        /\ Range(connections) \cap closed = {}
        /\ \A k \in Refreshes :
               refresh[k].state = "connecting" => Range(refresh[k].list) \cap closed = {}

\* A url that is asked for again keeps its connection, and the requests pending
\* on it, as long as calls do not overlap (refreshUrl's lookup in url2Conn).
StaysConnected ==
    [][~overlapped' => \A u \in DOMAIN url2Conn \cap DOMAIN url2Conn' : url2Conn'[u] = url2Conn[u]]_vars

\* Whatever calls overlap, the pool and the map are those of one and the same
\* call, so that what leaves the pool can be found stale by the next.
MapMatchesPool == Range(connections) = Range(url2Conn)

\* The round robin is fair: since the pool was swapped no connection has had
\* more requests than another but one, and one for each turn of the counter
\* (getRandomRSocket).
Balanced == \A i, j \in 1..poolSize : asked[i] - asked[j] <= 1 + turns
=============================================================================
