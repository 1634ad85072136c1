------------------------------- MODULE MCRouter -------------------------------
(***************************************************************************)
(* A small instance of Router: names of one or two bytes, a service whose  *)
(* name has a dot and another that is the part before it, and the entries  *)
(* that applications put together.                                         *)
(***************************************************************************)
EXTENDS Router

ROUTING == <<1>>
MCMime == <<2>>
MCText == <<3, 4>>

MCWellKnown == ROUTING :> 126 @@ MCMime :> 0
MCReserved == <<9>>

\* "s", and "s.t"; "s.t.m" must not be taken for "t.m" of "s".
MCServices == {<<115>>, <<115, Dot, 116>>}
MCStreamPrefix == <<102>>
MCFirePrefix == <<103>>
MCMethods == {<<109>>, <<102, 109>>, <<103, 109>>}
MCInstances == {{<<109>>}, MCMethods}

MCEntries == {
    RoutingMetadata(<<RoutingKey(<<115>>, <<109>>)>>),
    RoutingMetadata(<<RoutingKey(<<115>>, <<102, 109>>), <<7>>>>),
    [mime |-> MCMime, content |-> <<5>>],
    [mime |-> MCText, content |-> <<0, 200>>],
    [mime |-> MCText, content |-> <<>>]}

X == Json("x")
MCArguments == {<<>>, <<X>>, <<UndefinedValue>>, <<Array(<<X, UndefinedValue>>)>>, <<X, X>>}
MCResults == {X, UndefinedValue, Array(<<UndefinedValue>>)}
=============================================================================
