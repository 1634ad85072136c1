-------------------------- MODULE MCRSocketRequester --------------------------
(***************************************************************************)
(* Small instances of RSocketRequester: the requests of each run, their    *)
(* owners and their interaction models.                                    *)
(***************************************************************************)
EXTENDS RSocketRequester, TLC

CONSTANTS r1, r2, r3, r4

\* A stream, a response and a fire-and-forget of the client's share the
\* identifiers 1 and 3; the server pushes metadata.
RaceOwner == r1 :> Client @@ r2 :> Client @@ r3 :> Client @@ r4 :> Server
RaceKind == r1 :> "stream" @@ r2 :> "response" @@ r3 :> "fnf" @@ r4 :> "push"

\* A channel uploads to the server, which has a stream of its own; a response
\* goes with the channel.
AckOwner == r1 :> Client @@ r2 :> Server @@ r3 :> Client
AckKind == r1 :> "channel" @@ r2 :> "stream" @@ r3 :> "response"

StreamPromise == INSTANCE Interaction WITH
    Items <- 1..MaxItems, broken <- Broken,
    produced <- ItemsWithData(r2), ended <- EndOf(r2),
    told <- ItemsTold(r2), outcome <- OutcomeTold(r2)

ResponsePromise == INSTANCE Interaction WITH
    Items <- 1..MaxItems, broken <- Broken,
    produced <- ItemsWithData(r3), ended <- EndOf(r3),
    told <- ItemsTold(r3), outcome <- OutcomeTold(r3)

\* The server's requestStream and the client's requestResponse are each the
\* Interaction that rsocket/RSocket.ts describes, whatever happens around them,
\* if answers are read after the request's write has resolved and no
\* requestStream handler throws.
ImplementsInteraction == StreamPromise!Spec /\ ResponsePromise!Spec

\* One request of the client's, on its own.
OneOwner == r1 :> Client
OneResponse == r1 :> "response"
=============================================================================
