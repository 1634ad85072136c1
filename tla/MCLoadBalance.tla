----------------------------- MODULE MCLoadBalance -----------------------------
(***************************************************************************)
(* Lists for TLC: a url stays, comes, goes and comes back, and the pool is *)
(* emptied.                                                                *)
(***************************************************************************)
EXTENDS LoadBalance, TLC

MCUrls == {"a", "b", "c"}
MCLists == {<<"a", "b", "c">>, <<"b", "a">>, <<"c">>, <<>>}
Calls == Permutations(Refreshes)
=============================================================================
