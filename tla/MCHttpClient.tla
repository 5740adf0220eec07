---------------------------- MODULE MCHttpClient ----------------------------
(***************************************************************************)
(* Instance of HttpClient: two requests, one with a handler, two sockets,  *)
(* and three watchers, so that one request can use two sockets in turn.    *)
(***************************************************************************)
EXTENDS HttpClient, TLC

CONSTANTS r1, r2, w1, w2, w3

MCRequests == {r1, r2}
MCHandled  == {r1}
MCWatchers == {w1, w2, w3}
MCSymmetry == Permutations({w1, w2, w3})
=============================================================================
