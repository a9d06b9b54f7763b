---------------------------- MODULE MCHostedPair ----------------------------
(***************************************************************************)
(* Two HTLCs through two channels.  Either both may be forwarded, so that  *)
(* their links and ids meet, or one stops the loop that dispatches both.   *)
(***************************************************************************)
EXTENDS HostedPair, TLC

CONSTANTS p1, p2

MCAmount == p1 :> 1 @@ p2 :> 1

MCOnions == {p1 :> "cheap" @@ p2 :> "plain", p1 :> "cheap" @@ p2 :> "loop",
             p1 :> "refused" @@ p2 :> "loop"}
=============================================================================
