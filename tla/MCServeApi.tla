----------------------------- MODULE MCServeApi -----------------------------
(***************************************************************************)
(* Three requests: queries and tests of one profile, which may all meet,   *)
(* and in place of one of them a request for another profile, or for one   *)
(* that is not configured.                                                 *)
(***************************************************************************)
EXTENDS ServeApi

CONSTANTS r1, r2, r3

Query(p) == [kind |-> "query", profile |-> p]
Test(p) == [kind |-> "test", profile |-> p]

MCBodies ==
  [r \in Request |->
     CASE r = r1 -> {Query("P")}
       [] r = r2 -> {Query("P"), Test("P")}
       [] r = r3 -> {Query("P"), Test("P"), Query("Q"), Query("X")}]
=============================================================================
