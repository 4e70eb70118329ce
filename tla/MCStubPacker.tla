---------------------------- MODULE MCStubPacker ----------------------------
(* One source of three contents: two share a size, and one does not compile. *)
EXTENDS StubPacker, TLC

CONSTANTS p1, c1, c2, bad, none, noEntry, zeros, h1, h2, h3

MCDigest == c1 :> h1 @@ c2 :> h2 @@ bad :> h3
MCBytes == c1 :> 1 @@ c2 :> 1 @@ bad :> 2
=============================================================================
