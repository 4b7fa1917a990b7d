---------------------------- MODULE MCTestnetHarness ----------------------------
(***************************************************************************)
(* Small instances of TestnetHarness.                                      *)
(***************************************************************************)
EXTENDS TestnetHarness, TLC

CONSTANTS r1, r2, large, small, mined, abroad

\* The wallet's amounts: the large coin is enough for a lock and its change pays
\* for the spend.
MCAmount == large :> 8 @@ small :> 3 @@ mined :> 9 @@ abroad :> 8

=============================================================================
