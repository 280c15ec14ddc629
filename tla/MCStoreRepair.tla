---------------------------- MODULE MCStoreRepair ----------------------------
EXTENDS StoreRepair, TLC

CONSTANTS d1, d2, alice, bob

MCOwner == (d1 :> alice) @@ (d2 :> bob)
=============================================================================
