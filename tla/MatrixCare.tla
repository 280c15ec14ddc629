----------------------------- MODULE MatrixCare -----------------------------
(***************************************************************************)
(* Two kinds of maintenance of one Matrix server: the cleanup that cron    *)
(* starts stops Synapse (SynapsePurge) under the calls of an administrator *)
(* who is replacing a room (RoomRecreate).  Only `synapse' is common.      *)
(***************************************************************************)
EXTENDS RoomRecreate

care == <<purgeVars, recreate>>

CareInit == PurgeInit /\ RecreateInit

CareNext == \/ PurgeNext /\ UNCHANGED recreate
            \/ RecreateNext /\ UNCHANGED purgeVars

CareSpec == CareInit /\ [][CareNext]_care

\* A run of the cleanup goes on to its end; cron starts each kind again and again.
CareFairness == \A j \in Job : /\ WF_care(Launch(j) /\ UNCHANGED recreate)
                               /\ WF_care(Purging(j) /\ UNCHANGED recreate)

FairCareSpec == CareSpec /\ CareFairness

CareTypeOK == PurgeTypeOK /\ RecreateTypeOK
=============================================================================
