---------------------------- MODULE MCMatrixCare ----------------------------
EXTENDS MatrixCare

\* The modes of synapse-purge.sh that cron uses, one table each.
Cleanup == [weekly  |-> <<"stop", "full", "start">>,
            monthly |-> <<"stop", "full", "start", "stop", "full", "start", "tidy">>]
=============================================================================
