---------------------------- MODULE MCXttsProxy ----------------------------
(***************************************************************************)
(* Two clients and a timeout of two ticks: a second client is enough to    *)
(* arrive in any window left by the first, and two ticks separate a use    *)
(* that is old from one that is too old.                                   *)
(***************************************************************************)
EXTENDS XttsProxy
CONSTANTS r1, r2
MCRequest == {r1, r2}
=============================================================================
