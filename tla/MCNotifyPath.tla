---------------------------- MODULE MCNotifyPath ----------------------------
\* A small instance of NotifyPath: lines of one character.
EXTENDS NotifyPath

JustA == <<"a">>
=============================================================================
