----------------------------- MODULE MCRoomFifo -----------------------------
EXTENDS RoomFifo

\* A line of a character of one byte and one of two.
AAndUmlaut == <<"a", "h", "t">>
=============================================================================
