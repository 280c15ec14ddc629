---------------------------- MODULE LineChannel ----------------------------
(***************************************************************************)
(* What a part of the way of a notification promises to the next part:     *)
(* only lines it has accepted come out, none twice, what has come out      *)
(* stays, and in the order accepted as long as that order can be kept.     *)
(* A line may never come out.  RoomFifo (from notify.sh to the runner's    *)
(* queue) and RoomPipe (from there to the room) both implement this.       *)
(***************************************************************************)
EXTENDS Naturals, Sequences

VARIABLES accepted,   \* the lines accepted, numbered as they came
          delivered,  \* those that have come out, first to last
          straight    \* the order is still kept

channel == <<accepted, delivered, straight>>

Ascending(s)  == \A i, j \in 1 .. Len(s) : i < j => s[i] < s[j]
Once(s)       == \A i, j \in 1 .. Len(s) : s[i] = s[j] => i = j
Extends(t, s) == Len(s) <= Len(t) /\ \A i \in 1 .. Len(s) : t[i] = s[i]

Init == accepted = {} /\ delivered = <<>> /\ straight = TRUE

\* One line or several.
Accept == /\ accepted \subseteq accepted'
          /\ \A n \in accepted' \ accepted, a \in accepted : a < n
          /\ UNCHANGED <<delivered, straight>>

Deliver == /\ Extends(delivered', delivered)
           /\ \A i \in 1 .. Len(delivered') : delivered'[i] \in accepted
           /\ Once(delivered')
           /\ straight => Ascending(delivered')
           /\ UNCHANGED <<accepted, straight>>

LoseOrder == straight' = FALSE /\ UNCHANGED <<accepted, delivered>>

Next == Accept \/ Deliver \/ LoseOrder

Spec == Init /\ [][Next]_channel
=============================================================================
