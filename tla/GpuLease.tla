------------------------------ MODULE GpuLease ------------------------------
(***************************************************************************)
(* What a lazily loaded GPU service promises to its clients: the model is  *)
(* loaded for at least as long as one client is synthesizing or still      *)
(* receiving its audio, and it is given up (the process exits and systemd  *)
(* respawns it with a fresh HIP context) only while nobody uses it.        *)
(* XttsProxy implements this.                                              *)
(***************************************************************************)
CONSTANT Request

VARIABLES loaded,   \* the model occupies the GPU
          users     \* clients in synthesis or receiving their audio

lease == <<loaded, users>>

Init == loaded = FALSE /\ users = {}

\* A client that starts to use the model finds it loaded or loads it.
Begin(r) == loaded' = TRUE /\ users' = users \cup {r}

\* Loading may succeed for a client that then fails for another reason.
Load == loaded' = TRUE /\ UNCHANGED users

End(r) == users' = users \ {r} /\ UNCHANGED loaded

Unload == users = {} /\ loaded' = FALSE /\ UNCHANGED users

Next == \/ \E r \in Request : Begin(r) \/ End(r)
        \/ Load
        \/ Unload

Spec == Init /\ [][Next]_lease
=============================================================================
