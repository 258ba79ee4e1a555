---------------------------- MODULE HandleSpec ----------------------------
(***************************************************************************)
(* What a Client promises about the native handle it owns, without locks,  *)
(* program counters or C memory: the handle is created at most once, used  *)
(* only while it is live, disposed of at most once and never under a user, *)
(* and a caller is turned away only after it is gone.                      *)
(***************************************************************************)
CONSTANT Procs

VARIABLES status,    \* the native client: "none", "live" or "freed"
          users,     \* goroutines inside a native call with the handle
          refused    \* goroutines whose last call got ErrClientClosed

specVars == <<status, users, refused>>

Init ==
    /\ status = "none"
    /\ users = {}
    /\ refused = {}

Create ==
    /\ status = "none"
    /\ status' = "live"
    /\ UNCHANGED <<users, refused>>

Enter(p) ==
    /\ status = "live"
    /\ users' = users \cup {p}
    /\ UNCHANGED <<status, refused>>

Leave(p) ==
    /\ users' = users \ {p}
    /\ UNCHANGED <<status, refused>>

Refuse(p) ==
    /\ status = "freed"
    /\ refused' = refused \cup {p}
    /\ UNCHANGED <<status, users>>

(* A refused goroutine begins another call, or a Close.                    *)
Retry(p) ==
    /\ refused' = refused \ {p}
    /\ UNCHANGED <<status, users>>

Dispose ==
    /\ status = "live"
    /\ users = {}
    /\ status' = "freed"
    /\ UNCHANGED <<users, refused>>

Next ==
    \/ Create
    \/ Dispose
    \/ \E p \in Procs : Enter(p) \/ Leave(p) \/ Refuse(p) \/ Retry(p)

Spec == Init /\ [][Next]_specVars
=============================================================================
