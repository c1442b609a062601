--------------------------- MODULE SessionFamilies ---------------------------
(***************************************************************************)
(* What the refresh-token rotation promises of a session, with no tokens,  *)
(* requests or database rows in sight.  A session is a token family:       *)
(* it is opened once, for one user on one device, and once it is closed -  *)
(* by a logout, a device sign-out or a detected replay - it is never open  *)
(* again, for anybody.  RefreshTokens implements this specification.       *)
(***************************************************************************)
CONSTANTS
    User,    \* accounts
    Device,  \* device sessions (deviceId)
    Family   \* rotation chains (family)

CONSTANTS Unborn \* the session of a family nobody has opened yet

VARIABLE session \* Family -> Unborn, or the session's owner, device and status

Session == [user: User, device: Device, status: {"open", "closed"}]

TypeOK == session \in [Family -> Session \cup {Unborn}]

Init == session = [f \in Family |-> Unborn]

\* A login opens a family that was never used.
Open(f, u, d) ==
    /\ session[f] = Unborn
    /\ session' = [session EXCEPT ![f] = [user |-> u, device |-> d, status |-> "open"]]

\* A termination closes any number of opened families at once.
Close(F) ==
    /\ \A f \in F: session[f] # Unborn
    /\ session' = [f \in Family |->
                     IF f \in F THEN [session[f] EXCEPT !.status = "closed"]
                                ELSE session[f]]

Next ==
    \/ \E f \in Family, u \in User, d \in Device: Open(f, u, d)
    \/ \E F \in SUBSET Family: Close(F)

Spec == Init /\ [][Next]_session
==============================================================================
