------------------------------ MODULE PairingTrust ------------------------------
(***************************************************************************)
(* What the Mac promises about identities, apart from how the handshake    *)
(* brings it about: the identities it trusts, those its state file lists,  *)
(* and at most one identity whose session is live.  A new identity becomes *)
(* trusted and listed in the very step in which its own session goes live, *)
(* and one identity never takes over from another without a gap between.   *)
(* Revoking takes an identity off the list; it is trusted no more once the *)
(* list is read again, unless all that is trusted was saved meanwhile.     *)
(***************************************************************************)
CONSTANTS Identities, Nobody

VARIABLES trusted, listed, active

Init == trusted \subseteq Identities /\ listed = trusted /\ active = Nobody

GoLive(p) ==
  /\ active = Nobody
  /\ active' = p
  /\ trusted' = trusted \cup {p}
  /\ listed' = IF p \in trusted THEN listed ELSE trusted'

(* A session that ends may be followed at once by the next one's key.      *)
GoDark ==
  /\ active' = Nobody
  /\ listed' \in {listed, trusted}
  /\ UNCHANGED trusted

Save ==
  /\ listed' = trusted
  /\ UNCHANGED <<trusted, active>>

Revoke(p) ==
  /\ listed' = listed \ {p}
  /\ UNCHANGED <<trusted, active>>

Reload ==
  /\ active' = Nobody
  /\ trusted' = listed
  /\ UNCHANGED listed

Next ==
  \/ GoDark \/ Save \/ Reload
  \/ \E p \in Identities : GoLive(p) \/ Revoke(p)

Spec == Init /\ [][Next]_<<trusted, listed, active>>

================================================================================
