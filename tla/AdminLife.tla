----------------------------- MODULE AdminLife -----------------------------
(***************************************************************************)
(* What one address can become, with no requests, deaths or retries in     *)
(* sight: whether it has an account, where it is an admin, whether it is   *)
(* an operator, who has asked it, and whose history names it.  Invitations *)
(* is shown to implement it.                                               *)
(*                                                                         *)
(* Four guards do not survive requests that cross.  Each is given up by    *)
(* its own crossing, which only some steps can bring about, and by nothing *)
(* else.                                                                   *)
(***************************************************************************)

CONSTANTS None, Shelters

VARIABLES
  known,     \* an account has the address
  admin,     \* the shelter it is the admin of, or None
  operator,  \* its grant: "none", "active" or "revoked"
  asked,     \* the shelters with an invitation pending, expired or not
  open,      \* those of them with one that is still valid
  named,     \* the shelters whose history holds the address
  crossed    \* the crossings that have happened

life == <<known, admin, operator, asked, open, named, crossed>>

Init ==
  /\ known \in BOOLEAN
  /\ admin = None
  /\ operator \in IF known THEN {"none", "revoked"} ELSE {"none"}
  /\ asked = {} /\ open = {} /\ named = {} /\ crossed = {}

Crosses(crossings) ==
  crossed \subseteq crossed' /\ crossed' \subseteq crossed \cup crossings

Appear ==
  /\ ~known /\ known'
  /\ UNCHANGED <<admin, operator, asked, open, named, crossed>>

(* A first invitation or a resend: never to the shelter's own admin, nor   *)
(* while another shelter's is valid.  A late one may have expired already. *)
Ask(s) ==
  /\ admin # s \/ "invite" \in crossed
  /\ open \subseteq {s} \/ "asks" \in crossed
  /\ asked' = asked \cup {s}
  /\ open' \ {s} = open \ {s}
  /\ named' = named \cup {s}
  /\ Crosses({"asks"})
  /\ UNCHANGED <<known, admin, operator>>

(* A resend that an erasure crossed names the address again, and asks it   *)
(* nothing.                                                                *)
NameLate(s) ==
  /\ "resend" \in crossed
  /\ named' = named \cup {s}
  /\ Crosses({"asks"})
  /\ UNCHANGED <<known, admin, operator, asked, open>>

Expire ==
  /\ open' \subseteq open
  /\ UNCHANGED <<known, admin, operator, asked, named, crossed>>

(* Whatever the shelter asked is settled.                                  *)
Settle(s) ==
  /\ s \in asked
  /\ asked' = asked \ {s}
  /\ open' = open \ {s}
  /\ named' = named \cup {s}

Withdraw(s) == Settle(s) /\ UNCHANGED <<known, admin, operator, crossed>>

Join(s) ==
  /\ known /\ admin = None /\ operator # "active"
  /\ Settle(s)
  /\ admin' = s
  /\ Crosses({"grant", "invite"})
  /\ UNCHANGED <<known, operator>>

(* To be an admin again takes a new invitation.                            *)
Leave ==
  /\ admin # None
  /\ admin \notin asked \/ "invite" \in crossed
  /\ admin' = None
  /\ named' = named \cup {admin}
  /\ UNCHANGED <<known, operator, asked, open, crossed>>

Grant ==
  /\ known
  /\ admin = None \/ "grant" \in crossed
  /\ operator' = "active"
  /\ UNCHANGED <<known, admin, asked, open, named, crossed>>

Revoke ==
  /\ operator = "active" /\ operator' = "revoked"
  /\ UNCHANGED <<known, admin, asked, open, named, crossed>>

(* Nobody with a role, a past as an operator or a valid invitation is      *)
(* erased, and an erasure leaves the address nowhere.                      *)
Forget ==
  /\ known /\ admin = None /\ operator = "none" /\ open = {}
  /\ ~known' /\ asked' = {} /\ open' = {}
  /\ named' \subseteq named
  /\ named' = {} \/ "resend" \in crossed
  /\ Crosses({"resend"})
  /\ UNCHANGED <<admin, operator>>

Next ==
  \/ Appear \/ Expire \/ Leave \/ Grant \/ Revoke \/ Forget
  \/ \E s \in Shelters : Ask(s) \/ NameLate(s) \/ Withdraw(s) \/ Join(s)

Spec == Init /\ [][Next]_life

=============================================================================
