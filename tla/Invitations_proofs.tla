------------------------- MODULE Invitations_proofs -------------------------
(***************************************************************************)
(* Invitations, for any number of shelters, requests and invitations, with *)
(* every procedure beside every other and requests that die between        *)
(* statements.                                                             *)
(*                                                                         *)
(* A step of a request is summed up once, in Step: what it does to the     *)
(* rows (Effect) and what the request knows when it comes to a check or to *)
(* its write (Enters).  Each property then has a small invariant of its    *)
(* own: unless its crossing has happened, the property holds, and so does  *)
(* what a request past its look still relies on.  A request beside it      *)
(* disturbs that only by an effect that records the crossing.              *)
(***************************************************************************)
EXTENDS Invitations, TLAPS

RowTypes ==
  /\ account \in Accounts \cup {None}
  /\ member \in Shelters \cup {None}
  /\ grant \in {"none", "active", "revoked"}
  /\ organization \in [Shelters -> {"none", "made", "linked"}]
  /\ invitations \in Seq(InvitationRows)
  /\ history \in [Shelters -> Histories]
  /\ lastId \in Nat
  /\ crossed \subseteq Crossings

(* Who is invited has an organization to join.                             *)
LinkedInv ==
  \A k \in DOMAIN invitations : organization[invitations[k].shelter] = "linked"

(* Who has joined has an account, and was invited there.                   *)
MemberInv == member # None => account # None /\ member \in Invited

(* The procedures that may erase the account.                              *)
Cleaning == {"invite", "resend", "remove", "clean_up"}

ReqInv(r) ==
  req[r].pc # "idle" =>
    /\ req[r].op \in Ops
    /\ req[r].op.type \in {"invite", "resend", "remove"} =>
         req[r].op.shelter \in Shelters
    /\ req[r].now <= clock
    /\ req[r].pc = "roles" => req[r].op.type \in {"invite", "resend"}
    /\ req[r].pc = "clean" => req[r].op.type \in Cleaning
    /\ req[r].op.type = "invite" =>
         /\ req[r].own
         /\ req[r].again => organization[req[r].op.shelter] = "linked"
         /\ req[r].pc = "write" => req[r].again
    /\ req[r].op.type = "grant" /\ req[r].pc \in {"elsewhere", "write"} =>
         req[r].user # None
    /\ req[r].op.type = "resend" /\ req[r].pc \in Found =>
         /\ req[r].invitation \in DOMAIN invitations
         /\ invitations[req[r].invitation].shelter = req[r].op.shelter
         /\ invitations[req[r].invitation].own =>
              req[r].own \/ req[r].pc = "load"

Base ==
  /\ RowTypes /\ LinkedInv /\ MemberInv
  /\ clock \in Nat /\ started \in Nat
  /\ req \in [Requests -> RequestStates]
  /\ \A r \in Requests : ReqInv(r)

-----------------------------------------------------------------------------
(* What a step does to the rows.                                           *)

Stays == UNCHANGED Rows

Erases ==
  /\ account # None /\ member = None /\ grant = "none"
  /\ LiveTo(Shelters, TRUE, clock) = {}
  /\ Erase
  /\ UNCHANGED <<member, grant, organization, lastId>>

Opens ==
  /\ account = None /\ account' \in Accounts /\ lastId' \in Nat
  /\ UNCHANGED <<member, grant, organization, invitations, history, crossed>>

Organizes ==
  /\ \E s \in Shelters, step \in {"made", "linked"} :
       /\ organization[s] = "none" \/ step = "linked"
       /\ organization' = [organization EXCEPT ![s] = step]
  /\ UNCHANGED <<account, member, grant, invitations, history, lastId, crossed>>

Invites(s, now) ==
  /\ organization[s] = "linked"
  /\ invitations' = Append(invitations,
                      [shelter |-> s, status |-> "pending",
                       expires |-> Expiry(now), created |-> now, own |-> TRUE])
  /\ Line(s, "invited") /\ AskCrosses(s)
  /\ UNCHANGED <<account, member, grant, organization, lastId>>

Renews(s, k, now) ==
  /\ k \in DOMAIN invitations
  /\ invitations[k].shelter = s /\ invitations[k].status = "pending"
  /\ invitations' = [invitations EXCEPT ![k].expires = Expiry(now)]
  /\ Line(s, "resent") /\ AskCrosses(s)
  /\ UNCHANGED <<account, member, grant, organization, lastId>>

Removes(s) ==
  /\ member = s /\ member' = None
  /\ Line(s, "removed")
  /\ UNCHANGED <<account, grant, organization, invitations, lastId, crossed>>

Withdraws(s) ==
  /\ Pending(s) # {}
  /\ invitations' = Canceled(Withdrawn(s))
  /\ Line(s, "removed")
  /\ UNCHANGED <<account, member, grant, organization, lastId, crossed>>

Joins(k, now) ==
  /\ k \in Acceptable(now)
  /\ member = None /\ account # None /\ grant # "active"
  /\ invitations' = [Canceled(Superseded(k)) EXCEPT ![k].status = "accepted"]
  /\ member' = invitations[k].shelter
  /\ Line(invitations[k].shelter, "joined")
  /\ JoinCrosses(invitations[k].shelter)
  /\ UNCHANGED <<account, grant, organization, lastId>>

Grants ==
  /\ account # None
  /\ grant' = "active"
  /\ UNCHANGED <<account, member, organization, invitations, history, lastId,
                 crossed>>

Revokes ==
  /\ grant = "active" /\ grant' = "revoked"
  /\ UNCHANGED <<account, member, organization, invitations, history, lastId,
                 crossed>>

(* Which procedure does it, and from where.                                *)
Effect(r) ==
  LET type == req[r].op.type
  IN  \/ Stays
      \/ type \in Cleaning /\ Erases
      \/ type = "invite" /\ Opens
      \/ type = "invite" /\ Organizes
      \/ /\ type = "invite" /\ req[r].pc = "write"
         /\ Invites(Shelter(r), req[r].now)
      \/ /\ type = "resend" /\ req[r].pc = "write"
         /\ Renews(Shelter(r), req[r].invitation, req[r].now)
      \/ type = "remove" /\ Removes(Shelter(r))
      \/ type = "remove" /\ Withdraws(Shelter(r))
      \/ type = "accept" /\ Joins(req[r].invitation, req[r].now)
      \/ type = "grant" /\ req[r].pc = "write" /\ Grants
      \/ type = "revoke" /\ Revokes

(* What a request knows as it comes to a check or to its write.            *)
Enters(r) ==
  LET type == req[r].op.type
      to   == req'[r].pc
  IN  /\ type = "grant" /\ to \in {"elsewhere", "write"} =>
           Stays /\ (member = None \/ req[r].pc = "elsewhere")
      /\ type = "invite" /\ to = "roles" =>
           Stays /\ req'[r].user = AccountId
      /\ type = "invite" /\ to = "elsewhere" =>
           /\ Stays /\ req[r].pc = "roles" /\ ~HasRole(req[r].user)
           /\ req'[r].again = req[r].again
      /\ type = "invite" /\ to = "write" =>
           Stays /\ req[r].pc = "elsewhere" /\ req[r].again
      /\ type \in {"invite", "resend"} /\ to = "write" =>
           /\ Stays
           /\ LiveTo(Elsewhere(req[r].op), req[r].own, req[r].now) = {}
           /\ req'[r].own = req[r].own /\ req'[r].now = req[r].now
      /\ type = "resend" /\ to \in Found =>
           /\ Stays
           /\ \/ to = "load" /\ req'[r].invitation \in Pending(Shelter(r))
              \/ /\ req[r].pc \in Found /\ to # "load"
                 /\ req'[r].invitation = req[r].invitation

(* A request's step changes that request, and ends it or keeps what it is. *)
OnlyStep(r) ==
  /\ req' \in [Requests -> RequestStates]
  /\ \A q \in Requests \ {r} : req'[q] = req[q]
  /\ req'[r].pc = "idle" \/ req'[r].op = req[r].op
  /\ clock' = clock /\ started' = started

Step(r) ==
  /\ r \in Requests /\ req[r].pc # "idle"
  /\ OnlyStep(r) /\ Effect(r) /\ Enters(r) /\ ReqInv(r)'

(* Nothing happens to any request: a tick, a proof of the address, or      *)
(* nothing at all.                                                         *)
Quiet ==
  /\ account' \in Accounts \cup {None}
  /\ account' = None <=> account = None
  /\ AccountId' = AccountId
  /\ clock' \in {clock, clock + 1}
  /\ UNCHANGED <<member, grant, organization, invitations, history, lastId,
                 crossed, req, started>>

Begins(r) ==
  /\ r \in Requests /\ req[r].pc = "idle"
  /\ Stays
  /\ clock' = clock /\ started' \in Nat
  /\ req' \in [Requests -> RequestStates]
  /\ \A q \in Requests \ {r} : req'[q] = req[q]
  /\ req'[r].pc \in {"clean", "find", "plan", "write"}
  /\ req'[r].pc = "write" => req'[r].op.type = "revoke"
  /\ ReqInv(r)'

-----------------------------------------------------------------------------
(* The rows before and after each effect.                                  *)

LEMMA RowShapes ==
  ASSUME RowTypes
  PROVE  /\ Len(invitations) \in Nat
         /\ DOMAIN invitations = 1 .. Len(invitations)
         /\ \A k \in DOMAIN invitations :
              /\ invitations[k] \in InvitationRows
              /\ invitations[k].shelter \in Shelters
              /\ invitations[k].own \in BOOLEAN
              /\ invitations[k].expires \in Nat
         /\ \A s \in Shelters : history[s].named \in BOOLEAN
         /\ AccountId \in Nat \cup {None}
         /\ AccountId = None <=> account = None
         /\ \A s \in Shelters : s # None
  <1>1. Len(invitations) \in Nat /\ DOMAIN invitations = 1 .. Len(invitations)
    BY DEF RowTypes
  <1>2. \A k \in DOMAIN invitations : invitations[k] \in InvitationRows
    BY DEF RowTypes
  <1>3. \A i \in InvitationRows :
          i.shelter \in Shelters /\ i.own \in BOOLEAN /\ i.expires \in Nat
    BY DEF InvitationRows
  <1>4. \A s \in Shelters : history[s].named \in BOOLEAN
    BY DEF RowTypes, Histories
  <1>5. AccountId \in Nat \cup {None} /\ (AccountId = None <=> account = None)
    <2>1. CASE account = None
      BY <2>1 DEF AccountId
    <2>2. CASE account \in Accounts
      <3>1. account.id \in Nat
        BY <2>2 DEF Accounts
      <3>2. account # None /\ account.id # None
        BY <2>2, <3>1, InvitationsAssumption
      <3> QED BY <3>1, <3>2 DEF AccountId
    <2> QED BY <2>1, <2>2 DEF RowTypes
  <1>6. \A s \in Shelters : s # None
    BY InvitationsAssumption
  <1> QED BY <1>1, <1>2, <1>3, <1>4, <1>5, <1>6

LEMMA SameRows ==
  ASSUME UNCHANGED <<account, invitations>>
  PROVE  /\ AccountId' = AccountId
         /\ Invited' = Invited
         /\ \A s : Pending(s)' = Pending(s)
         /\ \A ss, own, now : LiveTo(ss, own, now)' = LiveTo(ss, own, now)
  BY DEF AccountId, Invited, Pending, LiveTo

LEMMA LineFacts ==
  ASSUME RowTypes, NEW s \in Shelters,
         NEW kind \in {"invited", "resent", "joined", "removed"}, Line(s, kind)
  PROVE  /\ history' \in [Shelters -> Histories]
         /\ history'[s].last = kind /\ history'[s].named
         /\ \A t \in Shelters \ {s} : history'[t] = history[t]
  BY DEF Line, RowTypes, Histories

LEMMA CrossedFacts ==
  ASSUME crossed \subseteq Crossings, NEW s,
         JoinCrosses(s) \/ AskCrosses(s) \/ EraseCrosses \/ crossed' = crossed
  PROVE  crossed' \subseteq Crossings /\ crossed \subseteq crossed'
  BY DEF JoinCrosses, AskCrosses, EraseCrosses, Crossings

LEMMA EraseFacts ==
  ASSUME RowTypes, Erases
  PROVE  /\ RowTypes' /\ crossed \subseteq crossed'
         /\ account' = None
         /\ DOMAIN invitations' = DOMAIN invitations
         /\ \A k \in DOMAIN invitations :
              /\ ~invitations'[k].own
              /\ invitations'[k].shelter = invitations[k].shelter
         /\ \A s \in Shelters :
              /\ history'[s].last = history[s].last
              /\ history'[s].named => history[s].named /\ s \notin Scrubbed
  <1>1. /\ account' = None
        /\ invitations' = [k \in DOMAIN invitations |->
                             [invitations[k] EXCEPT !.own = FALSE]]
        /\ history' = [s \in Shelters |->
                         IF s \in Scrubbed
                         THEN [history[s] EXCEPT !.named = FALSE]
                         ELSE history[s]]
        /\ EraseCrosses /\ UNCHANGED <<member, grant, organization, lastId>>
    BY DEF Erases, Erase
  <1>2. /\ DOMAIN invitations' = DOMAIN invitations
        /\ \A k \in DOMAIN invitations :
             /\ invitations'[k] \in InvitationRows
             /\ ~invitations'[k].own
             /\ invitations'[k].shelter = invitations[k].shelter
    BY <1>1, RowShapes DEF InvitationRows
  <1>3. invitations' \in Seq(InvitationRows)
    BY <1>1, <1>2, RowShapes
  <1>4. /\ history' \in [Shelters -> Histories]
        /\ \A s \in Shelters :
              /\ history'[s].last = history[s].last
              /\ history'[s].named => history[s].named /\ s \notin Scrubbed
    BY <1>1 DEF RowTypes, Histories
  <1> QED BY <1>1, <1>2, <1>3, <1>4, CrossedFacts DEF RowTypes

LEMMA InvitesFacts ==
  ASSUME RowTypes, NEW s \in Shelters, NEW now \in Nat, Invites(s, now)
  PROVE  /\ RowTypes' /\ crossed \subseteq crossed'
         /\ DOMAIN invitations \subseteq DOMAIN invitations'
         /\ \A k \in DOMAIN invitations : invitations'[k] = invitations[k]
         /\ \A k \in DOMAIN invitations' \ DOMAIN invitations :
              invitations'[k].shelter = s
         /\ s \in Invited' /\ Invited \subseteq Invited'
         /\ Pending(s)' # {}
         /\ \A t \in Shelters \ {s} : Pending(t)' = Pending(t)
  <1> DEFINE n == Len(invitations)
             new == [shelter |-> s, status |-> "pending",
                     expires |-> Expiry(now), created |-> now, own |-> TRUE]
  <1>1. n \in Nat
    BY RowShapes
  <1>2. new \in InvitationRows
    BY InvitationsAssumption DEF Expiry, InvitationRows, Statuses
  <1>3. invitations' = Append(invitations, new)
    BY DEF Invites
  <1> HIDE DEF new
  <1>4. /\ invitations' \in Seq(InvitationRows)
        /\ DOMAIN invitations' = 1 .. n + 1
        /\ \A k \in 1 .. n : invitations'[k] = invitations[k]
        /\ invitations'[n + 1] = new
    BY <1>2, <1>3 DEF RowTypes
  <1>5. DOMAIN invitations = 1 .. n
    BY RowShapes
  <1> HIDE DEF n
  <1>6. new.shelter = s /\ new.own /\ new.status = "pending"
    BY DEF new
  <1>7. RowTypes' /\ crossed \subseteq crossed'
    BY <1>4, LineFacts, CrossedFacts DEF RowTypes, Invites
  <1>8. \A t \in Shelters \ {s} : Pending(t)' = Pending(t)
    BY <1>1, <1>4, <1>5, <1>6 DEF Pending
  <1>9. s \in Invited' /\ Invited \subseteq Invited'
    BY <1>1, <1>4, <1>5, <1>6 DEF Invited
  <1>10. \A k \in DOMAIN invitations' \ DOMAIN invitations :
           invitations'[k].shelter = s
    BY <1>1, <1>4, <1>5, <1>6
  <1>11. n + 1 \in Pending(s)'
    BY <1>1, <1>4, <1>6 DEF Pending
  <1> QED BY <1>1, <1>4, <1>5, <1>7, <1>8, <1>9, <1>10, <1>11

LEMMA RenewsFacts ==
  ASSUME RowTypes, NEW s \in Shelters, NEW k, NEW now \in Nat, Renews(s, k, now)
  PROVE  /\ RowTypes' /\ crossed \subseteq crossed'
         /\ DOMAIN invitations' = DOMAIN invitations
         /\ \A j \in DOMAIN invitations :
              /\ invitations'[j].shelter = invitations[j].shelter
              /\ invitations'[j].own = invitations[j].own
              /\ invitations'[j].status = invitations[j].status
              /\ j # k => invitations'[j] = invitations[j]
         /\ Invited' = Invited
         /\ \A t : Pending(t)' = Pending(t)
  <1>1. Expiry(now) \in Nat
    BY InvitationsAssumption DEF Expiry
  <1>2. /\ k \in DOMAIN invitations
        /\ invitations' = [invitations EXCEPT ![k].expires = Expiry(now)]
    BY DEF Renews
  <1>3. /\ DOMAIN invitations' = DOMAIN invitations
        /\ \A j \in DOMAIN invitations :
             /\ invitations'[j] \in InvitationRows
             /\ invitations'[j].shelter = invitations[j].shelter
             /\ invitations'[j].own = invitations[j].own
             /\ invitations'[j].status = invitations[j].status
             /\ j # k => invitations'[j] = invitations[j]
    BY <1>1, <1>2, RowShapes DEF InvitationRows
  <1>4. invitations' \in Seq(InvitationRows)
    <2>1. invitations' = [j \in 1 .. Len(invitations) |->
                            IF j = k
                            THEN [invitations[j] EXCEPT !.expires = Expiry(now)]
                            ELSE invitations[j]]
      BY <1>2, RowShapes
    <2>2. \A j \in 1 .. Len(invitations) : invitations'[j] \in InvitationRows
      BY <1>3, RowShapes
    <2>3. invitations' \in [1 .. Len(invitations) -> InvitationRows]
      BY <2>1, <2>2
    <2> QED BY <2>3, RowShapes
  <1>5. RowTypes' /\ crossed \subseteq crossed'
    BY <1>4, LineFacts, CrossedFacts DEF RowTypes, Renews
  <1>6. Invited' = Invited
    BY <1>3 DEF Invited
  <1>7. \A t : Pending(t)' = Pending(t)
    BY <1>3 DEF Pending
  <1> QED BY <1>3, <1>5, <1>6, <1>7

(* Invitations that stop being pending.                                    *)
LEMMA StatusFacts ==
  ASSUME RowTypes, NEW ks \in SUBSET DOMAIN invitations,
         NEW f \in [DOMAIN invitations -> Statuses \ {"pending"}],
         invitations' = [k \in DOMAIN invitations |->
                           IF k \in ks
                           THEN [invitations[k] EXCEPT !.status = f[k]]
                           ELSE invitations[k]]
  PROVE  /\ invitations' \in Seq(InvitationRows)
         /\ DOMAIN invitations' = DOMAIN invitations
         /\ \A k \in DOMAIN invitations :
              /\ invitations'[k].shelter = invitations[k].shelter
              /\ invitations'[k].own = invitations[k].own
              /\ invitations'[k].expires = invitations[k].expires
              /\ k \in ks => invitations'[k].status # "pending"
              /\ k \notin ks => invitations'[k].status = invitations[k].status
         /\ Invited' = Invited
         /\ \A s : Pending(s)' = Pending(s) \ ks
  <1>1. /\ DOMAIN invitations' = DOMAIN invitations
        /\ \A k \in DOMAIN invitations :
             /\ invitations'[k] \in InvitationRows
             /\ invitations'[k].shelter = invitations[k].shelter
             /\ invitations'[k].own = invitations[k].own
             /\ invitations'[k].expires = invitations[k].expires
             /\ k \in ks => invitations'[k].status # "pending"
             /\ k \notin ks => invitations'[k].status = invitations[k].status
    BY RowShapes DEF InvitationRows, Statuses
  <1>2. invitations' \in Seq(InvitationRows)
    BY <1>1, RowShapes
  <1>3. Invited' = Invited
    BY <1>1 DEF Invited
  <1>4. \A s : Pending(s)' = Pending(s) \ ks
    BY <1>1 DEF Pending
  <1> QED BY <1>1, <1>2, <1>3, <1>4

(* Which statuses a withdrawal and an accept change.                       *)
LEMMA WithdrawsFacts ==
  ASSUME RowTypes, NEW s \in Shelters, Withdraws(s)
  PROVE  /\ RowTypes' /\ crossed \subseteq crossed'
         /\ s \in Invited /\ Invited' = Invited
         /\ DOMAIN invitations' = DOMAIN invitations
         /\ \A k \in DOMAIN invitations :
              /\ invitations'[k].shelter = invitations[k].shelter
              /\ invitations'[k].own = invitations[k].own
              /\ invitations'[k].expires = invitations[k].expires
              /\ invitations'[k].status = "pending" =>
                   invitations[k].status = "pending"
         /\ Pending(s)' = {}
         /\ \A t : Pending(t)' \subseteq Pending(t)
         /\ \A t \in Shelters \ {s} : Pending(t)' = Pending(t)
  <1> DEFINE f == [k \in DOMAIN invitations |-> "canceled"]
  <1>1. /\ Pending(s) \in SUBSET DOMAIN invitations
        /\ f \in [DOMAIN invitations -> Statuses \ {"pending"}]
        /\ invitations' = [k \in DOMAIN invitations |->
                             IF k \in Pending(s)
                             THEN [invitations[k] EXCEPT !.status = f[k]]
                             ELSE invitations[k]]
    BY DEF Withdraws, Canceled, Withdrawn, Pending, Statuses
  <1> HIDE DEF f
  <1>2. /\ invitations' \in Seq(InvitationRows)
        /\ DOMAIN invitations' = DOMAIN invitations
        /\ \A k \in DOMAIN invitations :
              /\ invitations'[k].shelter = invitations[k].shelter
              /\ invitations'[k].own = invitations[k].own
              /\ invitations'[k].expires = invitations[k].expires
              /\ k \in Pending(s) => invitations'[k].status # "pending"
              /\ k \notin Pending(s) =>
                   invitations'[k].status = invitations[k].status
        /\ Invited' = Invited
        /\ \A t : Pending(t)' = Pending(t) \ Pending(s)
    BY <1>1, StatusFacts
  <1>3. s \in Invited
    BY DEF Withdraws, Pending, Invited
  <1>4. RowTypes' /\ crossed \subseteq crossed'
    BY <1>2, LineFacts DEF RowTypes, Withdraws
  <1>5. \A t \in Shelters \ {s} : Pending(t)' = Pending(t)
    BY <1>2 DEF Pending
  <1> QED BY <1>2, <1>3, <1>4, <1>5

LEMMA JoinsFacts ==
  ASSUME RowTypes, NEW k, NEW now, Joins(k, now)
  PROVE  /\ RowTypes' /\ crossed \subseteq crossed'
         /\ k \in DOMAIN invitations /\ invitations[k].shelter \in Shelters
         /\ invitations[k].shelter \in Invited /\ Invited' = Invited
         /\ DOMAIN invitations' = DOMAIN invitations
         /\ \A j \in DOMAIN invitations :
              /\ invitations'[j].shelter = invitations[j].shelter
              /\ invitations'[j].own = invitations[j].own
              /\ invitations'[j].expires = invitations[j].expires
              /\ invitations'[j].status = "pending" =>
                   invitations[j].status = "pending"
         /\ Pending(invitations[k].shelter) # {}
         /\ Pending(invitations[k].shelter)' = {}
         /\ \A t : Pending(t)' \subseteq Pending(t)
         /\ \A t \in Shelters \ {invitations[k].shelter} :
              Pending(t)' = Pending(t)
  <1> DEFINE s == invitations[k].shelter
             f == [j \in DOMAIN invitations |->
                     IF j = k THEN "accepted" ELSE "canceled"]
  <1>1. k \in DOMAIN invitations /\ s \in Shelters
    BY RowShapes DEF Joins, Acceptable, LiveTo
  <1>2. k \in Pending(s) /\ s \in Invited
    BY <1>1 DEF Joins, Acceptable, LiveTo, Live, Pending, Invited
  <1>3. /\ Pending(s) \in SUBSET DOMAIN invitations
        /\ f \in [DOMAIN invitations -> Statuses \ {"pending"}]
    BY DEF Pending, Statuses
  <1>4. invitations' = [j \in DOMAIN invitations |->
                          IF j \in Pending(s)
                          THEN [invitations[j] EXCEPT !.status = f[j]]
                          ELSE invitations[j]]
    BY <1>2, <1>3 DEF Joins, Canceled, Superseded
  <1> HIDE DEF f
  <1>5. /\ invitations' \in Seq(InvitationRows)
        /\ DOMAIN invitations' = DOMAIN invitations
        /\ \A j \in DOMAIN invitations :
              /\ invitations'[j].shelter = invitations[j].shelter
              /\ invitations'[j].own = invitations[j].own
              /\ invitations'[j].expires = invitations[j].expires
              /\ j \in Pending(s) => invitations'[j].status # "pending"
              /\ j \notin Pending(s) =>
                   invitations'[j].status = invitations[j].status
        /\ Invited' = Invited
        /\ \A t : Pending(t)' = Pending(t) \ Pending(s)
    BY <1>3, <1>4, StatusFacts
  <1>6. RowTypes' /\ crossed \subseteq crossed'
    BY <1>1, <1>5, LineFacts, CrossedFacts DEF RowTypes, Joins
  <1>7. Pending(invitations[k].shelter)' = Pending(s)'
    BY <1>1, <1>5 DEF Pending
  <1>8. \A t \in Shelters \ {s} : Pending(t)' = Pending(t)
    <2>1. \A t \in Shelters \ {s} : Pending(t) \cap Pending(s) = {}
      BY DEF Pending
    <2> QED BY <1>5, <2>1
  <1> QED BY <1>1, <1>2, <1>5, <1>6, <1>7, <1>8

-----------------------------------------------------------------------------
(* What holds whatever overlaps.                                           *)

(* Rows are never lost, and what is given up is not taken back.            *)
Grows ==
  /\ crossed \subseteq crossed'
  /\ DOMAIN invitations \subseteq DOMAIN invitations'
  /\ \A k \in DOMAIN invitations :
       /\ invitations'[k].shelter = invitations[k].shelter
       /\ invitations'[k].own => invitations[k].own
  /\ \A s \in Shelters :
       organization[s] = "linked" => organization'[s] = "linked"

(* What a request in flight knows of itself.                               *)
LEMMA AtFacts ==
  ASSUME Base, NEW r \in Requests, req[r].pc # "idle"
  PROVE  /\ ReqInv(r)
         /\ req[r] \in RequestStates
         /\ req[r].op \in Ops
         /\ req[r].op.type \in {"invite", "resend", "remove"} =>
              Shelter(r) \in Shelters
         /\ req[r].now \in Nat /\ req[r].now <= clock
         /\ req[r].own \in BOOLEAN /\ req[r].again \in BOOLEAN
  BY DEF Base, ReqInv, RequestStates, Shelter

LEMMA RowsKept ==
  ASSUME Base, NEW r \in Requests, req[r].pc # "idle", Effect(r)
  PROVE  RowTypes' /\ LinkedInv' /\ MemberInv' /\ Grows
  <1>1. /\ RowTypes /\ LinkedInv /\ MemberInv /\ ReqInv(r)
        /\ req[r].now \in Nat
        /\ req[r].op.type \in {"invite", "resend", "remove"} =>
             Shelter(r) \in Shelters
    BY AtFacts DEF Base
  <1>2. CASE Stays
    <2>1. UNCHANGED <<account, member, grant, organization, invitations,
                      history, lastId, crossed>>
      BY <1>2 DEF Stays, Rows
    <2> QED
      BY <1>1, <2>1 DEF RowTypes, LinkedInv, MemberInv, Invited, Grows
  <1>3. CASE Erases
    <2>1. member' = None /\ organization' = organization
      BY <1>3 DEF Erases
    <2>2. LinkedInv' /\ Grows
      BY <1>1, <1>3, <2>1, EraseFacts DEF LinkedInv, Grows
    <2> QED BY <1>1, <1>3, <2>1, <2>2, EraseFacts DEF MemberInv
  <1>4. CASE Opens
    BY <1>1, <1>4 DEF Opens, RowTypes, LinkedInv, MemberInv, Invited, Grows
  <1>5. CASE Organizes
    <2>1. PICK s \in Shelters, step \in {"made", "linked"} :
            /\ organization[s] = "none" \/ step = "linked"
            /\ organization' = [organization EXCEPT ![s] = step]
      BY <1>5 DEF Organizes
    <2>2. UNCHANGED <<account, member, grant, invitations, history, lastId,
                      crossed>>
      BY <1>5 DEF Organizes
    <2>3. RowTypes'
      BY <1>1, <2>1, <2>2 DEF RowTypes
    <2>4. \A t \in Shelters :
            organization[t] = "linked" => organization'[t] = "linked"
      BY <1>1, <2>1 DEF RowTypes
    <2>5. LinkedInv'
      BY <1>1, <2>2, <2>4, RowShapes DEF LinkedInv
    <2> QED BY <1>1, <2>2, <2>3, <2>4, <2>5 DEF MemberInv, Invited, Grows
  <1>6. CASE /\ req[r].op.type = "invite"
             /\ Invites(Shelter(r), req[r].now)
    <2>1. UNCHANGED <<account, member, organization>>
          /\ organization[Shelter(r)] = "linked"
      BY <1>6 DEF Invites
    <2>2. RowTypes' /\ Grows /\ Invited \subseteq Invited'
      BY <1>1, <1>6, <2>1, InvitesFacts DEF Grows
    <2>3. LinkedInv'
      BY <1>1, <1>6, <2>1, InvitesFacts DEF LinkedInv
    <2> QED BY <1>1, <2>1, <2>2, <2>3 DEF MemberInv
  <1>7. CASE /\ req[r].op.type = "resend"
             /\ Renews(Shelter(r), req[r].invitation, req[r].now)
    <2>1. UNCHANGED <<account, member, organization>>
      BY <1>7 DEF Renews
    <2>2. /\ RowTypes' /\ Invited' = Invited /\ crossed \subseteq crossed'
          /\ DOMAIN invitations' = DOMAIN invitations
          /\ \A j \in DOMAIN invitations :
               /\ invitations'[j].shelter = invitations[j].shelter
               /\ invitations'[j].own = invitations[j].own
      BY <1>1, <1>7, RenewsFacts
    <2> QED BY <1>1, <2>1, <2>2 DEF LinkedInv, MemberInv, Grows
  <1>8. CASE req[r].op.type = "remove" /\ Removes(Shelter(r))
    <2>1. UNCHANGED <<account, grant, organization, invitations, lastId,
                      crossed>>
          /\ member' = None
      BY <1>8 DEF Removes
    <2>2. history' \in [Shelters -> Histories]
      BY <1>1, <1>8, LineFacts DEF Removes
    <2> QED BY <1>1, <2>1, <2>2 DEF RowTypes, LinkedInv, MemberInv, Grows
  <1>9. CASE req[r].op.type = "remove" /\ Withdraws(Shelter(r))
    <2>1. UNCHANGED <<account, member, organization>>
      BY <1>9 DEF Withdraws
    <2>2. /\ RowTypes' /\ Invited' = Invited /\ crossed \subseteq crossed'
          /\ DOMAIN invitations' = DOMAIN invitations
          /\ \A j \in DOMAIN invitations :
               /\ invitations'[j].shelter = invitations[j].shelter
               /\ invitations'[j].own = invitations[j].own
      BY <1>1, <1>9, WithdrawsFacts
    <2> QED BY <1>1, <2>1, <2>2 DEF LinkedInv, MemberInv, Grows
  <1>10. CASE Joins(req[r].invitation, req[r].now)
    <2>1. /\ UNCHANGED <<account, organization>> /\ account # None
          /\ member' = invitations[req[r].invitation].shelter
      BY <1>10 DEF Joins
    <2>2. /\ RowTypes' /\ Invited' = Invited /\ crossed \subseteq crossed'
          /\ invitations[req[r].invitation].shelter \in Invited
          /\ DOMAIN invitations' = DOMAIN invitations
          /\ \A j \in DOMAIN invitations :
               /\ invitations'[j].shelter = invitations[j].shelter
               /\ invitations'[j].own = invitations[j].own
      BY <1>1, <1>10, JoinsFacts
    <2> QED BY <1>1, <2>1, <2>2 DEF LinkedInv, MemberInv, Grows
  <1>11. CASE Grants \/ Revokes
    BY <1>1, <1>11 DEF Grants, Revokes, RowTypes, LinkedInv, MemberInv, Invited, Grows
  <1> QED
    BY <1>2, <1>3, <1>4, <1>5, <1>6, <1>7, <1>8, <1>9, <1>10, <1>11 DEF Effect

(* Another request still knows what it knew.                               *)
LEMMA OtherReqKept ==
  ASSUME Base, Grows, NEW q \in Requests, req'[q] = req[q],
         clock' = clock
  PROVE  ReqInv(q)'
  <1>1. ReqInv(q) /\ RowTypes
    BY DEF Base
  <1> QED BY <1>1 DEF ReqInv, Grows, Ops

LEMMA StepBase ==
  ASSUME Base, NEW r, Step(r)
  PROVE  Base'
  <1>1. /\ r \in Requests /\ req[r].pc # "idle" /\ Effect(r) /\ ReqInv(r)'
        /\ req' \in [Requests -> RequestStates]
        /\ \A q \in Requests \ {r} : req'[q] = req[q]
        /\ req'[r].pc = "idle" \/ req'[r].op = req[r].op
        /\ clock' = clock /\ started' = started
    BY DEF Step, OnlyStep
  <1>2. RowTypes' /\ LinkedInv' /\ MemberInv' /\ Grows
    BY <1>1, RowsKept
  <1>3. \A q \in Requests : ReqInv(q)'
    BY <1>1, <1>2, OtherReqKept
  <1> QED BY <1>1, <1>2, <1>3 DEF Base

LEMMA QuietBase ==
  ASSUME Base, Quiet
  PROVE  Base'
  <1>1. /\ UNCHANGED <<member, grant, organization, invitations, history,
                       lastId, crossed, req, started>>
        /\ account' \in Accounts \cup {None}
        /\ account' = None <=> account = None
    BY DEF Quiet
  <1>2. RowTypes' /\ LinkedInv' /\ MemberInv'
    BY <1>1 DEF Base, RowTypes, LinkedInv, MemberInv, Invited
  <1>3. clock \in Nat /\ clock' \in Nat /\ clock <= clock'
    BY DEF Base, Quiet
  <1>4. ASSUME NEW q \in Requests PROVE ReqInv(q)'
    <2>1. ReqInv(q) /\ req[q].now \in Nat
      BY DEF Base, RequestStates
    <2>2. req[q].now <= clock => req[q].now <= clock'
      BY <1>3, <2>1
    <2> QED BY <1>1, <2>1, <2>2 DEF ReqInv
  <1> QED BY <1>1, <1>2, <1>3, <1>4 DEF Base

LEMMA BeginsBase ==
  ASSUME Base, NEW r, Begins(r)
  PROVE  Base'
  <1>1. /\ r \in Requests /\ ReqInv(r)' /\ Stays
        /\ req' \in [Requests -> RequestStates]
        /\ \A q \in Requests \ {r} : req'[q] = req[q]
        /\ clock' = clock /\ started' \in Nat
    BY DEF Begins
  <1>2. UNCHANGED <<account, member, grant, organization, invitations,
                    history, lastId, crossed>>
    BY <1>1 DEF Stays, Rows
  <1>3. RowTypes' /\ LinkedInv' /\ MemberInv' /\ Grows
    BY <1>2 DEF Base, RowTypes, LinkedInv, MemberInv, Invited, Grows
  <1>4. \A q \in Requests : ReqInv(q)'
    BY <1>1, <1>3, OtherReqKept
  <1> QED BY <1>1, <1>3, <1>4 DEF Base

-----------------------------------------------------------------------------
(* Every statement of every request is such a step.                        *)

LEMMA IdleShape ==
  Idle \in RequestStates /\ Idle.pc = "idle"
  BY DEF Idle, RequestStates

LEMMA EndsStep ==
  ASSUME Base, NEW r \in Requests, req[r].pc # "idle", Effect(r), Ends(r),
         UNCHANGED <<clock, started>>
  PROVE  Step(r)
  <1>1. req \in [Requests -> RequestStates]
    BY DEF Base
  <1>2. req'[r].pc = "idle" /\ OnlyStep(r)
    BY <1>1, IdleShape DEF Ends, OnlyStep
  <1>3. ReqInv(r)' /\ Enters(r)
    BY <1>2 DEF ReqInv, Enters, Found
  <1> QED BY <1>2, <1>3 DEF Step

(* Where a request knows nothing yet that a later statement relies on.     *)
Plain == {"clean", "user", "org", "make", "link", "find", "create", "erase"}

LEMMA GoesShape ==
  ASSUME Base, NEW r \in Requests,
         NEW pc \in Plain \cup {"plan", "load", "roles", "elsewhere", "write"},
         Goes(r, pc), UNCHANGED <<clock, started>>
  PROVE  /\ OnlyStep(r)
         /\ req'[r].pc = pc /\ req'[r].op = req[r].op
         /\ req'[r].now = req[r].now /\ req'[r].again = req[r].again
         /\ req'[r].user = req[r].user /\ req'[r].own = req[r].own
         /\ req'[r].invitation = req[r].invitation
  BY DEF Base, Goes, OnlyStep, RequestStates, Plain

LEMMA GoesStep ==
  ASSUME Base, NEW r \in Requests, req[r].pc # "idle", Effect(r),
         NEW pc \in Plain, Goes(r, pc), UNCHANGED <<clock, started>>,
         pc = "clean" => req[r].op.type = "remove"
  PROVE  Step(r)
  <1>1. /\ OnlyStep(r)
        /\ req'[r].pc = pc /\ req'[r].op = req[r].op
        /\ req'[r].now = req[r].now /\ req'[r].again = req[r].again
        /\ req'[r].own = req[r].own
    BY GoesShape
  <1>2. pc \notin Found /\ pc # "roles" /\ pc # "write" /\ pc # "elsewhere"
    BY DEF Plain, Found
  <1>3. Enters(r)
    BY <1>1, <1>2 DEF Enters
  <1>4. ReqInv(r) /\ Grows
    BY RowsKept, AtFacts
  <1>5. ReqInv(r)'
    BY <1>1, <1>2, <1>4 DEF ReqInv, Grows, Cleaning
  <1> QED BY <1>1, <1>3, <1>5 DEF Step

LEMMA StaysEffect ==
  ASSUME NEW r, UNCHANGED Rows
  PROVE  Effect(r)
  BY DEF Effect, Stays

(* What a request found expired when it arrived is expired now.            *)
LEMMA ErasableStill ==
  ASSUME Base, NEW r \in Requests, req[r].pc # "idle", Erasable(req[r].now)
  PROVE  LiveTo(Shelters, TRUE, clock) = {}
  <1>1. req[r].now \in Nat /\ req[r].now <= clock /\ clock \in Nat /\ RowTypes
    BY AtFacts DEF Base, ReqInv, RequestStates
  <1>2. LiveTo(Shelters, TRUE, clock) \subseteq LiveTo(Shelters, TRUE, req[r].now)
    BY <1>1, RowShapes DEF LiveTo, Live
  <1> QED BY <1>2 DEF Erasable

LEMMA CleansStep ==
  ASSUME Base, NEW r \in Requests, Cleans(r)
  PROVE  Step(r)
  <1>1. /\ req[r].pc = "clean"
        /\ UNCHANGED <<member, grant, organization, lastId, clock, started>>
        /\ CleanUp(Scope(req[r].op), req[r].now)
        /\ Ends(r) \/ Goes(r, "user") \/ Goes(r, "find")
    BY DEF Cleans
  <1>2. Stays \/ Erases
    BY <1>1, ErasableStill DEF CleanUp, Erases, Erasable, Stays, Rows
  <1>3. req[r].op.type \in Cleaning
    BY <1>1, AtFacts DEF ReqInv
  <1>4. Effect(r)
    BY <1>2, <1>3 DEF Effect
  <1> QED BY <1>1, <1>4, EndsStep, GoesStep DEF Plain

LEMMA ChecksRolesStep ==
  ASSUME Base, NEW r \in Requests, ChecksRoles(r)
  PROVE  Step(r)
  <1>1. /\ req[r].pc = "roles"
        /\ UNCHANGED <<Rows, clock, started>>
    BY DEF ChecksRoles
  <1>2. Effect(r) /\ Stays
    BY <1>1, StaysEffect DEF Stays
  <1>3. CASE Ends(r)
    BY <1>1, <1>2, <1>3, EndsStep
  <1>4. CASE Goes(r, "elsewhere") /\ ~HasRole(req[r].user)
    <2>1. /\ OnlyStep(r)
          /\ req'[r].pc = "elsewhere" /\ req'[r].op = req[r].op
          /\ req'[r].now = req[r].now /\ req'[r].again = req[r].again
          /\ req'[r].own = req[r].own /\ req'[r].invitation = req[r].invitation
      BY <1>1, <1>4, GoesShape
    <2>2. ReqInv(r) /\ Grows
      BY <1>1, <1>2, AtFacts, RowsKept
    <2>3. req[r].op.type \in {"invite", "resend"}
      BY <1>1, <2>2 DEF ReqInv
    <2>4. Enters(r)
      BY <1>1, <1>2, <1>4, <2>1, <2>3 DEF Enters, Found
    <2>5. ReqInv(r)'
      BY <1>1, <2>1, <2>2, <2>3 DEF ReqInv, Grows, Found
    <2> QED BY <1>1, <1>2, <2>1, <2>4, <2>5 DEF Step
  <1> QED BY <1>3, <1>4 DEF ChecksRoles

LEMMA ChecksElsewhereStep ==
  ASSUME Base, NEW r \in Requests, ChecksElsewhere(r)
  PROVE  Step(r)
  <1>1. /\ req[r].pc = "elsewhere" /\ req[r].op.type \in {"invite", "resend"}
        /\ UNCHANGED <<Rows, clock, started>>
    BY DEF ChecksElsewhere, At
  <1>2. Effect(r) /\ Stays
    BY <1>1, StaysEffect DEF Stays
  <1>3. CASE Ends(r)
    BY <1>1, <1>2, <1>3, EndsStep
  <1>4. CASE Goes(r, "org")
    BY <1>1, <1>2, <1>4, GoesStep DEF Plain
  <1>5. CASE /\ Goes(r, "write")
             /\ LiveTo(Elsewhere(req[r].op), req[r].own, req[r].now) = {}
             /\ req[r].op.type = "invite" => req[r].again
    <2>1. /\ OnlyStep(r)
          /\ req'[r].pc = "write" /\ req'[r].op = req[r].op
          /\ req'[r].now = req[r].now /\ req'[r].again = req[r].again
          /\ req'[r].own = req[r].own /\ req'[r].invitation = req[r].invitation
      BY <1>1, <1>5, GoesShape
    <2>2. ReqInv(r) /\ Grows
      BY <1>1, <1>2, AtFacts, RowsKept
    <2>3. Enters(r)
      BY <1>1, <1>2, <1>5, <2>1 DEF Enters, Found
    <2>4. ReqInv(r)'
      BY <1>1, <1>5, <2>1, <2>2 DEF ReqInv, Grows, Found
    <2> QED BY <1>1, <1>2, <2>1, <2>3, <2>4 DEF Step
  <1> QED BY <1>3, <1>4, <1>5 DEF ChecksElsewhere

(* A request that moves and changes what it holds besides.                 *)
LEMMA MovesShape ==
  ASSUME Base, NEW r \in Requests, NEW new \in RequestStates,
         req' = [req EXCEPT ![r] = new], new.op = req[r].op,
         UNCHANGED <<clock, started>>
  PROVE  OnlyStep(r) /\ req'[r] = new
  BY DEF Base, OnlyStep

LEMMA InviteLooksUpStep ==
  ASSUME Base, NEW r \in Requests, InviteLooksUp(r)
  PROVE  Step(r)
  <1> DEFINE new == [req[r] EXCEPT !.pc = "roles", !.user = AccountId,
                                   !.existing = IF req[r].again THEN @
                                                               ELSE AccountId]
  <1>1. /\ req[r].pc = "user" /\ req[r].op.type = "invite"
        /\ req' = [req EXCEPT ![r] = new]
        /\ UNCHANGED <<Rows, clock, started>>
    BY DEF InviteLooksUp, At
  <1>2. /\ Effect(r) /\ Stays
        /\ UNCHANGED <<account, organization, invitations>>
    BY <1>1, StaysEffect DEF Stays, Rows
  <1>3. ReqInv(r) /\ Grows /\ req[r] \in RequestStates
    BY <1>1, <1>2, AtFacts, RowsKept
  <1>4. AccountId \in Nat \cup {None} /\ AccountId' = AccountId
    BY <1>2, RowShapes, SameRows DEF Base
  <1>5. /\ new \in RequestStates /\ new.pc = "roles" /\ new.op = req[r].op
        /\ new.user = AccountId /\ new.own = req[r].own
        /\ new.now = req[r].now /\ new.again = req[r].again
    BY <1>3, <1>4 DEF RequestStates
  <1> HIDE DEF new
  <1>6. OnlyStep(r) /\ req'[r] = new
    BY <1>1, <1>5, MovesShape
  <1>7. Enters(r)
    BY <1>1, <1>2, <1>4, <1>5, <1>6 DEF Enters
  <1>8. ReqInv(r)'
    BY <1>1, <1>3, <1>5, <1>6 DEF ReqInv, Grows
  <1> QED BY <1>1, <1>2, <1>6, <1>7, <1>8 DEF Step

(* An invite whose shelter has its organization starts over.               *)
LEMMA AgainStep ==
  ASSUME Base, NEW r \in Requests, req[r].pc # "idle",
         req[r].op.type = "invite", Effect(r),
         organization'[Shelter(r)] = "linked",
         req' = [req EXCEPT ![r].pc = "user", ![r].again = TRUE],
         UNCHANGED <<clock, started>>
  PROVE  Step(r)
  <1> DEFINE new == [req[r] EXCEPT !.pc = "user", !.again = TRUE]
  <1>1. ReqInv(r) /\ Grows /\ req[r] \in RequestStates
    BY AtFacts, RowsKept
  <1>2. /\ new \in RequestStates /\ new.pc = "user" /\ new.op = req[r].op
        /\ new.own = req[r].own /\ new.now = req[r].now
    BY <1>1 DEF RequestStates
  <1>3. req' = [req EXCEPT ![r] = new]
    OBVIOUS
  <1> HIDE DEF new
  <1>4. OnlyStep(r) /\ req'[r] = new
    BY <1>2, <1>3, MovesShape
  <1>5. Enters(r)
    BY <1>2, <1>4 DEF Enters, Found
  <1>6. ReqInv(r)'
    BY <1>1, <1>2, <1>4 DEF ReqInv, Grows, Shelter
  <1> QED BY <1>4, <1>5, <1>6 DEF Step

LEMMA OrganizationStep ==
  ASSUME Base, NEW r \in Requests,
         \/ InviteFindsOrganization(r) \/ InviteMakesOrganization(r)
         \/ InviteLinksOrganization(r)
  PROVE  Step(r)
  <1>1. /\ req[r].pc # "idle" /\ req[r].op.type = "invite"
        /\ UNCHANGED <<clock, started>>
    BY DEF InviteFindsOrganization, InviteMakesOrganization,
           InviteLinksOrganization, At
  <1>2. Shelter(r) \in Shelters /\ organization \in [Shelters -> {"none", "made", "linked"}]
    BY <1>1, AtFacts DEF Base, RowTypes
  <1>3. CASE InviteFindsOrganization(r)
    <2>1. Effect(r) /\ organization' = organization
      BY <1>3, StaysEffect DEF InviteFindsOrganization, Rows
    <2>2. \/ /\ organization[Shelter(r)] = "linked"
             /\ req' = [req EXCEPT ![r].pc = "user", ![r].again = TRUE]
          \/ Goes(r, "make")
      BY <1>3 DEF InviteFindsOrganization
    <2> QED BY <1>1, <2>1, <2>2, AgainStep, GoesStep DEF Plain
  <1>4. CASE InviteMakesOrganization(r)
    <2>1. UNCHANGED <<account, member, grant, invitations, history, lastId,
                      crossed>>
      BY <1>4 DEF InviteMakesOrganization
    <2>2. CASE organization[Shelter(r)] = "none"
      <3>1. /\ organization' = [organization EXCEPT ![Shelter(r)] = "made"]
            /\ Goes(r, "link")
        BY <1>4, <2>2 DEF InviteMakesOrganization
      <3>2. Effect(r)
        BY <1>1, <1>2, <2>1, <2>2, <3>1 DEF Effect, Organizes
      <3> QED BY <1>1, <3>1, <3>2, GoesStep DEF Plain
    <2>3. CASE organization[Shelter(r)] # "none"
      <3>1. Ends(r) /\ organization' = organization
        BY <1>4, <2>3 DEF InviteMakesOrganization
      <3>2. Effect(r)
        BY <2>1, <3>1, StaysEffect DEF Rows
      <3> QED BY <1>1, <3>1, <3>2, EndsStep
    <2> QED BY <2>2, <2>3
  <1>5. CASE InviteLinksOrganization(r)
    <2>1. /\ UNCHANGED <<account, member, grant, invitations, history, lastId,
                         crossed>>
          /\ organization' = [organization EXCEPT ![Shelter(r)] = "linked"]
          /\ req' = [req EXCEPT ![r].pc = "user", ![r].again = TRUE]
      BY <1>5 DEF InviteLinksOrganization
    <2>2. Effect(r)
      BY <1>1, <1>2, <2>1 DEF Effect, Organizes
    <2>3. organization'[Shelter(r)] = "linked"
      BY <1>2, <2>1
    <2> QED BY <1>1, <2>1, <2>2, <2>3, AgainStep
  <1> QED BY <1>3, <1>4, <1>5

LEMMA InviteWritesStep ==
  ASSUME Base, NEW r \in Requests, InviteWrites(r)
  PROVE  Step(r)
  <1>1. /\ req[r].pc = "write" /\ req[r].op.type = "invite"
        /\ invitations' = Append(invitations,
                           [shelter |-> Shelter(r), status |-> "pending",
                            expires |-> Expiry(req[r].now),
                            created |-> req[r].now, own |-> TRUE])
        /\ Line(Shelter(r), "invited") /\ AskCrosses(Shelter(r))
        /\ Goes(r, "create") \/ Ends(r)
        /\ UNCHANGED <<account, member, grant, organization, lastId, clock,
                       started>>
    BY DEF InviteWrites, At
  <1>2. organization[Shelter(r)] = "linked"
    BY <1>1, AtFacts DEF ReqInv, Shelter
  <1>3. Invites(Shelter(r), req[r].now)
    BY <1>1, <1>2 DEF Invites
  <1>4. Effect(r)
    BY <1>1, <1>3 DEF Effect
  <1> QED BY <1>1, <1>4, EndsStep, GoesStep DEF Plain

LEMMA InviteCreatesAccountStep ==
  ASSUME Base, NEW r \in Requests, InviteCreatesAccount(r)
  PROVE  Step(r)
  <1>1. /\ req[r].pc # "idle" /\ req[r].op.type = "invite" /\ Ends(r)
        /\ UNCHANGED <<member, grant, organization, invitations, history,
                       crossed, clock, started>>
    BY DEF InviteCreatesAccount, At
  <1>2. CASE account = None
    <2>1. /\ account' = [id |-> lastId + 1, verified |-> FALSE,
                         createdFor |-> Shelter(r)]
          /\ lastId' = lastId + 1
      BY <1>2 DEF InviteCreatesAccount
    <2>2. lastId \in Nat /\ Shelter(r) \in Shelters
      BY <1>1, AtFacts DEF Base, RowTypes
    <2>3. account' \in Accounts /\ lastId' \in Nat
      BY <2>1, <2>2 DEF Accounts
    <2>4. Effect(r)
      BY <1>1, <1>2, <2>3 DEF Effect, Opens
    <2> QED BY <1>1, <2>4, EndsStep
  <1>3. CASE account # None
    <2>1. UNCHANGED <<account, lastId>>
      BY <1>3 DEF InviteCreatesAccount
    <2>2. Effect(r)
      BY <1>1, <2>1, StaysEffect DEF Rows
    <2> QED BY <1>1, <2>2, EndsStep
  <1> QED BY <1>2, <1>3

LEMMA ResendFindsStep ==
  ASSUME Base, NEW r \in Requests, ResendFinds(r)
  PROVE  Step(r)
  <1>1. /\ req[r].pc = "find" /\ req[r].op.type = "resend"
        /\ UNCHANGED <<Rows, clock, started>>
    BY DEF ResendFinds, At
  <1>2. Effect(r) /\ Stays
    BY <1>1, StaysEffect DEF Stays
  <1>3. CASE Ends(r)
    BY <1>1, <1>2, <1>3, EndsStep
  <1>4. CASE \E k \in Newest(Pending(Shelter(r))) :
               req' = [req EXCEPT ![r].pc = "load", ![r].invitation = k]
    <2>1. PICK k \in Pending(Shelter(r)) :
            req' = [req EXCEPT ![r].pc = "load", ![r].invitation = k]
      BY <1>4 DEF Newest
    <2> DEFINE new == [req[r] EXCEPT !.pc = "load", !.invitation = k]
    <2>2. ReqInv(r) /\ Grows /\ req[r] \in RequestStates
      BY <1>1, <1>2, AtFacts, RowsKept
    <2>3. /\ k \in Nat /\ k \in DOMAIN invitations
          /\ invitations[k].shelter = Shelter(r)
      BY RowShapes DEF Base, Pending
    <2>4. /\ new \in RequestStates /\ new.pc = "load" /\ new.op = req[r].op
          /\ new.invitation = k /\ new.now = req[r].now
      BY <2>2, <2>3 DEF RequestStates
    <2>5. req' = [req EXCEPT ![r] = new]
      BY <2>1
    <2> HIDE DEF new
    <2>6. OnlyStep(r) /\ req'[r] = new
      BY <1>1, <2>4, <2>5, MovesShape
    <2>7. Enters(r)
      BY <1>1, <1>2, <2>1, <2>4, <2>6 DEF Enters
    <2>8. ReqInv(r)'
      BY <1>1, <2>2, <2>3, <2>4, <2>6 DEF ReqInv, Grows, Shelter
    <2> QED BY <1>1, <1>2, <2>6, <2>7, <2>8 DEF Step
  <1> QED BY <1>3, <1>4 DEF ResendFinds

LEMMA ResendLoadsStep ==
  ASSUME Base, NEW r \in Requests, ResendLoads(r)
  PROVE  Step(r)
  <1> DEFINE i == invitations[req[r].invitation]
             new == [req[r] EXCEPT !.pc = "roles", !.own = i.own,
                       !.user = IF i.own THEN AccountId ELSE None]
  <1>1. /\ req[r].pc = "load" /\ req[r].op.type = "resend"
        /\ UNCHANGED <<Rows, clock, started>>
        /\ Ends(r) \/ req' = [req EXCEPT ![r] = new]
    BY DEF ResendLoads, At
  <1>2. Effect(r) /\ Stays /\ invitations' = invitations
    BY <1>1, StaysEffect DEF Stays, Rows
  <1>3. CASE Ends(r)
    BY <1>1, <1>2, <1>3, EndsStep
  <1>4. CASE req' = [req EXCEPT ![r] = new]
    <2>1. ReqInv(r) /\ Grows /\ req[r] \in RequestStates
      BY <1>1, <1>2, AtFacts, RowsKept
    <2>2. req[r].invitation \in DOMAIN invitations
      BY <1>1, <2>1 DEF ReqInv, Found
    <2>3. i.own \in BOOLEAN /\ AccountId \in Nat \cup {None}
      BY <2>2, RowShapes DEF Base
    <2>4. /\ new \in RequestStates /\ new.pc = "roles" /\ new.op = req[r].op
          /\ new.invitation = req[r].invitation /\ new.now = req[r].now
          /\ new.own = invitations[req[r].invitation].own
      BY <2>1, <2>3 DEF RequestStates
    <2> HIDE DEF new
    <2>5. OnlyStep(r) /\ req'[r] = new
      BY <1>1, <1>4, <2>4, MovesShape
    <2>6. Enters(r)
      BY <1>1, <1>2, <2>4, <2>5 DEF Enters, Found
    <2>7. ReqInv(r)'
      BY <1>1, <1>2, <2>1, <2>4, <2>5 DEF ReqInv, Found
    <2> QED BY <1>1, <1>2, <2>5, <2>6, <2>7 DEF Step
  <1> QED BY <1>1, <1>3, <1>4

LEMMA ResendWritesStep ==
  ASSUME Base, NEW r \in Requests, ResendWrites(r)
  PROVE  Step(r)
  <1> DEFINE k == req[r].invitation
  <1>1. /\ req[r].pc = "write" /\ req[r].op.type = "resend" /\ Ends(r)
        /\ UNCHANGED <<account, member, grant, organization, lastId, clock,
                       started>>
    BY DEF ResendWrites, At
  <1>2. k \in DOMAIN invitations /\ invitations[k].shelter = Shelter(r)
    BY <1>1, AtFacts DEF ReqInv, Found, Shelter
  <1>3. CASE invitations[k].status = "pending"
    <2>1. /\ invitations' = [invitations EXCEPT
                               ![k].expires = Expiry(req[r].now)]
          /\ Line(Shelter(r), "resent") /\ AskCrosses(Shelter(r))
      BY <1>3 DEF ResendWrites
    <2>2. Renews(Shelter(r), k, req[r].now)
      BY <1>1, <1>2, <1>3, <2>1 DEF Renews
    <2>3. Effect(r)
      BY <1>1, <2>2 DEF Effect
    <2> QED BY <1>1, <2>3, EndsStep
  <1>4. CASE invitations[k].status # "pending"
    <2>1. UNCHANGED <<invitations, history, crossed>>
      BY <1>4 DEF ResendWrites
    <2>2. Effect(r)
      BY <1>1, <2>1, StaysEffect DEF Rows
    <2> QED BY <1>1, <2>2, EndsStep
  <1> QED BY <1>3, <1>4

(* A removal or an accept comes to its write, and asks again there.        *)
LEMMA ReadyStep ==
  ASSUME Base, NEW r \in Requests, req[r].pc # "idle",
         req[r].op.type \in {"remove", "accept"}, UNCHANGED Rows,
         NEW new \in RequestStates, req' = [req EXCEPT ![r] = new],
         new.pc = "write", new.op = req[r].op, new.now = req[r].now,
         UNCHANGED <<clock, started>>
  PROVE  Step(r)
  <1>1. Effect(r) /\ ReqInv(r)
    BY StaysEffect, AtFacts
  <1>2. OnlyStep(r) /\ req'[r] = new
    BY MovesShape
  <1>3. Enters(r)
    BY <1>2 DEF Enters
  <1>4. ReqInv(r)'
    BY <1>1, <1>2 DEF ReqInv
  <1> QED BY <1>1, <1>2, <1>3, <1>4 DEF Step

LEMMA RemoveFindsStep ==
  ASSUME Base, NEW r \in Requests, RemoveFinds(r)
  PROVE  Step(r)
  <1> DEFINE new == [req[r] EXCEPT !.pc = "write",
                                   !.joined = (member = Shelter(r))]
  <1>1. /\ req[r].pc = "find" /\ req[r].op.type = "remove"
        /\ UNCHANGED <<Rows, clock, started>>
        /\ Ends(r) \/ req' = [req EXCEPT ![r] = new]
    BY DEF RemoveFinds, At
  <1>2. CASE Ends(r)
    BY <1>1, <1>2, StaysEffect, EndsStep
  <1>3. CASE req' = [req EXCEPT ![r] = new]
    <2>1. /\ new \in RequestStates /\ new.pc = "write" /\ new.op = req[r].op
          /\ new.now = req[r].now
      BY <1>1, AtFacts DEF RequestStates
    <2> HIDE DEF new
    <2> QED BY <1>1, <1>3, <2>1, ReadyStep
  <1> QED BY <1>1, <1>2, <1>3

LEMMA RemovesMemberStep ==
  ASSUME Base, NEW r \in Requests, RemovesMember(r)
  PROVE  Step(r)
  <1>1. /\ req[r].pc # "idle" /\ req[r].op.type = "remove"
        /\ UNCHANGED <<account, grant, organization, invitations, lastId,
                       crossed, clock, started>>
    BY DEF RemovesMember, At
  <1>2. CASE /\ member = Shelter(r) /\ member' = None
             /\ Line(Shelter(r), "removed") /\ Goes(r, "erase")
    <2>1. Removes(Shelter(r))
      BY <1>1, <1>2 DEF Removes
    <2>2. Effect(r)
      BY <1>1, <2>1 DEF Effect
    <2> QED BY <1>1, <1>2, <2>2, GoesStep DEF Plain
  <1>3. CASE Ends(r) /\ UNCHANGED <<member, history>>
    <2>1. Effect(r)
      BY <1>1, <1>3, StaysEffect DEF Rows
    <2> QED BY <1>1, <1>3, <2>1, EndsStep
  <1> QED BY <1>2, <1>3 DEF RemovesMember

LEMMA WithdrawsPendingStep ==
  ASSUME Base, NEW r \in Requests, WithdrawsPending(r)
  PROVE  Step(r)
  <1>1. /\ req[r].pc # "idle" /\ req[r].op.type = "remove"
        /\ UNCHANGED <<account, member, grant, organization, lastId, crossed,
                       clock, started>>
    BY DEF WithdrawsPending, At
  <1>2. CASE /\ Pending(Shelter(r)) # {}
             /\ invitations' = Canceled(Withdrawn(Shelter(r)))
             /\ Line(Shelter(r), "removed") /\ Goes(r, "clean")
    <2>1. Withdraws(Shelter(r))
      BY <1>1, <1>2 DEF Withdraws
    <2>2. Effect(r)
      BY <1>1, <2>1 DEF Effect
    <2> QED BY <1>1, <1>2, <2>2, GoesStep DEF Plain
  <1>3. CASE Ends(r) /\ UNCHANGED <<invitations, history>>
    <2>1. Effect(r)
      BY <1>1, <1>3, StaysEffect DEF Rows
    <2> QED BY <1>1, <1>3, <2>1, EndsStep
  <1> QED BY <1>2, <1>3 DEF WithdrawsPending

LEMMA RemoveErasesStep ==
  ASSUME Base, NEW r \in Requests, RemoveErases(r)
  PROVE  Step(r)
  <1>1. /\ req[r].pc # "idle" /\ req[r].op.type = "remove"
        /\ Goes(r, "clean")
        /\ UNCHANGED <<member, grant, organization, lastId, clock, started>>
    BY DEF RemoveErases, At
  <1>2. Stays \/ Erases
    BY <1>1, ErasableStill DEF RemoveErases, Erases, Erasable, Stays, Rows
  <1>3. Effect(r)
    BY <1>1, <1>2 DEF Effect, Cleaning
  <1> QED BY <1>1, <1>3, GoesStep DEF Plain

LEMMA AcceptPlansStep ==
  ASSUME Base, NEW r \in Requests, AcceptPlans(r)
  PROVE  Step(r)
  <1>1. /\ req[r].pc = "plan" /\ req[r].op.type = "accept"
        /\ UNCHANGED <<Rows, clock, started>>
    BY DEF AcceptPlans, At
  <1>2. CASE Ends(r)
    BY <1>1, <1>2, StaysEffect, EndsStep
  <1>3. CASE \E k \in Newest(Acceptable(req[r].now)) :
               req' = [req EXCEPT ![r].pc = "write", ![r].invitation = k]
    <2>1. PICK k \in Acceptable(req[r].now) :
            req' = [req EXCEPT ![r].pc = "write", ![r].invitation = k]
      BY <1>3 DEF Newest
    <2> DEFINE new == [req[r] EXCEPT !.pc = "write", !.invitation = k]
    <2>2. k \in Nat
      BY RowShapes DEF Base, Acceptable, LiveTo
    <2>3. /\ new \in RequestStates /\ new.pc = "write" /\ new.op = req[r].op
          /\ new.now = req[r].now
      BY <1>1, <2>2, AtFacts DEF RequestStates
    <2>4. req' = [req EXCEPT ![r] = new]
      BY <2>1
    <2> HIDE DEF new
    <2> QED BY <1>1, <2>3, <2>4, ReadyStep
  <1> QED BY <1>2, <1>3 DEF AcceptPlans

LEMMA AcceptWritesStep ==
  ASSUME Base, NEW r \in Requests, AcceptWrites(r)
  PROVE  Step(r)
  <1> DEFINE k == req[r].invitation
  <1>1. /\ req[r].pc # "idle" /\ req[r].op.type = "accept" /\ Ends(r)
        /\ UNCHANGED <<account, grant, organization, lastId, clock, started>>
    BY DEF AcceptWrites, At
  <1>2. CASE AcceptMatches(r)
    <2>1. /\ invitations' = [Canceled(Superseded(k))
                               EXCEPT ![k].status = "accepted"]
          /\ member' = invitations[k].shelter
          /\ Line(invitations[k].shelter, "joined")
          /\ JoinCrosses(invitations[k].shelter)
      BY <1>2 DEF AcceptWrites
    <2>2. Joins(k, req[r].now)
      BY <1>1, <1>2, <2>1 DEF Joins, AcceptMatches
    <2>3. Effect(r)
      BY <1>1, <2>2 DEF Effect
    <2> QED BY <1>1, <2>3, EndsStep
  <1>3. CASE ~AcceptMatches(r)
    <2>1. UNCHANGED <<invitations, member, history, crossed>>
      BY <1>3 DEF AcceptWrites
    <2>2. Effect(r)
      BY <1>1, <2>1, StaysEffect DEF Rows
    <2> QED BY <1>1, <2>2, EndsStep
  <1> QED BY <1>2, <1>3

LEMMA GrantReadsStep ==
  ASSUME Base, NEW r \in Requests, GrantFinds(r) \/ GrantLooksForInvitation(r)
  PROVE  Step(r)
  <1>1. /\ req[r].pc # "idle" /\ req[r].op.type = "grant"
        /\ UNCHANGED <<Rows, clock, started>>
    BY DEF GrantFinds, GrantLooksForInvitation, At
  <1>2. Effect(r) /\ Stays
    BY <1>1, StaysEffect DEF Stays
  <1>3. CASE Ends(r)
    BY <1>1, <1>2, <1>3, EndsStep
  <1>4. CASE \E pc \in {"elsewhere", "write"}, user \in {req[r].user, AccountId} \ {None} :
               /\ req' = [req EXCEPT ![r].pc = pc, ![r].user = user]
               /\ member = None \/ req[r].pc = "elsewhere"
    <2>1. PICK pc \in {"elsewhere", "write"},
               user \in {req[r].user, AccountId} \ {None} :
            /\ req' = [req EXCEPT ![r].pc = pc, ![r].user = user]
            /\ member = None \/ req[r].pc = "elsewhere"
      BY <1>4
    <2> DEFINE new == [req[r] EXCEPT !.pc = pc, !.user = user]
    <2>2. ReqInv(r) /\ req[r] \in RequestStates
      BY <1>1, AtFacts
    <2>3. AccountId \in Nat \cup {None}
      BY RowShapes DEF Base
    <2>4. /\ new \in RequestStates /\ new.pc = pc /\ new.op = req[r].op
          /\ new.now = req[r].now /\ new.user # None
      BY <2>1, <2>2, <2>3 DEF RequestStates
    <2>5. req' = [req EXCEPT ![r] = new]
      BY <2>1
    <2> HIDE DEF new
    <2>6. OnlyStep(r) /\ req'[r] = new
      BY <1>1, <2>4, <2>5, MovesShape
    <2>7. Enters(r)
      BY <1>1, <1>2, <2>1, <2>4, <2>6 DEF Enters
    <2>8. ReqInv(r)'
      BY <1>1, <2>1, <2>2, <2>4, <2>6 DEF ReqInv
    <2> QED BY <1>1, <1>2, <2>6, <2>7, <2>8 DEF Step
  <1>5. Ends(r) \/ \E pc \in {"elsewhere", "write"},
                       user \in {req[r].user, AccountId} \ {None} :
                     /\ req' = [req EXCEPT ![r].pc = pc, ![r].user = user]
                     /\ member = None \/ req[r].pc = "elsewhere"
    <2>1. CASE GrantFinds(r)
      <3>1. account # None => AccountId # None
        BY RowShapes DEF Base
      <3> QED BY <2>1, <3>1 DEF GrantFinds, MayBeOperator
    <2>2. CASE GrantLooksForInvitation(r)
      <3>1. /\ req[r].pc = "elsewhere" /\ req[r] \in RequestStates
            /\ req[r].user # None
        BY <1>1, <2>2, AtFacts DEF GrantLooksForInvitation, At, ReqInv
      <3>2. Goes(r, "write") =>
              req' = [req EXCEPT ![r].pc = "write", ![r].user = req[r].user]
        BY <3>1 DEF Goes, Base, RequestStates
      <3> QED BY <2>2, <3>1, <3>2 DEF GrantLooksForInvitation
    <2> QED BY <2>1, <2>2
  <1> QED BY <1>3, <1>4, <1>5

LEMMA GrantWritesStep ==
  ASSUME Base, NEW r \in Requests, GrantWrites(r) \/ RevokeWrites(r)
  PROVE  Step(r)
  <1>1. /\ req[r].pc = "write" /\ req[r].op.type \in {"grant", "revoke"}
        /\ Ends(r)
        /\ UNCHANGED <<account, member, organization, invitations, history,
                       lastId, crossed, clock, started>>
    BY DEF GrantWrites, RevokeWrites, At
  <1>2. CASE UNCHANGED grant
    <2>1. UNCHANGED Rows
      BY <1>1, <1>2 DEF Rows
    <2> QED BY <1>1, <2>1, StaysEffect, EndsStep
  <1>3. CASE GrantWrites(r) /\ grant' # grant
    <2>1. /\ req[r].op.type = "grant" /\ grant' = "active"
          /\ req[r].user = AccountId
      BY <1>3 DEF GrantWrites, At
    <2>2. AccountId # None => account # None
      BY DEF AccountId
    <2>3. req[r].user # None
      BY <1>1, <2>1, AtFacts DEF ReqInv
    <2>4. Effect(r)
      BY <1>1, <2>1, <2>2, <2>3 DEF Effect, Grants
    <2> QED BY <1>1, <2>4, EndsStep
  <1>4. CASE RevokeWrites(r) /\ grant' # grant
    <2>1. req[r].op.type = "revoke" /\ grant = "active" /\ grant' = "revoked"
      BY <1>4 DEF RevokeWrites, At
    <2>2. Effect(r)
      BY <1>1, <2>1 DEF Effect, Revokes
    <2> QED BY <1>1, <2>2, EndsStep
  <1> QED BY <1>2, <1>3, <1>4

LEMMA ServeStep ==
  ASSUME Base, NEW r \in Requests, Serve(r) \/ Dies(r)
  PROVE  Step(r)
  <1>1. CASE Dies(r)
    <2>1. /\ req[r].pc # "idle" /\ Ends(r)
          /\ UNCHANGED <<Rows, clock, started>>
      BY <1>1 DEF Dies
    <2> QED BY <2>1, StaysEffect, EndsStep
  <1>2. CASE Serve(r)
    BY <1>2, CleansStep, ChecksRolesStep, ChecksElsewhereStep,
       InviteLooksUpStep, OrganizationStep, InviteWritesStep,
       InviteCreatesAccountStep, ResendFindsStep, ResendLoadsStep,
       ResendWritesStep, RemoveFindsStep, RemovesMemberStep,
       WithdrawsPendingStep, RemoveErasesStep, AcceptPlansStep,
       AcceptWritesStep, GrantReadsStep, GrantWritesStep
       DEF Serve
  <1> QED BY <1>1, <1>2

LEMMA ArrivesBegins ==
  ASSUME Base, NEW r \in Requests, NEW op, Arrives(r, op), op \in Ops,
         op.type \in {"invite", "resend", "remove"} => op.shelter \in Shelters
  PROVE  Begins(r)
  <1> DEFINE new == [Idle EXCEPT !.pc = FirstStep(op), !.op = op, !.now = clock,
                                 !.user = AccountId]
  <1>1. /\ req[r].pc = "idle"
        /\ started' = started + 1
        /\ req' = [req EXCEPT ![r] = new]
        /\ Stays /\ clock' = clock
    BY DEF Arrives, Stays
  <1>2. AccountId \in Nat \cup {None} /\ clock \in Nat /\ started \in Nat
    BY RowShapes DEF Base
  <1>3. op.type \in AllOpTypes
    BY InvitationsAssumption DEF Ops
  <1>4. /\ FirstStep(op) \in {"clean", "find", "plan", "write"}
        /\ FirstStep(op) = "write" => op.type = "revoke"
        /\ FirstStep(op) = "clean" => op.type \in Cleaning
    BY <1>3 DEF FirstStep, AllOpTypes, Cleaning
  <1>5. /\ new \in RequestStates
        /\ new.pc = FirstStep(op) /\ new.op = op /\ new.now = clock
        /\ new.own /\ ~new.again
    BY <1>2, <1>4 DEF Idle, RequestStates
  <1> HIDE DEF new
  <1>6. /\ req' \in [Requests -> RequestStates]
        /\ req'[r] = new
        /\ \A q \in Requests \ {r} : req'[q] = req[q]
    BY <1>1, <1>5 DEF Base
  <1>7. ReqInv(r)'
    BY <1>1, <1>2, <1>4, <1>5, <1>6 DEF ReqInv, Found
  <1> QED BY <1>1, <1>2, <1>4, <1>5, <1>6, <1>7 DEF Begins

LEMMA ArriveSomeBegins ==
  ASSUME Base, NEW r \in Requests, ArriveSome(r)
  PROVE  Begins(r)
  <1>1. CASE \E type \in {"invite", "resend", "remove"}, s \in Shelters :
               Arrives(r, [type |-> type, shelter |-> s])
    <2>1. PICK type \in {"invite", "resend", "remove"}, s \in Shelters :
            Arrives(r, [type |-> type, shelter |-> s])
      BY <1>1
    <2> DEFINE op == [type |-> type, shelter |-> s]
    <2>2. op \in Ops /\ op.shelter \in Shelters
      BY <2>1 DEF Arrives, Ops
    <2> HIDE DEF op
    <2>3. Arrives(r, op)
      BY <2>1 DEF op
    <2> QED BY <2>2, <2>3, ArrivesBegins
  <1>2. CASE \E type \in {"accept", "grant", "revoke", "clean_up"} :
               Arrives(r, [type |-> type, shelter |-> None])
    <2>1. PICK type \in {"accept", "grant", "revoke", "clean_up"} :
            Arrives(r, [type |-> type, shelter |-> None])
      BY <1>2
    <2> DEFINE op == [type |-> type, shelter |-> None]
    <2>2. op \in Ops /\ op.type \notin {"invite", "resend", "remove"}
      BY <2>1 DEF Arrives, Ops
    <2> HIDE DEF op
    <2>3. Arrives(r, op)
      BY <2>1 DEF op
    <2> QED BY <2>2, <2>3, ArrivesBegins
  <1> QED BY <1>1, <1>2 DEF ArriveSome

LEMMA TickQuiet ==
  ASSUME Base, Tick \/ UNCHANGED vars
  PROVE  Quiet
  <1>1. /\ UNCHANGED <<account, member, grant, organization, invitations,
                       history, lastId, crossed, req, started>>
        /\ clock' \in {clock, clock + 1}
    BY DEF Tick, Rows, vars
  <1>2. AccountId' = AccountId
    BY <1>1, SameRows
  <1> QED BY <1>1, <1>2 DEF Quiet, Base, RowTypes

LEMMA VerifyQuiet ==
  ASSUME Base, Verify
  PROVE  Quiet
  <1>1. /\ account # None
        /\ account' = [account EXCEPT !.verified = TRUE]
        /\ UNCHANGED <<member, grant, organization, invitations, history,
                      lastId, crossed, req, clock, started>>
    BY DEF Verify
  <1>2. account \in Accounts
    BY <1>1 DEF Base, RowTypes
  <1>3. account' \in Accounts /\ account'.id = account.id
    BY <1>1, <1>2 DEF Accounts
  <1>4. account' # None
    BY <1>3, InvitationsAssumption
  <1>5. AccountId' = AccountId
    BY <1>1, <1>3, <1>4 DEF AccountId
  <1> QED BY <1>1, <1>3, <1>4, <1>5 DEF Quiet

(* Every step is quiet, begins a request or is a step of one.              *)
LEMMA NextCases ==
  ASSUME Base, [Next]_vars
  PROVE  Quiet \/ \E r \in Requests : Begins(r) \/ Step(r)
  <1>1. CASE Tick
    BY <1>1, TickQuiet
  <1>2. CASE Verify
    BY <1>2, VerifyQuiet
  <1>3. CASE \E r \in Requests : ArriveSome(r) \/ Dies(r) \/ Serve(r)
    BY <1>3, ArriveSomeBegins, ServeStep
  <1>4. CASE Finished \/ UNCHANGED vars
    BY <1>4, TickQuiet DEF Finished
  <1> QED BY <1>1, <1>2, <1>3, <1>4 DEF Next

LEMMA NextBase ==
  ASSUME Base, [Next]_vars
  PROVE  Base'
  BY NextCases, QuietBase, BeginsBase, StepBase

LEMMA InitFacts ==
  ASSUME Init
  PROVE  /\ Base
         /\ member = None /\ grant # "active"
         /\ DOMAIN invitations = {}
         /\ \A s \in Shelters :
              history[s].last = "none" /\ ~history[s].named /\ s # None
         /\ \A r \in Requests : req[r].pc = "idle"
  <1>1. /\ account \in Accounts \cup {None}
        /\ grant \in {"none", "revoked"}
    BY InvitationsAssumption DEF Init
  <1>2. RowTypes
    BY <1>1 DEF Init, RowTypes, Histories
  <1>3. DOMAIN invitations = {} /\ invitations = <<>> /\ member = None
    BY DEF Init
  <1>4. \A s \in Shelters :
          history[s].last = "none" /\ ~history[s].named /\ s # None
    BY InvitationsAssumption DEF Init
  <1>5. LinkedInv /\ MemberInv
    BY <1>3 DEF LinkedInv, MemberInv
  <1>6. \A r \in Requests : req[r] = Idle
    BY DEF Init
  <1>7. /\ req \in [Requests -> RequestStates]
        /\ \A r \in Requests : ReqInv(r)
    BY <1>6, IdleShape DEF Init, ReqInv
  <1> QED BY <1>1, <1>2, <1>3, <1>4, <1>5, <1>6, <1>7, IdleShape DEF Base, Init

LEMMA AlwaysBase == Spec => []Base
  <1>1. Init => Base
    BY InitFacts
  <1>2. Base /\ [Next]_vars => Base'
    BY NextBase
  <1> QED BY <1>1, <1>2, PTL DEF Spec

(* Every row and every request stays well typed, whatever overlaps.        *)
THEOREM TypeCorrect == Spec => []TypeOK
  <1>1. Base => TypeOK
    BY DEF Base, RowTypes, TypeOK
  <1> QED BY <1>1, AlwaysBase, PTL


-----------------------------------------------------------------------------
(* Roles.                                                                  *)

LEMMA StepFacts ==
  ASSUME Base, NEW r, Step(r)
  PROVE  /\ r \in Requests /\ req[r].pc # "idle"
         /\ Effect(r) /\ Enters(r) /\ Base' /\ Grows
         /\ \A q \in Requests \ {r} : req'[q] = req[q]
         /\ req'[r].pc # "idle" => req'[r].op = req[r].op
         /\ clock' = clock
         /\ req[r].now \in Nat /\ req[r].now <= clock
         /\ req[r].op.type \in {"invite", "resend", "remove"} =>
              Shelter(r) \in Shelters
  <1>1. r \in Requests /\ req[r].pc # "idle" /\ OnlyStep(r)
        /\ Effect(r) /\ Enters(r)
    BY DEF Step
  <1>2. Base' /\ Grows
    BY <1>1, StepBase, RowsKept
  <1> QED BY <1>1, <1>2, AtFacts DEF OnlyStep

(* What has crossed stays so, and what has not had not before.             *)
LEMMA CrossedGrows ==
  ASSUME Base, [Next]_vars
  PROVE  crossed \subseteq crossed'
  <1>1. Quiet \/ (\E r \in Requests : Begins(r)) => crossed' = crossed
    BY DEF Quiet, Begins, Stays, Rows
  <1>2. (\E r \in Requests : Step(r)) => crossed \subseteq crossed'
    BY StepFacts DEF Grows
  <1> QED BY <1>1, <1>2, NextCases

(* Only an accept makes a member.                                          *)
LEMMA MemberMoves ==
  ASSUME NEW r, Effect(r)
  PROVE  \/ member' = member
         \/ member' = None /\ req[r].op.type = "remove"
         \/ req[r].op.type = "accept" /\ Joins(req[r].invitation, req[r].now)
  BY DEF Effect, Stays, Rows, Erases, Opens, Organizes, Invites, Renews,
         Removes, Withdraws, Grants, Revokes

LEMMA GrantMoves ==
  ASSUME NEW r, Effect(r), grant' = "active"
  PROVE  \/ grant = "active"
         \/ req[r].op.type = "grant" /\ req[r].pc = "write" /\ member' = member
  BY DEF Effect, Stays, Rows, Erases, Opens, Organizes, Invites, Renews,
         Removes, Withdraws, Joins, Grants, Revokes

(* A grant that has looked still finds nobody's membership.                *)
Unattached(r) ==
  req[r].pc \in {"elsewhere", "write"} /\ req[r].op.type = "grant" =>
    member = None

RolesInv ==
  "grant" \notin crossed => OneRole /\ \A r \in Requests : Unattached(r)

LEMMA RolesKept ==
  ASSUME Base, RolesInv, [Next]_vars
  PROVE  RolesInv'
  <1> SUFFICES ASSUME "grant" \notin crossed'
               PROVE  OneRole' /\ \A r \in Requests : Unattached(r)'
    BY DEF RolesInv
  <1>0. "grant" \notin crossed /\ OneRole /\ \A r \in Requests : Unattached(r)
    BY CrossedGrows DEF RolesInv
  <1>1. CASE Quiet
    BY <1>0, <1>1 DEF Quiet, OneRole, Unattached
  <1>2. ASSUME NEW r \in Requests, Begins(r)
        PROVE  OneRole' /\ \A q \in Requests : Unattached(q)'
    <2>1. /\ UNCHANGED <<member, grant>>
          /\ \A q \in Requests \ {r} : req'[q] = req[q]
          /\ req'[r].pc \in {"clean", "find", "plan", "write"}
          /\ req'[r].pc = "write" => req'[r].op.type = "revoke"
      BY <1>2 DEF Begins, Stays, Rows
    <2> QED BY <1>0, <2>1 DEF OneRole, Unattached
  <1>3. ASSUME NEW r \in Requests, Step(r)
        PROVE  OneRole' /\ \A q \in Requests : Unattached(q)'
    <2>1. OneRole /\ \A q \in Requests : Unattached(q)
      BY <1>0
    <2>2. Effect(r) /\ Enters(r)
      BY <1>3, StepFacts
    <2>3. OneRole'
      <3> SUFFICES ASSUME grant' = "active"
                   PROVE  member' = None
        BY DEF OneRole
      <3>1. CASE grant = "active"
        <4>1. member = None /\ ~Joins(req[r].invitation, req[r].now)
          BY <2>1, <3>1 DEF OneRole, Joins
        <4> QED BY <2>2, <4>1, MemberMoves
      <3>2. CASE /\ req[r].op.type = "grant" /\ req[r].pc = "write"
                 /\ member' = member
        BY <2>1, <3>2 DEF Unattached
      <3> QED BY <2>2, <3>1, <3>2, GrantMoves
    <2>4. Unattached(r)'
      <3> SUFFICES ASSUME req'[r].pc \in {"elsewhere", "write"},
                          req'[r].op.type = "grant"
                   PROVE  member' = None
        BY DEF Unattached
      <3>1. req[r].op.type = "grant"
        BY <1>3, StepFacts
      <3>2. Stays /\ (member = None \/ req[r].pc = "elsewhere")
        BY <2>2, <3>1 DEF Enters
      <3>3. member = None
        BY <2>1, <3>1, <3>2 DEF Unattached
      <3> QED BY <3>2, <3>3 DEF Stays, Rows
    <2>5. ASSUME NEW q \in Requests \ {r} PROVE Unattached(q)'
      <3> SUFFICES ASSUME req[q].pc \in {"elsewhere", "write"},
                          req[q].op.type = "grant"
                   PROVE  member' = None
        BY <1>3, StepFacts DEF Unattached
      <3>1. member = None
        BY <2>1 DEF Unattached
      <3>2. ~Joins(req[r].invitation, req[r].now)
        <4>1. q \in GrantsPast
          BY DEF GrantsPast
        <4> QED BY <4>1 DEF Joins, JoinCrosses
      <3> QED BY <2>2, <3>1, <3>2, MemberMoves
    <2> QED BY <2>3, <2>4, <2>5
  <1> QED BY <1>1, <1>2, <1>3, NextCases

LEMMA AlwaysRoles == Spec => []RolesInv
  <1>1. Init => RolesInv
    BY InitFacts DEF RolesInv, OneRole, Unattached
  <1>2. Base /\ RolesInv /\ [Next]_vars => RolesInv'
    BY RolesKept
  <1> QED BY AlwaysBase, <1>1, <1>2, PTL DEF Spec

(* A person is both an operator and a shelter's admin only if an accept    *)
(* landed between a grant's look for a membership and its write.           *)
THEOREM RolesExclusive == Spec => []OneRoleUnlessCrossed
  <1>1. RolesInv => OneRoleUnlessCrossed
    BY DEF RolesInv, OneRoleUnlessCrossed
  <1> QED BY AlwaysRoles, <1>1, PTL


-----------------------------------------------------------------------------
(* One shelter's invitations.                                              *)

(* After the step no more is pending, live or held than before.            *)
Fewer ==
  /\ DOMAIN invitations' = DOMAIN invitations
  /\ \A k \in DOMAIN invitations :
       /\ invitations'[k].shelter = invitations[k].shelter
       /\ invitations'[k].own => invitations[k].own
       /\ invitations'[k].status = "pending" => invitations[k].status = "pending"
       /\ invitations'[k].expires = invitations[k].expires

LEMMA FewerFacts ==
  ASSUME RowTypes, RowTypes', Fewer
  PROVE  /\ \A s : Pending(s)' \subseteq Pending(s)
         /\ \A ss, now :
              LiveTo(ss, TRUE, now)' \subseteq LiveTo(ss, TRUE, now)
  BY RowShapes DEF Pending, LiveTo, Live, Fewer, RowTypes

(* Only an invite and a resend make an invitation live.                    *)
LEMMA InvitationMoves ==
  ASSUME Base, NEW r \in Requests, req[r].pc # "idle", Effect(r)
  PROVE  \/ Fewer
         \/ /\ req[r].op.type = "invite" /\ req[r].pc = "write"
            /\ Invites(Shelter(r), req[r].now)
         \/ /\ req[r].op.type = "resend" /\ req[r].pc = "write"
            /\ Renews(Shelter(r), req[r].invitation, req[r].now)
  <1>1. /\ RowTypes
        /\ req[r].op.type \in {"remove"} => Shelter(r) \in Shelters
    BY AtFacts DEF Base
  <1>2. CASE invitations' = invitations
    BY <1>2 DEF Fewer
  <1>3. CASE Erases
    <2>1. invitations' = [k \in DOMAIN invitations |->
                            [invitations[k] EXCEPT !.own = FALSE]]
      BY <1>3 DEF Erases, Erase
    <2> QED BY <1>1, <2>1, RowShapes DEF Fewer, InvitationRows
  <1>4. CASE req[r].op.type = "remove" /\ Withdraws(Shelter(r))
    <2>1. /\ DOMAIN invitations' = DOMAIN invitations
          /\ \A k \in DOMAIN invitations :
               /\ invitations'[k].shelter = invitations[k].shelter
               /\ invitations'[k].own = invitations[k].own
               /\ invitations'[k].expires = invitations[k].expires
               /\ invitations'[k].status = "pending" =>
                    invitations[k].status = "pending"
      BY <1>1, <1>4, WithdrawsFacts
    <2> QED BY <2>1 DEF Fewer
  <1>5. CASE Joins(req[r].invitation, req[r].now)
    <2>1. /\ DOMAIN invitations' = DOMAIN invitations
          /\ \A k \in DOMAIN invitations :
               /\ invitations'[k].shelter = invitations[k].shelter
               /\ invitations'[k].own = invitations[k].own
               /\ invitations'[k].expires = invitations[k].expires
               /\ invitations'[k].status = "pending" =>
                    invitations[k].status = "pending"
      BY <1>1, <1>5, JoinsFacts
    <2> QED BY <2>1 DEF Fewer
  <1> QED
    BY <1>2, <1>3, <1>4, <1>5
       DEF Effect, Stays, Rows, Opens, Organizes, Removes, Grants, Revokes

(* What is live now was live when a request that found nothing live arrived. *)
LEMMA StillLive ==
  ASSUME RowTypes, clock \in Nat, NEW op, NEW now \in Nat, now <= clock,
         LiveTo(Elsewhere(op), TRUE, now) = {},
         NEW j \in LiveTo(Shelters, TRUE, clock)
  PROVE  invitations[j].shelter = op.shelter
  <1>1. /\ j \in DOMAIN invitations /\ invitations[j].own = TRUE
        /\ Live(invitations[j], clock)
        /\ invitations[j].shelter \in Shelters
        /\ invitations[j].expires \in Nat
    BY RowShapes DEF LiveTo
  <1>2. Live(invitations[j], now)
    BY <1>1 DEF Live
  <1>3. j \notin LiveTo(Elsewhere(op), TRUE, now)
    OBVIOUS
  <1> QED BY <1>1, <1>2, <1>3 DEF LiveTo, Elsewhere

(* An invite or a resend about to make an invitation live has found none   *)
(* live elsewhere.                                                         *)
NoneElsewhere(r) ==
  /\ req[r].pc = "write" /\ req[r].op.type \in {"invite", "resend"}
  /\ req[r].op.type = "resend" => invitations[req[r].invitation].own
  => LiveTo(Elsewhere(req[r].op), TRUE, req[r].now) = {}

InvitesInv ==
  "asks" \notin crossed =>
    InvitedToOneShelter /\ \A r \in Requests : NoneElsewhere(r)

LEMMA FewerKeepsOne ==
  ASSUME RowTypes, RowTypes', Fewer, clock' = clock, InvitedToOneShelter
  PROVE  InvitedToOneShelter'
  <1> SUFFICES ASSUME NEW j \in LiveTo(Shelters, TRUE, clock)',
                      NEW k \in LiveTo(Shelters, TRUE, clock)'
               PROVE  invitations'[j].shelter = invitations'[k].shelter
    BY DEF InvitedToOneShelter
  <1>1. /\ j \in LiveTo(Shelters, TRUE, clock)
        /\ k \in LiveTo(Shelters, TRUE, clock)
    BY FewerFacts
  <1> QED BY <1>1 DEF InvitedToOneShelter, LiveTo, Fewer

LEMMA InviteKeepsOne ==
  ASSUME Base, NEW r \in Requests, req[r].op.type = "invite",
         req[r].pc = "write", clock' = clock, NoneElsewhere(r),
         Invites(Shelter(r), req[r].now)
  PROVE  InvitedToOneShelter'
  <1> DEFINE s == Shelter(r)
  <1>1. /\ RowTypes /\ clock \in Nat /\ s \in Shelters
        /\ req[r].now \in Nat /\ req[r].now <= clock
    BY AtFacts DEF Base
  <1>2. LiveTo(Elsewhere(req[r].op), TRUE, req[r].now) = {}
    BY DEF NoneElsewhere
  <1>3. /\ \A k \in DOMAIN invitations : invitations'[k] = invitations[k]
        /\ \A k \in DOMAIN invitations' \ DOMAIN invitations :
             invitations'[k].shelter = s
    BY <1>1, InvitesFacts
  <1>4. ASSUME NEW j \in LiveTo(Shelters, TRUE, clock)'
        PROVE  invitations'[j].shelter = s
    <2>1. CASE j \in DOMAIN invitations
      <3>1. j \in LiveTo(Shelters, TRUE, clock)
        BY <1>3, <1>4, <2>1 DEF LiveTo
      <3> QED BY <1>1, <1>2, <1>3, <2>1, <3>1, StillLive DEF Shelter
    <2>2. CASE j \notin DOMAIN invitations
      BY <1>3, <1>4, <2>2 DEF LiveTo
    <2> QED BY <2>1, <2>2
  <1> QED BY <1>4 DEF InvitedToOneShelter

LEMMA RenewKeepsOne ==
  ASSUME Base, NEW r \in Requests, req[r].op.type = "resend",
         req[r].pc = "write", clock' = clock, NoneElsewhere(r),
         InvitedToOneShelter,
         Renews(Shelter(r), req[r].invitation, req[r].now)
  PROVE  InvitedToOneShelter'
  <1> DEFINE s == Shelter(r)
             i == req[r].invitation
  <1>1. /\ RowTypes /\ clock \in Nat /\ s \in Shelters
        /\ req[r].now \in Nat /\ req[r].now <= clock
    BY AtFacts DEF Base
  <1>2. /\ i \in DOMAIN invitations /\ invitations[i].shelter = s
        /\ DOMAIN invitations' = DOMAIN invitations
        /\ \A j \in DOMAIN invitations :
             /\ invitations'[j].shelter = invitations[j].shelter
             /\ invitations'[j].own = invitations[j].own
             /\ j # i => invitations'[j] = invitations[j]
    BY <1>1, RenewsFacts DEF Renews
  <1>3. \A j \in LiveTo(Shelters, TRUE, clock)' \ {i} :
          j \in LiveTo(Shelters, TRUE, clock)
    BY <1>2 DEF LiveTo
  <1>4. CASE invitations[i].own
    <2>1. LiveTo(Elsewhere(req[r].op), TRUE, req[r].now) = {}
      BY <1>4 DEF NoneElsewhere
    <2>2. ASSUME NEW j \in LiveTo(Shelters, TRUE, clock)'
          PROVE  invitations'[j].shelter = s
      <3>1. CASE j = i
        BY <1>2, <3>1
      <3>2. CASE j # i
        <4>1. j \in LiveTo(Shelters, TRUE, clock)
          BY <1>3, <2>2, <3>2
        <4>2. invitations[j].shelter = s
          BY <1>1, <2>1, <4>1, StillLive DEF Shelter
        <4> QED BY <1>2, <4>1, <4>2 DEF LiveTo
      <3> QED BY <3>1, <3>2
    <2> QED BY <2>2 DEF InvitedToOneShelter
  <1>5. CASE ~invitations[i].own
    <2>1. i \notin LiveTo(Shelters, TRUE, clock)'
      BY <1>2, <1>5 DEF LiveTo
    <2>2. ASSUME NEW j \in LiveTo(Shelters, TRUE, clock)'
          PROVE  /\ j \in LiveTo(Shelters, TRUE, clock)
                 /\ invitations'[j].shelter = invitations[j].shelter
      BY <1>2, <1>3, <2>1 DEF LiveTo
    <2> SUFFICES ASSUME NEW j \in LiveTo(Shelters, TRUE, clock)',
                        NEW k \in LiveTo(Shelters, TRUE, clock)'
                 PROVE  invitations'[j].shelter = invitations'[k].shelter
      BY DEF InvitedToOneShelter
    <2>3. /\ j \in LiveTo(Shelters, TRUE, clock)
          /\ invitations'[j].shelter = invitations[j].shelter
      BY <2>2
    <2>4. /\ k \in LiveTo(Shelters, TRUE, clock)
          /\ invitations'[k].shelter = invitations[k].shelter
      BY <2>2
    <2> QED BY <2>3, <2>4 DEF InvitedToOneShelter
  <1> QED BY <1>4, <1>5

(* Time passes: less is live.                                              *)
LEMMA QuietKeepsOne ==
  ASSUME Base, Quiet, InvitedToOneShelter
  PROVE  InvitedToOneShelter'
  <1>1. /\ RowTypes /\ invitations' = invitations
        /\ clock \in Nat /\ clock' \in Nat /\ clock <= clock'
    BY DEF Base, Quiet
  <1>2. LiveTo(Shelters, TRUE, clock)' \subseteq LiveTo(Shelters, TRUE, clock)
    BY <1>1, RowShapes DEF LiveTo, Live
  <1> QED BY <1>1, <1>2 DEF InvitedToOneShelter

LEMMA InvitesKept ==
  ASSUME Base, InvitesInv, [Next]_vars
  PROVE  InvitesInv'
  <1> SUFFICES ASSUME "asks" \notin crossed'
               PROVE  /\ InvitedToOneShelter'
                      /\ \A r \in Requests : NoneElsewhere(r)'
    BY DEF InvitesInv
  <1>0. /\ "asks" \notin crossed /\ InvitedToOneShelter
        /\ \A r \in Requests : NoneElsewhere(r)
    BY CrossedGrows DEF InvitesInv
  <1>1. CASE Quiet
    <2>1. \A r \in Requests : NoneElsewhere(r)'
      BY <1>0, <1>1 DEF Quiet, NoneElsewhere, LiveTo
    <2> QED BY <1>0, <1>1, <2>1, QuietKeepsOne
  <1>2. ASSUME NEW r \in Requests, Begins(r)
        PROVE  InvitedToOneShelter' /\ \A q \in Requests : NoneElsewhere(q)'
    <2>1. /\ invitations' = invitations /\ clock' = clock
          /\ \A q \in Requests \ {r} : req'[q] = req[q]
          /\ req'[r].pc = "write" => req'[r].op.type = "revoke"
      BY <1>2 DEF Begins, Stays, Rows
    <2> QED BY <1>0, <2>1 DEF InvitedToOneShelter, NoneElsewhere, LiveTo
  <1>3. ASSUME NEW r \in Requests, Step(r)
        PROVE  InvitedToOneShelter' /\ \A q \in Requests : NoneElsewhere(q)'
    <2>1. InvitedToOneShelter /\ \A q \in Requests : NoneElsewhere(q)
      BY <1>0
    <2>2. /\ Effect(r) /\ Enters(r) /\ RowTypes /\ RowTypes' /\ ReqInv(r)'
          /\ req[r].pc # "idle" /\ clock' = clock
      BY <1>3, StepFacts DEF Base
    <2>3. InvitedToOneShelter'
      BY <2>1, <2>2, InvitationMoves, FewerKeepsOne, InviteKeepsOne,
         RenewKeepsOne
    <2>4. NoneElsewhere(r)'
      <3> SUFFICES ASSUME req'[r].pc = "write",
                          req'[r].op.type \in {"invite", "resend"},
                          req'[r].op.type = "resend" =>
                            invitations'[req'[r].invitation].own
                   PROVE  LiveTo(Elsewhere(req[r].op), TRUE, req[r].now)' = {}
        BY DEF NoneElsewhere
      <3>1. req'[r].op = req[r].op
        BY <1>3, StepFacts
      <3>2. /\ Stays
            /\ LiveTo(Elsewhere(req[r].op), req[r].own, req[r].now) = {}
            /\ req'[r].own = req[r].own /\ req'[r].now = req[r].now
        BY <2>2, <3>1 DEF Enters
      <3>3. req'[r].own /\ req'[r].own \in BOOLEAN
        BY <1>3, <2>2, StepFacts DEF ReqInv, Found, Base, RequestStates
      <3>4. invitations' = invitations
        BY <3>2 DEF Stays, Rows
      <3> QED BY <3>1, <3>2, <3>3, <3>4 DEF LiveTo
    <2>5. ASSUME NEW q \in Requests \ {r} PROVE NoneElsewhere(q)'
      <3>1. req'[q] = req[q]
        BY <1>3, StepFacts
      <3> SUFFICES ASSUME req[q].pc = "write",
                          req[q].op.type \in {"invite", "resend"},
                          req[q].op.type = "resend" =>
                            invitations'[req[q].invitation].own
                   PROVE  LiveTo(Elsewhere(req[q].op), TRUE, req[q].now)' = {}
        BY <3>1 DEF NoneElsewhere
      <3>2. Shelter(r) # Shelter(q) => ~AskCrosses(Shelter(r))
        <4>1. Shelter(r) # Shelter(q) => q \in AsksPast(Shelter(r))
          BY DEF AsksPast, Shelter
        <4> QED BY <4>1 DEF AskCrosses
      <3>3. ASSUME ~Fewer
            PROVE  /\ Shelter(r) = Shelter(q) /\ Shelter(r) \in Shelters
                   /\ \/ Invites(Shelter(r), req[r].now)
                      \/ Renews(Shelter(r), req[r].invitation, req[r].now)
        BY <1>3, <2>2, <3>2, <3>3, StepFacts, InvitationMoves
           DEF Invites, Renews
      <3>5. req[q].op.type = "resend" => invitations[req[q].invitation].own
        <4>1. req[q].op.type = "resend" =>
                req[q].invitation \in DOMAIN invitations
          BY DEF Base, ReqInv, Found
        <4>2. CASE Fewer
          BY <4>1, <4>2 DEF Fewer
        <4>3. CASE ~Fewer
          BY <1>3, <2>2, <3>3, <4>1, <4>3, StepFacts, InvitesFacts, RenewsFacts
        <4> QED BY <4>2, <4>3
      <3>6. LiveTo(Elsewhere(req[q].op), TRUE, req[q].now) = {}
        BY <2>1, <3>5 DEF NoneElsewhere
      <3>7. LiveTo(Elsewhere(req'[q].op), TRUE, req'[q].now) = {}
        BY <3>1, <3>6
      <3>8. CASE Fewer
        BY <2>2, <3>7, <3>8, FewerFacts
      <3>9. CASE ~Fewer
        <4>1. \A k \in DOMAIN invitations' :
                \/ invitations'[k].shelter = Shelter(q)
                \/ k \in DOMAIN invitations /\ invitations'[k] = invitations[k]
          BY <1>3, <2>2, <3>3, <3>9, StepFacts, InvitesFacts, RenewsFacts
             DEF Renews
        <4>2. ASSUME NEW op, NEW now, op.shelter = Shelter(q)
              PROVE  LiveTo(Elsewhere(op), TRUE, now)'
                       \subseteq LiveTo(Elsewhere(op), TRUE, now)
          BY <4>1, <4>2 DEF LiveTo, Elsewhere
        <4> QED BY <3>1, <3>7, <4>2 DEF Shelter
      <3> QED BY <3>8, <3>9
    <2> QED BY <2>3, <2>4, <2>5
  <1> QED BY <1>1, <1>2, <1>3, NextCases

LEMMA AlwaysInvites == Spec => []InvitesInv
  <1>1. Init => InvitesInv
    BY InitFacts DEF InvitesInv, InvitedToOneShelter, NoneElsewhere, LiveTo
  <1>2. Base /\ InvitesInv /\ [Next]_vars => InvitesInv'
    BY InvitesKept
  <1> QED BY AlwaysBase, <1>1, <1>2, PTL DEF Spec

(* The address is validly invited to two shelters at once, however many    *)
(* invitations expire, are resent, or are canceled, only if one was made   *)
(* valid while the other's request, past its look, was still to write.     *)
THEOREM OneShelterInvites == Spec => []OneShelterUnlessCrossed
  <1>1. InvitesInv => OneShelterUnlessCrossed
    BY DEF InvitesInv, OneShelterUnlessCrossed
  <1> QED BY AlwaysInvites, <1>1, PTL


-----------------------------------------------------------------------------
(* Joining, and what stays pending beside it.                              *)

LEMMA PendingMoves ==
  ASSUME Base, NEW r \in Requests, req[r].pc # "idle", Effect(r),
         NEW s \in Shelters
  PROVE  \/ Pending(s)' \subseteq Pending(s)
         \/ /\ req[r].op.type = "invite" /\ req[r].pc = "write"
            /\ Shelter(r) = s /\ Invites(s, req[r].now)
  <1>1. /\ RowTypes /\ RowTypes' /\ req[r].now \in Nat
        /\ req[r].op.type \in {"invite", "resend"} => Shelter(r) \in Shelters
    BY AtFacts, RowsKept DEF Base
  <1>2. CASE Fewer
    BY <1>1, <1>2, FewerFacts
  <1>3. CASE /\ req[r].op.type = "invite" /\ req[r].pc = "write"
             /\ Invites(Shelter(r), req[r].now)
    BY <1>1, <1>3, InvitesFacts
  <1>4. CASE /\ req[r].op.type = "resend"
             /\ Renews(Shelter(r), req[r].invitation, req[r].now)
    BY <1>1, <1>4, RenewsFacts
  <1> QED BY <1>2, <1>3, <1>4, InvitationMoves

(* Who has a membership keeps the account it belongs to.                   *)
LEMMA AccountMoves ==
  ASSUME Base, NEW r \in Requests, req[r].pc # "idle", Effect(r)
  PROVE  \/ account' = account
         \/ req[r].op.type \in Cleaning /\ Erases /\ account' = None
         \/ account = None /\ account' # None
  <1>1. CASE Erases /\ req[r].op.type \in Cleaning
    BY <1>1 DEF Erases, Erase
  <1>2. CASE Opens
    BY <1>2, InvitationsAssumption DEF Opens
  <1> QED
    BY <1>1, <1>2
       DEF Effect, Stays, Rows, Organizes, Invites, Renews, Removes,
           Withdraws, Joins, Grants, Revokes

(* An invite that has looked finds the address's own account if that is    *)
(* the shelter's admin, and past the roles that it is not.                 *)
Uncommitted(r) ==
  req[r].pc # "idle" /\ req[r].op.type = "invite" /\ req[r].again =>
    /\ req[r].pc = "roles" /\ member = Shelter(r) => req[r].user = AccountId
    /\ req[r].pc \in {"elsewhere", "write"} => member # Shelter(r)

JoinsInv ==
  "invite" \notin crossed =>
    NonePendingOnceJoined /\ \A r \in Requests : Uncommitted(r)

LEMMA JoinsKept ==
  ASSUME Base, JoinsInv, [Next]_vars
  PROVE  JoinsInv'
  <1> SUFFICES ASSUME "invite" \notin crossed'
               PROVE  /\ NonePendingOnceJoined'
                      /\ \A r \in Requests : Uncommitted(r)'
    BY DEF JoinsInv
  <1>0. /\ "invite" \notin crossed /\ NonePendingOnceJoined
        /\ \A r \in Requests : Uncommitted(r)
    BY CrossedGrows DEF JoinsInv
  <1>1. CASE Quiet
    BY <1>0, <1>1
       DEF Quiet, NonePendingOnceJoined, Uncommitted, Pending, Shelter
  <1>2. ASSUME NEW r \in Requests, Begins(r)
        PROVE  NonePendingOnceJoined' /\ \A q \in Requests : Uncommitted(q)'
    <2>1. /\ UNCHANGED <<account, member, invitations>>
          /\ \A q \in Requests \ {r} : req'[q] = req[q]
          /\ req'[r].pc \in {"clean", "find", "plan", "write"}
          /\ req'[r].pc = "write" => req'[r].op.type = "revoke"
      BY <1>2 DEF Begins, Stays, Rows
    <2>2. AccountId' = AccountId
      BY <2>1, SameRows
    <2> QED BY <1>0, <2>1, <2>2
      DEF NonePendingOnceJoined, Uncommitted, Pending, Shelter
  <1>3. ASSUME NEW r \in Requests, Step(r)
        PROVE  NonePendingOnceJoined' /\ \A q \in Requests : Uncommitted(q)'
    <2>1. NonePendingOnceJoined /\ \A q \in Requests : Uncommitted(q)
      BY <1>0
    <2>2. /\ Effect(r) /\ Enters(r) /\ RowTypes /\ RowTypes' /\ MemberInv
          /\ req[r].pc # "idle" /\ ReqInv(r)
      BY <1>3, StepFacts DEF Base
    <2>3. NonePendingOnceJoined'
      <3> SUFFICES ASSUME NEW s \in Shelters, member' = s
                   PROVE  Pending(s)' = {}
        BY <2>2 DEF NonePendingOnceJoined, RowTypes, Pending
      <3>1. CASE member = s
        <4>1. s # None /\ Pending(s) = {}
          BY <2>1, <3>1, InvitationsAssumption DEF NonePendingOnceJoined
        <4>2. ~(/\ req[r].op.type = "invite" /\ req[r].pc = "write"
                /\ Shelter(r) = s)
          BY <2>1, <2>2, <3>1 DEF Uncommitted, ReqInv
        <4>3. Pending(s)' \subseteq Pending(s)
          BY <2>2, <4>2, PendingMoves
        <4> QED BY <4>1, <4>3
      <3>2. CASE Joins(req[r].invitation, req[r].now)
        <4>1. invitations[req[r].invitation].shelter = s
          BY <3>2 DEF Joins
        <4> QED BY <2>2, <3>2, <4>1, JoinsFacts
      <3>3. s # None
        BY InvitationsAssumption
      <3> QED BY <2>2, <3>1, <3>2, <3>3, MemberMoves
    <2>4. ASSUME NEW q \in Requests \ {r} PROVE Uncommitted(q)'
      <3>1. req'[q] = req[q] /\ Shelter(q)' = Shelter(q)
        BY <1>3, StepFacts DEF Shelter
      <3> SUFFICES ASSUME req[q].pc \in {"roles", "elsewhere", "write"},
                          req[q].op.type = "invite", req[q].again,
                          member' = Shelter(q)
                   PROVE  req[q].pc = "roles" /\ req[q].user = AccountId'
        BY <3>1 DEF Uncommitted
      <3>2. Shelter(q) \in Shelters /\ Shelter(q) # None /\ req[q].op \in Ops
        BY AtFacts, InvitationsAssumption
      <3>3. CASE member = Shelter(q)
        <4>1. req[q].pc = "roles" /\ req[q].user = AccountId
          BY <2>1, <3>3 DEF Uncommitted
        <4>2. account' = account
          BY <2>2, <3>2, <3>3, AccountMoves DEF Erases, MemberInv
        <4> QED BY <4>1, <4>2 DEF AccountId
      <3>4. CASE Joins(req[r].invitation, req[r].now)
        <4>1. /\ invitations[req[r].invitation].shelter = Shelter(q)
              /\ account' = account /\ JoinCrosses(Shelter(q))
          BY <3>4 DEF Joins
        <4>2. q \notin InvitesPast(Shelter(q))
          BY <4>1 DEF JoinCrosses
        <4>3. req[q].op = [type |-> "invite", shelter |-> Shelter(q)]
          BY <3>2 DEF Ops, Shelter
        <4>4. req[q].pc = "roles" /\ req[q].user = AccountId
          BY <4>2, <4>3 DEF InvitesPast
        <4> QED BY <4>1, <4>4 DEF AccountId
      <3> QED BY <2>2, <3>2, <3>3, <3>4, MemberMoves
    <2>5. Uncommitted(r)'
      <3> SUFFICES ASSUME req'[r].pc \in {"roles", "elsewhere", "write"},
                          req[r].op.type = "invite", req'[r].again
                   PROVE  /\ req'[r].pc = "roles" => req'[r].user = AccountId'
                          /\ req'[r].pc # "roles" => member' # Shelter(r)
        BY <1>3, StepFacts DEF Uncommitted, Shelter
      <3>1. Stays /\ member' = member /\ AccountId' = AccountId
        BY <2>2, SameRows DEF Enters, Stays, Rows
      <3>2. CASE req'[r].pc = "roles"
        BY <2>2, <3>1, <3>2 DEF Enters
      <3>3. CASE req'[r].pc = "elsewhere"
        <4>1. req[r].pc = "roles" /\ ~HasRole(req[r].user) /\ req[r].again
          BY <2>2, <3>3 DEF Enters
        <4>2. ASSUME member = Shelter(r) PROVE FALSE
          <5>1. member # None
            BY <2>2, <4>2, AtFacts, InvitationsAssumption
          <5>2. account # None /\ req[r].user = AccountId
            BY <2>1, <2>2, <4>1, <4>2, <5>1 DEF Uncommitted, MemberInv
          <5>3. AccountId # None
            BY <2>2, <5>2, RowShapes
          <5> QED BY <4>1, <5>1, <5>2, <5>3 DEF HasRole
        <4> QED BY <3>1, <3>3, <4>2
      <3>4. CASE req'[r].pc = "write"
        <4>1. req[r].pc = "elsewhere" /\ req[r].again
          BY <2>2, <3>4 DEF Enters
        <4> QED BY <2>1, <3>1, <3>4, <4>1 DEF Uncommitted
      <3> QED BY <3>2, <3>3, <3>4
    <2> QED BY <2>3, <2>4, <2>5
  <1> QED BY <1>1, <1>2, <1>3, NextCases

LEMMA AlwaysJoins == Spec => []JoinsInv
  <1>1. Init => JoinsInv
    BY InitFacts DEF JoinsInv, NonePendingOnceJoined, Uncommitted
  <1>2. Base /\ JoinsInv /\ [Next]_vars => JoinsInv'
    BY JoinsKept
  <1> QED BY AlwaysBase, <1>1, <1>2, PTL DEF Spec

(* An admin has an invitation to their own shelter left only if an invite  *)
(* to it was past its look for roles as they joined: an accept leaves no   *)
(* second one, and nothing else sends or revives one.                      *)
THEOREM JoinedLeavesNonePending == Spec => []NonePendingUnlessCrossed
  <1>1. JoinsInv => NonePendingUnlessCrossed
    BY DEF JoinsInv, NonePendingUnlessCrossed
  <1> QED BY AlwaysJoins, <1>1, PTL


-----------------------------------------------------------------------------
(* Erasing the account.                                                    *)

(* A history that holds the address is one an erasure finds.               *)
NamedInv == \A s \in Shelters : history[s].named => s \in Invited

(* A resend's invitation still holds the address.                          *)
StillOwn(r) ==
  req[r].pc \in Found /\ req[r].op.type = "resend" =>
    invitations[req[r].invitation].own

ErasureInv ==
  "resend" \notin crossed => NamedInv /\ \A r \in Requests : StillOwn(r)

LEMMA ErasesAll ==
  ASSUME Base, NamedInv, Erases
  PROVE  NoTrace
  <1>1. /\ DOMAIN invitations' = DOMAIN invitations
        /\ \A k \in DOMAIN invitations : ~invitations'[k].own
        /\ \A s \in Shelters :
             history'[s].named => history[s].named /\ s \notin Scrubbed
    BY EraseFacts DEF Base
  <1>2. \A s \in Shelters : history[s].named => s \in Scrubbed
    BY DEF Base, NamedInv, LinkedInv, Invited, Scrubbed
  <1> QED BY <1>1, <1>2 DEF NoTrace

LEMMA NamedKept ==
  ASSUME Base, NamedInv, NEW r \in Requests, req[r].pc # "idle", Effect(r),
         StillOwn(r)
  PROVE  NamedInv'
  <1>1. /\ RowTypes /\ MemberInv /\ req[r].now \in Nat
        /\ req[r].op.type \in {"invite", "resend", "remove"} =>
             Shelter(r) \in Shelters
    BY AtFacts DEF Base
  <1>2. CASE UNCHANGED <<invitations, history>>
    BY <1>2 DEF NamedInv, Invited
  <1>3. CASE Erases
    BY <1>3, ErasesAll DEF NoTrace, NamedInv
  <1>4. CASE \E s \in Shelters, kind \in {"invited", "resent", "joined", "removed"} :
               /\ s \in Invited' /\ Invited \subseteq Invited'
               /\ Line(s, kind)
    <2>1. PICK s \in Shelters, kind \in {"invited", "resent", "joined", "removed"} :
            /\ s \in Invited' /\ Invited \subseteq Invited'
            /\ Line(s, kind)
      BY <1>4
    <2>2. \A t \in Shelters \ {s} : history'[t] = history[t]
      BY <1>1, <2>1, LineFacts
    <2> QED BY <2>1, <2>2 DEF NamedInv
  <1>5. CASE req[r].op.type = "invite" /\ Invites(Shelter(r), req[r].now)
    <2>1. Shelter(r) \in Invited' /\ Invited \subseteq Invited'
      BY <1>1, <1>5, InvitesFacts
    <2> QED BY <1>1, <1>4, <1>5, <2>1 DEF Invites
  <1>6. CASE /\ req[r].op.type = "resend" /\ req[r].pc = "write"
             /\ Renews(Shelter(r), req[r].invitation, req[r].now)
    <2>1. Invited' = Invited
      BY <1>1, <1>6, RenewsFacts
    <2>2. Shelter(r) \in Invited
      BY <1>6 DEF StillOwn, Found, Renews, Invited
    <2> QED BY <1>1, <1>4, <1>6, <2>1, <2>2 DEF Renews
  <1>7. CASE req[r].op.type = "remove" /\ Removes(Shelter(r))
    <2>1. Invited' = Invited
      BY <1>7 DEF Removes, Invited
    <2>2. Shelter(r) \in Invited
      BY <1>1, <1>7, InvitationsAssumption DEF Removes, MemberInv
    <2> QED BY <1>1, <1>4, <1>7, <2>1, <2>2 DEF Removes
  <1>8. CASE req[r].op.type = "remove" /\ Withdraws(Shelter(r))
    <2>1. Shelter(r) \in Invited /\ Invited' = Invited
      BY <1>1, <1>8, WithdrawsFacts
    <2> QED BY <1>1, <1>4, <1>8, <2>1 DEF Withdraws
  <1>9. CASE Joins(req[r].invitation, req[r].now)
    <2> DEFINE s == invitations[req[r].invitation].shelter
    <2>1. s \in Shelters /\ s \in Invited /\ Invited' = Invited
      BY <1>1, <1>9, JoinsFacts
    <2>2. Line(s, "joined")
      BY <1>9 DEF Joins
    <2> HIDE DEF s
    <2> QED BY <1>4, <2>1, <2>2
  <1> QED
    BY <1>2, <1>3, <1>5, <1>6, <1>7, <1>8, <1>9
       DEF Effect, Stays, Rows, Opens, Organizes, Grants, Revokes

(* Only an erasure takes the address out of an invitation.                 *)
LEMMA OwnMoves ==
  ASSUME Base, NEW r \in Requests, req[r].pc # "idle", Effect(r)
  PROVE  \/ req[r].op.type \in Cleaning /\ Erases
         \/ \A k \in DOMAIN invitations : invitations'[k].own = invitations[k].own
  <1>1. /\ RowTypes /\ req[r].now \in Nat
        /\ req[r].op.type \in {"invite", "resend", "remove"} =>
             Shelter(r) \in Shelters
    BY AtFacts DEF Base
  <1>2. CASE invitations' = invitations
    BY <1>2
  <1>3. CASE req[r].op.type = "invite" /\ Invites(Shelter(r), req[r].now)
    <2>1. \A k \in DOMAIN invitations : invitations'[k] = invitations[k]
      BY <1>1, <1>3, InvitesFacts
    <2> QED BY <2>1
  <1>4. CASE /\ req[r].op.type = "resend"
             /\ Renews(Shelter(r), req[r].invitation, req[r].now)
    <2>1. \A k \in DOMAIN invitations : invitations'[k].own = invitations[k].own
      BY <1>1, <1>4, RenewsFacts
    <2> QED BY <2>1
  <1>5. CASE req[r].op.type = "remove" /\ Withdraws(Shelter(r))
    <2>1. \A k \in DOMAIN invitations : invitations'[k].own = invitations[k].own
      BY <1>1, <1>5, WithdrawsFacts
    <2> QED BY <2>1
  <1>6. CASE Joins(req[r].invitation, req[r].now)
    <2>1. \A k \in DOMAIN invitations : invitations'[k].own = invitations[k].own
      BY <1>1, <1>6, JoinsFacts
    <2> QED BY <2>1
  <1> QED
    BY <1>2, <1>3, <1>4, <1>5, <1>6
       DEF Effect, Stays, Rows, Opens, Organizes, Removes, Grants, Revokes

LEMMA ErasureKept ==
  ASSUME Base, ErasureInv, [Next]_vars
  PROVE  ErasureInv'
  <1> SUFFICES ASSUME "resend" \notin crossed'
               PROVE  NamedInv' /\ \A r \in Requests : StillOwn(r)'
    BY DEF ErasureInv
  <1>0. /\ "resend" \notin crossed /\ NamedInv
        /\ \A r \in Requests : StillOwn(r)
    BY CrossedGrows DEF ErasureInv
  <1>1. CASE Quiet
    BY <1>0, <1>1 DEF Quiet, NamedInv, Invited, StillOwn
  <1>2. ASSUME NEW r \in Requests, Begins(r)
        PROVE  NamedInv' /\ \A q \in Requests : StillOwn(q)'
    <2>1. /\ UNCHANGED <<invitations, history>>
          /\ \A q \in Requests \ {r} : req'[q] = req[q]
          /\ req'[r].pc \in Found => req'[r].op.type = "revoke"
      BY <1>2 DEF Begins, Stays, Rows, Found
    <2> QED BY <1>0, <2>1 DEF NamedInv, Invited, StillOwn
  <1>3. ASSUME NEW r \in Requests, Step(r)
        PROVE  NamedInv' /\ \A q \in Requests : StillOwn(q)'
    <2>1. NamedInv /\ \A q \in Requests : StillOwn(q)
      BY <1>0
    <2>2. /\ Effect(r) /\ Enters(r) /\ RowTypes /\ req[r].pc # "idle"
          /\ \A q \in Requests : ReqInv(q)
      BY <1>3, StepFacts DEF Base
    <2>3. NamedInv'
      BY <2>1, <2>2, NamedKept
    <2>4. ASSUME NEW q \in Requests \ {r} PROVE StillOwn(q)'
      <3>1. req'[q] = req[q]
        BY <1>3, StepFacts
      <3> SUFFICES ASSUME req[q].pc \in Found, req[q].op.type = "resend"
                   PROVE  invitations'[req[q].invitation].own
        BY <3>1 DEF StillOwn
      <3>2. /\ req[q].invitation \in DOMAIN invitations
            /\ invitations[req[q].invitation].own
        BY <2>1, <2>2 DEF StillOwn, ReqInv, Found
      <3>3. ~Erases
        <4>1. q \in ResendsPast
          BY DEF ResendsPast
        <4> QED BY <4>1 DEF Erases, Erase, EraseCrosses
      <3> QED BY <2>2, <3>2, <3>3, OwnMoves
    <2>5. StillOwn(r)'
      <3> SUFFICES ASSUME req'[r].pc \in Found, req'[r].op.type = "resend"
                   PROVE  invitations'[req'[r].invitation].own
        BY DEF StillOwn
      <3>1. req[r].op.type = "resend"
        BY <1>3, StepFacts DEF Found
      <3>2. /\ Stays
            /\ \/ req'[r].invitation \in Pending(Shelter(r))
               \/ /\ req[r].pc \in Found
                  /\ req'[r].invitation = req[r].invitation
        BY <2>2, <3>1 DEF Enters
      <3>3. invitations' = invitations
        BY <3>2 DEF Stays, Rows
      <3> QED BY <2>1, <3>1, <3>2, <3>3 DEF StillOwn, Pending
    <2> QED BY <2>3, <2>4, <2>5
  <1> QED BY <1>1, <1>2, <1>3, NextCases

LEMMA AlwaysErasure == Spec => []ErasureInv
  <1>1. Init => ErasureInv
    BY InitFacts DEF ErasureInv, NamedInv, StillOwn, Found
  <1>2. Base /\ ErasureInv /\ [Next]_vars => ErasureInv'
    BY ErasureKept
  <1> QED BY AlwaysBase, <1>1, <1>2, PTL DEF Spec

LEMMA ErasureStep ==
  ASSUME Base, ErasureInv, [Next]_vars, account # None, account' = None,
         "resend" \notin crossed
  PROVE  NoTrace
  <1>1. ~Quiet /\ \A r \in Requests : ~Begins(r)
    BY DEF Quiet, Begins, Stays, Rows
  <1>2. PICK r \in Requests : Step(r)
    BY <1>1, NextCases
  <1>3. req[r].pc # "idle" /\ Effect(r)
    BY <1>2, StepFacts
  <1>4. Erases
    BY <1>3, AccountMoves
  <1> QED BY <1>4, ErasesAll DEF ErasureInv

(* Whatever erases the account, a clean-up or a removal, scrubs every      *)
(* history and every invitation that held its address, unless a resend was *)
(* under way at an earlier erasure: that one writes the address to the     *)
(* history in a later statement than it read it in.                        *)
THEOREM ErasureComplete == Spec => ErasureUnlessCrossed
  <1>1. Base /\ ErasureInv /\ [Next]_vars =>
          [account # None /\ account' = None =>
             NoTrace \/ "resend" \in crossed]_vars
    BY ErasureStep
  <1> QED
    BY AlwaysBase, AlwaysErasure, <1>1, PTL DEF Spec, ErasureUnlessCrossed


-----------------------------------------------------------------------------
(* What a shelter's history says of its admin.                             *)

(* A resend with an invitation still pending is of somebody not yet in.    *)
NotYetIn(r) ==
  /\ req[r].pc \in Found /\ req[r].op.type = "resend"
  /\ invitations[req[r].invitation].status = "pending"
  => member # Shelter(r)

LEMMA TalesKept ==
  ASSUME Base, HistoryTellsAdmins, NonePendingOnceJoined,
         NEW r \in Requests, Step(r), Uncommitted(r), NotYetIn(r)
  PROVE  HistoryTellsAdmins'
  <1>1. /\ RowTypes /\ RowTypes' /\ Effect(r) /\ req[r].pc # "idle"
        /\ req[r].now \in Nat
        /\ req[r].op.type \in {"invite", "resend", "remove"} =>
             Shelter(r) \in Shelters
        /\ \A s \in Shelters : s # None
        /\ ReqInv(r)
    BY StepFacts, InvitationsAssumption DEF Base
  <1>2. NonePendingOnceJoined /\ Uncommitted(r)
    OBVIOUS
  <1>3. \A s \in Shelters :
          /\ history[s].last = "joined" <=> member = s
          /\ history[s].last = "removed" => Pending(s) = {}
    BY DEF HistoryTellsAdmins
  <1>4. ASSUME UNCHANGED <<member, history>>,
               \A s \in Shelters : Pending(s)' \subseteq Pending(s)
        PROVE  HistoryTellsAdmins'
    BY <1>3, <1>4 DEF HistoryTellsAdmins
  <1>5. CASE UNCHANGED <<member, history, invitations>>
    BY <1>4, <1>5 DEF Pending
  <1>6. CASE Erases
    <2>1. \A s \in Shelters : history'[s].last = history[s].last
      BY <1>1, <1>6, EraseFacts
    <2>2. \A s : Pending(s)' = {}
      BY <1>1, <1>6, EraseFacts DEF Pending
    <2>3. member' = member
      BY <1>6 DEF Erases
    <2> QED BY <1>3, <2>1, <2>2, <2>3 DEF HistoryTellsAdmins
  <1>7. ASSUME NEW s \in Shelters,
               NEW kind \in {"invited", "resent", "joined", "removed"},
               Line(s, kind),
               kind = "joined" <=> member' = s,
               kind = "removed" => Pending(s)' = {},
               \A t \in Shelters \ {s} :
                 /\ member' = t <=> member = t
                 /\ Pending(t)' \subseteq Pending(t)
        PROVE  HistoryTellsAdmins'
    <2>1. /\ history'[s].last = kind
          /\ \A t \in Shelters \ {s} : history'[t] = history[t]
      BY <1>1, <1>7, LineFacts
    <2> SUFFICES ASSUME NEW t \in Shelters
                 PROVE  /\ history'[t].last = "joined" <=> member' = t
                        /\ history'[t].last = "removed" => Pending(t)' = {}
      BY DEF HistoryTellsAdmins
    <2>2. CASE t = s
      BY <1>7, <2>1, <2>2
    <2>3. CASE t # s
      BY <1>3, <1>7, <2>1, <2>3
    <2> QED BY <2>2, <2>3
  <1>8. CASE /\ req[r].op.type = "invite" /\ req[r].pc = "write"
             /\ Invites(Shelter(r), req[r].now)
    <2>1. member # Shelter(r) /\ member' = member
      BY <1>1, <1>2, <1>8 DEF ReqInv, Uncommitted, Invites
    <2>2. \A t \in Shelters \ {Shelter(r)} : Pending(t)' = Pending(t)
      BY <1>1, <1>8, InvitesFacts
    <2>3. Line(Shelter(r), "invited")
      BY <1>8 DEF Invites
    <2> QED BY <1>1, <1>7, <1>8, <2>1, <2>2, <2>3
  <1>9. CASE /\ req[r].op.type = "resend" /\ req[r].pc = "write"
             /\ Renews(Shelter(r), req[r].invitation, req[r].now)
    <2>1. member # Shelter(r) /\ member' = member
      BY <1>9 DEF NotYetIn, Found, Renews
    <2>2. \A t : Pending(t)' = Pending(t)
      BY <1>1, <1>9, RenewsFacts
    <2>3. Line(Shelter(r), "resent")
      BY <1>9 DEF Renews
    <2> QED BY <1>1, <1>7, <1>9, <2>1, <2>2, <2>3
  <1>10. CASE req[r].op.type = "remove" /\ Removes(Shelter(r))
    <2>1. PICK s \in Shelters : s = Shelter(r)
      BY <1>1, <1>10
    <2>2. /\ member = s /\ member' = None /\ invitations' = invitations
          /\ Line(s, "removed")
      BY <1>10, <2>1 DEF Removes
    <2>3. Pending(s) = {}
      BY <1>1, <1>2, <2>2 DEF NonePendingOnceJoined
    <2>4. \A t : Pending(t)' = Pending(t)
      BY <2>2 DEF Pending
    <2> QED BY <1>1, <1>7, <2>2, <2>3, <2>4
  <1>11. CASE req[r].op.type = "remove" /\ Withdraws(Shelter(r))
    <2>1. PICK s \in Shelters : s = Shelter(r)
      BY <1>1, <1>11
    <2>2. Pending(s) # {} /\ member' = member /\ Line(s, "removed")
      BY <1>11, <2>1 DEF Withdraws
    <2>3. member # s
      BY <1>1, <1>2, <2>2 DEF NonePendingOnceJoined
    <2>4. /\ Pending(s)' = {}
          /\ \A t : Pending(t)' \subseteq Pending(t)
      BY <1>1, <1>11, <2>1, WithdrawsFacts
    <2> QED BY <1>1, <1>7, <2>2, <2>3, <2>4
  <1>12. CASE Joins(req[r].invitation, req[r].now)
    <2>1. PICK s \in Shelters : s = invitations[req[r].invitation].shelter
      BY <1>1, <1>12, JoinsFacts
    <2>2. member = None /\ member' = s /\ Line(s, "joined")
      BY <1>12, <2>1 DEF Joins
    <2>3. \A t : Pending(t)' \subseteq Pending(t)
      BY <1>1, <1>12, JoinsFacts
    <2> QED BY <1>1, <1>7, <2>2, <2>3
  <1> QED
    BY <1>1, <1>5, <1>6, <1>8, <1>9, <1>10, <1>11, <1>12
       DEF Effect, Stays, Rows, Opens, Organizes, Grants, Revokes


LEMMA TalesStill ==
  ASSUME Base, HistoryTellsAdmins, [Next]_vars,
         Quiet \/ \E r \in Requests : Begins(r)
  PROVE  HistoryTellsAdmins'
  <1>1. UNCHANGED <<member, history, invitations>>
    BY DEF Quiet, Begins, Stays, Rows
  <1> QED BY <1>1 DEF HistoryTellsAdmins, Pending

(* What a resend found is still held, and pending for one who has not      *)
(* joined.                                                                 *)
LEMMA HeldNotYetIn ==
  ASSUME Base, NonePendingOnceJoined, NEW r \in Requests, StillOwn(r)
  PROVE  NotYetIn(r)
  <1> SUFFICES ASSUME req[r].pc \in Found, req[r].op.type = "resend",
                      invitations[req[r].invitation].status = "pending"
               PROVE  member # Shelter(r)
    BY DEF NotYetIn
  <1>1. req[r].pc # "idle" /\ Shelter(r) \in Shelters /\ ReqInv(r)
    BY AtFacts DEF Found
  <1>2. req[r].invitation \in Pending(Shelter(r))
    BY <1>1 DEF ReqInv, StillOwn, Pending, Shelter
  <1> QED
    BY <1>1, <1>2, InvitationsAssumption DEF NonePendingOnceJoined

LEMMA HistoryKept ==
  ASSUME Base, JoinsInv, ErasureInv, HistoryUnlessCrossed, [Next]_vars
  PROVE  HistoryUnlessCrossed'
  <1> SUFFICES ASSUME crossed' \cap {"invite", "resend"} = {}
               PROVE  HistoryTellsAdmins'
    BY DEF HistoryUnlessCrossed
  <1>1. "invite" \notin crossed /\ "resend" \notin crossed
    BY CrossedGrows
  <1>2. /\ HistoryTellsAdmins /\ NonePendingOnceJoined
        /\ \A r \in Requests : Uncommitted(r) /\ StillOwn(r)
    BY <1>1 DEF HistoryUnlessCrossed, JoinsInv, ErasureInv
  <1> QED BY <1>2, NextCases, TalesStill, TalesKept, HeldNotYetIn

(* A shelter's history names as joined the admin it has, and as removed    *)
(* nobody who could still accept, unless an invite was past its look for   *)
(* roles at an accept, or a resend under way at an erasure.                *)
THEOREM HistoryAgreesWithAdmins == Spec => []HistoryUnlessCrossed
  <1>1. Init => HistoryUnlessCrossed
    BY InitFacts DEF HistoryUnlessCrossed, HistoryTellsAdmins, Pending
  <1>2. /\ Base /\ JoinsInv /\ ErasureInv
        /\ HistoryUnlessCrossed /\ [Next]_vars
        => HistoryUnlessCrossed'
    BY HistoryKept
  <1> QED
    BY AlwaysBase, AlwaysJoins, AlwaysErasure, <1>1, <1>2, PTL DEF Spec


-----------------------------------------------------------------------------
(* The life of AdminLife.                                                  *)

(* What the sets of shelters are, of the invitations still pending.        *)
Shape ==
  \A s \in Shelters :
    /\ s \in Asked <=> Pending(s) # {}
    /\ s \in OpenNow <=> \E k \in Pending(s) : invitations[k].expires >= clock

LEMMA OpenShape == RowTypes => Shape
  <1> SUFFICES ASSUME RowTypes PROVE Shape
    OBVIOUS
  <1>1. \A s \in Shelters :
          LiveTo({s}, TRUE, clock)
            = {k \in Pending(s) : invitations[k].expires >= clock}
    BY RowShapes DEF LiveTo, Live, Pending
  <1> QED BY <1>1 DEF Shape, Asked, OpenNow

LEMMA OpenShapeNext == RowTypes' => Shape'
  BY OpenShape, PTL

(* A shelter whose invitations a step leaves alone.                        *)
LEMMA OthersOpen ==
  ASSUME RowTypes, RowTypes', clock' = clock, NEW t \in Shelters,
         Pending(t)' = Pending(t),
         \A k \in Pending(t) : invitations'[k].expires = invitations[k].expires
  PROVE  /\ t \in Asked' <=> t \in Asked
         /\ t \in OpenNow' <=> t \in OpenNow
  <1>1. Shape /\ Shape'
    BY OpenShape, OpenShapeNext
  <1> QED BY <1>1 DEF Shape

LEMMA LineNames ==
  ASSUME RowTypes, NEW s \in Shelters,
         NEW kind \in {"invited", "resent", "joined", "removed"}, Line(s, kind)
  PROVE  NamedBy' = NamedBy \cup {s}
  <1>1. /\ history'[s].named
        /\ \A t \in Shelters \ {s} : history'[t] = history[t]
    BY LineFacts
  <1> QED BY <1>1 DEF NamedBy

(* The pending ones of one shelter end, and the others stay.               *)
LEMMA SettleLives ==
  ASSUME RowTypes, RowTypes', clock' = clock, NEW s \in Shelters,
         NEW kind \in {"joined", "removed"}, Line(s, kind),
         Pending(s) # {}, Pending(s)' = {},
         \A t \in Shelters \ {s} : Pending(t)' = Pending(t),
         \A k \in DOMAIN invitations :
           invitations'[k].expires = invitations[k].expires
  PROVE  Life!Settle(s)
  <1>1. s \in Asked /\ s \notin Asked' /\ s \notin OpenNow'
    <2>1. Shape /\ Shape'
      BY OpenShape, OpenShapeNext
    <2> QED BY <2>1 DEF Shape
  <1>2. ASSUME NEW t \in Shelters \ {s}
        PROVE  (t \in Asked' <=> t \in Asked) /\ (t \in OpenNow' <=> t \in OpenNow)
    <2>1. Pending(t) \subseteq DOMAIN invitations
      BY DEF Pending
    <2> QED BY <2>1, OthersOpen
  <1>3. /\ Asked \subseteq Shelters /\ Asked' \subseteq Shelters
        /\ OpenNow \subseteq Shelters /\ OpenNow' \subseteq Shelters
    BY DEF Asked, OpenNow
  <1>4. Asked' = Asked \ {s} /\ OpenNow' = OpenNow \ {s}
    BY <1>1, <1>2, <1>3
  <1>5. NamedBy' = NamedBy \cup {s}
    BY LineNames
  <1> QED BY <1>1, <1>4, <1>5 DEF Life!Settle

(* What a write may give up.                                               *)
LEMMA CrossesLives ==
  ASSUME NEW s
  PROVE  /\ AskCrosses(s) => Life!Crosses({"asks"})
         /\ JoinCrosses(s) => Life!Crosses({"grant", "invite"})
         /\ EraseCrosses => Life!Crosses({"resend"})
  BY DEF AskCrosses, JoinCrosses, EraseCrosses, Life!Crosses

(* An invite's or a resend's write.                                        *)
LEMMA AskLives ==
  ASSUME Base, RowTypes', clock' = clock, NEW r \in Requests,
         req[r].pc = "write", req[r].op.type \in {"invite", "resend"},
         "asks" \notin crossed =>
           LiveTo(Elsewhere(req[r].op), TRUE, req[r].now) = {},
         NEW s \in Shelters, s = Shelter(r),
         "invite" \notin crossed => member # s,
         NEW kind \in {"invited", "resent"}, Line(s, kind), AskCrosses(s),
         Pending(s)' # {},
         \A t \in Shelters \ {s} :
           /\ Pending(t)' = Pending(t)
           /\ \A k \in Pending(t) :
                invitations'[k].expires = invitations[k].expires,
         UNCHANGED <<account, member, grant>>
  PROVE  Life!Next
  <1>1. /\ RowTypes /\ clock \in Nat
        /\ req[r].now \in Nat /\ req[r].now <= clock
    BY AtFacts DEF Base, ReqInv, RequestStates
  <1>2. ASSUME "asks" \notin crossed, NEW t \in Shelters, t \in OpenNow
        PROVE  t = s
    <2>1. PICK k \in LiveTo({t}, TRUE, clock) : TRUE
      BY <1>2 DEF OpenNow
    <2>2. k \in LiveTo(Shelters, TRUE, clock) /\ invitations[k].shelter = t
      BY <2>1 DEF LiveTo
    <2> QED BY <1>1, <1>2, <2>2, StillLive DEF Shelter
  <1>3. ASSUME NEW t \in Shelters \ {s}
        PROVE  (t \in Asked' <=> t \in Asked) /\ (t \in OpenNow' <=> t \in OpenNow)
    BY <1>1, OthersOpen
  <1>4. /\ Asked \subseteq Shelters /\ Asked' \subseteq Shelters
        /\ OpenNow \subseteq Shelters /\ OpenNow' \subseteq Shelters
    BY DEF Asked, OpenNow
  <1>5. s \in Asked'
    BY DEF Asked
  <1>6. Asked' = Asked \cup {s}
    BY <1>3, <1>4, <1>5
  <1>7. /\ OpenNow \subseteq {s} \/ "asks" \in crossed
        /\ OpenNow' \ {s} = OpenNow \ {s}
    BY <1>2, <1>3, <1>4
  <1>8. NamedBy' = NamedBy \cup {s}
    BY <1>1, LineNames
  <1>9. Life!Ask(s)
    BY <1>6, <1>7, <1>8, CrossesLives DEF Life!Ask
  <1> QED BY <1>9 DEF Life!Next

(* A resend's write to an invitation that no longer holds the address.     *)
LEMMA NameLateLives ==
  ASSUME Base, RowTypes', clock' = clock, "resend" \in crossed,
         NEW s \in Shelters, NEW k, NEW now \in Nat,
         Renews(s, k, now), ~invitations[k].own
  PROVE  Life!Next
  <1>1. /\ \A j \in DOMAIN invitations \ {k} : invitations'[j] = invitations[j]
        /\ \A t : Pending(t)' = Pending(t)
    BY RenewsFacts DEF Base
  <1>2. \A t : Pending(t) \subseteq DOMAIN invitations \ {k}
    BY DEF Pending
  <1>3. ASSUME NEW t \in Shelters
        PROVE  (t \in Asked' <=> t \in Asked) /\ (t \in OpenNow' <=> t \in OpenNow)
    <2>1. \A j \in Pending(t) : invitations'[j].expires = invitations[j].expires
      BY <1>1, <1>2
    <2> QED BY <1>1, <2>1, OthersOpen DEF Base
  <1>4. Asked' = Asked /\ OpenNow' = OpenNow
    BY <1>3 DEF Asked, OpenNow
  <1>5. /\ NamedBy' = NamedBy \cup {s} /\ Life!Crosses({"asks"})
        /\ UNCHANGED <<account, member, grant>>
    BY LineNames, CrossesLives DEF Renews, Base
  <1>6. Life!NameLate(s)
    BY <1>4, <1>5 DEF Life!NameLate
  <1> QED BY <1>6 DEF Life!Next

(* Every statement is a step of that life, or none.                        *)
LEMMA StepLives ==
  ASSUME Base, RolesInv, InvitesInv, JoinsInv, ErasureInv,
         NEW r \in Requests, Step(r)
  PROVE  [Life!Next]_(Life!life)
  <1>1. /\ RowTypes /\ RowTypes' /\ Effect(r) /\ req[r].pc # "idle"
        /\ clock' = clock /\ req[r].now \in Nat
        /\ req[r].op.type \in {"invite", "resend", "remove"} =>
             Shelter(r) \in Shelters
        /\ \A s \in Shelters : s # None
    BY StepFacts, InvitationsAssumption DEF Base
  <1>2. CASE UNCHANGED <<account, member, grant, invitations, history, crossed>>
    BY <1>1, <1>2
       DEF Life!life, Asked, OpenNow, NamedBy, Pending, LiveTo
  <1>3. CASE Erases
    <2>1. /\ account # None /\ member = None /\ grant = "none"
          /\ account' = None /\ UNCHANGED <<member, grant>>
          /\ LiveTo(Shelters, TRUE, clock) = {}
      BY <1>3 DEF Erases, Erase
    <2>2. /\ DOMAIN invitations' = DOMAIN invitations
          /\ \A k \in DOMAIN invitations : ~invitations'[k].own
          /\ \A s \in Shelters : history'[s].named => history[s].named
      BY <1>1, <1>3, EraseFacts
    <2>3. Asked' = {} /\ OpenNow' = {} /\ NamedBy' \subseteq NamedBy
      BY <2>2 DEF Asked, OpenNow, NamedBy, Pending, LiveTo
    <2>4. NamedBy' = {} \/ "resend" \in crossed
      BY <1>3, ErasesAll DEF ErasureInv, NoTrace, NamedBy
    <2>5. OpenNow = {}
      BY <2>1 DEF OpenNow, LiveTo
    <2>6. Life!Crosses({"resend"})
      BY <1>3, CrossesLives DEF Erases, Erase
    <2>7. Life!Forget
      BY <2>1, <2>3, <2>4, <2>5, <2>6 DEF Life!Forget
    <2> QED BY <2>7 DEF Life!Next
  <1>4. CASE Opens
    <2>1. account = None /\ account' # None
      BY <1>4, InvitationsAssumption DEF Opens
    <2>2. UNCHANGED <<member, grant, Asked, OpenNow, NamedBy, crossed>>
      BY <1>1, <1>4 DEF Opens, Asked, OpenNow, NamedBy, Pending, LiveTo
    <2>3. Life!Appear
      BY <2>1, <2>2 DEF Life!Appear
    <2> QED BY <2>3 DEF Life!Next
  <1>5. CASE /\ req[r].op.type = "invite" /\ req[r].pc = "write"
             /\ Invites(Shelter(r), req[r].now)
    <2>1. PICK s \in Shelters : s = Shelter(r)
      BY <1>1, <1>5
    <2>2. "invite" \notin crossed => member # s
      BY <1>1, <1>5, <2>1 DEF JoinsInv, Uncommitted, ReqInv, Base
    <2>3. "asks" \notin crossed =>
            LiveTo(Elsewhere(req[r].op), TRUE, req[r].now) = {}
      BY <1>5 DEF InvitesInv, NoneElsewhere
    <2>4. /\ Pending(s)' # {}
          /\ \A k \in DOMAIN invitations : invitations'[k] = invitations[k]
          /\ \A t \in Shelters \ {s} : Pending(t)' = Pending(t)
      BY <1>1, <1>5, <2>1, InvitesFacts
    <2>5. \A t : Pending(t) \subseteq DOMAIN invitations
      BY DEF Pending
    <2>6. /\ Line(s, "invited") /\ AskCrosses(s)
          /\ UNCHANGED <<account, member, grant>>
      BY <1>5, <2>1 DEF Invites
    <2>7. Life!Next
      BY <1>1, <1>5, <2>1, <2>2, <2>3, <2>4, <2>5, <2>6, AskLives
    <2> QED BY <2>7
  <1>6. CASE /\ req[r].op.type = "resend" /\ req[r].pc = "write"
             /\ Renews(Shelter(r), req[r].invitation, req[r].now)
    <2>1. PICK s \in Shelters : s = Shelter(r)
      BY <1>1, <1>6
    <2>2. CASE ~invitations[req[r].invitation].own
      <3>1. "resend" \in crossed
        BY <1>6, <2>2 DEF ErasureInv, StillOwn, Found
      <3> QED BY <1>1, <1>6, <2>1, <2>2, <3>1, NameLateLives
    <2>3. CASE invitations[req[r].invitation].own
      <3>1. "asks" \notin crossed =>
              LiveTo(Elsewhere(req[r].op), TRUE, req[r].now) = {}
        BY <1>6, <2>3 DEF InvitesInv, NoneElsewhere
      <3>2. /\ \A j \in DOMAIN invitations \ {req[r].invitation} :
                 invitations'[j] = invitations[j]
            /\ \A t : Pending(t)' = Pending(t)
        BY <1>1, <1>6, RenewsFacts
      <3>3. req[r].invitation \in Pending(s)
        BY <1>6, <2>1, <2>3 DEF Renews, Pending
      <3>4. "invite" \notin crossed => member # s
        BY <1>1, <3>3 DEF JoinsInv, NonePendingOnceJoined
      <3>5. \A t \in Shelters \ {s} :
              Pending(t) \subseteq DOMAIN invitations \ {req[r].invitation}
        BY <3>3 DEF Pending
      <3>6. /\ Line(s, "resent") /\ AskCrosses(s)
            /\ UNCHANGED <<account, member, grant>>
        BY <1>6, <2>1 DEF Renews
      <3> QED BY <1>1, <1>6, <2>1, <3>1, <3>2, <3>3, <3>4, <3>5, <3>6, AskLives
    <2> QED BY <2>2, <2>3
  <1>7. CASE req[r].op.type = "remove" /\ Removes(Shelter(r))
    <2>1. PICK s \in Shelters : s = Shelter(r)
      BY <1>1, <1>7
    <2>2. /\ member = s /\ member' = None /\ Line(s, "removed")
          /\ UNCHANGED <<account, grant, invitations, crossed>>
      BY <1>7, <2>1 DEF Removes
    <2>3. "invite" \notin crossed => Pending(s) = {}
      BY <1>1, <2>2 DEF JoinsInv, NonePendingOnceJoined
    <2>4. /\ UNCHANGED <<Asked, OpenNow>>
          /\ "invite" \notin crossed => s \notin Asked
      BY <1>1, <2>2, <2>3 DEF Asked, OpenNow, Pending, LiveTo
    <2>5. NamedBy' = NamedBy \cup {s}
      BY <1>1, <2>2, LineNames
    <2>6. Life!Leave
      BY <1>1, <2>2, <2>4, <2>5 DEF Life!Leave
    <2> QED BY <2>6 DEF Life!Next
  <1>8. CASE req[r].op.type = "remove" /\ Withdraws(Shelter(r))
    <2>1. PICK s \in Shelters : s = Shelter(r)
      BY <1>1, <1>8
    <2>2. /\ Pending(s) # {} /\ Line(s, "removed")
          /\ UNCHANGED <<account, member, grant, crossed>>
      BY <1>8, <2>1 DEF Withdraws
    <2>3. /\ Pending(s)' = {}
          /\ \A t \in Shelters \ {s} : Pending(t)' = Pending(t)
          /\ \A k \in DOMAIN invitations :
               invitations'[k].expires = invitations[k].expires
      BY <1>1, <1>8, <2>1, WithdrawsFacts
    <2>4. Life!Settle(s)
      BY <1>1, <2>2, <2>3, SettleLives
    <2>5. Life!Withdraw(s)
      BY <2>2, <2>4 DEF Life!Withdraw
    <2> QED BY <2>5 DEF Life!Next
  <1>9. CASE Joins(req[r].invitation, req[r].now)
    <2>1. PICK s \in Shelters : s = invitations[req[r].invitation].shelter
      BY <1>1, <1>9, JoinsFacts
    <2>2. /\ account # None /\ member = None /\ grant # "active"
          /\ member' = s /\ Line(s, "joined") /\ JoinCrosses(s)
          /\ UNCHANGED <<account, grant>>
      BY <1>9, <2>1 DEF Joins
    <2>3. /\ Pending(s) # {} /\ Pending(s)' = {}
          /\ \A t \in Shelters \ {s} : Pending(t)' = Pending(t)
          /\ \A k \in DOMAIN invitations :
               invitations'[k].expires = invitations[k].expires
      BY <1>1, <1>9, <2>1, JoinsFacts
    <2>4. Life!Settle(s)
      BY <1>1, <2>2, <2>3, SettleLives
    <2>5. Life!Join(s)
      BY <2>2, <2>4, CrossesLives DEF Life!Join
    <2> QED BY <2>5 DEF Life!Next
  <1>10. CASE req[r].op.type = "grant" /\ req[r].pc = "write" /\ Grants
    <2>1. /\ account # None /\ grant' = "active"
          /\ UNCHANGED <<account, member, invitations, history, crossed>>
      BY <1>10 DEF Grants
    <2>2. member = None \/ "grant" \in crossed
      BY <1>10 DEF RolesInv, Unattached
    <2>3. UNCHANGED <<Asked, OpenNow, NamedBy>>
      BY <1>1, <2>1 DEF Asked, OpenNow, NamedBy, Pending, LiveTo
    <2>4. Life!Grant
      BY <2>1, <2>2, <2>3 DEF Life!Grant
    <2> QED BY <2>4 DEF Life!Next
  <1>11. CASE Revokes
    <2>1. /\ grant = "active" /\ grant' = "revoked"
          /\ UNCHANGED <<account, member, invitations, history, crossed>>
      BY <1>11 DEF Revokes
    <2>2. UNCHANGED <<Asked, OpenNow, NamedBy>>
      BY <1>1, <2>1 DEF Asked, OpenNow, NamedBy, Pending, LiveTo
    <2>3. Life!Revoke
      BY <2>1, <2>2 DEF Life!Revoke
    <2> QED BY <2>3 DEF Life!Next
  <1> QED
    BY <1>1, <1>2, <1>3, <1>4, <1>5, <1>6, <1>7, <1>8, <1>9, <1>10, <1>11
       DEF Effect, Stays, Rows, Organizes

(* As time passes, invitations expire.                                     *)
LEMMA QuietLives ==
  ASSUME Base, Quiet
  PROVE  Life!Next
  <1>1. /\ UNCHANGED <<member, grant, invitations, history, crossed>>
        /\ account' = None <=> account = None
        /\ clock \in Nat /\ clock' \in Nat /\ clock <= clock'
        /\ RowTypes
    BY DEF Quiet, Base
  <1>2. UNCHANGED <<Asked, NamedBy>>
    BY <1>1 DEF Asked, NamedBy, Pending
  <1>3. \A s \in Shelters :
          LiveTo({s}, TRUE, clock)' \subseteq LiveTo({s}, TRUE, clock)
    BY <1>1, RowShapes DEF LiveTo, Live
  <1>4. OpenNow' \subseteq OpenNow
    BY <1>3 DEF OpenNow
  <1>5. Life!Expire
    BY <1>1, <1>2, <1>4 DEF Life!Expire
  <1> QED BY <1>5 DEF Life!Next

LEMMA BeginsLives ==
  ASSUME NEW r, Begins(r)
  PROVE  UNCHANGED Life!life
  BY DEF Begins, Stays, Rows, Life!life, Asked, OpenNow, NamedBy, Pending, LiveTo

LEMMA LifeInit ==
  ASSUME Init
  PROVE  Life!Init
  <1>1. /\ DOMAIN invitations = {} /\ member = None /\ crossed = {}
        /\ \A s \in Shelters : ~history[s].named
        /\ grant \in IF account = None THEN {"none"} ELSE {"none", "revoked"}
    BY InitFacts DEF Init
  <1>2. Asked = {} /\ OpenNow = {} /\ NamedBy = {}
    BY <1>1 DEF Asked, OpenNow, NamedBy, Pending, LiveTo
  <1> QED BY <1>1, <1>2 DEF Life!Init

(* However requests are repeated, overlap and die, one address lives the   *)
(* life of AdminLife.                                                      *)
THEOREM AdminLifeImplemented == Spec => ImplementsAdminLife
  <1>1. /\ Base /\ RolesInv /\ InvitesInv /\ JoinsInv /\ ErasureInv
        /\ [Next]_vars
        => [Life!Next]_(Life!life)
    BY NextCases, QuietLives, BeginsLives, StepLives
  <1> QED
    BY AlwaysBase, AlwaysRoles, AlwaysInvites, AlwaysJoins, AlwaysErasure,
       <1>1, LifeInit, PTL
       DEF Spec, ImplementsAdminLife, Life!Spec

=============================================================================
