---------------------------- MODULE Invitations ----------------------------
(***************************************************************************)
(* One person's address and everything that gives it a role: the           *)
(* registry's invitations to shelters, the accept at sign-in, the removal  *)
(* of an admin, the operator's grant, and the clean-up that erases an      *)
(* account nobody invites any more.                                        *)
(*                                                                         *)
(* There are no transactions: a request is a row of statements, each       *)
(* atomic and each at the instant the request arrived at, and other        *)
(* requests' statements land between them.  A request may also die         *)
(* between two.  The clean-up's list and its delete are one step, since    *)
(* the delete asks everything again.                                       *)
(*                                                                         *)
(* Nothing keeps two procedures apart.  Some cross: crossed is a history   *)
(* variable that notes it, so that what breaks a promise can be named.     *)
(***************************************************************************)
EXTENDS Integers, Sequences, FiniteSets

CONSTANTS
  None,
  Shelters,
  Lifetime,      \* INVITATION_TTL_MS
  Requests,      \* the slots in which requests run
  OpTypes,       \* the procedures called, of those in AllOpTypes
  Crashes,       \* whether a request may die between two statements
  StartAccounts, \* the accounts the address may start with
  MaxRequests,   \* bound on the requests of a behaviour
  MaxClock       \* bound on the clock

AllOpTypes ==
  {"invite", "resend", "remove", "accept", "grant", "revoke", "clean_up"}

(* An account of the address.  createdFor is the shelter whose invitation  *)
(* created it, None when none did.                                         *)
Accounts == [id : Nat, verified : BOOLEAN, createdFor : Shelters \cup {None}]

Ops == [type : OpTypes, shelter : Shelters \cup {None}]

ASSUME InvitationsAssumption ==
  /\ None \notin Shelters \cup Nat \cup Accounts \cup Ops
  /\ Lifetime \in Nat
  /\ OpTypes \subseteq AllOpTypes
  /\ Crashes \in BOOLEAN
  /\ \A a \in StartAccounts \ {None} :
       a \in Accounts /\ a.id = 0 /\ a.createdFor = None
  /\ MaxRequests \in Nat
  /\ MaxClock \in Nat

Statuses == {"pending", "accepted", "canceled"}

(* own is whether the row still holds the address, or its placeholder.     *)
InvitationRows ==
  [shelter : Shelters, status : Statuses, expires : Nat, created : Nat,
   own : BOOLEAN]

(* Of a shelter's history about the address: the last line, and whether    *)
(* any line still holds the address.                                       *)
Histories ==
  [last : {"none", "invited", "resent", "joined", "removed"},
   named : BOOLEAN]

(* existing is the account an invite first found, user the last one looked *)
(* up, invitation and own what a resend or an accept read.                 *)
RequestStates ==
  [pc : {"idle", "clean", "user", "roles", "elsewhere", "org", "make", "link",
         "find", "load", "plan", "write", "create", "erase"},
   op : Ops \cup {None}, now : Nat, again : BOOLEAN,
   existing : Nat \cup {None}, user : Nat \cup {None},
   invitation : Nat, own : BOOLEAN, joined : BOOLEAN]

Idle == [pc |-> "idle", op |-> None, now |-> 0, again |-> FALSE,
         existing |-> None, user |-> None, invitation |-> 0, own |-> TRUE,
         joined |-> FALSE]

VARIABLES
  account,      \* the address's account, or None
  member,       \* the shelter the account is a member of, or None
  grant,        \* its operator's grant: "none", "active" or "revoked"
  organization, \* of each shelter: "none", "made" or "linked"
  invitations,  \* the invitations ever sent to the address, oldest first
  history,      \* what each shelter's history says of it
  lastId,       \* the last account's id
  crossed,      \* history: the crossings that have happened
  req, clock, started

vars == <<account, member, grant, organization, invitations, history, lastId,
          crossed, req, clock, started>>

Init ==
  /\ account \in StartAccounts
  /\ member = None
  /\ grant \in IF account = None THEN {"none"} ELSE {"none", "revoked"}
  /\ organization = [s \in Shelters |-> "none"]
  /\ invitations = <<>>
  /\ history = [s \in Shelters |-> [last |-> "none", named |-> FALSE]]
  /\ lastId = 0
  /\ crossed = {}
  /\ req = [r \in Requests |-> Idle]
  /\ clock = 0
  /\ started = 0

-----------------------------------------------------------------------------
(* What the statements ask.                                                *)

AccountId == IF account = None THEN None ELSE account.id

Live(i, now) == i.status = "pending" /\ i.expires >= now

Pending(s) ==
  {k \in DOMAIN invitations : /\ invitations[k].own
                              /\ invitations[k].status = "pending"
                              /\ invitations[k].shelter = s}

LiveTo(shelters, own, now) ==
  {k \in DOMAIN invitations : /\ invitations[k].own = own
                              /\ Live(invitations[k], now)
                              /\ invitations[k].shelter \in shelters}

(* The newest; instants may tie, and then the ids, which are random.       *)
Newest(ks) ==
  {k \in ks : \A j \in ks : invitations[j].created <= invitations[k].created}

HasRole(user) ==
  user # None /\ user = AccountId /\ (member # None \/ grant = "active")

(* Mutant: an invitation still valid does not keep the account.            *)
ErasableInvited(now) == account # None /\ member = None /\ grant = "none"

(* The account that holds no role, is invited nowhere, and was never an    *)
(* operator.                                                               *)
Erasable(now) ==
  /\ account # None
  /\ member = None
  /\ grant = "none"
  /\ LiveTo(Shelters, TRUE, now) = {}

PendingAdmin(s) == account # None /\ member # s /\ Pending(s) # {}

-----------------------------------------------------------------------------
(* Crossings: a write lands while a request that has looked, and will not  *)
(* look again, is still to write.  What was promised of the two together   *)
(* no longer holds, or may not.                                            *)

Crossings == {"grant", "asks", "invite", "resend"}

(* A grant that found no membership, as an accept joins.                   *)
GrantsPast ==
  {q \in Requests : /\ req[q].pc \in {"elsewhere", "write"}
                    /\ req[q].op.type = "grant"}

(* An invite that found no role of the account, as an accept joins.        *)
InvitesPast(s) ==
  {q \in Requests : /\ req[q].pc \in {"roles", "elsewhere", "write"}
                    /\ req[q].op = [type |-> "invite", shelter |-> s]
                    /\ req[q].again
                    /\ req[q].pc = "roles" => req[q].user # AccountId}

(* Another shelter's invite or resend that found nothing valid elsewhere,  *)
(* as an invitation is made valid.                                         *)
AsksPast(s) ==
  {q \in Requests : /\ req[q].pc = "write"
                    /\ req[q].op.type \in {"invite", "resend"}
                    /\ req[q].op.shelter # s}

(* A resend that found an invitation, as the address is erased.            *)
Found == {"load", "roles", "elsewhere", "write"}

ResendsPast ==
  {q \in Requests : req[q].pc \in Found /\ req[q].op.type = "resend"}

JoinCrosses(s) ==
  crossed' = crossed \cup {"grant" : q \in GrantsPast}
                     \cup {"invite" : q \in InvitesPast(s)}
AskCrosses(s)  == crossed' = crossed \cup {"asks" : q \in AsksPast(s)}
EraseCrosses   == crossed' = crossed \cup {"resend" : q \in ResendsPast}

-----------------------------------------------------------------------------
(* The statements that several requests share.                             *)

Invited == {invitations[k].shelter :
              k \in {j \in DOMAIN invitations : invitations[j].own}}

(* Mutant: only the shelter that created the account is scrubbed.          *)
ScrubbedCreatedFor == {account.createdFor}

(* The shelters whose history an erasure scrubs: all that ever invited.    *)
Scrubbed == {s \in Invited : organization[s] = "linked"}

(* The account goes, and the address with it wherever it was written.      *)
Erase ==
  /\ account' = None
  /\ invitations' = [k \in DOMAIN invitations |->
                       [invitations[k] EXCEPT !.own = FALSE]]
  /\ history' = [s \in Shelters |->
                   IF s \in Scrubbed THEN [history[s] EXCEPT !.named = FALSE]
                                     ELSE history[s]]
  /\ EraseCrosses

(* cleanUpInvitedUsers, or the cron's sweep over all shelters.             *)
CleanUp(shelters, now) ==
  IF Erasable(now) /\ account.createdFor \in shelters
  THEN Erase
  ELSE UNCHANGED <<account, invitations, history, crossed>>

Line(s, kind) == history' = [history EXCEPT ![s] = [last |-> kind,
                                                    named |-> TRUE]]

Goes(r, pc) == req' = [req EXCEPT ![r].pc = pc]
Ends(r)     == req' = [req EXCEPT ![r] = Idle]

At(r, pc, types) == req[r].pc = pc /\ req[r].op.type \in types

Rows == <<account, member, grant, organization, invitations, history, lastId,
          crossed>>

-----------------------------------------------------------------------------
(* The world.                                                              *)

Tick ==
  /\ clock < MaxClock
  /\ clock' = clock + 1
  /\ UNCHANGED <<Rows, req, started>>

(* Creating a password through the invite link proves the address.         *)
Verify ==
  /\ account # None
  /\ ~account.verified
  /\ account' = [account EXCEPT !.verified = TRUE]
  /\ UNCHANGED <<member, grant, organization, invitations, history, lastId,
                 crossed, req, clock, started>>

FirstStep(op) ==
  CASE op.type \in {"invite", "resend", "clean_up"} -> "clean"
    [] op.type \in {"remove", "grant"}              -> "find"
    [] op.type = "accept"                           -> "plan"
    [] op.type = "revoke"                           -> "write"

(* The registry's screen names the admin it showed, and an accept the      *)
(* account that is signed in.                                              *)
Arrives(r, op) ==
  /\ req[r].pc = "idle"
  /\ op.type \in OpTypes
  /\ started < MaxRequests
  /\ op.type \in {"resend", "remove", "accept"} => account # None
  /\ started' = started + 1
  /\ req' = [req EXCEPT ![r] = [Idle EXCEPT !.pc = FirstStep(op), !.op = op,
                                            !.now = clock,
                                            !.user = AccountId]]
  /\ UNCHANGED <<Rows, clock>>

ArriveSome(r) ==
  \/ \E type \in {"invite", "resend", "remove"}, s \in Shelters :
       Arrives(r, [type |-> type, shelter |-> s])
  \/ \E type \in {"accept", "grant", "revoke", "clean_up"} :
       Arrives(r, [type |-> type, shelter |-> None])

(* A request dies between two of its statements.                           *)
Dies(r) ==
  /\ Crashes
  /\ req[r].pc # "idle"
  /\ req[r].pc # FirstStep(req[r].op)
  /\ Ends(r)
  /\ UNCHANGED <<Rows, clock, started>>

-----------------------------------------------------------------------------
(* Steps several requests have.                                            *)

Shelter(r) == req[r].op.shelter

Scope(op) == IF op.shelter = None THEN Shelters ELSE {op.shelter}

(* An invite and a resend begin by cleaning up, a removal ends by it.      *)
Cleans(r) ==
  /\ req[r].pc = "clean"
  /\ CleanUp(Scope(req[r].op), req[r].now)
  /\ CASE req[r].op.type = "invite" -> Goes(r, "user")
       [] req[r].op.type = "resend" -> Goes(r, "find")
       [] OTHER -> Ends(r)
  /\ UNCHANGED <<member, grant, organization, lastId, clock, started>>

(* roleOfAddress, of the account and then of the invitations.              *)
ChecksRoles(r) ==
  /\ req[r].pc = "roles"
  /\ IF HasRole(req[r].user) THEN Ends(r) ELSE Goes(r, "elsewhere")
  /\ UNCHANGED <<Rows, clock, started>>

(* Mutant: an invitation elsewhere is no role.                              *)
ElsewhereNowhere(op) == {}

Elsewhere(op) == Shelters \ {op.shelter}

ChecksElsewhere(r) ==
  /\ At(r, "elsewhere", {"invite", "resend"})
  /\ IF LiveTo(Elsewhere(req[r].op), req[r].own, req[r].now) # {}
     THEN Ends(r)
     ELSE Goes(r, IF req[r].op.type = "invite" /\ ~req[r].again THEN "org"
                                                               ELSE "write")
  /\ UNCHANGED <<Rows, clock, started>>

-----------------------------------------------------------------------------
(* Inviting.                                                               *)

InviteLooksUp(r) ==
  /\ At(r, "user", {"invite"})
  /\ req' = [req EXCEPT ![r].pc = "roles", ![r].user = AccountId,
                        ![r].existing = IF req[r].again THEN @ ELSE AccountId]
  /\ UNCHANGED <<Rows, clock, started>>

(* ensureOrganization.  The slug is unique: a second insert throws.        *)
InviteFindsOrganization(r) ==
  /\ At(r, "org", {"invite"})
  /\ IF organization[Shelter(r)] = "linked"
     THEN req' = [req EXCEPT ![r].pc = "user", ![r].again = TRUE]
     ELSE Goes(r, "make")
  /\ UNCHANGED <<Rows, clock, started>>

InviteMakesOrganization(r) ==
  /\ At(r, "make", {"invite"})
  /\ IF organization[Shelter(r)] = "none"
     THEN /\ organization' = [organization EXCEPT ![Shelter(r)] = "made"]
          /\ Goes(r, "link")
     ELSE Ends(r) /\ UNCHANGED organization
  /\ UNCHANGED <<account, member, grant, invitations, history, lastId, crossed,
                 clock, started>>

InviteLinksOrganization(r) ==
  /\ At(r, "link", {"invite"})
  /\ organization' = [organization EXCEPT ![Shelter(r)] = "linked"]
  /\ req' = [req EXCEPT ![r].pc = "user", ![r].again = TRUE]
  /\ UNCHANGED <<account, member, grant, invitations, history, lastId, crossed,
                 clock, started>>

Expiry(now) == now + Lifetime

InviteWrites(r) ==
  /\ At(r, "write", {"invite"})
  /\ invitations' = Append(invitations,
                           [shelter |-> Shelter(r), status |-> "pending",
                            expires |-> Expiry(req[r].now),
                            created |-> req[r].now, own |-> TRUE])
  /\ Line(Shelter(r), "invited")
  /\ AskCrosses(Shelter(r))
  /\ IF req[r].existing = None THEN Goes(r, "create") ELSE Ends(r)
  /\ UNCHANGED <<account, member, grant, organization, lastId, clock, started>>

(* The address's account is unique: a second insert throws.                *)
InviteCreatesAccount(r) ==
  /\ At(r, "create", {"invite"})
  /\ IF account = None
     THEN /\ account' = [id |-> lastId + 1, verified |-> FALSE,
                         createdFor |-> Shelter(r)]
          /\ lastId' = lastId + 1
     ELSE UNCHANGED <<account, lastId>>
  /\ Ends(r)
  /\ UNCHANGED <<member, grant, organization, invitations, history, crossed,
                 clock, started>>

-----------------------------------------------------------------------------
(* Resending.                                                              *)

(* The admin named is still pending, and has an invitation to resend.      *)
ResendFinds(r) ==
  /\ At(r, "find", {"resend"})
  /\ \/ /\ req[r].user = AccountId
        /\ PendingAdmin(Shelter(r))
        /\ \E k \in Newest(Pending(Shelter(r))) :
             req' = [req EXCEPT ![r].pc = "load", ![r].invitation = k]
     \/ /\ ~(req[r].user = AccountId /\ PendingAdmin(Shelter(r)))
        /\ Ends(r)
  /\ UNCHANGED <<Rows, clock, started>>

ResendLoads(r) ==
  /\ At(r, "load", {"resend"})
  /\ LET i == invitations[req[r].invitation]
     IN  IF i.status = "pending"
         THEN req' = [req EXCEPT ![r].pc = "roles", ![r].own = i.own,
                                 ![r].user = IF i.own THEN AccountId ELSE None]
         ELSE Ends(r)
  /\ UNCHANGED <<Rows, clock, started>>

(* The line holds the address as it was found, whatever the row holds now. *)
ResendWrites(r) ==
  /\ At(r, "write", {"resend"})
  /\ LET k == req[r].invitation
     IN  IF invitations[k].status = "pending"
         THEN /\ invitations' = [invitations EXCEPT
                                   ![k].expires = Expiry(req[r].now)]
              /\ Line(Shelter(r), "resent")
              /\ AskCrosses(Shelter(r))
         ELSE UNCHANGED <<invitations, history, crossed>>
  /\ Ends(r)
  /\ UNCHANGED <<account, member, grant, organization, lastId, clock, started>>

-----------------------------------------------------------------------------
(* Removing an admin.                                                      *)

RemoveFinds(r) ==
  /\ At(r, "find", {"remove"})
  /\ IF req[r].user = AccountId /\ account # None
        /\ (member = Shelter(r) \/ PendingAdmin(Shelter(r)))
     THEN req' = [req EXCEPT ![r].pc = "write",
                             ![r].joined = (member = Shelter(r))]
     ELSE Ends(r)
  /\ UNCHANGED <<Rows, clock, started>>

RemovesMember(r) ==
  /\ At(r, "write", {"remove"})
  /\ req[r].joined
  /\ IF member = Shelter(r) /\ req[r].user = AccountId
     THEN /\ member' = None
          /\ Line(Shelter(r), "removed")
          /\ Goes(r, "erase")
     ELSE Ends(r) /\ UNCHANGED <<member, history>>
  /\ UNCHANGED <<account, grant, organization, invitations, lastId, crossed,
                 clock, started>>

(* Mutant: only the newest of them is withdrawn.                           *)
WithdrawnNewest(s) == Newest(Pending(s))

Withdrawn(s) == Pending(s)

Canceled(ks) ==
  [k \in DOMAIN invitations |->
     IF k \in ks THEN [invitations[k] EXCEPT !.status = "canceled"]
                 ELSE invitations[k]]

WithdrawsPending(r) ==
  /\ At(r, "write", {"remove"})
  /\ ~req[r].joined
  /\ IF Pending(Shelter(r)) # {}
     THEN /\ invitations' = Canceled(Withdrawn(Shelter(r)))
          /\ Line(Shelter(r), "removed")
          /\ Goes(r, "clean")
     ELSE Ends(r) /\ UNCHANGED <<invitations, history>>
  /\ UNCHANGED <<account, member, grant, organization, lastId, crossed, clock,
                 started>>

RemoveErases(r) ==
  /\ At(r, "erase", {"remove"})
  /\ IF req[r].user = AccountId /\ Erasable(req[r].now)
     THEN Erase
     ELSE UNCHANGED <<account, invitations, history, crossed>>
  /\ Goes(r, "clean")
  /\ UNCHANGED <<member, grant, organization, lastId, clock, started>>

-----------------------------------------------------------------------------
(* Accepting, at sign-in and whenever the kabinet meets a roleless user.   *)

Acceptable(now) ==
  {k \in LiveTo(Shelters, TRUE, now) :
     organization[invitations[k].shelter] = "linked"}

AcceptPlans(r) ==
  /\ At(r, "plan", {"accept"})
  /\ LET may == /\ req[r].user = AccountId
                /\ account # None
                /\ account.verified
                /\ member = None
                /\ grant # "active"
         ks  == Acceptable(req[r].now)
     IN  \/ /\ may
            /\ \E k \in Newest(ks) :
                 req' = [req EXCEPT ![r].pc = "write", ![r].invitation = k]
         \/ /\ ~may \/ ks = {}
            /\ Ends(r)
  /\ UNCHANGED <<Rows, clock, started>>

(* Mutant: the other invitations to the shelter stay pending.              *)
SupersededNone(k) == {}

Superseded(k) == Pending(invitations[k].shelter) \ {k}

AcceptMatches(r) ==
  /\ req[r].invitation \in Acceptable(req[r].now)
  /\ req[r].user = AccountId
  /\ account # None
  /\ account.verified
  /\ grant # "active"
  /\ member = None

AcceptWrites(r) ==
  /\ At(r, "write", {"accept"})
  /\ LET k == req[r].invitation
     IN  IF AcceptMatches(r)
         THEN /\ invitations' = [Canceled(Superseded(k))
                                   EXCEPT ![k].status = "accepted"]
              /\ member' = invitations[k].shelter
              /\ Line(invitations[k].shelter, "joined")
              /\ JoinCrosses(invitations[k].shelter)
         ELSE UNCHANGED <<invitations, member, history, crossed>>
  /\ Ends(r)
  /\ UNCHANGED <<account, grant, organization, lastId, clock, started>>

-----------------------------------------------------------------------------
(* Granting and revoking an operator, by a script.                         *)

(* Mutant: a grant that does not ask for a membership.                     *)
MayBeOperatorAnyone == account # None

MayBeOperator == account # None /\ member = None

GrantFinds(r) ==
  /\ At(r, "find", {"grant"})
  /\ IF MayBeOperator
     THEN req' = [req EXCEPT ![r].pc = "elsewhere", ![r].user = AccountId]
     ELSE Ends(r)
  /\ UNCHANGED <<Rows, clock, started>>

GrantLooksForInvitation(r) ==
  /\ At(r, "elsewhere", {"grant"})
  /\ IF LiveTo(Shelters, TRUE, req[r].now) = {} THEN Goes(r, "write")
                                                ELSE Ends(r)
  /\ UNCHANGED <<Rows, clock, started>>

(* The grant refers to its account, which must still be there.             *)
GrantWrites(r) ==
  /\ At(r, "write", {"grant"})
  /\ grant' = IF req[r].user = AccountId THEN "active" ELSE grant
  /\ Ends(r)
  /\ UNCHANGED <<account, member, organization, invitations, history, lastId,
                 crossed, clock, started>>

RevokeWrites(r) ==
  /\ At(r, "write", {"revoke"})
  /\ grant' = IF grant = "active" THEN "revoked" ELSE grant
  /\ Ends(r)
  /\ UNCHANGED <<account, member, organization, invitations, history, lastId,
                 crossed, clock, started>>

-----------------------------------------------------------------------------

Serve(r) ==
  \/ Cleans(r)       \/ ChecksRoles(r) \/ ChecksElsewhere(r)
  \/ InviteLooksUp(r) \/ InviteFindsOrganization(r)
  \/ InviteMakesOrganization(r) \/ InviteLinksOrganization(r)
  \/ InviteWrites(r) \/ InviteCreatesAccount(r)
  \/ ResendFinds(r)  \/ ResendLoads(r) \/ ResendWrites(r)
  \/ RemoveFinds(r)  \/ RemovesMember(r) \/ WithdrawsPending(r)
  \/ RemoveErases(r)
  \/ AcceptPlans(r)  \/ AcceptWrites(r)
  \/ GrantFinds(r)   \/ GrantLooksForInvitation(r) \/ GrantWrites(r)
  \/ RevokeWrites(r)

Finished ==
  /\ started = MaxRequests
  /\ \A r \in Requests : req[r].pc = "idle"
  /\ UNCHANGED vars

Next ==
  \/ Tick \/ Verify
  \/ \E r \in Requests : ArriveSome(r) \/ Dies(r) \/ Serve(r)
  \/ Finished

Spec == Init /\ [][Next]_vars

-----------------------------------------------------------------------------
TypeOK ==
  /\ account \in Accounts \cup {None}
  /\ member \in Shelters \cup {None}
  /\ grant \in {"none", "active", "revoked"}
  /\ organization \in [Shelters -> {"none", "made", "linked"}]
  /\ invitations \in Seq(InvitationRows)
  /\ history \in [Shelters -> Histories]
  /\ lastId \in Nat
  /\ crossed \subseteq Crossings
  /\ req \in [Requests -> RequestStates]
  /\ clock \in Nat
  /\ started \in Nat

-----------------------------------------------------------------------------
(* What the source promises of the address without any condition, and the  *)
(* code keeps unless requests cross.                                       *)

(* super-admin-repo.ts: "one person is never both".                        *)
OneRole == grant = "active" => member = None

(* IN-Q7: at no instant can the address accept at two shelters.            *)
InvitedToOneShelter ==
  \A j, k \in LiveTo(Shelters, TRUE, clock) :
    invitations[j].shelter = invitations[k].shelter

(* IN-T12: "the address has now joined and none may stay pending".         *)
NonePendingOnceJoined == member # None => Pending(member) = {}

(* The history's last line is "joined" exactly for the shelter's admin,    *)
(* and "removed" only where nothing is left to accept.                     *)
HistoryTellsAdmins ==
  \A s \in Shelters :
    /\ history[s].last = "joined" <=> member = s
    /\ history[s].last = "removed" => Pending(s) = {}

(* GDPR erasure, option A: nothing holds the address after the step.       *)
NoTrace ==
  /\ \A s \in Shelters : ~history'[s].named
  /\ \A k \in DOMAIN invitations' : ~invitations'[k].own

-----------------------------------------------------------------------------
(* Every procedure may run beside every other, twice over, and die.  Each  *)
(* promise is broken by one crossing only, and these say that nothing else *)
(* breaks it: no other pair, no longer sequence, no expiry and no death.   *)

(* An operator and a shelter's admin at once is only one whose accept      *)
(* landed between a grant's look for a membership and its write.           *)
OneRoleUnlessCrossed == OneRole \/ "grant" \in crossed

(* Two shelters' invitations are valid at once only after one was made     *)
(* valid while the other's request, past its look, was still to write.     *)
OneShelterUnlessCrossed == InvitedToOneShelter \/ "asks" \in crossed

(* An admin has an invitation to the same shelter left, which would let    *)
(* them back in after a removal, only if an invite to it was past its look *)
(* for roles as they joined.  A resend beside the accept leaves none.      *)
NonePendingUnlessCrossed == NonePendingOnceJoined \/ "invite" \in crossed

(* A shelter's history is wrong about its admin only after such an invite, *)
(* or a resend that was under way as the address was erased.               *)
HistoryUnlessCrossed ==
  HistoryTellsAdmins \/ crossed \cap {"invite", "resend"} # {}

(* An erasure leaves the address in a history only if a resend was under   *)
(* way at an earlier one: no other request, beside or cut short, writes a  *)
(* line that names it where an erasure does not look.                      *)
ErasureUnlessCrossed ==
  [][ account # None /\ account' = None
        => NoTrace \/ "resend" \in crossed ]_vars

Asked   == {s \in Shelters : Pending(s) # {}}
OpenNow == {s \in Shelters : LiveTo({s}, TRUE, clock) # {}}
NamedBy == {s \in Shelters : history[s].named}

Life ==
  INSTANCE AdminLife
    WITH known <- account # None, admin <- member, operator <- grant,
         asked <- Asked, open <- OpenNow, named <- NamedBy

(* Whatever requests do side by side, die in and repeat, the address lives *)
(* the life of AdminLife: it joins only where it was asked and as nobody   *)
(* else, and is erased only without a role, a past as an operator or a     *)
(* valid invitation; and a crossing lifts the one guard that it breaks,    *)
(* from then on, and no other.                                             *)
ImplementsAdminLife == Life!Spec

(* docs/onboarding-a-shelter.md: a resend of a pending admin makes the     *)
(* same invitation valid again; it does not erase who it was asked for.    *)
ResendKeepsInvited ==
  [][ \A r \in Requests :
        /\ req[r].op # None
        /\ req[r].op.type = "resend"
        /\ req[r].pc = "clean"
        /\ req'[r].pc = "find"
        /\ PendingAdmin(req[r].op.shelter)
        => account' = account ]_vars

=============================================================================
