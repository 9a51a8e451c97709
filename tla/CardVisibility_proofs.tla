----------------------- MODULE CardVisibility_proofs -----------------------
(***************************************************************************)
(* What the public's view of a shelter's cards keeps for every number of   *)
(* cards, requests and instants.  A statement works on the rows as they    *)
(* were when it began, so the invariant IInv says when those are still the *)
(* rows: for a statement about the shelter, as long as the shelter's       *)
(* version has not moved and of every card that has not raced; for a       *)
(* statement about a card that has not raced, of the shelter.              *)
(***************************************************************************)
EXTENDS CardVisibility, TLAPS

CardTypes    == {"create", "listing"}
ShelterTypes == {"move", "allow", "revoke", "address"}

Snaps == [shelter : Shelters, cards : [Cards -> CardRows]]

(* What a request that has read the rows may still rely on.                *)
PlanFits(q, db, out) ==
  /\ q.op.type = "create" =>
       /\ q.seen \in Cities
       /\ q.op.card \notin out => q.seen = db.shelter.city
  /\ q.op.type = "listing" =>
       /\ q.seen \in L!Listings
       /\ L!Verdict(q.seen, q.op.event, q.now) = "ok"
  /\ q.op.type \in ShelterTypes =>
       /\ q.seen \in Shelters
       /\ q.seen.version <= db.shelter.version
       /\ q.seen.version = db.shelter.version => q.seen = db.shelter
  /\ q.op.type = "move" =>
       MoveVerdict(q.seen.verification, q.op.event, q.now) = "ok"
  /\ q.op.type = "allow" => q.seen.verification.status \in OpenStatuses

(* What the reading of a running statement may still be relied on for.     *)
SnapFits(q, db, out) ==
  /\ q.snap \in Snaps
  /\ \A c \in Cards : Exists(q.snap.cards[c]) => Exists(db.cards[c])
  /\ q.op.type \in CardTypes /\ q.op.card \notin out
       => q.snap.shelter = db.shelter
  /\ q.op.type \in ShelterTypes =>
       /\ q.snap.shelter.version <= db.shelter.version
       /\ q.snap.shelter.version = db.shelter.version =>
            \A c \in Cards \ out : q.snap.cards[c] = db.cards[c]

InFlight(q, db, out, now) ==
  /\ q \in RequestStates
  /\ q.now <= now
  /\ q.pc # "idle" => q.op \in Ops
  /\ q.pc # "idle" /\ q.op.type = "create" => ~Exists(db.cards[q.op.card])
  /\ q.pc \in {"planned", "running"} => PlanFits(q, db, out)
  /\ q.pc = "running" => SnapFits(q, db, out)

(* Every draft in the making has an id of its own.                         *)
DraftsApart ==
  \A r, s \in Requests :
    /\ r # s
    /\ req[r].pc # "idle" /\ req[s].pc # "idle"
    /\ req[r].op.type = "create"
    => req[s].op # req[r].op

ShownInv ==
  /\ \A c \in shown : Exists(cards[c])
  /\ Visible(Db, clock) \subseteq shown
  /\ ShownIsStamped
  /\ CityMirrors

IInv ==
  /\ TypeOK
  /\ \A r \in Requests : InFlight(req[r], Db, raced, clock)
  /\ DraftsApart
  /\ Racing(req) \subseteq raced
  /\ ShownInv

-----------------------------------------------------------------------------
(* Shapes.                                                                 *)

LEMMA OpShapes ==
  ASSUME NEW op \in Ops
  PROVE  /\ op.type \in CardTypes \cup ShelterTypes
         /\ op.type = "create" => op \in CreateOps /\ op.card \in Cards
         /\ op.type = "listing" =>
              /\ op \in ListingOps /\ op.card \in Cards
              /\ op.event \in L!ListingEvents
         /\ op.type = "move" => op \in MoveOps /\ op.event \in VerificationEvents
         /\ op.type = "address" => op \in AddressOps /\ op.city \in Cities
         /\ op.type \in {"allow", "revoke"} => op \in PlainOps
         /\ op.type \in CardTypes => op \in ListingOps \cup CreateOps
         /\ op.type \in ShelterTypes => op \in MoveOps \cup AddressOps \cup PlainOps
  BY CardVisibilityAssumption
     DEF Ops, ListingOps, CreateOps, MoveOps, AddressOps, PlainOps, CardTypes,
         ShelterTypes

LEMMA RowShapes ==
  /\ \A row \in CardRows : Exists(row) =>
       /\ row \in [listing : L!Listings, city : Cities, servedAt : Nat \cup {None}]
  /\ \A row \in CardRows : ~Exists(row) => row = NoCard
  /\ \A l \in L!Listings : l # None
  /\ None \notin Nat
  BY CardVisibilityAssumption DEF CardRows, NoCard, Exists

LEMMA NextListingTyped ==
  ASSUME NEW l \in L!Listings, NEW event \in L!ListingEvents, NEW at \in Nat,
         L!Verdict(l, event, at) = "ok"
  PROVE  L!NextListing(l, event, at) \in L!Listings
  <1> DEFINE next == L!NextListing(l, event, at)
  <1> USE DEF L!Listings, L!DraftListings, L!PublishedListings,
              L!ReservedListings, L!AdoptedListings, L!WithdrawnListings
  <1>1. l.kind \in {"published", "reserved"} =>
          l \in L!PublishedListings \cup L!ReservedListings
    OBVIOUS
  <1>2. CASE event = "undo_confirm"
    <2>1. l.kind \in {"published", "reserved"} /\ l.undoable # None
      BY <1>2 DEF L!Verdict, L!UndoVerdict, L!Discoverable, L!DiscoverableKinds,
                  L!UndoableAt
    <2>2. l.undoable.previousConfirmedAt \in Nat /\ None \in L!Undoables
      BY <1>1, <2>1 DEF L!Undoables
    <2>3. next = [l EXCEPT !.confirmedAt = l.undoable.previousConfirmedAt,
                           !.undoable = None]
      BY <1>2 DEF L!NextListing, L!Unconfirmed
    <2> HIDE DEF next
    <2>4. CASE l \in L!PublishedListings
      <3>1. next \in L!PublishedListings
        BY <2>2, <2>3, <2>4
      <3> QED BY <3>1 DEF next
    <2>5. CASE l \in L!ReservedListings
      <3>1. next \in L!ReservedListings
        BY <2>2, <2>3, <2>5
      <3> QED BY <3>1 DEF next
    <2> QED BY <1>1, <2>1, <2>4, <2>5
  <1>3. CASE event # "undo_confirm"
    <2>1. event \in L!LegalEvents(l.kind)
      BY <1>3 DEF L!Verdict
    <2>2. CASE event = "confirm"
      <3>1. l.kind \in {"published", "reserved"}
        BY <2>1, <2>2 DEF L!LegalEvents
      <3>2. PICK kept \in L!Undoables :
              next = [l EXCEPT !.confirmedAt = at, !.undoable = kept]
        <4> DEFINE kept == [previousConfirmedAt |->
                              IF L!UndoableAt(l, at)
                              THEN l.undoable.previousConfirmedAt
                              ELSE l.confirmedAt,
                            confirmedAt |-> at]
        <4>1. l.undoable \in L!Undoables /\ l.confirmedAt \in Nat
          BY <1>1, <3>1
        <4>2. kept \in L!Undoables
          BY <4>1 DEF L!Undoables, L!UndoableAt
        <4>3. next = [l EXCEPT !.confirmedAt = at, !.undoable = kept]
          BY <2>2 DEF L!NextListing, L!Confirmed
        <4> HIDE DEF kept, next
        <4> QED BY <4>2, <4>3
      <3> HIDE DEF next
      <3>3. CASE l \in L!PublishedListings
        <4>1. next \in L!PublishedListings
          BY <3>2, <3>3
        <4> QED BY <4>1 DEF next
      <3>4. CASE l \in L!ReservedListings
        <4>1. next \in L!ReservedListings
          BY <3>2, <3>4
        <4> QED BY <4>1 DEF next
      <3> QED BY <1>1, <3>1, <3>3, <3>4
    <2>3. CASE event \in {"publish", "adopt", "withdraw", "restore_to_draft"}
      BY <2>3 DEF L!NextListing, L!DraftListing, L!Undoables
    <2>4. CASE event = "reserve"
      <3>1. l \in L!PublishedListings
        BY <2>1, <2>4 DEF L!LegalEvents
      <3> QED BY <2>4, <3>1 DEF L!NextListing, L!Undoables
    <2>5. CASE event = "release"
      <3>1. l \in L!ReservedListings
        BY <2>1, <2>5 DEF L!LegalEvents
      <3> QED BY <2>5, <3>1 DEF L!NextListing, L!Undoables
    <2> QED BY <1>3, <2>2, <2>3, <2>4, <2>5 DEF L!ListingEvents
  <1> QED BY <1>2, <1>3

LEMMA NextVerificationTyped ==
  ASSUME NEW v \in Verifications, NEW event \in VerificationEvents, NEW at \in Nat,
         MoveVerdict(v, event, at) = "ok"
  PROVE  NextVerification(v, event, at) \in Verifications
  <1>1. event \in LegalMoves(v.status)
    BY DEF MoveVerdict
  <1> QED BY <1>1
          DEF Verifications, InterruptedStates, LegalMoves, NextVerification,
              VerificationEvents

(* Who is listed at an instant was, on the same row, at any before it.     *)
LEMMA ListedBefore ==
  ASSUME NEW row \in Shelters, NEW t \in Nat, NEW u \in Nat, t <= u, Listed(row, u)
  PROVE  Listed(row, t)
  <1>1. row.early \in Nat \cup {None} /\ Period \in Nat
    BY VerificationAssumption DEF Shelters
  <1> QED BY <1>1 DEF Listed, EarlyRuns

-----------------------------------------------------------------------------
(* Requests.                                                               *)

LEMMA IdleFits ==
  ASSUME NEW db, NEW out, NEW now \in Nat
  PROVE  InFlight(Idle, db, out, now)
  BY DEF InFlight, Idle, RequestStates

(* More cards raced, or a later instant, ask less of a request.            *)
LEMMA FitsLater ==
  ASSUME NEW q, NEW db, NEW out, NEW more, out \subseteq more,
         NEW now \in Nat, NEW then \in Nat, now <= then,
         InFlight(q, db, out, now)
  PROVE  InFlight(q, db, more, then)
  <1>1. q.now \in Nat /\ q.now <= then
    BY DEF InFlight, RequestStates
  <1>2. PlanFits(q, db, out) => PlanFits(q, db, more)
    BY DEF PlanFits
  <1>3. SnapFits(q, db, out) => SnapFits(q, db, more)
    BY DEF SnapFits
  <1> QED BY <1>1, <1>2, <1>3 DEF InFlight

(* Whoever overlaps is recorded.                                           *)
LEMMA WhoRaces ==
  ASSUME NEW requests, NEW r \in Requests, NEW s \in Requests,
         requests[r].op \in Ops, requests[s].op \in Ops,
         requests[r].op.type \in CardTypes, requests[s].op.type \in ShelterTypes,
         \/ requests[r].pc = "running"
         \/ requests[r].op.type = "create" /\ requests[r].pc = "planned",
         requests[s].pc = "running"
  PROVE  requests[r].op.card \in Racing(requests)
  <1>1. /\ requests[r].op \in ListingOps \cup CreateOps
        /\ requests[s].op \in MoveOps \cup AddressOps \cup PlainOps
        /\ requests[r].op.card \in Cards
    BY OpShapes DEF CardTypes
  <1> QED BY <1>1 DEF Racing

(* Nobody starts to overlap when a request ends or goes back to reading.   *)
LEMMA RacingShrinks ==
  ASSUME NEW before, NEW after,
         \A s \in Requests : after[s] = before[s] \/ after[s].pc \in {"idle", "read"}
  PROVE  \A c \in Racing(after) : c \in Racing(before)
  BY DEF Racing

(* One request moves on and the rows stay.                                 *)
LEMMA SlotMoves ==
  ASSUME IInv, NEW r \in Requests, NEW q,
         req' = [req EXCEPT ![r] = q],
         UNCHANGED <<shelter, cards, shown, clock>>,
         raced \subseteq raced', raced' \subseteq Cards,
         started' \in Nat,
         Racing(req') \subseteq raced',
         InFlight(q, Db, raced', clock),
         \A s \in Requests \ {r} :
           /\ q.pc # "idle" /\ req[s].pc # "idle"
           /\ q.op.type = "create" \/ req[s].op.type = "create"
           => req[s].op # q.op
  PROVE  IInv'
  <1>1. /\ req \in [Requests -> RequestStates] /\ clock \in Nat
        /\ q \in RequestStates
    BY DEF IInv, TypeOK, InFlight
  <1>2. \A s \in Requests : req'[s] = IF s = r THEN q ELSE req[s]
    BY <1>1
  <1>3. TypeOK'
    BY <1>1 DEF IInv, TypeOK
  <1>4. Db' = Db /\ clock' = clock
    BY DEF Db
  <1>5. ASSUME NEW s \in Requests PROVE InFlight(req'[s], Db', raced', clock')
    <2>1. CASE s = r
      BY <1>2, <1>4, <2>1
    <2>2. CASE s # r
      <3>1. req'[s] = req[s] /\ InFlight(req[s], Db, raced, clock)
        BY <1>2, <2>2 DEF IInv
      <3>2. InFlight(req[s], Db, raced', clock)
        BY <1>1, <3>1, FitsLater
      <3> QED BY <1>4, <3>1, <3>2
    <2> QED BY <2>1, <2>2
  <1>6. DraftsApart'
    BY <1>2 DEF IInv, DraftsApart
  <1>7. ShownInv'
    <2>1. Visible(Db, clock)' = Visible(Db, clock)
      BY <1>4 DEF Visible, Listed, OnShow, Exists
    <2> QED BY <2>1 DEF IInv, ShownInv, ShownIsStamped, CityMirrors, Exists
  <1>8. \A s \in Requests : InFlight(req[s], Db, raced, clock)'
    BY <1>5
  <1> QED BY <1>3, <1>6, <1>7, <1>8 DEF IInv

LEMMA ArriveKeeps ==
  ASSUME IInv, NEW r \in Requests, ArriveSome(r)
  PROVE  IInv'
  <1>1. PICK op \in Ops :
          /\ op.type = "create" => /\ ~Exists(cards[op.card])
                                   /\ \A s \in Requests : req[s].op # op
          /\ Arrives(r, op)
    BY DEF ArriveSome
  <1> DEFINE q == [Idle EXCEPT !.pc = "read", !.op = op, !.now = clock,
                               !.attempt = 1]
  <1>2. /\ req' = [req EXCEPT ![r] = q]
        /\ UNCHANGED <<shelter, cards, shown, raced, clock>>
        /\ started' \in Nat
    BY <1>1 DEF Arrives, IInv, TypeOK
  <1>3. clock \in Nat /\ raced \subseteq Cards
    BY DEF IInv, TypeOK
  <1>4. q \in RequestStates /\ q.pc = "read" /\ q.op = op /\ q.now = clock
    BY <1>3 DEF RequestStates, Idle
  <1> HIDE DEF q
  <1>5. InFlight(q, Db, raced, clock)
    BY <1>1, <1>3, <1>4 DEF InFlight, Db
  <1>6. Racing(req') \subseteq raced
    <2>1. TypeOK /\ Racing(req) \subseteq raced
      BY DEF IInv
    <2>2. \A s \in Requests : req'[s] = req[s] \/ req'[s].pc \in {"idle", "read"}
      BY <1>2, <1>4, <2>1 DEF TypeOK
    <2>3. \A c \in Racing(req') : c \in Racing(req)
      BY <2>2, RacingShrinks
    <2> QED BY <2>1, <2>3
  <1>7. \A s \in Requests \ {r} :
          /\ q.pc # "idle" /\ req[s].pc # "idle"
          /\ q.op.type = "create" \/ req[s].op.type = "create"
          => req[s].op # q.op
    BY <1>1, <1>4
  <1> QED BY <1>2, <1>3, <1>5, <1>6, <1>7, SlotMoves

(* A request that ends.                                                    *)
LEMMA EndKeeps ==
  ASSUME IInv, NEW r \in Requests, Ends(r),
         UNCHANGED <<shelter, cards, shown, clock, started>>,
         raced \subseteq raced', raced' \subseteq Cards
  PROVE  IInv'
  <1>1. req' = [req EXCEPT ![r] = Idle] /\ Idle.pc = "idle"
    BY DEF Ends, Idle
  <1>2. clock \in Nat /\ started' \in Nat
    BY DEF IInv, TypeOK
  <1>3. InFlight(Idle, Db, raced', clock)
    BY <1>2, IdleFits
  <1>4. Racing(req') \subseteq raced'
    <2>1. TypeOK /\ Racing(req) \subseteq raced
      BY DEF IInv
    <2>2. \A s \in Requests : req'[s] = req[s] \/ req'[s].pc \in {"idle", "read"}
      BY <1>1, <2>1 DEF TypeOK
    <2>3. \A c \in Racing(req') : c \in Racing(req)
      BY <2>2, RacingShrinks
    <2> QED BY <1>1, <2>1, <2>3
  <1> QED BY <1>1, <1>2, <1>3, <1>4, SlotMoves

(* What a handler reads fits the rows it reads.                            *)
LEMMA ReadFits ==
  ASSUME TypeOK, NEW op \in Ops, NEW now \in Nat, Allowed(op, now),
         NEW q, q.op = op, q.now = now, q.seen = Seen(op), NEW out
  PROVE  /\ PlanFits(q, Db, out)
         /\ q.seen \in {None} \cup Shelters \cup L!Listings \cup Cities
  <1>1. /\ shelter \in Shelters /\ shelter.city \in Cities
        /\ shelter.version \in Nat
        /\ Db.shelter = shelter
    BY DEF TypeOK, Shelters, Db
  <1>2. CASE op.type = "create"
    BY <1>1, <1>2 DEF PlanFits, Seen, ShelterTypes
  <1>3. CASE op.type = "listing"
    <2>1. /\ op.card \in Cards /\ Exists(cards[op.card])
          /\ L!Verdict(cards[op.card].listing, op.event, now) = "ok"
          /\ q.seen = cards[op.card].listing
      BY <1>3, OpShapes DEF Allowed, Seen
    <2>2. cards[op.card].listing \in L!Listings
      BY <2>1, RowShapes DEF TypeOK
    <2> QED BY <1>3, <2>1, <2>2 DEF PlanFits, ShelterTypes
  <1>4. CASE op.type \in ShelterTypes
    <2>1. q.seen = shelter
      BY <1>4 DEF Seen, ShelterTypes
    <2>2. op.type = "move" => MoveVerdict(shelter.verification, op.event, now) = "ok"
      BY DEF Allowed
    <2>3. op.type = "allow" => shelter.verification.status \in OpenStatuses
      BY DEF Allowed
    <2>4. op.type \notin {"create", "listing"}
      BY <1>4 DEF ShelterTypes
    <2> QED BY <1>1, <2>1, <2>2, <2>3, <2>4 DEF PlanFits
  <1> QED BY <1>2, <1>3, <1>4, OpShapes DEF CardTypes

LEMMA ReadKeeps ==
  ASSUME IInv, NEW r \in Requests, Reads(r)
  PROVE  IInv'
  <1> DEFINE op == req[r].op
  <1>1. /\ req[r] \in RequestStates /\ InFlight(req[r], Db, raced, clock)
        /\ req[r].pc = "read" /\ op \in Ops /\ req[r].now \in Nat
        /\ clock \in Nat /\ started' \in Nat /\ raced \subseteq Cards
        /\ UNCHANGED <<shelter, cards, shown, clock, started>>
        /\ raced' = raced \cup Racing(req')
    BY DEF IInv, TypeOK, InFlight, Reads, RequestStates
  <1>2. raced \subseteq raced' /\ raced' \subseteq Cards
    BY <1>1 DEF Racing
  <1>3. CASE Allowed(op, req[r].now)
    <2> DEFINE q == [req[r] EXCEPT !.pc = "planned", !.seen = Seen(op)]
    <2>1. req' = [req EXCEPT ![r] = q]
      BY <1>3 DEF Reads, IInv, TypeOK
    <2>2. /\ q.pc = "planned" /\ q.seen = Seen(op) /\ q.op = op
          /\ q.now = req[r].now
      BY <1>1 DEF RequestStates
    <2>3. q.seen \in {None} \cup Shelters \cup L!Listings \cup Cities =>
            q \in RequestStates
      BY <1>1 DEF RequestStates
    <2> HIDE DEF q, op
    <2>4. PlanFits(q, Db, raced')
            /\ q.seen \in {None} \cup Shelters \cup L!Listings \cup Cities
      BY <1>1, <1>3, <2>2, ReadFits DEF IInv
    <2>5. InFlight(q, Db, raced', clock)
      BY <1>1, <2>2, <2>3, <2>4 DEF InFlight, op
    <2>6. \A s \in Requests \ {r} :
            /\ q.pc # "idle" /\ req[s].pc # "idle"
            /\ q.op.type = "create" \/ req[s].op.type = "create"
            => req[s].op # q.op
      BY <1>1, <2>2 DEF IInv, DraftsApart, op
    <2> QED BY <1>1, <1>2, <2>1, <2>5, <2>6, SlotMoves
  <1>4. CASE ~Allowed(op, req[r].now)
    BY <1>1, <1>2, <1>4, EndKeeps DEF Reads
  <1> QED BY <1>3, <1>4

(* A statement begins on the rows as they are.                             *)
LEMMA BeginKeeps ==
  ASSUME IInv, NEW r \in Requests, Begins(r)
  PROVE  IInv'
  <1> DEFINE q == [req[r] EXCEPT !.pc = "running", !.snap = Db]
  <1>1. /\ req[r] \in RequestStates /\ InFlight(req[r], Db, raced, clock)
        /\ req[r].pc = "planned" /\ clock \in Nat /\ started' \in Nat
        /\ raced \subseteq Cards
        /\ UNCHANGED <<shelter, cards, shown, clock, started>>
        /\ raced' = raced \cup Racing(req')
        /\ Db \in Snaps /\ Db.shelter = shelter /\ Db.cards = cards
        /\ shelter.version \in Nat
    BY DEF IInv, TypeOK, Begins, Db, Snaps, Shelters
  <1>2. raced \subseteq raced' /\ raced' \subseteq Cards
    BY <1>1 DEF Racing
  <1>3. req' = [req EXCEPT ![r] = q]
    BY DEF Begins, IInv, TypeOK
  <1>4. /\ q \in RequestStates /\ q.pc = "running" /\ q.snap = Db
        /\ q.op = req[r].op /\ q.now = req[r].now /\ q.seen = req[r].seen
    BY <1>1 DEF RequestStates, Snaps
  <1> HIDE DEF q
  <1>5. InFlight(req[r], Db, raced', clock)
    BY <1>1, <1>2, FitsLater
  <1>6. PlanFits(q, Db, raced')
    BY <1>1, <1>4, <1>5 DEF InFlight, PlanFits
  <1>7. SnapFits(q, Db, raced')
    BY <1>1, <1>4 DEF SnapFits
  <1>8. InFlight(q, Db, raced', clock)
    BY <1>1, <1>4, <1>5, <1>6, <1>7 DEF InFlight
  <1>9. \A s \in Requests \ {r} :
          /\ q.pc # "idle" /\ req[s].pc # "idle"
          /\ q.op.type = "create" \/ req[s].op.type = "create"
          => req[s].op # q.op
    BY <1>1, <1>4 DEF IInv, DraftsApart
  <1> QED BY <1>1, <1>2, <1>3, <1>8, <1>9, SlotMoves

(* A statement that matches nothing leaves the rows to the next try.       *)
LEMMA MissKeeps ==
  ASSUME IInv, NEW r \in Requests, Misses(r)
  PROVE  IInv'
  <1>1. /\ req[r] \in RequestStates /\ InFlight(req[r], Db, raced, clock)
        /\ req[r].pc = "running" /\ clock \in Nat /\ started' \in Nat
        /\ raced' \subseteq Cards /\ raced \subseteq raced'
        /\ UNCHANGED <<shelter, cards, shown, raced, clock, started>>
    BY DEF IInv, TypeOK, Misses
  <1>2. CASE Ends(r)
    BY <1>1, <1>2, EndKeeps
  <1>3. CASE ~Ends(r)
    <2> DEFINE tries == req[r].attempt + 1
               q == [req[r] EXCEPT !.pc = "read", !.attempt = tries,
                                   !.seen = None, !.snap = None]
    <2>1. req' = [req EXCEPT ![r] = q]
      BY <1>3 DEF Misses, IInv, TypeOK
    <2>6. tries \in Nat
      BY <1>1 DEF RequestStates
    <2> HIDE DEF tries
    <2>2. /\ q \in RequestStates /\ q.pc = "read"
          /\ q.op = req[r].op /\ q.now = req[r].now
      BY <1>1, <2>6 DEF RequestStates
    <2> HIDE DEF q
    <2>3. InFlight(q, Db, raced', clock)
      BY <1>1, <2>2 DEF InFlight
    <2>4. Racing(req') \subseteq raced'
      <3>1. TypeOK /\ Racing(req) \subseteq raced
        BY DEF IInv
      <3>2. \A s \in Requests : req'[s] = req[s] \/ req'[s].pc \in {"idle", "read"}
        BY <2>1, <2>2, <3>1 DEF TypeOK
      <3>3. \A c \in Racing(req') : c \in Racing(req)
        BY <3>2, RacingShrinks
      <3> QED BY <1>1, <3>1, <3>3
    <2>5. \A s \in Requests \ {r} :
            /\ q.pc # "idle" /\ req[s].pc # "idle"
            /\ q.op.type = "create" \/ req[s].op.type = "create"
            => req[s].op # q.op
      BY <1>1, <2>2 DEF IInv, DraftsApart
    <2> QED BY <1>1, <2>1, <2>3, <2>4, <2>5, SlotMoves
  <1> QED BY <1>2, <1>3

LEMMA TickKeeps ==
  ASSUME IInv, Tick
  PROVE  IInv'
  <1>1. /\ UNCHANGED <<shelter, cards, req, shown, raced, started>>
        /\ clock \in Nat /\ clock' = clock + 1 /\ clock' \in Nat
        /\ shelter \in Shelters
    BY DEF Tick, IInv, TypeOK
  <1>2. TypeOK'
    BY <1>1 DEF IInv, TypeOK
  <1>3. Db' = Db
    BY <1>1 DEF Db
  <1>4. ASSUME NEW s \in Requests PROVE InFlight(req[s], Db, raced, clock)'
    <2>1. InFlight(req[s], Db, raced, clock)
      BY DEF IInv
    <2>2. InFlight(req[s], Db, raced, clock')
      BY <1>1, <2>1, FitsLater
    <2> QED BY <1>1, <1>3, <2>2
  <1>5. Visible(Db', clock') \subseteq Visible(Db, clock)
    <2>1. Listed(shelter, clock') => Listed(shelter, clock)
      BY <1>1, ListedBefore
    <2> QED BY <1>3, <2>1 DEF Visible, Db
  <1>6. ShownInv'
    BY <1>1, <1>5 DEF IInv, ShownInv, ShownIsStamped, CityMirrors, Exists
  <1> QED BY <1>1, <1>2, <1>4, <1>6 DEF IInv, DraftsApart, Racing

LEMMA InitInv == Init => IInv
  <1> SUFFICES ASSUME Init PROVE IInv
    OBVIOUS
  <1>1. /\ shelter \in Shelters /\ cards \in [Cards -> CardRows]
        /\ clock = 0 /\ raced = {} /\ started = 0
        /\ shown = Visible(Db, clock)
        /\ \A r \in Requests : req[r] = Idle
        /\ Idle \in RequestStates
        /\ req \in [Requests -> RequestStates]
    BY CardVisibilityAssumption, IdleFits DEF Init, InFlight
  <1>2. \A c \in shown : c \in Cards /\ Exists(cards[c])
    BY <1>1 DEF Visible, OnShow, Db
  <1>3. TypeOK
    BY <1>1, <1>2 DEF TypeOK
  <1>4. \A r \in Requests : InFlight(req[r], Db, raced, clock)
    BY <1>1, IdleFits
  <1>5. DraftsApart /\ Racing(req) \subseteq raced
    BY <1>1 DEF DraftsApart, Racing, Idle
  <1>6. ShownInv
    BY <1>1, <1>2 DEF ShownInv, ShownIsStamped, CityMirrors, Init
  <1> QED BY <1>3, <1>4, <1>5, <1>6 DEF IInv

-----------------------------------------------------------------------------
(* A statement that lands.                                                 *)

(* The slot of a landed statement is free, and the other requests are what *)
(* they were, if the rows they rely on are.                                *)
LEMMA LandedRequests ==
  ASSUME IInv, NEW r \in Requests, Ends(r), UNCHANGED <<raced, clock>>,
         \A s \in Requests \ {r} : InFlight(req[s], Db', raced, clock)
  PROVE  /\ req' \in [Requests -> RequestStates]
         /\ \A s \in Requests : InFlight(req[s], Db, raced, clock)'
         /\ DraftsApart'
         /\ Racing(req') \subseteq raced'
  <1>1. /\ req \in [Requests -> RequestStates] /\ clock \in Nat
        /\ req' = [req EXCEPT ![r] = Idle] /\ Idle.pc = "idle"
        /\ DraftsApart /\ Racing(req) \subseteq raced
    BY DEF Ends, IInv, TypeOK, Idle
  <1>2. \A s \in Requests : req'[s] = IF s = r THEN Idle ELSE req[s]
    BY <1>1
  <1>3. InFlight(Idle, Db', raced, clock)
    BY <1>1, IdleFits
  <1>4. Idle \in RequestStates
    BY <1>3 DEF InFlight
  <1>5. \A s \in Requests : InFlight(req[s], Db, raced, clock)'
    BY <1>2, <1>3
  <1>6. DraftsApart'
    BY <1>1, <1>2 DEF DraftsApart
  <1>7. Racing(req') \subseteq raced'
    <2>1. \A s \in Requests : req'[s] = req[s] \/ req'[s].pc \in {"idle", "read"}
      BY <1>1, <1>2
    <2>2. \A c \in Racing(req') : c \in Racing(req)
      BY <2>1, RacingShrinks
    <2> QED BY <1>1, <2>2
  <1> QED BY <1>1, <1>4, <1>5, <1>6, <1>7

(* One card is written, as itself or as a new draft; its row has what the  *)
(* public and its shelter's city ask of it.                                *)
LEMMA CardLands ==
  ASSUME IInv, NEW r \in Requests, Ends(r), UNCHANGED <<shelter, raced, clock, started>>,
         req[r].pc = "running", req[r].op \in Ops, req[r].op.type \in CardTypes,
         NEW c \in Cards, c = req[r].op.card,
         NEW row \in CardRows, Exists(row),
         cards' = [cards EXCEPT ![c] = row],
         req[r].op.type = "create" \/ Exists(cards[c]),
         shown' = shown \cup Visible(Db', clock),
         c \in shown => row.servedAt # None \/ cards[c].servedAt = None,
         c \notin raced => /\ c \notin Fostered => row.city = shelter.city
                           /\ OnShow(row) /\ Listed(shelter, clock)
                                => row.servedAt # None
  PROVE  IInv'
  <1>1. /\ shelter \in Shelters /\ cards \in [Cards -> CardRows]
        /\ raced \subseteq Cards /\ shown \subseteq Cards
        /\ clock \in Nat /\ started \in Nat
        /\ ShownInv /\ DraftsApart /\ Racing(req) \subseteq raced
    BY DEF IInv, TypeOK
  <1>2. /\ \A d \in Cards : cards'[d] = IF d = c THEN row ELSE cards[d]
        /\ cards' \in [Cards -> CardRows]
    BY <1>1
  <1>3. /\ Db.shelter = shelter /\ Db.cards = cards
        /\ Db'.shelter = shelter /\ Db'.cards = cards'
    BY DEF Db
  <1>4. ASSUME NEW s \in Requests \ {r}
        PROVE  InFlight(req[s], Db', raced, clock)
    <2> DEFINE q == req[s]
    <2>1. InFlight(q, Db, raced, clock)
      BY DEF IInv
    <2>2. q.pc # "idle" /\ q.op.type = "create" => ~Exists(cards'[q.op.card])
      <3>1. CASE q.pc # "idle" /\ q.op.type = "create"
        <4>1. q.op \in Ops /\ ~Exists(cards[q.op.card])
          BY <1>3, <2>1, <3>1 DEF InFlight
        <4>2. q.op \in CreateOps /\ q.op.card \in Cards
          BY <3>1, <4>1, OpShapes
        <4>3. CASE q.op.card = c
          <5>1. req[r].op.type = "create"
            BY <4>1, <4>3
          <5>2. req[r].op \in CreateOps
            BY <5>1, OpShapes
          <5>3. q.op = req[r].op
            BY <4>2, <4>3, <5>2 DEF CreateOps
          <5> QED BY <1>1, <3>1, <5>1, <5>3 DEF DraftsApart
        <4>4. CASE q.op.card # c
          BY <1>2, <4>1, <4>2, <4>4
        <4> QED BY <4>3, <4>4
      <3> QED BY <3>1
    <2>3. PlanFits(q, Db, raced) => PlanFits(q, Db', raced)
      BY <1>3 DEF PlanFits
    <2>4. q.pc = "running" => SnapFits(q, Db', raced)
      <3>1. CASE q.pc = "running"
        <4>1. q.op \in Ops /\ SnapFits(q, Db, raced)
          BY <2>1, <3>1 DEF InFlight
        <4>2. q.op.type \in ShelterTypes => c \in raced
          BY <1>1, <3>1, <4>1, WhoRaces
        <4>3. q.op.type \in ShelterTypes =>
                \A d \in Cards \ raced : Db'.cards[d] = Db.cards[d]
          BY <1>2, <1>3, <4>2
        <4>4. \A d \in Cards : Exists(Db.cards[d]) => Exists(Db'.cards[d])
          BY <1>2, <1>3
        <4> QED BY <1>3, <4>1, <4>3, <4>4 DEF SnapFits
      <3> QED BY <3>1
    <2> HIDE DEF q
    <2>5. InFlight(q, Db', raced, clock)
      BY <1>3, <2>1, <2>2, <2>3, <2>4 DEF InFlight
    <2> QED BY <2>5 DEF q
  <1>5. Visible(Db', clock) \subseteq shown \cup {c}
    BY <1>1, <1>2, <1>3 DEF ShownInv, Visible
  <1>6. c \in Visible(Db', clock) => OnShow(row) /\ Listed(shelter, clock)
    BY <1>2, <1>3 DEF Visible
  <1>7. ShownInv'
    <2>1. \A d \in shown' : Exists(cards'[d])
      BY <1>1, <1>2, <1>5 DEF ShownInv
    <2>2. Visible(Db', clock') \subseteq shown'
      OBVIOUS
    <2>3. ShownIsStamped'
      <3>1. ASSUME NEW d \in shown' \ raced' PROVE cards'[d].servedAt # None
        <4>1. CASE d # c
          <5>1. d \in shown /\ cards'[d] = cards[d]
            BY <1>1, <1>2, <1>5, <4>1
          <5> QED BY <1>1, <3>1, <5>1 DEF ShownInv, ShownIsStamped
        <4>2. CASE d = c /\ c \in shown
          <5>1. cards[c].servedAt # None
            BY <1>1, <3>1, <4>2 DEF ShownInv, ShownIsStamped
          <5> QED BY <1>2, <4>2, <5>1
        <4>3. CASE d = c /\ c \notin shown
          BY <1>2, <1>6, <3>1, <4>3
        <4> QED BY <4>1, <4>2, <4>3
      <3> QED BY <3>1 DEF ShownIsStamped
    <2>4. CityMirrors'
      BY <1>1, <1>2 DEF ShownInv, CityMirrors
    <2> QED BY <2>1, <2>2, <2>3, <2>4 DEF ShownInv
  <1>8. /\ req' \in [Requests -> RequestStates]
        /\ \A s \in Requests : InFlight(req[s], Db, raced, clock)'
        /\ DraftsApart'
        /\ Racing(req') \subseteq raced'
    BY <1>4, LandedRequests
  <1>9. TypeOK'
    BY <1>1, <1>2, <1>5, <1>8 DEF TypeOK
  <1> QED BY <1>7, <1>8, <1>9 DEF IInv

(* The draft a creation puts down.                                         *)
LEMMA CreateLands ==
  ASSUME IInv, NEW r \in Requests, Lands(r), req[r].op.type = "create"
  PROVE  /\ IInv'
         /\ req[r].op.card \in Cards /\ ~Exists(cards[req[r].op.card])
         /\ cards' = [cards EXCEPT ![req[r].op.card] =
                        [listing |-> L!DraftListing, city |-> req[r].seen,
                         servedAt |-> None]]
  <1> DEFINE c == req[r].op.card
             row == [listing |-> L!DraftListing, city |-> req[r].seen,
                     servedAt |-> None]
  <1>1. /\ InFlight(req[r], Db, raced, clock) /\ req[r].pc = "running"
        /\ Ends(r) /\ UNCHANGED <<shelter, raced, clock, started>>
        /\ cards' = [cards EXCEPT ![c] = row]
    BY DEF Lands, Writable, IInv
  <1>2. /\ shown' = shown \cup Visible([shelter |-> shelter', cards |-> cards'], clock)
        /\ Db' = [shelter |-> shelter', cards |-> cards']
    BY DEF Lands, Db
  <1>3. /\ req[r].op \in Ops /\ c \in Cards /\ ~Exists(cards[c])
        /\ req[r].seen \in Cities
        /\ c \notin raced => req[r].seen = shelter.city
    BY <1>1, OpShapes DEF InFlight, PlanFits, Db
  <1>4. /\ L!DraftListing \in L!Listings /\ ~L!Discoverable(L!DraftListing)
        /\ row.listing = L!DraftListing /\ row.city = req[r].seen
    BY DEF L!DraftListing, L!Listings, L!DraftListings, L!Discoverable,
           L!DiscoverableKinds
  <1>5. row \in CardRows /\ Exists(row) /\ ~OnShow(row)
    BY <1>3, <1>4, RowShapes DEF CardRows, Exists, OnShow
  <1>6. c \notin shown
    BY <1>3 DEF IInv, ShownInv
  <1> HIDE DEF row
  <1>7. IInv'
    BY <1>1, <1>2, <1>3, <1>4, <1>5, <1>6, CardLands DEF CardTypes
  <1> QED BY <1>1, <1>3, <1>7 DEF row

(* The row a listing move puts down.                                       *)
LEMMA ListingLands ==
  ASSUME IInv, NEW r \in Requests, Lands(r), req[r].op.type = "listing"
  PROVE  /\ IInv'
         /\ \E c \in Cards : \E row :
              /\ cards' = [cards EXCEPT ![c] = row]
              /\ row.servedAt # cards[c].servedAt =>
                   OnShow(row) /\ Listed(req[r].snap.shelter, req[r].now)
  <1> DEFINE q == req[r]
             c == q.op.card
             next == L!NextListing(q.seen, q.op.event, q.now)
             row == MovedCard(cards[c], next, q.now, q.snap)
  <1>1. /\ InFlight(q, Db, raced, clock) /\ q.pc = "running"
        /\ Ends(r) /\ UNCHANGED <<shelter, raced, clock, started>>
        /\ cards' = [cards EXCEPT ![c] = row]
        /\ Matches(Db, q.op, q.seen)
    BY DEF Lands, Writable, IInv
  <1>2. /\ shown' = shown \cup Visible([shelter |-> shelter', cards |-> cards'], clock)
        /\ Db' = [shelter |-> shelter', cards |-> cards']
    BY DEF Lands, Db
  <1>3. /\ q.op \in Ops /\ c \in Cards /\ q.op.event \in L!ListingEvents
        /\ q.seen \in L!Listings /\ L!Verdict(q.seen, q.op.event, q.now) = "ok"
        /\ q.now \in Nat /\ q.now <= clock /\ clock \in Nat
        /\ c \notin raced => q.snap.shelter = shelter
    BY <1>1, OpShapes
       DEF InFlight, PlanFits, SnapFits, Db, RequestStates, CardTypes, IInv, TypeOK
  <1>4. next \in L!Listings
    BY <1>3, NextListingTyped
  <1>5. cards[c].listing = q.seen /\ cards[c] \in CardRows /\ shelter \in Shelters
    BY <1>1, <1>3 DEF Matches, Db, IInv, TypeOK
  <1>6. /\ Exists(cards[c])
        /\ cards[c] \in [listing : L!Listings, city : Cities, servedAt : Nat \cup {None}]
    BY <1>3, <1>5, RowShapes DEF Exists
  <1> HIDE DEF next
  <1>7. /\ row.listing = next /\ row.city = cards[c].city
        /\ row.servedAt = IF /\ L!Discoverable(next) /\ cards[c].servedAt = None
                             /\ Listed(q.snap.shelter, q.now)
                          THEN q.now ELSE cards[c].servedAt
        /\ row \in [listing : L!Listings, city : Cities, servedAt : Nat \cup {None}]
    BY <1>3, <1>4, <1>6 DEF MovedCard
  <1> HIDE DEF row
  <1>8. /\ row \in CardRows /\ Exists(row)
        /\ OnShow(row) <=> L!Discoverable(next)
    BY <1>4, <1>7, RowShapes DEF CardRows, Exists, OnShow
  <1>9. c \notin raced =>
          /\ c \notin Fostered => row.city = shelter.city
          /\ OnShow(row) /\ Listed(shelter, clock) => row.servedAt # None
    <2>1. ASSUME c \notin raced, c \notin Fostered PROVE row.city = shelter.city
      BY <1>3, <1>6, <1>7, <2>1 DEF IInv, ShownInv, CityMirrors
    <2>2. ASSUME c \notin raced, OnShow(row), Listed(shelter, clock)
          PROVE  row.servedAt # None
      <3>1. Listed(q.snap.shelter, q.now)
        BY <1>3, <1>5, <2>2, ListedBefore
      <3> QED BY <1>3, <1>7, <1>8, <2>2, <3>1, RowShapes
    <2> QED BY <2>1, <2>2
  <1>10. row.servedAt # None \/ cards[c].servedAt = None
    BY <1>7
  <1>11. IInv'
    BY <1>1, <1>2, <1>3, <1>6, <1>8, <1>9, <1>10, CardLands DEF CardTypes
  <1>12. row.servedAt # cards[c].servedAt =>
           OnShow(row) /\ Listed(q.snap.shelter, q.now)
    BY <1>7, <1>8
  <1> QED BY <1>1, <1>3, <1>11, <1>12

(* What a statement about the shelter does to the shelter's own row.       *)
LEMMA ShelterWritten ==
  ASSUME IInv, NEW r \in Requests, Lands(r), req[r].op.type \in ShelterTypes
  PROVE  /\ req[r].seen = shelter
         /\ \A c \in Cards \ raced : req[r].snap.cards[c] = cards[c]
         /\ req[r].snap.cards \in [Cards -> CardRows]
         /\ \A c \in Cards : Exists(req[r].snap.cards[c]) => Exists(cards[c])
         /\ req[r].op \in Ops /\ req[r].now \in Nat /\ req[r].now <= clock
         /\ shelter' = ShelterAfter(req[r].op, shelter, req[r].now)
         /\ cards' = CardsAfter(req[r].op, shelter, req[r].now, req[r].snap)
         /\ shelter' \in Shelters
         /\ shelter'.version = shelter.version + 1
         /\ shelter'.city = IF req[r].op.type = "address" THEN req[r].op.city
                            ELSE shelter.city
         /\ Stamps(req[r].op, shelter, req[r].now) => Listed(shelter', req[r].now)
         /\ ~Stamps(req[r].op, shelter, req[r].now) =>
              \A t \in Nat : Listed(shelter', t) => Listed(shelter, t)
  <1> DEFINE q == req[r]  op == q.op  now == q.now  v == shelter.verification
             version == shelter.version + 1
             next == NextVerification(v, op.event, now)
  <1>1. /\ InFlight(q, Db, raced, clock) /\ q.pc = "running"
        /\ Matches(q.snap, op, q.seen) /\ Matches(Db, op, q.seen)
        /\ shelter' = ShelterAfter(op, q.seen, now)
        /\ cards' = CardsAfter(op, q.seen, now, q.snap)
    BY DEF Lands, Writable, IInv, ShelterTypes
  <1>2. /\ op \in Ops /\ now \in Nat /\ now <= clock
        /\ q.snap \in Snaps
        /\ \A c \in Cards : Exists(q.snap.cards[c]) => Exists(cards[c])
        /\ q.seen.version = shelter.version => q.seen = shelter
        /\ q.snap.shelter.version = shelter.version =>
             \A c \in Cards \ raced : q.snap.cards[c] = cards[c]
        /\ op.type = "move" => MoveVerdict(q.seen.verification, op.event, now) = "ok"
        /\ op.type = "allow" => q.seen.verification.status \in OpenStatuses
    BY <1>1 DEF InFlight, PlanFits, SnapFits, Db, RequestStates
  <1>3. shelter.version = q.seen.version /\ q.snap.shelter.version = q.seen.version
    BY <1>1 DEF Matches, Db, ShelterTypes
  <1>4. q.seen = shelter /\ \A c \in Cards \ raced : q.snap.cards[c] = cards[c]
    BY <1>2, <1>3
  <1>5. shelter' = ShelterAfter(op, shelter, now)
          /\ cards' = CardsAfter(op, shelter, now, q.snap)
    BY <1>1, <1>4
  <1>6. /\ shelter \in Shelters /\ v \in Verifications
        /\ shelter.early \in Nat \cup {None} /\ shelter.city \in Cities
        /\ version \in Nat /\ Period \in Nat \ {0}
    BY VerificationAssumption DEF IInv, TypeOK, Shelters
  <1>7. op.type = "move" => next \in Verifications
    BY <1>2, <1>4, <1>6, OpShapes, NextVerificationTyped
  <1>8. op.type = "address" => op.city \in Cities
    BY <1>2, OpShapes
  <1> HIDE DEF next, version
  <1>9. op.type = "move" =>
          shelter' = [shelter EXCEPT !.version = version, !.verification = next,
                                     !.early = IF KeepsEarlyListing(v.status, next.status)
                                               THEN shelter.early ELSE None]
    BY <1>5, <1>6 DEF ShelterAfter, Shelters, next, version
  <1>10. /\ op.type = "allow" =>
              shelter' = [shelter EXCEPT !.version = version, !.early = now]
         /\ op.type = "revoke" =>
              shelter' = [shelter EXCEPT !.version = version, !.early = None]
         /\ op.type = "address" =>
              shelter' = [shelter EXCEPT !.version = version, !.city = op.city]
    BY <1>5, <1>6 DEF ShelterAfter, Shelters, version
  <1>11. Stamps(op, shelter, now) <=>
           op.type = "allow" \/ (op.type = "move" /\ next.status = "verified")
    BY DEF Stamps, next
  <1>12. CASE op.type = "move"
    <2>1. /\ shelter'.verification = next /\ shelter'.city = shelter.city
          /\ shelter'.early = IF KeepsEarlyListing(v.status, next.status)
                              THEN shelter.early ELSE None
          /\ shelter'.version = version /\ shelter' \in Shelters
      BY <1>6, <1>7, <1>9, <1>12 DEF Shelters
    <2>2. next.status = "verified" => Listed(shelter', now)
      BY <2>1 DEF Listed
    <2>3. ASSUME next.status # "verified", NEW t \in Nat, Listed(shelter', t)
          PROVE  Listed(shelter, t)
      BY <2>1, <2>3 DEF Listed, EarlyRuns, KeepsEarlyListing
    <2> QED BY <1>2, <1>4, <1>5, <1>11, <1>12, <2>1, <2>2, <2>3 DEF Snaps, version
  <1>13. CASE op.type = "allow"
    <2>1. /\ shelter'.verification = v /\ shelter'.city = shelter.city
          /\ shelter'.early = now
          /\ shelter'.version = version /\ shelter' \in Shelters
      BY <1>2, <1>6, <1>10, <1>13 DEF Shelters
    <2>2. v.status \in OpenStatuses /\ now < now + Period /\ now # None
      BY <1>2, <1>4, <1>6, <1>13, RowShapes
    <2>3. Listed(shelter', now)
      BY <2>1, <2>2 DEF Listed, EarlyRuns
    <2> QED BY <1>2, <1>4, <1>5, <1>11, <1>13, <2>1, <2>3 DEF Snaps, version
  <1>14. CASE op.type \in {"revoke", "address"}
    <2>1. /\ shelter'.verification = v
          /\ shelter'.city = IF op.type = "address" THEN op.city ELSE shelter.city
          /\ shelter'.early \in {None, shelter.early}
          /\ shelter'.version = version /\ shelter' \in Shelters
      BY <1>6, <1>8, <1>10, <1>14 DEF Shelters
    <2>2. \A t \in Nat : Listed(shelter', t) => Listed(shelter, t)
      BY <2>1 DEF Listed, EarlyRuns
    <2> QED BY <1>2, <1>4, <1>5, <1>11, <1>14, <2>1, <2>2 DEF Snaps, version
  <1> QED BY <1>12, <1>13, <1>14 DEF ShelterTypes

(* What it does to each card: only the city, or a stamp where none was.    *)
LEMMA CardWritten ==
  ASSUME IInv, NEW r \in Requests, Lands(r), req[r].op.type \in ShelterTypes,
         NEW c \in Cards
  PROVE  /\ cards' \in [Cards -> CardRows]
         /\ Exists(cards'[c]) <=> Exists(cards[c])
         /\ OnShow(cards'[c]) <=> OnShow(cards[c])
         /\ cards[c].servedAt # None => cards'[c].servedAt = cards[c].servedAt
         /\ cards'[c].servedAt # cards[c].servedAt =>
              OnShow(cards[c]) /\ Stamps(req[r].op, shelter, req[r].now)
         /\ c \notin raced /\ OnShow(cards[c]) /\ Stamps(req[r].op, shelter, req[r].now)
              => cards'[c].servedAt # None
         /\ c \notin raced /\ c \notin Fostered /\ Exists(cards[c])
              /\ req[r].op.type = "address"
              => cards'[c].city = req[r].op.city
         /\ req[r].op.type # "address" => cards'[c].city = cards[c].city
  <1> DEFINE q == req[r]  op == q.op  now == q.now
             stamps == Stamps(op, shelter, now)
  <1>1. /\ op \in Ops /\ now \in Nat /\ op.type \in ShelterTypes
        /\ \A d \in Cards \ raced : q.snap.cards[d] = cards[d]
        /\ \A d \in Cards : Exists(q.snap.cards[d]) => Exists(cards[d])
        /\ cards' = CardsAfter(op, shelter, now, q.snap)
    BY ShelterWritten
  <1>2. cards \in [Cards -> CardRows]
    BY DEF IInv, TypeOK
  <1>3. op.type = "address" => op.city \in Cities /\ ~stamps
    BY <1>1, OpShapes DEF Stamps
  <1>4. ASSUME NEW d \in Cards
        PROVE  cards'[d] = IF stamps /\ Unstamped(q.snap.cards[d]) /\ Unstamped(cards[d])
                           THEN [cards[d] EXCEPT !.servedAt = now]
                           ELSE IF op.type = "address" /\ Exists(q.snap.cards[d])
                                     /\ d \notin Fostered
                           THEN [cards[d] EXCEPT !.city = op.city]
                           ELSE cards[d]
    BY <1>1, <1>3 DEF CardsAfter
  <1> HIDE DEF stamps
  <1>5. ASSUME NEW d \in Cards
        PROVE  /\ cards'[d] \in CardRows
               /\ cards'[d].listing = cards[d].listing
               /\ cards'[d].servedAt = cards[d].servedAt
                    \/ (stamps /\ Unstamped(cards[d]) /\ cards'[d].servedAt = now)
               /\ d \notin raced /\ stamps /\ Unstamped(cards[d])
                    => cards'[d].servedAt = now
               /\ op.type # "address" => cards'[d].city = cards[d].city
               /\ d \notin raced /\ d \notin Fostered /\ Exists(cards[d])
                    /\ op.type = "address"
                    => cards'[d].city = op.city
    <2>1. CASE Exists(cards[d])
      <3>1. cards[d] \in [listing : L!Listings, city : Cities, servedAt : Nat \cup {None}]
        BY <1>2, <2>1, RowShapes
      <3>2. cards'[d] \in [listing : L!Listings, city : Cities, servedAt : Nat \cup {None}]
        BY <1>1, <1>3, <1>4, <3>1
      <3>3. cards'[d] \in CardRows
        BY <3>2 DEF CardRows
      <3> QED BY <1>1, <1>3, <1>4, <2>1, <3>1, <3>3
    <2>2. CASE ~Exists(cards[d])
      <3>1. cards[d] = NoCard /\ ~Unstamped(cards[d])
        BY <1>2, <2>2, RowShapes DEF Unstamped, OnShow
      <3>2. \/ cards'[d] = cards[d]
            \/ /\ op.type = "address" /\ Exists(q.snap.cards[d]) /\ d \notin Fostered
               /\ cards'[d] = [cards[d] EXCEPT !.city = op.city]
        BY <1>4, <3>1
      <3>3. ~Exists(q.snap.cards[d])
        BY <1>1, <2>2
      <3>4. cards'[d] = cards[d]
        BY <3>2, <3>3
      <3> QED BY <1>2, <2>2, <3>1, <3>4
    <2> QED BY <2>1, <2>2
  <1>6. cards' \in [Cards -> CardRows]
    BY <1>1, <1>5 DEF CardsAfter
  <1>7. now # None
    BY <1>1, RowShapes
  <1> QED BY <1>5, <1>6, <1>7 DEF Exists, OnShow, Unstamped, stamps

LEMMA ShelterLands ==
  ASSUME IInv, NEW r \in Requests, Lands(r), req[r].op.type \in ShelterTypes
  PROVE  IInv'
  <1> DEFINE op == req[r].op  now == req[r].now
  <1>1. /\ req \in [Requests -> RequestStates]
        /\ shelter \in Shelters /\ cards \in [Cards -> CardRows]
        /\ raced \subseteq Cards /\ shown \subseteq Cards
        /\ clock \in Nat /\ started \in Nat /\ shelter.version \in Nat
        /\ ShownInv /\ Racing(req) \subseteq raced
    BY DEF IInv, TypeOK, Shelters
  <1>2. /\ Ends(r) /\ UNCHANGED <<raced, clock, started>>
        /\ req[r].pc = "running"
        /\ Db.shelter = shelter /\ Db.cards = cards
        /\ Db'.shelter = shelter' /\ Db'.cards = cards'
        /\ shown' = shown \cup Visible(Db', clock)
    BY DEF Lands, Writable, Db
  <1>3. /\ op \in Ops /\ now \in Nat /\ now <= clock
        /\ shelter' \in Shelters
        /\ shelter'.version = shelter.version + 1
        /\ shelter'.city = IF op.type = "address" THEN op.city ELSE shelter.city
        /\ ~Stamps(op, shelter, now) =>
             \A t \in Nat : Listed(shelter', t) => Listed(shelter, t)
    BY ShelterWritten
  <1>4. ASSUME NEW c \in Cards
        PROVE  /\ cards' \in [Cards -> CardRows]
               /\ Exists(cards'[c]) <=> Exists(cards[c])
               /\ OnShow(cards'[c]) <=> OnShow(cards[c])
               /\ cards[c].servedAt # None => cards'[c].servedAt = cards[c].servedAt
               /\ c \notin raced /\ OnShow(cards[c]) /\ Stamps(op, shelter, now)
                    => cards'[c].servedAt # None
               /\ c \notin raced /\ c \notin Fostered /\ Exists(cards[c])
                    => cards'[c].city = IF op.type = "address" THEN op.city
                                        ELSE cards[c].city
    BY CardWritten
  <1>5. cards' \in [Cards -> CardRows]
    <2>1. CASE Cards = {}
      BY <1>1, <1>3, <2>1, ShelterWritten DEF CardsAfter
    <2>2. CASE Cards # {}
      BY <1>4, <2>2
    <2> QED BY <2>1, <2>2
  <1> HIDE DEF op, now
  <1>6. ASSUME NEW s \in Requests \ {r}
        PROVE  InFlight(req[s], Db', raced, clock)
    <2> DEFINE q == req[s]
    <2>1. InFlight(q, Db, raced, clock)
      BY DEF IInv
    <2>2. q.pc # "idle" /\ q.op.type = "create" => ~Exists(cards'[q.op.card])
      <3>1. CASE q.pc # "idle" /\ q.op.type = "create"
        <4>1. q.op.card \in Cards /\ ~Exists(cards[q.op.card])
          BY <1>2, <2>1, <3>1, OpShapes DEF InFlight
        <4> QED BY <1>4, <4>1
      <3> QED BY <3>1
    <2>3. q.pc \in {"planned", "running"} => PlanFits(q, Db', raced)
      <3>1. CASE q.pc \in {"planned", "running"}
        <4>1. q.op \in Ops /\ PlanFits(q, Db, raced)
          BY <2>1, <3>1 DEF InFlight
        <4>2. q.op.type = "create" => q.op.card \in raced
          BY <1>1, <1>2, <1>3, <3>1, <4>1, WhoRaces DEF CardTypes, op
        <4>3. q.op.type \in ShelterTypes =>
                /\ q.seen.version <= shelter'.version
                /\ q.seen.version # shelter'.version
          <5>1. CASE q.op.type \in ShelterTypes
            <6>1. q.seen.version \in Nat /\ q.seen.version <= shelter.version
              BY <1>2, <4>1, <5>1 DEF PlanFits, Shelters
            <6> QED BY <1>1, <1>3, <6>1
          <5> QED BY <5>1
        <4> QED BY <1>2, <4>1, <4>2, <4>3 DEF PlanFits
      <3> QED BY <3>1
    <2>4. q.pc = "running" => SnapFits(q, Db', raced)
      <3>1. CASE q.pc = "running"
        <4>1. q.op \in Ops /\ SnapFits(q, Db, raced)
          BY <2>1, <3>1 DEF InFlight
        <4>2. q.op.type \in CardTypes => q.op.card \in raced
          BY <1>1, <1>2, <1>3, <3>1, <4>1, WhoRaces DEF op
        <4>3. /\ q.snap.shelter.version <= shelter'.version
              /\ q.snap.shelter.version # shelter'.version
              \/ q.op.type \notin ShelterTypes
          <5>1. CASE q.op.type \in ShelterTypes
            <6>1. /\ q.snap.shelter.version \in Nat
                  /\ q.snap.shelter.version <= shelter.version
              BY <1>2, <4>1, <5>1 DEF SnapFits, Snaps, Shelters
            <6> QED BY <1>1, <1>3, <6>1
          <5> QED BY <5>1
        <4>4. \A d \in Cards : Exists(Db.cards[d]) => Exists(Db'.cards[d])
          BY <1>2, <1>4
        <4> QED BY <1>2, <4>1, <4>2, <4>3, <4>4 DEF SnapFits
      <3> QED BY <3>1
    <2> HIDE DEF q
    <2>5. InFlight(q, Db', raced, clock)
      BY <1>2, <2>1, <2>2, <2>3, <2>4 DEF InFlight
    <2> QED BY <2>5 DEF q
  <1>7. \A c \in Visible(Db', clock) : c \in Cards /\ OnShow(cards[c])
    BY <1>2, <1>4 DEF Visible
  <1>8. ASSUME ~Stamps(op, shelter, now)
        PROVE  Visible(Db', clock) \subseteq shown
    <2>1. Listed(shelter', clock) => Listed(shelter, clock)
      BY <1>1, <1>3, <1>8
    <2>2. \A c \in Visible(Db', clock) : c \in Visible(Db, clock)
      BY <1>2, <1>7, <2>1 DEF Visible
    <2> QED BY <1>1, <2>2 DEF ShownInv
  <1>9. ShownInv'
    <2>1. \A c \in shown' : c \in Cards /\ Exists(cards'[c])
      BY <1>1, <1>2, <1>4, <1>7 DEF ShownInv, OnShow
    <2>2. Visible(Db', clock') \subseteq shown'
      BY <1>2
    <2>3. ShownIsStamped'
      <3>1. ASSUME NEW c \in shown' \ raced' PROVE cards'[c].servedAt # None
        <4>1. CASE c \in shown
          BY <1>1, <1>2, <1>4, <3>1, <4>1 DEF ShownInv, ShownIsStamped
        <4>2. CASE c \notin shown
          <5>1. c \in Visible(Db', clock)
            BY <1>2, <3>1, <4>2
          <5>2. Stamps(op, shelter, now)
            BY <1>8, <4>2, <5>1
          <5> QED BY <1>2, <1>4, <1>7, <3>1, <5>1, <5>2
        <4> QED BY <4>1, <4>2
      <3> QED BY <3>1 DEF ShownIsStamped
    <2>4. CityMirrors'
      <3>1. ASSUME NEW c \in Cards \ (Fostered \cup raced), Exists(cards'[c])
            PROVE  cards'[c].city = shelter'.city
        BY <1>1, <1>3, <1>4, <3>1 DEF ShownInv, CityMirrors
      <3> QED BY <1>2, <3>1 DEF CityMirrors
    <2> QED BY <2>1, <2>2, <2>3, <2>4 DEF ShownInv
  <1>10. /\ req' \in [Requests -> RequestStates]
         /\ \A s \in Requests : InFlight(req[s], Db, raced, clock)'
         /\ DraftsApart'
         /\ Racing(req') \subseteq raced'
    BY <1>2, <1>6, LandedRequests
  <1>11. shown' \subseteq Cards
    BY <1>1, <1>2, <1>7
  <1>12. TypeOK'
    BY <1>1, <1>2, <1>3, <1>5, <1>10, <1>11 DEF TypeOK
  <1> QED BY <1>9, <1>10, <1>12 DEF IInv

-----------------------------------------------------------------------------
(* Every step.                                                             *)

LEMMA LandKeeps ==
  ASSUME IInv, NEW r \in Requests, Lands(r)
  PROVE  IInv'
  <1>1. req[r].op.type \in {"create", "listing"} \cup ShelterTypes
    BY DEF Lands, ShelterTypes
  <1> QED BY <1>1, CreateLands, ListingLands, ShelterLands

LEMMA NextKeeps == IInv /\ [Next]_vars => IInv'
  <1> SUFFICES ASSUME IInv, [Next]_vars PROVE IInv'
    OBVIOUS
  <1>1. ASSUME NEW r \in Requests, Serve(r) PROVE IInv'
    BY <1>1, ReadKeeps, BeginKeeps, LandKeeps, MissKeeps DEF Serve
  <1>2. CASE UNCHANGED vars
    <2>1. /\ UNCHANGED <<shelter, cards, req, shown, raced, clock, started>>
          /\ Db' = Db
      BY <1>2 DEF vars, Db
    <2>2. TypeOK'
      BY <2>1 DEF IInv, TypeOK
    <2>3. \A r \in Requests : InFlight(req[r], Db, raced, clock)'
      BY <2>1 DEF IInv
    <2>4. Visible(Db', clock') = Visible(Db, clock)
      BY <2>1
    <2>5. ShownInv'
      BY <2>1, <2>4 DEF IInv, ShownInv, ShownIsStamped, CityMirrors, Exists
    <2> QED BY <2>1, <2>2, <2>3, <2>5 DEF IInv, DraftsApart
  <1> QED BY <1>1, <1>2, TickKeeps, ArriveKeeps DEF Next, Finished

(* In every behaviour the strengthened invariant always holds.             *)
LEMMA InvariantHolds == Spec => []IInv
  BY InitInv, NextKeeps, PTL DEF Spec

(* However statements overlap, rows and requests keep their types.         *)
THEOREM RowsStayTyped == Spec => []TypeOK
  <1>1. IInv => TypeOK
    BY DEF IInv
  <1> QED BY <1>1, InvariantHolds, PTL

(* A card the public has seen is stamped, unless a statement about it and  *)
(* one about its shelter overlapped.                                       *)
THEOREM ShownCardsStamped == Spec => []ShownIsStamped
  <1>1. IInv => ShownIsStamped
    BY DEF IInv, ShownInv
  <1> QED BY <1>1, InvariantHolds, PTL

(* A card at its shelter is found in the shelter's city, with the same     *)
(* exception.                                                              *)
THEOREM CardsFollowTheirShelter == Spec => []CityMirrors
  <1>1. IInv => CityMirrors
    BY DEF IInv, ShownInv
  <1> QED BY <1>1, InvariantHolds, PTL

(* A stamp always has its grounds, overlap or not.                         *)
THEOREM StampsHaveGrounds == Spec => StampHasGrounds
  <1>1. IInv /\ [Next]_vars =>
          [ \A c \in Cards :
              cards'[c].servedAt # cards[c].servedAt =>
                /\ OnShow(cards'[c])
                /\ \E r \in Requests :
                     /\ req[r].pc = "running"
                     /\ \/ Listed(req[r].snap.shelter, req[r].now)
                        \/ Listed(shelter', req[r].now) ]_vars
    <2> SUFFICES ASSUME IInv, [Next]_vars, NEW c \in Cards,
                        cards'[c].servedAt # cards[c].servedAt
                 PROVE  /\ OnShow(cards'[c])
                        /\ \E r \in Requests :
                             /\ req[r].pc = "running"
                             /\ \/ Listed(req[r].snap.shelter, req[r].now)
                                \/ Listed(shelter', req[r].now)
      OBVIOUS
    <2>1. PICK r \in Requests : Lands(r)
      BY DEF Next, Tick, Finished, ArriveSome, Arrives, Serve, Reads, Begins,
             Misses, vars
    <2>2. /\ req[r].pc = "running" /\ cards \in [Cards -> CardRows]
          /\ req[r].op.type \in {"create", "listing"} \cup ShelterTypes
      BY <2>1 DEF Lands, Writable, ShelterTypes, IInv, TypeOK
    <2>3. CASE req[r].op.type = "create"
      <3>1. /\ req[r].op.card \in Cards /\ ~Exists(cards[req[r].op.card])
            /\ cards' = [cards EXCEPT ![req[r].op.card] =
                           [listing |-> L!DraftListing, city |-> req[r].seen,
                            servedAt |-> None]]
        BY <2>1, <2>3, CreateLands
      <3>2. cards[req[r].op.card].servedAt = None
        BY <2>2, <3>1, RowShapes DEF NoCard
      <3> QED BY <2>2, <3>1, <3>2
    <2>4. CASE req[r].op.type = "listing"
      <3>1. PICK d \in Cards : \E row :
              /\ cards' = [cards EXCEPT ![d] = row]
              /\ row.servedAt # cards[d].servedAt =>
                   OnShow(row) /\ Listed(req[r].snap.shelter, req[r].now)
        BY <2>1, <2>4, ListingLands
      <3> QED BY <2>2, <3>1
    <2>5. CASE req[r].op.type \in ShelterTypes
      <3>1. OnShow(cards'[c]) /\ Stamps(req[r].op, shelter, req[r].now)
        BY <2>1, <2>5, CardWritten
      <3>2. Listed(shelter', req[r].now)
        BY <2>1, <2>5, <3>1, ShelterWritten
      <3> QED BY <2>2, <3>1, <3>2
    <2> QED BY <2>2, <2>3, <2>4, <2>5
  <1> QED BY <1>1, InvariantHolds, PTL DEF Spec, StampHasGrounds

=============================================================================
