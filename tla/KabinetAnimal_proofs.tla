------------------------ MODULE KabinetAnimal_proofs ------------------------
(***************************************************************************)
(* What KabinetAnimal's requests preserve for every number of requests,    *)
(* every clock and every row to start from.  The safety invariants are not *)
(* inductive alone: a write is planned on the row as read, so the          *)
(* invariant IInv also says of every request in flight what its plan       *)
(* relied on, and that a row still at the version it read has the facts it *)
(* read.                                                                   *)
(***************************************************************************)
EXTENDS KabinetAnimal, SequenceTheorems, FiniteSetTheorems, TLAPS

-----------------------------------------------------------------------------
(* The operators of Listing, for every listing and instant.                *)

(* The instants a visible listing carries are in order: waiting since      *)
(* before the reservation and the confirmation, with what an undo would    *)
(* put back between the two (listing.ts, listing-transition.ts).           *)
Ordered(l) ==
  Discoverable(l) =>
    /\ l.publishedAt <= l.confirmedAt
    /\ l.kind = "reserved" => l.publishedAt <= l.since
    /\ l.undoable # None =>
         /\ l.publishedAt <= l.undoable.previousConfirmedAt
         /\ l.undoable.previousConfirmedAt <= l.confirmedAt
         /\ l.undoable.confirmedAt = l.confirmedAt

(* A listing's kind is one of the five, and fixes its shape.               *)
LEMMA KindShapes ==
  ASSUME NEW l \in Listings
  PROVE  /\ l.kind \in ListingKinds
         /\ l.kind = "draft"     => l \in DraftListings
         /\ l.kind = "published" => l \in PublishedListings
         /\ l.kind = "reserved"  => l \in ReservedListings
         /\ l.kind = "adopted"   => l \in AdoptedListings
         /\ l.kind = "withdrawn" => l \in WithdrawnListings
  BY DEF Listings, ListingKinds, DraftListings, PublishedListings,
         ReservedListings, AdoptedListings, WithdrawnListings

(* Confirming a visible listing keeps its shape and its other instants,    *)
(* and moves nothing out of order, when the tap is not older than the      *)
(* confirmation it replaces.                                               *)
LEMMA ConfirmedFacts ==
  ASSUME NEW l \in PublishedListings \cup ReservedListings,
         NEW at \in Nat
  PROVE  /\ Confirmed(l, at) \in Listings
         /\ Confirmed(l, at).kind = l.kind
         /\ Confirmed(l, at).confirmedAt = at
         /\ Confirmed(l, at).publishedAt = l.publishedAt
         /\ Ordered(l) /\ at >= l.confirmedAt => Ordered(Confirmed(l, at))
  <1> DEFINE u == [previousConfirmedAt |->
                     IF UndoableAt(l, at) THEN l.undoable.previousConfirmedAt
                                          ELSE l.confirmedAt,
                   confirmedAt |-> at]
  <1>1. u \in [previousConfirmedAt : Nat, confirmedAt : Nat]
    BY DEF PublishedListings, ReservedListings, Undoables, UndoableAt
  <1>2. u \in Undoables
    BY <1>1 DEF Undoables
  <1>3. Confirmed(l, at) = [l EXCEPT !.confirmedAt = at, !.undoable = u]
    BY DEF Confirmed
  <1>4. CASE l \in PublishedListings
    <2>1. Confirmed(l, at) \in PublishedListings
      BY <1>2, <1>3, <1>4 DEF PublishedListings
    <2> HIDE DEF u
    <2>2. /\ Confirmed(l, at).kind = l.kind
          /\ Confirmed(l, at).confirmedAt = at
          /\ Confirmed(l, at).publishedAt = l.publishedAt
          /\ Confirmed(l, at).undoable = u
      BY <1>3, <1>4 DEF PublishedListings
    <2>3. ASSUME Ordered(l), at >= l.confirmedAt
          PROVE  Ordered(Confirmed(l, at))
      <3>1. u.confirmedAt = at
        BY DEF u
      <3>2. /\ u.previousConfirmedAt \in Nat
            /\ l.publishedAt <= u.previousConfirmedAt
            /\ u.previousConfirmedAt <= at
        BY <1>4, <2>3
           DEF u, Ordered, UndoableAt, PublishedListings, Undoables,
               Discoverable, DiscoverableKinds
      <3>3. l.publishedAt <= at /\ l.kind = "published"
        BY <1>4, <2>3
           DEF Ordered, PublishedListings, Discoverable, DiscoverableKinds
      <3> QED BY <2>2, <3>1, <3>2, <3>3 DEF Ordered
    <2> QED BY <2>1, <2>2, <2>3 DEF Listings
  <1>5. CASE l \in ReservedListings
    <2>1. Confirmed(l, at) \in ReservedListings
      BY <1>2, <1>3, <1>5 DEF ReservedListings
    <2> HIDE DEF u
    <2>2. /\ Confirmed(l, at).kind = l.kind
          /\ Confirmed(l, at).confirmedAt = at
          /\ Confirmed(l, at).publishedAt = l.publishedAt
          /\ Confirmed(l, at).since = l.since
          /\ Confirmed(l, at).undoable = u
      BY <1>3, <1>5 DEF ReservedListings
    <2>3. ASSUME Ordered(l), at >= l.confirmedAt
          PROVE  Ordered(Confirmed(l, at))
      <3>1. u.confirmedAt = at
        BY DEF u
      <3>2. /\ u.previousConfirmedAt \in Nat
            /\ l.publishedAt <= u.previousConfirmedAt
            /\ u.previousConfirmedAt <= at
        BY <1>5, <2>3
           DEF u, Ordered, UndoableAt, ReservedListings, Undoables,
               Discoverable, DiscoverableKinds
      <3>3. l.publishedAt <= at /\ l.publishedAt <= l.since
        BY <1>5, <2>3
           DEF Ordered, ReservedListings, Discoverable, DiscoverableKinds
      <3> QED BY <2>2, <3>1, <3>2, <3>3 DEF Ordered
    <2> QED BY <2>1, <2>2, <2>3 DEF Listings
  <1> QED BY <1>4, <1>5

(* An undo the machine accepts gives back a listing of the same shape, in  *)
(* order.                                                                  *)
LEMMA UnconfirmedFacts ==
  ASSUME NEW l \in PublishedListings \cup ReservedListings,
         l.undoable # None
  PROVE  /\ Unconfirmed(l) \in Listings
         /\ Unconfirmed(l).kind = l.kind
         /\ Unconfirmed(l).confirmedAt = l.undoable.previousConfirmedAt
         /\ Unconfirmed(l).publishedAt = l.publishedAt
         /\ Unconfirmed(l).undoable = None
         /\ Ordered(l) => Ordered(Unconfirmed(l))
  <1>1. l.undoable.previousConfirmedAt \in Nat
    BY DEF PublishedListings, ReservedListings, Undoables
  <1>2. CASE l \in PublishedListings
    BY <1>1, <1>2
       DEF Unconfirmed, PublishedListings, Listings, Undoables, Ordered,
           Discoverable, DiscoverableKinds
  <1>3. CASE l \in ReservedListings
    BY <1>1, <1>3
       DEF Unconfirmed, ReservedListings, Listings, Undoables, Ordered,
           Discoverable, DiscoverableKinds
  <1> QED BY <1>2, <1>3

(* Every move the machine accepts leads to a listing, and keeps a visible  *)
(* listing's instants in order.                                            *)
LEMMA NextListingFacts ==
  ASSUME NEW l \in Listings, NEW event \in ListingEvents, NEW at \in Nat,
         Verdict(l, event, at) = "ok"
  PROVE  /\ NextListing(l, event, at) \in Listings
         /\ Ordered(l) => Ordered(NextListing(l, event, at))
  <1> DEFINE next == NextListing(l, event, at)
  <1>1. CASE event = "undo_confirm"
    <2>1. Discoverable(l) /\ UndoableAt(l, at)
      BY <1>1 DEF Verdict, UndoVerdict
    <2>2. l \in PublishedListings \cup ReservedListings
      BY <2>1, KindShapes DEF Discoverable, DiscoverableKinds
    <2>3. next = Unconfirmed(l)
      BY <1>1 DEF NextListing
    <2> QED BY <2>1, <2>2, <2>3, UnconfirmedFacts DEF UndoableAt
  <1>2. CASE event = "confirm"
    <2>1. l.kind \in DiscoverableKinds
      BY <1>2, KindShapes
         DEF Verdict, LegalEvents, ListingKinds, DiscoverableKinds
    <2>2. l \in PublishedListings \cup ReservedListings
      BY <2>1, KindShapes DEF DiscoverableKinds
    <2>3. ~Precedes(at, l)
      BY <1>2 DEF Verdict
    <2>4. at >= l.confirmedAt
      BY <2>2, <2>3
         DEF Precedes, InstantsOf, PublishedListings, ReservedListings
    <2>5. next = Confirmed(l, at)
      BY <1>2 DEF NextListing
    <2> QED BY <2>2, <2>4, <2>5, ConfirmedFacts
  <1>3. CASE event \notin {"undo_confirm", "confirm"}
    <2>1. event \in LegalEvents(l.kind) /\ ~Precedes(at, l)
      BY <1>3 DEF Verdict
    <2>2. CASE event = "publish"
      BY <2>2 DEF NextListing, Listings, PublishedListings, Undoables,
                  Ordered, Discoverable, DiscoverableKinds
    <2>3. CASE event = "reserve"
      <3>1. l \in PublishedListings
        BY <2>1, <2>3, KindShapes DEF LegalEvents, ListingKinds
      <3>2. at >= l.confirmedAt
        BY <2>1, <3>1 DEF Precedes, InstantsOf, PublishedListings
      <3> QED BY <2>3, <3>1, <3>2
                 DEF NextListing, Listings, PublishedListings,
                     ReservedListings, Undoables, Ordered, Discoverable,
                     DiscoverableKinds
    <2>4. CASE event = "release"
      <3>1. l \in ReservedListings
        BY <2>1, <2>4, KindShapes DEF LegalEvents, ListingKinds
      <3> QED BY <2>4, <3>1
                 DEF NextListing, Listings, PublishedListings,
                     ReservedListings, Undoables, Ordered, Discoverable,
                     DiscoverableKinds
    <2>5. CASE event = "adopt"
      BY <2>5 DEF NextListing, Listings, AdoptedListings, Ordered,
                  Discoverable, DiscoverableKinds
    <2>6. CASE event = "withdraw"
      BY <2>6 DEF NextListing, Listings, WithdrawnListings, Ordered,
                  Discoverable, DiscoverableKinds
    <2>7. CASE event = "restore_to_draft"
      BY <2>7 DEF NextListing, DraftListing, Listings, DraftListings,
                  Ordered, Discoverable, DiscoverableKinds
    <2> QED BY <1>3, <2>2, <2>3, <2>4, <2>5, <2>6, <2>7 DEF ListingEvents
  <1> QED BY <1>1, <1>2, <1>3

(* The lifecycle's edges: from which kinds an accepted event leads where.  *)
LEMMA NextKinds ==
  ASSUME NEW l \in Listings, NEW event \in ListingEvents, NEW at \in Nat,
         Verdict(l, event, at) = "ok"
  PROVE  \/ /\ event = "publish" /\ l.kind = "draft"
            /\ NextListing(l, event, at).kind = "published"
         \/ /\ event = "reserve" /\ l.kind = "published"
            /\ NextListing(l, event, at).kind = "reserved"
         \/ /\ event = "release" /\ l.kind = "reserved"
            /\ NextListing(l, event, at).kind = "published"
         \/ /\ event = "adopt" /\ l.kind \in DiscoverableKinds
            /\ NextListing(l, event, at).kind = "adopted"
         \/ /\ event = "withdraw" /\ l.kind \in DiscoverableKinds
            /\ NextListing(l, event, at).kind = "withdrawn"
         \/ /\ event = "restore_to_draft" /\ l.kind = "withdrawn"
            /\ NextListing(l, event, at).kind = "draft"
         \/ /\ event \in ConfirmationEvents
            /\ l.kind \in DiscoverableKinds
            /\ NextListing(l, event, at).kind = l.kind
  <1>1. CASE event = "undo_confirm"
    <2>1. Discoverable(l) /\ UndoableAt(l, at)
      BY <1>1 DEF Verdict, UndoVerdict
    <2>2. l \in PublishedListings \cup ReservedListings
      BY <2>1, KindShapes DEF Discoverable, DiscoverableKinds
    <2>3. NextListing(l, event, at) = Unconfirmed(l)
      BY <1>1 DEF NextListing
    <2> QED BY <1>1, <2>1, <2>2, <2>3, UnconfirmedFacts
               DEF UndoableAt, ConfirmationEvents, Discoverable
  <1>2. CASE event = "confirm"
    <2>1. l.kind \in DiscoverableKinds
      BY <1>2, KindShapes
         DEF Verdict, LegalEvents, ListingKinds, DiscoverableKinds
    <2>2. l \in PublishedListings \cup ReservedListings
      BY <2>1, KindShapes DEF DiscoverableKinds
    <2>3. NextListing(l, event, at) = Confirmed(l, at)
      BY <1>2 DEF NextListing
    <2> QED BY <1>2, <2>1, <2>2, <2>3, ConfirmedFacts
               DEF ConfirmationEvents
  <1>3. CASE event \notin {"undo_confirm", "confirm"}
    <2>1. event \in LegalEvents(l.kind)
      BY <1>3 DEF Verdict
    <2>2. l.kind \in ListingKinds
      BY KindShapes
    <2> QED BY <1>3, <2>1, <2>2
               DEF LegalEvents, ListingKinds, ListingEvents, NextListing,
                   DraftListing, DiscoverableKinds
  <1> QED BY <1>1, <1>2, <1>3

(* A photo change keeps a listing's shape, its kind and its order, and     *)
(* never moves the confirmation date back.                                 *)
LEMMA AfterPhotoChangeFacts ==
  ASSUME NEW l \in Listings, NEW at \in Nat
  PROVE  /\ AfterPhotoChange(l, at) \in Listings
         /\ AfterPhotoChange(l, at).kind = l.kind
         /\ Ordered(l) => Ordered(AfterPhotoChange(l, at))
         /\ Discoverable(l) =>
              /\ AfterPhotoChange(l, at).confirmedAt >= l.confirmedAt
              /\ AfterPhotoChange(l, at).publishedAt = l.publishedAt
  <1> DEFINE latest == IF at > l.confirmedAt THEN at ELSE l.confirmedAt
  <1>1. CASE Discoverable(l)
    <2>1. l \in PublishedListings \/ l \in ReservedListings
      BY <1>1, KindShapes DEF Discoverable, DiscoverableKinds
    <2>2. latest \in Nat /\ latest >= l.confirmedAt
      BY <2>1 DEF PublishedListings, ReservedListings
    <2>3. AfterPhotoChange(l, at) =
            [l EXCEPT !.confirmedAt = latest, !.undoable = None]
      BY <1>1 DEF AfterPhotoChange
    <2> HIDE DEF latest
    <2>4. CASE l \in PublishedListings
      <3>1. AfterPhotoChange(l, at) \in PublishedListings
        BY <2>2, <2>3, <2>4 DEF PublishedListings, Undoables
      <3>2. /\ AfterPhotoChange(l, at).kind = l.kind
            /\ AfterPhotoChange(l, at).confirmedAt = latest
            /\ AfterPhotoChange(l, at).publishedAt = l.publishedAt
            /\ AfterPhotoChange(l, at).undoable = None
        BY <2>3, <2>4 DEF PublishedListings
      <3>3. /\ l.kind = "published"
            /\ Ordered(l) => l.publishedAt <= latest
        BY <1>1, <2>2, <2>4 DEF Ordered, PublishedListings
      <3> QED
        BY <1>1, <2>2, <3>1, <3>2, <3>3 DEF Listings, Ordered, Discoverable
    <2>5. CASE l \in ReservedListings
      <3>1. AfterPhotoChange(l, at) \in ReservedListings
        BY <2>2, <2>3, <2>5 DEF ReservedListings, Undoables
      <3>2. /\ AfterPhotoChange(l, at).kind = l.kind
            /\ AfterPhotoChange(l, at).confirmedAt = latest
            /\ AfterPhotoChange(l, at).publishedAt = l.publishedAt
            /\ AfterPhotoChange(l, at).undoable = None
            /\ AfterPhotoChange(l, at).since = l.since
        BY <2>3, <2>5 DEF ReservedListings
      <3>3. Ordered(l) => l.publishedAt <= latest
        BY <1>1, <2>2, <2>5 DEF Ordered, ReservedListings
      <3> QED
        BY <1>1, <2>2, <3>1, <3>2, <3>3 DEF Listings, Ordered, Discoverable
    <2> QED BY <2>1, <2>4, <2>5
  <1>2. CASE ~Discoverable(l)
    BY <1>2 DEF AfterPhotoChange
  <1> QED BY <1>1, <1>2

(* What becomes of the confirmation and of the wait when a visible card    *)
(* stays visible: only an undo inside its window moves the confirmation    *)
(* back, and nothing restarts the wait.                                    *)
LEMMA VisibleMoveFacts ==
  ASSUME NEW l \in Listings, NEW event \in ListingEvents, NEW at \in Nat,
         Verdict(l, event, at) = "ok",
         Discoverable(l), Discoverable(NextListing(l, event, at))
  PROVE  /\ NextListing(l, event, at).publishedAt = l.publishedAt
         /\ \/ /\ event = "undo_confirm"
               /\ l.undoable # None
               /\ at - l.confirmedAt <= UndoWindow
               /\ NextListing(l, event, at).confirmedAt =
                    l.undoable.previousConfirmedAt
               /\ NextListing(l, event, at).undoable = None
            \/ NextListing(l, event, at).confirmedAt >= l.confirmedAt
  <1> DEFINE next == NextListing(l, event, at)
  <1>1. l \in PublishedListings \cup ReservedListings
    BY KindShapes DEF Discoverable, DiscoverableKinds
  <1>2. l.confirmedAt \in Nat
    BY <1>1 DEF PublishedListings, ReservedListings
  <1>3. CASE event = "undo_confirm"
    <2>1. UndoableAt(l, at) /\ next = Unconfirmed(l)
      BY <1>3 DEF Verdict, UndoVerdict, NextListing
    <2>2. l.undoable # None /\ l.undoable.confirmedAt = l.confirmedAt
            /\ at - l.undoable.confirmedAt <= UndoWindow
      BY <2>1 DEF UndoableAt
    <2>3. /\ Unconfirmed(l).confirmedAt = l.undoable.previousConfirmedAt
          /\ Unconfirmed(l).publishedAt = l.publishedAt
          /\ Unconfirmed(l).undoable = None
      BY <1>1, <2>2, UnconfirmedFacts
    <2>4. at - l.confirmedAt <= UndoWindow
      BY <2>2
    <2> HIDE DEF next
    <2> QED BY <1>3, <2>1, <2>2, <2>3, <2>4 DEF next
  <1>4. CASE event = "confirm"
    <2>1. ~Precedes(at, l) /\ next = Confirmed(l, at)
      BY <1>4 DEF Verdict, NextListing
    <2>2. at >= l.confirmedAt
      BY <1>1, <1>2, <2>1
         DEF Precedes, InstantsOf, PublishedListings, ReservedListings
    <2>3. /\ Confirmed(l, at).confirmedAt = at
          /\ Confirmed(l, at).publishedAt = l.publishedAt
      BY <1>1, ConfirmedFacts
    <2> HIDE DEF next
    <2> QED BY <2>1, <2>2, <2>3 DEF next
  <1>5. CASE event \in {"reserve", "release"}
    <2>1. next.publishedAt = l.publishedAt /\ next.confirmedAt = l.confirmedAt
      BY <1>5 DEF NextListing
    <2> HIDE DEF next
    <2> QED BY <1>2, <2>1 DEF next
  <1>6. CASE event \notin {"undo_confirm", "confirm", "reserve", "release"}
    <2>1. event \in LegalEvents(l.kind)
      BY <1>6 DEF Verdict
    <2>2. event # "publish" /\ event # "restore_to_draft"
      BY <1>1, <2>1 DEF LegalEvents, PublishedListings, ReservedListings
    <2>3. next.kind \in {"adopted", "withdrawn"}
      BY <1>6, <2>2 DEF NextListing, ListingEvents
    <2> QED BY <2>3 DEF Discoverable, DiscoverableKinds
  <1> QED BY <1>3, <1>4, <1>5, <1>6

-----------------------------------------------------------------------------
(* The requests.                                                           *)

(* What a request about to write has decided on the row it read.           *)
Planned(q) ==
  /\ q.op.type = "tap"    => TapDecision(q.seen, q.op.event, q.now) = "write"
  /\ q.op.type = "edit"   => EditDecision(q.seen, q.op) = "write"
  /\ q.op.type = "delete" => DeleteDecision(q.seen) = "write"
  /\ q.op.type = "add"    => q.key \in PhotoKeys
  /\ q.op.type \in {"remove", "reorder"}
       => RewriteDecision(q.seen, q.op) = "write"

(* A row still at the version a request read has the facts it read.        *)
Pinned(seen, c) ==
  /\ seen.version <= c.version
  /\ seen.version = c.version => seen.missing = c.missing

ReqInv(q, c) ==
  /\ q \in RequestStates
  /\ q.pc # "idle" =>
       /\ q.op \in Ops
       /\ q.op.type = "remove" => q.op.at \in 1 .. Len(q.op.shown)
  /\ q.pc = "store" => q.op.type = "add"
  /\ q.pc \in {"store", "write"} => q.seen \in Cards /\ Pinned(q.seen, c)
  /\ q.pc = "write" => Planned(q)

(* A card that has been listed is known to have been public; one that has  *)
(* not has no recorded move.                                               *)
PublicRecorded ==
  /\ card.listing.kind # "draft" => card.everPublic
  /\ ~card.everPublic =>
       \A i \in DOMAIN history : history[i].type # "moved"
  /\ ~exists => ~card.everPublic

CardInv ==
  /\ ListedHasFacts
  /\ VisibleHasPhoto
  /\ Ordered(card.listing)
  /\ PublicRecorded

IInv ==
  /\ TypeOK
  /\ \A r \in Requests : ReqInv(req[r], card)
  /\ CardInv

-----------------------------------------------------------------------------
(* Requests.                                                               *)

(* An empty slot relies on nothing.                                        *)
LEMMA IdleReq ==
  ASSUME NEW c, NEW answer \in Answers
  PROVE  ReqInv(IdleWith(answer), c)
  BY DEF ReqInv, IdleWith, RequestStates

(* What a request relies on survives any change of the row that either     *)
(* keeps its version and facts or bumps its version.                       *)
LEMMA ReqSurvives ==
  ASSUME NEW q, NEW c \in Cards, NEW d \in Cards, ReqInv(q, c),
         \/ d.version = c.version /\ d.missing = c.missing
         \/ d.version = c.version + 1
  PROVE  ReqInv(q, d)
  <1>1. c.version \in Nat /\ d.version \in Nat
    BY DEF Cards
  <1>2. CASE q.pc \in {"store", "write"}
    <2>1. q.seen \in Cards /\ Pinned(q.seen, c)
      BY <1>2 DEF ReqInv
    <2>2. q.seen.version \in Nat
      BY <2>1 DEF Cards
    <2>3. Pinned(q.seen, d)
      BY <1>1, <2>1, <2>2 DEF Pinned
    <2> QED BY <2>1, <2>3 DEF ReqInv
  <1>3. CASE q.pc \notin {"store", "write"}
    BY <1>3 DEF ReqInv
  <1> QED BY <1>2, <1>3

(* A step that changes one request, and of the rest at most the keys and   *)
(* the counters.                                                           *)
LEMMA OneRequestMoves ==
  ASSUME IInv, NEW r \in Requests, NEW q,
         ReqInv(q, card),
         req' = [req EXCEPT ![r] = q],
         UNCHANGED <<exists, card, history>>,
         stored' \subseteq PhotoKeys, orphaned' \subseteq PhotoKeys,
         clock' \in Nat, started' \in Nat
  PROVE  IInv'
  <1>1. q \in RequestStates
    BY DEF ReqInv
  <1>2. TypeOK'
    BY <1>1 DEF IInv, TypeOK
  <1>3. \A s \in Requests : ReqInv(req'[s], card')
    BY DEF IInv, TypeOK
  <1>4. CardInv'
    BY DEF IInv, CardInv, ListedHasFacts, VisibleHasPhoto, PublicRecorded
  <1> QED BY <1>2, <1>3, <1>4 DEF IInv

(* Answering a request leaves the row, and what the others rely on,        *)
(* alone.                                                                  *)
LEMMA AnswerKeeps ==
  ASSUME IInv, NEW r \in Requests, NEW answer \in Answers,
         Answer(r, answer),
         UNCHANGED <<exists, card, history, clock, started>>,
         stored' \subseteq PhotoKeys, orphaned' \subseteq PhotoKeys
  PROVE  IInv'
  BY IdleReq, OneRequestMoves DEF Answer, IInv, TypeOK

(* What is logged as an orphan is a key.                                   *)
LEMMA LogOrphanType ==
  ASSUME IInv, NEW r \in Requests, LogOrphan(r)
  PROVE  orphaned' \subseteq PhotoKeys
  <1>1. req[r].key \in PhotoKeys \cup {None}
    BY DEF IInv, TypeOK, RequestStates
  <1> QED BY <1>1 DEF LogOrphan, IInv, TypeOK

(* An answer that logs an orphan keeps the invariant like any other.       *)
LEMMA AnswerFailedKeeps ==
  ASSUME IInv, NEW r \in Requests, NEW answer \in Answers,
         AnswerFailed(r, answer),
         UNCHANGED <<exists, card, history, stored, clock, started>>
  PROVE  IInv'
  <1>1. stored' \subseteq PhotoKeys
    BY DEF IInv, TypeOK
  <1> QED BY <1>1, AnswerKeeps, LogOrphanType DEF AnswerFailed

-----------------------------------------------------------------------------
(* The steps that leave the row alone.                                     *)

(* The rows a card can start from satisfy the invariant.                   *)
LEMMA InitInv == Init => IInv
  <1> SUFFICES ASSUME Init PROVE IInv
    OBVIOUS
  <1>1. card \in Cards /\ card.photos \in Seq(PhotoKeys)
    BY KabinetAnimalAssumption DEF Init, Cards
  <1>2. KeysOf(card.photos) \subseteq PhotoKeys
    BY <1>1 DEF KeysOf
  <1>3. \A r \in Requests : ReqInv(req[r], card)
    BY IdleReq DEF Init, Answers
  <1>4. TypeOK
    BY <1>1, <1>2, <1>3 DEF Init, TypeOK, ReqInv
  <1>5. CardInv
    <2>1. CASE card.listing = DraftListing /\ ~card.everPublic
      BY <2>1 DEF CardInv, ListedHasFacts, VisibleHasPhoto, Ordered,
                  PublicRecorded, Init, DraftListing, Discoverable,
                  DiscoverableKinds
    <2>2. CASE /\ card.listing \in PublishedListings
               /\ card.listing.publishedAt <= card.listing.confirmedAt
               /\ card.listing.undoable = None
               /\ card.everPublic
               /\ card.missing \cap NullableFacts = {}
               /\ card.photos # <<>>
      BY <2>2 DEF CardInv, ListedHasFacts, VisibleHasPhoto, Ordered,
                  PublicRecorded, Init, PublishedListings
    <2> QED BY <2>1, <2>2, StartCardsAssumption DEF Init
  <1> QED BY <1>3, <1>4, <1>5 DEF IInv

(* A request arrives with an operation of its own type.                    *)
LEMMA ArriveKeeps ==
  ASSUME IInv, NEW r \in Requests, ArriveSome(r)
  PROVE  IInv'
  <1>1. ASSUME NEW op \in Ops, Arrives(r, op),
               op.type = "remove" => op.at \in 1 .. Len(op.shown)
        PROVE  IInv'
    <2> DEFINE q == [pc |-> "read", op |-> op, now |-> clock, attempt |-> 1,
                     seen |-> None, key |-> None, answer |-> "none"]
    <2>1. ReqInv(q, card)
      BY <1>1 DEF ReqInv, RequestStates, Answers, IInv, TypeOK
    <2>2. req' = [req EXCEPT ![r] = q]
      BY <1>1 DEF Arrives
    <2> HIDE DEF q
    <2>3. /\ UNCHANGED <<exists, card, history>>
          /\ stored' \subseteq PhotoKeys /\ orphaned' \subseteq PhotoKeys
          /\ clock' \in Nat /\ started' \in Nat
      BY <1>1 DEF Arrives, IInv, TypeOK
    <2> QED BY <2>1, <2>2, <2>3, OneRequestMoves
  <1>2. card.photos \in Seq(PhotoKeys) /\ card.version \in Nat
    BY DEF IInv, TypeOK, Cards
  <1>3. CASE TapArrives(r)
    BY <1>1, <1>3 DEF TapArrives, Ops, TapOps
  <1>4. CASE EditArrives(r)
    <2>1. PICK patch \in Patches, version \in 0 .. card.version :
            Arrives(r, [type |-> "edit", version |-> version,
                        patch |-> patch])
      BY <1>4 DEF EditArrives
    <2>2. version \in Nat
      BY <1>2
    <2> QED BY <1>1, <2>1, <2>2 DEF Ops, EditOps
  <1>5. CASE AddArrives(r)
    BY <1>1, <1>5 DEF AddArrives, Ops, AddOps
  <1>6. CASE RemoveArrives(r)
    <2>1. PICK i \in DOMAIN card.photos :
            Arrives(r, [type |-> "remove", shown |-> card.photos, at |-> i])
      BY <1>6 DEF RemoveArrives
    <2>2. i \in 1 .. Len(card.photos)
      BY <1>2
    <2> QED BY <1>1, <1>2, <2>1, <2>2 DEF Ops, RemoveOps
  <1>7. CASE ReorderArrives(r)
    <2>1. PICK wanted \in [1 .. Len(card.photos) -> KeysOf(card.photos)] :
            Arrives(r, [type |-> "reorder", shown |-> card.photos,
                        wanted |-> wanted])
      BY <1>7 DEF ReorderArrives
    <2>2. KeysOf(card.photos) \subseteq PhotoKeys
      BY <1>2 DEF KeysOf
    <2>3. wanted \in Seq(PhotoKeys)
      <3>1. Len(card.photos) \in Nat
        BY <1>2
      <3>2. wanted \in [1 .. Len(card.photos) -> PhotoKeys]
        BY <2>2
      <3> QED BY <3>1, <3>2
    <2> QED BY <1>1, <1>2, <2>1, <2>3 DEF Ops, ReorderOps
  <1>8. CASE DeleteArrives(r)
    BY <1>1, <1>8 DEF DeleteArrives, Ops, DeleteOps
  <1> QED BY <1>3, <1>4, <1>5, <1>6, <1>7, <1>8 DEF ArriveSome

(* A read that leads on: the request now relies on the row as it is.       *)
LEMMA ReadOnKeeps ==
  ASSUME IInv, NEW r \in Requests, NEW next \in {"store", "write"},
         req[r].pc # "idle",
         req' = [req EXCEPT ![r].pc = next, ![r].seen = card],
         UNCHANGED <<exists, card, history, stored, orphaned, clock, started>>,
         next = "store" => req[r].op.type = "add",
         next = "write" => Planned([req[r] EXCEPT !.seen = card])
  PROVE  IInv'
  <1> DEFINE q == [req[r] EXCEPT !.pc = next, !.seen = card]
  <1>1. req[r] \in RequestStates /\ card \in Cards
    BY DEF IInv, TypeOK
  <1>2. req' = [req EXCEPT ![r] = q]
    BY DEF IInv, TypeOK
  <1>3. /\ q \in RequestStates
        /\ q.pc = next /\ q.seen = card /\ q.op = req[r].op
        /\ q.key = req[r].key /\ q.now = req[r].now
    BY <1>1 DEF RequestStates
  <1>4. Pinned(card, card)
    BY <1>1 DEF Pinned, Cards
  <1>5. next = "write" => Planned(q)
    BY <1>1, <1>3 DEF Planned, RequestStates
  <1>6. ReqInv(q, card)
    BY <1>1, <1>3, <1>4, <1>5 DEF ReqInv, IInv
  <1> HIDE DEF q
  <1> QED BY <1>2, <1>6, OneRequestMoves DEF IInv, TypeOK

(* Each handler's read, whatever it decides on the row.                    *)
LEMMA ReadKeeps ==
  ASSUME IInv, NEW r \in Requests,
         \/ TapReads(r) \/ EditReads(r) \/ AddReads(r) \/ RewriteReads(r)
         \/ DeleteReads(r)
  PROVE  IInv'
  <1> DEFINE q == [req[r] EXCEPT !.seen = card]
  <1>1. /\ req[r] \in RequestStates
        /\ req[r].pc = "read" => req[r].op \in Ops
    BY DEF IInv, TypeOK, ReqInv
  <1>2. q.op = req[r].op /\ q.seen = card /\ q.now = req[r].now
          /\ q.key = req[r].key
    BY <1>1 DEF RequestStates
  <1> HIDE DEF q
  <1>3. CASE TapReads(r)
    <2> DEFINE d == TapDecision(card, req[r].op.event, req[r].now)
    <2>1. req[r].pc = "read" /\ req[r].op.type = "tap" /\ Decides(r, d, "write")
      BY <1>3 DEF TapReads, Reading
    <2>2. d \in Answers \cup {"write"}
      BY DEF TapDecision, Verdict, UndoVerdict, Answers
    <2>3. CASE d = "write"
      <3>1. Planned(q)
        BY <1>2, <2>1, <2>3 DEF Planned
      <3> QED BY <2>1, <2>3, <3>1, ReadOnKeeps DEF Decides, q
    <2>4. CASE d # "write"
      BY <2>1, <2>2, <2>4, AnswerFailedKeeps DEF Decides
    <2> QED BY <2>3, <2>4
  <1>4. CASE EditReads(r)
    <2> DEFINE d == EditDecision(card, req[r].op)
    <2>1. req[r].pc = "read" /\ req[r].op.type = "edit" /\ Decides(r, d, "write")
      BY <1>4 DEF EditReads, Reading
    <2>2. d \in Answers \cup {"write"}
      BY DEF EditDecision, Answers
    <2>3. CASE d = "write"
      <3>1. Planned(q)
        BY <1>2, <2>1, <2>3 DEF Planned
      <3> QED BY <2>1, <2>3, <3>1, ReadOnKeeps DEF Decides, q
    <2>4. CASE d # "write"
      BY <2>1, <2>2, <2>4, AnswerFailedKeeps DEF Decides
    <2> QED BY <2>3, <2>4
  <1>5. CASE AddReads(r)
    <2> DEFINE d == AddDecision(card)
               next == IF req[r].key = None THEN "store" ELSE "write"
    <2>1. req[r].pc = "read" /\ req[r].op.type = "add" /\ Decides(r, d, next)
      BY <1>5 DEF AddReads, Reading
    <2>2. d \in Answers \cup {"write"}
      BY DEF AddDecision, Answers
    <2>3. CASE d = "write"
      <3>1. next = "write" => Planned(q)
        BY <1>1, <1>2, <2>1 DEF Planned, RequestStates
      <3>2. next \in {"store", "write"}
        OBVIOUS
      <3>3. req' = [req EXCEPT ![r].pc = next, ![r].seen = card]
            /\ UNCHANGED orphaned
        BY <2>1, <2>3 DEF Decides
      <3>4. UNCHANGED <<exists, card, history, stored, clock, started>>
        BY <2>1 DEF Decides
      <3> HIDE DEF next, d
      <3> QED BY <2>1, <3>1, <3>2, <3>3, <3>4, ReadOnKeeps DEF q
    <2>4. CASE d # "write"
      BY <2>1, <2>2, <2>4, AnswerFailedKeeps DEF Decides
    <2> QED BY <2>3, <2>4
  <1>6. CASE RewriteReads(r)
    <2> DEFINE d == RewriteDecision(card, req[r].op)
    <2>1. req[r].pc = "read" /\ req[r].op.type \in {"remove", "reorder"}
            /\ Decides(r, d, "write")
      BY <1>6 DEF RewriteReads, Reading
    <2>2. d \in Answers \cup {"write"}
      BY DEF RewriteDecision, Answers
    <2>3. CASE d = "write"
      <3>1. Planned(q)
        BY <1>2, <2>1, <2>3 DEF Planned
      <3> QED BY <2>1, <2>3, <3>1, ReadOnKeeps DEF Decides, q
    <2>4. CASE d # "write"
      BY <2>1, <2>2, <2>4, AnswerFailedKeeps DEF Decides
    <2> QED BY <2>3, <2>4
  <1>7. CASE DeleteReads(r)
    <2> DEFINE d == DeleteDecision(card)
    <2>1. req[r].pc = "read" /\ req[r].op.type = "delete" /\ Decides(r, d, "write")
      BY <1>7 DEF DeleteReads, Reading
    <2>2. d \in Answers \cup {"write"}
      BY DEF DeleteDecision, Answers
    <2>3. CASE d = "write"
      <3>1. Planned(q)
        BY <1>2, <2>1, <2>3 DEF Planned
      <3> QED BY <2>1, <2>3, <3>1, ReadOnKeeps DEF Decides, q
    <2>4. CASE d # "write"
      BY <2>1, <2>2, <2>4, AnswerFailedKeeps DEF Decides
    <2> QED BY <2>3, <2>4
  <1> QED BY <1>3, <1>4, <1>5, <1>6, <1>7

(* Storing an upload, and the answers that write nothing.                  *)
LEMMA AsideKeeps ==
  ASSUME IInv, NEW r \in Requests,
         \/ FindsNothing(r) \/ EditRefused(r) \/ AddStores(r)
         \/ AddRejected(r) \/ AddStoreFails(r) \/ LosesRace(r)
  PROVE  IInv'
  <1>1. /\ req[r] \in RequestStates
        /\ stored \subseteq PhotoKeys /\ orphaned \subseteq PhotoKeys
        /\ clock \in Nat /\ started \in Nat
        /\ req \in [Requests -> RequestStates]
        /\ ReqInv(req[r], card)
    BY DEF IInv, TypeOK
  <1>2. CASE FindsNothing(r)
    BY <1>2, AnswerFailedKeeps DEF FindsNothing, Answers
  <1>3. CASE EditRefused(r)
    BY <1>3, AnswerFailedKeeps DEF EditRefused, Answers
  <1>4. CASE AddStores(r)
    <2>1. PICK key \in PhotoKeys \ stored :
            /\ stored' = stored \cup {key}
            /\ req' = [req EXCEPT ![r].pc = "write", ![r].key = key]
      BY <1>4 DEF AddStores
    <2> DEFINE q == [req[r] EXCEPT !.pc = "write", !.key = key]
    <2>2. /\ q \in RequestStates
          /\ q.pc = "write" /\ q.key = key /\ q.op = req[r].op
          /\ q.seen = req[r].seen
      BY <1>1 DEF RequestStates
    <2>3. req[r].pc = "store" /\ req[r].op.type = "add"
      BY <1>1, <1>4 DEF AddStores, ReqInv
    <2>4. Planned(q)
      BY <2>2, <2>3 DEF Planned
    <2>5. ReqInv(q, card)
      BY <1>1, <2>2, <2>3, <2>4 DEF ReqInv
    <2>6. req' = [req EXCEPT ![r] = q]
      BY <1>1, <2>1
    <2> HIDE DEF q
    <2>7. /\ UNCHANGED <<exists, card, history, orphaned, clock, started>>
          /\ stored' \subseteq PhotoKeys /\ orphaned' \subseteq PhotoKeys
          /\ clock' \in Nat /\ started' \in Nat
      BY <1>1, <1>4, <2>1 DEF AddStores
    <2> QED BY <2>5, <2>6, <2>7, OneRequestMoves
  <1>5. CASE AddRejected(r)
    BY <1>1, <1>5, AnswerKeeps DEF AddRejected, Answers
  <1>6. CASE AddStoreFails(r)
    <2>1. stored' \subseteq PhotoKeys /\ orphaned' \subseteq PhotoKeys
      BY <1>1, <1>6 DEF AddStoreFails
    <2> QED BY <1>6, <2>1, AnswerKeeps DEF AddStoreFails, Answers
  <1>7. CASE LosesRace(r)
    <2>1. CASE AnswerFailed(r, "conflict") \/ AnswerFailed(r, "gave_up")
      BY <1>7, <2>1, AnswerFailedKeeps DEF LosesRace, Answers
    <2>2. CASE /\ req' = [req EXCEPT ![r].pc = "read", ![r].attempt = @ + 1,
                                    ![r].seen = None]
               /\ UNCHANGED orphaned
      <3> DEFINE next == req[r].attempt + 1
                 q == [req[r] EXCEPT !.pc = "read", !.attempt = next,
                                     !.seen = None]
      <3>0. next \in Nat
        BY <1>1 DEF RequestStates
      <3>4. req' = [req EXCEPT ![r] = q]
        BY <1>1, <2>2
      <3> HIDE DEF next
      <3>1. q \in RequestStates /\ q.pc = "read" /\ q.op = req[r].op
        BY <1>1, <3>0 DEF RequestStates
      <3>2. req[r].pc = "write"
        BY <1>7 DEF LosesRace
      <3>3. ReqInv(q, card)
        BY <1>1, <3>1, <3>2 DEF ReqInv
      <3> HIDE DEF q
      <3> QED BY <1>1, <1>7, <2>2, <3>3, <3>4, OneRequestMoves DEF LosesRace
    <2> QED BY <1>7, <2>1, <2>2 DEF LosesRace
  <1> QED BY <1>2, <1>3, <1>4, <1>5, <1>6, <1>7

-----------------------------------------------------------------------------
(* What each landed statement does to the row.                             *)

(* What a landed tap was planned on is what it finds.                      *)
LEMMA TapLands ==
  ASSUME IInv, NEW r \in Requests, TapWrites(r)
  PROVE  LET event == req[r].op.event  now == req[r].now
             next == NextListing(card.listing, event, now)
         IN  /\ exists
             /\ event \in ListingEvents /\ now \in Nat
             /\ Verdict(card.listing, event, now) = "ok"
             /\ event = "publish" => card.missing = {} /\ card.photos # <<>>
             /\ card' = [card EXCEPT !.listing = next,
                                     !.everPublic = @ \/ Discoverable(next)]
             /\ history' = IF event \in ConfirmationEvents THEN history
                           ELSE Append(history, [type |-> "moved",
                                                 from |-> card.listing.kind,
                                                 to   |-> next.kind])
  <1> DEFINE q == req[r]
  <1>1. /\ q \in RequestStates /\ q.op \in Ops
        /\ q.op.type = "tap" /\ q.pc = "write"
        /\ q.seen \in Cards /\ Pinned(q.seen, card) /\ Planned(q)
    BY DEF IInv, TypeOK, ReqInv, TapWrites, Writing
  <1>2. q.now \in Nat
    BY <1>1 DEF RequestStates
  <1>3. q.op.event \in ListingEvents
    BY <1>1, KabinetAnimalAssumption
       DEF Ops, TapOps, EditOps, AddOps, RemoveOps, ReorderOps, DeleteOps
  <1>4. exists /\ TapMatches(q.seen, q.op)
    BY <1>1 DEF TapWrites, Writing, Matches
  <1>5. /\ Verdict(q.seen.listing, q.op.event, q.now) = "ok"
        /\ q.op.event = "publish" => ~HasGaps(q.seen)
    <2>1. Verdict(q.seen.listing, q.op.event, q.now) \in Verdicts
      BY DEF Verdict, UndoVerdict, Verdicts
    <2>2. TapDecision(q.seen, q.op.event, q.now) = "write"
      BY <1>1 DEF Planned
    <2> QED BY <2>1, <2>2 DEF TapDecision, Verdicts
  <1>6. q.op.event = "publish" => card.missing = {} /\ card.photos # <<>>
    BY <1>1, <1>4, <1>5 DEF TapMatches, Pinned, HasGaps
  <1> QED BY <1>2, <1>3, <1>4, <1>5, <1>6 DEF TapWrites, TapMatches

(* A form save that lands on a listed card leaves no null behind.          *)
LEMMA EditLands ==
  ASSUME IInv, NEW r \in Requests, EditWrites(r)
  PROVE  /\ exists
         /\ req[r].seen.version \in Nat
         /\ \E missing \in SUBSET PublishFacts :
              /\ card.listing.kind # "draft" => missing \cap NullableFacts = {}
              /\ card' = [card EXCEPT !.missing = missing,
                                      !.version = card.version + 1]
  <1> DEFINE q == req[r]
             missing == MissingAfter(q.seen, q.op.patch)
  <1>1. /\ q.op \in Ops /\ q.op.type = "edit" /\ q.seen \in Cards
        /\ exists /\ EditMatches(q.seen, q.op)
    BY DEF IInv, TypeOK, ReqInv, EditWrites, Writing, Matches
  <1>2. q.op.patch \in AllPatches
    BY <1>1, KabinetAnimalAssumption
       DEF Ops, TapOps, EditOps, AddOps, RemoveOps, ReorderOps, DeleteOps
  <1>3. missing \in SUBSET PublishFacts
    <2>1. q.op.patch.clears \subseteq PublishFacts
      BY <1>2 DEF AllPatches, ClearableFacts, PublishFacts
    <2>2. q.seen.missing \subseteq PublishFacts
      BY <1>1 DEF Cards
    <2> QED BY <2>1, <2>2 DEF MissingAfter
  <1>4. card.listing.kind # "draft" => missing \cap NullableFacts = {}
    BY <1>1 DEF EditMatches
  <1>5. card' = [card EXCEPT !.missing = missing, !.version = card.version + 1]
    BY DEF EditWrites, IInv, TypeOK, Cards
  <1>6. q.seen.version \in Nat
    BY <1>1 DEF Cards
  <1> HIDE DEF missing
  <1> QED BY <1>1, <1>3, <1>4, <1>5, <1>6

(* Taking one photo out of a list leaves a list of photos.                 *)
LEMMA WithoutType ==
  ASSUME NEW S, NEW photos \in Seq(S), NEW i \in 1 .. Len(photos)
  PROVE  Without(photos, i) \in Seq(S)
  <1>1. SubSeq(photos, 1, i - 1) \in Seq(S)
    BY SubSeqProperties
  <1>2. SubSeq(photos, i + 1, Len(photos)) \in Seq(S)
    BY SubSeqProperties
  <1> QED BY <1>1, <1>2, ConcatProperties DEF Without

(* A photo change that lands changes the list it was planned on, and never *)
(* empties a card adopters can see.                                        *)
LEMMA PhotosLand ==
  ASSUME IInv, NEW r \in Requests, PhotosWrite(r)
  PROVE  /\ exists
         /\ req[r].now \in Nat
         /\ \E photos \in Seq(PhotoKeys) :
              /\ Discoverable(card.listing) => photos # <<>>
              /\ card' = [card EXCEPT
                            !.photos = photos,
                            !.listing = AfterPhotoChange(card.listing,
                                                         req[r].now)]
  <1> DEFINE q == req[r]
             photos == PhotosAfter(q.seen, q.op, q.key)
  <1>1. /\ q \in RequestStates /\ q.op \in Ops /\ q.pc = "write"
        /\ q.op.type \in {"add", "remove", "reorder"}
        /\ q.seen \in Cards /\ Planned(q)
        /\ q.op.type = "remove" => q.op.at \in 1 .. Len(q.op.shown)
        /\ exists /\ PhotosMatch(q.seen)
    BY DEF IInv, TypeOK, ReqInv, PhotosWrite, Writing, Matches
  <1>2. q.now \in Nat
    BY <1>1 DEF RequestStates
  <1>3. q.seen.photos \in Seq(PhotoKeys)
    BY <1>1 DEF Cards
  <1>4. /\ photos \in Seq(PhotoKeys)
        /\ Discoverable(q.seen.listing) => photos # <<>>
    <2>1. CASE q.op.type = "add"
      <3>1. photos = Append(q.seen.photos, q.key) /\ q.key \in PhotoKeys
        BY <1>1, <2>1 DEF PhotosAfter, Planned
      <3> QED BY <1>3, <3>1, AppendProperties
    <2>2. CASE q.op.type = "remove"
      <3>1. /\ photos = Without(q.seen.photos, q.op.at)
            /\ PhotosAfter(q.seen, q.op, None) = photos
        BY <2>2 DEF PhotosAfter
      <3>2. RewriteDecision(q.seen, q.op) = "write"
        BY <1>1, <2>2 DEF Planned
      <3>3. q.seen.photos = q.op.shown
        BY <3>2 DEF RewriteDecision
      <3>4. photos \in Seq(PhotoKeys)
        BY <1>1, <1>3, <2>2, <3>1, <3>3, WithoutType
      <3> QED BY <3>1, <3>2, <3>4 DEF RewriteDecision
    <2>3. CASE q.op.type = "reorder"
      <3>1. /\ photos = q.op.wanted
            /\ PhotosAfter(q.seen, q.op, None) = photos
        BY <2>3 DEF PhotosAfter
      <3>2. q.op.wanted \in Seq(PhotoKeys)
        BY <1>1, <2>3
           DEF Ops, TapOps, EditOps, AddOps, RemoveOps, ReorderOps, DeleteOps
      <3>3. RewriteDecision(q.seen, q.op) = "write"
        BY <1>1, <2>3 DEF Planned
      <3> QED BY <3>1, <3>2, <3>3 DEF RewriteDecision
    <2> QED BY <1>1, <2>1, <2>2, <2>3
  <1>5. card' = [card EXCEPT !.photos = photos,
                             !.listing = AfterPhotoChange(card.listing, q.now)]
    BY <1>1 DEF PhotosWrite, PhotosMatch
  <1> HIDE DEF photos
  <1> QED BY <1>1, <1>2, <1>4, <1>5 DEF PhotosMatch

-----------------------------------------------------------------------------
(* The writes keep the invariant.                                          *)

(* However a landed statement's answer fares, every other request still    *)
(* has what it relied on.                                                  *)
LEMMA SettlesReq ==
  ASSUME IInv, NEW r \in Requests, Settles(r), card' \in Cards,
         \/ card'.version = card.version /\ card'.missing = card.missing
         \/ card'.version = card.version + 1
  PROVE  /\ req' \in [Requests -> RequestStates]
         /\ \A s \in Requests : ReqInv(req'[s], card')
         /\ orphaned' \subseteq PhotoKeys
  <1>1. PICK answer \in Answers : req' = [req EXCEPT ![r] = IdleWith(answer)]
    BY DEF Settles, Answer, AnswerFailed, Answers
  <1>2. orphaned' \subseteq PhotoKeys
    BY LogOrphanType DEF Settles, AnswerFailed, IInv, TypeOK
  <1>3. ASSUME NEW s \in Requests PROVE ReqInv(req'[s], card')
    <2>1. CASE s = r
      <3>1. req'[s] = IdleWith(answer)
        BY <1>1, <2>1 DEF IInv, TypeOK
      <3> QED BY <3>1, IdleReq
    <2>2. CASE s # r
      <3>1. req'[s] = req[s] /\ ReqInv(req[s], card) /\ card \in Cards
        BY <1>1, <2>2 DEF IInv, TypeOK
      <3> QED BY <3>1, ReqSurvives
    <2> QED BY <2>1, <2>2
  <1>4. IdleWith(answer) \in RequestStates
    BY IdleReq DEF ReqInv
  <1> QED BY <1>1, <1>2, <1>3, <1>4 DEF IInv, TypeOK

(* A tap that lands.                                                       *)
LEMMA TapWritesKeeps ==
  ASSUME IInv, NEW r \in Requests, TapWrites(r)
  PROVE  IInv'
  <1> DEFINE event == req[r].op.event  now == req[r].now
             next == NextListing(card.listing, event, now)
  <1>1. /\ exists
        /\ event \in ListingEvents /\ now \in Nat
        /\ Verdict(card.listing, event, now) = "ok"
        /\ event = "publish" => card.missing = {} /\ card.photos # <<>>
        /\ card' = [card EXCEPT !.listing = next,
                                !.everPublic = @ \/ Discoverable(next)]
        /\ history' = IF event \in ConfirmationEvents THEN history
                      ELSE Append(history, [type |-> "moved",
                                            from |-> card.listing.kind,
                                            to   |-> next.kind])
    BY TapLands
  <1>2. card \in Cards /\ card.listing \in Listings /\ CardInv
    BY DEF IInv, TypeOK, Cards
  <1>3. next \in Listings /\ Ordered(next)
    BY <1>1, <1>2, NextListingFacts DEF CardInv
  <1> DEFINE kind == card.listing.kind
  <1>4. \/ event = "publish" /\ kind = "draft" /\ next.kind = "published"
        \/ /\ event # "publish" /\ kind \in DiscoverableKinds
           /\ next.kind \in ListingKinds \ {"draft"}
        \/ event # "publish" /\ kind = "withdrawn" /\ next.kind = "draft"
    BY <1>1, <1>2, NextKinds
       DEF DiscoverableKinds, ListingKinds, ConfirmationEvents
  <1>4a. event \in ConfirmationEvents =>
           kind \in DiscoverableKinds /\ next.kind = kind
    BY <1>1, <1>2, NextKinds DEF ConfirmationEvents
  <1>4b. next.kind \notin DiscoverableKinds => kind # "draft"
    BY <1>4 DEF DiscoverableKinds
  <1> HIDE DEF next
  <1>5. /\ card' \in Cards
        /\ card'.listing = next
        /\ card'.version = card.version /\ card'.missing = card.missing
        /\ card'.photos = card.photos
        /\ card'.everPublic = (card.everPublic \/ Discoverable(next))
    BY <1>1, <1>2, <1>3 DEF Cards, Discoverable
  <1>6. history' \in Seq(Lines)
    <2>1. kind \in ListingKinds /\ next.kind \in ListingKinds
      BY <1>2, <1>3, KindShapes
    <2>2. [type |-> "moved", from |-> kind, to |-> next.kind] \in Lines
      BY <2>1 DEF Lines
    <2>3. history \in Seq(Lines)
      BY DEF IInv, TypeOK
    <2> QED BY <1>1, <2>2, <2>3, AppendProperties
  <1>7. UNCHANGED <<exists, stored, clock, started>>
    BY DEF TapWrites
  <1>8. /\ req' \in [Requests -> RequestStates]
        /\ \A s \in Requests : ReqInv(req'[s], card')
        /\ orphaned' \subseteq PhotoKeys
    BY <1>5, SettlesReq DEF TapWrites
  <1>9. TypeOK'
    BY <1>5, <1>6, <1>7, <1>8 DEF TypeOK, IInv
  <1>10. ListedHasFacts'
    BY <1>1, <1>2, <1>4, <1>5
       DEF ListedHasFacts, CardInv, DiscoverableKinds
  <1>11. VisibleHasPhoto'
    BY <1>1, <1>2, <1>4, <1>5
       DEF VisibleHasPhoto, CardInv, Discoverable, DiscoverableKinds
  <1>12. PublicRecorded'
    <2>1. card.listing.kind # "draft" => card.everPublic
      BY <1>2 DEF CardInv, PublicRecorded
    <2>2. card'.everPublic
      BY <1>4b, <1>5, <2>1 DEF Discoverable
    <2> QED BY <1>1, <1>7, <2>2 DEF PublicRecorded
  <1> QED BY <1>3, <1>5, <1>8, <1>9, <1>10, <1>11, <1>12 DEF IInv, CardInv

(* A form save that lands.                                                 *)
LEMMA EditWritesKeeps ==
  ASSUME IInv, NEW r \in Requests, EditWrites(r)
  PROVE  IInv'
  <1>1. card \in Cards /\ CardInv /\ history \in Seq(Lines)
    BY DEF IInv, TypeOK
  <1>2. PICK missing \in SUBSET PublishFacts :
          /\ card.listing.kind # "draft" => missing \cap NullableFacts = {}
          /\ card' = [card EXCEPT !.missing = missing,
                                  !.version = card.version + 1]
    BY EditLands
  <1> DEFINE version == card.version + 1
  <1>2a. /\ card' = [card EXCEPT !.missing = missing, !.version = version]
         /\ version \in Nat
    BY <1>1, <1>2 DEF Cards
  <1> HIDE DEF version
  <1>3. /\ card' \in Cards
        /\ card'.missing = missing
        /\ card'.listing = card.listing /\ card'.photos = card.photos
        /\ card'.everPublic = card.everPublic
    BY <1>1, <1>2a DEF Cards
  <1>4. /\ req' \in [Requests -> RequestStates]
        /\ \A s \in Requests : ReqInv(req'[s], card')
        /\ orphaned' \subseteq PhotoKeys
    BY <1>3, SettlesReq DEF EditWrites
  <1> DEFINE line == [type |-> "edited", version |-> req[r].seen.version]
  <1>5. line \in Lines /\ history' = Append(history, line)
    BY EditLands DEF EditWrites, Lines
  <1>6. history' \in Seq(Lines)
    BY <1>1, <1>5, AppendProperties
  <1>7. UNCHANGED <<exists, stored, clock, started>>
    BY DEF EditWrites
  <1>8. TypeOK'
    BY <1>3, <1>4, <1>6, <1>7 DEF TypeOK, IInv
  <1>9. /\ ListedHasFacts' /\ VisibleHasPhoto' /\ Ordered(card.listing)'
    BY <1>1, <1>2, <1>3 DEF CardInv, ListedHasFacts, VisibleHasPhoto
  <1>10. PublicRecorded'
    <2>1. \A i \in DOMAIN history' :
            \/ i \in DOMAIN history /\ history'[i] = history[i]
            \/ history'[i] = line
      BY <1>1, <1>5, AppendProperties
    <2> QED BY <1>1, <1>3, <1>7, <2>1 DEF CardInv, PublicRecorded
  <1> QED BY <1>3, <1>4, <1>8, <1>9, <1>10 DEF IInv, CardInv

(* A photo change that lands.                                              *)
LEMMA PhotosWriteKeeps ==
  ASSUME IInv, NEW r \in Requests, PhotosWrite(r)
  PROVE  IInv'
  <1> DEFINE next == AfterPhotoChange(card.listing, req[r].now)
  <1>1. card \in Cards /\ card.listing \in Listings /\ CardInv
    BY DEF IInv, TypeOK, Cards
  <1>2. PICK photos \in Seq(PhotoKeys) :
          /\ Discoverable(card.listing) => photos # <<>>
          /\ card' = [card EXCEPT !.photos = photos, !.listing = next]
    BY PhotosLand
  <1>3. /\ next \in Listings /\ next.kind = card.listing.kind
        /\ Ordered(next)
    BY <1>1, PhotosLand, AfterPhotoChangeFacts DEF CardInv
  <1> HIDE DEF next
  <1>4. /\ card' \in Cards
        /\ card'.listing = next /\ card'.photos = photos
        /\ card'.version = card.version /\ card'.missing = card.missing
        /\ card'.everPublic = card.everPublic
    BY <1>1, <1>2, <1>3 DEF Cards
  <1>5. /\ req' \in [Requests -> RequestStates]
        /\ \A s \in Requests : ReqInv(req'[s], card')
        /\ orphaned' \subseteq PhotoKeys
    BY <1>4, SettlesReq DEF PhotosWrite
  <1>6. UNCHANGED <<exists, history, stored, clock, started>>
    BY DEF PhotosWrite
  <1>7. TypeOK'
    BY <1>4, <1>5, <1>6 DEF TypeOK, IInv
  <1>8. CardInv'
    BY <1>1, <1>2, <1>3, <1>4, <1>6
       DEF CardInv, ListedHasFacts, VisibleHasPhoto, PublicRecorded,
           Discoverable
  <1> QED BY <1>5, <1>7, <1>8 DEF IInv

(* A delete that lands: the row had never been public.                     *)
LEMMA DeleteWritesKeeps ==
  ASSUME IInv, NEW r \in Requests, DeleteWrites(r)
  PROVE  IInv'
  <1>1. card \in Cards /\ CardInv /\ history \in Seq(Lines)
    BY DEF IInv, TypeOK
  <1>2. /\ ~card.everPublic
        /\ UNCHANGED <<card, stored, clock, started>>
        /\ exists' = FALSE
        /\ history' = Append(history, [type |-> "deleted"])
    BY DEF DeleteWrites, Writing, Matches, DeleteMatches
  <1>3. /\ req' \in [Requests -> RequestStates]
        /\ \A s \in Requests : ReqInv(req'[s], card')
        /\ orphaned' \subseteq PhotoKeys
    BY <1>1, <1>2, SettlesReq DEF DeleteWrites
  <1>4. [type |-> "deleted"] \in Lines
    BY DEF Lines
  <1>5. history' \in Seq(Lines)
    BY <1>1, <1>2, <1>4, AppendProperties
  <1>6. TypeOK'
    BY <1>1, <1>2, <1>3, <1>5 DEF TypeOK, IInv
  <1>7. PublicRecorded'
    <2>1. \A i \in DOMAIN history' :
            \/ i \in DOMAIN history /\ history'[i] = history[i]
            \/ history'[i] = [type |-> "deleted"]
      BY <1>1, <1>2, <1>4, AppendProperties
    <2> QED BY <1>1, <1>2, <2>1 DEF CardInv, PublicRecorded
  <1>8. CardInv'
    BY <1>1, <1>2, <1>7 DEF CardInv, ListedHasFacts, VisibleHasPhoto
  <1> QED BY <1>3, <1>6, <1>8 DEF IInv

-----------------------------------------------------------------------------
(* Every step.                                                             *)

(* The strengthened invariant survives every step and every stutter.       *)
LEMMA NextKeeps == IInv /\ [Next]_vars => IInv'
  <1> SUFFICES ASSUME IInv, [Next]_vars PROVE IInv'
    OBVIOUS
  <1>1. CASE Tick
    <2>1. /\ UNCHANGED <<exists, card, history, stored, orphaned, req, started>>
          /\ clock' \in Nat
      BY <1>1 DEF Tick, IInv, TypeOK
    <2>2. TypeOK'
      BY <2>1 DEF IInv, TypeOK
    <2>3. \A r \in Requests : ReqInv(req'[r], card')
      BY <2>1 DEF IInv
    <2>4. CardInv'
      BY <2>1 DEF IInv, CardInv, ListedHasFacts, VisibleHasPhoto,
                  PublicRecorded
    <2> QED BY <2>2, <2>3, <2>4 DEF IInv
  <1>2. ASSUME NEW r \in Requests, ArriveSome(r) PROVE IInv'
    BY <1>2, ArriveKeeps
  <1>3. ASSUME NEW r \in Requests, Serve(r) PROVE IInv'
    BY <1>3, ReadKeeps, AsideKeeps, TapWritesKeeps, EditWritesKeeps,
       PhotosWriteKeeps, DeleteWritesKeeps DEF Serve
  <1>4. CASE UNCHANGED vars
    <2>1. UNCHANGED <<exists, card, history, stored, orphaned, req, clock,
                      started>>
      BY <1>4 DEF vars
    <2>2. TypeOK'
      BY <2>1 DEF IInv, TypeOK
    <2>3. \A r \in Requests : ReqInv(req'[r], card')
      BY <2>1 DEF IInv
    <2>4. CardInv'
      BY <2>1 DEF IInv, CardInv, ListedHasFacts, VisibleHasPhoto,
                  PublicRecorded
    <2> QED BY <2>2, <2>3, <2>4 DEF IInv
  <1> QED BY <1>1, <1>2, <1>3, <1>4 DEF Next, Finished

(* In every behaviour the strengthened invariant always holds.             *)
THEOREM InvariantHolds == Spec => []IInv
  BY InitInv, NextKeeps, PTL DEF Spec

(* Every variable keeps its type, for every number of requests.            *)
THEOREM TypeCorrect == Spec => []TypeOK
  <1>1. IInv => TypeOK
    BY DEF IInv
  <1> QED BY <1>1, InvariantHolds, PTL

(* However saves, publishes and restores overlap, a card that has left     *)
(* draft has its size, age and description (the database's CHECK           *)
(* constraint is never what stops a planned write).                        *)
THEOREM ListedCardsComplete == Spec => []ListedHasFacts
  <1>1. IInv => ListedHasFacts
    BY DEF IInv, CardInv
  <1> QED BY <1>1, InvariantHolds, PTL

(* However publishes and photo changes overlap, a card adopters can see    *)
(* has a photo.                                                            *)
THEOREM VisibleCardsIllustrated == Spec => []VisibleHasPhoto
  <1>1. IInv => VisibleHasPhoto
    BY DEF IInv, CardInv
  <1> QED BY <1>1, InvariantHolds, PTL

(* However late the instant a landed request carries, a visible card's     *)
(* instants stay in order.                                                 *)
THEOREM InstantsStayInOrder == Spec => []InstantsInOrder
  <1>1. IInv => InstantsInOrder
    BY DEF IInv, CardInv, Ordered, InstantsInOrder
  <1> QED BY <1>1, InvariantHolds, PTL

(* A card that has once been public is never deleted, whatever lands       *)
(* between a delete's read and its write.                                  *)
THEOREM PublicCardsNeverDeleted == Spec => []DeletedNeverPublic
  <1>1. IInv => DeletedNeverPublic
    BY DEF IInv, CardInv, PublicRecorded, DeletedNeverPublic
  <1> QED BY <1>1, InvariantHolds, PTL

(* A plan made on the row as it still is always lands: the statement asks  *)
(* for nothing the handler did not check, so only another request's write  *)
(* makes a request lose.                                                   *)
THEOREM FreshPlansLand == Spec => []FreshPlanLands
  <1>1. ASSUME IInv, NEW r \in Requests, req[r].pc = "write", exists,
               req[r].seen = card
        PROVE  Matches(r)
    <2> DEFINE q == req[r]
    <2>1. /\ q.op \in Ops /\ Planned(q) /\ CardInv /\ card \in Cards
      BY <1>1 DEF IInv, ReqInv, TypeOK
    <2>2. ASSUME q.op.type = "tap" PROVE TapMatches(card, q.op)
      <3>1. TapDecision(card, q.op.event, q.now) = "write"
        BY <1>1, <2>1, <2>2 DEF Planned
      <3>2. Verdict(card.listing, q.op.event, q.now) # "write"
        BY DEF Verdict, UndoVerdict
      <3>3. q.op.event = "publish" => ~HasGaps(card)
        BY <3>1, <3>2 DEF TapDecision
      <3> QED BY <3>3 DEF TapMatches, HasGaps
    <2>3. ASSUME q.op.type = "edit" PROVE EditMatches(card, q.op)
      <3>1. EditDecision(card, q.op) = "write"
        BY <1>1, <2>1, <2>3 DEF Planned
      <3>2. q.op.patch \in AllPatches
        BY <2>1, <2>3, KabinetAnimalAssumption
           DEF Ops, TapOps, EditOps, AddOps, RemoveOps, ReorderOps, DeleteOps
      <3>3. q.op.patch.clears \subseteq ClearableFacts
        BY <3>2 DEF AllPatches
      <3>4. card.listing.kind # "draft" =>
              /\ MissingAfter(card, q.op.patch) \cap ClearableFacts = {}
              /\ card.missing \cap NullableFacts = {}
        BY <2>1, <3>1 DEF EditDecision, CardInv, ListedHasFacts
      <3>5. card.listing.kind # "draft" =>
              MissingAfter(card, q.op.patch) \cap NullableFacts = {}
        BY <3>3, <3>4 DEF MissingAfter, NullableFacts, ClearableFacts
      <3> QED BY <3>5 DEF EditMatches
    <2>4. ASSUME q.op.type = "delete" PROVE DeleteMatches(card)
      BY <1>1, <2>1, <2>4 DEF Planned, DeleteDecision, DeleteMatches
    <2> QED BY <1>1, <2>2, <2>3, <2>4 DEF Matches, PhotosMatch
  <1>2. IInv => FreshPlanLands
    BY <1>1 DEF FreshPlanLands
  <1> QED BY <1>2, InvariantHolds, PTL

-----------------------------------------------------------------------------
(* Refinement.                                                             *)

(* The rows a card can start from are starts of a card's life.             *)
LEMMA InitLives == Init => Life!Init
  <1> SUFFICES ASSUME Init PROVE Life!Init
    OBVIOUS
  <1>1. card \in StartCards /\ exists = TRUE
    BY DEF Init
  <1>2. CASE card.listing = DraftListing /\ ~card.everPublic
    <2>1. card.listing.kind = "draft"
      BY <1>2 DEF DraftListing
    <2>2. card.everPublic = FALSE
      BY <1>1, <1>2, KabinetAnimalAssumption DEF Cards
    <2> QED BY <1>1, <2>1, <2>2 DEF Life!Init
  <1>3. CASE /\ card.listing \in PublishedListings
             /\ card.everPublic
             /\ card.missing \cap NullableFacts = {}
             /\ card.photos # <<>>
    <2>1. card.listing.kind = "published"
      BY <1>3 DEF PublishedListings
    <2>2. card.everPublic = TRUE
      BY <1>1, <1>3, KabinetAnimalAssumption DEF Cards
    <2> QED BY <1>1, <1>3, <2>1, <2>2 DEF Life!Init
  <1> QED BY <1>1, <1>2, <1>3, StartCardsAssumption

(* A landed tap is one move of the card's life; a confirmation is none.    *)
LEMMA TapWritesLives ==
  ASSUME IInv, NEW r \in Requests, TapWrites(r)
  PROVE  Life!Next \/ UNCHANGED Life!life
  <1> DEFINE event == req[r].op.event
             next == NextListing(card.listing, event, req[r].now)
             kind == card.listing.kind
  <1>1. /\ exists /\ event \in ListingEvents /\ req[r].now \in Nat
        /\ Verdict(card.listing, event, req[r].now) = "ok"
        /\ event = "publish" => card.missing = {} /\ card.photos # <<>>
        /\ card' = [card EXCEPT !.listing = next,
                                !.everPublic = @ \/ Discoverable(next)]
    BY TapLands
  <1>2. card \in Cards /\ card.listing \in Listings /\ CardInv
    BY DEF IInv, TypeOK, Cards
  <1>3. \/ event = "publish" /\ kind = "draft" /\ next.kind = "published"
        \/ event = "reserve" /\ kind = "published" /\ next.kind = "reserved"
        \/ event = "release" /\ kind = "reserved" /\ next.kind = "published"
        \/ /\ event = "adopt" /\ kind \in {"published", "reserved"}
           /\ next.kind = "adopted"
        \/ /\ event = "withdraw" /\ kind \in {"published", "reserved"}
           /\ next.kind = "withdrawn"
        \/ event = "restore_to_draft" /\ kind = "withdrawn"
             /\ next.kind = "draft"
        \/ /\ event \in ConfirmationEvents
           /\ kind \in {"published", "reserved"} /\ next.kind = kind
    BY <1>1, <1>2, NextKinds DEF DiscoverableKinds
  <1>4. exists' = exists
    BY DEF TapWrites
  <1> HIDE DEF next
  <1>5. /\ card'.listing.kind = next.kind
        /\ card'.missing = card.missing /\ card'.photos = card.photos
        /\ card'.everPublic = (card.everPublic \/ Discoverable(next))
    BY <1>1, <1>2 DEF Cards
  <1>6. card.everPublic \in BOOLEAN /\ (kind # "draft" => card.everPublic)
    BY <1>2 DEF Cards, CardInv, PublicRecorded
  <1>7. kind # "draft" => card'.everPublic = card.everPublic
    BY <1>5, <1>6
  <1>8. CASE event = "publish"
    <2>1. kind = "draft" /\ next.kind = "published" /\ card'.everPublic
      BY <1>3, <1>5, <1>8 DEF Discoverable, DiscoverableKinds,
                              ConfirmationEvents
    <2>2. card'.everPublic = TRUE
      BY <1>5, <1>6, <2>1
    <2>3. card.missing \cap NullableFacts = {} /\ card.photos # <<>>
      BY <1>1, <1>8
    <2>4. Life!Publish
      BY <1>1, <1>4, <1>5, <2>1, <2>2, <2>3 DEF Life!Publish
    <2> QED BY <2>4 DEF Life!Next
  <1>9. CASE event \in ConfirmationEvents
    <2>1. kind # "draft" /\ next.kind = kind
      BY <1>3, <1>9 DEF ConfirmationEvents
    <2> QED BY <1>4, <1>5, <1>7, <2>1 DEF Life!life
  <1>10. CASE event \notin ConfirmationEvents /\ event # "publish"
    <2>1. \/ kind = "published" /\ next.kind = "reserved"
          \/ kind = "reserved" /\ next.kind = "published"
          \/ kind \in {"published", "reserved"} /\ next.kind = "adopted"
          \/ kind \in {"published", "reserved"} /\ next.kind = "withdrawn"
          \/ kind = "withdrawn" /\ next.kind = "draft"
      BY <1>3, <1>10
    <2>2. kind # "draft" /\ card'.everPublic = card.everPublic
      BY <1>7, <2>1
    <2> QED BY <1>1, <1>4, <1>5, <2>1, <2>2
            DEF Life!Next, Life!Move, Life!Reserve, Life!Release, Life!Adopt,
                Life!Withdraw, Life!Restore
  <1> QED BY <1>8, <1>9, <1>10

(* A landed save is an edit of the card's life.                            *)
LEMMA EditWritesLives ==
  ASSUME IInv, NEW r \in Requests, EditWrites(r)
  PROVE  Life!Next
  <1>1. card \in Cards /\ CardInv /\ exists /\ exists' = exists
    BY EditLands DEF IInv, TypeOK, EditWrites
  <1>2. PICK missing \in SUBSET PublishFacts :
          /\ card.listing.kind # "draft" => missing \cap NullableFacts = {}
          /\ card' = [card EXCEPT !.missing = missing,
                                  !.version = card.version + 1]
    BY EditLands
  <1> DEFINE version == card.version + 1
  <1>3. card' = [card EXCEPT !.missing = missing, !.version = version]
    BY <1>2
  <1> HIDE DEF version
  <1>4. /\ card'.missing = missing /\ card'.listing = card.listing
        /\ card'.photos = card.photos /\ card'.everPublic = card.everPublic
    BY <1>1, <1>3 DEF Cards
  <1>5. card.listing.kind # "draft" =>
          /\ card.missing \cap NullableFacts = {}
          /\ missing \cap NullableFacts = {}
    BY <1>1, <1>2 DEF CardInv, ListedHasFacts
  <1>6. Life!Edit
    BY <1>1, <1>4, <1>5 DEF Life!Edit
  <1> QED BY <1>6 DEF Life!Next

(* A landed photo change is one of the card's life.                        *)
LEMMA PhotosWriteLives ==
  ASSUME IInv, NEW r \in Requests, PhotosWrite(r)
  PROVE  Life!Next
  <1> DEFINE next == AfterPhotoChange(card.listing, req[r].now)
  <1>1. card \in Cards /\ card.listing \in Listings
          /\ exists /\ exists' = exists
    BY PhotosLand DEF IInv, TypeOK, Cards, PhotosWrite
  <1>2. PICK photos \in Seq(PhotoKeys) :
          /\ Discoverable(card.listing) => photos # <<>>
          /\ card' = [card EXCEPT !.photos = photos, !.listing = next]
    BY PhotosLand
  <1>3. next.kind = card.listing.kind
    BY <1>1, PhotosLand, AfterPhotoChangeFacts
  <1> HIDE DEF next
  <1>4. /\ card'.listing.kind = card.listing.kind /\ card'.photos = photos
        /\ card'.missing = card.missing /\ card'.everPublic = card.everPublic
    BY <1>1, <1>2, <1>3 DEF Cards
  <1>5. Life!ChangePhotos
    BY <1>1, <1>2, <1>4
       DEF Life!ChangePhotos, Life!Visible, Discoverable, DiscoverableKinds
  <1> QED BY <1>5 DEF Life!Next

(* A landed delete is a delete of the card's life.                         *)
LEMMA DeleteWritesLives ==
  ASSUME IInv, NEW r \in Requests, DeleteWrites(r)
  PROVE  Life!Next
  <1>1. /\ exists /\ card.listing.kind = "draft" /\ ~card.everPublic
        /\ exists' = FALSE /\ UNCHANGED card
    BY DEF DeleteWrites, Writing, Matches, DeleteMatches
  <1>2. Life!Delete
    BY <1>1 DEF Life!Delete
  <1> QED BY <1>2 DEF Life!Next

(* Every step is a step of the card's life or leaves what it sees alone.   *)
LEMMA NextLives == IInv /\ [Next]_vars => [Life!Next]_(Life!life)
  <1> SUFFICES ASSUME IInv, [Next]_vars
               PROVE  Life!Next \/ UNCHANGED Life!life
    OBVIOUS
  <1>1. CASE UNCHANGED <<exists, card>>
    BY <1>1 DEF Life!life
  <1>2. CASE Tick \/ UNCHANGED vars
    BY <1>1, <1>2 DEF Tick, vars
  <1>3. ASSUME NEW r \in Requests, ArriveSome(r)
        PROVE  UNCHANGED <<exists, card>>
    BY <1>3 DEF ArriveSome, Arrives, TapArrives, EditArrives, AddArrives,
                RemoveArrives, ReorderArrives, DeleteArrives
  <1>4. ASSUME NEW r \in Requests, Serve(r)
        PROVE  Life!Next \/ UNCHANGED Life!life
    <2>1. CASE \/ FindsNothing(r) \/ TapReads(r) \/ EditReads(r)
               \/ EditRefused(r) \/ AddReads(r) \/ RewriteReads(r)
               \/ DeleteReads(r) \/ AddStores(r) \/ AddRejected(r)
               \/ AddStoreFails(r) \/ LosesRace(r)
      <3>1. UNCHANGED <<exists, card>>
        BY <2>1 DEF FindsNothing, TapReads, EditReads, EditRefused, AddReads,
                    RewriteReads, DeleteReads, AddStores, AddRejected,
                    AddStoreFails, LosesRace, Decides
      <3> QED BY <1>1, <3>1
    <2> QED BY <1>4, <2>1, TapWritesLives, EditWritesLives, PhotosWriteLives,
               DeleteWritesLives DEF Serve
  <1> QED BY <1>1, <1>2, <1>3, <1>4 DEF Next, Finished

(* Whatever requests overlap and whatever rows they start from, the row    *)
(* seen on its own lives by CardLife.                                      *)
THEOREM CardLifeImplemented == Spec => ImplementsCardLife
  BY InvariantHolds, InitLives, NextLives, NextKeeps, InitInv, PTL
     DEF Spec, ImplementsCardLife, Life!Spec

-----------------------------------------------------------------------------
(* What a step may never do.                                               *)

(* A visible card that stays visible: its wait goes on, and its            *)
(* confirmation falls only by an undo tap inside its window.               *)
LEMMA VisibleSteps ==
  ASSUME IInv, [Next]_vars,
         Discoverable(card.listing), Discoverable(card'.listing)
  PROVE  /\ card'.listing.publishedAt = card.listing.publishedAt
         /\ card'.listing.confirmedAt < card.listing.confirmedAt
            => \E r \in Requests :
                 /\ req[r].pc = "write"
                 /\ req[r].op = [type |-> "tap", event |-> "undo_confirm"]
                 /\ req[r].now - card.listing.confirmedAt <= UndoWindow
                 /\ card.listing.undoable # None
                 /\ card'.listing.confirmedAt =
                      card.listing.undoable.previousConfirmedAt
                 /\ card'.listing.undoable = None
  <1>1. card \in Cards /\ card.listing \in Listings
    BY DEF IInv, TypeOK, Cards
  <1>2. card.listing.confirmedAt \in Nat
    BY <1>1, KindShapes
       DEF Discoverable, DiscoverableKinds, PublishedListings,
           ReservedListings
  <1>3. CASE card'.listing = card.listing
    BY <1>2, <1>3
  <1>4. ASSUME NEW r \in Requests, TapWrites(r)
        PROVE  /\ card'.listing.publishedAt = card.listing.publishedAt
               /\ \/ card'.listing.confirmedAt >= card.listing.confirmedAt
                  \/ /\ req[r].pc = "write"
                     /\ req[r].op = [type |-> "tap", event |-> "undo_confirm"]
                     /\ req[r].now - card.listing.confirmedAt <= UndoWindow
                     /\ card.listing.undoable # None
                     /\ card'.listing.confirmedAt =
                          card.listing.undoable.previousConfirmedAt
                     /\ card'.listing.undoable = None
    <2> DEFINE event == req[r].op.event
               next == NextListing(card.listing, event, req[r].now)
    <2>1. /\ event \in ListingEvents /\ req[r].now \in Nat
          /\ Verdict(card.listing, event, req[r].now) = "ok"
          /\ card' = [card EXCEPT !.listing = next,
                                  !.everPublic = @ \/ Discoverable(next)]
      BY <1>4, TapLands
    <2>2. req[r].pc = "write" /\ req[r].op \in TapOps
      BY <1>4 DEF TapWrites, Writing, IInv, ReqInv, Ops, TapOps, EditOps,
                  AddOps, RemoveOps, ReorderOps, DeleteOps
    <2>3. event = "undo_confirm" =>
            req[r].op = [type |-> "tap", event |-> "undo_confirm"]
      BY <2>2 DEF TapOps
    <2> HIDE DEF next
    <2>4. card'.listing = next
      BY <1>1, <2>1 DEF Cards
    <2>5. Discoverable(next)
      BY <2>4
    <2>6. /\ next.publishedAt = card.listing.publishedAt
          /\ \/ /\ event = "undo_confirm"
                /\ card.listing.undoable # None
                /\ req[r].now - card.listing.confirmedAt <= UndoWindow
                /\ next.confirmedAt = card.listing.undoable.previousConfirmedAt
                /\ next.undoable = None
             \/ next.confirmedAt >= card.listing.confirmedAt
      BY <1>1, <2>1, <2>5, VisibleMoveFacts DEF next
    <2> QED BY <2>2, <2>3, <2>4, <2>6
  <1>5. ASSUME NEW r \in Requests, PhotosWrite(r)
        PROVE  /\ card'.listing.publishedAt = card.listing.publishedAt
               /\ card'.listing.confirmedAt >= card.listing.confirmedAt
    <2> DEFINE next == AfterPhotoChange(card.listing, req[r].now)
    <2>1. PICK photos \in Seq(PhotoKeys) :
            card' = [card EXCEPT !.photos = photos, !.listing = next]
      BY <1>5, PhotosLand
    <2>2. /\ next.publishedAt = card.listing.publishedAt
          /\ next.confirmedAt >= card.listing.confirmedAt
      BY <1>1, <1>5, PhotosLand, AfterPhotoChangeFacts
    <2> HIDE DEF next
    <2>3. card'.listing = next
      BY <1>1, <2>1 DEF Cards
    <2> QED BY <2>2, <2>3
  <1>6. ASSUME NEW r \in Requests, EditWrites(r)
        PROVE  card'.listing = card.listing
    <2> DEFINE missing == MissingAfter(req[r].seen, req[r].op.patch)
               version == card.version + 1
    <2>1. card' = [card EXCEPT !.missing = missing, !.version = version]
      BY <1>1, <1>6 DEF EditWrites, Cards
    <2> HIDE DEF missing, version
    <2> QED BY <1>1, <2>1 DEF Cards
  <1>7. card'.listing = card.listing \/ \E r \in Requests :
          TapWrites(r) \/ PhotosWrite(r)
    <2>1. ASSUME NEW r \in Requests, ArriveSome(r)
          PROVE  UNCHANGED card
      BY <2>1 DEF ArriveSome, Arrives, TapArrives, EditArrives, AddArrives,
                  RemoveArrives, ReorderArrives, DeleteArrives
    <2>2. ASSUME NEW r \in Requests, Serve(r)
          PROVE  card'.listing = card.listing \/ TapWrites(r) \/ PhotosWrite(r)
      BY <1>6, <2>2
         DEF Serve, FindsNothing, TapReads, EditReads, EditRefused, AddReads,
             RewriteReads, DeleteReads, AddStores, AddRejected, AddStoreFails,
             LosesRace, Decides, DeleteWrites
    <2> QED BY <2>1, <2>2 DEF Next, Finished, Tick, vars
  <1> QED
    <2>1. ASSUME NEW r \in Requests, PhotosWrite(r)
          PROVE  ~(card'.listing.confirmedAt < card.listing.confirmedAt)
      <3>1. card'.listing \in Listings
        BY <2>1, PhotosWriteKeeps DEF IInv, TypeOK, Cards
      <3>2. card'.listing.confirmedAt \in Nat
        BY <3>1, KindShapes
           DEF Discoverable, DiscoverableKinds, PublishedListings,
               ReservedListings
      <3> QED BY <1>2, <1>5, <2>1, <3>2
    <2>2. ASSUME NEW r \in Requests, TapWrites(r)
          PROVE  card'.listing.confirmedAt \in Nat
      <3>1. card'.listing \in Listings
        BY <2>2, TapWritesKeeps DEF IInv, TypeOK, Cards
      <3> QED BY <3>1, KindShapes
              DEF Discoverable, DiscoverableKinds, PublishedListings,
                  ReservedListings
    <2>3. ASSUME NEW r \in Requests, TapWrites(r),
                 card'.listing.confirmedAt < card.listing.confirmedAt
          PROVE  ~(card'.listing.confirmedAt >= card.listing.confirmedAt)
      BY <1>2, <2>2, <2>3
    <2> QED BY <1>2, <1>3, <1>4, <1>5, <1>7, <2>1, <2>3

(* A reservation, its falling through, a confirmation or a photo change    *)
(* never restarts a visible card's wait.                                   *)
THEOREM WaitNeverRestarts == Spec => WaitClockKept
  <1>1. IInv /\ [Next]_vars =>
          [Discoverable(card.listing) /\ Discoverable(card'.listing)
             => card'.listing.publishedAt = card.listing.publishedAt]_vars
    BY VisibleSteps
  <1> QED BY <1>1, InvariantHolds, PTL DEF Spec, WaitClockKept

(* A visible card's confirmation date goes back only by an undo, within    *)
(* its window, to the instant kept for it.                                 *)
THEOREM OnlyUndoUnconfirms == Spec => ConfirmationFallsOnlyByUndo
  <1>1. IInv /\ [Next]_vars =>
          [ /\ Discoverable(card.listing)
            /\ Discoverable(card'.listing)
            /\ card'.listing.confirmedAt < card.listing.confirmedAt
            => \E r \in Requests :
                 /\ req[r].pc = "write"
                 /\ req[r].op = [type |-> "tap", event |-> "undo_confirm"]
                 /\ req[r].now - card.listing.confirmedAt <= UndoWindow
                 /\ card.listing.undoable # None
                 /\ card'.listing.confirmedAt =
                      card.listing.undoable.previousConfirmedAt
                 /\ card'.listing.undoable = None ]_vars
    BY VisibleSteps
  <1> QED BY <1>1, InvariantHolds, PTL DEF Spec, ConfirmationFallsOnlyByUndo

-----------------------------------------------------------------------------
(* The history.                                                            *)

(* One more line, after all others: it follows the last.                   *)
LEMMA OneMore ==
  ASSUME NEW lines, lines \subseteq Nat, NEW p \in Nat, \A k \in lines : k < p
  PROVE  /\ \A i : IsLast(lines \cup {p}, i) <=> i = p
         /\ \A i, j : Follows(lines \cup {p}, i, j) =>
              Follows(lines, i, j) \/ (IsLast(lines, i) /\ j = p)
  <1>1. ASSUME NEW i PROVE IsLast(lines \cup {p}, i) <=> i = p
    <2>1. IsLast(lines \cup {p}, p)
      BY DEF IsLast
    <2>2. ASSUME i \in lines PROVE ~IsLast(lines \cup {p}, i)
      <3>1. i < p /\ i \in Nat
        BY <2>2
      <3>2. ~(p <= i)
        BY <3>1
      <3> QED BY <3>2 DEF IsLast
    <2> QED BY <2>1, <2>2 DEF IsLast
  <1>2. ASSUME NEW i, NEW j, Follows(lines \cup {p}, i, j)
        PROVE  Follows(lines, i, j) \/ (IsLast(lines, i) /\ j = p)
    <2>1. i \in lines
      BY <1>2 DEF Follows
    <2>2. CASE j = p
      BY <1>2, <2>1, <2>2 DEF Follows, IsLast
    <2>3. CASE j # p
      BY <1>2, <2>1, <2>3 DEF Follows
    <2> QED BY <2>2, <2>3
  <1> QED BY <1>1, <1>2

(* A line appended is the last of its kind and touches no other kind.      *)
LEMMA LineAppended ==
  ASSUME history \in Seq(Lines), NEW line \in Lines,
         history' = Append(history, line)
  PROVE  LET p == Len(history) + 1
         IN  /\ p \in Nat
             /\ history'[p] = line
             /\ \A type :
                  /\ LinesOf(type) \subseteq 1 .. Len(history)
                  /\ \A k \in LinesOf(type) : k < p /\ history'[k] = history[k]
                  /\ LinesOf(type)' = IF line.type = type THEN LinesOf(type) \cup {p}
                                      ELSE LinesOf(type)
  <1> DEFINE n == Len(history)
  <1>1. /\ n \in Nat /\ DOMAIN history = 1 .. n
        /\ DOMAIN history' = 1 .. n + 1
        /\ \A i \in 1 .. n : history'[i] = history[i]
        /\ history'[n + 1] = line
    BY AppendProperties
  <1>2. \A i \in 1 .. n + 1 : i \in 1 .. n \/ i = n + 1
    BY <1>1
  <1>3. \A i \in 1 .. n : i \in 1 .. n + 1 /\ i < n + 1
    BY <1>1
  <1>4. n + 1 \in 1 .. n + 1 /\ n + 1 \in Nat
    BY <1>1
  <1> HIDE DEF n
  <1> QED BY <1>1, <1>2, <1>3, <1>4 DEF LinesOf, n

(* Neither chain is touched by a step that writes no line and leaves the   *)
(* card's kind and version alone.                                          *)
LogInv == HistoryChains /\ EditsSerial

LEMMA LogUntouched ==
  ASSUME LogInv, history' = history,
         card'.listing.kind = card.listing.kind, card'.version = card.version
  PROVE  LogInv'
  <1>1. \A type : LinesOf(type)' = LinesOf(type)
    BY DEF LinesOf
  <1>2. HistoryChains'
    BY <1>1 DEF LogInv, HistoryChains
  <1>3. EditsSerial'
    BY <1>1 DEF LogInv, EditsSerial
  <1> QED BY <1>2, <1>3 DEF LogInv

(* A line that is no move, or the move the card makes, goes on the chain.  *)
LEMMA ChainGrows ==
  ASSUME HistoryChains, history \in Seq(Lines), NEW line \in Lines,
         history' = Append(history, line),
         IF line.type = "moved"
         THEN line.from = card.listing.kind /\ line.to = card'.listing.kind
         ELSE card'.listing.kind = card.listing.kind
  PROVE  HistoryChains'
  <1> DEFINE moves == LinesOf("moved")
             p == Len(history) + 1
  <1>1. /\ p \in Nat /\ history'[p] = line
        /\ moves \subseteq Nat
        /\ \A k \in moves : k < p /\ history'[k] = history[k]
        /\ LinesOf("moved")' = IF line.type = "moved" THEN moves \cup {p} ELSE moves
    BY LineAppended
  <1>2. /\ \A i, j : Follows(moves, i, j) =>
             i \in moves /\ j \in moves /\ history[i].to = history[j].from
        /\ \A i : IsLast(moves, i) => i \in moves /\ history[i].to = card.listing.kind
    BY DEF HistoryChains, Follows, IsLast
  <1> HIDE DEF moves, p
  <1>3. CASE line.type = "moved"
    <2>1. /\ \A i : IsLast(moves \cup {p}, i) <=> i = p
          /\ \A i, j : Follows(moves \cup {p}, i, j) =>
               Follows(moves, i, j) \/ (IsLast(moves, i) /\ j = p)
      BY <1>1, OneMore
    <2>2. ASSUME NEW i, NEW j, Follows(moves \cup {p}, i, j)
          PROVE  history'[i].to = history'[j].from
      <3>1. CASE Follows(moves, i, j)
        BY <1>1, <1>2, <3>1
      <3>2. CASE IsLast(moves, i) /\ j = p
        BY <1>1, <1>2, <1>3, <3>2
      <3> QED BY <2>1, <2>2, <3>1, <3>2
    <2>3. ASSUME NEW i, IsLast(moves \cup {p}, i)
          PROVE  history'[i].to = card'.listing.kind
      BY <1>1, <1>3, <2>1, <2>3
    <2>4. LinesOf("moved")' = moves \cup {p}
      BY <1>1, <1>3
    <2> QED BY <2>2, <2>3, <2>4 DEF HistoryChains
  <1>4. CASE line.type # "moved"
    <2>1. LinesOf("moved")' = moves
      BY <1>1, <1>4
    <2> QED BY <1>1, <1>2, <1>4, <2>1 DEF HistoryChains
  <1> QED BY <1>3, <1>4

(* A line that is no save, or the save of the row's version, goes on the   *)
(* series.                                                                 *)
LEMMA SeriesGrows ==
  ASSUME EditsSerial, history \in Seq(Lines), NEW line \in Lines,
         history' = Append(history, line), card.version \in Nat,
         IF line.type = "edited"
         THEN line.version = card.version /\ card'.version = card.version + 1
         ELSE card'.version = card.version
  PROVE  EditsSerial'
  <1> DEFINE edits == LinesOf("edited")
             p == Len(history) + 1
  <1>1. /\ p \in Nat /\ history'[p] = line
        /\ edits \subseteq Nat
        /\ \A k \in edits : k < p /\ history'[k] = history[k]
        /\ LinesOf("edited")' = IF line.type = "edited" THEN edits \cup {p} ELSE edits
    BY LineAppended
  <1>2. /\ edits = {} => card.version = 0
        /\ \A i \in edits : (\A k \in edits : i <= k) => history[i].version = 0
        /\ \A i : IsLast(edits, i) => i \in edits /\ history[i].version + 1 = card.version
        /\ \A i, j : Follows(edits, i, j) =>
             /\ i \in edits /\ j \in edits
             /\ history[j].version = history[i].version + 1
    BY DEF EditsSerial, Follows, IsLast
  <1> HIDE DEF edits, p
  <1>3. CASE line.type = "edited"
    <2>1. /\ \A i : IsLast(edits \cup {p}, i) <=> i = p
          /\ \A i, j : Follows(edits \cup {p}, i, j) =>
               Follows(edits, i, j) \/ (IsLast(edits, i) /\ j = p)
      BY <1>1, OneMore
    <2>2. ASSUME NEW i, NEW j, Follows(edits \cup {p}, i, j)
          PROVE  history'[j].version = history'[i].version + 1
      <3>1. CASE Follows(edits, i, j)
        BY <1>1, <1>2, <3>1
      <3>2. CASE IsLast(edits, i) /\ j = p
        BY <1>1, <1>2, <1>3, <3>2
      <3> QED BY <2>1, <2>2, <3>1, <3>2
    <2>3. ASSUME NEW i, IsLast(edits \cup {p}, i)
          PROVE  history'[i].version + 1 = card'.version
      BY <1>1, <1>3, <2>1, <2>3
    <2>4. ASSUME NEW i \in edits \cup {p}, \A k \in edits \cup {p} : i <= k
          PROVE  history'[i].version = 0
      <3>1. CASE i = p
        <4>1. edits = {}
          <5>1. ASSUME NEW k \in edits PROVE FALSE
            <6>1. p <= k /\ k < p /\ k \in Nat
              BY <1>1, <2>4, <3>1, <5>1
            <6> QED BY <1>1, <6>1
          <5> QED BY <5>1
        <4> QED BY <1>1, <1>2, <1>3, <3>1, <4>1
      <3>2. CASE i \in edits
        BY <1>1, <1>2, <2>4, <3>2
      <3> QED BY <3>1, <3>2
    <2>5. LinesOf("edited")' = edits \cup {p} /\ edits \cup {p} # {}
      BY <1>1, <1>3
    <2> DEFINE more == edits \cup {p}
    <2>6. /\ LinesOf("edited")' = more /\ more # {}
          /\ \A i, j : Follows(more, i, j) => history'[j].version = history'[i].version + 1
          /\ \A i : IsLast(more, i) => history'[i].version + 1 = card'.version
          /\ \A i \in more : (\A k \in more : i <= k) => history'[i].version = 0
      BY <2>2, <2>3, <2>4, <2>5
    <2> HIDE DEF more
    <2> QED BY <2>6 DEF EditsSerial
  <1>4. CASE line.type # "edited"
    <2>1. LinesOf("edited")' = edits
      BY <1>1, <1>4
    <2>2. card'.version = card.version
      BY <1>4
    <2>3. \A i \in edits : (\A k \in edits : i <= k) => history'[i].version = 0
      BY <1>1, <1>2
    <2>4. \A i : IsLast(edits, i) => history'[i].version + 1 = card'.version
      BY <1>1, <1>2, <2>2
    <2>5. \A i, j : Follows(edits, i, j) => history'[j].version = history'[i].version + 1
      BY <1>1, <1>2
    <2> QED BY <1>2, <2>1, <2>2, <2>3, <2>4, <2>5 DEF EditsSerial
  <1> QED BY <1>3, <1>4

LEMMA InitLog == Init => LogInv
  <1> SUFFICES ASSUME Init PROVE LogInv
    OBVIOUS
  <1>1. \A type : LinesOf(type) = {}
    BY DEF Init, LinesOf
  <1>2. card.version = 0
    BY StartCardsAssumption DEF Init
  <1> QED BY <1>1, <1>2 DEF LogInv, HistoryChains, EditsSerial

(* Only a landed statement touches the row or the history.                 *)
LEMMA OnlyWrites ==
  ASSUME [Next]_vars
  PROVE  \/ UNCHANGED <<card, history>>
         \/ \E r \in Requests :
              TapWrites(r) \/ EditWrites(r) \/ PhotosWrite(r) \/ DeleteWrites(r)
  <1>1. ASSUME NEW r \in Requests, ArriveSome(r)
        PROVE  UNCHANGED <<card, history>>
    BY <1>1 DEF ArriveSome, Arrives, TapArrives, EditArrives, AddArrives,
                RemoveArrives, ReorderArrives, DeleteArrives
  <1>2. ASSUME NEW r \in Requests, Serve(r)
        PROVE  \/ UNCHANGED <<card, history>>
               \/ TapWrites(r) \/ EditWrites(r) \/ PhotosWrite(r) \/ DeleteWrites(r)
    BY <1>2
       DEF Serve, FindsNothing, TapReads, EditReads, EditRefused, AddReads,
           RewriteReads, DeleteReads, AddStores, AddRejected, AddStoreFails,
           LosesRace, Decides
  <1> QED BY <1>1, <1>2 DEF Next, Finished, Tick, vars

LEMMA LogKeeps ==
  ASSUME IInv, LogInv, [Next]_vars
  PROVE  LogInv'
  <1>1. /\ card \in Cards /\ card.listing \in Listings /\ card.version \in Nat
        /\ history \in Seq(Lines)
    BY DEF IInv, TypeOK, Cards
  <1>2. CASE UNCHANGED <<card, history>>
    BY <1>2, LogUntouched
  <1>3. ASSUME NEW r \in Requests, TapWrites(r) PROVE LogInv'
    <2> DEFINE event == req[r].op.event  now == req[r].now
               next == NextListing(card.listing, event, now)
               line == [type |-> "moved", from |-> card.listing.kind, to |-> next.kind]
    <2>1. /\ event \in ListingEvents /\ now \in Nat
          /\ Verdict(card.listing, event, now) = "ok"
          /\ card' = [card EXCEPT !.listing = next,
                                  !.everPublic = @ \/ Discoverable(next)]
          /\ history' = IF event \in ConfirmationEvents THEN history
                        ELSE Append(history, line)
      BY <1>3, TapLands
    <2>2. next \in Listings
      BY <1>1, <2>1, NextListingFacts
    <2>3. line \in Lines /\ line.type = "moved"
            /\ line.from = card.listing.kind /\ line.to = next.kind
      BY <1>1, <2>2, KindShapes DEF Lines
    <2>4. event \in ConfirmationEvents => next.kind = card.listing.kind
      BY <1>1, <2>1, NextKinds DEF ConfirmationEvents
    <2> HIDE DEF next, line
    <2>5. card'.listing = next /\ card'.version = card.version
      BY <1>1, <2>1 DEF Cards
    <2>6. CASE event \in ConfirmationEvents
      BY <2>1, <2>4, <2>5, <2>6, LogUntouched
    <2>7. CASE event \notin ConfirmationEvents
      <3>1. history' = Append(history, line)
        BY <2>1, <2>7
      <3>2. HistoryChains'
        BY <1>1, <2>3, <2>5, <3>1, ChainGrows DEF LogInv
      <3>3. EditsSerial'
        BY <1>1, <2>3, <2>5, <3>1, SeriesGrows DEF LogInv
      <3> QED BY <3>2, <3>3 DEF LogInv
    <2> QED BY <2>6, <2>7
  <1>4. ASSUME NEW r \in Requests, EditWrites(r) PROVE LogInv'
    <2> DEFINE line == [type |-> "edited", version |-> req[r].seen.version]
    <2>1. /\ req[r].seen.version \in Nat
          /\ \E missing \in SUBSET PublishFacts :
               card' = [card EXCEPT !.missing = missing, !.version = card.version + 1]
      BY <1>4, EditLands
    <2>2. req[r].seen.version = card.version
      BY <1>4 DEF EditWrites, Writing, Matches, EditMatches
    <2>3. line \in Lines /\ line.type = "edited" /\ line.version = card.version
      BY <2>1, <2>2 DEF Lines
    <2>4. history' = Append(history, line)
      BY <1>4 DEF EditWrites
    <2> DEFINE version == card.version + 1
    <2>5. PICK missing \in SUBSET PublishFacts :
            card' = [card EXCEPT !.missing = missing, !.version = version]
      BY <2>1
    <2> HIDE DEF line, version
    <2>6. card'.listing = card.listing /\ card'.version = version
      BY <1>1, <2>5 DEF Cards
    <2>7. HistoryChains'
      BY <1>1, <2>3, <2>4, <2>6, ChainGrows DEF LogInv
    <2>8. EditsSerial'
      BY <1>1, <2>3, <2>4, <2>6, SeriesGrows DEF LogInv, version
    <2> QED BY <2>7, <2>8 DEF LogInv
  <1>5. ASSUME NEW r \in Requests, PhotosWrite(r) PROVE LogInv'
    <2> DEFINE next == AfterPhotoChange(card.listing, req[r].now)
    <2>1. /\ req[r].now \in Nat
          /\ \E photos \in Seq(PhotoKeys) :
               card' = [card EXCEPT !.photos = photos, !.listing = next]
      BY <1>5, PhotosLand
    <2>2. next.kind = card.listing.kind
      BY <1>1, <2>1, AfterPhotoChangeFacts
    <2> HIDE DEF next
    <2>3. card'.listing = next /\ card'.version = card.version
      BY <1>1, <2>1 DEF Cards
    <2> QED BY <1>5, <2>2, <2>3, LogUntouched DEF PhotosWrite
  <1>6. ASSUME NEW r \in Requests, DeleteWrites(r) PROVE LogInv'
    <2> DEFINE line == [type |-> "deleted"]
    <2>1. line \in Lines /\ line.type = "deleted"
      BY DEF Lines
    <2>2. history' = Append(history, line) /\ card' = card
      BY <1>6 DEF DeleteWrites
    <2> HIDE DEF line
    <2>3. HistoryChains'
      BY <1>1, <2>1, <2>2, ChainGrows DEF LogInv
    <2>4. EditsSerial'
      BY <1>1, <2>1, <2>2, SeriesGrows DEF LogInv
    <2> QED BY <2>3, <2>4 DEF LogInv
  <1> QED BY <1>2, <1>3, <1>4, <1>5, <1>6, OnlyWrites

LEMMA LogHolds == Spec => []LogInv
  <1>1. IInv /\ LogInv /\ [Next]_vars => LogInv'
    BY LogKeeps
  <1> QED BY <1>1, InitLog, InvariantHolds, PTL DEF Spec

(* No lost race is recorded and no landed move is missing.                 *)
THEOREM MovesChain == Spec => []HistoryChains
  <1>1. LogInv => HistoryChains
    BY DEF LogInv
  <1> QED BY <1>1, LogHolds, PTL

(* No two saves were made from one version of the form.                    *)
THEOREM SavesAreSerial == Spec => []EditsSerial
  <1>1. LogInv => EditsSerial
    BY DEF LogInv
  <1> QED BY <1>1, LogHolds, PTL

-----------------------------------------------------------------------------
(* The photos.                                                             *)

(* What an upload or a reorder in flight relies on: the key of a file that *)
(* waits for its card is its own, on no card and in no log.                *)
KeyReq(q, photos, waiting) ==
  /\ q.key # None => /\ q.pc \in {"read", "write"}
                     /\ q.op.type = "add"
                     /\ q.key \in waiting
                     /\ q.key \notin KeysOf(photos)
  /\ q.pc = "store" => q.key = None
  /\ q.pc \in {"store", "write"} /\ q.op.type = "add"
       => Len(q.seen.photos) < MaxPhotos
  /\ q.pc # "idle" /\ q.op.type = "reorder"
       => /\ Len(q.op.wanted) = Len(q.op.shown)
          /\ KeysOf(q.op.wanted) = KeysOf(q.op.shown)

KeyInv ==
  /\ KeysOf(card.photos) \subseteq stored
  /\ orphaned \subseteq stored
  /\ PhotoLimit
  /\ \A r \in Requests : KeyReq(req[r], card.photos, stored \ orphaned)
  /\ \A r, s \in Requests :
       r # s /\ req[r].key # None => req[r].key # req[s].key

(* A list has no more keys than places.                                    *)
LEMMA KeysBound ==
  ASSUME NEW S, NEW photos \in Seq(S)
  PROVE  /\ IsFiniteSet(KeysOf(photos))
         /\ Cardinality(KeysOf(photos)) \in Nat
         /\ Cardinality(KeysOf(photos)) <= Len(photos)
         /\ Len(photos) \in Nat
         /\ DOMAIN photos = 1 .. Len(photos)
  <1>1. Len(photos) \in Nat /\ DOMAIN photos = 1 .. Len(photos)
    OBVIOUS
  <1>2. IsFiniteSet(1 .. Len(photos)) /\ Cardinality(1 .. Len(photos)) = Len(photos)
    BY <1>1, FS_Interval
  <1>3. photos \in Surjection(1 .. Len(photos), KeysOf(photos))
    BY <1>1 DEF Surjection, KeysOf
  <1>4. /\ IsFiniteSet(KeysOf(photos))
        /\ Cardinality(KeysOf(photos)) <= Cardinality(1 .. Len(photos))
    BY <1>2, <1>3, FS_Surjection
  <1> QED BY <1>1, <1>2, <1>4, FS_CardinalityType

LEMMA KeysAppend ==
  ASSUME NEW S, NEW photos \in Seq(S), NEW key \in S
  PROVE  /\ KeysOf(Append(photos, key)) = KeysOf(photos) \cup {key}
         /\ Len(Append(photos, key)) = Len(photos) + 1
  <1>1. /\ Len(photos) \in Nat /\ DOMAIN photos = 1 .. Len(photos)
        /\ Len(Append(photos, key)) = Len(photos) + 1
        /\ DOMAIN Append(photos, key) = 1 .. Len(photos) + 1
        /\ \A i \in 1 .. Len(photos) : Append(photos, key)[i] = photos[i]
        /\ Append(photos, key)[Len(photos) + 1] = key
    BY AppendProperties
  <1>2. \A i : i \in 1 .. Len(photos) + 1 <=> i \in 1 .. Len(photos) \/ i = Len(photos) + 1
    BY <1>1
  <1> QED BY <1>1, <1>2 DEF KeysOf

(* Taking out the photo at a place takes out its key and no other.         *)
LEMMA KeysWithout ==
  ASSUME NEW S, NEW photos \in Seq(S), NEW i \in 1 .. Len(photos)
  PROVE  /\ Without(photos, i) \in Seq(S)
         /\ Len(Without(photos, i)) + 1 = Len(photos)
         /\ KeysOf(Without(photos, i)) \subseteq KeysOf(photos)
         /\ KeysOf(photos) \ {photos[i]} \subseteq KeysOf(Without(photos, i))
  <1> DEFINE n == Len(photos)
             left == SubSeq(photos, 1, i - 1)
             right == SubSeq(photos, i + 1, n)
  <1>1. n \in Nat /\ DOMAIN photos = 1 .. n /\ i \in 1 .. n
    OBVIOUS
  <1>2. /\ left \in Seq(S) /\ Len(left) = i - 1
        /\ \A k \in 1 .. i - 1 : left[k] = photos[k]
    <2>1. /\ left \in Seq(S)
          /\ Len(left) = IF 1 <= i - 1 THEN i - 1 - 1 + 1 ELSE 0
          /\ \A k \in 1 .. i - 1 - 1 + 1 : left[k] = photos[1 + k - 1]
      BY SubSeqProperties
    <2> HIDE DEF left
    <2> QED BY <1>1, <2>1
  <1>3. /\ right \in Seq(S) /\ Len(right) = n - i
        /\ \A k \in 1 .. n - i : right[k] = photos[i + k]
    <2>1. /\ right \in Seq(S)
          /\ Len(right) = IF i + 1 <= n THEN n - (i + 1) + 1 ELSE 0
          /\ \A k \in 1 .. n - (i + 1) + 1 : right[k] = photos[i + 1 + k - 1]
      BY SubSeqProperties
    <2> HIDE DEF right, n
    <2>2. Len(right) = n - i
      BY <1>1, <2>1
    <2>3. ASSUME NEW k \in 1 .. n - i PROVE right[k] = photos[i + k]
      <3>1. k \in 1 .. n - (i + 1) + 1 /\ i + 1 + k - 1 = i + k
        BY <1>1
      <3> QED BY <2>1, <3>1
    <2> QED BY <2>1, <2>2, <2>3
  <1>4. Without(photos, i) = left \o right
    BY DEF Without
  <1> HIDE DEF left, right
  <1>5. /\ left \o right \in Seq(S)
        /\ Len(left \o right) = Len(left) + Len(right)
        /\ \A k \in 1 .. Len(left) + Len(right) :
             (left \o right)[k] = IF k <= Len(left) THEN left[k]
                                  ELSE right[k - Len(left)]
    BY <1>2, <1>3, ConcatProperties
  <1> DEFINE both == left \o right
  <1> HIDE DEF both
  <1>6. /\ both \in Seq(S) /\ DOMAIN both = 1 .. n - 1
        /\ Len(both) + 1 = n
        /\ \A k \in 1 .. n - 1 :
             both[k] = IF k <= i - 1 THEN left[k] ELSE right[k - (i - 1)]
    <2> HIDE DEF n
    <2>1. Len(left) = i - 1 /\ Len(left) + Len(right) = n - 1 /\ n - 1 \in Nat
      BY <1>1, <1>2, <1>3
    <2>2. both \in Seq(S) /\ Len(both) = n - 1
      BY <1>5, <2>1 DEF both
    <2>3. DOMAIN both = 1 .. n - 1 /\ Len(both) + 1 = n
      BY <1>1, <2>1, <2>2
    <2>4. \A k \in 1 .. n - 1 :
            both[k] = IF k <= i - 1 THEN left[k] ELSE right[k - (i - 1)]
      BY <1>5, <2>1 DEF both
    <2> QED BY <2>2, <2>3, <2>4
  <1>7. /\ \A k \in 1 .. i - 1 : k \in 1 .. n - 1 /\ both[k] = photos[k]
        /\ \A k \in i .. n - 1 : k \in 1 .. n - 1 /\ both[k] = photos[k + 1]
    <2>1. ASSUME NEW k \in 1 .. i - 1
          PROVE  k \in 1 .. n - 1 /\ both[k] = photos[k]
      BY <1>1, <1>2, <1>6
    <2>2. ASSUME NEW k \in i .. n - 1
          PROVE  k \in 1 .. n - 1 /\ both[k] = photos[k + 1]
      <3>1. k \in 1 .. n - 1 /\ ~(k <= i - 1) /\ k - (i - 1) \in 1 .. n - i
        BY <1>1
      <3>2. both[k] = right[k - (i - 1)]
        BY <1>6, <3>1
      <3>3. right[k - (i - 1)] = photos[i + (k - (i - 1))]
        BY <1>3, <3>1
      <3>4. i + (k - (i - 1)) = k + 1
        BY <1>1
      <3> QED BY <3>1, <3>2, <3>3, <3>4
    <2> QED BY <2>1, <2>2
  <1>8. KeysOf(both) \subseteq KeysOf(photos)
    <2>1. ASSUME NEW k \in 1 .. n - 1 PROVE both[k] \in KeysOf(photos)
      <3>1. CASE k <= i - 1
        <4>1. k \in 1 .. i - 1 /\ k \in 1 .. n
          BY <1>1, <3>1
        <4> QED BY <1>1, <1>7, <4>1 DEF KeysOf
      <3>2. CASE ~(k <= i - 1)
        <4>1. k \in i .. n - 1 /\ k + 1 \in 1 .. n
          BY <1>1, <3>2
        <4> QED BY <1>1, <1>7, <4>1 DEF KeysOf
      <3> QED BY <3>1, <3>2
    <2> QED BY <1>6, <2>1 DEF KeysOf
  <1>9. KeysOf(photos) \ {photos[i]} \subseteq KeysOf(both)
    <2>1. ASSUME NEW k \in 1 .. n, k # i PROVE photos[k] \in KeysOf(both)
      <3>1. CASE k < i
        <4>1. k \in 1 .. i - 1
          BY <1>1, <3>1
        <4> QED BY <1>6, <1>7, <4>1 DEF KeysOf
      <3>2. CASE i < k
        <4>1. k - 1 \in i .. n - 1 /\ k - 1 + 1 = k
          BY <1>1, <3>2
        <4>2. both[k - 1] = photos[k] /\ k - 1 \in 1 .. n - 1
          BY <1>7, <4>1
        <4> QED BY <1>6, <4>2 DEF KeysOf
      <3> QED BY <1>1, <2>1, <3>1, <3>2
    <2> QED BY <1>1, <2>1 DEF KeysOf
  <1> QED BY <1>4, <1>6, <1>8, <1>9 DEF both, n

(* One request changes; what it stores is new, and what it logs is new or  *)
(* its own; the card gains no key but the request's own.                   *)
LEMMA KeyStep ==
  ASSUME IInv, KeyInv, NEW r \in Requests, NEW q,
         req' = [req EXCEPT ![r] = q],
         q.key = None \/ q.key = req[r].key \/ q.key \notin stored,
         KeyReq(q, card'.photos, stored' \ orphaned'),
         KeysOf(card'.photos) \subseteq KeysOf(card.photos) \cup ({req[r].key} \ {None}),
         PhotoLimit',
         stored \subseteq stored',
         orphaned' \subseteq orphaned \cup ({req[r].key} \ {None})
                               \cup (stored' \ stored)
  PROVE  KeyInv'
  <1>1. /\ \A s \in Requests :
             /\ KeyReq(req[s], card.photos, stored \ orphaned)
             /\ req[s].key # None => req[s].key \in stored \ orphaned
        /\ KeysOf(card.photos) \subseteq stored /\ orphaned \subseteq stored
        /\ req \in [Requests -> RequestStates]
    BY DEF KeyInv, KeyReq, IInv, TypeOK
  <1>2. \A s \in Requests : req'[s] = IF s = r THEN q ELSE req[s]
    BY <1>1
  <1>3. KeysOf(card'.photos) \subseteq stored' /\ orphaned' \subseteq stored'
    BY <1>1
  <1>4. ASSUME NEW s \in Requests
        PROVE  KeyReq(req'[s], card'.photos, stored' \ orphaned')
    <2>1. CASE s = r
      BY <1>2, <2>1
    <2>2. CASE s # r
      <3>1. KeyReq(req[s], card.photos, stored \ orphaned) /\ req'[s] = req[s]
        BY <1>1, <1>2, <2>2
      <3>2. req[s].key # None =>
              /\ req[s].key \in stored \ orphaned
              /\ req[s].key # req[r].key
              /\ req[s].key \notin KeysOf(card.photos)
        BY <2>2, <3>1 DEF KeyInv, KeyReq
      <3>3. req[s].key # None =>
              /\ req[s].key \in stored' \ orphaned'
              /\ req[s].key \notin KeysOf(card'.photos)
        BY <3>2
      <3> QED BY <3>1, <3>3 DEF KeyReq
    <2> QED BY <2>1, <2>2
  <1>5. ASSUME NEW s \in Requests, NEW t \in Requests, s # t, req'[s].key # None
        PROVE  req'[s].key # req'[t].key
    <2>1. \A u \in Requests : u # r /\ req[u].key # None => req[u].key # req[r].key
      BY DEF KeyInv
    <2>2. \A u \in Requests : u # r /\ req[u].key # None => req[u].key # q.key
      BY <1>1, <2>1
    <2>3. CASE s = r
      BY <1>2, <1>5, <2>2, <2>3
    <2>4. CASE t = r
      BY <1>2, <1>5, <2>2, <2>4
    <2>5. CASE s # r /\ t # r
      BY <1>2, <1>5, <2>5 DEF KeyInv
    <2> QED BY <2>3, <2>4, <2>5
  <1>6. \A s \in Requests : KeyReq(req[s], card.photos, stored \ orphaned)'
    BY <1>4
  <1> QED BY <1>3, <1>5, <1>6 DEF KeyInv

(* A request that ends waits for nothing.                                  *)
LEMMA IdleKey ==
  ASSUME NEW answer, NEW photos, NEW waiting
  PROVE  IdleWith(answer).key = None /\ KeyReq(IdleWith(answer), photos, waiting)
  BY DEF KeyReq, IdleWith

LEMMA AnsweredKeys ==
  ASSUME IInv, KeyInv, NEW r \in Requests, NEW answer,
         Answer(r, answer), UNCHANGED orphaned \/ LogOrphan(r),
         KeysOf(card'.photos) \subseteq KeysOf(card.photos) \cup ({req[r].key} \ {None}),
         PhotoLimit', UNCHANGED stored
  PROVE  KeyInv'
  <1>1. req' = [req EXCEPT ![r] = IdleWith(answer)]
    BY DEF Answer
  <1>2. orphaned' \subseteq orphaned \cup ({req[r].key} \ {None})
    BY DEF LogOrphan
  <1>3. /\ IdleWith(answer).key = None
        /\ KeyReq(IdleWith(answer), card'.photos, stored' \ orphaned')
    BY IdleKey
  <1> QED BY <1>1, <1>2, <1>3, KeyStep

LEMMA ArriveKeys ==
  ASSUME IInv, KeyInv, NEW r \in Requests, ArriveSome(r)
  PROVE  KeyInv'
  <1>1. ASSUME NEW op, Arrives(r, op),
               op.type = "reorder" => /\ Len(op.wanted) = Len(op.shown)
                                      /\ KeysOf(op.wanted) = KeysOf(op.shown)
        PROVE  KeyInv'
    <2> DEFINE q == [pc |-> "read", op |-> op, now |-> clock, attempt |-> 1,
                     seen |-> None, key |-> None, answer |-> "none"]
    <2>1. req' = [req EXCEPT ![r] = q] /\ UNCHANGED <<card, stored, orphaned>>
      BY <1>1 DEF Arrives
    <2>2. q.key = None /\ KeyReq(q, card'.photos, stored' \ orphaned')
      BY <1>1 DEF KeyReq
    <2>3. PhotoLimit'
      BY <2>1 DEF KeyInv, PhotoLimit
    <2> HIDE DEF q
    <2> QED BY <2>1, <2>2, <2>3, KeyStep
  <1>2. CASE ReorderArrives(r)
    <2>1. PICK wanted \in [1 .. Len(card.photos) -> KeysOf(card.photos)] :
            /\ KeysOf(wanted) = KeysOf(card.photos)
            /\ Arrives(r, [type |-> "reorder", shown |-> card.photos,
                           wanted |-> wanted])
      BY <1>2 DEF ReorderArrives
    <2>2. Len(card.photos) \in Nat
      BY DEF IInv, TypeOK, Cards
    <2>3. Len(wanted) = Len(card.photos)
      BY <2>1, <2>2
    <2> QED BY <1>1, <2>1, <2>3
  <1> QED BY <1>1, <1>2
          DEF ArriveSome, TapArrives, EditArrives, AddArrives, RemoveArrives,
              DeleteArrives

(* A read that leads to a write, or to storing a file while there is room. *)
LEMMA DecidesKeys ==
  ASSUME IInv, KeyInv, NEW r \in Requests, NEW decision,
         NEW next \in {"store", "write"}, Decides(r, decision, next),
         req[r].pc = "read",
         next = "store" => req[r].key = None,
         req[r].op.type = "add" => decision = AddDecision(card)
  PROVE  KeyInv'
  <1>1. UNCHANGED <<card, stored>>
    BY DEF Decides
  <1>2. PhotoLimit'
    BY <1>1 DEF KeyInv, PhotoLimit
  <1>3. CASE decision = "write"
    <2> DEFINE q == [req[r] EXCEPT !.pc = next, !.seen = card]
    <2>1. /\ req' = [req EXCEPT ![r] = q] /\ UNCHANGED orphaned
          /\ req[r] \in RequestStates
          /\ KeyReq(req[r], card.photos, stored \ orphaned)
      BY <1>3 DEF Decides, IInv, TypeOK, KeyInv
    <2>2. q.pc = next /\ q.seen = card /\ q.op = req[r].op /\ q.key = req[r].key
      BY <2>1 DEF RequestStates
    <2> HIDE DEF q
    <2>3. req[r].op.type = "add" => Len(card.photos) < MaxPhotos
      <3>1. Len(card.photos) \in Nat /\ MaxPhotos \in Nat
        BY KabinetAnimalAssumption DEF IInv, TypeOK, Cards
      <3> QED BY <1>3, <3>1 DEF AddDecision
    <2>4. KeyReq(q, card'.photos, stored' \ orphaned')
      BY <1>1, <2>1, <2>2, <2>3 DEF KeyReq
    <2> QED BY <1>1, <1>2, <2>1, <2>2, <2>4, KeyStep
  <1>4. CASE decision # "write"
    BY <1>1, <1>2, <1>4, AnsweredKeys DEF Decides, AnswerFailed
  <1> QED BY <1>3, <1>4

LEMMA ReadKeys ==
  ASSUME IInv, KeyInv, NEW r \in Requests,
         \/ TapReads(r) \/ EditReads(r) \/ AddReads(r) \/ RewriteReads(r)
         \/ DeleteReads(r)
  PROVE  KeyInv'
  <1>1. CASE AddReads(r)
    <2> DEFINE next == IF req[r].key = None THEN "store" ELSE "write"
    <2>1. /\ next \in {"store", "write"}
          /\ next = "store" => req[r].key = None
          /\ req[r].pc = "read" /\ Decides(r, AddDecision(card), next)
      BY <1>1 DEF AddReads, Reading
    <2> HIDE DEF next
    <2> QED BY <2>1, DecidesKeys
  <1>2. CASE TapReads(r)
    BY <1>2, DecidesKeys DEF TapReads, Reading
  <1>3. CASE EditReads(r)
    BY <1>3, DecidesKeys DEF EditReads, Reading
  <1>4. CASE RewriteReads(r)
    BY <1>4, DecidesKeys DEF RewriteReads, Reading
  <1>5. CASE DeleteReads(r)
    BY <1>5, DecidesKeys DEF DeleteReads, Reading
  <1> QED BY <1>1, <1>2, <1>3, <1>4, <1>5

LEMMA AsideKeys ==
  ASSUME IInv, KeyInv, NEW r \in Requests,
         \/ FindsNothing(r) \/ EditRefused(r) \/ AddStores(r)
         \/ AddRejected(r) \/ AddStoreFails(r) \/ LosesRace(r)
  PROVE  KeyInv'
  <1>1. UNCHANGED card
    BY DEF FindsNothing, EditRefused, AddStores, AddRejected, AddStoreFails,
           LosesRace
  <1>2. PhotoLimit'
    BY <1>1 DEF KeyInv, PhotoLimit
  <1>3. /\ req[r] \in RequestStates
        /\ KeyReq(req[r], card.photos, stored \ orphaned)
        /\ KeysOf(card.photos) \subseteq stored /\ orphaned \subseteq stored
    BY DEF IInv, TypeOK, KeyInv
  <1>4. CASE FindsNothing(r) \/ EditRefused(r)
    BY <1>1, <1>2, <1>4, AnsweredKeys DEF FindsNothing, EditRefused, AnswerFailed
  <1>5. CASE AddRejected(r)
    BY <1>1, <1>2, <1>5, AnsweredKeys DEF AddRejected
  <1>6. CASE AddStoreFails(r)
    <2>1. PICK key \in PhotoKeys \ stored :
            stored' = stored \cup {key} /\ orphaned' = orphaned \cup {key}
      BY <1>6 DEF AddStoreFails
    <2>2. req' = [req EXCEPT ![r] = IdleWith("upload_failed")]
      BY <1>6 DEF AddStoreFails, Answer
    <2>3. /\ IdleWith("upload_failed").key = None
          /\ KeyReq(IdleWith("upload_failed"), card'.photos, stored' \ orphaned')
      BY IdleKey
    <2> QED BY <1>1, <1>2, <2>1, <2>2, <2>3, KeyStep
  <1>7. CASE AddStores(r)
    <2>1. PICK key \in PhotoKeys \ stored :
            /\ stored' = stored \cup {key}
            /\ req' = [req EXCEPT ![r].pc = "write", ![r].key = key]
      BY <1>7 DEF AddStores
    <2> DEFINE q == [req[r] EXCEPT !.pc = "write", !.key = key]
    <2>2. req' = [req EXCEPT ![r] = q]
      BY <2>1 DEF IInv, TypeOK
    <2>3. q.pc = "write" /\ q.key = key /\ q.op = req[r].op /\ q.seen = req[r].seen
      BY <1>3 DEF RequestStates
    <2> HIDE DEF q
    <2>4. req[r].pc = "store" /\ req[r].op.type = "add" /\ UNCHANGED orphaned
      BY <1>7 DEF AddStores, IInv, ReqInv
    <2>5. KeyReq(q, card'.photos, stored' \ orphaned')
      BY <1>1, <1>3, <2>1, <2>3, <2>4 DEF KeyReq
    <2> QED BY <1>1, <1>2, <2>1, <2>2, <2>3, <2>4, <2>5, KeyStep
  <1>8. CASE LosesRace(r)
    <2>1. CASE AnswerFailed(r, "conflict") \/ AnswerFailed(r, "gave_up")
      BY <1>1, <1>2, <1>8, <2>1, AnsweredKeys DEF LosesRace, AnswerFailed
    <2>2. CASE /\ req' = [req EXCEPT ![r].pc = "read", ![r].attempt = @ + 1,
                                     ![r].seen = None]
               /\ UNCHANGED orphaned
      <3> DEFINE q == [req[r] EXCEPT !.pc = "read", !.attempt = req[r].attempt + 1,
                                     !.seen = None]
      <3>1. req' = [req EXCEPT ![r] = q]
        BY <2>2 DEF IInv, TypeOK
      <3>2. q.pc = "read" /\ q.key = req[r].key /\ q.op = req[r].op
        BY <1>3 DEF RequestStates
      <3> HIDE DEF q
      <3>3. req[r].pc = "write" /\ UNCHANGED stored
        BY <1>8 DEF LosesRace
      <3>4. KeyReq(q, card'.photos, stored' \ orphaned')
        BY <1>1, <1>3, <2>2, <3>2, <3>3 DEF KeyReq
      <3> QED BY <1>1, <1>2, <2>2, <3>1, <3>2, <3>3, <3>4, KeyStep
    <2> QED BY <1>8, <2>1, <2>2 DEF LosesRace
  <1> QED BY <1>4, <1>5, <1>6, <1>7, <1>8

(* What a photo change that lands does to the list.                        *)
LEMMA PhotosChange ==
  ASSUME IInv, KeyInv, NEW r \in Requests, PhotosWrite(r)
  PROVE  /\ PhotoLimit'
         /\ KeysOf(card'.photos)
              \subseteq KeysOf(card.photos) \cup ({req[r].key} \ {None})
         /\ req[r].op.type = "add" =>
              req[r].key # None /\ req[r].key \in KeysOf(card'.photos)
         /\ \A key \in KeysOf(card.photos) \ KeysOf(card'.photos) :
              /\ req[r].op.type = "remove"
              /\ req[r].op.shown = card.photos
              /\ req[r].op.shown[req[r].op.at] = key
  <1> DEFINE q == req[r]
             photos == PhotosAfter(card, q.op, q.key)
  <1>1. /\ q \in RequestStates /\ q.op \in Ops /\ q.pc = "write"
        /\ q.op.type \in {"add", "remove", "reorder"}
        /\ q.seen \in Cards /\ Planned(q)
        /\ q.op.type = "remove" => q.op.at \in 1 .. Len(q.op.shown)
        /\ PhotosMatch(q.seen)
        /\ KeyReq(q, card.photos, stored \ orphaned)
        /\ card \in Cards
    BY DEF IInv, TypeOK, ReqInv, KeyInv, PhotosWrite, Writing, Matches
  <1>2. /\ q.seen.photos = card.photos
        /\ PhotosAfter(q.seen, q.op, q.key) = photos
        /\ card.photos \in Seq(PhotoKeys)
    BY <1>1 DEF PhotosMatch, PhotosAfter, Cards
  <1>3. card'.photos = photos
    BY <1>1, <1>2 DEF PhotosWrite, Cards
  <1>4. /\ IsFiniteSet(KeysOf(card.photos)) /\ Len(card.photos) \in Nat
        /\ Cardinality(KeysOf(card.photos)) \in Nat
    BY <1>2, KeysBound
  <1>5. /\ Len(card.photos) <= MaxPhotos
        /\ Cardinality(KeysOf(card.photos)) = Len(card.photos)
        /\ MaxPhotos \in Nat
    BY KabinetAnimalAssumption DEF KeyInv, PhotoLimit
  <1>6. CASE q.op.type = "add"
    <2>1. /\ photos = Append(card.photos, q.key)
          /\ q.key \in PhotoKeys /\ q.key # None
          /\ q.key \notin KeysOf(card.photos)
          /\ Len(card.photos) < MaxPhotos
      BY <1>1, <1>2, <1>6, KabinetAnimalAssumption DEF PhotosAfter, Planned, KeyReq
    <2>2. KeysOf(photos) = KeysOf(card.photos) \cup {q.key}
            /\ Len(photos) = Len(card.photos) + 1
      BY <1>2, <2>1, KeysAppend
    <2>3. Cardinality(KeysOf(card.photos) \cup {q.key}) = Len(card.photos) + 1
      BY <1>4, <1>5, <2>1, FS_AddElement
    <2> HIDE DEF photos
    <2>4. PhotoLimit'
      BY <1>3, <1>4, <1>5, <2>1, <2>2, <2>3 DEF PhotoLimit
    <2> QED BY <1>3, <1>6, <2>1, <2>2, <2>4
  <1>7. CASE q.op.type = "remove"
    <2>1. RewriteDecision(q.seen, q.op) = "write"
      BY <1>1, <1>7 DEF Planned
    <2>2. q.op.shown = card.photos /\ q.op.at \in 1 .. Len(card.photos)
      BY <1>1, <1>2, <1>7, <2>1 DEF RewriteDecision
    <2>3. photos = Without(card.photos, q.op.at)
      BY <1>7 DEF PhotosAfter
    <2>4. /\ photos \in Seq(PhotoKeys) /\ Len(photos) + 1 = Len(card.photos)
          /\ KeysOf(photos) \subseteq KeysOf(card.photos)
          /\ KeysOf(card.photos) \ {card.photos[q.op.at]} \subseteq KeysOf(photos)
      BY <1>2, <2>2, <2>3, KeysWithout
    <2> HIDE DEF photos
    <2>5. /\ IsFiniteSet(KeysOf(photos)) /\ Len(photos) \in Nat
          /\ Cardinality(KeysOf(photos)) \in Nat
          /\ Cardinality(KeysOf(photos)) <= Len(photos)
      BY <2>4, KeysBound
    <2>6. Cardinality(KeysOf(photos) \cup {card.photos[q.op.at]})
            <= Cardinality(KeysOf(photos)) + 1
          /\ IsFiniteSet(KeysOf(photos) \cup {card.photos[q.op.at]})
      BY <2>5, FS_AddElement
    <2>7. KeysOf(card.photos) \in SUBSET (KeysOf(photos) \cup {card.photos[q.op.at]})
      BY <2>4
    <2>8. Cardinality(KeysOf(card.photos))
            <= Cardinality(KeysOf(photos) \cup {card.photos[q.op.at]})
      BY <2>6, <2>7, FS_Subset
    <2>9. Cardinality(KeysOf(photos) \cup {card.photos[q.op.at]}) \in Nat
      BY <2>6, FS_CardinalityType
    <2>10. Cardinality(KeysOf(photos)) = Len(photos) /\ Len(photos) <= MaxPhotos
      BY <1>4, <1>5, <2>4, <2>5, <2>6, <2>8, <2>9
    <2>11. PhotoLimit'
      BY <1>3, <2>10 DEF PhotoLimit
    <2> QED BY <1>3, <1>7, <2>2, <2>4, <2>11
  <1>8. CASE q.op.type = "reorder"
    <2>1. RewriteDecision(q.seen, q.op) = "write"
      BY <1>1, <1>8 DEF Planned
    <2>2. q.op.shown = card.photos /\ photos = q.op.wanted
      BY <1>2, <1>8, <2>1 DEF RewriteDecision, PhotosAfter
    <2>3. Len(photos) = Len(card.photos) /\ KeysOf(photos) = KeysOf(card.photos)
      BY <1>1, <1>8, <2>2 DEF KeyReq
    <2> HIDE DEF photos
    <2>4. PhotoLimit'
      BY <1>3, <1>5, <2>3 DEF PhotoLimit
    <2> QED BY <1>3, <1>8, <2>3, <2>4
  <1> QED BY <1>1, <1>6, <1>7, <1>8

(* No other statement touches the list.                                    *)
LEMMA OnlyPhotoChanges ==
  ASSUME IInv, [Next]_vars
  PROVE  card'.photos = card.photos \/ \E r \in Requests : PhotosWrite(r)
  <1>1. card \in Cards
    BY DEF IInv, TypeOK
  <1>2. ASSUME NEW r \in Requests, TapWrites(r) \/ EditWrites(r) \/ DeleteWrites(r)
        PROVE  card'.photos = card.photos
    BY <1>1, <1>2 DEF TapWrites, EditWrites, DeleteWrites, Cards
  <1> QED BY <1>2, OnlyWrites

LEMMA WriteKeys ==
  ASSUME IInv, KeyInv, NEW r \in Requests,
         TapWrites(r) \/ EditWrites(r) \/ PhotosWrite(r) \/ DeleteWrites(r)
  PROVE  KeyInv'
  <1>1. /\ PhotoLimit'
        /\ KeysOf(card'.photos)
             \subseteq KeysOf(card.photos) \cup ({req[r].key} \ {None})
    <2>1. CASE PhotosWrite(r)
      BY <2>1, PhotosChange
    <2>2. CASE TapWrites(r) \/ EditWrites(r) \/ DeleteWrites(r)
      <3>1. card'.photos = card.photos
        BY <2>2 DEF TapWrites, EditWrites, DeleteWrites, Cards, IInv, TypeOK
      <3> QED BY <3>1 DEF KeyInv, PhotoLimit
    <2> QED BY <2>1, <2>2
  <1>2. UNCHANGED stored
    BY DEF TapWrites, EditWrites, PhotosWrite, DeleteWrites
  <1>3. \E answer : Answer(r, answer) /\ (UNCHANGED orphaned \/ LogOrphan(r))
    BY DEF TapWrites, EditWrites, PhotosWrite, DeleteWrites, Settles, AnswerFailed
  <1> QED BY <1>1, <1>2, <1>3, AnsweredKeys

LEMMA InitKeys == Init => KeyInv
  <1> SUFFICES ASSUME Init PROVE KeyInv
    OBVIOUS
  <1>1. PhotoLimit
    BY StartCardsAssumption DEF Init, PhotoLimit
  <1>2. \A r \in Requests : req[r] = IdleWith("none")
    BY DEF Init
  <1>3. \A r \in Requests : req[r].key = None
                            /\ KeyReq(req[r], card.photos, stored \ orphaned)
    BY <1>2, IdleKey
  <1> QED BY <1>1, <1>3 DEF KeyInv, Init

LEMMA KeysKeep == IInv /\ KeyInv /\ [Next]_vars => KeyInv'
  <1> SUFFICES ASSUME IInv, KeyInv, [Next]_vars PROVE KeyInv'
    OBVIOUS
  <1>1. CASE UNCHANGED <<card, stored, orphaned, req>>
    BY <1>1 DEF KeyInv, PhotoLimit
  <1>2. ASSUME NEW r \in Requests, ArriveSome(r) PROVE KeyInv'
    BY <1>2, ArriveKeys
  <1>3. ASSUME NEW r \in Requests, Serve(r) PROVE KeyInv'
    BY <1>3, ReadKeys, AsideKeys, WriteKeys DEF Serve
  <1> QED BY <1>1, <1>2, <1>3 DEF Next, Tick, Finished, vars

LEMMA KeysHold == Spec => []KeyInv
  BY InitKeys, KeysKeep, InvariantHolds, PTL DEF Spec

(* However many uploads overlap, no card passes its limit of photos or     *)
(* holds one twice.                                                        *)
THEOREM PhotosStayLimited == Spec => []PhotoLimit
  <1>1. KeyInv => PhotoLimit
    BY DEF KeyInv
  <1> QED BY <1>1, KeysHold, PTL

(* A photo is dropped only by a removal that names it on the list as it    *)
(* stands.                                                                 *)
THEOREM OnlyRemovalDropsPhotos == Spec => PhotoLeavesOnlyByRemoval
  <1>1. IInv /\ KeyInv /\ [Next]_vars =>
          [ \A key \in KeysOf(card.photos) \ KeysOf(card'.photos) :
              \E r \in Requests :
                /\ req[r].pc = "write"
                /\ req[r].op.type = "remove"
                /\ req[r].op.shown = card.photos
                /\ req[r].op.shown[req[r].op.at] = key ]_vars
    <2> SUFFICES ASSUME IInv, KeyInv, [Next]_vars,
                        NEW key \in KeysOf(card.photos) \ KeysOf(card'.photos)
                 PROVE  \E r \in Requests :
                          /\ req[r].pc = "write"
                          /\ req[r].op.type = "remove"
                          /\ req[r].op.shown = card.photos
                          /\ req[r].op.shown[req[r].op.at] = key
      OBVIOUS
    <2>1. card'.photos # card.photos
      OBVIOUS
    <2>2. PICK r \in Requests : PhotosWrite(r)
      BY <2>1, OnlyPhotoChanges
    <2>3. req[r].pc = "write"
      BY <2>2 DEF PhotosWrite, Writing
    <2> QED BY <2>2, <2>3, PhotosChange
  <1> QED BY <1>1, InvariantHolds, KeysHold, PTL DEF Spec, PhotoLeavesOnlyByRemoval

(* What the server does for a request changes its slot only.               *)
LEMMA OneSlotServed ==
  ASSUME IInv, NEW r \in Requests, Serve(r)
  PROVE  \E q : req' = [req EXCEPT ![r] = q]
  <1>1. req \in [Requests -> RequestStates]
    BY DEF IInv, TypeOK
  <1>2. ASSUME NEW answer, Answer(r, answer)
        PROVE  \E q : req' = [req EXCEPT ![r] = q]
    BY <1>2 DEF Answer
  <1>3. ASSUME NEW decision, NEW next, Decides(r, decision, next)
        PROVE  \E q : req' = [req EXCEPT ![r] = q]
    <2>1. CASE decision = "write"
      <3>1. req' = [req EXCEPT ![r] = [req[r] EXCEPT !.pc = next, !.seen = card]]
        BY <1>1, <1>3, <2>1 DEF Decides
      <3> QED BY <3>1
    <2>2. CASE decision # "write"
      BY <1>2, <1>3, <2>2 DEF Decides, AnswerFailed
    <2> QED BY <2>1, <2>2
  <1>4. CASE TapReads(r) \/ EditReads(r) \/ AddReads(r) \/ RewriteReads(r)
               \/ DeleteReads(r)
    BY <1>3, <1>4 DEF TapReads, EditReads, AddReads, RewriteReads, DeleteReads
  <1>5. CASE AddStores(r)
    <2>1. PICK key : req' = [req EXCEPT ![r].pc = "write", ![r].key = key]
      BY <1>5 DEF AddStores
    <2>2. req' = [req EXCEPT ![r] = [req[r] EXCEPT !.pc = "write", !.key = key]]
      BY <1>1, <2>1
    <2> QED BY <2>2
  <1>6. CASE FindsNothing(r) \/ EditRefused(r) \/ AddRejected(r) \/ AddStoreFails(r)
    BY <1>2, <1>6
       DEF FindsNothing, EditRefused, AddRejected, AddStoreFails, AnswerFailed
  <1>7. CASE TapWrites(r) \/ EditWrites(r) \/ PhotosWrite(r) \/ DeleteWrites(r)
    BY <1>2, <1>7
       DEF TapWrites, EditWrites, PhotosWrite, DeleteWrites, Settles, AnswerFailed
  <1>8. CASE LosesRace(r)
    <2>1. CASE AnswerFailed(r, "conflict") \/ AnswerFailed(r, "gave_up")
      BY <1>2, <2>1 DEF AnswerFailed
    <2>2. CASE req' = [req EXCEPT ![r].pc = "read", ![r].attempt = @ + 1,
                                  ![r].seen = None]
      <3>1. req' = [req EXCEPT ![r] = [req[r] EXCEPT !.pc = "read",
                                         !.attempt = req[r].attempt + 1,
                                         !.seen = None]]
        BY <1>1, <2>2
      <3> QED BY <3>1
    <2> QED BY <1>8, <2>1, <2>2 DEF LosesRace
  <1> QED BY <1>4, <1>5, <1>6, <1>7, <1>8 DEF Serve

(* A request lets a stored file go, other than onto the card, only by      *)
(* logging it.                                                             *)
LEMMA OnlyFailuresFree ==
  ASSUME IInv, NEW r \in Requests, Serve(r), ~PhotosWrite(r),
         req[r].key # None, req'[r].key # req[r].key,
         req[r].op.type = "add", req[r].pc \in {"read", "write"}
  PROVE  UNCHANGED card /\ LogOrphan(r)
  <1>1. req \in [Requests -> RequestStates] /\ req[r] \in RequestStates
    BY DEF IInv, TypeOK
  <1>2. FindsNothing(r) \/ AddReads(r) \/ LosesRace(r)
    BY DEF Serve, TapReads, EditReads, EditRefused, RewriteReads, DeleteReads,
           Reading, AddStores, AddRejected, AddStoreFails, TapWrites, EditWrites,
           DeleteWrites, Writing
  <1>3. CASE FindsNothing(r)
    BY <1>3 DEF FindsNothing, AnswerFailed
  <1>4. CASE AddReads(r)
    <2> DEFINE d == AddDecision(card)
               next == IF req[r].key = None THEN "store" ELSE "write"
    <2>1. Decides(r, d, next) /\ UNCHANGED card
      BY <1>4 DEF AddReads, Decides
    <2>2. CASE d = "write"
      <3>1. req' = [req EXCEPT ![r].pc = next, ![r].seen = card]
        BY <2>1, <2>2 DEF Decides
      <3> HIDE DEF next
      <3>2. req'[r].key = req[r].key
        BY <1>1, <3>1 DEF RequestStates
      <3> QED BY <3>2
    <2>3. CASE d # "write"
      BY <2>1, <2>3 DEF Decides, AnswerFailed
    <2> QED BY <2>2, <2>3
  <1>5. CASE LosesRace(r)
    <2>1. CASE req' = [req EXCEPT ![r].pc = "read", ![r].attempt = @ + 1,
                                  ![r].seen = None]
      <3>1. req'[r].key = req[r].key
        BY <1>1, <2>1 DEF RequestStates
      <3> QED BY <3>1
    <2>2. CASE AnswerFailed(r, "gave_up")
      BY <1>5, <2>2 DEF LosesRace, AnswerFailed
    <2> QED BY <1>5, <2>1, <2>2 DEF LosesRace
  <1> QED BY <1>2, <1>3, <1>4, <1>5

(* An upload that ends leaves its file on the card or in the log of        *)
(* orphans, and on one of them only, when no landed statement's answer is  *)
(* lost.                                                                   *)
THEOREM UploadsLeaveNoTrace ==
  ASSUME LostAnswers = FALSE
  PROVE  Spec => UploadsSettled
  <1>1. IInv /\ KeyInv /\ [Next]_vars =>
          [ \A r \in Requests :
              req[r].key # None /\ req'[r].key # req[r].key =>
                ( req[r].key \in KeysOf(card'.photos)
                    <=> req[r].key \notin orphaned' ) ]_vars
    <2> SUFFICES ASSUME IInv, KeyInv, [Next]_vars, NEW r \in Requests,
                        req[r].key # None, req'[r].key # req[r].key
                 PROVE  req[r].key \in KeysOf(card'.photos)
                          <=> req[r].key \notin orphaned'
      OBVIOUS
    <2>1. /\ req[r] \in RequestStates /\ req \in [Requests -> RequestStates]
          /\ req[r].op.type = "add" /\ req[r].pc \in {"read", "write"}
          /\ req[r].key \notin orphaned /\ req[r].key \notin KeysOf(card.photos)
      BY DEF IInv, TypeOK, KeyInv, KeyReq
    <2>2. \A s \in Requests : \A q :
            req' = [req EXCEPT ![s] = q] => s = r \/ req'[r] = req[r]
      BY <2>1
    <2>3. ASSUME NEW s \in Requests, ArriveSome(s) PROVE FALSE
      <3>1. req[s].pc = "idle" /\ \E q : req' = [req EXCEPT ![s] = q]
        BY <2>3 DEF ArriveSome, Arrives, TapArrives, EditArrives, AddArrives,
                    RemoveArrives, ReorderArrives, DeleteArrives
      <3> QED BY <2>1, <2>2, <3>1
    <2>4. ASSUME NEW s \in Requests, Serve(s) PROVE s = r
      <3>1. \E q : req' = [req EXCEPT ![s] = q]
        BY <2>4, OneSlotServed
      <3> QED BY <2>2, <3>1
    <2>5. Serve(r)
      BY <2>3, <2>4 DEF Next, Tick, Finished, vars
    <2>6. CASE PhotosWrite(r)
      <3>1. req[r].key \in KeysOf(card'.photos)
        BY <2>1, <2>6, PhotosChange
      <3>2. UNCHANGED orphaned
        BY <2>6 DEF PhotosWrite, Settles
      <3> QED BY <2>1, <3>1, <3>2
    <2>7. CASE ~PhotosWrite(r)
      <3>1. UNCHANGED card /\ LogOrphan(r)
        BY <2>1, <2>5, <2>7, OnlyFailuresFree
      <3> QED BY <2>1, <3>1 DEF LogOrphan
    <2> QED BY <2>6, <2>7
  <1> QED BY <1>1, InvariantHolds, KeysHold, PTL DEF Spec, UploadsSettled

=============================================================================
