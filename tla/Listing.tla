------------------------------- MODULE Listing -------------------------------
(***************************************************************************)
(* The listing lifecycle of one animal card, as the pure functions of      *)
(* packages/domain/src/animals compute it: the five states with the        *)
(* instants each carries, the table of moves, the ordering check on an     *)
(* event's instant, the confirmation with its undo, and what a photo       *)
(* change does to a visible card.  No state here: KabinetAnimal and        *)
(* CardVisibility store a listing and apply these operators to it.         *)
(*                                                                         *)
(* Instants are natural numbers.  A withdrawal's reason is left out: no    *)
(* decision reads it.                                                      *)
(***************************************************************************)
EXTENDS Integers

CONSTANTS
  None,        \* a null column or an absent value
  UndoWindow   \* UNDO_WINDOW_MS, in ticks of the model's clock

ASSUME ListingAssumption == UndoWindow \in Nat

-----------------------------------------------------------------------------
(* The five states.                                                        *)

Undoables == {None} \cup [previousConfirmedAt : Nat, confirmedAt : Nat]

DraftListings == [kind : {"draft"}]

PublishedListings ==
  [kind : {"published"}, publishedAt : Nat, confirmedAt : Nat,
   undoable : Undoables]

ReservedListings ==
  [kind : {"reserved"}, since : Nat, publishedAt : Nat, confirmedAt : Nat,
   undoable : Undoables]

AdoptedListings == [kind : {"adopted"}, adoptedAt : Nat]

WithdrawnListings == [kind : {"withdrawn"}, withdrawnAt : Nat]

Listings == DraftListings \cup PublishedListings \cup ReservedListings
              \cup AdoptedListings \cup WithdrawnListings

ListingKinds == {"draft", "published", "reserved", "adopted", "withdrawn"}

DiscoverableKinds == {"published", "reserved"}

Discoverable(l) == l.kind \in DiscoverableKinds

DraftListing == [kind |-> "draft"]

-----------------------------------------------------------------------------
(* Confirmations and their undo.                                           *)

UndoableAt(l, at) ==
  /\ l.undoable # None
  /\ l.undoable.confirmedAt = l.confirmedAt
  /\ at - l.undoable.confirmedAt <= UndoWindow

(* A second confirmation inside the window keeps the first one's previous  *)
(* instant, so an undo takes back the whole run of taps.                   *)
Confirmed(l, at) ==
  [l EXCEPT
     !.confirmedAt = at,
     !.undoable = [previousConfirmedAt |->
                     IF UndoableAt(l, at)
                     THEN l.undoable.previousConfirmedAt
                     ELSE l.confirmedAt,
                   confirmedAt |-> at]]

Unconfirmed(l) ==
  [l EXCEPT !.confirmedAt = l.undoable.previousConfirmedAt,
            !.undoable = None]

-----------------------------------------------------------------------------
(* The moves.                                                              *)

ListingEvents ==
  {"publish", "reserve", "release", "adopt", "withdraw", "restore_to_draft",
   "confirm", "undo_confirm"}

(* The events that leave no line in the shelter's history.                 *)
ConfirmationEvents == {"confirm", "undo_confirm"}

LegalEvents(kind) ==
  CASE kind = "draft"     -> {"publish"}
    [] kind = "published" -> {"reserve", "adopt", "withdraw", "confirm"}
    [] kind = "reserved"  -> {"release", "adopt", "withdraw", "confirm"}
    [] kind = "adopted"   -> {}
    [] kind = "withdrawn" -> {"restore_to_draft"}

(* The instants a state records; an event may not be dated before any of   *)
(* them.  A draft records none, so nothing is ever too old for it.         *)
InstantsOf(l) ==
  CASE l.kind = "draft"     -> {}
    [] l.kind = "published" -> {l.confirmedAt}
    [] l.kind = "reserved"  -> {l.since, l.confirmedAt}
    [] l.kind = "adopted"   -> {l.adoptedAt}
    [] l.kind = "withdrawn" -> {l.withdrawnAt}

Precedes(at, l) == \E instant \in InstantsOf(l) : at < instant

(* Mutant: a reservation that fell through restarts the wait.              *)
NextListingWaitReset(l, event, at) ==
  CASE event = "publish" ->
         [kind |-> "published", publishedAt |-> at, confirmedAt |-> at,
          undoable |-> None]
    [] event = "reserve" ->
         [kind |-> "reserved", since |-> at, publishedAt |-> l.publishedAt,
          confirmedAt |-> l.confirmedAt, undoable |-> None]
    [] event = "release" ->
         [kind |-> "published", publishedAt |-> at, confirmedAt |-> at,
          undoable |-> None]
    [] OTHER -> l

(* The state an event leads to, for an event transitionListing accepts.    *)
NextListing(l, event, at) ==
  CASE event = "publish" ->
         [kind |-> "published", publishedAt |-> at, confirmedAt |-> at,
          undoable |-> None]
    [] event = "reserve" ->
         [kind |-> "reserved", since |-> at, publishedAt |-> l.publishedAt,
          confirmedAt |-> l.confirmedAt, undoable |-> None]
    [] event = "release" ->
         [kind |-> "published", publishedAt |-> l.publishedAt,
          confirmedAt |-> l.confirmedAt, undoable |-> None]
    [] event = "adopt"    -> [kind |-> "adopted", adoptedAt |-> at]
    [] event = "withdraw" -> [kind |-> "withdrawn", withdrawnAt |-> at]
    [] event = "restore_to_draft" -> DraftListing
    [] event = "confirm"      -> Confirmed(l, at)
    [] event = "undo_confirm" -> Unconfirmed(l)

UndoVerdict(l, at) ==
  IF ~Discoverable(l) THEN "illegal"
  ELSE IF at < l.confirmedAt THEN "non_monotonic"
  ELSE IF ~UndoableAt(l, at) THEN "undo_expired"
  ELSE "ok"

(* Mutant: no ordering check.                                              *)
VerdictWithoutOrder(l, event, at) ==
  IF event = "undo_confirm" THEN UndoVerdict(l, at)
  ELSE IF event \notin LegalEvents(l.kind) THEN "illegal"
  ELSE "ok"

(* Legality before ordering, as the verification machine does it.          *)
Verdict(l, event, at) ==
  IF event = "undo_confirm" THEN UndoVerdict(l, at)
  ELSE IF event \notin LegalEvents(l.kind) THEN "illegal"
  ELSE IF Precedes(at, l) THEN "non_monotonic"
  ELSE "ok"

Verdicts == {"ok", "illegal", "non_monotonic", "undo_expired"}

-----------------------------------------------------------------------------
(* Mutant: the photo change's own instant, whatever came after it.         *)
AfterPhotoChangeOverwrites(l, at) ==
  IF Discoverable(l)
  THEN [l EXCEPT !.confirmedAt = at, !.undoable = None]
  ELSE l

(* A photo change counts as a confirmation of a card people can see: it    *)
(* never moves the date back, and whatever could be undone no longer can.  *)
AfterPhotoChange(l, at) ==
  IF Discoverable(l)
  THEN [l EXCEPT !.confirmedAt = IF at > l.confirmedAt THEN at
                                                       ELSE l.confirmedAt,
                 !.undoable = None]
  ELSE l

-----------------------------------------------------------------------------
(* The facts a card must have before it can be published, less the photo,  *)
(* which publishReadinessOf asks for separately.                           *)
PublishFacts == {"sex", "size", "age", "description"}

(* Of these, the ones the columns can hold as null.  A missing sex is      *)
(* stored as the value "unknown".                                          *)
NullableFacts == {"size", "age", "description"}

=============================================================================
