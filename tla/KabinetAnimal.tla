--------------------------- MODULE KabinetAnimal ---------------------------
(***************************************************************************)
(* One animal card and the kabinet requests that race to change it:        *)
(* apps/web/src/kabinet/handlers/{animals,photos}.ts over                  *)
(* packages/db/src/repos/kabinet-animal-repo.ts.                           *)
(*                                                                         *)
(* A request takes its instant once, when it arrives, then reads the row,  *)
(* decides, and writes with one compare-and-set statement; every await     *)
(* between these is a point where other requests' statements land.  A      *)
(* statement is atomic and its history line is part of it.  What the write *)
(* puts down is computed from the row as read, never from the row as       *)
(* written.  A tap or a photo change that loses its race reads again, with *)
(* its first instant; a form save does not.                                *)
(*                                                                         *)
(* Of the row, the model keeps what decisions compare: the listing, the    *)
(* form's version, which publish facts are missing, the photo list and     *)
(* whether first_published_at is set.  The shelter's rate limits, the      *)
(* ever_served_at column (CardVisibility) and the adopters' reveals are    *)
(* elsewhere.                                                              *)
(***************************************************************************)
EXTENDS Listing, Log, Sequences, FiniteSets

CONSTANTS
  Requests,          \* the slots in which the server runs requests
  PhotoKeys,         \* the storage keys an upload can draw
  OpTypes,           \* the procedures called, of those in AllOpTypes
  Events,            \* the listing events called for
  Patches,           \* the patches the form sends
  StartCards,        \* the rows the model can start from
  MaxPhotos,         \* MAX_ANIMAL_PHOTOS
  MaxTapAttempts,    \* MAX_ATTEMPTS of handlers/animals.ts
  MaxPhotoAttempts,  \* MAX_ATTEMPTS of handlers/photos.ts
  LostAnswers,       \* whether a landed statement's answer can get lost
  MaxRequests,       \* bound on the requests of a behaviour
  MaxClock           \* bound on the clock

AllOpTypes == {"tap", "edit", "add", "remove", "reorder", "delete"}

(* A card's row.  everPublic is "first_published_at is not null".          *)
Cards == [listing : Listings, version : Nat, missing : SUBSET PublishFacts,
          photos : Seq(PhotoKeys), everPublic : BOOLEAN]

(* The facts the form can empty again: a sex set back to "unknown" and a   *)
(* description set to null.                                                *)
ClearableFacts == {"sex", "description"}

(* What a form save sends: the facts it answers, the ones it empties, and  *)
(* whether some other field changes.                                       *)
AllPatches == [fills : SUBSET PublishFacts, clears : SUBSET ClearableFacts,
               other : BOOLEAN]

ASSUME KabinetAnimalAssumption ==
  /\ OpTypes \subseteq AllOpTypes
  /\ Events \subseteq ListingEvents
  /\ Patches \subseteq AllPatches
  /\ StartCards \subseteq Cards
  /\ MaxPhotos \in Nat \ {0}
  /\ MaxTapAttempts \in Nat \ {0}
  /\ MaxPhotoAttempts \in Nat \ {0}
  /\ LostAnswers \in BOOLEAN
  /\ MaxRequests \in Nat
  /\ MaxClock \in Nat
  /\ None \notin PhotoKeys

KeysOf(photos) == {photos[i] : i \in DOMAIN photos}

(* A row the program can hold when no request has run: a draft, or a card  *)
(* onboarded as published, which has every nullable fact and a photo; no   *)
(* photo is on it twice.                                                   *)
ASSUME StartCardsAssumption ==
  \A c \in StartCards :
    /\ c.version = 0
    /\ \/ c.listing = DraftListing /\ ~c.everPublic
       \/ /\ c.listing \in PublishedListings
          /\ c.listing.publishedAt <= c.listing.confirmedAt
          /\ c.listing.undoable = None
          /\ c.everPublic
          /\ c.missing \cap NullableFacts = {}
          /\ c.photos # <<>>
    /\ Len(c.photos) <= MaxPhotos
    /\ Cardinality(KeysOf(c.photos)) = Len(c.photos)

-----------------------------------------------------------------------------
(* Requests.                                                               *)

TapOps     == [type : {"tap"}, event : Events]
EditOps    == [type : {"edit"}, version : Nat, patch : Patches]
AddOps     == [type : {"add"}]
RemoveOps  == [type : {"remove"}, shown : Seq(PhotoKeys), at : Nat]
ReorderOps == [type : {"reorder"}, shown : Seq(PhotoKeys),
               wanted : Seq(PhotoKeys)]
DeleteOps  == [type : {"delete"}]

Ops == TapOps \cup EditOps \cup AddOps \cup RemoveOps \cup ReorderOps
         \cup DeleteOps

Answers ==
  {"none", "ok", "not_found", "illegal", "undo_expired", "clock_fault",
   "requirements_unmet", "conflict", "fact_required", "refused",
   "limit_reached", "photos_required", "upload_failed", "was_published",
   "gave_up", "unknown"}

(* now is fixed at arrival; seen is the row the last read returned; key is *)
(* the key an upload has stored its file under.                            *)
RequestStates ==
  [pc : {"idle", "read", "store", "write"}, op : Ops \cup {None}, now : Nat,
   attempt : Nat, seen : Cards \cup {None}, key : PhotoKeys \cup {None},
   answer : Answers]

IdleWith(answer) ==
  [pc |-> "idle", op |-> None, now |-> 0, attempt |-> 0, seen |-> None,
   key |-> None, answer |-> answer]

Lines ==
  [type : {"moved"}, from : ListingKinds, to : ListingKinds]
    \cup [type : {"edited"}, version : Nat]
    \cup [type : {"deleted"}]

VARIABLES
  exists,    \* whether the card's row is there
  card,      \* the row (its last contents once deleted)
  history,   \* the shelter's history lines about this card's moves and edits
  stored,    \* the keys some file was stored under
  orphaned,  \* the keys logged as photo_orphaned
  req,       \* the request in each slot
  clock,     \* the servers' clock
  started    \* requests begun so far

vars == <<exists, card, history, stored, orphaned, req, clock, started>>

Init ==
  /\ exists = TRUE
  /\ card \in StartCards
  /\ history = <<>>
  /\ stored = KeysOf(card.photos)
  /\ orphaned = {}
  /\ req = [r \in Requests |-> IdleWith("none")]
  /\ clock = 0
  /\ started = 0

-----------------------------------------------------------------------------
(* What each handler decides on the row it read: "write", or its answer.   *)

HasGaps(c) == c.missing # {} \/ c.photos = <<>>

TapDecision(c, event, now) ==
  LET verdict == Verdict(c.listing, event, now)
  IN  IF verdict = "non_monotonic" THEN "clock_fault"
      ELSE IF verdict # "ok" THEN verdict
      ELSE IF event = "publish" /\ HasGaps(c) THEN "requirements_unmet"
      ELSE "write"

MissingAfter(c, patch) == (c.missing \ patch.fills) \cup patch.clears

EditDecision(c, op) ==
  IF c.version # op.version THEN "conflict"
  ELSE IF c.listing.kind # "draft"
            /\ MissingAfter(c, op.patch) \cap ClearableFacts # {}
  THEN "fact_required"
  ELSE IF MissingAfter(c, op.patch) = c.missing /\ ~op.patch.other
  THEN "ok"
  ELSE "write"

(* Mutant: room for one more.                                              *)
AddDecisionOffByOne(c) ==
  IF Len(c.photos) > MaxPhotos THEN "limit_reached" ELSE "write"

AddDecision(c) ==
  IF Len(c.photos) >= MaxPhotos THEN "limit_reached" ELSE "write"

Without(photos, i) ==
  SubSeq(photos, 1, i - 1) \o SubSeq(photos, i + 1, Len(photos))

(* The photo list a request asks for, given the list it read.              *)
PhotosAfter(c, op, key) ==
  CASE op.type = "add"     -> Append(c.photos, key)
    [] op.type = "remove"  -> Without(c.photos, op.at)
    [] op.type = "reorder" -> op.wanted

RewriteDecision(c, op) ==
  IF c.photos # op.shown THEN "conflict"
  ELSE IF PhotosAfter(c, op, None) = <<>> /\ Discoverable(c.listing)
  THEN "photos_required"
  ELSE IF PhotosAfter(c, op, None) = c.photos THEN "ok"
  ELSE "write"

DeleteDecision(c) ==
  IF c.listing.kind # "draft" THEN "illegal"
  ELSE IF c.everPublic THEN "was_published"
  ELSE "write"

-----------------------------------------------------------------------------
(* The WHERE clause of each statement, on the row as it is now, for a      *)
(* request that read seen.                                                 *)

(* Mutant: a move that compares no listing.                                *)
TapMatchesAnyListing(seen, op) ==
  op.event = "publish" => /\ card.version = seen.version
                          /\ card.photos # <<>>

(* Mutant: a publish that trusts the photos it read.                       *)
TapMatchesAnyPhotos(seen, op) ==
  /\ card.listing = seen.listing
  /\ op.event = "publish" => card.version = seen.version

(* Mutant: a publish that compares no version.                             *)
TapMatchesAnyVersion(seen, op) ==
  /\ card.listing = seen.listing
  /\ op.event = "publish" => card.photos # <<>>

TapMatches(seen, op) ==
  /\ card.listing = seen.listing
  /\ op.event = "publish" => /\ card.version = seen.version
                             /\ card.photos # <<>>

(* Mutant: a cleared fact lands whatever the listing.                      *)
EditMatchesListed(seen, op) == card.version = seen.version

(* Mutant: a save that compares no version.                                *)
EditMatchesAnyVersion(seen, op) ==
  MissingAfter(seen, op.patch) \cap NullableFacts # {}
    => card.listing.kind = "draft"

EditMatches(seen, op) ==
  /\ card.version = seen.version
  /\ MissingAfter(seen, op.patch) \cap NullableFacts # {}
       => card.listing.kind = "draft"

(* Mutant: a photo change that compares no photo list.                     *)
PhotosMatchAnyList(seen) == card.listing = seen.listing

PhotosMatch(seen) ==
  /\ card.photos = seen.photos
  /\ card.listing = seen.listing

(* Mutant: a delete that looks only at the listing of the moment.          *)
DeleteMatchesOncePublic(seen) ==
  /\ card.listing.kind = "draft"
  /\ card.version = seen.version

DeleteMatches(seen) ==
  /\ card.listing.kind = "draft"
  /\ ~card.everPublic
  /\ card.version = seen.version

Matches(r) ==
  LET op == req[r].op  seen == req[r].seen
  IN  /\ exists
      /\ op.type = "tap"    => TapMatches(seen, op)
      /\ op.type = "edit"   => EditMatches(seen, op)
      /\ op.type = "delete" => DeleteMatches(seen)
      /\ op.type \in {"add", "remove", "reorder"} => PhotosMatch(seen)

-----------------------------------------------------------------------------
(* Steps.                                                                  *)

(* The request in slot r ends with this answer; a file it stored and that  *)
(* its failure leaves behind is logged.                                    *)
Answer(r, answer) == req' = [req EXCEPT ![r] = IdleWith(answer)]

LogOrphan(r) == orphaned' = orphaned \cup ({req[r].key} \ {None})

(* Mutant: a failure that leaves its stored file unlogged.                 *)
AnswerFailedUnlogged(r, answer) == Answer(r, answer) /\ UNCHANGED orphaned

AnswerFailed(r, answer) == Answer(r, answer) /\ LogOrphan(r)

Tick ==
  /\ clock < MaxClock
  /\ clock' = clock + 1
  /\ UNCHANGED <<exists, card, history, stored, orphaned, req, started>>

(* A request arrives.  The form names a version, and the photo screen a    *)
(* photo list, that the row had when the page was read.                    *)
Arrives(r, op) ==
  /\ req[r].pc = "idle"
  /\ op.type \in OpTypes
  /\ started < MaxRequests
  /\ started' = started + 1
  /\ req' = [req EXCEPT ![r] = [pc |-> "read", op |-> op, now |-> clock,
                               attempt |-> 1, seen |-> None, key |-> None,
                               answer |-> "none"]]
  /\ UNCHANGED <<exists, card, history, stored, orphaned, clock>>

TapArrives(r) ==
  \E event \in Events : Arrives(r, [type |-> "tap", event |-> event])

EditArrives(r) ==
  \E patch \in Patches, version \in 0 .. card.version :
    Arrives(r, [type |-> "edit", version |-> version, patch |-> patch])

AddArrives(r) == Arrives(r, [type |-> "add"])

RemoveArrives(r) ==
  \E i \in DOMAIN card.photos :
    Arrives(r, [type |-> "remove", shown |-> card.photos, at |-> i])

ReorderArrives(r) ==
  \E wanted \in [1 .. Len(card.photos) -> KeysOf(card.photos)] :
    /\ KeysOf(wanted) = KeysOf(card.photos)
    /\ Arrives(r, [type |-> "reorder", shown |-> card.photos,
                   wanted |-> wanted])

DeleteArrives(r) == Arrives(r, [type |-> "delete"])

-----------------------------------------------------------------------------
(* Reading: owned() and what the handler decides on the row it returns.    *)

Reading(r, types) == req[r].pc = "read" /\ req[r].op.type \in types

FindsNothing(r) ==
  /\ req[r].pc = "read"
  /\ ~exists
  /\ AnswerFailed(r, "not_found")
  /\ UNCHANGED <<exists, card, history, stored, clock, started>>

(* The handler goes on to its next step, or answers.                       *)
Decides(r, decision, nextStep) ==
  /\ exists
  /\ \/ /\ decision = "write"
        /\ req' = [req EXCEPT ![r].pc = nextStep, ![r].seen = card]
        /\ UNCHANGED orphaned
     \/ /\ decision # "write"
        /\ AnswerFailed(r, decision)
  /\ UNCHANGED <<exists, card, history, stored, clock, started>>

TapReads(r) ==
  /\ Reading(r, {"tap"})
  /\ Decides(r, TapDecision(card, req[r].op.event, req[r].now), "write")

EditReads(r) ==
  /\ Reading(r, {"edit"})
  /\ Decides(r, EditDecision(card, req[r].op), "write")

(* A patch may also name a medical fact the registry confirmed, or an age  *)
(* out of range: refused for what the model leaves out of the row.         *)
EditRefused(r) ==
  /\ Reading(r, {"edit"})
  /\ exists
  /\ card.version = req[r].op.version
  /\ AnswerFailed(r, "refused")
  /\ UNCHANGED <<exists, card, history, stored, clock, started>>

(* An upload's first read comes before its file is processed and stored;   *)
(* once stored, it only reads again after losing a race.                   *)
AddReads(r) ==
  /\ Reading(r, {"add"})
  /\ Decides(r, AddDecision(card),
             IF req[r].key = None THEN "store" ELSE "write")

RewriteReads(r) ==
  /\ Reading(r, {"remove", "reorder"})
  /\ Decides(r, RewriteDecision(card, req[r].op), "write")

DeleteReads(r) ==
  /\ Reading(r, {"delete"})
  /\ Decides(r, DeleteDecision(card), "write")

-----------------------------------------------------------------------------
(* Storing an upload under a fresh key.                                    *)

AddStores(r) ==
  /\ req[r].pc = "store"
  /\ \E key \in PhotoKeys \ stored :
       /\ stored' = stored \cup {key}
       /\ req' = [req EXCEPT ![r].pc = "write", ![r].key = key]
  /\ UNCHANGED <<exists, card, history, orphaned, clock, started>>

(* The file is refused, or its processing passes the budget: nothing is    *)
(* stored and nothing logged.                                              *)
AddRejected(r) ==
  /\ req[r].pc = "store"
  /\ Answer(r, "upload_failed")
  /\ UNCHANGED <<exists, card, history, stored, orphaned, clock, started>>

(* The storage fails after some of the variants: the key is logged.        *)
AddStoreFails(r) ==
  /\ req[r].pc = "store"
  /\ \E key \in PhotoKeys \ stored :
       /\ stored' = stored \cup {key}
       /\ orphaned' = orphaned \cup {key}
  /\ Answer(r, "upload_failed")
  /\ UNCHANGED <<exists, card, history, clock, started>>

-----------------------------------------------------------------------------
(* Writing: one statement, which matches the row and changes it with its   *)
(* history line, or matches nothing.                                       *)

Writing(r, types) ==
  /\ req[r].pc = "write"
  /\ req[r].op.type \in types
  /\ Matches(r)

(* The answer to a landed statement reaches the handler, or is lost on the *)
(* way, which the handler cannot tell from a statement that failed.        *)
Settles(r) ==
  \/ Answer(r, "ok") /\ UNCHANGED orphaned
  \/ LostAnswers /\ AnswerFailed(r, "unknown")

TapWrites(r) ==
  /\ Writing(r, {"tap"})
  /\ LET op   == req[r].op
         from == req[r].seen.listing
         next == NextListing(from, op.event, req[r].now)
     IN  /\ card' = [card EXCEPT !.listing = next,
                                 !.everPublic = @ \/ Discoverable(next)]
         /\ history' = IF op.event \in ConfirmationEvents THEN history
                       ELSE Append(history, [type |-> "moved",
                                             from |-> from.kind,
                                             to   |-> next.kind])
  /\ Settles(r)
  /\ UNCHANGED <<exists, stored, clock, started>>

EditWrites(r) ==
  /\ Writing(r, {"edit"})
  /\ LET seen == req[r].seen
     IN  /\ card' = [card EXCEPT
                       !.missing = MissingAfter(seen, req[r].op.patch),
                       !.version = @ + 1]
         /\ history' = Append(history, [type |-> "edited",
                                        version |-> seen.version])
  /\ Settles(r)
  /\ UNCHANGED <<exists, stored, clock, started>>

(* A photo change's line names only the field, and is left out.            *)
PhotosWrite(r) ==
  /\ Writing(r, {"add", "remove", "reorder"})
  /\ LET seen == req[r].seen
     IN  card' = [card EXCEPT
                    !.photos = PhotosAfter(seen, req[r].op, req[r].key),
                    !.listing = AfterPhotoChange(seen.listing, req[r].now)]
  /\ Settles(r)
  /\ UNCHANGED <<exists, history, stored, clock, started>>

DeleteWrites(r) ==
  /\ Writing(r, {"delete"})
  /\ exists' = FALSE
  /\ history' = Append(history, [type |-> "deleted"])
  /\ Settles(r)
  /\ UNCHANGED <<card, stored, clock, started>>

MaxAttempts(op) ==
  IF op.type \in {"add", "remove", "reorder"} THEN MaxPhotoAttempts
                                              ELSE MaxTapAttempts

(* Mutant: a retry that neither reads again nor counts.                    *)
LosesRaceSpins(r) ==
  /\ req[r].pc = "write"
  /\ ~Matches(r)
  /\ UNCHANGED vars

(* Another statement came first.  A form save is told; the others read     *)
(* again, with the instant they arrived at, until they run out of tries.   *)
LosesRace(r) ==
  /\ req[r].pc = "write"
  /\ ~Matches(r)
  /\ \/ /\ req[r].op.type = "edit"
        /\ AnswerFailed(r, "conflict")
     \/ /\ req[r].op.type # "edit"
        /\ req[r].attempt < MaxAttempts(req[r].op)
        /\ req' = [req EXCEPT ![r].pc = "read", ![r].attempt = @ + 1,
                              ![r].seen = None]
        /\ UNCHANGED orphaned
     \/ /\ req[r].op.type # "edit"
        /\ req[r].attempt >= MaxAttempts(req[r].op)
        /\ AnswerFailed(r, "gave_up")
  /\ UNCHANGED <<exists, card, history, stored, clock, started>>

-----------------------------------------------------------------------------

ArriveSome(r) ==
  \/ TapArrives(r)    \/ EditArrives(r)    \/ AddArrives(r)
  \/ RemoveArrives(r) \/ ReorderArrives(r) \/ DeleteArrives(r)

(* What the server does next for the request in slot r.                    *)
Serve(r) ==
  \/ FindsNothing(r)
  \/ TapReads(r)   \/ EditReads(r)    \/ EditRefused(r) \/ AddReads(r)
  \/ RewriteReads(r) \/ DeleteReads(r)
  \/ AddStores(r)  \/ AddRejected(r)  \/ AddStoreFails(r)
  \/ TapWrites(r)  \/ EditWrites(r)   \/ PhotosWrite(r) \/ DeleteWrites(r)
  \/ LosesRace(r)

(* Every request has been answered and no other may begin.                 *)
Finished ==
  /\ started = MaxRequests
  /\ \A r \in Requests : req[r].pc = "idle"
  /\ UNCHANGED vars

Next == Tick \/ (\E r \in Requests : ArriveSome(r) \/ Serve(r)) \/ Finished

Spec == Init /\ [][Next]_vars

(* A request the server took in keeps running: its function is scheduled   *)
(* and each statement it awaits comes back.  Nothing makes one arrive.     *)
FairSpec == Spec /\ \A r \in Requests : WF_vars(Serve(r))

-----------------------------------------------------------------------------
TypeOK ==
  /\ exists \in BOOLEAN
  /\ card \in Cards
  /\ history \in Seq(Lines)
  /\ stored \subseteq PhotoKeys
  /\ orphaned \subseteq PhotoKeys
  /\ req \in [Requests -> RequestStates]
  /\ clock \in Nat
  /\ started \in Nat

-----------------------------------------------------------------------------
(* Safety.                                                                 *)

(* A card that has left draft has a size, an age and a description: the    *)
(* database's CHECK constraint, which isCheckViolation's comment says no   *)
(* planned write ever fires, whatever edit, publish and restore overlap.   *)
ListedHasFacts ==
  card.listing.kind # "draft" => card.missing \cap NullableFacts = {}

(* A card adopters can see has a photo: no publish lands on a list emptied *)
(* after it was planned, and no removal of the last photo lands after a    *)
(* publish it did not see (K3-T7).                                         *)
VisibleHasPhoto == Discoverable(card.listing) => card.photos # <<>>

(* The instants of a visible card stay in order whatever old request       *)
(* lands: waiting since before the reservation and the confirmation, and   *)
(* what an undo would put back lies between the two.                       *)
InstantsInOrder ==
  Discoverable(card.listing) =>
    LET l == card.listing
    IN  /\ l.publishedAt <= l.confirmedAt
        /\ l.kind = "reserved" => l.publishedAt <= l.since
        /\ l.undoable # None =>
             /\ l.publishedAt <= l.undoable.previousConfirmedAt
             /\ l.undoable.previousConfirmedAt <= l.confirmedAt
             /\ l.undoable.confirmedAt = l.confirmedAt

(* A deleted card had never been public, not even between the delete's     *)
(* read and its write: no move of it was ever recorded (HS-Q9).            *)
DeletedNeverPublic ==
  ~exists => /\ ~card.everPublic
             /\ \A i \in DOMAIN history : history[i].type # "moved"

(* However many uploads overlap, a card never holds more photos than       *)
(* MAX_ANIMAL_PHOTOS, nor one twice (K-Q11).                               *)
PhotoLimit ==
  /\ Len(card.photos) <= MaxPhotos
  /\ Cardinality(KeysOf(card.photos)) = Len(card.photos)

LinesOf(type) == {i \in DOMAIN history : history[i].type = type}

(* The recorded moves chain from kind to kind and end at the card's: no    *)
(* lost race is recorded and no landed move is missing (K-Q7).             *)
HistoryChains ==
  LET moves == LinesOf("moved")
  IN  /\ \A i, j \in moves :
           Follows(moves, i, j) => history[i].to = history[j].from
      /\ \A i \in moves :
           IsLast(moves, i) => history[i].to = card.listing.kind

(* No two form saves were made from the same version: each recorded edit   *)
(* started where the one before it ended (S3-T6).                          *)
EditsSerial ==
  LET edits == LinesOf("edited")
  IN  /\ edits = {} => card.version = 0
      /\ \A i \in edits :
           /\ (\A k \in edits : i <= k) => history[i].version = 0
           /\ IsLast(edits, i) => history[i].version + 1 = card.version
      /\ \A i, j \in edits :
           Follows(edits, i, j) => history[j].version = history[i].version + 1

(* A statement's own conditions never refuse a plan made on the row as it  *)
(* still is: only another request's landed write makes one lose.           *)
FreshPlanLands ==
  \A r \in Requests :
    req[r].pc = "write" /\ exists /\ req[r].seen = card => Matches(r)

-----------------------------------------------------------------------------
(* What a step may never do.                                               *)

(* The confirmation date of a card that stays visible goes back only by an *)
(* undo, to the very instant stored for it, within the window after the    *)
(* confirmation it takes back, and only once (H2-16).                      *)
ConfirmationFallsOnlyByUndo ==
  [][ /\ Discoverable(card.listing)
      /\ Discoverable(card'.listing)
      /\ card'.listing.confirmedAt < card.listing.confirmedAt
      => \E r \in Requests :
           /\ req[r].pc = "write"
           /\ req[r].op = [type |-> "tap", event |-> "undo_confirm"]
           /\ req[r].now - card.listing.confirmedAt <= UndoWindow
           /\ card.listing.undoable # None
           /\ card'.listing.confirmedAt =
                card.listing.undoable.previousConfirmedAt
           /\ card'.listing.undoable = None ]_vars

(* A photo leaves a card only by a removal that names it, and one that was *)
(* shown the list as it stands: no overlapping upload, reorder or removal  *)
(* planned on an older list drops another's photo (P-Q3).                  *)
PhotoLeavesOnlyByRemoval ==
  [][ \A key \in KeysOf(card.photos) \ KeysOf(card'.photos) :
        \E r \in Requests :
          /\ req[r].pc = "write"
          /\ req[r].op.type = "remove"
          /\ req[r].op.shown = card.photos
          /\ req[r].op.shown[req[r].op.at] = key ]_vars

(* A card that stays visible keeps waiting since the same instant: neither *)
(* a reservation nor its falling through resets the wait (decision #16).   *)
WaitClockKept ==
  [][ Discoverable(card.listing) /\ Discoverable(card'.listing)
      => card'.listing.publishedAt = card.listing.publishedAt ]_vars

(* When every landed statement is answered, an upload leaves its file on   *)
(* the card or in the log of orphans, never on both and never on neither:  *)
(* whatever race, limit or deletion ended it (P-Q4).                       *)
UploadsSettled ==
  [][ \A r \in Requests :
        req[r].key # None /\ req'[r].key # req[r].key =>
          ( req[r].key \in KeysOf(card'.photos)
              <=> req[r].key \notin orphaned' ) ]_vars

(* The row seen on its own lives by CardLife.                              *)
Life == INSTANCE CardLife WITH
  there       <- exists,
  kind        <- card.listing.kind,
  complete    <- card.missing \cap NullableFacts = {},
  illustrated <- card.photos # <<>>,
  everPublic  <- card.everPublic

(* Whatever requests overlap, each statement that lands is one step of the *)
(* card's life or none: the lifecycle's edges, publishing only a complete  *)
(* and illustrated draft, never emptying a public card, never deleting one *)
(* that was public.                                                        *)
ImplementsCardLife == Life!Spec

-----------------------------------------------------------------------------
(* Liveness, under FairSpec.                                               *)

(* Every request the server takes in is answered: a request that keeps     *)
(* losing its race gives up after its attempts.                            *)
EveryRequestAnswered ==
  \A r \in Requests : req[r].pc # "idle" ~> req[r].pc = "idle"

-----------------------------------------------------------------------------
(* What comments in the source say, and some behaviour contradicts.        *)

(* handlers/animals.ts, on a form save: "unknown" is the value "a listed   *)
(* card must never drift back to" (SF-F1).                                 *)
SexKnownWhileListed ==
  card.listing.kind # "draft" => "sex" \notin card.missing

=============================================================================
