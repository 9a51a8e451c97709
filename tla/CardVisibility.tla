--------------------------- MODULE CardVisibility ---------------------------
(***************************************************************************)
(* What the public sees of one shelter's cards, and the two columns of     *)
(* `animals` that statements about the shelter also write:                 *)
(* everServedAt, whether a card was ever shown, and cityId, the city it is *)
(* found in.  Listing moves (kabinet-animal-repo.ts) and the shelter's     *)
(* writes (kabinet-shelter-repo.ts) meet here.                             *)
(*                                                                         *)
(* Production runs each write as one Postgres statement at READ COMMITTED. *)
(* A statement reads the rows committed when it began.  A row it goes on   *)
(* to update must have matched then, and is checked again as it now is;    *)
(* whatever it reads of other tables stays as it was when it began.  So a  *)
(* statement is two steps here, Begins and Lands or Misses.                *)
(*                                                                         *)
(* Two statements that overlap can each miss what the other writes: raced  *)
(* collects the cards this can have happened to, so that a promise which   *)
(* an overlap breaks is still stated of every other card.                  *)
(*                                                                         *)
(* The evidence, the count of periods, a publish's facts and photos and    *)
(* the history are checked in KabinetShelter and KabinetAnimal, and are    *)
(* taken as met here.                                                      *)
(***************************************************************************)
EXTENDS Verification

CONSTANTS
  UndoWindow,    \* UNDO_WINDOW_MS
  Cards,         \* animals of the shelter, or to be
  Fostered,      \* those that live elsewhere, in a city of their own
  Cities,
  Requests,      \* the slots in which the servers run requests
  OpTypes,       \* the procedures called, of those in AllOpTypes
  Moves,         \* the verification events called for
  ListingMoves,  \* the listing events called for
  StartShelters, \* the shelters the model can start from
  StartCards,    \* the cards each card can start as
  MaxAttempts,   \* MAX_ATTEMPTS of the handlers
  MaxRequests,   \* bound on the requests of a behaviour
  MaxClock       \* bound on the clock

L == INSTANCE Listing

AllOpTypes == {"create", "listing", "move", "allow", "revoke", "address"}

Shelters ==
  [verification : Verifications, early : Nat \cup {None}, city : Cities,
   version : Nat]

NoCard == [listing |-> None, city |-> None, servedAt |-> None]

CardRows ==
  {NoCard} \cup [listing : L!Listings, city : Cities,
                 servedAt : Nat \cup {None}]

ASSUME CardVisibilityAssumption ==
  /\ UndoWindow \in Nat
  /\ Fostered \subseteq Cards
  /\ OpTypes \subseteq AllOpTypes
  /\ Moves \subseteq VerificationEvents
  /\ ListingMoves \subseteq L!ListingEvents
  /\ StartShelters \subseteq Shelters
  /\ StartCards \subseteq CardRows
  /\ {MaxAttempts, MaxRequests, MaxClock} \subseteq Nat
  /\ None \notin Nat \cup Cities \cup L!Listings

-----------------------------------------------------------------------------
(* Who is shown.                                                           *)

Listed(shelterRow, now) ==
  \/ shelterRow.verification.status = "verified"
  \/ EarlyRuns(shelterRow.verification, shelterRow.early, now)

Exists(card) == card.listing # None

OnShow(card) == Exists(card) /\ L!Discoverable(card.listing)

-----------------------------------------------------------------------------

ListingOps == [type : {"listing"}, card : Cards, event : ListingMoves]
CreateOps  == [type : {"create"}, card : Cards]
MoveOps    == [type : {"move"}, event : Moves]
AddressOps == [type : {"address"}, city : Cities]
PlainOps   == [type : {"allow", "revoke"}]

Ops == ListingOps \cup CreateOps \cup MoveOps \cup AddressOps \cup PlainOps

VARIABLES
  shelter,  \* the committed row of the shelter
  cards,    \* the committed row of each card
  req,      \* the request in each slot
  shown,    \* the cards the public has been able to see
  raced,    \* the cards written while a shelter's statement was open
  clock,    \* the servers' clock
  started   \* requests begun so far

vars == <<shelter, cards, req, shown, raced, clock, started>>

Db == [shelter |-> shelter, cards |-> cards]

Idle == [pc |-> "idle", op |-> None, now |-> 0, attempt |-> 0, seen |-> None,
         snap |-> None]

Visible(db, now) ==
  IF Listed(db.shelter, now) THEN {c \in Cards : OnShow(db.cards[c])} ELSE {}

Init ==
  /\ shelter \in StartShelters
  /\ cards \in [Cards -> StartCards]
  /\ req = [r \in Requests |-> Idle]
  /\ clock = 0
  /\ shown = Visible(Db, clock)
  /\ raced = {}
  /\ started = 0
  /\ \A c \in shown : cards[c].servedAt # None
  /\ \A c \in Cards \ Fostered :
       Exists(cards[c]) => cards[c].city = shelter.city

-----------------------------------------------------------------------------
(* Requests.                                                               *)

Tick ==
  /\ clock < MaxClock
  /\ clock' = clock + 1
  /\ UNCHANGED <<shelter, cards, req, shown, raced, started>>

Arrives(r, op) ==
  /\ req[r].pc = "idle"
  /\ op.type \in OpTypes
  /\ started < MaxRequests
  /\ started' = started + 1
  /\ req' = [req EXCEPT ![r] = [Idle EXCEPT !.pc = "read", !.op = op,
                                            !.now = clock, !.attempt = 1]]
  /\ UNCHANGED <<shelter, cards, shown, raced, clock>>

Ends(r) == req' = [req EXCEPT ![r] = Idle]

(* Whether the handler goes on to write, of the rows as it reads them.     *)
Allowed(op, now) ==
  CASE op.type = "create"  -> ~Exists(cards[op.card])
    [] op.type = "listing" ->
         /\ Exists(cards[op.card])
         /\ L!Verdict(cards[op.card].listing, op.event, now) = "ok"
    [] op.type = "move"    ->
         MoveVerdict(shelter.verification, op.event, now) = "ok"
    [] op.type = "allow"   ->
         /\ shelter.verification.status \in OpenStatuses
         /\ ~Listed(shelter, now)
    [] op.type = "revoke"  ->
         EarlyRuns(shelter.verification, shelter.early, now)
    [] op.type = "address" -> op.city # shelter.city

(* What the handler plans on: the listing, the shelter's city, its row.    *)
Seen(op) ==
  CASE op.type = "create"  -> shelter.city
    [] op.type = "listing" -> cards[op.card].listing
    [] op.type \in {"move", "allow", "revoke", "address"} -> shelter

(* A card whose move runs, or that is being created with the city its      *)
(* request read, while a statement about the shelter runs.                 *)
Racing(requests) ==
  LET Runs(r) == requests[r].pc = "running"
  IN  {c \in Cards : \E r, s \in Requests :
         /\ requests[r].op \in ListingOps \cup CreateOps
         /\ requests[r].op.card = c
         /\ \/ Runs(r)
            \/ requests[r].op.type = "create" /\ requests[r].pc = "planned"
         /\ requests[s].op \in MoveOps \cup AddressOps \cup PlainOps
         /\ Runs(s)}

Reads(r) ==
  /\ req[r].pc = "read"
  /\ LET op == req[r].op
     IN  IF Allowed(op, req[r].now)
         THEN req' = [req EXCEPT ![r].pc = "planned", ![r].seen = Seen(op)]
         ELSE Ends(r)
  /\ raced' = raced \cup Racing(req')
  /\ UNCHANGED <<shelter, cards, shown, clock, started>>

-----------------------------------------------------------------------------
(* Statements.                                                             *)

Begins(r) ==
  /\ req[r].pc = "planned"
  /\ req' = [req EXCEPT ![r].pc = "running", ![r].snap = Db]
  /\ raced' = raced \cup Racing(req')
  /\ UNCHANGED <<shelter, cards, shown, clock, started>>

(* Whether the row the plan was made on is still there to be written.  An  *)
(* insert compares nothing.                                                *)
Matches(db, op, seen) ==
  CASE op.type = "create"  -> TRUE
    [] op.type = "listing" -> db.cards[op.card].listing = seen
    [] op.type \in {"move", "allow", "revoke", "address"} ->
         db.shelter.version = seen.version

(* Mutant: a publish that does not ask about the shelter.                  *)
MovedCardUnasked(card, next, now, db) ==
  [card EXCEPT
     !.listing = next,
     !.servedAt = IF L!Discoverable(next) /\ @ = None THEN now ELSE @]

(* A move into a listing on show stamps its card, unless it has a stamp,   *)
(* when the shelter is listed in the statement's own reading.              *)
MovedCard(card, next, now, db) ==
  [card EXCEPT
     !.listing = next,
     !.servedAt = IF L!Discoverable(next) /\ @ = None /\ Listed(db.shelter, now)
                  THEN now ELSE @]

(* The shelter as a write leaves it; the permission is decided by the      *)
(* row's own status.                                                       *)
ShelterAfter(op, seen, now) ==
  LET bumped == [shelter EXCEPT !.version = @ + 1]
      next   == NextVerification(seen.verification, op.event, now)
  IN  CASE op.type = "move" ->
             [bumped EXCEPT
                !.verification = next,
                !.early = IF KeepsEarlyListing(shelter.verification.status,
                                               next.status)
                          THEN @ ELSE None]
        [] op.type = "allow"   -> [bumped EXCEPT !.early = now]
        [] op.type = "revoke"  -> [bumped EXCEPT !.early = None]
        [] op.type = "address" -> [bumped EXCEPT !.city = op.city]

(* Mutant: only an approval stamps.                                        *)
StampsOnApproval(op, seen, now) == op.type = "move" /\ op.event = "approve"

Stamps(op, seen, now) ==
  \/ op.type = "allow"
  \/ /\ op.type = "move"
     /\ NextVerification(seen.verification, op.event, now).status = "verified"

Unstamped(card) == OnShow(card) /\ card.servedAt = None

(* Mutant: an address move that reaches only the cards on show.            *)
CardsAfterMovesShown(op, seen, now, snap) ==
  [c \in Cards |->
     IF op.type = "address" /\ OnShow(snap.cards[c]) /\ c \notin Fostered
     THEN [cards[c] EXCEPT !.city = op.city] ELSE cards[c]]

(* The same statement stamps the cards on show that have no stamp, or      *)
(* moves the cards that live at the shelter to its new city.               *)
CardsAfter(op, seen, now, snap) ==
  [c \in Cards |->
     CASE /\ Stamps(op, seen, now)
          /\ Unstamped(snap.cards[c])
          /\ Unstamped(cards[c])
            -> [cards[c] EXCEPT !.servedAt = now]
       [] /\ op.type = "address"
          /\ Exists(snap.cards[c])
          /\ c \notin Fostered
            -> [cards[c] EXCEPT !.city = op.city]
       [] OTHER -> cards[c]]

Writable(r) ==
  /\ req[r].pc = "running"
  /\ Matches(req[r].snap, req[r].op, req[r].seen)
  /\ Matches(Db, req[r].op, req[r].seen)

Lands(r) ==
  LET q == req[r]
  IN  /\ Writable(r)
      /\ \/ /\ q.op.type = "create"
            /\ cards' = [cards EXCEPT ![q.op.card] =
                           [listing |-> L!DraftListing, city |-> q.seen,
                            servedAt |-> None]]
            /\ UNCHANGED shelter
         \/ /\ q.op.type = "listing"
            /\ cards' = [cards EXCEPT ![q.op.card] =
                           MovedCard(@, L!NextListing(q.seen, q.op.event,
                                                      q.now),
                                     q.now, q.snap)]
            /\ UNCHANGED shelter
         \/ /\ q.op.type \in {"move", "allow", "revoke", "address"}
            /\ shelter' = ShelterAfter(q.op, q.seen, q.now)
            /\ cards' = CardsAfter(q.op, q.seen, q.now, q.snap)
      /\ shown' = shown \cup Visible([shelter |-> shelter', cards |-> cards'],
                                     clock)
      /\ Ends(r)
      /\ UNCHANGED <<raced, clock, started>>

(* A form is told of the conflict; a tap reads again, until it gives up.   *)
Misses(r) ==
  /\ req[r].pc = "running"
  /\ ~Writable(r)
  /\ IF req[r].op.type = "address" \/ req[r].attempt >= MaxAttempts
     THEN Ends(r)
     ELSE req' = [req EXCEPT ![r].pc = "read", ![r].attempt = @ + 1,
                             ![r].seen = None, ![r].snap = None]
  /\ UNCHANGED <<shelter, cards, shown, raced, clock, started>>

-----------------------------------------------------------------------------

(* A new draft has an id of its own: no two requests create one card.      *)
ArriveSome(r) ==
  \E op \in Ops :
    /\ op.type = "create" => /\ ~Exists(cards[op.card])
                             /\ \A s \in Requests : req[s].op # op
    /\ Arrives(r, op)

Serve(r) == Reads(r) \/ Begins(r) \/ Lands(r) \/ Misses(r)

Finished ==
  /\ started = MaxRequests
  /\ \A r \in Requests : req[r].pc = "idle"
  /\ UNCHANGED vars

Next == Tick \/ (\E r \in Requests : ArriveSome(r) \/ Serve(r)) \/ Finished

Spec == Init /\ [][Next]_vars

RequestStates ==
  [pc : {"idle", "read", "planned", "running"}, op : Ops \cup {None},
   now : Nat, attempt : Nat, seen : {None} \cup Shelters \cup L!Listings \cup Cities,
   snap : {None} \cup [shelter : Shelters, cards : [Cards -> CardRows]]]

TypeOK ==
  /\ shelter \in Shelters
  /\ cards \in [Cards -> CardRows]
  /\ req \in [Requests -> RequestStates]
  /\ shown \subseteq Cards
  /\ raced \subseteq Cards
  /\ clock \in Nat
  /\ started \in Nat

-----------------------------------------------------------------------------
(* Safety.                                                                 *)

(* A card the public has seen is stamped: the page of one stays reachable  *)
(* while its shelter is paused, and a saved one that is gone keeps its     *)
(* name.  Only statements that overlapped can have missed it.              *)
ShownIsStamped == \A c \in shown \ raced : cards[c].servedAt # None

(* The same of every card: "every one of that shelter's                    *)
(* currently-discoverable, not-yet-stamped animals gets it in the same     *)
(* statement".                                                             *)
EveryShownIsStamped == \A c \in shown : cards[c].servedAt # None

(* An animal at its shelter is found in the shelter's city: "their         *)
(* `city_id` mirrors the shelter's".  Only one created while the shelter   *)
(* moved can be left behind.                                               *)
CityMirrors ==
  \A c \in Cards \ (Fostered \cup raced) :
    Exists(cards[c]) => cards[c].city = shelter.city

-----------------------------------------------------------------------------
(* What a step may never do.                                               *)

(* Even when statements overlap, a stamp says the card was on show and its *)
(* shelter listed at the request's instant, in what the statement read or  *)
(* in what it wrote.                                                       *)
StampHasGrounds ==
  [][ \A c \in Cards :
        cards'[c].servedAt # cards[c].servedAt =>
          /\ OnShow(cards'[c])
          /\ \E r \in Requests :
               /\ req[r].pc = "running"
               /\ \/ Listed(req[r].snap.shelter, req[r].now)
                  \/ Listed(shelter', req[r].now) ]_vars

=============================================================================
