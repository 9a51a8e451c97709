# opika, verified: the records behind the registry of shelters

A TLA+ verification development for opika, the registry of Ukrainian animal
shelters. It models what the code does when several requests change one record,
count or file at a time, checks the models with TLC on small instances, and
proves most of what it checks with TLAPS for every instance.

Paths below are relative to the repository. In a module, a name in the source
keeps its name where TLA+ allows; the comments cite the decision numbers
(`K-Q5`, `IN-T12`, ...) the source cites.

Contents: [the system](#the-system), [hard behaviours](#hard-behaviours),
[the modules](#the-modules), [the runs](#the-runs), [findings](#what-the-runs-found),
[proofs](#what-is-proved), [what is left out](#what-is-not-modelled),
[plan](#plan), [running it](#running-it).

## The system

A TypeScript monorepo: `apps/web` (a Next.js site, its public API and the
kabinet's RPC), `packages/domain` (pure state machines and rules),
`packages/db` (repositories over Postgres), `packages/contracts`,
`packages/i18n`, `packages/ui`.

One fact shapes every module here: production talks to Postgres over neon-http,
which has **no interactive transactions**. Each SQL statement is atomic and
runs at READ COMMITTED; a handler reads a row, decides in TypeScript, and
writes with one statement whose WHERE clause compares what it read. Between any
two statements other requests' statements land. A handler takes its instant
(`now`) once, when the request arrives, and keeps it through every retry.

| Component | State it keeps | Operations | What makes it correct |
|---|---|---|---|
| Animal listing lifecycle (`domain/src/animals`) | none: pure functions on a listing | nine events, undo window, clock check, photo and readiness rules | instants stay in order, an undo gives back exactly what was there, a reservation does not reset the wait |
| Animal card (`handlers/animals.ts`, `handlers/photos.ts`, `kabinet-animal-repo.ts`) | the row: listing, form version, facts, photos, first publication | taps, undo, save, photo add, remove, reorder, draft delete | nothing visible is incomplete, nothing once public is deleted, no landed change is lost or repeated |
| Verification machine (`domain/src/shelters/verification`) | none: pure functions | eight events over six statuses, evidence policy, early listing | approval needs evidence and is kept through pauses and suspensions |
| Shelter record (`handlers/profile.ts`, `handlers/registry-writes.ts`, `kabinet-shelter-repo.ts`) | the row, its version, evidence, proposals, history | verification moves, evidence, two forms, proposals, logo, early listing | the history tells what happened; a decision is about what was seen |
| Public visibility (`feed-predicate.ts` and the two repositories) | `ever_served_at` and `city_id` of each card | publish, approve, pause, allow, move house | what the public saw is stamped, once, and every card is in its shelter's city |
| Invitations and admins (`kabinet-invitation-*.ts`, `registry-invitations.ts`, `admin-erasure-repo.ts`) | account, membership, invitations, organization | invite, resend, remove, accept, erase, clean up | one person, one role; nobody comes back uninvited; an erasure is complete |
| Operators (`super-admin-repo.ts`) | grants | bootstrap, grant, revoke | never also an admin |
| Password sign-in (`sign-in-race.ts`, `invite-password.ts`) | credential, sessions, invitation link | sign in, reset, change, set | no session outlives the password it was made with |
| Sign-in delay (`password-limits.ts`) | a count and a gate in a shared store | charge, clear, expire | each attempt waits out the one before it; nobody is shut out for good |
| Contact reveal (`reveal-repo.ts`) | reveals | reveal | the budget holds, one animal is charged once |
| Photo storage clean-up (`r2-cleanup-run.ts`) | objects, tracking rows, snapshots | scan, track, re-check, delete | nothing a card shows is deleted, nothing missing stays promised |
| Sessions, support view, auth clean-up | sessions, views | touch, lapse, sweep | a live session is not swept |
| Rate limits | external Redis | | |
| Gallery, search, pages, saved list, e-mail, import, contracts, wording, UI | read-only, browser-only, or none | | |

They interact through the database only. A card's visibility reads its
shelter's verification; the shelter's statements write its cards; an erasure
writes the shelters' histories. The public gallery reads what all of them
leave. Nothing calls back, nothing is queued; the browser polls nothing.
`PROJECT.json` lists every component with its files and what was done about it.

## Hard behaviours

`PROJECT.json` "hazards" has them one by one, at the line where each bites. In
short:

* **Read, decide, write.** Every write is planned on a row that may have
  changed. Publishing compares listing, form version and photos; a save
  compares the version; a photo change compares photos and listing. The sets
  differ, so each pair of requests is a case of its own.
* **Old instants.** A request that arrived first and lands last carries an
  instant older than the row's.
* **One statement, two rows.** A publish asks about the shelter and an approval
  updates the cards, each on its own snapshot.
* **Several statements, no transaction.** An invitation is up to nine
  statements long, with a place to die after each.
* **A write beside a check.** A sign-in checks a password while another request
  replaces it; reveals at the limit count side by side; attempts take their
  numbers from a store whose keys expire under them.
* **Two stores.** A file is stored before its row names it and is listed before
  it is deleted; a restore takes the database back and the bucket not.
* **Lost answers.** The statement landed, the answer did not arrive: the
  handler cannot tell it from a failure.
* **Long legal sequences.** Pause, suspend, reinstate; invite, expire, resend,
  accept, remove; confirm, photo, undo.

## The modules

| Module | Models | Lines |
|---|---|---|
| `Listing` | the lifecycle's pure functions | `domain/src/animals/listing*.ts`, `animal.ts` |
| `KabinetAnimal` | one card's row and the requests racing over it | `handlers/animals.ts`, `handlers/photos.ts`, `kabinet-animal-repo.ts` |
| `CardLife` | the abstract card: what `KabinetAnimal` implements | the same lifecycle, without requests |
| `Verification` | the verification machine, evidence policy, early listing | `domain/src/shelters/verification` |
| `ShelterLife` | the abstract shelter: what `KabinetShelter` implements | the same machine, permissions and donation link, without requests |
| `KabinetShelter` | one shelter's row and the requests racing over it | `handlers/profile.ts`, `handlers/registry-writes.ts`, `kabinet-shelter-repo.ts` |
| `CardVisibility` | a shelter and its cards under overlapping statements | both repositories, `feed-predicate.ts` |
| `Invitations` | one address: account, membership, grant, invitations | the invitation, accept, erasure and super-admin repositories |
| `AdminLife` | the abstract life of one address: what `Invitations` implements | the same roles, invitations and erasure, without requests |
| `PasswordSignIn` | sign-ins of one address beside writes of its password | `sign-in-race.ts`, `password-hooks.ts`, `invite-password.ts`, the trigger of `drizzle/0013` |
| `SignInDelay` | the growing delay, store call by store call | `password-limits.ts`, `password-hooks.ts` |
| `RevealBudget` | one adopter's reveals side by side | `reveal.ts`, `reveal-rate-limit.ts`, `reveal-repo.ts` |
| `PhotoCleanup` | bucket, database and clean-up | `r2-cleanup-run.ts`, `r2-cleanup-repo.ts`, what uploads, removals and reveals do to them |
| `Log` | what it means for a line of a history to follow another | none: shared by the two histories |
| `MC...` | small instances for TLC | |
| `..._proofs` | lemmas and theorems of the module they are named after (`Listing`'s are in `KabinetAnimal_proofs`) | |

`KabinetAnimal` EXTENDS `Listing`; `KabinetShelter` EXTENDS `Verification`;
`CardVisibility` EXTENDS `Verification` and takes `Listing` as an INSTANCE, so
the two machines meet there. `PROJECT.json` "map" names the lines behind every
definition.

### KabinetAnimal

State: `card` (the row's columns that any decision compares), `exists`,
`history` (moves, saves and the delete, in the order they landed), `stored` and `orphaned` (the keys
files were stored under and the ones logged as `photo_orphaned`), `clock`, and
`req`, the requests in flight. A request is a record with a program counter:
`read` (the handler is about to load the row), `store` (an upload is between
its first read and its file), `write` (the plan is made on `seen`, the
statement not yet sent). So `TapReads` is `owned()` and everything the handler
decides before its statement; `TapWrites` is `writeListingIf` with its history
line; `LosesRace` is the empty result and the retry or answer that follows it.
What the write puts down is computed from `seen`, as the code does, never from
the row as it is now; the WHERE clause is what makes that safe, and dropping a
part of it is what the mutants do.

`Settles` lets the answer of a landed statement get lost (`LostAnswers`): the
handler then believes it failed. A tap's history stays right, but an upload
logs as an orphan a photo the card shows. The clean-up job re-checks
references before it deletes, so the log line is noise there; still,
`UploadsSettled` (on the card or in the log, never both nor neither) is a
property of the run without lost answers only.

Two behaviours the model shows that are by design, not faults:

* A tap that arrives first and reads last meets a row stamped after its own
  instant. `Verdict` answers `non_monotonic` and the handler throws it as a
  clock fault, though no clock went back. Refusing is what keeps
  `InstantsInOrder`.
* A form save is refused on any other version and not retried; a tap is retried
  `MaxTapAttempts` times.

### KabinetShelter

State: `row` (verification, evidence as a set, `early`, the profile, the
proposal, the live link, `version`), `history` with one line per recorded
change, `req`, `clock`. Every write compares the version and bumps it.
`PlanOf` is what each procedure would write: the change and its lines. The
forms carry the version their page was read at, and are refused on another;
taps re-plan. The early-listing allowance counts its periods with a statement
of its own (`Counts`) between the read and the write.

`ShelterLife` says what all of this amounts to: the status and what a suspension
interrupted, whether evidence and legal form meet the policy, the permission and
how often one was given, the link shown and the one proposed. `KabinetShelter`
maps the row and the history to these seven (`Life`); an edit of the profile
that leaves the legal form alone is a stutter.

Abstractions: the answers are left out, since nothing reads them; evidence is a
set because the duplicate rule makes it one; `contact` and `display_name` stand
for the free profile fields, and the two together for a save of several; the
files behind a logo are left out. A pause that arrived before a resume can land
after it, and then stands in the history at the earlier instant: the chain of
statuses is kept (`VerificationChains`), the order of the instants is not
promised and not asked.

### CardVisibility

A shelter's row, its cards' rows, and statements that overlap as READ COMMITTED
lets them. A statement `Begins` by fixing its snapshot and `Lands` or `Misses`
later: it re-checks its own target row as it is then, as Postgres does after
waiting for a lock, but what it reads of *other* rows keeps the snapshot.
`shown` (the cards the public has ever been able to see) and `raced` are
variables of the specification only. `raced` collects the cards for which a
statement about the card and one about its shelter overlapped: there each can
miss what the other wrote. Every property is stated of all other cards, and
`StampHasGrounds` of these too. `ever_served_at` is `servedAt`.

An overlap really breaks the two promises: `visibility_missed` shows a card on
show that is never stamped, and a draft created while its shelter moves house
keeps the city the shelter left. The source promises the first in a comment and
so it is a finding; about the second it is silent. The conditions verified
elsewhere (evidence, the number of allowed periods, a draft's readiness) are
taken as met; deletion and history are left out.

### Invitations

One address and the shelters that invite it. The account (`account`, with the
shelter whose invitation created it), the one membership (`member`), the grant,
each shelter's organization, every invitation ever sent, and of each shelter's
history the last line about the address and whether any line still holds it.
Every statement is an action, and each request is a chain of them: an invite
cleans up, looks the account up, checks its roles, checks the other
invitations, finds or makes and links the organization, checks again, writes
the invitation with its line, and creates the account. With `Crashes`, a
request may die between any two. The clean-up's list and its delete are one
step, because the delete repeats every condition of the list; the read of a
member and that of the latest invitation, in a resend, are one step, because
nothing is written between them and the write asks again. `Verify` is external:
Better Auth marks the address proved.

Every procedure runs beside every other and beside itself. Some overlaps break
what the source promises of the address: a write lands while another request has
looked and will not look again, but is still to write. `crossed` is a history
variable that notes four such crossings as they happen: `"grant"` and `"invite"`
when an accept joins, `"asks"` when an invitation is made valid, `"resend"` when
the address is erased (`JoinCrosses`, `AskCrosses`, `EraseCrosses`). No guard
reads it. The promises themselves are `OneRole`, `InvitedToOneShelter`,
`NonePendingOnceJoined`, `HistoryTellsAdmins` and `NoTrace` after an erasure.
The code does not keep them, and *What the runs found* says how each fails; what
is checked, the five `...UnlessCrossed`, is that it fails by its own crossing and
by no other pair, sequence, expiry or death.

`AdminLife` says what one address can become, a statement at a time: it appears,
is asked, joins, leaves, is granted and revoked, and is forgotten. Its `Join`
needs an invitation still pending and no other role, its `Ask` no other shelter's
invitation still valid, its `Leave` nothing left to come back by, and its
`Forget` neither a role, nor a past as an operator, nor a valid invitation, after
which nothing holds the address: the invariant `erasableIf` is documented with.
Each of four guards is given up from its own crossing on (`Grant` without a
membership, `Leave` and `Ask` of an admin, `Ask` beside another shelter's, the
last conjunct of `Forget`), and `NameLate` is the resend that crossed an erasure.
The guards of `Join` and the others of `Forget` are never given up: whatever
crosses, an address joins only where it was asked and as nobody else, and nobody
with a role, a past as an operator or a valid invitation is erased.
`Invitations` maps its rows to it and implements it. `Join` does not ask that the
invitation be valid now: the code asks it of the instant the request arrived at,
and `invitationNotExpiredAt` takes that instant everywhere. For the same reason
an invitation may be written expired.

### PasswordSignIn

A password write is known by its number, which stands for the stamp, the salted
hash and the password. A sign-in reads the credential, lets Better Auth read it
again and check the password, inserts a session and reads the credential once
more, waiting for a write in flight; a token leaves the server only if the
credential is still the one first read. A write is one statement whose trigger
deletes the sessions it sees, and is seen by others when it commits; it may roll
back. The invitation's form consumes its link, proves the address and writes
the password in that order, and may die in between.

`NoOldPasswordSession` is about sessions that sign-ins gave away. The session a
password change renews is inserted after its own write and can follow a later
one; the code does not claim otherwise. `auth_account` has no unique index on
user and provider: two invitation forms at once would write two credentials, a
case the guard of `Resends` (a new link is sent only when no form is at work)
leaves out.

### SignInDelay

Two keys of a shared store, the count and the gate, each operation on them one
step. Attempts overlap, fail, and are given up at `DELAY_STORE_TIMEOUT_MS`; a
charge given up still lands later. Time is what a key has left. A chain may
start without an expiry, as the code before this one left them. Between an
attempt's increment and its `setIfAbsent` the count's window may end, or another
attempt's success clear it, and the next attempt then starts low: `last.held`
follows whether the chain was held all the while, and `DelaysGrow` is about
attempts for which it was.

### RevealBudget

Reveals of one adopter, each with the clock it read when it began: a fast
answer before the transaction, the lock on the adopter's row, the guarded insert
with its free re-reveal, the commit, and the reading back of a reveal that came
first. The insert's snapshot is taken when the lock is: nothing is written
between the two, since whoever writes holds it. `ChargedWithinBudget` counts the reveals
that were new to their window when written. The plain count of shelters over a
window is not promised: a free re-reveal decided early and written late can put
one shelter more into some window, and the code counts it free on purpose.

### PhotoCleanup

The bucket and the database, which nothing writes together. A run lists the
bucket, reads the cards, tracks since when each object was seen
unreferenced, re-checks those past the grace period, deletes them in batches,
of which some keys may fail, forgets them and nulls the snapshots that name
them; it may die before any statement, and `cutShort` follows the snapshots a
death between the last two left. `Restores` takes the database, and not the
bucket, back to an earlier moment.

What it assumes, and where it bites: a tick is longer than a request or a run
may live (`maxDuration`), and the grace period outlasts the restore window by
more than one tick. The source has both at seven days, so a restore to the last
minutes of the window could name a file just deleted. A restore is to a moment
at which no photo on a card was tracked (`Settled`) and does not fall between a
run's re-check and its delete. Runs do not overlap: with two at once and a
death, TLC finds a missing file that a stale reading of the cards untracks, so
that a snapshot names it for good. The manual run with no grace period is left
out.

## The runs

| Run | Question | Result |
|---|---|---|
| `animal_moves` | Do the instants, undo, waiting clock, history and photos of a card survive every interleaving of four requests, with lost answers? | holds |
| `animal_edits` | Can a save, an upload, a removal or a delete racing a publish leave a public card incomplete? Is every landed statement a step of `CardLife`, every file accounted for, every request answered? | holds |
| `animal_sex_drift` | Does a listed card's sex stay known, as a comment says? | violated |
| `shelter` | Does the history chain and record what was replaced, does an approval stand on evidence and keep its date, does a permission end with the open statuses and stay accounted for, does a decision land only on the proposal seen? Is every landed statement a step of `ShelterLife`? | holds |
| `visibility` | Is every card the public has seen stamped, with grounds, and do cards follow a shelter's move, except where statements about both overlapped? | holds |
| `visibility_missed` | And where they overlapped? | violated |
| `invited` | Through any sequence and overlap of invites, expiries, resends, accepts, removals, grants and deaths: is each promise (one role, one live shelter, nothing pending after a join, a history that tells who is an admin, a complete erasure) broken by its own crossing only? Is every landed statement a step of `AdminLife`? | holds |
| `invited_resend` | Does a resend keep the invitee it is for? | violated |
| `sign_in_race` | Does a session made with an old password ever leave the server, or a crash leave a password on an unproved address? | holds |
| `sign_in_delay` | Does each attempt past the free ones wait out the one before it and move up the delays, and does the gate always open again? | holds |
| `reveal` | Does any window charge more shelters than the budget, and is an animal told with one reveal only? | holds |
| `photo_cleanup` | Do the photos on cards keep their files, does nothing on a card fall due, are missing files still found for the snapshots that name them? | holds |

Each property has a mutant in `PROJECT.json`: a change of one definition, as a
plausible slip in the code would make it, under which TLC refutes it.

### Bounds, and why they are enough

* **Two request slots** (three for reveals and sign-in delays). The races are
  between a request and whatever landed between its read and its write; one slot
  supplies the request, the other as many landed requests as `MaxRequests`
  allows. A budget of one shelter needs a third reveal to be free while another
  is charged.
* **`MaxRequests`** 4 for cards, shelters, visibility and invitations (up to 3
  to reach a state, 1 to race over it). The theorems hold for any number. Every
  action, and every disjunct of the
  next-state relations, fires in some run.
* **`OneWorkload`** (`MCKabinetShelter`): any two requests meet in the first
  instants; a third and a fourth, and what happens at the last instant, join
  requests that write the same part of the row (moves and evidence; moves and
  early listing; the forms). It cuts the state space where parts that do not read each
  other would only multiply.
* **`OneTold`** (`MCPhotoCleanup`): of two photos at most one is in snapshots;
  the other shows what happens to one that is in none.
* **`MaxClock`** 0 where instants are irrelevant; 1 or 2 where an undo window, an
  early period or a late request needs it, and where an invitation must expire,
  be renewed and expire; 3 where a reveal's window must end while another waits.
  `SignInDelay` and `PhotoCleanup` keep ages instead of a clock and need none:
  their instances are complete.
* **Windows and periods** (`UndoWindow`, `Period`, `Lifetime`, `Window`) are one
  or two ticks: what matters is inside, at the edge and outside, and the clock
  reaches all three. In `invited` `Lifetime` is 0: a tick is longer than an
  invitation lives, requests of one tick are within it, and a request that waits
  a tick meets what it found valid expired. With 1, and the clock to 3, the run
  holds as well, in over five minutes. `Grace` is 3, the least above `Window` + 1.
* **Photos**: a limit of 2 and 3 keys for a card, so that two uploads meet at
  the limit and one file is always one too many; two photos of two variants for
  the clean-up, with a cap of 2 or 4 objects and batches of one, so that a cap
  cuts between photos and a batch inside one.
* **Attempts**: 3, as in the code; 2 for shelters, where a plan lost once is
  like a plan lost twice.
* **One card** in `visibility`: cards only meet in their shelter, which treats
  each alike; two cities and two shelters are the fewest that can disagree.
* **Three password writes**, two at a time: an old one, a racing one, a later.

Symmetry is used for request slots, for interchangeable shelters, cards and
photo keys that no initial state names, and never in the run with a liveness
property.

### Fairness

Two runs use it. `animal_edits` checks `FairSpec`, which adds
`WF_vars(Serve(r))` for each slot. A request the server took in keeps running
until its function returns, and each statement it awaits comes back; that is
what `Serve` stands for. Nothing makes a request arrive, the clock tick or a
user act. `EveryRequestAnswered` then needs the bound on attempts: a request
that keeps losing gives up. `sign_in_delay` assumes `WF_vars(Tick)`, that time
passes, and nothing of the attempts or the store: `GateOpens` says the gate
opens again and again, whatever fails and however often others try. Every other
run is about safety and assumes nothing.

`CHECK_DEADLOCK` is on except in `reveal`, where every request ends and the
clock stops. In the models with bounded requests `Finished` is the one
stuttering step, enabled only when the bound is reached and none is in flight.

## What the runs found

1. **A listed card's sex can drift back to unknown** (`animal_sex_drift`).
   `writeEditIf` demands a draft only when the save writes a null, and
   `"unknown"` is not null; a publish does not bump the version. A save that
   sets the sex back, read on a draft, lands on the card published meanwhile.
2. **A card on show can stay unstamped** (`visibility_missed`). A publish and
   an approval overlap, each reading the other's row as it was: neither stamps.
   The card answers NOT_FOUND when the shelter later pauses, until another move
   of it.
3. **A resend can erase the invitee it is for** (`invited_resend`). The lazy
   clean-up it begins with removes the account of an expired invitation; the
   operator's guide and a comment say an expired one can be resent.

Four promises about an address are broken by requests that cross. `invited`
reaches each crossing and shows that nothing else breaks the promise. To see one
fail, put the unconditional form in the place of the conditional one in
`Invited.cfg`: TLC finds it violated.

| Crossing | Promise it breaks | How |
|---|---|---|
| `"grant"` | `OneRole`, after `super-admin-repo.ts:104`: "one person is never both" | The grant finds no membership, the accept joins, the grant finds nothing valid any more and writes. |
| `"asks"` | `InvitedToOneShelter` | Two shelters' invites, an invite and a resend that revives, or two such resends: each looked before the other wrote. `kabinet-invitation-repo.ts:208-212` grants the window for two invites. |
| `"invite"` | `NonePendingOnceJoined`, after `kabinet-invitation-accept-repo.ts:227-228`: "the address has now joined and none may stay pending"; with it `HistoryTellsAdmins` | The invite finds no role, the accept joins, the invite writes. A removal then leaves an invitation by which the admin comes back. The accept settles a re-invite that lands before it, as the comment there says, and this one lands after. |
| `"resend"` | a complete erasure, after `admin-erasure-repo.ts:53-60` | The resend reads the invitation, a clean-up erases the address, the resend writes its line with the address it read, where the next erasure does not look. |

The last takes five requests, one more than the run's: with `MaxRequests = 5`,
`OpTypes = {"invite", "resend", "clean_up"}`, no deaths and `StartAccounts <-
Nobody`, the property without its second disjunct fails in seconds. What the
run shows of it within its own bounds is the late line itself (`NameLate`).

Two deaths the model also reaches, with no promise in the source to check them
against: an organization inserted and never linked stops every later invite to
that shelter; an invitation written with no account stays until the next invite
to the same shelter creates one.

## What is proved

For every set of requests, cards, photos, events, patches and starting rows, and
every bound and window the assumptions allow:

| Module | Theorem | States |
|---|---|---|
| `KabinetAnimal_proofs` | `TypeCorrect` | `TypeOK` |
| | `ListedCardsComplete` | no listed card lacks size, age or description |
| | `VisibleCardsIllustrated` | no visible card lacks a photo |
| | `InstantsStayInOrder` | the instants of a visible card stay in order |
| | `PublicCardsNeverDeleted` | a deleted card was never public |
| | `FreshPlansLand` | a plan made on the row as it still is matches it |
| | `CardLifeImplemented` | `Spec => Life!Spec`, the refinement of `CardLife` |
| | `WaitNeverRestarts` | a card that stays visible keeps its waiting instant |
| | `OnlyUndoUnconfirms` | a confirmation date goes back only by an undo in its window |
| | `MovesChain`, `SavesAreSerial` | each move starts where the last ended; saves are of versions in turn |
| | `PhotosStayLimited`, `OnlyRemovalDropsPhotos` | the limit, and no photo lost to a race |
| | `UploadsLeaveNoTrace` | without lost answers, a stored file is on the card or logged |
| `KabinetShelter_proofs` | `RowStaysTyped` | `TypeOK` |
| | `HistoryTellsStatus` | `VerificationChains` |
| | `FirstApprovalKept`, `OnlyResumeReopens` | the approval's date through pauses and suspensions, and who reopens |
| | `PermissionsEndWithOpenness`, `HistoryAccountsForPermissions` | early listing ends with the open statuses and is in the history |
| | `HistoryTellsFields` | a recorded previous value is the one replaced |
| | `DecisionsOnWhatWasSeen`, `ApprovalsStandOnEvidence` | what a decision and an approval stood on when they landed |
| | `ShelterLifeImplemented` | `Spec => Life!Spec`, the refinement of `ShelterLife` |
| | `PeriodsLimited` | no shelter is listed early for more periods than the policy grants |
| `CardVisibility_proofs` | `RowsStayTyped` | `TypeOK` |
| | `ShownCardsStamped`, `CardsFollowTheirShelter`, `StampsHaveGrounds` | the run's three properties |
| `Invitations_proofs` | `TypeCorrect` | every row and request keeps its type |
| | `RolesExclusive`, `OneShelterInvites` | one role, one live shelter: the run's first two properties |
| | `JoinedLeavesNonePending`, `HistoryAgreesWithAdmins` | no way back in after a removal, and a history that tells who is an admin: the next two |
| | `ErasureComplete` | an erasure leaves the address nowhere: `ErasureUnlessCrossed` |
| | `AdminLifeImplemented` | `Spec => Life!Spec`, the refinement of `AdminLife` |
| `PasswordSignIn_proofs` | `SignInTypes`, `OldPasswordsKeepNoSession`, `InviteeNotStranded` | types, and the run's two properties |
| `SignInDelay_proofs` | `DelaysAlwaysGrow` | `DelaysGrow` |
| `RevealBudget_proofs` | `RevealsStayTyped`, `BudgetHolds`, `RevealIsIdempotent` | types, and the run's two properties |
| `PhotoCleanup_proofs` | `CardsKeepFiles`, `GraceIsEnough`, `MissingFilesFound` | the run's three properties |

Type correctness is proved, wherever a module states `TypeOK`, and so no run
repeats it: the runs are spent on what could break.

**The card.** None of these is inductive alone: a publish lands on the row as it
is, but was planned on the row as read. `IInv` adds, for every request about to
write, what its plan established on `seen` (`Planned`), and ties the two rows
together: a row still at the version read still has the facts read, a version
read is never ahead of the row's, and a row that was once public is recorded so.
With that, each landed statement is judged from its WHERE clause and its plan
together: a publish compares the version, so the facts it found are the facts
there are; it compares the photo list's non-emptiness; a save that leaves a fact
missing compares that the row is a draft; a photo change compares the listing,
so a removal of the last photo cannot land on a card published meanwhile.
`NextKeeps` has one lemma per kind of step. `LogInv` ties the last line of a
history to the row, which carries `HistoryChains` and `EditsSerial`; `KeyInv`
says the key of a file that waits for its card is on no card, in no log and no
other request's. `CardLifeImplemented` maps the row to `CardLife`'s five
variables and shows that every step is a step of the abstract card or a stutter.

**The shelter.** One argument carries all of it: every write compares the version
and bumps it, so a row still at the version a request read is the row it read
(`SeenInv`). The plan, made on the row read, can then be judged as if made on
the row it replaces. `MovesInv` and `PermissionInv` say what the last line of
each kind in the history tells of the row; the chains follow line by line.
The refinement needs one fact more, of a count that lives outside the row: an
allowance about to be written on the row it was planned on has counted every
allowance there is (`CountFresh`), because it counts after it reads the row and
any other allowance would have moved the version. So two operators who both
count one period cannot both give the second.

**Visibility.** There is no such version over two rows. `InFlight` says of each
open statement what is left of its snapshot: while the shelter's version stands,
a shelter statement's snapshot still equals the rows of all cards that have not
raced; while a card has not raced, a card statement's snapshot equals the
shelter. `Racing` is contained in `raced`, so when a statement lands on a card
outside `raced`, nothing about the other row has changed since it began.

**Invitations.** Nothing is assumed of what overlaps. `NextCases` classifies every
step once: quiet, the beginning of a request, or a `Step` of one, which sums up
what a statement does to the rows (`Effect`, one of twelve) and what the request
knows as it comes to a check or to its write (`Enters`). `Base` holds throughout:
types, that whoever is invited has an organization (`LinkedInv`), that a member
has an account and was invited (`MemberInv`). Each promise then has an invariant
of its own: unless its crossing has happened, it holds, and so does what a
request about to write relies on. A grant that has looked finds no membership
(`Unattached`), one about to make an invitation live has none live elsewhere
(`NoneElsewhere`), an invite past its look at the roles is of nobody's admin
(`Uncommitted`), a resend's invitation still holds the address (`StillOwn`). The
only effect of another request that disturbs one of these records its crossing
in the same step, and that is where each proof turns: an accept beside
`Unattached` or `Uncommitted`, an ask beside `NoneElsewhere`, an erasure beside
`StillOwn`. With `NamedInv`, that a history holding the address belongs to a
shelter that invited it, the list of shelters an erasure scrubs is complete.
`HistoryAgreesWithAdmins` rests on the invariants of `"invite"` and `"resend"`
together: a resend whose invitation is still held and pending is of somebody not
yet in (`HeldNotYetIn`), so an accept beside it does no harm.
`AdminLifeImplemented` takes all four and judges each effect once more: what a
request has looked up is what the abstract step asks for, or its crossing has
happened; and an erasure that found nothing valid at its own instant finds
nothing valid now (`ErasableStill`).

**Sign-in.** `RaceInv` bounds a sign-in's password between its two reads: the
write it checked is no older than the first read and no newer than the
credential. If the second read finds what the first did, all three are one
write; and a write that has begun since either had to be waited for or has the
session doomed (`Sound`), so it is gone when that write commits.

**Delay.** `DelayInv`: while the last delay runs, the gate is closed for at least
what is left of it; while its number is held, the chain counts at least as far
and outlasts the delay by a window; an attempt still charging has a higher
number, the highest, or is too young to find the gate open.

**Reveals.** `BudgetInv`: a transaction past its lock has seen exactly what is
committed. A window's charged reveals, with a new one, then lie within the new
one's own window and the ones before it, which the guard counted.

**Clean-up.** `CleanupInv` bounds ages: an upload in flight was not tracked for
longer than it has run, a photo that came onto a card since the cards were read
not for longer than a tick and the run, what a backup does not track not for
longer than the backup is old. All are younger than the grace period, so what a
run holds is wanted neither by a card nor by a backup.

**Assumptions**: those the modules state of their constants (shapes, bounds,
`StartCardsAssumption`, `StartRowsAssumption`, `Window + 1 < Grace`); TLC
evaluates each in a run. `UploadsLeaveNoTrace` also assumes `LostAnswers =
FALSE`, as its run does.

**Model-checked only**: `EveryRequestAnswered` and `GateOpens`: liveness under
fairness and ENABLED are out of the prover's reach, as is induction over data.
No module uses RECURSIVE operators.

## What is not modelled

Each of these is a component in `PROJECT.json` with its reason.

* **Listed as hazards, without a model**: two support views opened at once
  (nothing but the operator's own reading depends on one); the saved list in the
  browser (each tab reads, changes and writes back; it costs a heart pressed
  again); pages of the card list (read-only, the next load shows the card); the
  animal form's order of requests (`KabinetAnimal` takes any order, so what the
  form adds is convenience).
* **Sessions and their clean-up**: each clean-up is one DELETE that repeats its
  test on the row it locks; what remains is arithmetic on one row.
* **Outside the repository**: Redis's sliding windows, Better Auth's session
  and password handling, the mail provider, R2, Postgres itself; their promises
  are taken as the code takes them.
* **No state of their own**: ranking and search SQL, contracts, wording, UI,
  import and seed scripts.

The share of the repository's lines the modules stand for is small because
most of it is wording, pages, styling, schemas, seeds and tests: the modules
cover the code in which requests, scripts and stores meet.

## Plan

Done: the card, the shelter, visibility, invitations, sign-in, reveals and the
clean-up, each with its proofs.

1. *Composition*: the animal form's order of requests with `KabinetAnimal`;
   `KabinetAnimal`'s uploads and orphans with `PhotoCleanup`.
2. *Operations*: overlapping clean-up runs and the manual one, once the code
   says what they promise; reset links and their single use.

## Running it

In this directory, `tlc -config AnimalMoves.cfg MCKabinetAnimal`, and likewise:
`AnimalEdits.cfg` and `AnimalSexDrift.cfg` with `MCKabinetAnimal`, `Shelter.cfg`
with `MCKabinetShelter`, `Visibility*.cfg` with `MCCardVisibility`,
`Invited*.cfg` with `MCInvitations`, `SignInRace.cfg` with `MCPasswordSignIn`,
`SignInDelay.cfg` with `MCSignInDelay`, `RevealBudget.cfg` with
`MCRevealBudget`, `PhotoCleanup.cfg` with `MCPhotoCleanup`. The passing runs take
between a few seconds and three minutes on two cores. `tlapm M_proofs.tla`
checks the proofs of a part, the longest in some ten minutes.
