---------------------------- MODULE RevealBudget ----------------------------
(***************************************************************************)
(* One adopter's reveals of shelters' contacts, run side by side:          *)
(* apps/web/src/api/handlers/reveal.ts and reveal-rate-limit.ts over       *)
(* packages/db/src/repos/reveal-repo.ts.                                   *)
(*                                                                         *)
(* A request reads the budget as a fast answer, and then writes in a       *)
(* transaction of two statements: one locks the adopter's row, the other   *)
(* inserts under the budget.  Each judges by the clock the request began   *)
(* with, and a statement sees what was committed when it began.  No index  *)
(* of the table holds any of this up.                                      *)
(*                                                                         *)
(* What a refusal says, and the contacts themselves, are left out.         *)
(***************************************************************************)
EXTENDS Naturals, FiniteSets

CONSTANTS
  None,
  Requests,    \* the requests of a behaviour; a reveal's id is its request's
  Animals,
  Shelters,
  ShelterOf,   \* the shelter of each animal
  MaxShelters, \* the budget
  Window,      \* how long a reveal counts against it
  MaxClock     \* bound on the clock

ASSUME RevealAssumption ==
  /\ None \notin Requests
  /\ ShelterOf \in [Animals -> Shelters]
  /\ MaxShelters \in Nat
  /\ Window \in Nat
  /\ MaxClock \in Nat

Instants == 0 .. MaxClock

VARIABLES
  clock,
  rows,     \* the adopter's committed reveals
  lock,     \* the request whose transaction holds the adopter's row
  request,  \* each request
  told      \* the reveals it has been answered with

vars == <<clock, rows, lock, request, told>>

(* Charged: its shelter was new to the window when it was written.         *)
Reveals == [id : Requests, animal : Animals, at : Instants, charged : BOOLEAN]

Init ==
  /\ clock = 0
  /\ rows = {}
  /\ lock = None
  /\ request \in [Requests -> [pc : {"idle"}, animal : Animals, now : {0},
                               seen : {{}}]]
  /\ told = {}

-----------------------------------------------------------------------------
(* The budget's window at `now`.                                           *)

Recent(reveals, now) == {x \in reveals : x.at + Window > now}

SheltersOf(reveals) == {ShelterOf[x.animal] : x \in reveals}

FreeReReveal(r, reveals) ==
  ShelterOf[request[r].animal] \in SheltersOf(Recent(reveals, request[r].now))

BudgetLeft(r, reveals) ==
  Cardinality(SheltersOf(Recent(reveals, request[r].now))) < MaxShelters

Existing(r) == {x \in rows : x.animal = request[r].animal}

(* Mutant: the same animal may be written again.                           *)
WithinBudgetOfShelters(r, reveals) ==
  FreeReReveal(r, reveals) \/ BudgetLeft(r, reveals)

WithinBudget(r, reveals) ==
  /\ \A x \in reveals : x.animal # request[r].animal
  /\ FreeReReveal(r, reveals) \/ BudgetLeft(r, reveals)

-----------------------------------------------------------------------------

Goes(r, pc) == request' = [request EXCEPT ![r].pc = pc]

Ends(r) == request' = [request EXCEPT ![r].pc = "done", ![r].seen = {}]

Tick ==
  /\ clock < MaxClock
  /\ clock' = clock + 1
  /\ UNCHANGED <<rows, lock, request, told>>

Arrives(r) ==
  /\ request[r].pc = "idle"
  /\ request' = [request EXCEPT ![r].pc = "find", ![r].now = clock]
  /\ UNCHANGED <<clock, rows, lock, told>>

(* Told with what is stored, when the animal was revealed before.          *)
AnswersWith(r, reveals) ==
  /\ told' = told \cup reveals
  /\ Ends(r)

(* The card is listed and its shelter shown: is there a reveal of it?      *)
Finds(r) ==
  /\ request[r].pc = "find"
  /\ IF Existing(r) # {}
     THEN \E x \in Existing(r) : AnswersWith(r, {x})
     ELSE Goes(r, "free") /\ UNCHANGED told
  /\ UNCHANGED <<clock, rows, lock>>

(* The two reads of the fast answer.                                       *)
ChecksShelter(r) ==
  /\ request[r].pc = "free"
  /\ Goes(r, IF FreeReReveal(r, rows) THEN "begin" ELSE "count")
  /\ UNCHANGED <<clock, rows, lock, told>>

ChecksCount(r) ==
  /\ request[r].pc = "count"
  /\ IF BudgetLeft(r, rows) THEN Goes(r, "begin") ELSE Ends(r)
  /\ UNCHANGED <<clock, rows, lock, told>>

Begins(r) ==
  /\ request[r].pc = "begin"
  /\ request' = [request EXCEPT ![r].pc = "lock", ![r].seen = rows]
  /\ UNCHANGED <<clock, rows, lock, told>>

(* Mutant: the transaction keeps the snapshot it began with.               *)
SnapshotOfBegin(r) == request[r].seen

(* READ COMMITTED: each statement gets a snapshot of its own.              *)
Snapshot(r) == rows

(* Waits for the row; the insert begins once the lock is held.             *)
Locks(r) ==
  /\ request[r].pc = "lock"
  /\ lock = None
  /\ lock' = r
  /\ request' = [request EXCEPT ![r].pc = "insert", ![r].seen = Snapshot(r)]
  /\ UNCHANGED <<clock, rows, told>>

(* An insert the budget refuses writes nothing, and its transaction ends.  *)
Inserts(r) ==
  /\ request[r].pc = "insert"
  /\ IF WithinBudget(r, request[r].seen)
     THEN Goes(r, "commit") /\ UNCHANGED lock
     ELSE Goes(r, "reread") /\ lock' = None
  /\ UNCHANGED <<clock, rows, told>>

RevealOf(r) ==
  [id |-> r, animal |-> request[r].animal, at |-> request[r].now,
   charged |-> ~FreeReReveal(r, request[r].seen)]

Commits(r) ==
  /\ request[r].pc = "commit"
  /\ rows' = rows \cup {RevealOf(r)}
  /\ lock' = None
  /\ AnswersWith(r, {RevealOf(r)})
  /\ UNCHANGED clock

(* Refused: over the budget, or the same animal's reveal came first.       *)
Rereads(r) ==
  /\ request[r].pc = "reread"
  /\ IF Existing(r) # {}
     THEN \E x \in Existing(r) : AnswersWith(r, {x})
     ELSE Ends(r) /\ UNCHANGED told
  /\ UNCHANGED <<clock, rows, lock>>

(* A hidden card or shelter, a shelter's own session, a spent budget of    *)
(* the address, or a failure, which rolls its transaction back.            *)
Leaves(r) ==
  /\ request[r].pc \notin {"idle", "done"}
  /\ Ends(r)
  /\ lock' = IF lock = r THEN None ELSE lock
  /\ UNCHANGED <<clock, rows, told>>

Next ==
  \/ Tick
  \/ \E r \in Requests :
       \/ Arrives(r) \/ Finds(r) \/ ChecksShelter(r) \/ ChecksCount(r)
       \/ Begins(r) \/ Locks(r) \/ Inserts(r) \/ Commits(r) \/ Rereads(r)
       \/ Leaves(r)

Spec == Init /\ [][Next]_vars

RequestStates ==
  [pc : {"idle", "find", "free", "count", "begin", "lock", "insert", "commit",
         "reread", "done"},
   animal : Animals, now : Instants, seen : SUBSET Reveals]

TypeOK ==
  /\ clock \in Instants
  /\ rows \subseteq Reveals
  /\ lock \in Requests \cup {None}
  /\ request \in [Requests -> RequestStates]
  /\ told \subseteq Reveals

-----------------------------------------------------------------------------
(* Safety.                                                                 *)

ChargedAt(t) == {x \in rows : x.charged /\ x.at <= t /\ t < x.at + Window}

(* "Held by a guarded write under a lock on the adopter's row": however    *)
(* the reveals overlap and whatever instants they carry, no window charges *)
(* the adopter for more shelters than the budget.                          *)
ChargedWithinBudget ==
  \A t \in Instants : Cardinality(SheltersOf(ChargedAt(t))) <= MaxShelters

(* "Idempotent": an animal's reveals are all answered with one reveal, the *)
(* one stored.                                                             *)
OneRevealTold ==
  /\ told \subseteq rows
  /\ \A x, y \in told : x.animal = y.animal => x = y

=============================================================================
