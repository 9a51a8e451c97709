------------------------ MODULE RevealBudget_proofs ------------------------
(***************************************************************************)
(* Theorems about RevealBudget, for every set of requests, animals and     *)
(* shelters, every budget and window.                                      *)
(*                                                                         *)
(* The argument: only the request that holds the adopter's row writes, so  *)
(* the snapshot its insert judged is still what is committed when it       *)
(* commits.  A charged reveal found fewer shelters than the budget among   *)
(* the rows later than its instant less the window; a window that contains *)
(* it charges no others, so it is charged for at most the budget.          *)
(***************************************************************************)
EXTENDS RevealBudget, FiniteSetTheorems, TLAPS

(* Between its lock and its end a transaction holds the row and has seen   *)
(* what is committed.                                                      *)
LockSerialises ==
  \A r \in Requests :
    request[r].pc \in {"insert", "commit"} =>
      lock = r /\ request[r].seen = rows

InsertsWithinBudget ==
  \A r \in Requests :
    request[r].pc = "commit" => WithinBudget(r, request[r].seen)

OneRevealPerAnimal == \A x, y \in rows : x.animal = y.animal => x = y

BudgetInv ==
  /\ TypeOK
  /\ IsFiniteSet(SheltersOf(rows))
  /\ LockSerialises
  /\ InsertsWithinBudget
  /\ OneRevealPerAnimal
  /\ told \subseteq rows
  /\ ChargedWithinBudget

-----------------------------------------------------------------------------
(* Lemmas about windows.                                                   *)

(* A window's shelters are at most those of all the reveals.               *)
LEMMA FewerShelters ==
  ASSUME NEW S, NEW T \in SUBSET S, IsFiniteSet(SheltersOf(S))
  PROVE  /\ IsFiniteSet(SheltersOf(T))
         /\ Cardinality(SheltersOf(T)) \in Nat
         /\ Cardinality(SheltersOf(T)) <= Cardinality(SheltersOf(S))
<1>1. SheltersOf(T) \in SUBSET SheltersOf(S)
  BY DEF SheltersOf
<1> QED
  BY <1>1, FS_Subset, FS_CardinalityType

(* One more reveal adds at most its shelter.                               *)
LEMMA OneMoreShelter ==
  ASSUME NEW S, NEW x, IsFiniteSet(SheltersOf(S))
  PROVE  /\ IsFiniteSet(SheltersOf(S \cup {x}))
         /\ Cardinality(SheltersOf(S \cup {x})) <= Cardinality(SheltersOf(S)) + 1
<1>1. SheltersOf(S \cup {x}) = SheltersOf(S) \cup {ShelterOf[x.animal]}
  BY DEF SheltersOf
<1>2. Cardinality(SheltersOf(S)) \in Nat
  BY FS_CardinalityType
<1>3. /\ IsFiniteSet(SheltersOf(S) \cup {ShelterOf[x.animal]})
      /\ Cardinality(SheltersOf(S) \cup {ShelterOf[x.animal]})
           = IF ShelterOf[x.animal] \in SheltersOf(S)
             THEN Cardinality(SheltersOf(S)) ELSE Cardinality(SheltersOf(S)) + 1
  BY FS_AddElement
<1>4. Cardinality(SheltersOf(S) \cup {ShelterOf[x.animal]})
        <= Cardinality(SheltersOf(S)) + 1
  BY <1>2, <1>3
<1> QED
  BY <1>1, <1>3, <1>4, Zenon

(* A reveal the guard allowed, charged or not, leaves every window within  *)
(* the budget.                                                             *)
LEMMA GuardKeepsBudget ==
  ASSUME RevealAssumption, TypeOK, IsFiniteSet(SheltersOf(rows)),
         ChargedWithinBudget,
         NEW r \in Requests, WithinBudget(r, rows), request[r].seen = rows,
         rows' = rows \cup {RevealOf(r)}
  PROVE  ChargedWithinBudget'
<1> DEFINE new == RevealOf(r)
<1>1. new \in Reveals /\ new.at = request[r].now
  BY DEF TypeOK, RequestStates, Reveals, RevealOf
<1> SUFFICES ASSUME NEW t \in Instants
             PROVE  Cardinality(SheltersOf(ChargedAt(t)')) <= MaxShelters
  BY DEF ChargedWithinBudget, SheltersOf
<1>2. Cardinality(SheltersOf(ChargedAt(t))) <= MaxShelters
  BY DEF ChargedWithinBudget
<1>3. CASE new.charged /\ new.at <= t /\ t < new.at + Window
  <2> DEFINE before == Recent(rows, new.at)
  <2>1. ChargedAt(t)' \in SUBSET (before \cup {new})
    <3> SUFFICES ASSUME NEW x \in rows, x.at <= t, t < x.at + Window
                 PROVE  x.at + Window > new.at
      BY DEF ChargedAt, Recent
    <3>1. x.at \in Nat /\ new.at \in Nat /\ t \in Nat
      BY <1>1 DEF TypeOK, Reveals, Instants
    <3> QED
      BY <3>1, <1>3, RevealAssumption DEF RevealAssumption
  <2>2. Cardinality(SheltersOf(before)) < MaxShelters
    BY <1>1, <1>3 DEF WithinBudget, BudgetLeft, RevealOf
  <2>3. IsFiniteSet(SheltersOf(before)) /\ Cardinality(SheltersOf(before)) \in Nat
    BY FewerShelters DEF Recent
  <2>4. /\ IsFiniteSet(SheltersOf(before \cup {new}))
        /\ Cardinality(SheltersOf(before \cup {new})) <= Cardinality(SheltersOf(before)) + 1
    BY <2>3, OneMoreShelter
  <2>5. /\ Cardinality(SheltersOf(ChargedAt(t)')) \in Nat
        /\ Cardinality(SheltersOf(ChargedAt(t)'))
             <= Cardinality(SheltersOf(before \cup {new}))
    BY <2>1, <2>4, FewerShelters
  <2>6. Cardinality(SheltersOf(before \cup {new})) \in Nat
    BY <2>4, FS_CardinalityType
  <2> HIDE DEF before, new
  <2> QED
    BY <2>2, <2>3, <2>4, <2>5, <2>6, RevealAssumption DEF RevealAssumption
<1>4. CASE ~(new.charged /\ new.at <= t /\ t < new.at + Window)
  <2>1. ChargedAt(t)' = ChargedAt(t)
    BY <1>4 DEF ChargedAt
  <2> QED
    BY <1>2, <2>1
<1> QED
  BY <1>3, <1>4

-----------------------------------------------------------------------------

THEOREM InitBudget == Init => BudgetInv
<1> SUFFICES ASSUME Init PROVE BudgetInv
  OBVIOUS
<1> USE RevealAssumption DEF Init, RevealAssumption
<1>1. TypeOK
  BY DEF TypeOK, RequestStates, Reveals, Instants
<1>2. IsFiniteSet(SheltersOf(rows))
  <2>1. SheltersOf(rows) = {}
    BY DEF SheltersOf
  <2> QED
    BY <2>1, FS_EmptySet
<1>3. ChargedWithinBudget
  <2> SUFFICES ASSUME NEW t \in Instants
               PROVE  Cardinality(SheltersOf(ChargedAt(t))) <= MaxShelters
    BY DEF ChargedWithinBudget
  <2>1. SheltersOf(ChargedAt(t)) = {}
    BY DEF SheltersOf, ChargedAt
  <2> QED
    BY <2>1, FS_EmptySet
<1> QED
  BY <1>1, <1>2, <1>3
     DEF BudgetInv, LockSerialises, InsertsWithinBudget, OneRevealPerAnimal

(* The steps that write no reveal: of the rest of the invariant, only the  *)
(* transactions' parts need care.                                          *)
LEMMA QuietStep ==
  ASSUME BudgetInv, NEW r \in Requests,
         \/ Arrives(r) \/ Finds(r) \/ ChecksShelter(r) \/ ChecksCount(r)
         \/ Begins(r) \/ Locks(r) \/ Inserts(r) \/ Rereads(r) \/ Leaves(r)
  PROVE  BudgetInv'
<1> USE RevealAssumption DEF BudgetInv, RevealAssumption
<1>1. rows' = rows /\ clock' = clock
  BY DEF Arrives, Finds, ChecksShelter, ChecksCount, Begins, Locks, Inserts,
         Rereads, Leaves
<1>2. \A q \in Requests : q # r => request'[q] = request[q]
  BY DEF TypeOK, Arrives, Finds, ChecksShelter, ChecksCount, Begins, Locks,
         Inserts, Rereads, Leaves, Goes, Ends, AnswersWith
(* Only two of them leave the request inside its transaction.              *)
<1>3. \/ request'[r].pc \notin {"insert", "commit"}
      \/ Locks(r)
      \/ /\ request[r].pc = "insert" /\ UNCHANGED lock
         /\ WithinBudget(r, request[r].seen) /\ Goes(r, "commit")
  <2>1. \A pc : Goes(r, pc) => request'[r].pc = pc
    BY DEF TypeOK, Goes
  <2>2. Ends(r) => request'[r].pc = "done"
    BY DEF TypeOK, Ends
  <2>3. CASE Arrives(r) \/ Begins(r)
    BY <2>3 DEF TypeOK, RequestStates, Arrives, Begins
  <2>4. CASE Finds(r) \/ Rereads(r)
    BY <2>1, <2>2, <2>4 DEF Finds, Rereads, AnswersWith
  <2>5. CASE ChecksShelter(r) \/ ChecksCount(r) \/ Leaves(r)
    BY <2>1, <2>2, <2>5 DEF ChecksShelter, ChecksCount, Leaves
  <2>6. CASE Inserts(r)
    BY <2>1, <2>6 DEF Inserts
  <2> QED
    BY <2>3, <2>4, <2>5, <2>6
<1>4. told' \subseteq rows
  BY DEF Arrives, Finds, ChecksShelter, ChecksCount, Begins, Locks, Inserts,
         Rereads, Leaves, AnswersWith, Existing
<1>5. TypeOK'
  <2>1. told' \subseteq Reveals
    BY <1>4 DEF TypeOK
  <2>2. CASE Arrives(r) \/ Begins(r) \/ Locks(r)
    <3>1. CASE Arrives(r)
      BY <2>1, <3>1, <1>1 DEF TypeOK, RequestStates, Arrives
    <3>2. CASE Begins(r)
      BY <2>1, <3>2, <1>1 DEF TypeOK, RequestStates, Begins
    <3>3. CASE Locks(r)
      BY <2>1, <3>3, <1>1 DEF TypeOK, RequestStates, Locks, Snapshot
    <3> QED
      BY <2>2, <3>1, <3>2, <3>3
  <2>3. CASE Finds(r) \/ ChecksShelter(r) \/ ChecksCount(r)
    BY <2>1, <2>3, <1>1
       DEF TypeOK, RequestStates, Finds, ChecksShelter, ChecksCount, Goes,
           Ends, AnswersWith
  <2>4. CASE Inserts(r) \/ Rereads(r) \/ Leaves(r)
    BY <2>1, <2>4, <1>1
       DEF TypeOK, RequestStates, Inserts, Rereads, Leaves, Goes, Ends,
           AnswersWith
  <2> QED
    BY <2>2, <2>3, <2>4
<1>6. LockSerialises'
  <2> SUFFICES ASSUME NEW q \in Requests, request'[q].pc \in {"insert", "commit"}
               PROVE  lock' = q /\ request'[q].seen = rows
    BY <1>1 DEF LockSerialises
  <2>1. CASE q = r
    <3>2. CASE Locks(r)
      BY <2>1, <3>2 DEF TypeOK, Locks, Snapshot
    <3>3. CASE request[r].pc = "insert" /\ Goes(r, "commit") /\ UNCHANGED lock
      BY <2>1, <3>3 DEF TypeOK, LockSerialises, Goes
    <3> QED
      BY <2>1, <1>3, <3>2, <3>3
  <2>2. CASE q # r
    <3>1. lock = q /\ request[q].seen = rows /\ request'[q] = request[q]
      BY <2>2, <1>2 DEF LockSerialises
    <3>2. lock' = q
      BY <3>1, <2>2
         DEF LockSerialises, Arrives, Finds, ChecksShelter, ChecksCount,
             Begins, Locks, Inserts, Rereads, Leaves
    <3> QED
      BY <3>1, <3>2
  <2> QED
    BY <2>1, <2>2
<1>7. InsertsWithinBudget'
  <2> SUFFICES ASSUME NEW q \in Requests, request'[q].pc = "commit"
               PROVE  WithinBudget(q, request[q].seen)'
    BY DEF InsertsWithinBudget
  <2>1. CASE q = r
    <3>1. WithinBudget(q, request[q].seen) /\ Goes(r, "commit")
      BY <2>1, <1>3 DEF TypeOK, RequestStates, Locks
    <3>2. /\ request'[q].seen = request[q].seen
          /\ request'[q].now = request[q].now
          /\ request'[q].animal = request[q].animal
      BY <2>1, <3>1 DEF TypeOK, RequestStates, Goes
    <3> QED
      BY <3>1, <3>2 DEF WithinBudget, FreeReReveal, BudgetLeft, Recent, SheltersOf
  <2>2. CASE q # r
    <3>1. request'[q] = request[q] /\ WithinBudget(q, request[q].seen)
      BY <2>2, <1>2 DEF InsertsWithinBudget
    <3> QED
      BY <3>1 DEF WithinBudget, FreeReReveal, BudgetLeft, Recent, SheltersOf
  <2> QED
    BY <2>1, <2>2
<1>8. OneRevealPerAnimal' /\ IsFiniteSet(SheltersOf(rows))' /\ ChargedWithinBudget'
  BY <1>1 DEF OneRevealPerAnimal, SheltersOf, ChargedWithinBudget, ChargedAt
<1> QED
  BY <1>1, <1>4, <1>5, <1>6, <1>7, <1>8

(* The step that writes one.                                               *)
LEMMA CommitStep ==
  ASSUME BudgetInv, NEW r \in Requests, Commits(r)
  PROVE  BudgetInv'
<1> USE RevealAssumption DEF BudgetInv
<1>1. /\ request[r].seen = rows /\ lock = r
      /\ WithinBudget(r, rows)
      /\ rows' = rows \cup {RevealOf(r)}
  BY DEF Commits, LockSerialises, InsertsWithinBudget
<1>2. RevealOf(r) \in Reveals
  BY DEF TypeOK, RequestStates, Reveals, RevealOf
<1>3. TypeOK'
  BY <1>1, <1>2
     DEF TypeOK, RequestStates, Commits, AnswersWith, Ends
<1>4. LockSerialises' /\ InsertsWithinBudget'
  <2>1. \A q \in Requests : request'[q].pc \notin {"insert", "commit"}
    BY <1>1 DEF TypeOK, LockSerialises, Commits, AnswersWith, Ends
  <2> QED
    BY <2>1 DEF LockSerialises, InsertsWithinBudget
<1>5. OneRevealPerAnimal'
  BY <1>1 DEF OneRevealPerAnimal, WithinBudget, RevealOf
<1>6. told' \subseteq rows'
  BY <1>1 DEF Commits, AnswersWith
<1>7. IsFiniteSet(SheltersOf(rows))'
  <2>1. IsFiniteSet(SheltersOf(rows \cup {RevealOf(r)}))
    BY OneMoreShelter
  <2> QED
    BY <1>1, <2>1 DEF SheltersOf
<1>8. ChargedWithinBudget'
  BY <1>1, GuardKeepsBudget
<1> QED
  BY <1>3, <1>4, <1>5, <1>6, <1>7, <1>8

THEOREM BudgetStep == BudgetInv /\ [Next]_vars => BudgetInv'
<1> SUFFICES ASSUME BudgetInv, [Next]_vars PROVE BudgetInv'
  OBVIOUS
<1>1. CASE Tick
  <2>1. UNCHANGED <<rows, lock, request, told>> /\ clock' \in Instants
    BY <1>1, RevealAssumption DEF Tick, BudgetInv, TypeOK, Instants, RevealAssumption
  <2> QED
    BY <2>1
       DEF BudgetInv, TypeOK, LockSerialises, InsertsWithinBudget,
           OneRevealPerAnimal, ChargedWithinBudget, ChargedAt, SheltersOf,
           WithinBudget, FreeReReveal, BudgetLeft, Recent
<1>2. ASSUME NEW r \in Requests, Commits(r) PROVE BudgetInv'
  BY <1>2, CommitStep
<1>3. ASSUME NEW r \in Requests,
             \/ Arrives(r) \/ Finds(r) \/ ChecksShelter(r) \/ ChecksCount(r)
             \/ Begins(r) \/ Locks(r) \/ Inserts(r) \/ Rereads(r) \/ Leaves(r)
      PROVE  BudgetInv'
  BY <1>3, QuietStep
<1>4. CASE UNCHANGED vars
  BY <1>4
     DEF vars, BudgetInv, TypeOK, LockSerialises, InsertsWithinBudget,
         OneRevealPerAnimal, ChargedWithinBudget, ChargedAt, SheltersOf,
         WithinBudget, FreeReReveal, BudgetLeft, Recent
<1> QED
  BY <1>1, <1>2, <1>3, <1>4 DEF Next

-----------------------------------------------------------------------------

(* "Held by a guarded write under a lock on the adopter's row": no window  *)
(* of any length charges an adopter for more shelters than the budget.     *)
THEOREM BudgetHolds == Spec => []ChargedWithinBudget
<1>1. BudgetInv => ChargedWithinBudget
  BY DEF BudgetInv
<1> QED
  BY <1>1, InitBudget, BudgetStep, PTL DEF Spec

(* Every reveal, request and answer keeps its type through every overlap.  *)
THEOREM RevealsStayTyped == Spec => []TypeOK
<1>1. BudgetInv => TypeOK
  BY DEF BudgetInv
<1> QED
  BY <1>1, InitBudget, BudgetStep, PTL DEF Spec

(* An animal is only ever told with the one reveal stored of it.           *)
THEOREM RevealIsIdempotent == Spec => []OneRevealTold
<1>1. BudgetInv => OneRevealTold
  BY DEF BudgetInv, OneRevealTold, OneRevealPerAnimal
<1> QED
  BY <1>1, InitBudget, BudgetStep, PTL DEF Spec

=============================================================================
