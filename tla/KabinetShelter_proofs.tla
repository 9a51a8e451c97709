----------------------- MODULE KabinetShelter_proofs -----------------------
(***************************************************************************)
(* What a shelter's row and its history keep through every overlap of      *)
(* requests, for every start, text, logo, link, bound and period.          *)
(*                                                                         *)
(* The argument: every write bumps the version, so a row still at the      *)
(* version a request read is the row it read.  A plan that lands was then  *)
(* made on the row it changes, and its lines tell what it replaced.        *)
(***************************************************************************)
EXTENDS KabinetShelter, FiniteSetTheorems, SequenceTheorems, TLAPS

(* What a request in flight relies on.                                     *)
SeenInv(q, theRow) ==
  /\ q.pc # "idle" => q.op \in Ops
  /\ q.pc \in {"count", "write"} =>
       /\ q.seen \in Rows
       /\ q.seen.version <= theRow.version
       /\ q.seen.version = theRow.version => q.seen = theRow
       /\ q.op.type = "decide" => q.op.version = q.seen.version
  /\ q.pc # "idle" /\ q.op.type = "decide" =>
       /\ q.op.version <= theRow.version
       /\ q.op.version = theRow.version => q.op.shown = theRow.pending

(* A shelter open, or to be open once a suspension is lifted, was not last *)
(* closed by itself.                                                       *)
PauseRemembered ==
  LET turns == MovesOf({"pause", "resume", "approve"})
      v == row.verification
  IN  \/ v.status = "verified"
      \/ v.status = "suspended" /\ v.priorState.status = "verified"
      => \A i \in turns : IsLast(turns, i) => history[i].event # "pause"

MovesInv == VerificationChains /\ ApprovalKept /\ PauseRemembered

PermissionInv == EarlyOnlyWhileOpen /\ PermissionsAccounted

IInv ==
  /\ TypeOK
  /\ \A r \in Requests : SeenInv(req[r], row)
  /\ MovesInv
  /\ PermissionInv
  /\ PreviousIsReplaced

-----------------------------------------------------------------------------
(* Logs.                                                                   *)

(* One more line, after all others: it follows the last.                   *)
LEMMA OneMore ==
  ASSUME NEW lines, lines \subseteq Nat, NEW p \in Nat, \A k \in lines : k < p
  PROVE  /\ \A i : IsLast(lines \cup {p}, i) <=> i = p
         /\ \A i, j : Follows(lines \cup {p}, i, j) =>
              Follows(lines, i, j) \/ (IsLast(lines, i) /\ j = p)
<1>1. ASSUME NEW i PROVE IsLast(lines \cup {p}, i) <=> i = p
  <2>1. IsLast(lines \cup {p}, p)
    BY DEF IsLast
  <2>2. ASSUME i \in lines PROVE ~IsLast(lines \cup {p}, i)
    <3>1. i < p /\ i \in Nat
      BY <2>2
    <3>2. ~(p <= i)
      BY <3>1
    <3> QED
      BY <3>2 DEF IsLast
  <2> QED
    BY <2>1, <2>2 DEF IsLast
<1>2. ASSUME NEW i, NEW j, Follows(lines \cup {p}, i, j)
      PROVE  Follows(lines, i, j) \/ (IsLast(lines, i) /\ j = p)
  <2>1. i \in lines
    BY <1>2 DEF Follows
  <2>2. CASE j = p
    BY <1>2, <2>1, <2>2 DEF Follows, IsLast
  <2>3. CASE j # p
    BY <1>2, <2>1, <2>3 DEF Follows
  <2> QED
    BY <2>2, <2>3
<1> QED
  BY <1>1, <1>2

(* What a concatenation holds at each position.                            *)
LEMMA Appended ==
  ASSUME NEW h \in Seq(Lines), NEW more \in Seq(Lines)
  PROVE  /\ h \o more \in Seq(Lines)
         /\ Len(h) \in Nat /\ Len(more) \in Nat
         /\ DOMAIN h = 1 .. Len(h)
         /\ DOMAIN (h \o more) = 1 .. Len(h) + Len(more)
         /\ \A i \in 1 .. Len(h) : (h \o more)[i] = h[i]
         /\ \A i \in 1 .. Len(more) : (h \o more)[Len(h) + i] = more[i]
  BY ConcatProperties

-----------------------------------------------------------------------------
(* Plans, on a row as it was read.                                         *)

LEMMA NextTyped ==
  ASSUME NEW v \in Verifications, NEW event \in LegalMoves(v.status), NEW at \in Nat
  PROVE  /\ NextVerification(v, event, at) \in Verifications
         /\ v.status \in Statuses
         /\ event \in VerificationEvents
         /\ NextVerification(v, event, at).status \in Statuses
  BY DEF Verifications, InterruptedStates, LegalMoves, NextVerification,
         Statuses, VerificationEvents

(* The line of a move.                                                     *)
MoveLine(v, event, at) ==
  [kind |-> "verification", event |-> event, at |-> at,
   from |-> v.status, to |-> NextVerification(v, event, at).status]

(* The lines that end a permission beside a move.                          *)
LapseOrNone == {<<>>} \cup {<<[kind |-> "lapsed", at |-> at]>> : at \in Nat}

LEMMA LapseTyped ==
  ASSUME NEW seen \in Rows, NEW now \in Nat
  PROVE  LapseLines(seen, now) \in LapseOrNone
  BY VerificationAssumption, KabinetShelterAssumption
     DEF LapseLines, Lapsed, Rows, LapseOrNone

LEMMA LapseOrNoneTyped ==
  ASSUME NEW lapse \in LapseOrNone
  PROVE  /\ lapse \in Seq(Lines)
         /\ Len(lapse) \in {0, 1}
         /\ Len(lapse) = 1 => lapse[1].kind = "lapsed"
<1>1. CASE lapse = <<>>
  BY <1>1
<1>2. CASE lapse # <<>>
  <2>1. PICK at \in Nat : lapse = <<[kind |-> "lapsed", at |-> at]>>
    BY <1>2 DEF LapseOrNone
  <2>2. [kind |-> "lapsed", at |-> at] \in Lines
    BY DEF Lines
  <2> QED
    BY <2>1, <2>2
<1> QED
  BY <1>1, <1>2

(* A move that is planned is legal, and an approval stands on evidence.    *)
PlannedMove(plan, seen, event, evidence, now) ==
  LET v    == seen.verification
      next == NextVerification(v, event, now)
  IN  /\ event \in LegalMoves(v.status)
      /\ event = "approve" => MayApprove(seen)
      /\ plan.columns = [verification |-> next, evidence |-> evidence]
      /\ \E lapse \in LapseOrNone :
           /\ plan.lines = <<MoveLine(v, event, now)>> \o lapse
           /\ KeepsEarlyListing(v.status, next.status) => lapse = <<>>

LEMMA MovePlanned ==
  ASSUME NEW seen \in Rows, NEW event, NEW evidence, NEW now \in Nat
  PROVE  LET plan == MovePlan(seen, event, evidence, now)
         IN  plan = NoPlan \/ PlannedMove(plan, seen, event, evidence, now)
<1> DEFINE v    == seen.verification
           next == NextVerification(v, event, now)
           keeps == KeepsEarlyListing(v.status, next.status)
           lapse == IF keeps THEN <<>> ELSE LapseLines(seen, now)
<1>1. lapse \in LapseOrNone
  BY LapseTyped DEF LapseOrNone
<1>2. CASE \/ MoveVerdict(v, event, now) # "ok"
           \/ event = "approve" /\ ~MayApprove(seen)
  BY <1>2 DEF MovePlan
<1>3. CASE ~(\/ MoveVerdict(v, event, now) # "ok"
             \/ event = "approve" /\ ~MayApprove(seen))
  <2>1. event \in LegalMoves(v.status)
    BY <1>3 DEF MoveVerdict
  <2>2. MovePlan(seen, event, evidence, now)
          = [columns |-> [verification |-> next, evidence |-> evidence],
             lines |-> <<MoveLine(v, event, now)>> \o lapse]
    BY <1>3 DEF MovePlan, Plan, MoveLine
  <2> QED
    BY <1>1, <1>3, <2>1, <2>2 DEF PlannedMove
<1> QED
  BY <1>2, <1>3

-----------------------------------------------------------------------------
(* Lines that are written beside a part of the row that they do not tell   *)
(* of.                                                                     *)

LEMMA MovesKept ==
  ASSUME MovesInv, history \in Seq(Lines), NEW more \in Seq(Lines),
         \A i \in 1 .. Len(more) : more[i].kind # "verification",
         history' = history \o more,
         row'.verification = row.verification
  PROVE  MovesInv'
<1>1. ASSUME NEW events
      PROVE  /\ MovesOf(events)' = MovesOf(events)
             /\ \A i \in MovesOf(events) : history'[i] = history[i]
  <2>1. \A i \in 1 .. Len(history) + Len(more) :
          \/ i \in 1 .. Len(history)
          \/ i - Len(history) \in 1 .. Len(more) /\ i = Len(history) + (i - Len(history))
    BY Appended
  <2> QED
    BY <2>1, Appended DEF MovesOf
<1>2. VerificationChains'
  <2> DEFINE moves == MovesOf(VerificationEvents)
  <2>1. /\ \A i, j \in moves : Follows(moves, i, j) => history[i].to = history[j].from
        /\ \A i \in moves : IsLast(moves, i) => history[i].to = row.verification.status
    BY DEF MovesInv, VerificationChains
  <2>2. /\ moves' = moves
        /\ \A i \in moves : history'[i] = history[i]
    BY <1>1
  <2>3. ASSUME NEW i \in moves, NEW j \in moves, Follows(moves, i, j)
        PROVE  history'[i].to = history'[j].from
    BY <2>1, <2>2, <2>3
  <2>4. ASSUME NEW i \in moves, IsLast(moves, i)
        PROVE  history'[i].to = row'.verification.status
    BY <2>1, <2>2, <2>4
  <2> QED
    BY <2>2, <2>3, <2>4 DEF VerificationChains
<1>3. ApprovalKept'
  BY <1>1 DEF MovesInv, ApprovalKept
<1>4. PauseRemembered'
  BY <1>1 DEF MovesInv, PauseRemembered
<1> QED
  BY <1>2, <1>3, <1>4 DEF MovesInv

LEMMA PermissionKept ==
  ASSUME PermissionInv, history \in Seq(Lines), NEW more \in Seq(Lines),
         \A i \in 1 .. Len(more) : /\ more[i].kind \notin {"allowed", "lapsed"}
                                   /\ ~EndsPermission(more[i]),
         history' = history \o more,
         row'.early = row.early,
         row.early # None => row'.verification.status \in OpenStatuses
  PROVE  PermissionInv'
<1>1. /\ PermissionLines' = PermissionLines
      /\ \A i \in PermissionLines : history'[i] = history[i]
  <2>1. \A i \in 1 .. Len(history) + Len(more) :
          \/ i \in 1 .. Len(history)
          \/ i - Len(history) \in 1 .. Len(more) /\ i = Len(history) + (i - Len(history))
    BY Appended
  <2> QED
    BY <2>1, Appended DEF PermissionLines
<1> QED
  BY <1>1 DEF PermissionInv, PermissionsAccounted, EarlyOnlyWhileOpen

LEMMA FieldsKept ==
  ASSUME PreviousIsReplaced, history \in Seq(Lines), NEW more \in Seq(Lines),
         \A i \in 1 .. Len(more) : more[i].kind # "field",
         history' = history \o more,
         row'.profile = row.profile
  PROVE  PreviousIsReplaced'
<1>1. ASSUME NEW field
      PROVE  /\ FieldLines(field)' = FieldLines(field)
             /\ \A i \in FieldLines(field) : history'[i] = history[i]
  <2>1. \A i \in 1 .. Len(history) + Len(more) :
          \/ i \in 1 .. Len(history)
          \/ i - Len(history) \in 1 .. Len(more) /\ i = Len(history) + (i - Len(history))
    BY Appended
  <2> QED
    BY <2>1, Appended DEF FieldLines
<1>2. ASSUME NEW field \in DOMAIN row.profile, NEW lines, lines = FieldLines(field)
      PROVE  /\ \A i, j \in lines : Follows(lines, i, j) => history[i].next = history[j].previous
             /\ \A i \in lines : IsLast(lines, i) => history[i].next = row.profile[field]
  BY <1>2 DEF PreviousIsReplaced
<1>3. ASSUME NEW field \in DOMAIN row.profile, NEW lines, lines = FieldLines(field)
      PROVE  /\ \A i, j \in lines : Follows(lines, i, j) => history'[i].next = history'[j].previous
             /\ \A i \in lines : IsLast(lines, i) => history'[i].next = row'.profile[field]
  <2>1. \A i \in lines : history'[i] = history[i]
    BY <1>1, <1>3
  <2>2. ASSUME NEW i \in lines, NEW j \in lines, Follows(lines, i, j)
        PROVE  history'[i].next = history'[j].previous
    <3>1. history[i].next = history[j].previous
      BY <1>2, <1>3, <2>2
    <3> QED
      BY <2>1, <3>1
  <2>3. ASSUME NEW i \in lines, IsLast(lines, i)
        PROVE  history'[i].next = row'.profile[field]
    BY <1>2, <1>3, <2>1, <2>3
  <2> QED
    BY <2>2, <2>3
<1> QED
  BY <1>1, <1>3 DEF PreviousIsReplaced

-----------------------------------------------------------------------------
(* A move lands.                                                           *)

LEMMA MoveTyped ==
  ASSUME NEW v \in Verifications, NEW event \in LegalMoves(v.status),
         NEW at \in Nat, NEW lapse \in LapseOrNone
  PROVE  LET more == <<MoveLine(v, event, at)>> \o lapse
         IN  /\ more \in Seq(Lines)
             /\ Len(more) \in {1, 2}
             /\ more[1] = MoveLine(v, event, at)
             /\ Len(more) = 2 => more[2].kind = "lapsed"
             /\ lapse = <<>> => Len(more) = 1
<1>1. MoveLine(v, event, at) \in Lines
  BY NextTyped DEF MoveLine, Lines
<1> HIDE DEF MoveLine
<1>2. <<MoveLine(v, event, at)>> \in Seq(Lines)
  BY <1>1
<1> QED
  BY <1>1, <1>2, LapseOrNoneTyped, Appended

LEMMA MovesStep ==
  ASSUME MovesInv, history \in Seq(Lines), row.verification \in Verifications,
         NEW event \in LegalMoves(row.verification.status), NEW at \in Nat,
         NEW lapse \in LapseOrNone,
         row'.verification = NextVerification(row.verification, event, at),
         history' = history \o (<<MoveLine(row.verification, event, at)>> \o lapse)
  PROVE  MovesInv'
<1> DEFINE m == MoveLine(row.verification, event, at)
           more == <<m>> \o lapse
           n == Len(history)
<1>1. /\ more \in Seq(Lines)
      /\ Len(more) \in {1, 2}
      /\ more[1] = m
      /\ Len(more) = 2 => more[2].kind = "lapsed"
  BY MoveTyped
<1>2. /\ n \in Nat /\ DOMAIN history = 1 .. n
      /\ DOMAIN history' = 1 .. n + Len(more)
      /\ \A i \in 1 .. n : history'[i] = history[i]
      /\ history'[n + 1] = m
      /\ Len(more) = 2 => history'[n + 2].kind = "lapsed"
  <2> HIDE DEF m, more
  <2>1. history' = history \o more
    BY DEF m, more
  <2> QED
    BY <1>1, <2>1, Appended
<1>3. ASSUME NEW events
      PROVE  /\ MovesOf(events) \subseteq 1 .. n
             /\ MovesOf(events)' = IF event \in events THEN MovesOf(events) \cup {n + 1}
                                   ELSE MovesOf(events)
  <2>1. m.kind = "verification" /\ m.event = event
    BY DEF MoveLine
  <2> HIDE DEF m, more
  <2>2. \A i \in 1 .. n + Len(more) : i \in 1 .. n \/ i = n + 1 \/ (Len(more) = 2 /\ i = n + 2)
    <3>1. CASE Len(more) = 1
      BY <1>2, <3>1
    <3>2. CASE Len(more) = 2
      BY <1>2, <3>2
    <3> QED
      BY <1>1, <3>1, <3>2
  <2>3. \A i \in 1 .. n : i \in 1 .. n + Len(more)
    BY <1>1, <1>2
  <2>4. n + 1 \in 1 .. n + Len(more)
    BY <1>1, <1>2
  <2> QED
    BY <1>1, <1>2, <2>1, <2>2, <2>3, <2>4 DEF MovesOf
<1>4. ASSUME NEW events, event \in events
      PROVE  /\ \A i : IsLast(MovesOf(events)', i) <=> i = n + 1
             /\ \A i, j : Follows(MovesOf(events)', i, j) =>
                  \/ Follows(MovesOf(events), i, j)
                  \/ IsLast(MovesOf(events), i) /\ j = n + 1
  <2>1. /\ MovesOf(events) \subseteq Nat /\ n + 1 \in Nat
        /\ \A k \in MovesOf(events) : k < n + 1
    BY <1>2, <1>3
  <2>2. MovesOf(events)' = MovesOf(events) \cup {n + 1}
    BY <1>3, <1>4
  <2> DEFINE lines == MovesOf(events)
  <2>3. /\ lines \subseteq Nat /\ n + 1 \in Nat
        /\ \A k \in lines : k < n + 1
        /\ MovesOf(events)' = lines \cup {n + 1}
    BY <2>1, <2>2
  <2> HIDE DEF lines, n
  <2>4. /\ \A i : IsLast(lines \cup {n + 1}, i) <=> i = n + 1
        /\ \A i, j : Follows(lines \cup {n + 1}, i, j) =>
             Follows(lines, i, j) \/ (IsLast(lines, i) /\ j = n + 1)
    BY <2>3, OneMore
  <2> QED
    BY <2>3, <2>4 DEF lines
<1>5. /\ m.from = row.verification.status
      /\ m.to = row'.verification.status
      /\ m.at = at
      /\ m.event = event
      /\ event \in VerificationEvents
  BY NextTyped DEF MoveLine
<1> HIDE DEF m, more
<1>6. VerificationChains'
  <2> DEFINE moves == MovesOf(VerificationEvents)
  <2>1. ASSUME NEW i, NEW j, Follows(moves', i, j)
        PROVE  history'[i].to = history'[j].from
    <3>1. CASE Follows(moves, i, j)
      <4>1. i \in moves /\ j \in moves
        BY <3>1 DEF Follows
      <4>2. history'[i] = history[i] /\ history'[j] = history[j]
        BY <1>2, <1>3, <4>1
      <4> QED
        BY <3>1, <4>1, <4>2 DEF MovesInv, VerificationChains
    <3>2. CASE IsLast(moves, i) /\ j = n + 1
      <4>1. i \in moves
        BY <3>2 DEF IsLast
      <4>2. history'[i] = history[i] /\ history'[j] = m
        BY <1>2, <1>3, <3>2, <4>1
      <4> QED
        BY <1>5, <3>2, <4>1, <4>2 DEF MovesInv, VerificationChains
    <3> QED
      BY <1>4, <1>5, <2>1, <3>1, <3>2
  <2>2. ASSUME NEW i, IsLast(moves', i)
        PROVE  history'[i].to = row'.verification.status
    <3>1. i = n + 1
      BY <1>4, <1>5, <2>2
    <3> QED
      BY <1>2, <1>5, <3>1
  <2> QED
    BY <2>1, <2>2 DEF VerificationChains
<1>7. ApprovalKept'
  <2>1. CASE event = "approve"
    <3>1. row'.verification = [status |-> "verified", verifiedAt |-> at]
      BY <2>1 DEF NextVerification
    <3>2. \A i : IsLast(MovesOf({"approve"})', i) => history'[i].at = at
      BY <1>2, <1>4, <1>5, <2>1
    <3>3. /\ row'.verification.status = "verified"
          /\ row'.verification.verifiedAt = at
      BY <3>1
    <3> QED
      BY <3>2, <3>3 DEF ApprovalKept
  <2>2. CASE event # "approve"
    <3>1. /\ MovesOf({"approve"})' = MovesOf({"approve"})
          /\ \A i \in MovesOf({"approve"}) : history'[i] = history[i]
      BY <1>2, <1>3, <2>2
    <3> DEFINE At(v) == IF v.status = "suspended" THEN v.priorState.verifiedAt
                                                 ELSE v.verifiedAt
               Approved == {"verified", "paused", "suspended"}
    <3>2. row'.verification.status \in Approved =>
            /\ row.verification.status \in Approved
            /\ At(row'.verification) = At(row.verification)
      BY <2>2 DEF NextVerification, LegalMoves, Verifications, InterruptedStates
    <3> QED
      BY <3>1, <3>2 DEF MovesInv, ApprovalKept
  <2> QED
    BY <2>1, <2>2
<1>8. PauseRemembered'
  <2> DEFINE turns == {"pause", "resume", "approve"}
             Open(v) == \/ v.status = "verified"
                        \/ v.status = "suspended" /\ v.priorState.status = "verified"
  <2>1. CASE event = "pause"
    BY <2>1 DEF PauseRemembered, NextVerification
  <2>2. CASE event \in {"resume", "approve"}
    <3>1. \A i : IsLast(MovesOf(turns)', i) => history'[i].event = event
      BY <1>2, <1>4, <1>5, <2>2
    <3> QED
      BY <2>2, <3>1 DEF PauseRemembered
  <2>3. CASE event \notin turns
    <3>1. /\ MovesOf(turns)' = MovesOf(turns)
          /\ \A i \in MovesOf(turns) : history'[i] = history[i]
      BY <1>2, <1>3, <2>3
    <3>2. Open(row'.verification) => Open(row.verification)
      <4>1. CASE event = "suspend"
        BY <4>1 DEF NextVerification
      <4>2. CASE event = "reinstate"
        <5>1. row.verification.status = "suspended"
          BY <4>2 DEF LegalMoves, Verifications, InterruptedStates
        <5>2. /\ row'.verification = row.verification.priorState
              /\ row.verification.priorState \in InterruptedStates
          BY <4>2, <5>1 DEF NextVerification, Verifications, InterruptedStates
        <5> QED
          BY <5>1, <5>2 DEF InterruptedStates
      <4>3. CASE event \in {"start_review", "reject", "resubmit"}
        <5>1. row'.verification.status \in {"under_review", "rejected", "pending"}
          BY <4>3 DEF NextVerification
        <5> QED
          BY <5>1
      <4> QED
        BY <1>5, <2>3, <4>1, <4>2, <4>3 DEF VerificationEvents
    <3> QED
      BY <3>1, <3>2 DEF MovesInv, PauseRemembered
  <2> QED
    BY <2>1, <2>2, <2>3
<1> QED
  BY <1>6, <1>7, <1>8 DEF MovesInv

-----------------------------------------------------------------------------
(* Lines about a permission are written: one, or two of which the first is *)
(* no allowance, and what the last says is what the row holds.             *)

LEMMA PermissionStep ==
  ASSUME PermissionsAccounted, history \in Seq(Lines), NEW more \in Seq(Lines),
         Len(more) \in {1, 2},
         \A i \in 1 .. Len(more) :
           more[i].kind \in {"allowed", "lapsed"} \/ EndsPermission(more[i]),
         more[1].kind = "allowed" => row.early = None,
         Len(more) = 2 => more[1].kind # "allowed",
         history' = history \o more,
         row'.early = IF more[Len(more)].kind = "allowed" THEN more[Len(more)].at
                      ELSE None,
         \A i \in DOMAIN history : history[i].kind = "allowed" => history[i].at # None
  PROVE  PermissionsAccounted'
<1> DEFINE n == Len(history)
           lines == PermissionLines
           first == lines \cup {n + 1}
           Allowed(i) == history'[i].kind = "allowed"
<1>1. /\ n \in Nat /\ DOMAIN history = 1 .. n
      /\ DOMAIN history' = 1 .. n + Len(more)
      /\ \A i \in 1 .. n : history'[i] = history[i]
      /\ history'[n + 1] = more[1]
      /\ Len(more) = 2 => history'[n + 2] = more[2]
  BY Appended
<1>2. lines \subseteq 1 .. n
  BY <1>1 DEF PermissionLines
<1>3. /\ \A i \in lines : IsLast(lines, i) =>
           row.early = IF history[i].kind = "allowed" THEN history[i].at ELSE None
      /\ \A i, j \in lines : Follows(lines, i, j) =>
           ~(history[i].kind = "allowed" /\ history[j].kind = "allowed")
  BY DEF PermissionsAccounted
<1>4. \A i \in lines : history'[i] = history[i] /\ i \in DOMAIN history
  BY <1>1, <1>2
<1>5. /\ \A i : IsLast(first, i) <=> i = n + 1
      /\ \A i, j : Follows(first, i, j) =>
           Follows(lines, i, j) \/ (IsLast(lines, i) /\ j = n + 1)
  <2>1. /\ lines \subseteq Nat /\ n + 1 \in Nat
        /\ \A k \in lines : k < n + 1
    BY <1>1, <1>2
  <2> HIDE DEF lines, n
  <2> QED
    BY <2>1, OneMore
<1>6. ASSUME NEW i, NEW j, Follows(first, i, j)
      PROVE  ~(Allowed(i) /\ Allowed(j))
  <2>1. CASE Follows(lines, i, j)
    <3>1. i \in lines /\ j \in lines
      BY <2>1 DEF Follows
    <3> QED
      BY <1>3, <1>4, <2>1, <3>1
  <2>2. CASE IsLast(lines, i) /\ j = n + 1 /\ more[1].kind # "allowed"
    BY <1>1, <2>2
  <2>3. CASE IsLast(lines, i) /\ j = n + 1 /\ more[1].kind = "allowed"
    <3>1. i \in lines /\ row.early = None
      BY <2>3 DEF IsLast
    <3>2. history[i].kind # "allowed"
      BY <1>3, <1>4, <2>3, <3>1
    <3> QED
      BY <1>4, <3>1, <3>2
  <2> QED
    BY <1>5, <1>6, <2>1, <2>2, <2>3
<1>7. CASE Len(more) = 1
  <2>1. PermissionLines' = first
    <3>1. \A i \in 1 .. n + 1 : i \in 1 .. n \/ i = n + 1
      BY <1>1
    <3>2. more[1].kind \in {"allowed", "lapsed"} \/ EndsPermission(more[1])
      BY <1>7
    <3>3. /\ \A i \in 1 .. n : i \in 1 .. n + 1
          /\ n + 1 \in 1 .. n + 1
      BY <1>1
    <3> QED
      BY <1>1, <1>7, <3>1, <3>2, <3>3 DEF PermissionLines
  <2>2. first # {}
    OBVIOUS
  <2>3. history'[n + 1] = more[Len(more)]
    BY <1>1, <1>7
  <2> HIDE DEF first, n
  <2>4. ASSUME NEW i, IsLast(first, i)
        PROVE  row'.early = IF history'[i].kind = "allowed" THEN history'[i].at ELSE None
    BY <1>5, <2>3, <2>4
  <2> QED
    BY <1>6, <2>1, <2>2, <2>4 DEF PermissionsAccounted
<1>8. CASE Len(more) = 2
  <2> DEFINE second == first \cup {n + 2}
  <2>1. PermissionLines' = second
    <3>1. \A i \in 1 .. n + 2 : i \in 1 .. n \/ i = n + 1 \/ i = n + 2
      <4>1. n \in Nat
        BY <1>1
      <4> HIDE DEF n
      <4> QED
        BY <4>1
    <3>2. /\ more[1].kind \in {"allowed", "lapsed"} \/ EndsPermission(more[1])
          /\ more[2].kind \in {"allowed", "lapsed"} \/ EndsPermission(more[2])
      BY <1>8
    <3>3. /\ \A i \in 1 .. n : i \in 1 .. n + 2
          /\ n + 1 \in 1 .. n + 2 /\ n + 2 \in 1 .. n + 2
      BY <1>1
    <3> QED
      BY <1>1, <1>8, <3>1, <3>2, <3>3 DEF PermissionLines
  <2>2. second # {}
    OBVIOUS
  <2>3. history'[n + 2] = more[Len(more)]
    BY <1>1, <1>8
  <2>4. /\ \A i : IsLast(second, i) <=> i = n + 2
        /\ \A i, j : Follows(second, i, j) =>
             Follows(first, i, j) \/ (IsLast(first, i) /\ j = n + 2)
    <3>1. /\ first \subseteq Nat /\ n + 2 \in Nat
          /\ \A k \in first : k < n + 2
      <4>1. n \in Nat /\ \A k \in lines : k \in Nat /\ k <= n
        BY <1>1, <1>2
      <4> HIDE DEF n, lines
      <4> QED
        BY <4>1
    <3> HIDE DEF first, n
    <3> QED
      BY <3>1, OneMore
  <2>5. ASSUME NEW i, NEW j, Follows(second, i, j)
        PROVE  ~(Allowed(i) /\ Allowed(j))
    <3>1. CASE Follows(first, i, j)
      BY <1>6, <3>1
    <3>2. CASE IsLast(first, i)
      <4>1. i = n + 1
        BY <1>5, <3>2
      <4> QED
        BY <1>1, <1>8, <4>1
    <3> QED
      BY <2>4, <2>5, <3>1, <3>2
  <2> HIDE DEF first, n, second
  <2>6. ASSUME NEW i, IsLast(second, i)
        PROVE  row'.early = IF history'[i].kind = "allowed" THEN history'[i].at ELSE None
    BY <2>3, <2>4, <2>6
  <2> QED
    BY <2>1, <2>2, <2>5, <2>6 DEF PermissionsAccounted
<1> QED
  BY <1>7, <1>8

-----------------------------------------------------------------------------
(* Fields are written: at most one line for each, from the value there to  *)
(* the one written.                                                        *)

Tells(lines, fields, old, new) ==
  /\ lines \in Seq(Lines)
  /\ \A i \in 1 .. Len(lines) :
       /\ lines[i].kind = "field"
       /\ lines[i].field \in fields
       /\ lines[i].previous = old[lines[i].field]
       /\ lines[i].next = new[lines[i].field]
  /\ \A i, j \in 1 .. Len(lines) : lines[i].field = lines[j].field => i = j
  /\ \A field \in fields : \E i \in 1 .. Len(lines) : lines[i].field = field

LEMMA FieldsStep ==
  ASSUME PreviousIsReplaced, history \in Seq(Lines), NEW more, NEW fields,
         Tells(more, fields, row.profile, row'.profile),
         history' = history \o more,
         DOMAIN row'.profile = DOMAIN row.profile,
         \A field \in DOMAIN row.profile :
           (\A i \in 1 .. Len(more) : more[i].field # field)
             => row'.profile[field] = row.profile[field]
  PROVE  PreviousIsReplaced'
<1> DEFINE n == Len(history)
<1>1. more \in Seq(Lines)
  BY DEF Tells
<1>2. /\ n \in Nat /\ Len(more) \in Nat /\ DOMAIN history = 1 .. n
      /\ DOMAIN history' = 1 .. n + Len(more)
      /\ \A i \in 1 .. n : history'[i] = history[i]
      /\ \A i \in 1 .. Len(more) : history'[n + i] = more[i]
  BY <1>1, Appended
<1>3. \A i \in 1 .. n + Len(more) :
        \/ i \in 1 .. n
        \/ i - n \in 1 .. Len(more) /\ i = n + (i - n)
  BY <1>2
<1>4. SUFFICES ASSUME NEW field \in DOMAIN row'.profile
               PROVE  /\ \A i, j \in FieldLines(field)' :
                           Follows(FieldLines(field)', i, j) =>
                             history'[i].next = history'[j].previous
                      /\ \A i \in FieldLines(field)' :
                           IsLast(FieldLines(field)', i) =>
                             history'[i].next = row'.profile[field]
  BY Zenon DEF PreviousIsReplaced
<1> DEFINE lines == FieldLines(field)
<1>5. /\ \A i \in lines : i \in 1 .. n /\ history'[i] = history[i]
      /\ \A i, j : Follows(lines, i, j) => history[i].next = history[j].previous
      /\ \A i : IsLast(lines, i) => history[i].next = row.profile[field]
  BY <1>2 DEF FieldLines, PreviousIsReplaced, Follows, IsLast
<1>6. ASSUME NEW i, NEW j, Follows(lines, i, j)
      PROVE  history'[i].next = history'[j].previous
  <2>1. i \in lines /\ j \in lines
    BY <1>6 DEF Follows
  <2>2. history[i].next = history[j].previous
    BY <1>5, <1>6
  <2> QED
    BY <1>5, <2>1, <2>2
<1>7. ASSUME NEW i, IsLast(lines, i)
      PROVE  i \in lines /\ history'[i].next = row.profile[field]
  BY <1>5, <1>7 DEF IsLast
<1>8. CASE \A k \in 1 .. Len(more) : more[k].field # field
  <2>1. FieldLines(field)' = lines
    BY <1>2, <1>3, <1>8 DEF FieldLines
  <2>2. row'.profile[field] = row.profile[field]
    BY <1>8
  <2> HIDE DEF lines
  <2> QED
    BY <1>6, <1>7, <2>1, <2>2
<1>9. ASSUME NEW k \in 1 .. Len(more), more[k].field = field
      PROVE  /\ \A i, j : Follows(FieldLines(field)', i, j) =>
                  history'[i].next = history'[j].previous
             /\ \A i : IsLast(FieldLines(field)', i) =>
                  history'[i].next = row'.profile[field]
  <2> DEFINE p == n + k
  <2>1. /\ more[k].kind = "field"
        /\ more[k].previous = row.profile[field]
        /\ more[k].next = row'.profile[field]
        /\ \A i \in 1 .. Len(more) : more[i].field = field => i = k
    BY <1>9 DEF Tells
  <2>2. history'[p] = more[k] /\ p \in Nat /\ p \in 1 .. n + Len(more)
    BY <1>2, <1>9
  <2>3. FieldLines(field)' = lines \cup {p}
    <3>1. ASSUME NEW i \in 1 .. n + Len(more),
                 history'[i].kind = "field", history'[i].field = field
          PROVE  i \in lines \cup {p}
      <4>1. CASE i \in 1 .. n
        BY <1>2, <3>1, <4>1 DEF FieldLines
      <4>2. CASE i - n \in 1 .. Len(more) /\ i = n + (i - n)
        <5>1. history'[i] = more[i - n]
          BY <1>2, <4>2
        <5> QED
          BY <2>1, <3>1, <4>2, <5>1
      <4> QED
        BY <1>3, <4>1, <4>2
    <3>2. \A i \in lines : /\ i \in 1 .. n + Len(more)
                           /\ history'[i].kind = "field" /\ history'[i].field = field
      BY <1>2, <1>5 DEF FieldLines
    <3>3. history'[p].kind = "field" /\ history'[p].field = field
      BY <1>9, <2>1, <2>2
    <3> HIDE DEF lines, p
    <3>4. FieldLines(field)' = {i \in 1 .. n + Len(more) :
                                  history'[i].kind = "field" /\ history'[i].field = field}
      BY <1>2 DEF FieldLines
    <3> QED
      BY <2>2, <3>1, <3>2, <3>3, <3>4
  <2>4. /\ \A i : IsLast(lines \cup {p}, i) <=> i = p
        /\ \A i, j : Follows(lines \cup {p}, i, j) =>
             Follows(lines, i, j) \/ (IsLast(lines, i) /\ j = p)
    <3>1. lines \subseteq Nat /\ \A i \in lines : i < p
      BY <1>2, <1>5, <1>9
    <3> HIDE DEF lines, p
    <3> QED
      BY <2>2, <3>1, OneMore
  <2> HIDE DEF lines, p, n
  <2>5. ASSUME NEW i, NEW j, Follows(FieldLines(field)', i, j)
        PROVE  history'[i].next = history'[j].previous
    <3>1. CASE Follows(lines, i, j)
      BY <1>6, <3>1
    <3>2. CASE IsLast(lines, i) /\ j = p
      BY <1>7, <2>1, <2>2, <3>2
    <3> QED
      BY <2>3, <2>4, <2>5, <3>1, <3>2
  <2>6. ASSUME NEW i, IsLast(FieldLines(field)', i)
        PROVE  history'[i].next = row'.profile[field]
    BY <2>1, <2>2, <2>3, <2>4, <2>6
  <2> QED
    BY <2>5, <2>6
<1> HIDE DEF lines, n
<1> QED
  BY <1>8, <1>9

LEMMA TellsOneMore ==
  ASSUME NEW fields, NEW old, NEW new, NEW lines, Tells(lines, fields, old, new),
         NEW field, field \notin fields,
         NEW line \in Lines, line.kind = "field", line.field = field,
         line.previous = old[field], line.next = new[field]
  PROVE  Tells(lines \o <<line>>, fields \cup {field}, old, new)
<1> DEFINE more == lines \o <<line>>
<1>1. /\ lines \in Seq(Lines) /\ <<line>> \in Seq(Lines)
      /\ Len(<<line>>) = 1 /\ <<line>>[1] = line
  BY DEF Tells
<1>2. /\ more \in Seq(Lines) /\ Len(lines) \in Nat /\ Len(more) = Len(lines) + 1
      /\ \A i \in 1 .. Len(lines) : more[i] = lines[i]
      /\ more[Len(lines) + 1] = line
  BY <1>1, ConcatProperties
<1> HIDE DEF more
<1>3. \A i \in 1 .. Len(more) : i \in 1 .. Len(lines) \/ i = Len(lines) + 1
  BY <1>2
<1>4. \A i \in 1 .. Len(more) :
        /\ more[i].kind = "field"
        /\ more[i].field \in fields \cup {field}
        /\ more[i].previous = old[more[i].field]
        /\ more[i].next = new[more[i].field]
  BY <1>2, <1>3 DEF Tells
<1>5. \A i, j \in 1 .. Len(more) : more[i].field = more[j].field => i = j
  BY <1>2, <1>3 DEF Tells
<1>6. \A f \in fields \cup {field} : \E i \in 1 .. Len(more) : more[i].field = f
  <2>1. Len(lines) + 1 \in 1 .. Len(more) /\ \A i \in 1 .. Len(lines) : i \in 1 .. Len(more)
    BY <1>2
  <2> QED
    BY <1>2, <2>1 DEF Tells
<1> QED
  BY <1>2, <1>4, <1>5, <1>6 DEF Tells, more

(* What a save sets.                                                       *)
Sets == Patches \cup [logo : Logos \cup {None}]

LEMMA SetsTyped ==
  ASSUME NEW patch \in Sets, NEW seen \in Rows
  PROVE  /\ DOMAIN patch \subseteq {"contact", "display_name", "legal_entity", "logo"}
         /\ DOMAIN seen.profile = {"contact", "display_name", "legal_entity", "logo"}
         /\ \A field \in DOMAIN patch :
              FieldLine(seen, patch, field) \in Lines
         /\ "contact" \in DOMAIN patch => patch["contact"] \in Texts
         /\ "display_name" \in DOMAIN patch => patch["display_name"] \in Texts
         /\ "legal_entity" \in DOMAIN patch => patch["legal_entity"] \in LegalForms
         /\ "logo" \in DOMAIN patch => patch["logo"] \in Logos \cup {None}
<1>1. /\ DOMAIN seen.profile = {"contact", "display_name", "legal_entity", "logo"}
      /\ seen.profile["contact"] \in Texts
      /\ seen.profile["display_name"] \in Texts
      /\ seen.profile["legal_entity"] \in LegalForms
      /\ seen.profile["logo"] \in Logos \cup {None}
  BY DEF Rows, Profiles
<1>2. /\ DOMAIN patch \subseteq {"contact", "display_name", "legal_entity", "logo"}
      /\ "contact" \in DOMAIN patch => patch["contact"] \in Texts
      /\ "display_name" \in DOMAIN patch => patch["display_name"] \in Texts
      /\ "legal_entity" \in DOMAIN patch => patch["legal_entity"] \in LegalForms
      /\ "logo" \in DOMAIN patch => patch["logo"] \in Logos \cup {None}
  BY DEF Sets, Patches
<1>3. ASSUME NEW field \in DOMAIN patch PROVE FieldLine(seen, patch, field) \in Lines
  <2>1. CASE field = "contact"
    BY <1>1, <1>2, <1>3, <2>1 DEF FieldLine, Lines
  <2>2. CASE field = "display_name"
    BY <1>1, <1>2, <1>3, <2>2 DEF FieldLine, Lines
  <2>3. CASE field = "legal_entity"
    BY <1>1, <1>2, <1>3, <2>3 DEF FieldLine, Lines
  <2>4. CASE field = "logo"
    BY <1>1, <1>2, <1>3, <2>4 DEF FieldLine, Lines
  <2> QED
    BY <1>2, <1>3, <2>1, <2>2, <2>3, <2>4
<1> QED
  BY <1>1, <1>2, <1>3

LEMMA ProfilePlanned ==
  ASSUME NEW seen \in Rows, NEW patch \in Sets, NEW recordsUnchanged \in BOOLEAN
  PROVE  LET plan == ProfilePlan(seen, patch, recordsUnchanged)
             new  == plan.columns.profile
         IN  /\ plan.columns = [profile |-> new]
             /\ new \in Profiles
             /\ \E fields :
                  /\ Tells(plan.lines, fields, seen.profile, new)
                  /\ \A field \in DOMAIN seen.profile \ fields :
                       new[field] = seen.profile[field]
<1> DEFINE set == {field \in DOMAIN patch :
                     recordsUnchanged \/ patch[field] # seen.profile[field]}
           LineOf(field) == IF field \in set THEN <<FieldLine(seen, patch, field)>>
                                             ELSE <<>>
           new == [field \in DOMAIN seen.profile |->
                     IF field \in set THEN patch[field] ELSE seen.profile[field]]
           all == LineOf("display_name") \o LineOf("contact")
                    \o LineOf("legal_entity") \o LineOf("logo")
           Told(lines, fields) == Tells(lines, set \cap fields, seen.profile, new)
<1>1. ProfilePlan(seen, patch, recordsUnchanged)
        = [columns |-> [profile |-> new], lines |-> all]
  BY DEF ProfilePlan, Plan
<1>2. new \in Profiles
  BY SetsTyped DEF Rows, Profiles
<1>3. ASSUME NEW lines, NEW fields, Told(lines, fields),
             NEW field \in DOMAIN seen.profile, field \notin fields
      PROVE  Told(lines \o LineOf(field), fields \cup {field})
  <2>1. CASE field \in set
    <3> DEFINE line == FieldLine(seen, patch, field)
    <3>1. line \in Lines
      BY <2>1, SetsTyped
    <3>2. /\ line.kind = "field" /\ line.field = field
          /\ line.previous = seen.profile[field]
          /\ line.next = new[field]
      BY <2>1 DEF FieldLine
    <3>3. /\ set \cap (fields \cup {field}) = (set \cap fields) \cup {field}
          /\ field \notin set \cap fields
      BY <1>3, <2>1
    <3>4. LineOf(field) = <<line>>
      BY <2>1
    <3> HIDE DEF line, LineOf, set, new
    <3>5. Tells(lines \o <<line>>, (set \cap fields) \cup {field}, seen.profile, new)
      BY <1>3, <3>1, <3>2, <3>3, TellsOneMore
    <3> QED
      BY <3>3, <3>4, <3>5
  <2>2. CASE field \notin set
    <3>1. lines \o LineOf(field) = lines
      BY <1>3, <2>2 DEF Tells
    <3>2. set \cap (fields \cup {field}) = set \cap fields
      BY <2>2
    <3> QED
      BY <1>3, <3>1, <3>2
  <2> QED
    BY <2>1, <2>2
<1>4. Told(<<>>, {})
  BY DEF Tells
<1>5. DOMAIN seen.profile = {"contact", "display_name", "legal_entity", "logo"}
  BY SetsTyped
<1> HIDE DEF set, LineOf, new, Told
<1> DEFINE One == {} \cup {"display_name"}
           Two == One \cup {"contact"}
           Three == Two \cup {"legal_entity"}
           Four == Three \cup {"logo"}
<1>6. Told(<<>> \o LineOf("display_name"), One)
  BY <1>3, <1>4, <1>5
<1>7. <<>> \o LineOf("display_name") = LineOf("display_name")
  BY DEF LineOf
<1>8. Told(LineOf("display_name") \o LineOf("contact"), Two)
  <2>1. "contact" \notin One
    OBVIOUS
  <2> HIDE DEF One
  <2> QED
    BY <1>3, <1>5, <1>6, <1>7, <2>1
<1>9. Told(LineOf("display_name") \o LineOf("contact") \o LineOf("legal_entity"), Three)
  <2>1. "legal_entity" \notin Two
    OBVIOUS
  <2> HIDE DEF Two
  <2> QED
    BY <1>3, <1>5, <1>8, <2>1
<1>10. Told(all, Four)
  <2>1. "logo" \notin Three
    OBVIOUS
  <2> HIDE DEF Three
  <2> QED
    BY <1>3, <1>5, <1>9, <2>1
<1>11. \A field \in DOMAIN seen.profile \ set : new[field] = seen.profile[field]
  BY DEF new
<1>12. /\ Tells(all, set \cap DOMAIN seen.profile, seen.profile, new)
       /\ \A field \in DOMAIN seen.profile \ (set \cap DOMAIN seen.profile) :
            new[field] = seen.profile[field]
  <2>1. Four = DOMAIN seen.profile
    BY <1>5
  <2> HIDE DEF Four
  <2> QED
    BY <1>10, <1>11, <2>1 DEF Told
<1> QED
  BY <1>1, <1>2, <1>12

-----------------------------------------------------------------------------
(* A plan lands on the row it was made on.                                 *)

Columns == {"verification", "evidence", "early", "profile", "pending", "live",
            "version"}

Lands(plan) ==
  /\ DOMAIN row' = Columns
  /\ row' = [column \in Columns |-> row'[column]]
  /\ row'.version = row.version + 1
  /\ row'.early = EarlyAfter(plan.columns)
  /\ \A column \in Columns \ {"version", "early"} :
       row'[column] = IF column \in DOMAIN plan.columns THEN plan.columns[column]
                                                       ELSE row[column]
  /\ history' = history \o plan.lines

HistoryInv == MovesInv /\ PermissionInv /\ PreviousIsReplaced

Kept ==
  /\ row' \in Rows
  /\ history' \in Seq(Lines)
  /\ HistoryInv'

(* What the cases below start from.                                        *)
Before == row \in Rows /\ history \in Seq(Lines) /\ HistoryInv

LEMMA RowTyped ==
  ASSUME row \in Rows
  PROVE  /\ DOMAIN row = Columns
         /\ row.verification \in Verifications
         /\ row.evidence \in SUBSET EvidenceItems
         /\ row.early \in Nat \cup {None}
         /\ row.profile \in Profiles
         /\ row.pending \in Proposals \cup {None}
         /\ row.live \in Links \cup {None}
         /\ row.version \in Nat
  BY DEF Rows, Columns

LEMMA RowBack ==
  ASSUME DOMAIN row' = Columns, row' = [column \in Columns |-> row'[column]],
         row'.verification \in Verifications,
         row'.evidence \in SUBSET EvidenceItems,
         row'.early \in Nat \cup {None},
         row'.profile \in Profiles,
         row'.pending \in Proposals \cup {None},
         row'.live \in Links \cup {None},
         row'.version \in Nat
  PROVE  row' \in Rows
  BY DEF Rows, Columns

LEMMA AllowedAt ==
  ASSUME history \in Seq(Lines)
  PROVE  \A i \in DOMAIN history : history[i].kind = "allowed" => history[i].at # None
<1>1. \A line \in Lines : line.kind = "allowed" => line.at \in Nat
  BY DEF Lines
<1>2. \A i \in DOMAIN history : history[i] \in Lines
  OBVIOUS
<1> QED
  BY <1>1, <1>2, KabinetShelterAssumption

(* Lines about nothing that the history accounts for.                      *)
LEMMA QuietLands ==
  ASSUME Before, NEW more \in Seq(Lines),
         \A i \in 1 .. Len(more) :
           more[i].kind \in {"evidence_added", "proposed", "cancelled", "decided"},
         history' = history \o more,
         row' \in Rows,
         row'.verification = row.verification,
         row'.early = row.early,
         row'.profile = row.profile
  PROVE  Kept
<1>1. history' \in Seq(Lines)
  BY Appended DEF Before
<1>2. MovesInv'
  BY MovesKept DEF Before, HistoryInv
<1>3. PermissionInv'
  <2>1. row.early # None => row'.verification.status \in OpenStatuses
    BY DEF Before, HistoryInv, PermissionInv, EarlyOnlyWhileOpen
  <2>2. \A i \in 1 .. Len(more) : /\ more[i].kind \notin {"allowed", "lapsed"}
                                  /\ ~EndsPermission(more[i])
    BY DEF EndsPermission
  <2> QED
    BY <2>1, <2>2, PermissionKept DEF Before, HistoryInv
<1>4. PreviousIsReplaced'
  BY FieldsKept DEF Before, HistoryInv
<1> QED
  BY <1>1, <1>2, <1>3, <1>4 DEF Kept, HistoryInv

LEMMA NoLines ==
  <<>> \in Seq(Lines) /\ ~(\E i \in 1 .. Len(<<>>) : TRUE)
OBVIOUS

(* Nothing is planned: only the version moves.                             *)
LEMMA NothingLands ==
  ASSUME Before, Lands(NoPlan)
  PROVE  Kept
<1>1. \A column \in Columns \ {"version"} : row'[column] = row[column]
  <2>1. DOMAIN NoPlan.columns = {}
    BY DEF NoPlan
  <2> QED
    BY <2>1 DEF Lands, EarlyAfter, Columns
<1>2. row' \in Rows
  BY <1>1, RowTyped, RowBack DEF Before, Lands, Columns
<1>3. row'.verification = row.verification /\ row'.early = row.early /\ row'.profile = row.profile
  BY <1>1 DEF Columns
<1> DEFINE more == <<>>
<1>4. /\ history' = history \o more
      /\ more \in Seq(Lines)
      /\ \A i \in 1 .. Len(more) :
           more[i].kind \in {"evidence_added", "proposed", "cancelled", "decided"}
  BY NoLines DEF Lands, NoPlan
<1> HIDE DEF more
<1> QED
  BY <1>2, <1>3, <1>4, QuietLands

(* A move.                                                                 *)
LEMMA MoveLands ==
  ASSUME Before, NEW event, NEW evidence \in SUBSET EvidenceItems, NEW now \in Nat,
         Lands(MovePlan(row, event, evidence, now))
  PROVE  Kept
<1> DEFINE v    == row.verification
           next == NextVerification(v, event, now)
           plan == MovePlan(row, event, evidence, now)
           keeps == KeepsEarlyListing(v.status, next.status)
<1>1. CASE plan = NoPlan
  BY <1>1, NothingLands
<1>2. ASSUME event \in LegalMoves(v.status),
             plan.columns = [verification |-> next, evidence |-> evidence],
             NEW lapse \in LapseOrNone,
             plan.lines = <<MoveLine(v, event, now)>> \o lapse,
             keeps => lapse = <<>>
      PROVE  Kept
  <2> DEFINE m == MoveLine(v, event, now)
             more == <<m>> \o lapse
  <2>1. /\ row'.verification = next /\ row'.evidence = evidence
        /\ row'.profile = row.profile /\ row'.pending = row.pending
        /\ row'.live = row.live /\ row'.version = row.version + 1
        /\ row'.early = IF keeps THEN row.early ELSE None
    <3>1. /\ DOMAIN plan.columns = {"verification", "evidence"}
          /\ plan.columns["verification"] = next
          /\ plan.columns["evidence"] = evidence
      BY <1>2
    <3> HIDE DEF plan, next
    <3> QED
      BY <3>1 DEF Lands, EarlyAfter, Columns, plan, keeps
  <2>2. v \in Verifications /\ next \in Verifications
    BY <1>2, NextTyped, RowTyped DEF Before
  <2>3. row' \in Rows
    BY <2>1, <2>2, RowTyped, RowBack DEF Before, Lands
  <2>4. /\ more \in Seq(Lines)
        /\ Len(more) \in {1, 2}
        /\ more[1] = m
        /\ Len(more) = 2 => more[2].kind = "lapsed"
        /\ lapse = <<>> => Len(more) = 1
    BY <1>2, <2>2, MoveTyped
  <2>5. m.kind = "verification" /\ m.from = v.status /\ m.to = next.status
    BY DEF MoveLine
  <2>6. history' = history \o more
    BY <1>2 DEF Lands
  <2>7. MovesInv'
    BY <1>2, <2>1, <2>2, <2>6, MovesStep DEF Before, HistoryInv
  <2> HIDE DEF m, more, next, v, plan
  <2>8. history' \in Seq(Lines)
    BY <2>4, <2>6, Appended DEF Before
  <2>9. \A i \in 1 .. Len(more) : more[i].kind # "field"
    BY <2>4, <2>5
  <2>10. PreviousIsReplaced'
    BY <2>1, <2>4, <2>6, <2>9, FieldsKept DEF Before, HistoryInv
  <2>11. PermissionInv'
    <3>1. CASE keeps
      <4>1. /\ row'.early = row.early
            /\ row'.verification.status \in OpenStatuses
        BY <2>1, <3>1 DEF keeps, KeepsEarlyListing
      <4>2. \A i \in 1 .. Len(more) : /\ more[i].kind \notin {"allowed", "lapsed"}
                                      /\ ~EndsPermission(more[i])
        <5>1. Len(more) = 1 /\ more[1] = m
          BY <1>2, <2>4, <3>1
        <5>2. ~EndsPermission(m)
          BY <2>5, <3>1 DEF EndsPermission, keeps
        <5>3. \A i \in 1 .. Len(more) : more[i] = m
          BY <5>1
        <5> QED
          BY <2>5, <5>2, <5>3
      <4> QED
        BY <2>4, <2>6, <4>1, <4>2, PermissionKept DEF Before, HistoryInv
    <3>2. CASE ~keeps
      <4>1. /\ row'.early = None
            /\ more[Len(more)].kind # "allowed"
            /\ more[1].kind # "allowed"
        BY <2>1, <2>4, <2>5, <3>2
      <4>2. \A i \in 1 .. Len(more) :
              more[i].kind \in {"allowed", "lapsed"} \/ EndsPermission(more[i])
        BY <2>4, <2>5, <3>2 DEF EndsPermission, keeps
      <4>3. PermissionsAccounted'
        BY <2>4, <2>6, <4>1, <4>2, AllowedAt, PermissionStep
           DEF Before, HistoryInv, PermissionInv
      <4> QED
        BY <4>1, <4>3 DEF PermissionInv, EarlyOnlyWhileOpen
    <3> QED
      BY <3>1, <3>2
  <2> QED
    BY <2>3, <2>7, <2>8, <2>10, <2>11 DEF Kept, HistoryInv
<1>3. \/ plan = NoPlan
      \/ /\ event \in LegalMoves(v.status)
         /\ plan.columns = [verification |-> next, evidence |-> evidence]
         /\ \E lapse \in LapseOrNone :
              /\ plan.lines = <<MoveLine(v, event, now)>> \o lapse
              /\ keeps => lapse = <<>>
  <2>1. row \in Rows
    BY DEF Before
  <2> QED
    <3>1. plan = NoPlan \/ PlannedMove(plan, row, event, evidence, now)
      BY <2>1, MovePlanned
    <3> QED
      BY <3>1 DEF PlannedMove
<1> HIDE DEF plan, next, keeps, v
<1> QED
  BY <1>1, <1>2, <1>3

(* An allowance, after the lapse of the one before it.                     *)
LEMMA AllowLands ==
  ASSUME Before, NEW note, NEW periods \in Nat, NEW now \in Nat,
         Lands(AllowPlan(row, note, periods, now))
  PROVE  Kept
<1> DEFINE plan == AllowPlan(row, note, periods, now)
           lapse == LapseLines(row, now)
           line == [kind |-> "allowed", at |-> now, period |-> periods + 1]
           more == lapse \o <<line>>
<1>1. CASE plan = NoPlan
  BY <1>1, NothingLands
<1>2. CASE plan # NoPlan
  <2>1. /\ plan.columns = [early |-> now] /\ plan.lines = more
        /\ row.verification.status \in OpenStatuses
        /\ ~EarlyRuns(row.verification, row.early, now)
    BY <1>2 DEF AllowPlan, AllowVerdict, Plan
  <2>2. /\ row'.early = now
        /\ row'.verification = row.verification /\ row'.evidence = row.evidence
        /\ row'.profile = row.profile /\ row'.pending = row.pending
        /\ row'.live = row.live /\ row'.version = row.version + 1
    <3>1. DOMAIN plan.columns = {"early"} /\ plan.columns.early = now
      BY <2>1
    <3> HIDE DEF plan
    <3> QED
      BY <3>1 DEF Lands, EarlyAfter, Columns, plan
  <2>3. row' \in Rows
    BY <2>2, RowTyped, RowBack DEF Before, Lands
  <2>4. line \in Lines /\ line.kind = "allowed" /\ line.at = now
    BY DEF Lines
  <2>5. row.early # None => lapse # <<>>
    BY <2>1, RowTyped, VerificationAssumption
       DEF LapseLines, Lapsed, EarlyRuns, Before
  <2>6. lapse \in LapseOrNone
    BY LapseTyped DEF Before
  <2>7. history' = history \o more
    BY <2>1 DEF Lands
  <2> HIDE DEF line, lapse, plan
  <2>8. /\ more \in Seq(Lines)
        /\ Len(more) \in {1, 2}
        /\ more[Len(more)] = line
        /\ Len(more) = 2 => more[1].kind = "lapsed"
        /\ Len(more) = 1 => more[1] = line /\ lapse = <<>>
    <3>1. /\ lapse \in Seq(Lines) /\ Len(lapse) \in {0, 1}
          /\ Len(lapse) = 1 => lapse[1].kind = "lapsed"
      BY <2>6, LapseOrNoneTyped
    <3>2. <<line>> \in Seq(Lines) /\ Len(<<line>>) = 1 /\ <<line>>[1] = line
      BY <2>4
    <3> QED
      BY <3>1, <3>2, ConcatProperties
  <2> HIDE DEF more
  <2>9. history' \in Seq(Lines)
    BY <2>7, <2>8, Appended DEF Before
  <2>10. \A i \in 1 .. Len(more) : more[i].kind \in {"allowed", "lapsed"}
    BY <2>4, <2>8
  <2>11. MovesInv'
    BY <2>2, <2>7, <2>8, <2>10, MovesKept DEF Before, HistoryInv
  <2>12. PreviousIsReplaced'
    BY <2>2, <2>7, <2>8, <2>10, FieldsKept DEF Before, HistoryInv
  <2>13. PermissionInv'
    <3>1. /\ more[1].kind = "allowed" => row.early = None
          /\ row'.early = more[Len(more)].at
          /\ more[Len(more)].kind = "allowed"
          /\ Len(more) = 2 => more[1].kind # "allowed"
      BY <2>2, <2>4, <2>5, <2>8
    <3>2. PermissionsAccounted'
      BY <2>7, <2>8, <2>10, <3>1, AllowedAt, PermissionStep
         DEF Before, HistoryInv, PermissionInv
    <3> QED
      BY <2>1, <2>2, <3>2 DEF PermissionInv, EarlyOnlyWhileOpen
  <2> QED
    BY <2>3, <2>9, <2>11, <2>12, <2>13 DEF Kept, HistoryInv
<1> QED
  BY <1>1, <1>2

(* A revocation.                                                           *)
LEMMA RevokeLands ==
  ASSUME Before, NEW now \in Nat, Lands(RevokePlan(row, now))
  PROVE  Kept
<1> DEFINE plan == RevokePlan(row, now)
           line == [kind |-> "revoked", at |-> now]
           more == <<line>>
<1>1. CASE plan = NoPlan
  BY <1>1, NothingLands
<1>2. CASE plan # NoPlan
  <2>1. plan.columns = [early |-> None] /\ plan.lines = more
    BY <1>2 DEF RevokePlan, Plan
  <2>2. /\ row'.early = None
        /\ row'.verification = row.verification /\ row'.evidence = row.evidence
        /\ row'.profile = row.profile /\ row'.pending = row.pending
        /\ row'.live = row.live /\ row'.version = row.version + 1
    <3>1. DOMAIN plan.columns = {"early"} /\ plan.columns.early = None
      BY <2>1
    <3> HIDE DEF plan
    <3> QED
      BY <3>1 DEF Lands, EarlyAfter, Columns, plan
  <2>3. row' \in Rows
    BY <2>2, RowTyped, RowBack DEF Before, Lands
  <2>4. line \in Lines /\ line.kind = "revoked"
    BY DEF Lines
  <2>5. history' = history \o more
    BY <2>1 DEF Lands
  <2> HIDE DEF line, plan
  <2>6. /\ more \in Seq(Lines) /\ Len(more) = 1 /\ more[1] = line
    BY <2>4
  <2> HIDE DEF more
  <2>7. history' \in Seq(Lines)
    BY <2>5, <2>6, Appended DEF Before
  <2>8. \A i \in 1 .. Len(more) : more[i].kind = "revoked"
    BY <2>4, <2>6
  <2>9. MovesInv'
    BY <2>2, <2>5, <2>6, <2>8, MovesKept DEF Before, HistoryInv
  <2>10. PreviousIsReplaced'
    BY <2>2, <2>5, <2>6, <2>8, FieldsKept DEF Before, HistoryInv
  <2>11. PermissionInv'
    <3>1. /\ \A i \in 1 .. Len(more) : EndsPermission(more[i])
          /\ more[1].kind # "allowed" /\ more[Len(more)].kind # "allowed"
      BY <2>4, <2>6, <2>8 DEF EndsPermission
    <3>2. PermissionsAccounted'
      BY <2>2, <2>5, <2>6, <3>1, AllowedAt, PermissionStep
         DEF Before, HistoryInv, PermissionInv
    <3> QED
      BY <2>2, <3>2 DEF PermissionInv, EarlyOnlyWhileOpen
  <2> QED
    BY <2>3, <2>7, <2>9, <2>10, <2>11 DEF Kept, HistoryInv
<1> QED
  BY <1>1, <1>2

(* Evidence added while the shelter is still open: no move.                *)
LEMMA AddLands ==
  ASSUME Before, NEW items \in SUBSET EvidenceItems, NEW now \in Nat,
         Lands(AddPlan(row, items, now))
  PROVE  Kept
<1> DEFINE plan == AddPlan(row, items, now)
           line == [kind |-> "evidence_added", at |-> now]
           more == <<line>>
<1>1. CASE plan = NoPlan
  BY <1>1, NothingLands
<1>2. CASE plan # NoPlan
  <2>1. /\ plan.columns = [verification |-> row.verification,
                           evidence |-> row.evidence \cup items]
        /\ plan.lines = more
        /\ row.verification.status \in OpenStatuses
    BY <1>2 DEF AddPlan, AddEvidenceVerdict, Plan
  <2>2. /\ row'.verification = row.verification
        /\ row'.evidence = row.evidence \cup items
        /\ row'.early = row.early
        /\ row'.profile = row.profile /\ row'.pending = row.pending
        /\ row'.live = row.live /\ row'.version = row.version + 1
    <3>1. /\ DOMAIN plan.columns = {"verification", "evidence"}
          /\ plan.columns.verification = row.verification
          /\ plan.columns.evidence = row.evidence \cup items
      BY <2>1
    <3> HIDE DEF plan
    <3> QED
      BY <2>1, <3>1 DEF Lands, EarlyAfter, Columns, KeepsEarlyListing, plan
  <2>3. row' \in Rows
    BY <2>2, RowTyped, RowBack DEF Before, Lands
  <2>4. line \in Lines /\ line.kind = "evidence_added"
    BY DEF Lines
  <2>5. history' = history \o more
    BY <2>1 DEF Lands
  <2> HIDE DEF line, plan
  <2>6. /\ more \in Seq(Lines)
        /\ \A i \in 1 .. Len(more) : more[i].kind = "evidence_added"
    BY <2>4
  <2> HIDE DEF more
  <2> QED
    BY <2>2, <2>3, <2>5, <2>6, QuietLands
<1> QED
  BY <1>1, <1>2

(* A save of the profile, its logo included.                               *)
LEMMA ProfileLands ==
  ASSUME Before, NEW patch \in Sets, NEW recordsUnchanged \in BOOLEAN,
         Lands(ProfilePlan(row, patch, recordsUnchanged))
  PROVE  Kept
<1> DEFINE plan == ProfilePlan(row, patch, recordsUnchanged)
           new  == plan.columns.profile
           more == plan.lines
<1>1. /\ plan.columns = [profile |-> new]
      /\ new \in Profiles
      /\ \E fields :
           /\ Tells(more, fields, row.profile, new)
           /\ \A field \in DOMAIN row.profile \ fields :
                new[field] = row.profile[field]
  BY ProfilePlanned DEF Before
<1>2. PICK fields : /\ Tells(more, fields, row.profile, new)
                    /\ \A field \in DOMAIN row.profile \ fields :
                         new[field] = row.profile[field]
  BY <1>1
<1>3. Lands(plan)
  OBVIOUS
<1> HIDE DEF plan
<1>4. /\ row'.profile = new
      /\ row'.verification = row.verification /\ row'.evidence = row.evidence
      /\ row'.early = row.early /\ row'.pending = row.pending
      /\ row'.live = row.live /\ row'.version = row.version + 1
  <2>1. DOMAIN plan.columns = {"profile"}
    BY <1>1
  <2> QED
    BY <1>3, <2>1 DEF Lands, EarlyAfter, Columns
<1>5. row' \in Rows
  BY <1>1, <1>3, <1>4, RowTyped, RowBack DEF Before, Lands
<1>6. /\ history' = history \o more
      /\ more \in Seq(Lines)
      /\ \A i \in 1 .. Len(more) : more[i].kind = "field"
  BY <1>2, <1>3 DEF Lands, Tells
<1>7. history' \in Seq(Lines)
  BY <1>6, Appended DEF Before
<1>8. PreviousIsReplaced'
  <2>1. DOMAIN row'.profile = DOMAIN row.profile
    BY <1>5, SetsTyped DEF Before
  <2>2. \A field \in DOMAIN row.profile :
          (\A i \in 1 .. Len(more) : more[i].field # field)
            => row'.profile[field] = row.profile[field]
    BY <1>2, <1>4 DEF Tells
  <2>3. Tells(more, fields, row.profile, row'.profile)
    BY <1>2, <1>4
  <2> HIDE DEF more, new
  <2> QED
    BY <1>6, <2>1, <2>2, <2>3, FieldsStep DEF Before, HistoryInv
<1> HIDE DEF more, new
<1>9. MovesInv'
  BY <1>4, <1>6, MovesKept DEF Before, HistoryInv
<1>10. PermissionInv'
  <2>1. row.early # None => row'.verification.status \in OpenStatuses
    BY <1>4 DEF Before, HistoryInv, PermissionInv, EarlyOnlyWhileOpen
  <2>2. \A i \in 1 .. Len(more) : /\ more[i].kind \notin {"allowed", "lapsed"}
                                  /\ ~EndsPermission(more[i])
    BY <1>6 DEF EndsPermission
  <2> QED
    BY <1>4, <1>6, <2>1, <2>2, PermissionKept DEF Before, HistoryInv
<1> QED
  BY <1>5, <1>7, <1>8, <1>9, <1>10 DEF Kept, HistoryInv

(* A link proposed, withdrawn or decided on.                               *)
LEMMA LinkLands ==
  ASSUME Before, NEW plan, Lands(plan), NEW line \in Lines,
         line.kind \in {"proposed", "cancelled", "decided"},
         plan.lines = <<line>>,
         DOMAIN plan.columns \subseteq {"pending", "live"},
         "pending" \in DOMAIN plan.columns =>
           plan.columns["pending"] \in Proposals \cup {None},
         "live" \in DOMAIN plan.columns => plan.columns["live"] \in Links \cup {None}
  PROVE  Kept
<1>1. /\ row'.verification = row.verification /\ row'.evidence = row.evidence
      /\ row'.early = row.early /\ row'.profile = row.profile
      /\ row'.version = row.version + 1
      /\ row'.pending \in Proposals \cup {None}
      /\ row'.live \in Links \cup {None}
  BY RowTyped DEF Before, Lands, EarlyAfter, Columns
<1>2. row' \in Rows
  BY <1>1, RowTyped, RowBack DEF Before, Lands
<1> DEFINE more == <<line>>
<1>3. /\ more \in Seq(Lines)
      /\ \A i \in 1 .. Len(more) : more[i].kind \in {"proposed", "cancelled", "decided"}
      /\ history' = history \o more
  BY DEF Lands
<1> HIDE DEF more
<1> QED
  BY <1>1, <1>2, <1>3, QuietLands

LEMMA ProposeLands ==
  ASSUME Before, NEW link \in Links, NEW now \in Nat, Lands(ProposePlan(link, now))
  PROVE  Kept
<1> DEFINE plan == ProposePlan(link, now)
           line == [kind |-> "proposed", link |-> link]
<1>1. line \in Lines /\ line.kind = "proposed"
  BY DEF Lines
<1>2. /\ plan.lines = <<line>>
      /\ DOMAIN plan.columns = {"pending"}
      /\ plan.columns["pending"] \in Proposals
  BY DEF ProposePlan, Plan, Proposals
<1>3. Lands(plan)
  OBVIOUS
<1> HIDE DEF plan, line
<1> QED
  BY <1>1, <1>2, <1>3, LinkLands

LEMMA CancelLands ==
  ASSUME Before, NEW now \in Nat, Lands(CancelPlan(row, now))
  PROVE  Kept
<1> DEFINE plan == CancelPlan(row, now)
           line == [kind |-> "cancelled", at |-> now]
<1>1. CASE plan = NoPlan
  BY <1>1, NothingLands
<1>2. CASE plan # NoPlan
  <2>1. line \in Lines /\ line.kind = "cancelled"
    BY DEF Lines
  <2>2. /\ plan.lines = <<line>>
        /\ DOMAIN plan.columns = {"pending"}
        /\ plan.columns["pending"] = None
    BY <1>2 DEF CancelPlan, Plan
  <2>3. Lands(plan)
    OBVIOUS
  <2> HIDE DEF plan, line
  <2> QED
    BY <2>1, <2>2, <2>3, LinkLands
<1> QED
  BY <1>1, <1>2

LEMMA DecideLands ==
  ASSUME Before, NEW approve \in BOOLEAN, Lands(DecidePlan(row, approve))
  PROVE  Kept
<1> DEFINE plan == DecidePlan(row, approve)
           line == [kind |-> "decided", link |-> row.pending.link, approve |-> approve]
<1>1. CASE row.pending = None
  BY <1>1, NothingLands DEF DecidePlan
<1>2. CASE row.pending # None
  <2>1. row.pending.link \in Links
    BY <1>2, RowTyped DEF Before, Proposals
  <2>2. line \in Lines /\ line.kind = "decided"
    BY <2>1 DEF Lines
  <2>3. /\ plan.lines = <<line>>
        /\ DOMAIN plan.columns \subseteq {"pending", "live"}
        /\ "pending" \in DOMAIN plan.columns => plan.columns["pending"] = None
        /\ "live" \in DOMAIN plan.columns => plan.columns["live"] \in Links
    <3>1. CASE approve
      BY <1>2, <2>1, <3>1 DEF DecidePlan, Plan
    <3>2. CASE ~approve
      BY <1>2, <3>2 DEF DecidePlan, Plan
    <3> QED
      BY <3>1, <3>2
  <2>4. Lands(plan)
    OBVIOUS
  <2> HIDE DEF plan, line
  <2> QED
    BY <2>2, <2>3, <2>4, LinkLands
<1> QED
  BY <1>1, <1>2

-----------------------------------------------------------------------------
(* Every plan.                                                             *)

LEMMA OpTyped ==
  ASSUME NEW op \in Ops
  PROVE  /\ op.type \in AllOpTypes
         /\ op.type = "resubmit" => op.sent \in Sent \cup {None}
         /\ op.type = "add_evidence" => op.items \in Sent
         /\ op.type = "edit" => /\ op.version \in Nat /\ op.patch \in Patches
                               /\ op.recordsUnchanged \in BOOLEAN
         /\ op.type = "set_logo" => op.logo \in Logos \cup {None}
         /\ op.type = "propose" => op.link \in Links
         /\ op.type = "decide" => op.version \in Nat /\ op.approve \in BOOLEAN
  BY DEF Ops, MoveOps, ResubmitOps, AllowOps, AddOps, EditOps, LogoOps,
         ProposeOps, DecideOps, PlainOps, AllOpTypes

LEMMA PlanLands ==
  ASSUME Before, NEW op \in Ops, NEW now \in Nat, NEW periods \in Nat,
         Lands(PlanOf(row, op, now, periods))
  PROVE  Kept
<1>1. row.evidence \in SUBSET EvidenceItems
  BY RowTyped DEF Before
<1>2. \A sent \in Sent : sent \in SUBSET EvidenceItems
  BY KabinetShelterAssumption DEF SentEvidence
<1>3. CASE op.type = "move"
  BY <1>1, <1>3, MoveLands DEF PlanOf
<1>4. CASE op.type = "resubmit"
  <2> DEFINE evidence == IF op.sent = None THEN row.evidence
                         ELSE WithEvidenceOnFile(row.evidence, op.sent)
  <2>1. evidence \in SUBSET EvidenceItems
    BY <1>1, <1>2, <1>4, OpTyped DEF WithEvidenceOnFile
  <2>2. Lands(ResubmitPlan(row, op.sent, now))
    BY <1>4 DEF PlanOf
  <2> HIDE DEF evidence
  <2>3. \/ ResubmitPlan(row, op.sent, now) = NoPlan
        \/ ResubmitPlan(row, op.sent, now) = MovePlan(row, "resubmit", evidence, now)
    BY DEF ResubmitPlan, evidence
  <2> QED
    BY <2>1, <2>2, <2>3, NothingLands, MoveLands
<1>5. CASE op.type = "allow"
  BY <1>5, AllowLands DEF PlanOf
<1>6. CASE op.type = "revoke"
  BY <1>6, RevokeLands DEF PlanOf
<1>7. CASE op.type = "add_evidence"
  BY <1>2, <1>7, OpTyped, AddLands DEF PlanOf
<1>8. CASE op.type = "edit"
  BY <1>8, OpTyped, ProfileLands DEF PlanOf, Sets
<1>9. CASE op.type = "set_logo"
  <2>1. [logo |-> op.logo] \in Sets
    BY <1>9, OpTyped DEF Sets
  <2>2. \/ LogoPlan(row, op.logo) = NoPlan
        \/ LogoPlan(row, op.logo) = ProfilePlan(row, [logo |-> op.logo], TRUE)
    BY DEF LogoPlan
  <2>3. Lands(LogoPlan(row, op.logo))
    BY <1>9 DEF PlanOf
  <2> QED
    BY <2>1, <2>2, <2>3, NothingLands, ProfileLands
<1>10. CASE op.type = "propose"
  BY <1>10, OpTyped, ProposeLands DEF PlanOf
<1>11. CASE op.type = "cancel"
  BY <1>11, CancelLands DEF PlanOf
<1>12. CASE op.type = "decide"
  BY <1>12, OpTyped, DecideLands DEF PlanOf
<1> QED
  BY <1>3, <1>4, <1>5, <1>6, <1>7, <1>8, <1>9, <1>10, <1>11, <1>12, OpTyped
     DEF AllOpTypes

-----------------------------------------------------------------------------
(* Steps.                                                                  *)

(* What an open write was planned on is the row it finds.                  *)
LEMMA WriteLands ==
  ASSUME IInv, NEW r \in Requests, Writes(r)
  PROVE  /\ req[r].pc = "write" /\ req[r].op \in Ops
         /\ req[r].now \in Nat /\ req[r].periods \in Nat
         /\ req[r].seen = row
         /\ Before
         /\ Lands(PlanOf(row, req[r].op, req[r].now, req[r].periods))
         /\ req[r].op.type = "decide" => req[r].op.shown = row.pending
<1>1. req[r] \in RequestStates /\ SeenInv(req[r], row) /\ req[r].pc = "write"
  BY DEF IInv, TypeOK, Writes
<1>2. req[r].seen = row /\ req[r].op \in Ops
  BY <1>1 DEF SeenInv, Writes, Matches
<1>3. req[r].op.type = "decide" => req[r].op.shown = row.pending
  BY <1>1, <1>2 DEF SeenInv
<1>4. req[r].now \in Nat /\ req[r].periods \in Nat
  BY <1>1 DEF RequestStates
<1>5. Before
  BY DEF Before, HistoryInv, IInv, TypeOK
<1> DEFINE plan == PlanOf(row, req[r].op, req[r].now, req[r].periods)
<1>6. /\ row' = [column \in DOMAIN row |->
                  CASE column = "version" -> row.version + 1
                    [] column = "early"   -> EarlyAfter(plan.columns)
                    [] column \notin {"version", "early"} ->
                         IF column \in DOMAIN plan.columns
                         THEN plan.columns[column] ELSE row[column]]
      /\ history' = history \o plan.lines
  BY <1>2 DEF Writes
<1> HIDE DEF plan
<1>7. DOMAIN row = Columns
  BY <1>5, RowTyped DEF Before
<1>8. Lands(plan)
  BY <1>6, <1>7 DEF Lands, Columns
<1> QED
  BY <1>1, <1>2, <1>3, <1>4, <1>5, <1>8 DEF plan

(* A write ages what the other requests saw.                               *)
LEMMA SeenAged ==
  ASSUME NEW q, SeenInv(q, row), row.version \in Nat,
         row'.version = row.version + 1
  PROVE  SeenInv(q, row')
<1>1. q.pc \in {"count", "write"} => q.seen.version \in Nat
  BY DEF SeenInv, Rows
<1>2. q.pc # "idle" /\ q.op.type = "decide" => q.op.version \in Nat
  BY OpTyped DEF SeenInv
<1> QED
  BY <1>1, <1>2 DEF SeenInv

LEMMA IdleTyped ==
  /\ Idle \in RequestStates
  /\ \A theRow : SeenInv(Idle, theRow)
  BY DEF Idle, RequestStates, SeenInv

LEMMA InitInv == Init => IInv
<1> SUFFICES ASSUME Init PROVE IInv
  OBVIOUS
<1>1. TypeOK
  BY KabinetShelterAssumption, IdleTyped DEF Init, TypeOK
<1>2. \A r \in Requests : SeenInv(req[r], row)
  BY IdleTyped DEF Init
<1>3. DOMAIN history = {} /\ row.early = None
  BY StartRowsAssumption DEF Init
<1>4. MovesInv
  BY <1>3 DEF MovesInv, VerificationChains, ApprovalKept, PauseRemembered, MovesOf
<1>5. PermissionInv
  BY <1>3 DEF PermissionInv, EarlyOnlyWhileOpen, PermissionsAccounted,
              PermissionLines
<1>6. PreviousIsReplaced
  BY <1>3 DEF PreviousIsReplaced, FieldLines
<1> QED
  BY <1>1, <1>2, <1>4, <1>5, <1>6 DEF IInv

(* A step that leaves the row and the history alone.                       *)
LEMMA HistoryUnchanged ==
  ASSUME IInv, UNCHANGED <<row, history>>,
         req' \in [Requests -> RequestStates], clock' \in Nat, started' \in Nat,
         \A r \in Requests : SeenInv(req'[r], row)
  PROVE  IInv'
<1>1. TypeOK' /\ \A r \in Requests : SeenInv(req'[r], row')
  BY DEF IInv, TypeOK
<1>2. MovesInv'
  BY DEF IInv, MovesInv, VerificationChains, ApprovalKept, PauseRemembered, MovesOf
<1>3. PermissionInv'
  BY DEF IInv, PermissionInv, EarlyOnlyWhileOpen, PermissionsAccounted,
         PermissionLines
<1>4. PreviousIsReplaced'
  <2>1. \A field : FieldLines(field)' = FieldLines(field)
    BY DEF FieldLines
  <2> QED
    BY <2>1 DEF IInv, PreviousIsReplaced
<1> QED
  BY <1>1, <1>2, <1>3, <1>4 DEF IInv

(* One slot moves on, and the row and the history stay.                    *)
LEMMA SlotMoves ==
  ASSUME IInv, NEW r \in Requests, NEW q \in RequestStates, SeenInv(q, row),
         req' = [req EXCEPT ![r] = q],
         UNCHANGED <<row, history, clock>>, started' \in Nat
  PROVE  IInv'
<1>1. req \in [Requests -> RequestStates] /\ clock \in Nat
  BY DEF IInv, TypeOK
<1>2. req' \in [Requests -> RequestStates]
  BY <1>1
<1>3. \A s \in Requests : SeenInv(req'[s], row)
  BY <1>1 DEF IInv
<1> QED
  BY <1>1, <1>2, <1>3, HistoryUnchanged

LEMMA PeriodsTyped == TypeOK => PeriodsUsed \in Nat
<1> SUFFICES ASSUME TypeOK PROVE PeriodsUsed \in Nat
  OBVIOUS
<1>1. Len(history) \in Nat /\ DOMAIN history = 1 .. Len(history)
  BY DEF TypeOK
<1>2. IsFiniteSet(1 .. Len(history))
  BY <1>1, FS_Interval
<1>3. IsFiniteSet({i \in DOMAIN history : history[i].kind = "allowed"})
  BY <1>1, <1>2, FS_Subset
<1> QED
  BY <1>3, FS_CardinalityType DEF PeriodsUsed

LEMMA ArrivesKeeps ==
  ASSUME IInv, NEW r \in Requests, NEW op \in Ops, Arrives(r, op),
         op.type = "decide" => op.version = row.version /\ op.shown = row.pending
  PROVE  IInv'
<1> DEFINE q == [Idle EXCEPT !.pc = "read", !.op = op, !.now = clock, !.attempt = 1]
<1>1. clock \in Nat /\ started \in Nat /\ row.version \in Nat
  BY RowTyped DEF IInv, TypeOK
<1>2. q \in RequestStates /\ q.pc = "read" /\ q.op = op
  BY <1>1 DEF Idle, RequestStates
<1>3. req' = [req EXCEPT ![r] = q] /\ UNCHANGED <<row, history, clock>> /\ started' \in Nat
  BY <1>1 DEF Arrives
<1> HIDE DEF q
<1>4. SeenInv(q, row)
  BY <1>1, <1>2 DEF SeenInv
<1> QED
  BY <1>2, <1>3, <1>4, SlotMoves

LEMMA ReadsKeeps ==
  ASSUME IInv, NEW r \in Requests, Reads(r)
  PROVE  IInv'
<1>1. /\ req[r] \in RequestStates /\ SeenInv(req[r], row) /\ req[r].pc = "read"
      /\ row \in Rows /\ started \in Nat
      /\ UNCHANGED <<row, history, clock, started>>
  BY DEF IInv, TypeOK, Reads
<1>2. CASE Ends(r)
  BY <1>1, <1>2, IdleTyped, SlotMoves DEF Ends
<1>3. ASSUME NEW pc \in {"write", "count"},
             req' = [req EXCEPT ![r].pc = pc, ![r].seen = row],
             req[r].op.type \in FormTypes => req[r].op.version = row.version
      PROVE  IInv'
  <2> DEFINE q == [req[r] EXCEPT !.pc = pc, !.seen = row]
  <2>1. /\ q \in RequestStates
        /\ q.pc = pc /\ q.seen = row /\ q.op = req[r].op
    BY <1>1, <1>3 DEF RequestStates
  <2>2. req' = [req EXCEPT ![r] = q]
    BY <1>3 DEF IInv, TypeOK
  <2> HIDE DEF q
  <2>3. row.version \in Nat
    BY <1>1, RowTyped
  <2>4. SeenInv(q, row)
    BY <1>1, <1>3, <2>1, <2>3 DEF SeenInv, FormTypes
  <2> QED
    BY <1>1, <2>1, <2>2, <2>4, SlotMoves
<1> QED
  BY <1>2, <1>3 DEF Reads, FormTypes

LEMMA CountsKeeps ==
  ASSUME IInv, NEW r \in Requests, Counts(r)
  PROVE  IInv'
<1>1. /\ req[r] \in RequestStates /\ SeenInv(req[r], row) /\ req[r].pc = "count"
      /\ started \in Nat /\ PeriodsUsed \in Nat
      /\ UNCHANGED <<row, history, clock, started>>
  BY PeriodsTyped DEF IInv, TypeOK, Counts
<1>2. CASE Ends(r)
  BY <1>1, <1>2, IdleTyped, SlotMoves DEF Ends
<1>3. CASE req' = [req EXCEPT ![r].pc = "write", ![r].periods = PeriodsUsed]
  <2> DEFINE q == [req[r] EXCEPT !.pc = "write", !.periods = PeriodsUsed]
  <2>1. /\ q \in RequestStates
        /\ q.pc = "write" /\ q.seen = req[r].seen /\ q.op = req[r].op
    BY <1>1 DEF RequestStates
  <2>2. req' = [req EXCEPT ![r] = q]
    BY <1>3 DEF IInv, TypeOK
  <2> HIDE DEF q
  <2>3. SeenInv(q, row)
    BY <1>1, <2>1 DEF SeenInv
  <2> QED
    BY <1>1, <2>1, <2>2, <2>3, SlotMoves
<1> QED
  BY <1>2, <1>3 DEF Counts

LEMMA LosesRaceKeeps ==
  ASSUME IInv, NEW r \in Requests, LosesRace(r)
  PROVE  IInv'
<1>1. /\ req[r] \in RequestStates /\ SeenInv(req[r], row) /\ req[r].pc = "write"
      /\ started \in Nat
      /\ UNCHANGED <<row, history, clock, started>>
  BY DEF IInv, TypeOK, LosesRace
<1>2. CASE Ends(r)
  BY <1>1, <1>2, IdleTyped, SlotMoves DEF Ends
<1>3. CASE ~Ends(r)
  <2> DEFINE q == [req[r] EXCEPT !.pc = "read", !.attempt = @ + 1, !.seen = None,
                                 !.periods = 0]
  <2>1. /\ q \in RequestStates
        /\ q.pc = "read" /\ q.op = req[r].op
    <3>1. req[r].attempt \in Nat /\ req[r].attempt + 1 \in Nat
      BY <1>1 DEF RequestStates
    <3> QED
      BY <1>1, <3>1 DEF RequestStates
  <2>2. req' = [req EXCEPT ![r] = q]
    BY <1>3 DEF IInv, TypeOK, LosesRace
  <2> HIDE DEF q
  <2>3. SeenInv(q, row)
    BY <1>1, <2>1 DEF SeenInv
  <2> QED
    BY <1>1, <2>1, <2>2, <2>3, SlotMoves
<1> QED
  BY <1>2, <1>3

LEMMA WritesKeeps ==
  ASSUME IInv, NEW r \in Requests, Writes(r)
  PROVE  IInv'
<1> DEFINE plan == PlanOf(row, req[r].op, req[r].now, req[r].periods)
<1>1. /\ req[r].op \in Ops /\ req[r].now \in Nat /\ req[r].periods \in Nat
      /\ Before /\ Lands(plan)
  BY WriteLands
<1>2. Kept
  BY <1>1, PlanLands
<1> HIDE DEF plan
<1>3. row.version \in Nat /\ row'.version = row.version + 1
  BY <1>1, RowTyped DEF Before, Lands
<1>4. /\ req \in [Requests -> RequestStates]
      /\ req' = [req EXCEPT ![r] = Idle] /\ UNCHANGED <<clock, started>>
  BY DEF IInv, TypeOK, Writes, Ends
<1>5. TypeOK'
  BY <1>2, <1>4, IdleTyped DEF IInv, TypeOK, Kept
<1>6. ASSUME NEW s \in Requests PROVE SeenInv(req'[s], row')
  <2>1. CASE s = r
    BY <1>4, <2>1, IdleTyped
  <2>2. CASE s # r
    <3>1. req'[s] = req[s] /\ SeenInv(req[s], row)
      BY <1>4, <2>2 DEF IInv
    <3>2. SeenInv(req[s], row')
      BY <1>3, <3>1, SeenAged
    <3> QED
      BY <3>1, <3>2
  <2> QED
    BY <2>1, <2>2
<1> QED
  BY <1>2, <1>5, <1>6 DEF IInv, Kept, HistoryInv

LEMMA NextInv == IInv /\ [Next]_vars => IInv'
<1> SUFFICES ASSUME IInv, [Next]_vars PROVE IInv'
  OBVIOUS
<1>1. req \in [Requests -> RequestStates] /\ clock \in Nat /\ started \in Nat
  BY DEF IInv, TypeOK
<1>2. CASE Tick
  BY <1>1, <1>2, HistoryUnchanged DEF Tick, IInv
<1>3. ASSUME NEW r \in Requests, TapArrives(r) PROVE IInv'
  <2>1. PICK op \in MoveOps \cup ResubmitOps \cup AllowOps \cup AddOps \cup LogoOps
                  \cup ProposeOps \cup PlainOps : Arrives(r, op)
    BY <1>3 DEF TapArrives
  <2>2. op \in Ops
    BY <2>1 DEF Ops
  <2>3. op.type # "decide"
    BY <2>1 DEF MoveOps, ResubmitOps, AllowOps, AddOps, LogoOps, ProposeOps, PlainOps
  <2> QED
    BY <2>1, <2>2, <2>3, ArrivesKeeps
<1>4. ASSUME NEW r \in Requests, EditArrives(r) PROVE IInv'
  <2>1. PICK patch \in Patches, recordsUnchanged \in BOOLEAN :
          Arrives(r, [type |-> "edit", version |-> row.version, patch |-> patch,
                      recordsUnchanged |-> recordsUnchanged])
    BY <1>4 DEF EditArrives
  <2> DEFINE op == [type |-> "edit", version |-> row.version, patch |-> patch,
                    recordsUnchanged |-> recordsUnchanged]
  <2>2. row.version \in Nat
    BY RowTyped DEF IInv, TypeOK
  <2>3. op \in Ops /\ op.type # "decide"
    BY <2>2 DEF Ops, EditOps
  <2>4. Arrives(r, op)
    BY <2>1
  <2> HIDE DEF op
  <2> QED
    BY <2>3, <2>4, ArrivesKeeps
<1>5. ASSUME NEW r \in Requests, DecideArrives(r) PROVE IInv'
  <2>1. PICK approve \in BOOLEAN :
          Arrives(r, [type |-> "decide", version |-> row.version,
                      approve |-> approve, shown |-> row.pending])
    BY <1>5 DEF DecideArrives
  <2> DEFINE op == [type |-> "decide", version |-> row.version,
                    approve |-> approve, shown |-> row.pending]
  <2>2. row.version \in Nat /\ row.pending \in Proposals
    BY <1>5, RowTyped DEF IInv, TypeOK, DecideArrives
  <2>3. op \in Ops /\ op.version = row.version /\ op.shown = row.pending
    BY <2>2 DEF Ops, DecideOps
  <2>4. Arrives(r, op)
    BY <2>1
  <2> HIDE DEF op
  <2> QED
    BY <2>3, <2>4, ArrivesKeeps
<1>6. ASSUME NEW r \in Requests, Serve(r) PROVE IInv'
  BY <1>6, ReadsKeeps, CountsKeeps, WritesKeeps, LosesRaceKeeps DEF Serve
<1>7. CASE UNCHANGED vars
  BY <1>1, <1>7, HistoryUnchanged DEF vars, IInv
<1> QED
  BY <1>2, <1>3, <1>4, <1>5, <1>6, <1>7 DEF Next, ArriveSome, Finished

LEMMA InvariantHolds == Spec => []IInv
  BY InitInv, NextInv, PTL DEF Spec

-----------------------------------------------------------------------------
(* The theorems.                                                           *)

(* However requests overlap, the row, the history and every request keep   *)
(* their types: no plan made on a stale row writes a column it cannot.     *)
THEOREM RowStaysTyped == Spec => []TypeOK
<1>1. IInv => TypeOK
  BY DEF IInv
<1> QED
  BY <1>1, InvariantHolds, PTL

(* An allowance that races an approval, a rejection or another allowance   *)
(* never leaves a permission on a shelter that is no longer open.          *)
THEOREM PermissionsEndWithOpenness == Spec => []EarlyOnlyWhileOpen
<1>1. IInv => EarlyOnlyWhileOpen
  BY DEF IInv, PermissionInv
<1> QED
  BY <1>1, InvariantHolds, PTL

(* The history says of every permission when it was given and that it      *)
(* ended, whatever writes came between the read and the write.             *)
THEOREM HistoryAccountsForPermissions == Spec => []PermissionsAccounted
<1>1. IInv => PermissionsAccounted
  BY DEF IInv, PermissionInv
<1> QED
  BY <1>1, InvariantHolds, PTL

(* The recorded moves chain to the status the row holds.                   *)
THEOREM HistoryTellsStatus == Spec => []VerificationChains
<1>1. IInv => VerificationChains
  BY DEF IInv, MovesInv
<1> QED
  BY <1>1, InvariantHolds, PTL

(* A pause, a suspension and what undoes them keep the first approval.     *)
THEOREM FirstApprovalKept == Spec => []ApprovalKept
<1>1. IInv => ApprovalKept
  BY DEF IInv, MovesInv
<1> QED
  BY <1>1, InvariantHolds, PTL

(* A suspension lifted never reopens a shelter that had closed itself.     *)
THEOREM OnlyResumeReopens == Spec => []PauseEndsOnlyByResume
<1>1. IInv => PauseEndsOnlyByResume
  BY DEF IInv, MovesInv, PauseRemembered, PauseEndsOnlyByResume
<1> QED
  BY <1>1, InvariantHolds, PTL

(* What a line says was there before is what the write replaced, for every *)
(* field and both readers' ways of recording.                              *)
THEOREM HistoryTellsFields == Spec => []PreviousIsReplaced
<1>1. IInv => PreviousIsReplaced
  BY DEF IInv
<1> QED
  BY <1>1, InvariantHolds, PTL

(* Only an approval sets the live link, and only a legal approval verifies *)
(* a shelter under review.                                                 *)
LEMMA PlanColumns ==
  ASSUME Before, NEW op \in Ops, NEW now \in Nat, NEW periods \in Nat,
         NEW plan, plan = PlanOf(row, op, now, periods)
  PROVE  /\ "live" \in DOMAIN plan.columns =>
              /\ op.type = "decide" /\ op.approve
              /\ plan.columns["live"] = row.pending.link
         /\ "verification" \in DOMAIN plan.columns =>
              \/ plan.columns["verification"] = row.verification
              \/ \E event \in LegalMoves(row.verification.status) :
                   /\ plan.columns["verification"]
                        = NextVerification(row.verification, event, now)
                   /\ event = "approve" => MayApprove(row)
<1> DEFINE Quiet == DOMAIN plan.columns \cap {"live", "verification"} = {}
<1>1. CASE plan = NoPlan
  BY <1>1 DEF NoPlan
<1>2. ASSUME NEW event, NEW evidence, plan = MovePlan(row, event, evidence, now),
             plan # NoPlan
      PROVE  /\ "live" \notin DOMAIN plan.columns
             /\ event \in LegalMoves(row.verification.status)
             /\ plan.columns["verification"]
                  = NextVerification(row.verification, event, now)
             /\ event = "approve" => MayApprove(row)
  <2>1. PlannedMove(plan, row, event, evidence, now)
    BY <1>2, MovePlanned DEF Before
  <2> QED
    BY <2>1 DEF PlannedMove
<1>3. CASE op.type \in {"move", "resubmit"}
  <2>1. \/ plan = NoPlan
        \/ \E event, evidence : plan = MovePlan(row, event, evidence, now)
    BY <1>3 DEF PlanOf, ResubmitPlan
  <2> QED
    BY <1>1, <1>2, <2>1
<1>4. CASE op.type \in {"allow", "revoke", "propose", "cancel"}
  <2>1. plan = NoPlan \/ Quiet
    BY <1>4 DEF PlanOf, AllowPlan, RevokePlan, ProposePlan, CancelPlan, Plan
  <2> QED
    BY <1>1, <2>1
<1>5. CASE op.type = "add_evidence"
  <2>1. \/ plan = NoPlan
        \/ /\ DOMAIN plan.columns = {"verification", "evidence"}
           /\ plan.columns["verification"] = row.verification
    BY <1>5 DEF PlanOf, AddPlan, Plan
  <2> QED
    BY <1>1, <2>1
<1>6. CASE op.type \in {"edit", "set_logo"}
  <2>1. plan = NoPlan \/ DOMAIN plan.columns = {"profile"}
    BY <1>6 DEF PlanOf, LogoPlan, ProfilePlan, Plan
  <2> QED
    BY <1>1, <2>1
<1>7. CASE op.type = "decide"
  <2>1. \/ plan = NoPlan
        \/ /\ op.approve
           /\ DOMAIN plan.columns = {"live", "pending"}
           /\ plan.columns["live"] = row.pending.link
        \/ DOMAIN plan.columns = {"pending"}
    BY <1>7 DEF PlanOf, DecidePlan, Plan
  <2> QED
    BY <1>1, <1>7, <2>1
<1> QED
  BY <1>3, <1>4, <1>5, <1>6, <1>7, OpTyped DEF AllOpTypes

(* Only a write changes the row.                                           *)
LEMMA OnlyWrites ==
  ASSUME IInv, [Next]_vars, row' # row
  PROVE  \E r \in Requests : Writes(r)
BY DEF Next, vars, Tick, Finished, ArriveSome, TapArrives, EditArrives,
       DecideArrives, Arrives, Serve, Reads, Counts, LosesRace

(* A decision that lands is on the proposal its page showed.               *)
THEOREM DecisionsOnWhatWasSeen == Spec => DecisionOnSeenProposal
<1>1. ASSUME IInv, [Next]_vars, row'.live # row.live
      PROVE  \E r \in Requests :
               /\ req[r].pc = "write"
               /\ req[r].op.type = "decide" /\ req[r].op.approve
               /\ req[r].op.shown = row.pending
               /\ row'.live = row.pending.link
  <2>1. PICK r \in Requests : Writes(r)
    BY <1>1, OnlyWrites
  <2> DEFINE plan == PlanOf(row, req[r].op, req[r].now, req[r].periods)
  <2>2. /\ req[r].pc = "write" /\ req[r].op \in Ops
        /\ req[r].now \in Nat /\ req[r].periods \in Nat
        /\ Before /\ Lands(plan)
        /\ req[r].op.type = "decide" => req[r].op.shown = row.pending
    BY <1>1, <2>1, WriteLands
  <2>3. "live" \in DOMAIN plan.columns =>
          /\ req[r].op.type = "decide" /\ req[r].op.approve
          /\ plan.columns["live"] = row.pending.link
    BY <2>2, PlanColumns
  <2> HIDE DEF plan
  <2>4. row'.live = IF "live" \in DOMAIN plan.columns THEN plan.columns["live"]
                    ELSE row.live
    BY <2>2 DEF Lands, Columns
  <2> QED
    BY <1>1, <2>2, <2>3, <2>4
<1>2. IInv /\ [Next]_vars =>
        [ row'.live # row.live
          => \E r \in Requests :
               /\ req[r].pc = "write"
               /\ req[r].op.type = "decide" /\ req[r].op.approve
               /\ req[r].op.shown = row.pending
               /\ row'.live = row.pending.link ]_vars
  BY <1>1
<1> QED
  BY <1>2, InvariantHolds, PTL DEF Spec, DecisionOnSeenProposal

(* However an approval, an evidence list and a change of the legal form    *)
(* overlap, the approval that lands stands on what is then on file.        *)
THEOREM ApprovalsStandOnEvidence == Spec => ApprovedOnEvidence
<1>1. ASSUME IInv, [Next]_vars, row.verification.status = "under_review",
             row'.verification.status = "verified"
      PROVE  MayApprove(row)
  <2>1. PICK r \in Requests : Writes(r)
    <3>1. row' # row
      BY <1>1
    <3> QED
      BY <1>1, <3>1, OnlyWrites
  <2> DEFINE plan == PlanOf(row, req[r].op, req[r].now, req[r].periods)
  <2>2. /\ req[r].op \in Ops
        /\ req[r].now \in Nat /\ req[r].periods \in Nat
        /\ Before /\ Lands(plan)
    BY <1>1, <2>1, WriteLands
  <2>3. "verification" \in DOMAIN plan.columns =>
          \/ plan.columns["verification"] = row.verification
          \/ \E event \in LegalMoves(row.verification.status) :
               /\ plan.columns["verification"]
                    = NextVerification(row.verification, event, req[r].now)
               /\ event = "approve" => MayApprove(row)
    BY <2>2, PlanColumns
  <2> HIDE DEF plan
  <2>4. row'.verification = IF "verification" \in DOMAIN plan.columns
                            THEN plan.columns["verification"] ELSE row.verification
    BY <2>2 DEF Lands, Columns
  <2>5. PICK event \in LegalMoves("under_review") :
          /\ row'.verification = NextVerification(row.verification, event, req[r].now)
          /\ event = "approve" => MayApprove(row)
    BY <1>1, <2>3, <2>4
  <2>6. event \in {"approve", "reject"}
    BY <2>5 DEF LegalMoves
  <2>7. event # "reject"
    BY <1>1, <2>5 DEF NextVerification
  <2> QED
    BY <2>5, <2>6, <2>7
<1>2. IInv /\ [Next]_vars =>
        [ /\ row.verification.status = "under_review"
          /\ row'.verification.status = "verified"
          => MayApprove(row) ]_vars
  BY <1>1
<1> QED
  BY <1>2, InvariantHolds, PTL DEF Spec, ApprovedOnEvidence

-----------------------------------------------------------------------------
(* The permissions counted.                                                *)

AllowedLines == {i \in DOMAIN history : history[i].kind = "allowed"}

LEMMA AllowedFinite ==
  ASSUME history \in Seq(Lines)
  PROVE  /\ AllowedLines \subseteq 1 .. Len(history)
         /\ IsFiniteSet(AllowedLines)
         /\ PeriodsUsed = Cardinality(AllowedLines)
         /\ PeriodsUsed \in Nat
<1>1. AllowedLines \subseteq 1 .. Len(history) /\ Len(history) \in Nat
  BY DEF AllowedLines
<1>2. IsFiniteSet(1 .. Len(history))
  BY <1>1, FS_Interval
<1>3. IsFiniteSet(AllowedLines)
  BY <1>1, <1>2, FS_Subset
<1>4. PeriodsUsed = Cardinality(AllowedLines)
  BY DEF PeriodsUsed, AllowedLines
<1> QED
  BY <1>1, <1>3, <1>4, FS_CardinalityType

(* Lines that allow nothing leave the count.                               *)
LEMMA CountKept ==
  ASSUME history \in Seq(Lines), NEW more \in Seq(Lines),
         \A i \in 1 .. Len(more) : more[i].kind # "allowed",
         history' = history \o more
  PROVE  PeriodsUsed' = PeriodsUsed
<1>1. \A i \in 1 .. Len(history) + Len(more) :
        \/ i \in 1 .. Len(history)
        \/ i - Len(history) \in 1 .. Len(more) /\ i = Len(history) + (i - Len(history))
  BY Appended
<1>2. AllowedLines' = AllowedLines
  BY <1>1, Appended DEF AllowedLines
<1> QED
  BY <1>2 DEF PeriodsUsed, AllowedLines

(* An allowance, written last of its lines, adds one.                      *)
LEMMA CountStep ==
  ASSUME history \in Seq(Lines), NEW more \in Seq(Lines),
         Len(more) \in {1, 2},
         \A i \in 1 .. Len(more) : more[i].kind = "allowed" <=> i = Len(more),
         history' = history \o more
  PROVE  PeriodsUsed' = PeriodsUsed + 1
<1> DEFINE last == Len(history) + Len(more)
<1>1. \A i \in 1 .. Len(history) + Len(more) :
        \/ i \in 1 .. Len(history)
        \/ i - Len(history) \in 1 .. Len(more) /\ i = Len(history) + (i - Len(history))
  BY Appended
<1>2. AllowedLines' = AllowedLines \cup {last}
  <2>1. last \in DOMAIN history' /\ history'[last].kind = "allowed"
    BY Appended
  <2>2. ASSUME NEW i \in DOMAIN history', history'[i].kind = "allowed"
        PROVE  i \in AllowedLines \cup {last}
    <3>1. CASE i \in 1 .. Len(history)
      BY <2>2, <3>1, Appended DEF AllowedLines
    <3>2. CASE i - Len(history) \in 1 .. Len(more) /\ i = Len(history) + (i - Len(history))
      <4>1. history'[i] = more[i - Len(history)]
        BY <3>2, Appended
      <4>2. i - Len(history) = Len(more)
        BY <2>2, <3>2, <4>1
      <4> QED
        BY <3>2, <4>2
    <3> QED
      BY <1>1, <2>2, <3>1, <3>2, Appended
  <2>3. ASSUME NEW i \in AllowedLines
        PROVE  i \in DOMAIN history' /\ history'[i].kind = "allowed"
    BY Appended DEF AllowedLines
  <2> HIDE DEF last
  <2> QED
    BY <2>1, <2>2, <2>3 DEF AllowedLines
<1>3. last \notin AllowedLines
  <2>1. Len(history) \in Nat /\ \A i \in AllowedLines : i <= Len(history)
    BY AllowedFinite, Appended
  <2>2. ~(last <= Len(history))
    <3>1. ASSUME NEW n \in Nat, NEW k \in {1, 2} PROVE ~(n + k <= n)
      BY <3>1
    <3> QED
      BY <2>1, <3>1
  <2> QED
    BY <2>1, <2>2
<1>4. Cardinality(AllowedLines \cup {last}) = Cardinality(AllowedLines) + 1
  BY <1>3, AllowedFinite, FS_AddElement
<1>5. PeriodsUsed' = Cardinality(AllowedLines')
  BY DEF PeriodsUsed, AllowedLines
<1> QED
  BY <1>2, <1>4, <1>5, AllowedFinite

(* An allowance about to be written on the row it was planned on has       *)
(* counted every one before it: the count is taken after the row is read,  *)
(* and another allowance would have moved the row's version.               *)
CountFresh ==
  \A r \in Requests :
    /\ req[r].pc = "write" /\ req[r].op.type = "allow"
    /\ req[r].seen.version = row.version
    => req[r].periods = PeriodsUsed

LEMMA CountInit == Init => CountFresh
  BY DEF Init, CountFresh, Idle

LEMMA CountSlot ==
  ASSUME CountFresh, req \in [Requests -> RequestStates],
         NEW r \in Requests, NEW q, req' = [req EXCEPT ![r] = q],
         UNCHANGED <<row, history>>,
         q.pc = "write" /\ q.op.type = "allow" => q.periods = PeriodsUsed
  PROVE  CountFresh'
  BY DEF CountFresh, PeriodsUsed

LEMMA CountNext == IInv /\ CountFresh /\ [Next]_vars => CountFresh'
<1> SUFFICES ASSUME IInv, CountFresh, [Next]_vars PROVE CountFresh'
  OBVIOUS
<1>1. req \in [Requests -> RequestStates]
  BY DEF IInv, TypeOK
<1>2. CASE Tick \/ UNCHANGED vars
  BY <1>2 DEF Tick, vars, CountFresh, PeriodsUsed
<1>3. ASSUME NEW r \in Requests, NEW op, Arrives(r, op) PROVE CountFresh'
  <2> DEFINE q == [Idle EXCEPT !.pc = "read", !.op = op, !.now = clock, !.attempt = 1]
  <2>1. q.pc = "read" /\ req' = [req EXCEPT ![r] = q] /\ UNCHANGED <<row, history>>
    BY <1>3 DEF Arrives, Idle
  <2> HIDE DEF q
  <2> QED
    BY <1>1, <2>1, CountSlot
<1>4. ASSUME NEW r \in Requests, Ends(r), UNCHANGED <<row, history>>
      PROVE  CountFresh'
  <2>1. Idle.pc = "idle"
    BY DEF Idle
  <2> QED
    BY <1>1, <1>4, <2>1, CountSlot DEF Ends
<1>5. ASSUME NEW r \in Requests, Reads(r) PROVE CountFresh'
  <2>1. \/ Ends(r)
        \/ /\ req[r].op.type # "allow"
           /\ req' = [req EXCEPT ![r].pc = "write", ![r].seen = row]
        \/ req' = [req EXCEPT ![r].pc = "count", ![r].seen = row]
    BY <1>5 DEF Reads
  <2>2. CASE Ends(r)
    BY <1>4, <1>5, <2>2 DEF Reads
  <2>3. CASE req[r].op.type # "allow" /\ req' = [req EXCEPT ![r].pc = "write", ![r].seen = row]
    <3> DEFINE q == [req[r] EXCEPT !.pc = "write", !.seen = row]
    <3>1. q.op = req[r].op
      BY <1>1 DEF RequestStates
    <3>2. req' = [req EXCEPT ![r] = q] /\ UNCHANGED <<row, history>>
      BY <1>1, <1>5, <2>3 DEF Reads
    <3> HIDE DEF q
    <3> QED
      BY <1>1, <2>3, <3>1, <3>2, CountSlot
  <2>4. CASE req' = [req EXCEPT ![r].pc = "count", ![r].seen = row]
    <3> DEFINE q == [req[r] EXCEPT !.pc = "count", !.seen = row]
    <3>1. q.pc = "count"
      BY <1>1 DEF RequestStates
    <3>2. req' = [req EXCEPT ![r] = q] /\ UNCHANGED <<row, history>>
      BY <1>1, <1>5, <2>4 DEF Reads
    <3> HIDE DEF q
    <3> QED
      BY <1>1, <3>1, <3>2, CountSlot
  <2> QED
    BY <2>1, <2>2, <2>3, <2>4
<1>6. ASSUME NEW r \in Requests, Counts(r) PROVE CountFresh'
  <2>1. CASE Ends(r)
    BY <1>4, <1>6, <2>1 DEF Counts
  <2>2. CASE req' = [req EXCEPT ![r].pc = "write", ![r].periods = PeriodsUsed]
    <3> DEFINE q == [req[r] EXCEPT !.pc = "write", !.periods = PeriodsUsed]
    <3>1. q.periods = PeriodsUsed
      BY <1>1 DEF RequestStates
    <3>2. req' = [req EXCEPT ![r] = q] /\ UNCHANGED <<row, history>>
      BY <1>1, <1>6, <2>2 DEF Counts
    <3> HIDE DEF q
    <3> QED
      BY <1>1, <3>1, <3>2, CountSlot
  <2> QED
    BY <1>6, <2>1, <2>2 DEF Counts
<1>7. ASSUME NEW r \in Requests, LosesRace(r) PROVE CountFresh'
  <2>1. CASE Ends(r)
    BY <1>4, <1>7, <2>1 DEF LosesRace
  <2>2. CASE ~Ends(r)
    <3> DEFINE q == [req[r] EXCEPT !.pc = "read", !.attempt = @ + 1, !.seen = None,
                                   !.periods = 0]
    <3>1. q.pc = "read"
      BY <1>1 DEF RequestStates
    <3>2. req' = [req EXCEPT ![r] = q] /\ UNCHANGED <<row, history>>
      BY <1>1, <1>7, <2>2 DEF LosesRace
    <3> HIDE DEF q
    <3> QED
      BY <1>1, <3>1, <3>2, CountSlot
  <2> QED
    BY <2>1, <2>2
<1>8. ASSUME NEW r \in Requests, Writes(r) PROVE CountFresh'
  <2>1. row.version \in Nat /\ row'.version = row.version + 1
    BY <1>8, WriteLands, RowTyped DEF Before, Lands
  <2>2. req' = [req EXCEPT ![r] = Idle]
    BY <1>8 DEF Writes, Ends
  <2>3. ASSUME NEW s \in Requests, req'[s].pc = "write"
        PROVE  req'[s].seen.version # row'.version
    <3>1. req'[s] = req[s] /\ req[s].pc = "write"
      <4>1. s # r
        BY <1>1, <2>2, <2>3 DEF Idle
      <4> QED
        BY <1>1, <2>2, <2>3, <4>1
    <3>2. req[s].seen \in Rows /\ req[s].seen.version <= row.version
      BY <3>1 DEF IInv, SeenInv
    <3>3. req[s].seen.version \in Nat
      BY <3>2 DEF Rows
    <3> QED
      BY <2>1, <3>1, <3>2, <3>3
  <2> QED
    BY <2>3 DEF CountFresh
<1> QED
  BY <1>2, <1>3, <1>5, <1>6, <1>7, <1>8
     DEF Next, ArriveSome, TapArrives, EditArrives, DecideArrives, Serve, Finished

LEMMA CountHolds == Spec => [](IInv /\ CountFresh)
<1>1. Init => IInv /\ CountFresh
  BY InitInv, CountInit
<1>2. IInv /\ CountFresh /\ [Next]_vars => (IInv /\ CountFresh)'
  BY NextInv, CountNext
<1> QED
  BY <1>1, <1>2, PTL DEF Spec

-----------------------------------------------------------------------------
(* The abstract shelter.                                                   *)

LEMMA EligibleTyped ==
  ASSUME NEW theRow \in Rows
  PROVE  MayApprove(theRow) \in BOOLEAN
<1>1. theRow.profile.legal_entity \in LegalForms
  BY DEF Rows, Profiles
<1> QED
  BY <1>1 DEF MayApprove, MeetsRequirements, LegalForms

(* What a suspension interrupted, as the abstract shelter keeps it.        *)
InterruptedOf(v) == IF v.status = "suspended" THEN v.priorState.status ELSE None

LEMMA LifeInit == Init => Life!Init
<1> SUFFICES ASSUME Init PROVE Life!Init
  OBVIOUS
<1>1. /\ row \in Rows /\ row.early = None /\ row.pending = None
      /\ history = <<>>
  BY KabinetShelterAssumption, StartRowsAssumption DEF Init
<1>2. \/ /\ row.verification.status
              \in {"pending", "under_review", "verified", "rejected", "paused"}
         /\ InterruptedOf(row.verification) = None
      \/ /\ row.verification.status = "suspended"
         /\ InterruptedOf(row.verification) \in {"verified", "paused"}
  BY <1>1, RowTyped DEF Verifications, InterruptedStates, InterruptedOf
<1>3. MayApprove(row) \in BOOLEAN
  BY <1>1, EligibleTyped
<1>4. PeriodsUsed = 0
  <2>1. {i \in DOMAIN history : history[i].kind = "allowed"} = {}
    BY <1>1
  <2> QED
    BY <2>1, FS_EmptySet DEF PeriodsUsed
<1>5. row.live \in Links \cup {None}
  BY <1>1, RowTyped
<1> QED
  BY <1>1, <1>2, <1>3, <1>4, <1>5 DEF Life!Init, Life!Open, InterruptedOf

(* The version, and what the abstract shelter does not tell.               *)
LEMMA LifeStutters ==
  ASSUME row'.verification = row.verification, row'.early = row.early,
         MayApprove(row)' = MayApprove(row),
         PeriodsUsed' = PeriodsUsed,
         row'.live = row.live, row'.pending = row.pending
  PROVE  UNCHANGED Life!life
  BY Zenon DEF Life!life

LEMMA LifeMoves ==
  ASSUME row \in Rows, row' \in Rows, EarlyOnlyWhileOpen,
         NEW event \in LegalMoves(row.verification.status), NEW at \in Nat,
         row'.verification = NextVerification(row.verification, event, at),
         row'.early = IF KeepsEarlyListing(row.verification.status,
                                           row'.verification.status)
                      THEN row.early ELSE None,
         event = "approve" => MayApprove(row),
         event # "resubmit" => MayApprove(row)' = MayApprove(row),
         PeriodsUsed' = PeriodsUsed,
         row'.live = row.live, row'.pending = row.pending
  PROVE  Life!Next
<1> DEFINE v == row.verification
           from == v.status
           to == row'.verification.status
<1>1. v \in Verifications /\ from \in Statuses
  BY RowTyped, NextTyped
<1>2. row'.early = IF to \in Life!Open THEN row.early ELSE None
  <2>1. from \notin Life!Open => row.early = None
    BY DEF EarlyOnlyWhileOpen, OpenStatuses, Life!Open
  <2> QED
    BY <2>1 DEF KeepsEarlyListing, OpenStatuses, Life!Open
<1>3. /\ UNCHANGED <<PeriodsUsed, row.live,
                     IF row.pending = None THEN None ELSE row.pending.link>>
      /\ event # "resubmit" => UNCHANGED MayApprove(row)
  BY Zenon
<1>4. MayApprove(row)' \in BOOLEAN
  BY EligibleTyped
<1>5. CASE event = "start_review"
  <2>1. from = "pending" /\ to = "under_review" /\ InterruptedOf(row'.verification) = None
    BY <1>1, <1>5 DEF LegalMoves, NextVerification, InterruptedOf, Verifications,
       InterruptedStates
  <2> QED
    BY <1>2, <1>3, <1>4, <1>5, <2>1
       DEF Life!Next, Life!StartReview, Life!Judge, Life!Move, InterruptedOf
<1>6. CASE event = "approve"
  <2>1. from = "under_review" /\ to = "verified" /\ InterruptedOf(row'.verification) = None
    BY <1>1, <1>6 DEF LegalMoves, NextVerification, InterruptedOf, Verifications,
       InterruptedStates
  <2> QED
    BY <1>2, <1>3, <1>4, <1>6, <2>1
       DEF Life!Next, Life!Approve, Life!Judge, Life!Move, InterruptedOf
<1>7. CASE event = "reject"
  <2>1. from \in {"pending", "under_review", "suspended"} /\ to = "rejected" /\ InterruptedOf(row'.verification) = None
    BY <1>1, <1>7 DEF LegalMoves, NextVerification, InterruptedOf, Verifications,
       InterruptedStates
  <2> QED
    BY <1>2, <1>3, <1>4, <1>7, <2>1
       DEF Life!Next, Life!Reject, Life!Judge, Life!Move, InterruptedOf
<1>8. CASE event = "suspend"
  <2>1. from \in {"verified", "paused"} /\ to = "suspended" /\ InterruptedOf(row'.verification) = from
    BY <1>1, <1>8 DEF LegalMoves, NextVerification, InterruptedOf, Verifications,
       InterruptedStates
  <2> QED
    BY <1>2, <1>3, <1>4, <1>8, <2>1
       DEF Life!Next, Life!Suspend, Life!Judge, Life!Move, InterruptedOf
<1>9. CASE event = "reinstate"
  <2>1. from = "suspended" /\ to = InterruptedOf(v) /\ to # "suspended" /\ InterruptedOf(row'.verification) = None
    BY <1>1, <1>9 DEF LegalMoves, NextVerification, InterruptedOf, Verifications,
       InterruptedStates
  <2> QED
    BY <1>2, <1>3, <1>4, <1>9, <2>1
       DEF Life!Next, Life!Reinstate, Life!Judge, Life!Move, InterruptedOf
<1>10. CASE event = "pause"
  <2>1. from = "verified" /\ to = "paused" /\ InterruptedOf(row'.verification) = None
    BY <1>1, <1>10 DEF LegalMoves, NextVerification, InterruptedOf, Verifications,
       InterruptedStates
  <2> QED
    BY <1>2, <1>3, <1>4, <1>10, <2>1
       DEF Life!Next, Life!Pause, Life!Judge, Life!Move, InterruptedOf
<1>11. CASE event = "resume"
  <2>1. from = "paused" /\ to = "verified" /\ InterruptedOf(row'.verification) = None
    BY <1>1, <1>11 DEF LegalMoves, NextVerification, InterruptedOf, Verifications,
       InterruptedStates
  <2> QED
    BY <1>2, <1>3, <1>4, <1>11, <2>1
       DEF Life!Next, Life!Resume, Life!Judge, Life!Move, InterruptedOf
<1>12. CASE event = "resubmit"
  <2>1. from = "rejected" /\ to = "pending" /\ InterruptedOf(row'.verification) = None
    BY <1>1, <1>12 DEF LegalMoves, NextVerification, InterruptedOf, Verifications,
       InterruptedStates
  <2> QED
    BY <1>2, <1>3, <1>4, <1>12, <2>1
       DEF Life!Next, Life!Resubmit, Life!Judge, Life!Move, InterruptedOf
<1> QED
  BY <1>1, <1>5, <1>6, <1>7, <1>8, <1>9, <1>10, <1>11, <1>12, NextTyped
     DEF VerificationEvents

(* What a plan that lands leaves in each column.                           *)
LEMMA ColumnsLand ==
  ASSUME NEW plan, Lands(plan)
  PROVE  /\ \A column \in {"verification", "evidence", "profile", "pending", "live"} :
              /\ column \in DOMAIN plan.columns => row'[column] = plan.columns[column]
              /\ column \notin DOMAIN plan.columns => row'[column] = row[column]
         /\ row'.early = EarlyAfter(plan.columns)
         /\ history' = history \o plan.lines
  BY DEF Lands, Columns

(* The policy reads the evidence and the legal form.                       *)
LEMMA EligibleKept ==
  ASSUME row'.evidence = row.evidence, row'.profile = row.profile
  PROVE  MayApprove(row)' = MayApprove(row)
  BY DEF MayApprove

LEMMA NothingLives ==
  ASSUME Before, Lands(NoPlan)
  PROVE  UNCHANGED Life!life
<1>1. /\ row'.verification = row.verification /\ row'.evidence = row.evidence
      /\ row'.profile = row.profile /\ row'.pending = row.pending
      /\ row'.live = row.live /\ row'.early = row.early
      /\ history' = history \o <<>>
  <2>1. DOMAIN NoPlan.columns = {} /\ NoPlan.lines = <<>>
    BY DEF NoPlan
  <2> QED
    BY <2>1, ColumnsLand DEF EarlyAfter
<1> DEFINE more == <<>>
<1>2. /\ history' = history \o more /\ more \in Seq(Lines)
      /\ \A i \in 1 .. Len(more) : more[i].kind # "allowed"
  BY <1>1, NoLines
<1> HIDE DEF more
<1>3. PeriodsUsed' = PeriodsUsed
  BY <1>2, CountKept DEF Before
<1> QED
  BY <1>1, <1>3, EligibleKept, LifeStutters

LEMMA MoveLives ==
  ASSUME Before, NEW event, NEW evidence \in SUBSET EvidenceItems, NEW now \in Nat,
         event # "resubmit" => evidence = row.evidence,
         Lands(MovePlan(row, event, evidence, now))
  PROVE  [Life!Next]_(Life!life)
<1> DEFINE plan == MovePlan(row, event, evidence, now)
           v == row.verification
           next == NextVerification(v, event, now)
<1>1. CASE plan = NoPlan
  BY <1>1, NothingLives
<1>2. CASE PlannedMove(plan, row, event, evidence, now)
  <2>1. PICK lapse \in LapseOrNone :
               /\ plan.lines = <<MoveLine(v, event, now)>> \o lapse
               /\ KeepsEarlyListing(v.status, next.status) => lapse = <<>>
    BY <1>2 DEF PlannedMove
  <2>2. /\ event \in LegalMoves(v.status)
        /\ event = "approve" => MayApprove(row)
        /\ DOMAIN plan.columns = {"verification", "evidence"}
        /\ plan.columns["verification"] = next
        /\ plan.columns["evidence"] = evidence
    BY <1>2 DEF PlannedMove
  <2>3. v \in Verifications /\ row \in Rows
    BY RowTyped DEF Before
  <2> DEFINE more == <<MoveLine(v, event, now)>> \o lapse
  <2>4. /\ more \in Seq(Lines)
        /\ Len(more) \in {1, 2}
        /\ more[1] = MoveLine(v, event, now)
        /\ Len(more) = 2 => more[2].kind = "lapsed"
    <3>1. v \in Verifications /\ event \in LegalMoves(v.status)
      BY <2>2, <2>3
    <3> HIDE DEF v
    <3> QED
      BY <3>1, MoveTyped
  <2>5. MoveLine(v, event, now).kind = "verification"
    BY DEF MoveLine
  <2>6. Kept
    BY MoveLands
  <2> HIDE DEF plan, next
  <2>7. /\ row'.verification = next
        /\ row'.evidence = evidence /\ row'.profile = row.profile
        /\ row'.live = row.live /\ row'.pending = row.pending
        /\ row'.early = IF KeepsEarlyListing(v.status, next.status)
                        THEN row.early ELSE None
        /\ history' = history \o more
    BY <2>1, <2>2, ColumnsLand DEF EarlyAfter, plan
  <2> HIDE DEF more, v
  <2>8. PeriodsUsed' = PeriodsUsed
    <3>1. \A i \in 1 .. Len(more) : more[i].kind # "allowed"
      BY <2>4, <2>5
    <3> QED
      BY <2>4, <2>7, <3>1, CountKept DEF Before
  <2>9. event # "resubmit" => MayApprove(row)' = MayApprove(row)
    BY <2>7, EligibleKept
  <2>10. row' \in Rows /\ EarlyOnlyWhileOpen
    BY <2>6 DEF Kept, Before, HistoryInv, PermissionInv
  <2> QED
    BY <2>2, <2>3, <2>7, <2>8, <2>9, <2>10, LifeMoves DEF next, v
<1> QED
  BY <1>1, <1>2, MovePlanned DEF Before

LEMMA AllowLives ==
  ASSUME Before, NEW note, NEW now \in Nat,
         Lands(AllowPlan(row, note, PeriodsUsed, now))
  PROVE  [Life!Next]_(Life!life)
<1> DEFINE plan == AllowPlan(row, note, PeriodsUsed, now)
           lapse == LapseLines(row, now)
           line == [kind |-> "allowed", at |-> now, period |-> PeriodsUsed + 1]
           more == lapse \o <<line>>
<1>1. CASE plan = NoPlan
  BY <1>1, NothingLives
<1>2. CASE plan # NoPlan
  <2>1. PeriodsUsed \in Nat
    BY AllowedFinite DEF Before
  <2>2. /\ DOMAIN plan.columns = {"early"} /\ plan.columns["early"] = now
        /\ plan.lines = more
        /\ row.verification.status \in OpenStatuses
        /\ ~EarlyRuns(row.verification, row.early, now)
        /\ ~(PeriodsUsed >= MaxPeriods)
    BY <1>2 DEF AllowPlan, AllowVerdict, Plan
  <2>3. PeriodsUsed < MaxPeriods
    BY <2>1, <2>2, VerificationAssumption
  <2>4. row.early # None => now >= row.early + Period
    BY <2>2, RowTyped, VerificationAssumption DEF EarlyRuns, Before
  <2> HIDE DEF plan
  <2>5. /\ row'.verification = row.verification /\ row'.evidence = row.evidence
        /\ row'.profile = row.profile /\ row'.pending = row.pending
        /\ row'.live = row.live /\ row'.early = now
        /\ history' = history \o more
    BY <2>2, ColumnsLand DEF EarlyAfter, plan
  <2>6. PeriodsUsed' = PeriodsUsed + 1
    <3>1. line \in Lines /\ line.kind = "allowed"
      BY <2>1 DEF Lines
    <3>2. lapse \in LapseOrNone
      BY LapseTyped DEF Before
    <3> HIDE DEF line, lapse
    <3>3. /\ lapse \in Seq(Lines) /\ Len(lapse) \in {0, 1}
          /\ Len(lapse) = 1 => lapse[1].kind = "lapsed"
      BY <3>2, LapseOrNoneTyped
    <3>4. /\ more \in Seq(Lines) /\ Len(more) = Len(lapse) + 1
          /\ more[Len(more)] = line
          /\ Len(lapse) = 1 => more[1] = lapse[1]
      BY <3>1, <3>3
    <3> HIDE DEF more
    <3>5. /\ Len(more) \in {1, 2}
          /\ \A i \in 1 .. Len(more) : more[i].kind = "allowed" <=> i = Len(more)
      <4>1. CASE Len(lapse) = 0
        <5>1. Len(more) = 1 /\ more[1] = line
          BY <3>4, <4>1
        <5> QED
          BY <3>1, <5>1
      <4>2. CASE Len(lapse) = 1
        <5>1. Len(more) = 2 /\ more[2] = line /\ more[1].kind = "lapsed"
          BY <3>3, <3>4, <4>2
        <5> QED
          BY <3>1, <5>1
      <4> QED
        BY <3>3, <4>1, <4>2
    <3> QED
      BY <2>5, <3>4, <3>5, CountStep DEF Before
  <2>7. MayApprove(row)' = MayApprove(row)
    BY <2>5, EligibleKept
  <2> HIDE DEF more, line, lapse
  <2>8. row'.early \in Nat /\ (row.early # None => row'.early >= row.early + Period)
    BY <2>4, <2>5
  <2>9. row.verification.status \in Life!Open
    BY <2>2 DEF OpenStatuses, Life!Open
  <2> QED
    BY <2>3, <2>5, <2>6, <2>7, <2>8, <2>9, Zenon DEF Life!Next, Life!Allow
<1> QED
  BY <1>1, <1>2

LEMMA RevokeLives ==
  ASSUME Before, NEW now \in Nat, Lands(RevokePlan(row, now))
  PROVE  [Life!Next]_(Life!life)
<1> DEFINE plan == RevokePlan(row, now)
           more == <<[kind |-> "revoked", at |-> now]>>
<1>1. CASE plan = NoPlan
  BY <1>1, NothingLives
<1>2. CASE plan # NoPlan
  <2>1. /\ DOMAIN plan.columns = {"early"} /\ plan.columns["early"] = None
        /\ plan.lines = more
        /\ row.early # None
    BY <1>2 DEF RevokePlan, EarlyRuns, Plan
  <2> HIDE DEF plan
  <2>2. /\ row'.verification = row.verification /\ row'.evidence = row.evidence
        /\ row'.profile = row.profile /\ row'.pending = row.pending
        /\ row'.live = row.live /\ row'.early = None
        /\ history' = history \o more
    BY <2>1, ColumnsLand DEF EarlyAfter, plan
  <2>3. more \in Seq(Lines) /\ \A i \in 1 .. Len(more) : more[i].kind # "allowed"
    <3>1. [kind |-> "revoked", at |-> now] \in Lines
      BY DEF Lines
    <3> QED
      BY <3>1
  <2> HIDE DEF more
  <2>4. PeriodsUsed' = PeriodsUsed
    BY <2>2, <2>3, CountKept DEF Before
  <2>5. MayApprove(row)' = MayApprove(row)
    BY <2>2, EligibleKept
  <2> QED
    BY <2>1, <2>2, <2>4, <2>5, Zenon DEF Life!Next, Life!Revoke
<1> QED
  BY <1>1, <1>2

(* A plan that changes only what the policy reads, or less.                *)
LEMMA FileLives ==
  ASSUME Before, row' \in Rows, NEW more \in Seq(Lines),
         \A i \in 1 .. Len(more) : more[i].kind # "allowed",
         history' = history \o more,
         row'.verification = row.verification, row'.early = row.early,
         row'.live = row.live, row'.pending = row.pending
  PROVE  Life!Next
<1>1. PeriodsUsed' = PeriodsUsed
  BY CountKept DEF Before
<1>2. MayApprove(row)' \in BOOLEAN
  BY EligibleTyped
<1> QED
  BY <1>1, <1>2, Zenon DEF Life!Next, Life!FileChanges

LEMMA AddLives ==
  ASSUME Before, NEW items \in SUBSET EvidenceItems, NEW now \in Nat,
         Lands(AddPlan(row, items, now))
  PROVE  [Life!Next]_(Life!life)
<1> DEFINE plan == AddPlan(row, items, now)
           more == <<[kind |-> "evidence_added", at |-> now]>>
<1>1. CASE plan = NoPlan
  BY <1>1, NothingLives
<1>2. CASE plan # NoPlan
  <2>1. /\ DOMAIN plan.columns = {"verification", "evidence"}
        /\ plan.columns["verification"] = row.verification
        /\ plan.lines = more
        /\ row.verification.status \in OpenStatuses
    BY <1>2 DEF AddPlan, AddEvidenceVerdict, Plan
  <2>2. row' \in Rows
    BY AddLands DEF Kept
  <2> HIDE DEF plan
  <2>3. /\ row'.verification = row.verification /\ row'.early = row.early
        /\ row'.live = row.live /\ row'.pending = row.pending
        /\ history' = history \o more
    <3>1. EarlyAfter(plan.columns) = row.early
      BY <2>1 DEF EarlyAfter, KeepsEarlyListing
    <3>2. Lands(plan)
      BY DEF plan
    <3> HIDE DEF more
    <3> QED
      BY <2>1, <3>1, <3>2, ColumnsLand
  <2>4. more \in Seq(Lines) /\ \A i \in 1 .. Len(more) : more[i].kind # "allowed"
    <3>1. [kind |-> "evidence_added", at |-> now] \in Lines
      BY DEF Lines
    <3> QED
      BY <3>1
  <2> HIDE DEF more
  <2> QED
    BY <2>2, <2>3, <2>4, FileLives
<1> QED
  BY <1>1, <1>2

LEMMA ProfileLives ==
  ASSUME Before, NEW patch \in Sets, NEW recordsUnchanged \in BOOLEAN,
         Lands(ProfilePlan(row, patch, recordsUnchanged))
  PROVE  [Life!Next]_(Life!life)
<1> DEFINE plan == ProfilePlan(row, patch, recordsUnchanged)
           more == plan.lines
<1>1. /\ plan.columns = [profile |-> plan.columns.profile]
      /\ \E fields : Tells(more, fields, row.profile, plan.columns.profile)
  BY ProfilePlanned DEF Before
<1>2. DOMAIN plan.columns = {"profile"}
  BY <1>1
<1>3. more \in Seq(Lines) /\ \A i \in 1 .. Len(more) : more[i].kind = "field"
  BY <1>1 DEF Tells
<1>4. row' \in Rows
  BY ProfileLands DEF Kept
<1>5. /\ row'.verification = row.verification /\ row'.early = row.early
      /\ row'.live = row.live /\ row'.pending = row.pending
      /\ history' = history \o more
  <2>1. Lands(plan)
    OBVIOUS
  <2> HIDE DEF plan
  <2> QED
    BY <1>2, <2>1, ColumnsLand DEF EarlyAfter
<1> HIDE DEF more, plan
<1> QED
  BY <1>3, <1>4, <1>5, FileLives

(* A link proposed, withdrawn or decided on.                               *)
LEMMA LinkLives ==
  ASSUME Before, NEW plan, Lands(plan), NEW line \in Lines,
         line.kind \in {"proposed", "cancelled", "decided"},
         plan.lines = <<line>>,
         DOMAIN plan.columns \subseteq {"pending", "live"}
  PROVE  /\ row'.verification = row.verification /\ row'.early = row.early
         /\ MayApprove(row)' = MayApprove(row)
         /\ PeriodsUsed' = PeriodsUsed
<1>1. /\ row'.verification = row.verification /\ row'.early = row.early
      /\ row'.evidence = row.evidence /\ row'.profile = row.profile
      /\ history' = history \o <<line>>
  BY ColumnsLand DEF EarlyAfter
<1> DEFINE more == <<line>>
<1>2. /\ more \in Seq(Lines) /\ history' = history \o more
      /\ \A i \in 1 .. Len(more) : more[i].kind # "allowed"
  BY <1>1
<1> HIDE DEF more
<1> QED
  BY <1>1, <1>2, CountKept, EligibleKept DEF Before

LEMMA ProposeLives ==
  ASSUME Before, NEW link \in Links, NEW now \in Nat, Lands(ProposePlan(link, now))
  PROVE  Life!Next
<1> DEFINE plan == ProposePlan(link, now)
           line == [kind |-> "proposed", link |-> link]
           proposal == [link |-> link, proposedAt |-> now]
<1>1. line \in Lines /\ line.kind = "proposed"
  BY DEF Lines
<1>2. /\ plan.lines = <<line>>
      /\ DOMAIN plan.columns = {"pending"}
      /\ plan.columns["pending"] = proposal
      /\ Lands(plan)
  BY DEF ProposePlan, Plan
<1> HIDE DEF plan, line
<1>3. /\ row'.verification = row.verification /\ row'.early = row.early
      /\ MayApprove(row)' = MayApprove(row)
      /\ PeriodsUsed' = PeriodsUsed
  BY <1>1, <1>2, LinkLives
<1>4. row'.live = row.live /\ row'.pending = proposal
  BY <1>2, ColumnsLand
<1>5. row'.pending # None /\ row'.pending.link = link
  BY <1>4, KabinetShelterAssumption DEF Proposals
<1> QED
  BY <1>3, <1>4, <1>5, Zenon DEF Life!Next, Life!Propose, Life!Donations

LEMMA CancelLives ==
  ASSUME Before, NEW now \in Nat, Lands(CancelPlan(row, now))
  PROVE  [Life!Next]_(Life!life)
<1> DEFINE plan == CancelPlan(row, now)
           line == [kind |-> "cancelled", at |-> now]
<1>1. CASE plan = NoPlan
  BY <1>1, NothingLives
<1>2. CASE plan # NoPlan
  <2>1. line \in Lines /\ line.kind = "cancelled"
    BY DEF Lines
  <2>2. /\ plan.lines = <<line>>
        /\ DOMAIN plan.columns = {"pending"}
        /\ plan.columns["pending"] = None
        /\ Lands(plan)
        /\ row.pending # None
    BY <1>2 DEF CancelPlan, Plan
  <2> HIDE DEF plan, line
  <2>3. /\ row'.verification = row.verification /\ row'.early = row.early
        /\ MayApprove(row)' = MayApprove(row)
        /\ PeriodsUsed' = PeriodsUsed
    BY <2>1, <2>2, LinkLives
  <2>4. row'.live = row.live /\ row'.pending = None
    BY <2>2, ColumnsLand
  <2>5. row.pending.link # None
    BY <2>2, RowTyped, KabinetShelterAssumption DEF Before, Proposals
  <2> QED
    BY <2>2, <2>3, <2>4, <2>5, Zenon DEF Life!Next, Life!Drop, Life!Donations
<1> QED
  BY <1>1, <1>2

LEMMA DecideLives ==
  ASSUME Before, NEW approve \in BOOLEAN, Lands(DecidePlan(row, approve))
  PROVE  [Life!Next]_(Life!life)
<1> DEFINE plan == DecidePlan(row, approve)
           line == [kind |-> "decided", link |-> row.pending.link, approve |-> approve]
<1>1. CASE row.pending = None
  BY <1>1, NothingLives DEF DecidePlan
<1>2. CASE row.pending # None
  <2>1. row.pending.link \in Links /\ row.pending.link # None
    BY <1>2, RowTyped, KabinetShelterAssumption DEF Before, Proposals
  <2>2. line \in Lines /\ line.kind = "decided"
    BY <2>1 DEF Lines
  <2>3. /\ plan.lines = <<line>>
        /\ DOMAIN plan.columns = IF approve THEN {"live", "pending"} ELSE {"pending"}
        /\ plan.columns["pending"] = None
        /\ approve => plan.columns["live"] = row.pending.link
    BY <1>2 DEF DecidePlan, Plan
  <2>4. Lands(plan)
    OBVIOUS
  <2> HIDE DEF plan, line
  <2>5. /\ row'.verification = row.verification /\ row'.early = row.early
        /\ MayApprove(row)' = MayApprove(row)
        /\ PeriodsUsed' = PeriodsUsed
    BY <2>2, <2>3, <2>4, LinkLives
  <2>6. /\ row'.pending = None
        /\ row'.live = IF approve THEN row.pending.link ELSE row.live
    BY <2>3, <2>4, ColumnsLand
  <2>7. CASE approve
    BY <1>2, <2>1, <2>5, <2>6, <2>7, Zenon DEF Life!Next, Life!Accept, Life!Donations
  <2>8. CASE ~approve
    BY <1>2, <2>1, <2>5, <2>6, <2>8, Zenon DEF Life!Next, Life!Drop, Life!Donations
  <2> QED
    BY <2>7, <2>8
<1> QED
  BY <1>1, <1>2

LEMMA PlanLives ==
  ASSUME Before, NEW op \in Ops, NEW now \in Nat, NEW periods \in Nat,
         op.type = "allow" => periods = PeriodsUsed,
         Lands(PlanOf(row, op, now, periods))
  PROVE  [Life!Next]_(Life!life)
<1>1. row.evidence \in SUBSET EvidenceItems
  BY RowTyped DEF Before
<1>2. \A sent \in Sent : sent \in SUBSET EvidenceItems
  BY KabinetShelterAssumption DEF SentEvidence
<1>3. CASE op.type = "move"
  BY <1>1, <1>3, MoveLives DEF PlanOf
<1>4. CASE op.type = "resubmit"
  <2> DEFINE evidence == IF op.sent = None THEN row.evidence
                         ELSE WithEvidenceOnFile(row.evidence, op.sent)
  <2>1. evidence \in SUBSET EvidenceItems
    BY <1>1, <1>2, <1>4, OpTyped DEF WithEvidenceOnFile
  <2>2. Lands(ResubmitPlan(row, op.sent, now))
    BY <1>4 DEF PlanOf
  <2> HIDE DEF evidence
  <2>3. \/ ResubmitPlan(row, op.sent, now) = NoPlan
        \/ ResubmitPlan(row, op.sent, now) = MovePlan(row, "resubmit", evidence, now)
    BY DEF ResubmitPlan, evidence
  <2> QED
    BY <2>1, <2>2, <2>3, NothingLives, MoveLives
<1>5. CASE op.type = "allow"
  BY <1>5, AllowLives DEF PlanOf
<1>6. CASE op.type = "revoke"
  BY <1>6, RevokeLives DEF PlanOf
<1>7. CASE op.type = "add_evidence"
  BY <1>2, <1>7, OpTyped, AddLives DEF PlanOf
<1>8. CASE op.type = "edit"
  BY <1>8, OpTyped, ProfileLives DEF PlanOf, Sets
<1>9. CASE op.type = "set_logo"
  <2>1. [logo |-> op.logo] \in Sets
    BY <1>9, OpTyped DEF Sets
  <2>2. \/ LogoPlan(row, op.logo) = NoPlan
        \/ LogoPlan(row, op.logo) = ProfilePlan(row, [logo |-> op.logo], TRUE)
    BY DEF LogoPlan
  <2>3. Lands(LogoPlan(row, op.logo))
    BY <1>9 DEF PlanOf
  <2> QED
    BY <2>1, <2>2, <2>3, NothingLives, ProfileLives
<1>10. CASE op.type = "propose"
  BY <1>10, OpTyped, ProposeLives DEF PlanOf
<1>11. CASE op.type = "cancel"
  BY <1>11, CancelLives DEF PlanOf
<1>12. CASE op.type = "decide"
  BY <1>12, OpTyped, DecideLives DEF PlanOf
<1> QED
  BY <1>3, <1>4, <1>5, <1>6, <1>7, <1>8, <1>9, <1>10, <1>11, <1>12, OpTyped
     DEF AllOpTypes

(* Each step is a step of the abstract shelter or leaves it as it is.      *)
LEMMA LifeNext ==
  ASSUME IInv, CountFresh, [Next]_vars
  PROVE  [Life!Next]_(Life!life)
<1>1. CASE UNCHANGED <<row, history>>
  BY <1>1 DEF Life!life, PeriodsUsed, MayApprove
<1>2. ASSUME NEW r \in Requests, Writes(r)
      PROVE  [Life!Next]_(Life!life)
  <2>1. req[r].op.type = "allow" => req[r].periods = PeriodsUsed
    BY <1>2, WriteLands DEF CountFresh
  <2> QED
    BY <1>2, <2>1, WriteLands, PlanLives
<1> QED
  BY <1>1, <1>2
     DEF Next, vars, Tick, Finished, ArriveSome, TapArrives, EditArrives,
         DecideArrives, Arrives, Serve, Reads, Counts, LosesRace

(* However requests overlap, the shelter lives by ShelterLife: its         *)
(* verification moves along the lifecycle's edges, an approval stands on   *)
(* enough evidence, it is never listed early more often than the policy    *)
(* grants or in two periods at once, and the donation link it shows was    *)
(* proposed and accepted.                                                  *)
THEOREM ShelterLifeImplemented == Spec => ImplementsShelterLife
<1>1. IInv /\ CountFresh /\ [Next]_vars => [Life!Next]_(Life!life)
  BY LifeNext
<1> QED
  BY <1>1, LifeInit, CountHolds, PTL DEF Spec, ImplementsShelterLife, Life!Spec

(* "A third is refused", however many operators allow at once: no shelter  *)
(* is given more periods than the policy grants.                           *)
THEOREM PeriodsLimited == Spec => [](PeriodsUsed <= MaxPeriods)
<1>1. Init => PeriodsUsed <= MaxPeriods
  BY LifeInit, VerificationAssumption DEF Life!Init
<1>2. ASSUME IInv, CountFresh, PeriodsUsed <= MaxPeriods, [Next]_vars
      PROVE  PeriodsUsed' <= MaxPeriods
  <2>1. PeriodsUsed \in Nat
    <3>1. history \in Seq(Lines)
      BY <1>2 DEF IInv, TypeOK
    <3> QED
      BY <3>1, AllowedFinite
  <2>2. [Life!Next]_(Life!life)
    BY <1>2, LifeNext
  <2>3. \/ PeriodsUsed' = PeriodsUsed
        \/ PeriodsUsed < MaxPeriods /\ PeriodsUsed' = PeriodsUsed + 1
    BY <2>2
       DEF Life!Next, Life!life, Life!StartReview, Life!Approve, Life!Reject,
           Life!Suspend, Life!Reinstate, Life!Pause, Life!Resume, Life!Resubmit,
           Life!Judge, Life!Move, Life!FileChanges, Life!Allow, Life!Revoke,
           Life!Propose, Life!Drop, Life!Accept, Life!Donations
  <2> QED
    BY <1>2, <2>1, <2>3, VerificationAssumption
<1>3. IInv /\ CountFresh /\ PeriodsUsed <= MaxPeriods /\ [Next]_vars
        => (PeriodsUsed <= MaxPeriods)'
  BY <1>2
<1> QED
  BY <1>1, <1>3, CountHolds, PTL DEF Spec

=============================================================================
