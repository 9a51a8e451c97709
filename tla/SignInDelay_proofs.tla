------------------------- MODULE SignInDelay_proofs -------------------------
(***************************************************************************)
(* The sign-in delay grows, for any number of attempts side by side, any   *)
(* delays and any window.                                                  *)
(*                                                                         *)
(* The argument: from the moment an attempt closes the gate and goes on,   *)
(* the gate has its whole delay to run and the chain a window more.  The   *)
(* attempts that took a number before it see the gate closed, or are given *)
(* up before it opens; those that take one after it find a higher count.   *)
(***************************************************************************)
EXTENDS SignInDelay, TLAPS

Pcs == {"idle", "gate", "count", "close", "check", "clear"}

TypeOK ==
  /\ count \in 0 .. Last
  /\ countLeft \in Nat \cup {Forever}
  /\ gate \in Nat
  /\ attempt \in [Slots -> [pc : Pcs, n : 0 .. Last, age : 0 .. GivenUp]]
  /\ \A s \in Slots : attempt[s].pc = "close" => attempt[s].n >= Free
  /\ last \in [n : 0 .. Last, since : Nat, held : 0 .. Last]
  /\ last.n # 0 => last.n >= Free

(* While the last attempt's delay runs the gate is closed.                 *)
GateHeld ==
  last.n # 0 /\ last.since < Delay(last.n) =>
    gate >= Delay(last.n) - last.since

Counted ==
  last.n # 0 /\ last.held >= last.n /\ last.since < Delay(last.n) + Window

(* And its number stays in the chain, a window longer.                     *)
CountHeld ==
  Counted =>
    /\ count >= last.n
    /\ countLeft >= Delay(last.n) + Window - last.since
    /\ countLeft # Forever

(* An attempt with an old number comes too early, or was given up.         *)
NumbersAhead ==
  \A s \in Slots :
    Counted /\ attempt[s].pc = "close" /\ attempt[s].age # GivenUp =>
      \/ attempt[s].n > last.n
      \/ attempt[s].n = Last
      \/ last.since <= attempt[s].age

DelayInv == TypeOK /\ GateHeld /\ CountHeld /\ NumbersAhead

-----------------------------------------------------------------------------

(* The last number is a number, and each from the first closing one on has *)
(* a delay of more than one tick.                                          *)
LEMMA LastIsNumber == Last \in Nat /\ Last >= Free
BY DelayAssumption DEF DelayAssumption, Last

LEMMA DelaysLast ==
  ASSUME NEW n \in Free .. Last
  PROVE  Delay(n) \in Nat /\ Delay(n) > 1
<1>1. Delays \in Seq(Nat) /\ Len(Delays) \in Nat
  BY DelayAssumption DEF DelayAssumption
<1>2. n - Free + 1 \in 1 .. Len(Delays)
  BY <1>1, DelayAssumption DEF DelayAssumption, Last
<1> QED
  BY <1>1, <1>2, DelayAssumption DEF DelayAssumption, Delay

THEOREM InitDelay == Init => DelayInv
<1> SUFFICES ASSUME Init PROVE DelayInv
  OBVIOUS
<1> USE LastIsNumber, DelayAssumption DEF Init, NoneClosed, NoAttempt
<1>1. TypeOK
  BY DEF TypeOK, Pcs, Forever, GivenUp, DelayAssumption
<1> QED
  BY <1>1 DEF DelayInv, GateHeld, CountHeld, Counted, NumbersAhead

LEMMA LastDelay ==
  ASSUME TypeOK, last.n # 0
  PROVE  Delay(last.n) \in Nat /\ Delay(last.n) > 1
<1>1. last.n \in Free .. Last
  BY LastIsNumber, DelayAssumption DEF TypeOK, DelayAssumption
<1> QED
  BY <1>1, DelaysLast

LEMMA TickKeeps == DelayInv /\ Tick => DelayInv'
<1> SUFFICES ASSUME DelayInv, Tick PROVE DelayInv'
  OBVIOUS
<1> USE LastIsNumber DEF DelayInv
<1>1. \A s \in Slots :
        /\ attempt'[s] \in [pc : Pcs, n : 0 .. Last, age : 0 .. GivenUp]
        /\ attempt'[s].pc = attempt[s].pc /\ attempt'[s].n = attempt[s].n
        /\ attempt[s].pc = "close" /\ attempt'[s].age # GivenUp =>
             attempt'[s].age = attempt[s].age + 1
  <2> SUFFICES ASSUME NEW s \in Slots
               PROVE  /\ attempt'[s] \in [pc : Pcs, n : 0 .. Last, age : 0 .. GivenUp]
                      /\ attempt'[s].pc = attempt[s].pc /\ attempt'[s].n = attempt[s].n
                      /\ attempt[s].pc = "close" /\ attempt'[s].age # GivenUp =>
                           attempt'[s].age = attempt[s].age + 1
    OBVIOUS
  <2>1. attempt[s] \in [pc : Pcs, n : 0 .. Last, age : 0 .. GivenUp]
    BY DEF TypeOK
  <2>2. attempt'[s] = IF Charging(s)
                      THEN [attempt[s] EXCEPT !.age = IF @ < GivenUp THEN @ + 1 ELSE @]
                      ELSE attempt[s]
    BY DEF Tick
  <2> QED
    BY <2>1, <2>2 DEF Charging, GivenUp
<1>2. last.n # 0 => Delay(last.n) \in Nat /\ Delay(last.n) > 1
  BY LastDelay
<1>3. /\ last' \in [n : 0 .. Last, since : Nat, held : 0 .. Last]
      /\ last'.n = last.n /\ last'.held = last.held
      /\ \/ last.n # 0 /\ last.since < Delay(last.n) + Window
              /\ last'.since = last.since + 1
         \/ ~(last.n # 0 /\ last.since < Delay(last.n) + Window)
              /\ last'.since = last.since
  <2>1. last \in [n : 0 .. Last, since : Nat, held : 0 .. Last]
    BY DEF TypeOK
  <2>2. CASE last.n # 0 /\ last.since < Delay(last.n) + Window
    <3>1. last' = [last EXCEPT !.since = @ + 1]
      BY <2>2 DEF Tick
    <3> QED
      BY <2>1, <2>2, <3>1
  <2>3. CASE ~(last.n # 0 /\ last.since < Delay(last.n) + Window)
    <3>1. last' = last
      BY <2>3 DEF Tick
    <3> QED
      BY <2>1, <2>3, <3>1
  <2> QED
    BY <2>2, <2>3
<1>4. /\ count' \in 0 .. Last /\ gate' \in Nat
      /\ countLeft' \in Nat \cup {Forever}
  BY DEF TypeOK, OneLess, Forever, Tick
<1>5. TypeOK'
  <2>1. attempt' \in [Slots -> [pc : Pcs, n : 0 .. Last, age : 0 .. GivenUp]]
    BY <1>1 DEF Tick
  <2> QED
    BY <1>1, <1>3, <1>4, <2>1 DEF TypeOK
<1>6. Delay(last.n)' = Delay(last.n)
  BY <1>3 DEF Delay
<1>7. gate \in Nat /\ gate' = IF gate > 0 THEN gate - 1 ELSE gate
  BY DEF TypeOK, OneLess, Tick
<1>8. GateHeld'
  <2>1. last.since \in Nat /\ last'.since \in Nat /\ Window \in Nat
    BY <1>3, DelayAssumption DEF TypeOK, DelayAssumption
  <2>2. CASE last.n = 0 \/ last.since >= Delay(last.n)
    BY <1>2, <1>3, <1>6, <2>1, <2>2 DEF GateHeld
  <2>3. CASE last.n # 0 /\ last.since < Delay(last.n)
    <3>1. last'.since = last.since + 1 /\ gate >= Delay(last.n) - last.since
      BY <1>2, <1>3, <2>1, <2>3 DEF GateHeld
    <3>2. gate' = gate - 1
      BY <1>2, <1>7, <2>1, <2>3, <3>1
    <3> QED
      BY <1>2, <1>3, <1>6, <1>7, <2>1, <2>3, <3>1, <3>2 DEF GateHeld
  <2> QED
    BY <1>2, <2>1, <2>2, <2>3
<1>9. Counted' => Counted /\ last'.since = last.since + 1
  BY <1>2, <1>3, <1>6, DelayAssumption DEF TypeOK, Counted, DelayAssumption
<1>10. CountHeld'
  <2>1. /\ countLeft \in Nat \cup {-1}
        /\ countLeft' = IF countLeft > 0 THEN countLeft - 1 ELSE countLeft
        /\ count' = IF countLeft = 1 THEN 0 ELSE count
    BY DEF TypeOK, OneLess, Tick, Forever
  <2> SUFFICES ASSUME Counted'
               PROVE  /\ count' >= last'.n
                      /\ countLeft' >= Delay(last.n) + Window - last'.since
                      /\ countLeft' # Forever
    BY <1>6 DEF CountHeld
  <2>2. /\ count >= last.n /\ countLeft >= Delay(last.n) + Window - last.since
        /\ last.n # 0 /\ last'.since < Delay(last.n) + Window
    BY <1>3, <1>6, <1>9 DEF CountHeld, Counted
  <2>3. last.since \in Nat /\ Window \in Nat /\ last'.since = last.since + 1
    BY <1>9, DelayAssumption DEF TypeOK, DelayAssumption
  <2>4. countLeft \in Nat /\ countLeft > 1
    BY <1>2, <2>1, <2>2, <2>3
  <2>5. count' = count /\ countLeft' = countLeft - 1
    BY <2>1, <2>4
  <2> QED
    BY <1>2, <1>3, <2>2, <2>3, <2>4, <2>5 DEF Forever
<1>11. NumbersAhead'
  BY <1>1, <1>3, <1>9 DEF TypeOK, NumbersAhead
<1> QED
  BY <1>5, <1>8, <1>10, <1>11

(* An attempt's steps that leave the keys and the history alone: it may    *)
(* not get to its closing of the gate, nor be younger there.               *)
LEMMA QuietKeeps ==
  ASSUME DelayInv, NEW s \in Slots, UNCHANGED <<keys, last>>,
         attempt' \in [Slots -> [pc : Pcs, n : 0 .. Last, age : 0 .. GivenUp]],
         \A q \in Slots :
           attempt'[q].pc = "close" =>
             /\ attempt[q].pc = "close"
             /\ attempt'[q].n = attempt[q].n
             /\ attempt'[q].age >= attempt[q].age
  PROVE  DelayInv'
<1> USE LastIsNumber DEF DelayInv
<1>1. UNCHANGED <<count, countLeft, gate, last>>
  BY DEF keys
<1>2. TypeOK'
  BY <1>1 DEF TypeOK
<1>3. GateHeld' /\ CountHeld' /\ (Counted' <=> Counted)
  BY <1>1 DEF GateHeld, CountHeld, Counted, Delay
<1>4. \A q \in Slots :
        /\ attempt[q].age \in 0 .. GivenUp /\ attempt'[q].age \in 0 .. GivenUp
        /\ last.since \in Nat
  BY DEF TypeOK
<1>5. NumbersAhead'
  BY <1>1, <1>3, <1>4 DEF NumbersAhead, GivenUp
<1> QED
  BY <1>2, <1>3, <1>5

LEMMA CountsKeeps ==
  ASSUME DelayInv, NEW s \in Slots, Counts(s)
  PROVE  DelayInv'
<1> USE LastIsNumber DEF DelayInv
<1>1. last.n # 0 => Delay(last.n) \in Nat /\ Delay(last.n) > 1
  BY LastDelay
<1>2. /\ count' = IF count < Last THEN count + 1 ELSE Last
      /\ countLeft' = IF count = 0 \/ countLeft = Forever THEN Window ELSE countLeft
      /\ gate' = gate /\ last' = last
  BY DEF Counts
<1>3. count' \in 0 .. Last /\ count' # 0 /\ countLeft' \in Nat \cup {Forever}
  BY <1>2, DelayAssumption DEF TypeOK, DelayAssumption
<1>4. attempt[s] \in [pc : Pcs, n : 0 .. Last, age : 0 .. GivenUp]
  BY DEF TypeOK
<1>5. /\ attempt' \in [Slots -> [pc : Pcs, n : 0 .. Last, age : 0 .. GivenUp]]
      /\ \A q \in Slots : q # s => attempt'[q] = attempt[q]
      /\ attempt'[s].pc = "close" => attempt'[s].n = count' /\ count' >= Free
  <2>1. CASE count' < Free
    BY <2>1, <1>4 DEF TypeOK, Counts, Allowed, NoAttempt, Pcs, GivenUp
  <2>2. CASE ~(count' < Free)
    <3>1. attempt' = [attempt EXCEPT ![s].pc = "close", ![s].n = count']
      BY <2>2 DEF Counts
    <3>2. count' >= Free
      BY <2>2, <1>3, DelayAssumption DEF DelayAssumption
    <3>3. attempt'[s] = [attempt[s] EXCEPT !.pc = "close", !.n = count']
      BY <3>1 DEF TypeOK
    <3>4. attempt'[s] \in [pc : Pcs, n : 0 .. Last, age : 0 .. GivenUp]
      BY <3>3, <1>3, <1>4 DEF Pcs
    <3>5. attempt'[s].n = count'
      BY <3>3, <1>4
    <3> QED
      BY <3>1, <3>2, <3>4, <3>5 DEF TypeOK
  <2> QED
    BY <2>1, <2>2
<1>6. TypeOK'
  BY <1>2, <1>3, <1>5 DEF TypeOK
<1>7. GateHeld' /\ (Counted' <=> Counted) /\ Delay(last.n)' = Delay(last.n)
  BY <1>2 DEF GateHeld, Counted, Delay
<1>8. CountHeld'
  <2> SUFFICES ASSUME Counted
               PROVE  /\ count' >= last.n
                      /\ countLeft' >= Delay(last.n) + Window - last.since
                      /\ countLeft' # Forever
    BY <1>2, <1>7 DEF CountHeld
  <2>1. /\ last.n # 0 /\ last.n \in 0 .. Last /\ count >= last.n
        /\ countLeft >= Delay(last.n) + Window - last.since
        /\ countLeft # Forever
    BY DEF TypeOK, CountHeld, Counted
  <2> QED
    BY <1>2, <2>1 DEF TypeOK
<1>9. NumbersAhead'
  <2> SUFFICES ASSUME NEW q \in Slots, Counted, attempt'[q].pc = "close",
                      attempt'[q].age # GivenUp
               PROVE  \/ attempt'[q].n > last.n
                      \/ attempt'[q].n = Last
                      \/ last.since <= attempt'[q].age
    BY <1>2, <1>7 DEF NumbersAhead
  <2>1. CASE q = s
    <3>1. count >= last.n /\ last.n \in 0 .. Last
      BY DEF TypeOK, CountHeld
    <3> QED
      BY <2>1, <1>2, <1>5, <3>1 DEF TypeOK
  <2>2. CASE q # s
    BY <2>2, <1>5 DEF NumbersAhead
  <2> QED
    BY <2>1, <2>2
<1> QED
  BY <1>6, <1>7, <1>8, <1>9

LEMMA ClosesKeeps ==
  ASSUME DelayInv, NEW s \in Slots, Closes(s), gate = 0
  PROVE  DelayInv'
<1> USE LastIsNumber DEF DelayInv
<1> DEFINE n == attempt[s].n
<1>1. attempt[s] \in [pc : Pcs, n : 0 .. Last, age : 0 .. GivenUp]
  BY DEF TypeOK
<1>2. n \in Free .. Last
  BY <1>1, DelayAssumption DEF Closes, AtPc, TypeOK, DelayAssumption
<1>3. Delay(n) \in Nat /\ Delay(n) > 1 /\ n # 0
  BY <1>2, DelaysLast, DelayAssumption DEF DelayAssumption
<1>4. last.n # 0 => Delay(last.n) \in Nat /\ last.since >= Delay(last.n)
  BY LastDelay DEF TypeOK, GateHeld
<1>5. /\ gate' = Delay(n) /\ count' = count
      /\ countLeft' = IF count = 0 THEN 0 ELSE Delay(n) + Window
      /\ last' = IF attempt[s].age = GivenUp THEN last
                 ELSE [n |-> n, since |-> 0, held |-> count]
  BY DEF Closes, Sets
<1>6. /\ attempt' \in [Slots -> [pc : Pcs, n : 0 .. Last, age : 0 .. GivenUp]]
      /\ \A q \in Slots : attempt'[q].pc = "close" => attempt'[q] = attempt[q]
  BY <1>1 DEF Closes, Allowed, NoAttempt, TypeOK, Pcs, GivenUp
<1>7. Window \in Nat /\ count \in 0 .. Last
  BY DelayAssumption DEF DelayAssumption, TypeOK
<1> HIDE DEF n
<1>8. TypeOK'
  <2>1. last' \in [n : 0 .. Last, since : Nat, held : 0 .. Last]
    BY <1>2, <1>5, <1>7, DelayAssumption DEF TypeOK, DelayAssumption
  <2>2. last'.n # 0 => last'.n >= Free
    BY <1>2, <1>5 DEF TypeOK
  <2> QED
    BY <1>3, <1>5, <1>6, <1>7, <2>1, <2>2 DEF TypeOK
<1>9. CASE attempt[s].age = GivenUp
  <2>1. last' = last /\ Delay(last.n)' = Delay(last.n) /\ (Counted' <=> Counted)
    BY <1>5, <1>9 DEF Delay, Counted
  <2>2. GateHeld'
    BY <1>4, <2>1 DEF TypeOK, GateHeld
  <2>3. CountHeld'
    BY <1>3, <1>4, <1>5, <1>7, <2>1
       DEF TypeOK, CountHeld, Counted, Forever
  <2>4. NumbersAhead'
    BY <1>6, <2>1 DEF NumbersAhead
  <2> QED
    BY <1>8, <2>2, <2>3, <2>4
<1>10. CASE attempt[s].age # GivenUp
  <2>1. last'.n = n /\ last'.since = 0 /\ last'.held = count
    BY <1>5, <1>10
  <2>2. NumbersAhead'
    BY <1>6, <2>1 DEF NumbersAhead, TypeOK, GivenUp
  <2>3. Delay(last.n)' = Delay(n)
    BY <2>1 DEF Delay
  <2>4. GateHeld'
    BY <1>3, <1>5, <2>1, <2>3 DEF GateHeld
  <2>5. CountHeld'
    <3> SUFFICES ASSUME count >= n
                 PROVE  countLeft' >= Delay(n) + Window /\ countLeft' # Forever
      BY <1>3, <1>5, <1>7, <2>1, <2>3 DEF CountHeld, Counted
    <3>1. count # 0
      BY <1>2, <1>3, <1>7, DelayAssumption DEF DelayAssumption
    <3> QED
      BY <1>3, <1>5, <1>7, <3>1 DEF Forever
  <2> QED
    BY <1>8, <2>2, <2>4, <2>5
<1> QED
  BY <1>9, <1>10

THEOREM DelayStep == DelayInv /\ [Next]_vars => DelayInv'
<1> SUFFICES ASSUME DelayInv, [Next]_vars PROVE DelayInv'
  OBVIOUS
<1>1. CASE Tick
  BY <1>1, TickKeeps
<1>2. ASSUME NEW s \in Slots, SignsIn(s) PROVE DelayInv'
  <2> DEFINE Quiet ==
        /\ attempt' \in [Slots -> [pc : Pcs, n : 0 .. Last, age : 0 .. GivenUp]]
        /\ \A q \in Slots :
             attempt'[q].pc = "close" =>
               /\ attempt[q].pc = "close"
               /\ attempt'[q].n = attempt[q].n
               /\ attempt'[q].age >= attempt[q].age
  <2>0. /\ attempt \in [Slots -> [pc : Pcs, n : 0 .. Last, age : 0 .. GivenUp]]
        /\ \A q \in Slots : attempt[q].age \in Nat
    BY DEF DelayInv, TypeOK, GivenUp
  <2>e. Ends(s) => Quiet
    BY <2>0, LastIsNumber DEF Ends, NoAttempt, Pcs, GivenUp
  <2>g. Goes(s, "count") \/ Goes(s, "clear") => Quiet
    BY <2>0 DEF Goes, Pcs
  <2>1. CASE Arrives(s) \/ TimesOut(s) \/ Fails(s) \/ ReadsGate(s)
    <3>1. Arrives(s) => Quiet
      BY <2>0, LastIsNumber DEF Arrives, NoAttempt, Pcs, GivenUp
    <3>2. TimesOut(s) => Quiet
      BY <2>0 DEF TimesOut, GivenUp
    <3>3. Quiet /\ UNCHANGED <<keys, last>>
      BY <2>1, <2>e, <2>g, <3>1, <3>2 DEF Arrives, TimesOut, Fails, ReadsGate
    <3> QED
      BY <3>3, QuietKeeps
  <2>2. CASE PasswordFails(s) \/ PasswordSucceeds(s) \/ ClearFails(s)
    <3>1. Quiet /\ UNCHANGED <<keys, last>>
      BY <2>2, <2>e, <2>g DEF PasswordFails, PasswordSucceeds, ClearFails
    <3> QED
      BY <3>1, QuietKeeps
  <2>3. CASE Counts(s)
    BY <2>3, CountsKeeps
  <2>4. CASE Closes(s) /\ gate = 0
    BY <2>4, ClosesKeeps
  <2>5. CASE Closes(s) /\ gate # 0
    <3>1. Quiet /\ UNCHANGED <<keys, last>>
      BY <2>5, <2>e DEF Closes
    <3> QED
      BY <3>1, QuietKeeps
  <2>6. CASE Clears(s)
    BY <2>6, LastIsNumber
       DEF DelayInv, TypeOK, Pcs, Clears, Ends, NoAttempt, NoneClosed, GivenUp,
           GateHeld, CountHeld, Counted, NumbersAhead, Delay, Forever
  <2> QED
    BY <1>2, <2>1, <2>2, <2>3, <2>4, <2>5, <2>6 DEF SignsIn
<1>3. CASE UNCHANGED vars
  BY <1>3
     DEF vars, keys, DelayInv, TypeOK, GateHeld, CountHeld, Counted,
         NumbersAhead, Delay
<1> QED
  BY <1>1, <1>2, <1>3 DEF Next

-----------------------------------------------------------------------------

(* "Increasing delays": however attempts overlap, fail or land late, one   *)
(* that goes on past the free ones has waited the delay of the one before  *)
(* it out, and has a longer one itself.                                    *)
THEOREM DelaysAlwaysGrow == Spec => DelaysGrow
<1>1. DelayInv /\ [Next]_vars => [\A s \in Slots : WaitsLonger(s)]_vars
  <2> SUFFICES ASSUME DelayInv, NEW s \in Slots, Closes(s), GoesPastFree(s),
                      last.n # 0
               PROVE  /\ last.since >= Delay(last.n)
                      /\ Counted => attempt[s].n > last.n \/ attempt[s].n = Last
    BY DEF WaitsLonger, Counted
  <2> USE DEF DelayInv
  <2>1. Delay(last.n) \in Nat /\ Delay(last.n) > 1
    BY DelaysLast, LastIsNumber, DelayAssumption DEF TypeOK, DelayAssumption
  <2>2. last.since >= Delay(last.n)
    BY <2>1 DEF GateHeld, GoesPastFree, TypeOK
  <2>3. attempt[s].age # GivenUp => attempt[s].age < 2
    BY DEF TypeOK, GivenUp
  <2> QED
    BY <2>1, <2>2, <2>3 DEF NumbersAhead, GoesPastFree, Closes, AtPc, TypeOK
<1> QED
  BY <1>1, InitDelay, DelayStep, PTL DEF Spec, DelaysGrow

=============================================================================
