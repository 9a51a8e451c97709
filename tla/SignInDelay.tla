---------------------------- MODULE SignInDelay ----------------------------
(***************************************************************************)
(* The delay before an address's next password sign-in:                    *)
(* apps/web/src/kabinet/password-limits.ts, as password-hooks.ts charges   *)
(* it before Better Auth checks the password and clears it on a success.   *)
(*                                                                         *)
(* Two keys of a shared store: the chain, a count of attempts, and the     *)
(* gate, closed while the next one must wait.  Each operation on them is   *)
(* one step; the attempts that run them overlap, fail and are given up.    *)
(* A charge given up still lands, and refuses its attempt.                 *)
(*                                                                         *)
(* Time is what a key has left: a tick is a part of a delay, and at least  *)
(* as long as the store may take (DELAY_STORE_TIMEOUT_MS).                 *)
(***************************************************************************)
EXTENDS Integers, Sequences

CONSTANTS
  None,
  Slots,       \* the slots in which the servers run sign-ins
  Free,        \* freeAttempts: the first attempt that must close the gate
  Delays,      \* delaysMinutes, in ticks
  Window       \* windowMs, in ticks

(* A delay is longer than an attempt's charge can take.                    *)
ASSUME DelayAssumption ==
  /\ Free \in Nat \ {0}
  /\ Delays \in Seq(Nat) /\ Len(Delays) > 0
  /\ \A i \in 1 .. Len(Delays) : Delays[i] > 1
  /\ Window \in Nat \ {0}
  /\ None \notin Nat

(* The first attempt with the longest delay.  Those after it have the same *)
(* one, so the count is kept up to it.                                     *)
Last == Free + Len(Delays) - 1

(* What delayAfterAttemptMs gives an attempt that must close the gate.     *)
Delay(n) == Delays[n - Free + 1]

(* A key without an expiry, as the code before this one left chains.       *)
Forever == -1

VARIABLES
  count,       \* the chain's count, 0 when there is none
  countLeft,   \* until it expires
  gate,        \* until the gate opens: 0 is open
  attempt,     \* the attempt in each slot
  last         \* history: the last attempt that closed the gate and went on

keys == <<count, countLeft, gate>>

vars == <<keys, attempt, last>>

(* An attempt's age: 1 once its charge saw a tick pass, GivenUp in the end. *)
GivenUp == 2

NoAttempt == [pc |-> "idle", n |-> 0, age |-> 0]

NoneClosed == [n |-> 0, since |-> 0, held |-> 0]

Init ==
  /\ count \in 0 .. Last
  /\ countLeft = IF count = 0 THEN 0 ELSE Forever
  /\ gate = 0
  /\ attempt = [s \in Slots |-> NoAttempt]
  /\ last = NoneClosed

-----------------------------------------------------------------------------
(* Time.                                                                   *)

OneLess(left) == IF left > 0 THEN left - 1 ELSE left

Charging(s) == attempt[s].pc \in {"gate", "count", "close"}

(* A charge may see a tick pass; by the next one it was given up.          *)
Tick ==
  /\ gate' = OneLess(gate)
  /\ countLeft' = OneLess(countLeft)
  /\ count' = IF countLeft = 1 THEN 0 ELSE count
  /\ attempt' = [s \in Slots |->
       IF Charging(s)
       THEN [attempt[s] EXCEPT !.age = IF @ < GivenUp THEN @ + 1 ELSE @]
       ELSE attempt[s]]
  /\ last' = IF last.n # 0 /\ last.since < Delay(last.n) + Window
             THEN [last EXCEPT !.since = @ + 1] ELSE last

-----------------------------------------------------------------------------
(* An attempt.                                                             *)

AtPc(s, pc) == attempt[s].pc = pc

Goes(s, pc) == attempt' = [attempt EXCEPT ![s].pc = pc]

Ends(s) == attempt' = [attempt EXCEPT ![s] = NoAttempt]

Arrives(s) ==
  /\ AtPc(s, "idle")
  /\ attempt' = [attempt EXCEPT ![s] = [NoAttempt EXCEPT !.pc = "gate"]]
  /\ UNCHANGED <<keys, last>>

(* The hook answers that the attempt must wait; its charge goes on.        *)
TimesOut(s) ==
  /\ Charging(s)
  /\ attempt[s].age # GivenUp
  /\ attempt' = [attempt EXCEPT ![s].age = GivenUp]
  /\ UNCHANGED <<keys, last>>

(* The store fails, and the charge with it.                                *)
Fails(s) ==
  /\ Charging(s)
  /\ Ends(s)
  /\ UNCHANGED <<keys, last>>

(* Allowed: Better Auth checks the password, unless it was given up.       *)
Allowed(s) ==
  attempt' = [attempt EXCEPT ![s] =
    IF @.age = GivenUp THEN NoAttempt ELSE [NoAttempt EXCEPT !.pc = "check"]]

(* A gate without an expiry reads as open.                                 *)
ReadsGate(s) ==
  /\ AtPc(s, "gate")
  /\ IF gate > 0 THEN Ends(s) ELSE Goes(s, "count")
  /\ UNCHANGED <<keys, last>>

(* The next number, and in the same step an expiry if there is none.       *)
Counts(s) ==
  /\ AtPc(s, "count")
  /\ count' = IF count < Last THEN count + 1 ELSE Last
  /\ countLeft' = IF count = 0 \/ countLeft = Forever THEN Window ELSE countLeft
  /\ IF count' < Free
     THEN Allowed(s)
     ELSE attempt' = [attempt EXCEPT ![s].pc = "close", ![s].n = count']
  /\ UNCHANGED <<gate, last>>

(* Mutants: the gate gets no expiry; the chain's is left as it was.        *)
SetsForever(s) ==
  /\ gate' = Forever
  /\ countLeft' = IF count = 0 THEN 0 ELSE Delay(attempt[s].n) + Window

SetsGateOnly(s) ==
  /\ gate' = Delay(attempt[s].n)
  /\ UNCHANGED countLeft

(* The gate for the delay and, in the same step, the chain for a window    *)
(* longer; a chain that is gone stays gone.                                *)
Sets(s) ==
  /\ gate' = Delay(attempt[s].n)
  /\ countLeft' = IF count = 0 THEN 0 ELSE Delay(attempt[s].n) + Window

(* Only one closes the gate; the others wait.                              *)
Closes(s) ==
  /\ AtPc(s, "close")
  /\ IF gate # 0
     THEN Ends(s) /\ UNCHANGED <<keys, last>>
     ELSE /\ Sets(s)
          /\ Allowed(s)
          /\ last' = IF attempt[s].age = GivenUp THEN last
                     ELSE [n |-> attempt[s].n, since |-> 0, held |-> count]
          /\ UNCHANGED count

(* A wrong password, or a success refused: nothing more is written.        *)
PasswordFails(s) ==
  /\ AtPc(s, "check")
  /\ Ends(s)
  /\ UNCHANGED <<keys, last>>

PasswordSucceeds(s) ==
  /\ AtPc(s, "check")
  /\ Goes(s, "clear")
  /\ UNCHANGED <<keys, last>>

(* A success clears both keys, now or when its time is long up.            *)
Clears(s) ==
  /\ AtPc(s, "clear")
  /\ count' = 0
  /\ countLeft' = 0
  /\ gate' = 0
  /\ last' = NoneClosed
  /\ Ends(s)

ClearFails(s) ==
  /\ AtPc(s, "clear")
  /\ Ends(s)
  /\ UNCHANGED <<keys, last>>

SignsIn(s) ==
  \/ Arrives(s) \/ TimesOut(s) \/ Fails(s) \/ ReadsGate(s) \/ Counts(s)
  \/ Closes(s) \/ PasswordFails(s) \/ PasswordSucceeds(s) \/ Clears(s)
  \/ ClearFails(s)

Next == Tick \/ \E s \in Slots : SignsIn(s)

(* Time passes; nobody need sign in.                                       *)
Spec == Init /\ [][Next]_vars /\ WF_vars(Tick)

-----------------------------------------------------------------------------
(* "Increasing delays": an attempt that goes on past the free ones comes   *)
(* when the delay of the one before it has passed, and with a higher       *)
(* number, or the longest delay, unless a window passed too, or the chain  *)
(* no longer held its number as it closed the gate: its window had ended   *)
(* since, or another's success had cleared it.                             *)
GoesPastFree(s) == gate = 0 /\ attempt[s].age # GivenUp

WaitsLonger(s) ==
  Closes(s) /\ GoesPastFree(s) /\ last.n # 0 =>
    /\ last.since >= Delay(last.n)
    /\ last.held >= last.n /\ last.since < Delay(last.n) + Window =>
         attempt[s].n > last.n \/ attempt[s].n = Last

DelaysGrow == [][\A s \in Slots : WaitsLonger(s)]_vars

(* "No hard lockout": whatever fails, is given up or lands late, the gate  *)
(* opens again and again.                                                  *)
GateOpens == []<>(gate = 0)

=============================================================================
