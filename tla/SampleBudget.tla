---------------------------- MODULE SampleBudget ----------------------------
(***************************************************************************)
(* SampleBudget::claim (crates/sp-proc/src/scheduler.rs): the groups of a  *)
(* run that are in flight share one counter, which each reads and then     *)
(* exchanges; compare_exchange_weak may fail for no reason at all.         *)
(***************************************************************************)
EXTENDS Naturals

CONSTANTS
  Claimants,   \* one per stage output that claims room
  Bytes,       \* [Claimants -> bytes of the output]
  Cap,         \* the cap; a run without one claims nothing
  MaxU64

ASSUME BudgetAssumption ==
  /\ MaxU64 \in Nat /\ Cap \in Nat
  /\ Cap < MaxU64     \* settings give the cap in megabytes
  /\ Bytes \in [Claimants -> 0 .. MaxU64]

VARIABLES
  recorded,    \* SampleBudget.recorded
  pc,          \* where each claim is
  seen         \* the local variable of that name's value, `recorded`
vars == <<recorded, pc, seen>>

\* (Slips below are what the properties are tried against; no action uses them.)
SlipWrappingAdd(a, b) == (a + b) % (MaxU64 + 1)
SaturatingAdd(a, b) == IF a + b > MaxU64 THEN MaxU64 ELSE a + b

Init ==
  /\ recorded = 0
  /\ pc = [c \in Claimants |-> "load"]
  /\ seen = [c \in Claimants |-> 0]

Load(c) ==
  /\ pc[c] = "load"
  /\ seen' = [seen EXCEPT ![c] = recorded]
  /\ pc' = [pc EXCEPT ![c] = "compare"]
  /\ UNCHANGED recorded

Wanted(c) == SaturatingAdd(seen[c], Bytes[c])

Fits(c) == Wanted(c) <= Cap

Refuse(c) ==
  /\ pc[c] = "compare" /\ ~Fits(c)
  /\ pc' = [pc EXCEPT ![c] = "refused"]
  /\ UNCHANGED <<recorded, seen>>

Fit(c) ==
  /\ pc[c] = "compare" /\ Fits(c)
  /\ pc' = [pc EXCEPT ![c] = "exchange"]
  /\ UNCHANGED <<recorded, seen>>

Unmoved(c) == recorded = seen[c]

Exchange(c) ==
  /\ pc[c] = "exchange" /\ Unmoved(c)
  /\ recorded' = Wanted(c)
  /\ pc' = [pc EXCEPT ![c] = "granted"]
  /\ UNCHANGED seen

\* The exchange fails, as it must when the counter moved and may when not.
Retry(c) ==
  /\ pc[c] = "exchange"
  /\ seen' = [seen EXCEPT ![c] = recorded]
  /\ pc' = [pc EXCEPT ![c] = "compare"]
  /\ UNCHANGED recorded

Next == \E c \in Claimants : Load(c) \/ Refuse(c) \/ Fit(c) \/ Exchange(c) \/ Retry(c)
Spec == Init /\ [][Next]_vars

-----------------------------------------------------------------------------

TypeOK ==
  /\ recorded \in Nat
  /\ pc \in [Claimants -> {"load", "compare", "exchange", "granted", "refused"}]
  /\ seen \in [Claimants -> Nat]

\* The groups in flight together never take more than the cap.
WithinCap == recorded <= Cap

\* A claim is turned away only if it did not fit, and it would not fit later
\* either: the value it compared with may be stale, but the counter only grows.
RefusalsStand ==
  \A c \in Claimants : pc[c] = "refused" => recorded + Bytes[c] > Cap

\* What makes the above inductive: the value a claim goes on with is one the
\* counter has had, and a claim about to exchange has compared.
SeenIsPast == \A c \in Claimants : seen[c] <= recorded
Compared == \A c \in Claimants : pc[c] = "exchange" => Fits(c)

\* A loop of loads and exchanges is one atomic claim.
Answer == [c \in Claimants |-> IF pc[c] \in {"granted", "refused"} THEN pc[c] ELSE "none"]
AtomicBudget == INSTANCE Budget WITH taken <- recorded, answer <- Answer
ImplementsBudget == AtomicBudget!Spec
=============================================================================
