------------------------------- MODULE Budget -------------------------------
(* The size cap of a run as its groups should see it (DESIGN.md 9.5): a claim *)
(* is granted whole, at once, exactly if it fits what is left.                *)
EXTENDS Naturals

CONSTANTS Claimants, Bytes, Cap    \* Bytes[c]: what claimant c asks for

VARIABLES taken, answer            \* answer[c]: "none", "granted" or "refused"
budget == <<taken, answer>>

Init == taken = 0 /\ answer = [c \in Claimants |-> "none"]

Claim(c) ==
  /\ answer[c] = "none"
  /\ IF taken + Bytes[c] <= Cap
     THEN taken' = taken + Bytes[c] /\ answer' = [answer EXCEPT ![c] = "granted"]
     ELSE taken' = taken /\ answer' = [answer EXCEPT ![c] = "refused"]

Next == \E c \in Claimants : Claim(c)
Spec == Init /\ [][Next]_budget
=============================================================================
