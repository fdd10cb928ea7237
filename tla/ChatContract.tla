---------------------------- MODULE ChatContract ----------------------------
(***************************************************************************)
(* What the gateway promises a frontend about chat.send and chat.cancel:   *)
(* one turn holds the slot, a second chat.send is refused, a cancel is     *)
(* acknowledged only for the turn that holds the slot, and a verdict is    *)
(* given once and is "cancelled" only after an acknowledged cancel.        *)
(***************************************************************************)
EXTENDS Naturals

CONSTANT Requests   \* request ids, 0 not among them

VARIABLES
  slot,      \* the chat.send that holds the turn, 0 for none
  verdict,   \* what each chat.send was told
  cancels    \* the turns for which a cancel was acknowledged

contractVars == <<slot, verdict, cancels>>

Verdicts == {"none", "busy", "cancelled", "over", "dropped"}

ContractInit ==
  /\ slot = 0
  /\ verdict = [r \in Requests |-> "none"]
  /\ cancels = {}

Tell(r, v) == verdict' = [verdict EXCEPT ![r] = v]

(* A chat.send takes the free slot, and its verdict may already be known.  *)
Claim(r) ==
  /\ slot = 0
  /\ verdict[r] = "none"
  /\ slot' = r
  /\ \/ UNCHANGED verdict
     \/ Tell(r, "over")
  /\ UNCHANGED cancels

Refuse(r) ==
  /\ slot \notin {0, r}
  /\ verdict[r] = "none"
  /\ Tell(r, "busy")
  /\ UNCHANGED <<slot, cancels>>

(* The acknowledgement may come after the verdict, as long as the slot is  *)
(* held.                                                                   *)
AcknowledgeCancel ==
  /\ slot # 0
  /\ cancels' = cancels \cup {slot}
  /\ UNCHANGED <<slot, verdict>>

GiveVerdict(v) ==
  /\ slot # 0
  /\ verdict[slot] = "none"
  /\ v \in {"over", "cancelled"}
  /\ v = "cancelled" => slot \in cancels
  /\ Tell(slot, v)
  /\ UNCHANGED <<slot, cancels>>

Release ==
  /\ slot # 0
  /\ verdict[slot] # "none"
  /\ slot' = 0
  /\ UNCHANGED <<verdict, cancels>>

(* A shutdown takes the slot away, and the verdict with it when the turn   *)
(* was still going on.                                                     *)
Drop ==
  /\ slot # 0
  /\ slot' = 0
  /\ IF verdict[slot] = "none" THEN Tell(slot, "dropped") ELSE UNCHANGED verdict
  /\ UNCHANGED cancels

ContractNext ==
  \/ \E r \in Requests : Claim(r) \/ Refuse(r)
  \/ AcknowledgeCancel
  \/ \E v \in Verdicts : GiveVerdict(v)
  \/ Release
  \/ Drop

Contract == ContractInit /\ [][ContractNext]_contractVars

=============================================================================
