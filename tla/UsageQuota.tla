------------------------------ MODULE UsageQuota ------------------------------
(***************************************************************************)
(* What max_uses promises to the owner of a child token, whatever the       *)
(* requests that race for it: each of them obtains at most one pass, each   *)
(* pass costs exactly one use, and no pass is sold above the limit that is  *)
(* in force at that moment, or to a child that is not in good standing then. *)
(***************************************************************************)
EXTENDS Naturals

CONSTANTS Children, Requests, Limits

VARIABLES limit, used, standing, passes

vars == <<limit, used, standing, passes>>

Init ==
  /\ limit \in [Children -> Limits]
  /\ used = [c \in Children |-> 0]
  /\ standing \subseteq Children
  /\ passes = {}

Spend(c, r) ==
  /\ c \in standing
  /\ limit[c] = 0 \/ used[c] < limit[c]
  /\ \A d \in Children : <<d, r>> \notin passes
  /\ used' = [used EXCEPT ![c] = @ + 1]
  /\ passes' = passes \cup {<<c, r>>}
  /\ UNCHANGED <<limit, standing>>

\* Children are disabled, deleted or expire at any time, together with an edit or not.
Administer(c) ==
  /\ \E n \in Limits : limit' = [limit EXCEPT ![c] = n]
  /\ standing' \subseteq Children
  /\ UNCHANGED <<used, passes>>

Next == \E c \in Children : Administer(c) \/ \E r \in Requests : Spend(c, r)

Spec == Init /\ [][Next]_vars
=============================================================================
