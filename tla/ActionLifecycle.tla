--------------------------- MODULE ActionLifecycle ---------------------------
(***************************************************************************)
(* What the pending-action service promises, without saying how: the       *)
(* lifecycle that README.md draws under "Action lifecycle", the approval   *)
(* that must precede any external effect, and at most one effect per       *)
(* action.  Module PendingActions implements it with leases, attempt       *)
(* tokens, provider threads and operator lookups.                          *)
(***************************************************************************)

CONSTANTS Actions,    \* action identifiers (UUID primary keys)
          Keys,       \* server-issued command keys
          None,       \* the command of an action not yet proposed
          Effects     \* identities of external effects

VARIABLES status,     \* lifecycle status of each action
          command,    \* command key each action was proposed under
          approved,   \* actions the owner's approval has been recorded for
          effects     \* external effects each action has had

lifecycleVars == <<status, command, approved, effects>>

\* Statuses of the CHECK constraint on pending_actions, plus the two ways of
\* not being in the table.
Status == {"absent", "pending", "processing", "succeeded", "failed",
           "rejected", "expired", "reconciliation_required", "deleted"}

Resolved == {"succeeded", "failed", "rejected", "expired"}

LifecycleInit ==
    /\ status = [a \in Actions |-> "absent"]
    /\ command = [a \in Actions |-> None]
    /\ approved = {}
    /\ effects = [a \in Actions |-> {}]

Move(a, from, to) ==
    /\ status[a] \in from
    /\ status' = [status EXCEPT ![a] = to]

\* Some effect of this action's command exists at the provider.
EffectKnown(a) ==
    \E b \in Actions : command[b] = command[a] /\ effects[b] # {}

Propose(a, k) ==
    /\ Move(a, {"absent"}, "pending")
    /\ command' = [command EXCEPT ![a] = k]
    /\ UNCHANGED <<approved, effects>>

Approve(a) ==
    /\ Move(a, {"pending"}, "processing")
    /\ approved' = approved \cup {a}
    /\ UNCHANGED <<command, effects>>

Decline(a) ==
    /\ Move(a, {"pending"}, "rejected")
    /\ UNCHANGED <<command, approved, effects>>

\* Retention runs over the whole table: it expires some proposals and forgets
\* some resolved actions in one transaction.
Housekeep(E, D) ==
    /\ \A a \in E : status[a] = "pending"
    /\ \A a \in D : status[a] \in Resolved
    /\ E \cup D # {}
    /\ status' = [a \in Actions |-> IF a \in E THEN "expired"
                                    ELSE IF a \in D THEN "deleted" ELSE status[a]]
    /\ UNCHANGED <<command, approved, effects>>

MarkAmbiguous(a) ==
    /\ Move(a, {"pending", "processing"}, "reconciliation_required")
    /\ UNCHANGED <<command, approved, effects>>

\* Success is only ever recorded for an effect that happened.
RecordSuccess(a) ==
    /\ Move(a, {"processing", "reconciliation_required"}, "succeeded")
    /\ EffectKnown(a)
    /\ UNCHANGED <<command, approved, effects>>

\* The executing request records failure only of an effect that did not happen;
\* an operator's verdict carries no such promise (see FailedNeverAccepted).
RecordFailure(a) ==
    /\ Move(a, {"processing", "reconciliation_required"}, "failed")
    /\ status[a] = "processing" => effects[a] = {}
    /\ UNCHANGED <<command, approved, effects>>

\* The only way to an external effect: approved, and not done before.
TakeEffect(a, e) ==
    /\ a \in approved
    /\ effects[a] = {}
    /\ effects' = [effects EXCEPT ![a] = {e}]
    /\ UNCHANGED <<status, command, approved>>

LifecycleNext ==
    \/ \E a \in Actions :
          \/ \E k \in Keys : Propose(a, k)
          \/ Approve(a) \/ Decline(a) \/ MarkAmbiguous(a)
          \/ RecordSuccess(a) \/ RecordFailure(a)
          \/ \E e \in Effects : TakeEffect(a, e)
    \/ \E E, D \in SUBSET Actions : Housekeep(E, D)

LifecycleSpec == LifecycleInit /\ [][LifecycleNext]_lifecycleVars
==============================================================================
