------------------------- MODULE TimelockedRotation -------------------------
(***************************************************************************)
(* libraries/TimelockedRotation.sol: one role of a contract (the vault of  *)
(* the StrategyRegistry, the executor of the SwapRouter) passes to another *)
(* address in two steps, a proposal and its acceptance after a delay.      *)
(***************************************************************************)
EXTENDS Integers

CONSTANTS
    Addresses, NoAddress,   \* what a role may be given to; address(0)
    ROTATION_DELAY

ASSUME RotationAssumption == NoAddress \notin Addresses /\ ROTATION_DELAY \in Nat

VARIABLES now, pendingRole, pendingRoleEarliest

rotation == <<pendingRole, pendingRoleEarliest>>

RotationInit == pendingRole = NoAddress /\ pendingRoleEarliest = 0

\* Mutant: a proposal that replaces a pending one takes over its delay.
ProposeKeepsDelay(newAddr) ==
    /\ newAddr # NoAddress
    /\ pendingRole' = newAddr
    /\ pendingRoleEarliest' = IF pendingRole = NoAddress
                              THEN now + ROTATION_DELAY ELSE pendingRoleEarliest

\* _proposeRole
ProposeRole(newAddr) ==
    /\ newAddr # NoAddress
    /\ pendingRole' = newAddr
    /\ pendingRoleEarliest' = now + ROTATION_DELAY

\* _acceptRole; the new holder of the role is pendingRole.
AcceptRole ==
    /\ pendingRole # NoAddress
    /\ now >= pendingRoleEarliest
    /\ pendingRole' = NoAddress
    /\ pendingRoleEarliest' = 0

RotationTypeOK ==
    /\ pendingRole \in Addresses \cup {NoAddress}
    /\ pendingRoleEarliest \in Nat
=============================================================================
