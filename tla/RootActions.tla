---------------------------- MODULE RootActions ----------------------------
(***************************************************************************)
(* What the privileged updater of a host promises the management server:   *)
(* signed commands take effect one at a time, in the order of their        *)
(* sequence numbers, each at most once.  A command is accepted, and then   *)
(* either commits, which appends one receipt to the ledger, or aborts      *)
(* without one.                                                            *)
(*                                                                         *)
(* The slot an agent runs from changes with a commit.  The one exception   *)
(* is a reinstallation of the active release that does not come through:   *)
(* it falls back to the recovery slot of that release.                     *)
(***************************************************************************)
EXTENDS Integers, Sequences

CONSTANTS Slots,      \* installable slots, the bootstrap slot included
          Bootstrap,  \* the slot the host was enrolled with
          NoSlot      \* no recovery slot yet

VARIABLES used,       \* highest accepted command sequence number
          open,       \* the command `used` is accepted and undecided
          ledger,     \* receipts in the order they were issued
          slot,       \* the slot in effect
          recovery    \* the slot a rollback of the latest activation restores

absVars == <<used, open, ledger, slot, recovery>>

Init ==
  /\ used = 0 /\ open = FALSE /\ ledger = <<>>
  /\ slot = Bootstrap /\ recovery = NoSlot

(* The latest receipt is the activation of the slot in effect. *)
LatestActivated ==
  /\ ledger # <<>>
  /\ ledger[Len(ledger)].kind = "activate"
  /\ ledger[Len(ledger)].slot = slot

Accept ==
  /\ ~open
  /\ used' > used
  /\ open' = TRUE
  /\ UNCHANGED <<ledger, slot, recovery>>

Issue(kind, s) ==
  /\ open
  /\ open' = FALSE
  /\ ledger' = Append(ledger, [seq |-> used, kind |-> kind, slot |-> s])
  /\ slot' = s
  /\ UNCHANGED used

CommitActivation(s) ==
  /\ s = slot => LatestActivated
  /\ Issue("activate", s)
  /\ recovery' = IF s = slot THEN recovery ELSE slot

CommitRollback(s) ==
  /\ s = slot \/ (LatestActivated /\ s = recovery)
  /\ Issue("rollback", s)
  /\ UNCHANGED recovery

Abort ==
  /\ open
  /\ open' = FALSE
  /\ UNCHANGED <<used, ledger, slot, recovery>>

FallBack ==
  /\ LatestActivated
  /\ slot' = recovery
  /\ UNCHANGED <<used, open, ledger, recovery>>

Next ==
  \/ Accept
  \/ \E s \in Slots : CommitActivation(s) \/ CommitRollback(s)
  \/ Abort
  \/ FallBack

Spec == Init /\ [][Next]_absVars
=============================================================================
