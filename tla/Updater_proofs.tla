----------------------------- MODULE Updater_proofs -----------------------------
(***************************************************************************)
(* Proofs about Updater, for any number of releases, commands and faults:  *)
(* the slot a host settles on is healthy, receipts are numbered, no prune  *)
(* removes a slot that may be needed, and the host implements RootActions. *)
(***************************************************************************)
EXTENDS Updater, TLAPS

(***************************************************************************)
(* Where the activator is.                                                 *)
(***************************************************************************)
(* An activation before its switch, at the new slot, going back, and after *)
(* its receipt; a rollback likewise.                                       *)
Opening    == {"consume", "install", "switch", "switched"}
Trying     == {"restart", "attest"}
Restoring  == {"restore", "restoreRestart", "restoreMeta", "dropJournal"}
Persisting == {"persist", "receipt", "counter", "floor", "previous", "meta", "clear",
               "unjournal"}
Returning  == {"rbSwitch", "rbSwitched", "rbRestart", "rbBack", "rbBackRestart", "rbDrop",
               "rbAttest"}
Recording  == {"rbCounter", "rbMeta", "rbLast", "rbUnjournal"}
Publishing == {"rbResult", "rbClearClaim", "rbClearReady", "rbUnclaim"}
Activating == Opening \cup Trying \cup Restoring \cup Persisting

Open(j) == j.phase # "none"
Done(j) == j.phase = "done"

(* The activator works on the journal that is open, in the phase that its  *)
(* place stands for; at most one journal is open.                          *)
ControlInv ==
  /\ ~(Open(root.journal) /\ Open(root.rollbackJournal))
  /\ pc \in {"claimRollback", "claimReady", "reclaimRollback", "prune", "pruning",
             "command", "replayed"} => NoJournals
  /\ pc \in {"activate", "unclaim"} \cup Activating => ~Open(root.rollbackJournal)
  /\ pc \in {"rollback", "ensure"} \cup Returning \cup Recording \cup Publishing =>
       ~Open(root.journal)
  /\ pc \in Activating => job = root.journal /\ Open(job)
  /\ pc \in Opening => job.phase = "prepared"
  /\ pc \in Trying => job.phase = "switched"
  /\ pc \in Restoring => ~Done(job)
  /\ pc \in Persisting => Done(job)
  /\ pc = "replayed" => job = root.lastActivation /\ Done(job)
  /\ pc = "unclaim" => /\ Done(job)
                       /\ job = IF Open(root.journal) THEN root.journal ELSE root.lastActivation
  /\ pc \in {"ensure"} \cup Returning \cup Recording => job = root.rollbackJournal /\ Open(job)
  /\ pc \in Returning => ~Done(job)
  /\ pc = "rbSwitched" => job.phase = "prepared"
  /\ pc \in {"rbRestart", "rbBack", "rbBackRestart", "rbDrop", "rbAttest"} =>
       job.phase = "switched"
  /\ pc \in Recording => Done(job)
  /\ pc \in Publishing =>
       /\ Done(job)
       /\ job = IF Open(root.rollbackJournal) THEN root.rollbackJournal ELSE root.lastRollback

(* A journal's command is the newest one, recorded as used before the slot *)
(* is switched, and no receipt is for it until it is decided.              *)
FloorInv ==
  /\ \A j \in {root.journal, root.rollbackJournal} :
       Open(j) => /\ j.seq >= root.commandFloor /\ j.seq # 0
                  /\ j.phase # "prepared" => j.seq = root.commandFloor
  /\ pc = "consume" => job.seq > root.commandFloor
  /\ pc \in (Opening \ {"consume"}) \cup Returning => job.seq = root.commandFloor
  /\ \A i \in DOMAIN ledger : i <= ledger[i].seq /\ ledger[i].seq <= root.commandFloor
  /\ Undecided(root.journal) \/ Undecided(root.rollbackJournal) =>
       \A i \in DOMAIN ledger : ledger[i].seq < root.commandFloor
  /\ \A i, j \in DOMAIN ledger : i < j => ledger[i].seq < ledger[j].seq

(* A receipt in a file is one of the ledger. *)
Receipt(r, kind) ==
  /\ ~Done(r) => r.counter = 0
  /\ Done(r) => /\ r.counter \in DOMAIN ledger
                /\ ledger[r.counter] = [seq |-> r.seq, kind |-> kind, slot |-> r.to]

(* The files hold receipts of the ledger. *)
ReceiptInv ==
  /\ Receipt(root.journal, "activate") /\ Receipt(root.lastActivation, "activate")
  /\ Receipt(staging.receipt, "activate")
  /\ Receipt(root.rollbackJournal, "rollback") /\ Receipt(root.lastRollback, "rollback")
  /\ Receipt(staging.rollbackResult, "rollback")
  /\ root.lastActivation.phase \in {"none", "done"}
  /\ root.lastRollback.phase \in {"none", "done"}

(* The counter is the length of the ledger, or one behind it while the     *)
(* journal with the latest receipt is open.                                *)
CounterInv ==
  /\ root.counter \in {Len(ledger), Len(ledger) - 1}
  /\ \A j \in {root.journal, root.rollbackJournal} : Done(j) => j.counter = Len(ledger)
  /\ ~Done(root.journal) /\ ~Done(root.rollbackJournal) => root.counter = Len(ledger)
  /\ pc \in {"floor", "previous", "meta", "clear", "unclaim", "unjournal",
             "rbMeta", "rbLast", "rbUnjournal"} \cup Publishing => root.counter = Len(ledger)

(* How far persistHealthyActivation has come. *)
PersistInv ==
  /\ ~Done(root.journal) /\ Done(root.lastActivation) =>
       root.previous = root.lastActivation.from
  /\ pc \in Persisting \ {"persist"} => root.lastActivation = job
  /\ pc = "unclaim" => root.lastActivation = job
  /\ pc \in {"meta", "clear", "unclaim", "unjournal"} => root.previous = job.from

(* Where the host runs: settled on the slot that the metadata names, or in *)
(* the middle of an open journal.                                          *)
Runs(s)  == root.current = s /\ agent.slot = s /\ agent.checked = s
Settled  == Runs(root.current) /\ root.meta = root.current

PlaceInv ==
  /\ NoJournals => Settled
  /\ pc \in {"consume", "install", "switch"} => Settled
  /\ pc \in {"switched", "restart", "rbSwitched", "rbRestart"} => root.current = job.to
  /\ pc \in {"attest", "rbAttest"} => Runs(job.to)
  /\ pc \in {"restoreRestart", "rbBackRestart"} => root.current = job.from
  /\ pc \in {"restoreMeta", "dropJournal", "rbDrop"} => Runs(job.from)
  /\ pc = "dropJournal" => root.meta = job.from
  /\ \A j \in {root.journal, root.rollbackJournal} : Done(j) => Runs(j.to)
  /\ pc \in {"clear", "replayed", "unclaim", "unjournal", "rbLast", "rbUnjournal"}
            \cup Publishing => root.meta = job.to
  /\ Open(root.rollbackJournal) /\ ~Done(root.rollbackJournal) =>
       root.meta = root.rollbackJournal.from

(* What the host may have to run from is installed, and no prune is about  *)
(* to remove it.                                                           *)
SlotInv ==
  /\ RecoverySlotsPresent
  /\ pc \in {"switch", "switched"} => job.to \in root.slots
  /\ pc = "pruning" =>
       doomed \cap ({root.current, root.previous} \cup JournalSlots(root.lastActivation)) = {}

(* The latest receipt is the last activation's, and it is in effect. *)
LastIsLatest ==
  /\ Done(root.lastActivation)
  /\ root.lastActivation.counter = Len(ledger)
  /\ root.lastActivation.to = root.meta

(* A journal leads from and to the slot in effect or the recovery slot of  *)
(* the latest activation.                                                  *)
TargetInv ==
  /\ pc \in Opening \cup Trying =>
       job.from = IF job.to = root.meta THEN root.lastActivation.from ELSE root.meta
  /\ pc \in Opening \cup Trying /\ job.to = root.meta => LastIsLatest
  /\ Open(root.journal) /\ ~Done(root.journal) =>
       \/ root.journal.from = root.meta
       \/ LastIsLatest /\ root.journal.from = root.lastActivation.from
  /\ Open(root.rollbackJournal) /\ ~Done(root.rollbackJournal) =>
       \/ root.rollbackJournal.to = root.meta
       \/ LastIsLatest /\ root.rollbackJournal.to = root.lastActivation.from

(* Commands are issued before they are live, and what a worker stages is a *)
(* release.                                                                *)
IssueInv ==
  /\ live \subseteq DOMAIN issued
  /\ worker.op = "stage" => worker.arg \in Releases
  /\ worker.op = "publish" => worker.arg \in 0 .. MaxCommand

UpdaterInv ==
  TypeOK /\ ControlInv /\ FloorInv /\ ReceiptInv /\ CounterInv /\ PersistInv
         /\ PlaceInv /\ SlotInv /\ TargetInv /\ IssueInv

(* The worker and the server leave the activator, its root files and the   *)
(* agent alone; of the activator's results they only take some away.       *)
LEMMA OutsideStep ==
    ASSUME TypeOK, Worker \/ Server \/ UNCHANGED vars
    PROVE  /\ UNCHANGED <<root, pc, job, then, action, doomed, agent, ledger>>
           /\ staging'.receipt = staging.receipt \/ staging'.receipt = NoJournal
           /\ staging'.rollbackResult = staging.rollbackResult \/ staging'.rollbackResult = NoJournal
<1>0. staging \in StagingState
  BY DEF TypeOK
<1>1. CASE Server \/ UNCHANGED vars
  BY <1>1 DEF Server, Sign, Expire, activator, vars
<1>2. CASE Worker
  <2>1. UNCHANGED <<root, pc, job, then, action, doomed, agent, ledger>>
    BY <1>2 DEF Worker, WorkerReport, WorkerReported, WorkerReportAgain, WorkerCheck,
                RequestCommand, StageStart, StageFinish, activator
  <2>2. CASE WorkerReported
    BY <1>0, <2>1, <2>2 DEF WorkerReported, StagingState
  <2>3. CASE RequestCommand \/ StageFinish \/ \E r \in Releases : StageStart(r)
    BY <1>0, <2>1, <2>3 DEF RequestCommand, StageFinish, StageStart, StagingState
  <2>4. CASE WorkerReport \/ WorkerReportAgain \/ WorkerCheck
    BY <2>1, <2>4 DEF WorkerReport, WorkerReportAgain, WorkerCheck
  <2> QED
    BY <1>2, <2>2, <2>3, <2>4 DEF Worker
<1> QED
  BY <1>1, <1>2

(* Receipts are for commands. *)
LEMMA LedgerType ==
    ASSUME TypeOK
    PROVE  /\ Len(ledger) \in Nat /\ DOMAIN ledger = 1 .. Len(ledger)
           /\ \A i \in DOMAIN ledger : ledger[i].seq \in Nat
<1> DEFINE S == [seq : Commands, kind : {"activate", "rollback"}, slot : Slots]
<1>1. ledger \in Seq(S)
  BY DEF TypeOK
<1>2. \A e \in S : e.seq \in Nat
  BY ConstantsAssumption DEF Commands
<1> HIDE DEF S
<1>3. /\ Len(ledger) \in Nat /\ DOMAIN ledger = 1 .. Len(ledger)
      /\ \A i \in DOMAIN ledger : ledger[i] \in S
  BY <1>1
<1> QED
  BY <1>2, <1>3

(* An attestation appends the receipt of the newest command to the ledger. *)
LEMMA AttestStep ==
    ASSUME TypeOK, NEW kind \in {"activate", "rollback"}, Attest(kind), job.seq # 0
    PROVE  /\ Len(ledger) \in Nat /\ DOMAIN ledger = 1 .. Len(ledger)
           /\ Len(ledger') = Len(ledger) + 1 /\ DOMAIN ledger' = 1 .. Len(ledger) + 1
           /\ \A i \in 1 .. Len(ledger) : ledger'[i] = ledger[i]
           /\ ledger'[Len(ledger) + 1] = [seq |-> job.seq, kind |-> kind, slot |-> job.to]
           /\ job' \in [phase : {"done"}, seq : {job.seq}, from : {job.from}, to : {job.to},
                        counter : {root.counter + 1}]
           /\ UNCHANGED <<staging, action, agent, doomed, outside>>
<1>1. job \in Journal /\ job.seq \in Commands
  BY DEF TypeOK, Journal, Commands
<1>2. ledger \in Seq([seq : Commands, kind : {"activate", "rollback"}, slot : Slots])
  BY DEF TypeOK
<1>3. [seq |-> job.seq, kind |-> kind, slot |-> job.to]
         \in [seq : Commands, kind : {"activate", "rollback"}, slot : Slots]
  BY <1>1 DEF Journal
<1>4. ledger' = Append(ledger, [seq |-> job.seq, kind |-> kind, slot |-> job.to])
  BY DEF Attest
<1>5. job' \in [phase : {"done"}, seq : {job.seq}, from : {job.from}, to : {job.to},
                 counter : {root.counter + 1}]
  BY <1>1 DEF Attest, Journal
<1> HIDE DEF Commands, Slots
<1>6. UNCHANGED <<staging, action, agent, doomed, outside>>
  BY DEF Attest
<1> DEFINE e == [seq |-> job.seq, kind |-> kind, slot |-> job.to]
<1>7. /\ Len(ledger) \in Nat /\ DOMAIN ledger = 1 .. Len(ledger)
      /\ Len(ledger') = Len(ledger) + 1 /\ DOMAIN ledger' = 1 .. Len(ledger) + 1
      /\ \A i \in 1 .. Len(ledger) : ledger'[i] = ledger[i]
      /\ ledger'[Len(ledger) + 1] = e
  <2> HIDE DEF e
  <2> QED
    BY <1>2, <1>3, <1>4 DEF e
<1> QED
  BY <1>5, <1>6, <1>7

(* writeSwitched leaves everything but the phase of the open journal. *)
LEMMA writeSwitchedEffect ==
    ASSUME TypeOK, ControlInv, writeSwitched
    PROVE  /\ pc = "switched" /\ pc' = "restart"
           /\ job = root.journal /\ job.phase = "prepared" /\ ~Open(root.rollbackJournal)
           /\ root'.journal = job' /\ job'.phase = "switched"
           /\ UNCHANGED <<job.seq, job.from, job.to, job.counter, staging, agent, ledger, doomed>>
           /\ UNCHANGED <<root.current, root.meta, root.previous, root.slots, root.lastActivation,
                          root.lastRollback, root.counter, root.commandFloor, root.rollbackJournal>>
<1>1. /\ pc = "switched" /\ pc' = "restart" /\ job' = [job EXCEPT !.phase = "switched"]
      /\ root' = [root EXCEPT !.journal = job'] /\ UNCHANGED <<staging, agent, ledger, doomed>>
  BY DEF writeSwitched
<1>2. job = root.journal /\ job.phase = "prepared" /\ ~Open(root.rollbackJournal)
  BY <1>1 DEF ControlInv, Opening, Returning, Activating
<1>3. job'.phase = "switched" /\ UNCHANGED <<job.seq, job.from, job.to, job.counter>>
  BY <1>1 DEF TypeOK, Journal
<1>4. /\ root'.journal = job'
      /\ UNCHANGED <<root.current, root.meta, root.previous, root.slots, root.lastActivation,
                     root.lastRollback, root.counter, root.commandFloor, root.rollbackJournal>>
  BY <1>1 DEF TypeOK, RootState
<1> QED
  BY <1>1, <1>2, <1>3, <1>4

(* writeRollbackSwitched leaves everything but the phase of the open journal. *)
LEMMA writeRollbackSwitchedEffect ==
    ASSUME TypeOK, ControlInv, writeRollbackSwitched
    PROVE  /\ pc = "rbSwitched" /\ pc' = "rbRestart"
           /\ job = root.rollbackJournal /\ job.phase = "prepared" /\ ~Open(root.journal)
           /\ root'.rollbackJournal = job' /\ job'.phase = "switched"
           /\ UNCHANGED <<job.seq, job.from, job.to, job.counter, staging, agent, ledger, doomed>>
           /\ UNCHANGED <<root.current, root.meta, root.previous, root.slots, root.lastActivation,
                          root.lastRollback, root.counter, root.commandFloor, root.journal>>
<1>1. /\ pc = "rbSwitched" /\ pc' = "rbRestart" /\ job' = [job EXCEPT !.phase = "switched"]
      /\ root' = [root EXCEPT !.rollbackJournal = job'] /\ UNCHANGED <<staging, agent, ledger, doomed>>
  BY DEF writeRollbackSwitched
<1>2. job = root.rollbackJournal /\ job.phase = "prepared" /\ ~Open(root.journal)
  BY <1>1 DEF ControlInv, Opening, Returning, Activating
<1>3. job'.phase = "switched" /\ UNCHANGED <<job.seq, job.from, job.to, job.counter>>
  BY <1>1 DEF TypeOK, Journal
<1>4. /\ root'.rollbackJournal = job'
      /\ UNCHANGED <<root.current, root.meta, root.previous, root.slots, root.lastActivation,
                     root.lastRollback, root.counter, root.commandFloor, root.journal>>
  BY <1>1 DEF TypeOK, RootState
<1> QED
  BY <1>1, <1>2, <1>3, <1>4

(* attestActivation numbers the receipt and closes the question of the command. *)
LEMMA attestActivationEffect ==
    ASSUME TypeOK, ControlInv, FloorInv, CounterInv, attestActivation
    PROVE  /\ pc = "attest" /\ pc' = "persist"
           /\ job = root.journal /\ job.phase = "switched" /\ ~Open(root.rollbackJournal)
           /\ job.seq = root.commandFloor /\ root.counter = Len(ledger)
           /\ root'.journal = job' /\ job'.phase = "done"
           /\ job'.counter = Len(ledger) + 1
           /\ UNCHANGED <<job.seq, job.from, job.to, staging, agent, doomed>>
           /\ UNCHANGED <<root.current, root.meta, root.previous, root.slots, root.lastActivation,
                          root.lastRollback, root.counter, root.commandFloor, root.rollbackJournal>>
           /\ Len(ledger) \in Nat /\ DOMAIN ledger = 1 .. Len(ledger)
           /\ Len(ledger') = Len(ledger) + 1 /\ DOMAIN ledger' = 1 .. Len(ledger) + 1
           /\ \A i \in 1 .. Len(ledger) : ledger'[i] = ledger[i]
           /\ ledger'[Len(ledger) + 1] =
                [seq |-> job.seq, kind |-> "activate", slot |-> job.to]
<1>1. /\ pc = "attest" /\ pc' = "persist" /\ Attest("activate")
      /\ root' = [root EXCEPT !.journal = job']
  BY DEF attestActivation
<1>2. job = root.journal /\ job.phase = "switched" /\ ~Open(root.rollbackJournal)
  BY <1>1 DEF ControlInv, Trying, Returning, Activating
<1>3. job.seq = root.commandFloor /\ job.seq # 0 /\ root.counter = Len(ledger)
  BY <1>2 DEF FloorInv, CounterInv, Open, Done
<1>4. /\ root'.journal = job'
      /\ UNCHANGED <<root.current, root.meta, root.previous, root.slots, root.lastActivation,
                     root.lastRollback, root.counter, root.commandFloor, root.rollbackJournal>>
  BY <1>1 DEF TypeOK, RootState
<1> QED
  BY <1>1, <1>2, <1>3, <1>4, AttestStep

(* attestRollback numbers the receipt and closes the question of the command. *)
LEMMA attestRollbackEffect ==
    ASSUME TypeOK, ControlInv, FloorInv, CounterInv, attestRollback
    PROVE  /\ pc = "rbAttest" /\ pc' = "rbCounter"
           /\ job = root.rollbackJournal /\ job.phase = "switched" /\ ~Open(root.journal)
           /\ job.seq = root.commandFloor /\ root.counter = Len(ledger)
           /\ root'.rollbackJournal = job' /\ job'.phase = "done"
           /\ job'.counter = Len(ledger) + 1
           /\ UNCHANGED <<job.seq, job.from, job.to, staging, agent, doomed>>
           /\ UNCHANGED <<root.current, root.meta, root.previous, root.slots, root.lastActivation,
                          root.lastRollback, root.counter, root.commandFloor, root.journal>>
           /\ Len(ledger) \in Nat /\ DOMAIN ledger = 1 .. Len(ledger)
           /\ Len(ledger') = Len(ledger) + 1 /\ DOMAIN ledger' = 1 .. Len(ledger) + 1
           /\ \A i \in 1 .. Len(ledger) : ledger'[i] = ledger[i]
           /\ ledger'[Len(ledger) + 1] =
                [seq |-> job.seq, kind |-> "rollback", slot |-> job.to]
<1>1. /\ pc = "rbAttest" /\ pc' = "rbCounter" /\ Attest("rollback")
      /\ root' = [root EXCEPT !.rollbackJournal = job']
  BY DEF attestRollback
<1>2. job = root.rollbackJournal /\ job.phase = "switched" /\ ~Open(root.journal)
  BY <1>1 DEF ControlInv, Trying, Returning, Activating
<1>3. job.seq = root.commandFloor /\ job.seq # 0 /\ root.counter = Len(ledger)
  BY <1>2 DEF FloorInv, CounterInv, Open, Done
<1>4. /\ root'.rollbackJournal = job'
      /\ UNCHANGED <<root.current, root.meta, root.previous, root.slots, root.lastActivation,
                     root.lastRollback, root.counter, root.commandFloor, root.journal>>
  BY <1>1 DEF TypeOK, RootState
<1> QED
  BY <1>1, <1>2, <1>3, <1>4, AttestStep

(***************************************************************************)
(* The invariant is inductive                                              *)
(***************************************************************************)

(* Every step keeps the activator at the journal that is open. *)
LEMMA ControlNext ==
    TypeOK /\ ControlInv /\ ReceiptInv /\ [Next]_vars => ControlInv'
<1> SUFFICES ASSUME TypeOK, ControlInv, ReceiptInv, [Next]_vars
             PROVE  ControlInv'
  OBVIOUS
<1> USE DEF Open, Done, NoJournals, Opening, Trying, Restoring, Persisting, Returning,
            Recording, Publishing, Activating, NoJournal
<1>0. root \in RootState /\ job \in Journal /\ then \in {"idle", "command", "fail"}
  BY DEF TypeOK
<1>1. CASE runActivator
  BY <1>0, <1>1 DEF runActivator, Enter, Go, Exit, RootState, ControlInv
<1>2. CASE claimRollback
  BY <1>0, <1>2 DEF claimRollback, Enter, Go, Exit, RootState, ControlInv
<1>3. CASE claimReady
  BY <1>0, <1>3 DEF claimReady, Go, Exit, RootState, ControlInv
<1>4. CASE recoverActivation
  BY <1>0, <1>4 DEF recoverActivation, Go, Exit, RootState, ControlInv
<1>5. CASE ActivateCommand
  <2>1. pc = "command" /\ NoJournals
    BY <1>5 DEF ActivateCommand, ControlInv
  <2>2. CASE pc' = "replayed" /\ job' = root.lastActivation /\ UNCHANGED <<root, then, action>>
             /\ replayCompletedActivation(root.activationClaim)
    <3>1. Done(root.lastActivation)
      BY <2>2 DEF replayCompletedActivation, ReceiptInv, Receipt
    <3> QED
      BY <2>1, <2>2, <3>1 DEF ControlInv
  <2>3. CASE UNCHANGED root /\ (Go("idle") \/ Go("fail"))
    BY <2>1, <2>3 DEF ControlInv, Go, Exit
  <2>4. ASSUME NEW j, j.phase = "prepared", root' = [root EXCEPT !.journal = j], job' = j,
               pc' = "consume"
        PROVE  ControlInv'
    BY <1>0, <2>1, <2>4 DEF ControlInv, RootState
  <2> QED
    BY <1>5, <2>2, <2>3, <2>4 DEF ActivateCommand, ActivationJournal
<1>6. CASE consumeAssignmentAuthorization
  BY <1>0, <1>6 DEF consumeAssignmentAuthorization, RootStep, Go, Exit, RootState,
     ControlInv
<1>7. CASE installSlot
  BY <1>0, <1>7 DEF installSlot, RootStep, Go, Exit, RootState, ControlInv
<1>8. CASE switchCandidate
  BY <1>0, <1>8 DEF switchCandidate, RootStep, Go, Exit, RootState, ControlInv
<1>9. CASE writeSwitched
  BY <1>0, <1>9 DEF writeSwitched, RootState, ControlInv
<1>10. CASE restartCandidate
  BY <1>0, <1>10 DEF restartCandidate, Go, Exit, Restart, RootState, ControlInv
<1>11. CASE attestActivation
  BY <1>0, <1>11 DEF attestActivation, Attest, RootState, ControlInv
<1>12. CASE persistHealthyActivation
  BY <1>0, <1>12 DEF persistHealthyActivation, RootStep, Go, Exit, persistActivation,
     persistReceipt, RootState, ControlInv
<1>13. CASE clearStaged
  BY <1>0, <1>13 DEF clearStaged, Go, Exit, Cleared, RootState, ControlInv
<1>14. CASE removeClaim
  BY <1>0, <1>14 DEF removeClaim, RootStep, Go, Exit, RootState, ControlInv
<1>15. CASE pruneObsoleteSlots
  <2>1. pc \in {"prune", "pruning"} /\ NoJournals
    BY <1>15 DEF pruneObsoleteSlots, ControlInv
  <2>2. root'.journal = root.journal /\ root'.rollbackJournal = root.rollbackJournal
    BY <1>0, <1>15 DEF pruneObsoleteSlots, securelyRemoveSlot, RootState
  <2>3. pc' \in {"pruning", "idle", "command", "fail"}
    BY <1>0, <1>15 DEF pruneObsoleteSlots, Go, Exit
  <2> QED
    BY <2>1, <2>2, <2>3 DEF ControlInv
<1>16. CASE restorePrevious
  <2>1. job = root.journal /\ ~Open(root.rollbackJournal) /\ Open(job) /\ ~Done(job)
    BY <1>16 DEF restorePrevious, RootStep, ControlInv
  <2>2. CASE pc = "restore" \/ pc = "restoreMeta"
    BY <1>0, <1>16, <2>1, <2>2 DEF restorePrevious, RootStep, Go, RootState, ControlInv
  <2>3. CASE pc = "dropJournal"
    <3>1. NoJournals'
      BY <1>0, <1>16, <2>1, <2>3 DEF restorePrevious, RootStep, RootState, NoJournal
    <3>2. pc' \in {"command", "fail", "idle"}
      BY <1>0, <1>16, <2>3 DEF restorePrevious, RootStep, Go, Exit
    <3> QED
      BY <3>1, <3>2 DEF ControlInv
  <2> QED
    BY <1>16, <2>2, <2>3 DEF restorePrevious, RootStep
<1>17. CASE restartPrevious
  BY <1>0, <1>17 DEF restartPrevious, Go, Exit, Restart, RootState, ControlInv
<1>18. CASE RollbackCommand
  <2>1. pc = "rollback" /\ ~Open(root.journal)
    BY <1>18 DEF RollbackCommand, ControlInv
  <2>2. CASE root.rollbackJournal.phase # "none" /\ job' = root.rollbackJournal /\ pc' = "ensure"
             /\ UNCHANGED <<root, then, action>>
    BY <2>1, <2>2 DEF ControlInv
  <2>3. CASE root.rollbackJournal.phase = "none" /\ replayCompletedRollback(root.rollbackClaim)
             /\ job' = root.lastRollback /\ pc' = "rbResult" /\ UNCHANGED <<root, then, action>>
    <3>1. Done(root.lastRollback)
      BY <2>3 DEF replayCompletedRollback, ReceiptInv, Receipt
    <3> QED
      BY <2>1, <2>3, <3>1 DEF ControlInv
  <2>4. CASE UNCHANGED root /\ Go("fail")
    BY <2>1, <2>4 DEF ControlInv, Go
  <2>5. ASSUME NEW j, j.phase = "prepared", root' = [root EXCEPT !.rollbackJournal = j], job' = j,
               pc' = "ensure"
        PROVE  ControlInv'
    BY <1>0, <2>1, <2>5 DEF ControlInv, RootState
  <2> QED
    BY <1>18, <2>2, <2>3, <2>4, <2>5 DEF RollbackCommand, RollbackJournal
<1>19. CASE ensureAuthorizationConsumed
  BY <1>0, <1>19 DEF ensureAuthorizationConsumed, RootStep, Go, Exit, RootState,
     ControlInv
<1>20. CASE switchTarget
  <2>1. pc = "rbSwitch" /\ job \in Journal /\ UNCHANGED job
    BY <1>0, <1>20 DEF switchTarget, RootStep, Go
  <2>2. /\ pc' = "fail" \/ pc' = IF job.phase = "prepared" THEN "rbSwitched" ELSE "rbRestart"
        /\ root' = root \/ root' = [root EXCEPT !.current = job.to]
    BY <1>20 DEF switchTarget, RootStep, Go
  <2>3. UNCHANGED <<root.journal, root.rollbackJournal>>
    BY <1>0, <2>2 DEF RootState
  <2>4. job.phase \in {"prepared", "switched"}
    BY <2>1 DEF ControlInv, Journal
  <2> QED
    BY <2>1, <2>2, <2>3, <2>4 DEF ControlInv
<1>21. CASE writeRollbackSwitched
  BY <1>0, <1>21 DEF writeRollbackSwitched, RootState, ControlInv
<1>22. CASE restartTarget
  BY <1>0, <1>22 DEF restartTarget, Go, Exit, Restart, RootState, ControlInv
<1>23. CASE restoreFrom
  BY <1>0, <1>23 DEF restoreFrom, RootStep, Go, Exit, RootState, ControlInv
<1>24. CASE attestRollback
  BY <1>0, <1>24 DEF attestRollback, Attest, RootState, ControlInv
<1>25. CASE finishRollback
  BY <1>0, <1>25 DEF finishRollback, RootStep, Go, Exit, persistRollbackCounter,
     publishRollbackResult, clearSupersededReady, Cleared, RootState, ControlInv
<1>26. CASE publishFailure
  BY <1>0, <1>26 DEF publishFailure, Go, Exit, RootState, ControlInv
<1>27. CASE removeFailedClaim
  BY <1>0, <1>27 DEF removeFailedClaim, RootStep, Go, Exit, RootState, ControlInv
<1>28. CASE Kill
  BY <1>0, <1>28 DEF Kill, Exit, RootState, ControlInv
<1>29. CASE Reboot
  BY <1>0, <1>29 DEF Reboot, Exit, RootState, ControlInv
<1>30. CASE CallFails
  BY <1>0, <1>30 DEF CallFails, Go, Exit, RootState, ControlInv
<1>31. CASE Worker \/ Server \/ UNCHANGED vars
  BY <1>31, OutsideStep DEF ControlInv
<1> QED
  BY <1>1, <1>2, <1>3, <1>4, <1>5, <1>6, <1>7, <1>8, <1>9, <1>10, <1>11, <1>12, <1>13,
     <1>14, <1>15, <1>16, <1>17, <1>18, <1>19, <1>20, <1>21, <1>22, <1>23, <1>24, <1>25,
     <1>26, <1>27, <1>28, <1>29, <1>30, <1>31
     DEF Next, Activator, Faults

(* Every step keeps the order of the commands and of their receipts. *)
LEMMA FloorNext ==
    TypeOK /\ ControlInv /\ FloorInv /\ CounterInv /\ [Next]_vars => FloorInv'
<1> SUFFICES ASSUME TypeOK, ControlInv, FloorInv, CounterInv, [Next]_vars
             PROVE  FloorInv'
  OBVIOUS
<1> USE DEF Open, Done, NoJournals, Opening, Trying, Restoring, Persisting, Returning,
            Recording, Publishing, Activating, NoJournal, Undecided
<1>0. root \in RootState /\ job \in Journal /\ then \in {"idle", "command", "fail"}
  BY DEF TypeOK
<1>a. root.commandFloor \in Nat
  BY <1>0 DEF RootState
<1>1. CASE runActivator
  BY <1>0, <1>1, <1>a DEF runActivator, Enter, Go, Exit, RootState, ControlInv, FloorInv
<1>2. CASE claimRollback
  BY <1>0, <1>2, <1>a DEF claimRollback, Enter, Go, Exit, RootState, ControlInv,
     FloorInv
<1>3. CASE claimReady
  BY <1>0, <1>3, <1>a DEF claimReady, Go, Exit, RootState, ControlInv, FloorInv
<1>4. CASE recoverActivation
  BY <1>0, <1>4, <1>a DEF recoverActivation, Go, Exit, RootState, ControlInv, FloorInv
<1>5. CASE ActivateCommand
  BY <1>0, <1>5, <1>a DEF ActivateCommand, Go, Exit, ActivationJournal,
     VerifiedActivation, replayCompletedActivation, RootState, ControlInv, FloorInv
<1>6. CASE consumeAssignmentAuthorization
  <2>1. /\ pc = "consume" /\ job = root.journal /\ job.phase = "prepared"
        /\ job.seq > root.commandFloor /\ ~Open(root.rollbackJournal)
    BY <1>6 DEF consumeAssignmentAuthorization, RootStep, ControlInv, FloorInv
  <2>2. UNCHANGED <<job, ledger>>
    BY <1>6 DEF consumeAssignmentAuthorization, RootStep, Go
  <2>3. \A i \in DOMAIN ledger : ledger[i].seq \in Nat
    BY LedgerType
  <2>4. job.seq \in Nat
    BY <1>0 DEF Journal
  <2>5. CASE root' = [root EXCEPT !.commandFloor = job.seq] /\ pc' = "install"
    <3>1. root'.commandFloor = job.seq /\ UNCHANGED <<root.journal, root.rollbackJournal>>
      BY <1>0, <2>5 DEF RootState
    <3>2. \A i \in DOMAIN ledger : ledger[i].seq < job.seq
      BY <1>a, <2>1, <2>3, <2>4 DEF FloorInv
    <3> QED
      BY <1>a, <2>1, <2>2, <2>3, <2>4, <2>5, <3>1, <3>2 DEF FloorInv
  <2>6. CASE root' = [root EXCEPT !.journal = NoJournal] /\ pc' = "fail"
    BY <1>0, <2>1, <2>2, <2>6 DEF FloorInv, RootState
  <2> QED
    BY <1>6, <2>5, <2>6 DEF consumeAssignmentAuthorization, RootStep, Go
<1>7. CASE installSlot
  BY <1>0, <1>7, <1>a DEF installSlot, RootStep, Go, Exit, RootState, ControlInv,
     FloorInv
<1>8. CASE switchCandidate
  BY <1>0, <1>8, <1>a DEF switchCandidate, RootStep, Go, Exit, RootState, ControlInv,
     FloorInv
<1>9. CASE writeSwitched
  BY <1>9, writeSwitchedEffect DEF FloorInv
<1>10. CASE restartCandidate
  BY <1>0, <1>10, <1>a DEF restartCandidate, Go, Exit, Restart, RootState, ControlInv,
     FloorInv
<1>11. CASE attestActivation
  <2>1. \A i \in DOMAIN ledger : i <= ledger[i].seq /\ ledger[i].seq < root.commandFloor
    BY <1>11, attestActivationEffect DEF FloorInv
  <2>2. Len(ledger) + 1 <= root.commandFloor
    <3>1. root.commandFloor # 0
      BY <1>11, attestActivationEffect DEF FloorInv
    <3>2. Len(ledger) # 0 => Len(ledger) \in DOMAIN ledger
      BY <1>11, attestActivationEffect
    <3> QED
      BY <1>a, <2>1, <3>1, <3>2, LedgerType
  <2>3. ledger'[Len(ledger) + 1].seq = root.commandFloor
    BY <1>11, attestActivationEffect
  <2>4. \A i \in DOMAIN ledger' : i <= ledger'[i].seq /\ ledger'[i].seq <= root'.commandFloor
    <3>1. \A i \in 1 .. Len(ledger) : i <= ledger'[i].seq /\ ledger'[i].seq <= root'.commandFloor
      BY <1>a, <1>11, <2>1, attestActivationEffect, LedgerType
    <3> QED
      BY <1>a, <1>11, <2>2, <2>3, <3>1, attestActivationEffect
  <2>5. ASSUME NEW i \in DOMAIN ledger', NEW k \in DOMAIN ledger', i < k
        PROVE  ledger'[i].seq < ledger'[k].seq
    <3>1. i \in 1 .. Len(ledger) /\ (k \in 1 .. Len(ledger) \/ k = Len(ledger) + 1)
      BY <1>11, <2>5, attestActivationEffect
    <3> QED
      BY <1>11, <2>1, <2>3, <2>5, <3>1, attestActivationEffect DEF FloorInv
  <2> QED
    BY <1>a, <1>11, <2>4, <2>5, attestActivationEffect DEF FloorInv
<1>12. CASE persistHealthyActivation
  BY <1>0, <1>12, <1>a DEF persistHealthyActivation, RootStep, Go, Exit,
     persistActivation, persistReceipt, RootState, ControlInv, FloorInv
<1>13. CASE clearStaged
  BY <1>0, <1>13, <1>a DEF clearStaged, Go, Exit, Cleared, RootState, ControlInv,
     FloorInv
<1>14. CASE removeClaim
  BY <1>0, <1>14, <1>a DEF removeClaim, RootStep, Go, Exit, RootState, ControlInv,
     FloorInv
<1>15. CASE pruneObsoleteSlots
  BY <1>0, <1>15, <1>a DEF pruneObsoleteSlots, Go, Exit, securelyRemoveSlot, RootState,
     ControlInv, FloorInv
<1>16. CASE restorePrevious
  BY <1>0, <1>16, <1>a DEF restorePrevious, RootStep, Go, Exit, RootState, ControlInv,
     FloorInv
<1>17. CASE restartPrevious
  BY <1>0, <1>17, <1>a DEF restartPrevious, Go, Exit, Restart, RootState, ControlInv,
     FloorInv
<1>18. CASE RollbackCommand
  BY <1>0, <1>18, <1>a DEF RollbackCommand, Go, Exit, RollbackJournal, VerifiedRollback,
     replayCompletedRollback, RootState, ControlInv, FloorInv
<1>19. CASE ensureAuthorizationConsumed
  <2>1. /\ pc = "ensure" /\ job = root.rollbackJournal /\ Open(job)
        /\ job.seq >= root.commandFloor /\ job.seq # 0 /\ ~Open(root.journal)
    BY <1>19 DEF ensureAuthorizationConsumed, RootStep, ControlInv, FloorInv
  <2>2. UNCHANGED <<job, ledger>>
    BY <1>19 DEF ensureAuthorizationConsumed, RootStep, Go
  <2>3. \A i \in DOMAIN ledger : ledger[i].seq \in Nat
    BY LedgerType
  <2>4. job.seq \in Nat
    BY <1>0 DEF Journal
  <2>5. CASE root' = root /\ (pc' = "fail" \/ (root.commandFloor = job.seq
                                             /\ pc' \in {"rbCounter", "rbSwitch"}))
    BY <2>1, <2>2, <2>5 DEF FloorInv
  <2>6. CASE /\ root' = [root EXCEPT !.commandFloor = job.seq] /\ root.commandFloor < job.seq
             /\ pc' \in {"rbCounter", "rbSwitch"}
    <3>1. root'.commandFloor = job.seq /\ UNCHANGED <<root.journal, root.rollbackJournal>>
      BY <1>0, <2>6 DEF RootState
    <3>2. \A i \in DOMAIN ledger : ledger[i].seq < job.seq
      BY <1>a, <2>3, <2>4, <2>6 DEF FloorInv
    <3> QED
      BY <1>a, <2>1, <2>2, <2>3, <2>4, <2>6, <3>1, <3>2 DEF FloorInv
  <2> QED
    BY <1>19, <2>5, <2>6 DEF ensureAuthorizationConsumed, RootStep, Go
<1>20. CASE switchTarget
  BY <1>0, <1>20, <1>a DEF switchTarget, RootStep, Go, Exit, RootState, ControlInv,
     FloorInv
<1>21. CASE writeRollbackSwitched
  BY <1>21, writeRollbackSwitchedEffect DEF FloorInv
<1>22. CASE restartTarget
  BY <1>0, <1>22, <1>a DEF restartTarget, Go, Exit, Restart, RootState, ControlInv,
     FloorInv
<1>23. CASE restoreFrom
  BY <1>0, <1>23, <1>a DEF restoreFrom, RootStep, Go, Exit, RootState, ControlInv,
     FloorInv
<1>24. CASE attestRollback
  <2>1. \A i \in DOMAIN ledger : i <= ledger[i].seq /\ ledger[i].seq < root.commandFloor
    BY <1>24, attestRollbackEffect DEF FloorInv
  <2>2. Len(ledger) + 1 <= root.commandFloor
    <3>1. root.commandFloor # 0
      BY <1>24, attestRollbackEffect DEF FloorInv
    <3>2. Len(ledger) # 0 => Len(ledger) \in DOMAIN ledger
      BY <1>24, attestRollbackEffect
    <3> QED
      BY <1>a, <2>1, <3>1, <3>2, LedgerType
  <2>3. ledger'[Len(ledger) + 1].seq = root.commandFloor
    BY <1>24, attestRollbackEffect
  <2>4. \A i \in DOMAIN ledger' : i <= ledger'[i].seq /\ ledger'[i].seq <= root'.commandFloor
    <3>1. \A i \in 1 .. Len(ledger) : i <= ledger'[i].seq /\ ledger'[i].seq <= root'.commandFloor
      BY <1>a, <1>24, <2>1, attestRollbackEffect, LedgerType
    <3> QED
      BY <1>a, <1>24, <2>2, <2>3, <3>1, attestRollbackEffect
  <2>5. ASSUME NEW i \in DOMAIN ledger', NEW k \in DOMAIN ledger', i < k
        PROVE  ledger'[i].seq < ledger'[k].seq
    <3>1. i \in 1 .. Len(ledger) /\ (k \in 1 .. Len(ledger) \/ k = Len(ledger) + 1)
      BY <1>24, <2>5, attestRollbackEffect
    <3> QED
      BY <1>24, <2>1, <2>3, <2>5, <3>1, attestRollbackEffect DEF FloorInv
  <2> QED
    BY <1>a, <1>24, <2>4, <2>5, attestRollbackEffect DEF FloorInv
<1>25. CASE finishRollback
  BY <1>0, <1>25, <1>a DEF finishRollback, RootStep, Go, Exit, persistRollbackCounter,
     publishRollbackResult, clearSupersededReady, Cleared, RootState, ControlInv,
     FloorInv
<1>26. CASE publishFailure
  BY <1>0, <1>26, <1>a DEF publishFailure, Go, Exit, RootState, ControlInv, FloorInv
<1>27. CASE removeFailedClaim
  BY <1>0, <1>27, <1>a DEF removeFailedClaim, RootStep, Go, Exit, RootState, ControlInv,
     FloorInv
<1>28. CASE Kill
  BY <1>0, <1>28, <1>a DEF Kill, Exit, RootState, ControlInv, FloorInv
<1>29. CASE Reboot
  BY <1>0, <1>29, <1>a DEF Reboot, Exit, RootState, ControlInv, FloorInv
<1>30. CASE CallFails
  BY <1>0, <1>30, <1>a DEF CallFails, Go, Exit, RootState, ControlInv, FloorInv
<1>31. CASE Worker \/ Server \/ UNCHANGED vars
  BY <1>31, OutsideStep DEF FloorInv
<1> QED
  BY <1>1, <1>2, <1>3, <1>4, <1>5, <1>6, <1>7, <1>8, <1>9, <1>10, <1>11, <1>12, <1>13,
     <1>14, <1>15, <1>16, <1>17, <1>18, <1>19, <1>20, <1>21, <1>22, <1>23, <1>24, <1>25,
     <1>26, <1>27, <1>28, <1>29, <1>30, <1>31
     DEF Next, Activator, Faults

(* Every step keeps the receipts in the files those of the ledger. *)
LEMMA ReceiptNext ==
    /\ TypeOK /\ ControlInv /\ FloorInv /\ ReceiptInv /\ CounterInv /\ [Next]_vars
    => ReceiptInv'
<1> SUFFICES ASSUME TypeOK, ControlInv, FloorInv, ReceiptInv, CounterInv, [Next]_vars
             PROVE  ReceiptInv'
  OBVIOUS
<1> USE DEF Open, Done, NoJournals, Opening, Trying, Restoring, Persisting, Returning,
            Recording, Publishing, Activating, NoJournal
<1>0. root \in RootState /\ job \in Journal /\ then \in {"idle", "command", "fail"}
  BY DEF TypeOK
<1>a. staging \in StagingState
  BY DEF TypeOK
<1>1. CASE runActivator
  BY <1>0, <1>1, <1>a DEF runActivator, Enter, Go, Exit, RootState, StagingState,
     ControlInv, ReceiptInv, Receipt
<1>2. CASE claimRollback
  BY <1>0, <1>2, <1>a DEF claimRollback, Enter, Go, Exit, RootState, StagingState,
     ControlInv, ReceiptInv, Receipt
<1>3. CASE claimReady
  BY <1>0, <1>3, <1>a DEF claimReady, Go, Exit, RootState, StagingState, ControlInv,
     ReceiptInv, Receipt
<1>4. CASE recoverActivation
  BY <1>0, <1>4, <1>a DEF recoverActivation, Go, Exit, RootState, StagingState,
     ControlInv, ReceiptInv, Receipt
<1>5. CASE ActivateCommand
  BY <1>0, <1>5, <1>a DEF ActivateCommand, Go, Exit, ActivationJournal,
     VerifiedActivation, replayCompletedActivation, RootState, StagingState, ControlInv,
     ReceiptInv, Receipt
<1>6. CASE consumeAssignmentAuthorization
  BY <1>0, <1>6, <1>a DEF consumeAssignmentAuthorization, RootStep, Go, Exit, RootState,
     StagingState, ControlInv, ReceiptInv, Receipt
<1>7. CASE installSlot
  BY <1>0, <1>7, <1>a DEF installSlot, RootStep, Go, Exit, RootState, StagingState,
     ControlInv, ReceiptInv, Receipt
<1>8. CASE switchCandidate
  BY <1>0, <1>8, <1>a DEF switchCandidate, RootStep, Go, Exit, RootState, StagingState,
     ControlInv, ReceiptInv, Receipt
<1>9. CASE writeSwitched
  BY <1>9, writeSwitchedEffect DEF ReceiptInv, Receipt
<1>10. CASE restartCandidate
  BY <1>0, <1>10, <1>a DEF restartCandidate, Go, Exit, Restart, RootState, StagingState,
     ControlInv, ReceiptInv, Receipt
<1>11. CASE attestActivation
  <2>1. ASSUME NEW r, NEW k, Receipt(r, k) PROVE Receipt(r, k)'
    BY <1>11, <2>1, attestActivationEffect DEF Receipt
  <2>2. PICK n : n = job'
    OBVIOUS
  <2>3. Receipt(n, "activate")'
    BY <1>11, <2>2, attestActivationEffect DEF Receipt
  <2>4. PICK a, b, c : a = root.lastActivation /\ b = root.lastRollback /\ c = root.rollbackJournal
    OBVIOUS
  <2>5. PICK r, s : r = staging.receipt /\ s = staging.rollbackResult
    OBVIOUS
  <2>6. /\ Receipt(c, "rollback")'
        /\ Receipt(a, "activate")' /\ Receipt(b, "rollback")'
        /\ Receipt(r, "activate")' /\ Receipt(s, "rollback")'
    BY <2>1, <2>4, <2>5 DEF ReceiptInv
  <2>7. /\ n = root'.journal /\ c = root'.rollbackJournal
        /\ a = root'.lastActivation /\ b = root'.lastRollback
        /\ r = staging'.receipt /\ s = staging'.rollbackResult
    BY <1>11, <2>2, <2>4, <2>5, attestActivationEffect
  <2> QED
    BY <2>3, <2>4, <2>6, <2>7 DEF ReceiptInv, Receipt
<1>12. CASE persistHealthyActivation
  BY <1>0, <1>12, <1>a DEF persistHealthyActivation, RootStep, Go, Exit,
     persistActivation, persistReceipt, RootState, StagingState, ControlInv, ReceiptInv,
     Receipt
<1>13. CASE clearStaged
  <2>1. UNCHANGED <<root, ledger, staging.receipt, staging.rollbackResult>>
    BY <1>a, <1>13 DEF clearStaged, Cleared, StagingState
  <2> QED
    BY <2>1 DEF ReceiptInv, Receipt
<1>14. CASE removeClaim
  BY <1>0, <1>14, <1>a DEF removeClaim, RootStep, Go, Exit, RootState, StagingState,
     ControlInv, ReceiptInv, Receipt
<1>15. CASE pruneObsoleteSlots
  <2>1. UNCHANGED <<ledger, staging, root.journal, root.rollbackJournal, root.lastActivation,
                    root.lastRollback>>
    BY <1>0, <1>15 DEF pruneObsoleteSlots, securelyRemoveSlot, RootState
  <2> QED
    BY <2>1 DEF ReceiptInv, Receipt
<1>16. CASE restorePrevious
  BY <1>0, <1>16, <1>a DEF restorePrevious, RootStep, Go, Exit, RootState, StagingState,
     ControlInv, ReceiptInv, Receipt
<1>17. CASE restartPrevious
  BY <1>0, <1>17, <1>a DEF restartPrevious, Go, Exit, Restart, RootState, StagingState,
     ControlInv, ReceiptInv, Receipt
<1>18. CASE RollbackCommand
  BY <1>0, <1>18, <1>a DEF RollbackCommand, Go, Exit, RollbackJournal, VerifiedRollback,
     replayCompletedRollback, RootState, StagingState, ControlInv, ReceiptInv, Receipt
<1>19. CASE ensureAuthorizationConsumed
  BY <1>0, <1>19, <1>a DEF ensureAuthorizationConsumed, RootStep, Go, Exit, RootState,
     StagingState, ControlInv, ReceiptInv, Receipt
<1>20. CASE switchTarget
  BY <1>0, <1>20, <1>a DEF switchTarget, RootStep, Go, Exit, RootState, StagingState,
     ControlInv, ReceiptInv, Receipt
<1>21. CASE writeRollbackSwitched
  BY <1>21, writeRollbackSwitchedEffect DEF ReceiptInv, Receipt
<1>22. CASE restartTarget
  BY <1>0, <1>22, <1>a DEF restartTarget, Go, Exit, Restart, RootState, StagingState,
     ControlInv, ReceiptInv, Receipt
<1>23. CASE restoreFrom
  BY <1>0, <1>23, <1>a DEF restoreFrom, RootStep, Go, Exit, RootState, StagingState,
     ControlInv, ReceiptInv, Receipt
<1>24. CASE attestRollback
  <2>1. ASSUME NEW r, NEW k, Receipt(r, k) PROVE Receipt(r, k)'
    BY <1>24, <2>1, attestRollbackEffect DEF Receipt
  <2>2. PICK n : n = job'
    OBVIOUS
  <2>3. Receipt(n, "rollback")'
    BY <1>24, <2>2, attestRollbackEffect DEF Receipt
  <2>4. PICK a, b, c : a = root.lastActivation /\ b = root.lastRollback /\ c = root.journal
    OBVIOUS
  <2>5. PICK r, s : r = staging.receipt /\ s = staging.rollbackResult
    OBVIOUS
  <2>6. /\ Receipt(c, "activate")'
        /\ Receipt(a, "activate")' /\ Receipt(b, "rollback")'
        /\ Receipt(r, "activate")' /\ Receipt(s, "rollback")'
    BY <2>1, <2>4, <2>5 DEF ReceiptInv
  <2>7. /\ n = root'.rollbackJournal /\ c = root'.journal
        /\ a = root'.lastActivation /\ b = root'.lastRollback
        /\ r = staging'.receipt /\ s = staging'.rollbackResult
    BY <1>24, <2>2, <2>4, <2>5, attestRollbackEffect
  <2> QED
    BY <2>3, <2>4, <2>6, <2>7 DEF ReceiptInv, Receipt
<1>25. CASE finishRollback
  <2>1. UNCHANGED ledger
    BY <1>25 DEF finishRollback, persistRollbackCounter, RootStep, publishRollbackResult,
             clearSupersededReady
  <2>2. UNCHANGED <<root.journal, root.lastActivation, staging.receipt>>
    BY <1>0, <1>a, <1>25 DEF finishRollback, persistRollbackCounter, RootStep, RootState,
       publishRollbackResult, clearSupersededReady, Cleared, StagingState
  <2>3. pc \in {"rbLast", "rbResult"} =>
          Receipt(job, "rollback") /\ job.phase \in {"none", "done"}
    BY DEF ControlInv, ReceiptInv
  <2>4. root'.rollbackJournal \in {root.rollbackJournal, NoJournal}
    BY <1>0, <1>25 DEF finishRollback, persistRollbackCounter, RootStep, RootState,
       publishRollbackResult, clearSupersededReady
  <2>5. root'.lastRollback = root.lastRollback \/ (pc = "rbLast" /\ root'.lastRollback = job)
    BY <1>0, <1>25 DEF finishRollback, persistRollbackCounter, RootStep, RootState,
       publishRollbackResult, clearSupersededReady
  <2>6. \/ staging'.rollbackResult = staging.rollbackResult
        \/ pc = "rbResult" /\ staging'.rollbackResult = job
    BY <1>a, <1>25 DEF finishRollback, persistRollbackCounter, RootStep,
       publishRollbackResult,
       clearSupersededReady, Cleared, StagingState
  <2> QED
    BY <2>1, <2>2, <2>3, <2>4, <2>5, <2>6 DEF ReceiptInv, Receipt
<1>26. CASE publishFailure
  BY <1>0, <1>26, <1>a DEF publishFailure, Go, Exit, RootState, StagingState,
     ControlInv, ReceiptInv, Receipt
<1>27. CASE removeFailedClaim
  BY <1>0, <1>27, <1>a DEF removeFailedClaim, RootStep, Go, Exit, RootState,
     StagingState, ControlInv, ReceiptInv, Receipt
<1>28. CASE Kill
  BY <1>0, <1>28, <1>a DEF Kill, Exit, RootState, StagingState, ControlInv, ReceiptInv,
     Receipt
<1>29. CASE Reboot
  BY <1>0, <1>29, <1>a DEF Reboot, Exit, RootState, StagingState, ControlInv,
     ReceiptInv, Receipt
<1>30. CASE CallFails
  BY <1>0, <1>30, <1>a DEF CallFails, Go, Exit, RootState, StagingState, ControlInv,
     ReceiptInv, Receipt
<1>31. CASE Worker \/ Server \/ UNCHANGED vars
  BY <1>31, OutsideStep DEF ReceiptInv, Receipt
<1> QED
  BY <1>1, <1>2, <1>3, <1>4, <1>5, <1>6, <1>7, <1>8, <1>9, <1>10, <1>11, <1>12, <1>13,
     <1>14, <1>15, <1>16, <1>17, <1>18, <1>19, <1>20, <1>21, <1>22, <1>23, <1>24, <1>25,
     <1>26, <1>27, <1>28, <1>29, <1>30, <1>31
     DEF Next, Activator, Faults

(* Every step keeps the counter. *)
LEMMA CounterNext ==
    /\ TypeOK /\ ControlInv /\ FloorInv /\ ReceiptInv /\ CounterInv /\ [Next]_vars
    => CounterInv'
<1> SUFFICES ASSUME TypeOK, ControlInv, FloorInv, ReceiptInv, CounterInv, [Next]_vars
             PROVE  CounterInv'
  OBVIOUS
<1> USE DEF Open, Done, NoJournals, Opening, Trying, Restoring, Persisting, Returning,
            Recording, Publishing, Activating, NoJournal
<1>0. root \in RootState /\ job \in Journal /\ then \in {"idle", "command", "fail"}
  BY DEF TypeOK
<1>1. CASE runActivator
  BY <1>0, <1>1 DEF runActivator, Enter, Go, Exit, RootState, ControlInv, CounterInv
<1>2. CASE claimRollback
  BY <1>0, <1>2 DEF claimRollback, Enter, Go, Exit, RootState, ControlInv, CounterInv
<1>3. CASE claimReady
  BY <1>0, <1>3 DEF claimReady, Go, Exit, RootState, ControlInv, CounterInv
<1>4. CASE recoverActivation
  BY <1>0, <1>4 DEF recoverActivation, Go, Exit, RootState, ControlInv, CounterInv
<1>5. CASE ActivateCommand
  BY <1>0, <1>5 DEF ActivateCommand, Go, Exit, ActivationJournal, VerifiedActivation,
     replayCompletedActivation, RootState, ControlInv, CounterInv
<1>6. CASE consumeAssignmentAuthorization
  BY <1>0, <1>6 DEF consumeAssignmentAuthorization, RootStep, Go, Exit, RootState,
     ControlInv, CounterInv
<1>7. CASE installSlot
  BY <1>0, <1>7 DEF installSlot, RootStep, Go, Exit, RootState, ControlInv, CounterInv
<1>8. CASE switchCandidate
  BY <1>0, <1>8 DEF switchCandidate, RootStep, Go, Exit, RootState, ControlInv,
     CounterInv
<1>9. CASE writeSwitched
  BY <1>9, writeSwitchedEffect DEF CounterInv
<1>10. CASE restartCandidate
  BY <1>0, <1>10 DEF restartCandidate, Go, Exit, Restart, RootState, ControlInv,
     CounterInv
<1>11. CASE attestActivation
  BY <1>11, attestActivationEffect DEF CounterInv
<1>12. CASE persistHealthyActivation
  BY <1>0, <1>12 DEF persistHealthyActivation, RootStep, Go, Exit, persistActivation,
     persistReceipt, RootState, ControlInv, CounterInv
<1>13. CASE clearStaged
  BY <1>0, <1>13 DEF clearStaged, Go, Exit, Cleared, RootState, ControlInv, CounterInv
<1>14. CASE removeClaim
  BY <1>0, <1>14 DEF removeClaim, RootStep, Go, Exit, RootState, ControlInv, CounterInv
<1>15. CASE pruneObsoleteSlots
  BY <1>0, <1>15 DEF pruneObsoleteSlots, Go, Exit, securelyRemoveSlot, RootState,
     ControlInv, CounterInv
<1>16. CASE restorePrevious
  BY <1>0, <1>16 DEF restorePrevious, RootStep, Go, Exit, RootState, ControlInv,
     CounterInv
<1>17. CASE restartPrevious
  BY <1>0, <1>17 DEF restartPrevious, Go, Exit, Restart, RootState, ControlInv,
     CounterInv
<1>18. CASE RollbackCommand
  BY <1>0, <1>18 DEF RollbackCommand, Go, Exit, RollbackJournal, VerifiedRollback,
     replayCompletedRollback, RootState, ControlInv, CounterInv
<1>19. CASE ensureAuthorizationConsumed
  BY <1>0, <1>19 DEF ensureAuthorizationConsumed, RootStep, Go, Exit, RootState,
     ControlInv, CounterInv
<1>20. CASE switchTarget
  BY <1>0, <1>20 DEF switchTarget, RootStep, Go, Exit, RootState, ControlInv, CounterInv
<1>21. CASE writeRollbackSwitched
  BY <1>21, writeRollbackSwitchedEffect DEF CounterInv
<1>22. CASE restartTarget
  BY <1>0, <1>22 DEF restartTarget, Go, Exit, Restart, RootState, ControlInv, CounterInv
<1>23. CASE restoreFrom
  BY <1>0, <1>23 DEF restoreFrom, RootStep, Go, Exit, RootState, ControlInv, CounterInv
<1>24. CASE attestRollback
  BY <1>24, attestRollbackEffect DEF CounterInv
<1>25. CASE finishRollback
  BY <1>0, <1>25 DEF finishRollback, RootStep, Go, Exit, persistRollbackCounter,
     publishRollbackResult, clearSupersededReady, Cleared, RootState, ControlInv,
     CounterInv
<1>26. CASE publishFailure
  BY <1>0, <1>26 DEF publishFailure, Go, Exit, RootState, ControlInv, CounterInv
<1>27. CASE removeFailedClaim
  BY <1>0, <1>27 DEF removeFailedClaim, RootStep, Go, Exit, RootState, ControlInv,
     CounterInv
<1>28. CASE Kill
  BY <1>0, <1>28 DEF Kill, Exit, RootState, ControlInv, CounterInv
<1>29. CASE Reboot
  BY <1>0, <1>29 DEF Reboot, Exit, RootState, ControlInv, CounterInv
<1>30. CASE CallFails
  BY <1>0, <1>30 DEF CallFails, Go, Exit, RootState, ControlInv, CounterInv
<1>31. CASE Worker \/ Server \/ UNCHANGED vars
  BY <1>31, OutsideStep DEF CounterInv
<1> QED
  BY <1>1, <1>2, <1>3, <1>4, <1>5, <1>6, <1>7, <1>8, <1>9, <1>10, <1>11, <1>12, <1>13,
     <1>14, <1>15, <1>16, <1>17, <1>18, <1>19, <1>20, <1>21, <1>22, <1>23, <1>24, <1>25,
     <1>26, <1>27, <1>28, <1>29, <1>30, <1>31
     DEF Next, Activator, Faults

(* Every step keeps the progress of persistHealthyActivation. *)
LEMMA PersistNext ==
    TypeOK /\ ControlInv /\ PersistInv /\ [Next]_vars => PersistInv'
<1> SUFFICES ASSUME TypeOK, ControlInv, PersistInv, [Next]_vars
             PROVE  PersistInv'
  OBVIOUS
<1> USE DEF Open, Done, NoJournals, Opening, Trying, Restoring, Persisting, Returning,
            Recording, Publishing, Activating, NoJournal
<1>0. root \in RootState /\ job \in Journal /\ then \in {"idle", "command", "fail"}
  BY DEF TypeOK
<1>1. CASE runActivator
  BY <1>0, <1>1 DEF runActivator, Enter, Go, Exit, RootState, ControlInv, PersistInv
<1>2. CASE claimRollback
  BY <1>0, <1>2 DEF claimRollback, Enter, Go, Exit, RootState, ControlInv, PersistInv
<1>3. CASE claimReady
  BY <1>0, <1>3 DEF claimReady, Go, Exit, RootState, ControlInv, PersistInv
<1>4. CASE recoverActivation
  BY <1>0, <1>4 DEF recoverActivation, Go, Exit, RootState, ControlInv, PersistInv
<1>5. CASE ActivateCommand
  BY <1>0, <1>5 DEF ActivateCommand, Go, Exit, ActivationJournal, VerifiedActivation,
     replayCompletedActivation, RootState, ControlInv, PersistInv
<1>6. CASE consumeAssignmentAuthorization
  BY <1>0, <1>6 DEF consumeAssignmentAuthorization, RootStep, Go, Exit, RootState,
     ControlInv, PersistInv
<1>7. CASE installSlot
  BY <1>0, <1>7 DEF installSlot, RootStep, Go, Exit, RootState, ControlInv, PersistInv
<1>8. CASE switchCandidate
  BY <1>0, <1>8 DEF switchCandidate, RootStep, Go, Exit, RootState, ControlInv,
     PersistInv
<1>9. CASE writeSwitched
  BY <1>9, writeSwitchedEffect DEF PersistInv
<1>10. CASE restartCandidate
  BY <1>0, <1>10 DEF restartCandidate, Go, Exit, Restart, RootState, ControlInv,
     PersistInv
<1>11. CASE attestActivation
  BY <1>0, <1>11 DEF attestActivation, Attest, RootState, ControlInv, PersistInv
<1>12. CASE persistHealthyActivation
  BY <1>0, <1>12 DEF persistHealthyActivation, RootStep, Go, Exit, persistActivation,
     persistReceipt, RootState, ControlInv, PersistInv
<1>13. CASE clearStaged
  BY <1>0, <1>13 DEF clearStaged, Go, Exit, Cleared, RootState, ControlInv, PersistInv
<1>14. CASE removeClaim
  BY <1>0, <1>14 DEF removeClaim, RootStep, Go, Exit, RootState, ControlInv, PersistInv
<1>15. CASE pruneObsoleteSlots
  BY <1>0, <1>15 DEF pruneObsoleteSlots, Go, Exit, securelyRemoveSlot, RootState,
     ControlInv, PersistInv
<1>16. CASE restorePrevious
  BY <1>0, <1>16 DEF restorePrevious, RootStep, Go, Exit, RootState, ControlInv,
     PersistInv
<1>17. CASE restartPrevious
  BY <1>0, <1>17 DEF restartPrevious, Go, Exit, Restart, RootState, ControlInv,
     PersistInv
<1>18. CASE RollbackCommand
  BY <1>0, <1>18 DEF RollbackCommand, Go, Exit, RollbackJournal, VerifiedRollback,
     replayCompletedRollback, RootState, ControlInv, PersistInv
<1>19. CASE ensureAuthorizationConsumed
  BY <1>0, <1>19 DEF ensureAuthorizationConsumed, RootStep, Go, Exit, RootState,
     ControlInv, PersistInv
<1>20. CASE switchTarget
  BY <1>0, <1>20 DEF switchTarget, RootStep, Go, Exit, RootState, ControlInv, PersistInv
<1>21. CASE writeRollbackSwitched
  BY <1>21, writeRollbackSwitchedEffect DEF PersistInv
<1>22. CASE restartTarget
  BY <1>0, <1>22 DEF restartTarget, Go, Exit, Restart, RootState, ControlInv, PersistInv
<1>23. CASE restoreFrom
  BY <1>0, <1>23 DEF restoreFrom, RootStep, Go, Exit, RootState, ControlInv, PersistInv
<1>24. CASE attestRollback
  BY <1>0, <1>24 DEF attestRollback, Attest, RootState, ControlInv, PersistInv
<1>25. CASE finishRollback
  BY <1>0, <1>25 DEF finishRollback, RootStep, Go, Exit, persistRollbackCounter,
     publishRollbackResult, clearSupersededReady, Cleared, RootState, ControlInv,
     PersistInv
<1>26. CASE publishFailure
  BY <1>0, <1>26 DEF publishFailure, Go, Exit, RootState, ControlInv, PersistInv
<1>27. CASE removeFailedClaim
  BY <1>0, <1>27 DEF removeFailedClaim, RootStep, Go, Exit, RootState, ControlInv,
     PersistInv
<1>28. CASE Kill
  BY <1>0, <1>28 DEF Kill, Exit, RootState, ControlInv, PersistInv
<1>29. CASE Reboot
  BY <1>0, <1>29 DEF Reboot, Exit, RootState, ControlInv, PersistInv
<1>30. CASE CallFails
  BY <1>0, <1>30 DEF CallFails, Go, Exit, RootState, ControlInv, PersistInv
<1>31. CASE Worker \/ Server \/ UNCHANGED vars
  BY <1>31, OutsideStep DEF PersistInv
<1> QED
  BY <1>1, <1>2, <1>3, <1>4, <1>5, <1>6, <1>7, <1>8, <1>9, <1>10, <1>11, <1>12, <1>13,
     <1>14, <1>15, <1>16, <1>17, <1>18, <1>19, <1>20, <1>21, <1>22, <1>23, <1>24, <1>25,
     <1>26, <1>27, <1>28, <1>29, <1>30, <1>31
     DEF Next, Activator, Faults

(* Every step keeps the host where its journal says. *)
LEMMA PlaceNext ==
    /\ TypeOK /\ ControlInv /\ FloorInv /\ CounterInv /\ PlaceInv /\ [Next]_vars
    => PlaceInv'
<1> SUFFICES ASSUME TypeOK, ControlInv, FloorInv, CounterInv, PlaceInv, [Next]_vars
             PROVE  PlaceInv'
  OBVIOUS
<1> USE DEF Open, Done, NoJournals, Opening, Trying, Restoring, Persisting, Returning,
            Recording, Publishing, Activating, NoJournal, Runs, Settled
<1>0. root \in RootState /\ job \in Journal /\ then \in {"idle", "command", "fail"}
  BY DEF TypeOK
<1>a. agent \in [slot : Slots, checked : Slots \cup {NoSlot}]
  BY DEF TypeOK
<1>1. CASE runActivator
  BY <1>0, <1>1, <1>a DEF runActivator, Enter, Go, Exit, RootState, ControlInv, PlaceInv
<1>2. CASE claimRollback
  BY <1>0, <1>2, <1>a DEF claimRollback, Enter, Go, Exit, RootState, ControlInv,
     PlaceInv
<1>3. CASE claimReady
  BY <1>0, <1>3, <1>a DEF claimReady, Go, Exit, RootState, ControlInv, PlaceInv
<1>4. CASE recoverActivation
  BY <1>0, <1>4, <1>a DEF recoverActivation, Go, Exit, RootState, ControlInv, PlaceInv
<1>5. CASE ActivateCommand
  BY <1>0, <1>5, <1>a DEF ActivateCommand, Go, Exit, ActivationJournal,
     VerifiedActivation, replayCompletedActivation, RootState, ControlInv, PlaceInv
<1>6. CASE consumeAssignmentAuthorization
  BY <1>0, <1>6, <1>a DEF consumeAssignmentAuthorization, RootStep, Go, Exit, RootState,
     ControlInv, PlaceInv
<1>7. CASE installSlot
  BY <1>0, <1>7, <1>a DEF installSlot, RootStep, Go, Exit, RootState, ControlInv,
     PlaceInv
<1>8. CASE switchCandidate
  BY <1>0, <1>8, <1>a DEF switchCandidate, RootStep, Go, Exit, RootState, ControlInv,
     PlaceInv
<1>9. CASE writeSwitched
  BY <1>9, writeSwitchedEffect DEF PlaceInv
<1>10. CASE restartCandidate
  BY <1>0, <1>10, <1>a DEF restartCandidate, Go, Exit, Restart, RootState, ControlInv,
     PlaceInv
<1>11. CASE attestActivation
  BY <1>11, attestActivationEffect DEF PlaceInv
<1>12. CASE persistHealthyActivation
  BY <1>0, <1>12, <1>a DEF persistHealthyActivation, RootStep, Go, Exit,
     persistActivation, persistReceipt, RootState, ControlInv, PlaceInv
<1>13. CASE clearStaged
  BY <1>0, <1>13, <1>a DEF clearStaged, Go, Exit, Cleared, RootState, ControlInv,
     PlaceInv
<1>14. CASE removeClaim
  BY <1>0, <1>14, <1>a DEF removeClaim, RootStep, Go, Exit, RootState, ControlInv,
     PlaceInv
<1>15. CASE pruneObsoleteSlots
  BY <1>0, <1>15, <1>a DEF pruneObsoleteSlots, Go, Exit, securelyRemoveSlot, RootState,
     ControlInv, PlaceInv
<1>16. CASE restorePrevious
  BY <1>0, <1>16, <1>a DEF restorePrevious, RootStep, Go, Exit, RootState, ControlInv,
     PlaceInv
<1>17. CASE restartPrevious
  BY <1>0, <1>17, <1>a DEF restartPrevious, Go, Exit, Restart, RootState, ControlInv,
     PlaceInv
<1>18. CASE RollbackCommand
  BY <1>0, <1>18, <1>a DEF RollbackCommand, Go, Exit, RollbackJournal, VerifiedRollback,
     replayCompletedRollback, RootState, ControlInv, PlaceInv
<1>19. CASE ensureAuthorizationConsumed
  BY <1>0, <1>19, <1>a DEF ensureAuthorizationConsumed, RootStep, Go, Exit, RootState,
     ControlInv, PlaceInv
<1>20. CASE switchTarget
  BY <1>0, <1>20, <1>a DEF switchTarget, RootStep, Go, Exit, RootState, ControlInv,
     PlaceInv
<1>21. CASE writeRollbackSwitched
  BY <1>21, writeRollbackSwitchedEffect DEF PlaceInv
<1>22. CASE restartTarget
  BY <1>0, <1>22, <1>a DEF restartTarget, Go, Exit, Restart, RootState, ControlInv,
     PlaceInv
<1>23. CASE restoreFrom
  BY <1>0, <1>23, <1>a DEF restoreFrom, RootStep, Go, Exit, RootState, ControlInv,
     PlaceInv
<1>24. CASE attestRollback
  BY <1>24, attestRollbackEffect DEF PlaceInv
<1>25. CASE finishRollback
  BY <1>0, <1>25, <1>a DEF finishRollback, RootStep, Go, Exit, persistRollbackCounter,
     publishRollbackResult, clearSupersededReady, Cleared, RootState, ControlInv,
     PlaceInv
<1>26. CASE publishFailure
  BY <1>0, <1>26, <1>a DEF publishFailure, Go, Exit, RootState, ControlInv, PlaceInv
<1>27. CASE removeFailedClaim
  BY <1>0, <1>27, <1>a DEF removeFailedClaim, RootStep, Go, Exit, RootState, ControlInv,
     PlaceInv
<1>28. CASE Kill
  BY <1>0, <1>28, <1>a DEF Kill, Exit, RootState, ControlInv, PlaceInv
<1>29. CASE Reboot
  BY <1>0, <1>29, <1>a DEF Reboot, Exit, RootState, ControlInv, PlaceInv
<1>30. CASE CallFails
  BY <1>0, <1>30, <1>a DEF CallFails, Go, Exit, RootState, ControlInv, PlaceInv
<1>31. CASE Worker \/ Server \/ UNCHANGED vars
  BY <1>31, OutsideStep DEF PlaceInv
<1> QED
  BY <1>1, <1>2, <1>3, <1>4, <1>5, <1>6, <1>7, <1>8, <1>9, <1>10, <1>11, <1>12, <1>13,
     <1>14, <1>15, <1>16, <1>17, <1>18, <1>19, <1>20, <1>21, <1>22, <1>23, <1>24, <1>25,
     <1>26, <1>27, <1>28, <1>29, <1>30, <1>31
     DEF Next, Activator, Faults

(* Every step keeps what the host may have to run from. *)
LEMMA SlotNext ==
    /\ TypeOK /\ ControlInv /\ FloorInv /\ ReceiptInv /\ CounterInv
    /\ PlaceInv /\ SlotInv /\ [Next]_vars
    => SlotInv'
<1> SUFFICES ASSUME TypeOK, ControlInv, FloorInv, ReceiptInv, CounterInv, PlaceInv,
                    SlotInv, [Next]_vars
             PROVE  SlotInv'
  OBVIOUS
<1> USE DEF Open, Done, NoJournals, Opening, Trying, Restoring, Persisting, Returning,
            Recording, Publishing, Activating, NoJournal, JournalSlots,
            RecoverySlotsPresent
<1>0. root \in RootState /\ job \in Journal /\ then \in {"idle", "command", "fail"}
  BY DEF TypeOK
<1>1. CASE runActivator
  BY <1>0, <1>1 DEF runActivator, Enter, Go, Exit, RootState, ControlInv, SlotInv
<1>2. CASE claimRollback
  BY <1>0, <1>2 DEF claimRollback, Enter, Go, Exit, RootState, ControlInv, SlotInv
<1>3. CASE claimReady
  BY <1>0, <1>3 DEF claimReady, Go, Exit, RootState, ControlInv, SlotInv
<1>4. CASE recoverActivation
  BY <1>0, <1>4 DEF recoverActivation, Go, Exit, RootState, ControlInv, SlotInv
<1>5. CASE ActivateCommand
  <2>1. pc = "command" /\ NoJournals
    BY <1>5 DEF ActivateCommand, ControlInv
  <2>2. CASE UNCHANGED root /\ pc' \in {"idle", "replayed", "fail"}
    BY <2>2 DEF SlotInv
  <2>3. ASSUME VerifiedActivation(root.activationClaim), pc' = "consume",
               root' = [root EXCEPT !.journal = ActivationJournal(root.activationClaim)]
        PROVE  SlotInv'
    <3> DEFINE j == ActivationJournal(root.activationClaim)
    <3>1. /\ root'.journal = j
          /\ UNCHANGED <<root.current, root.meta, root.previous, root.slots, root.lastActivation,
                         root.rollbackJournal>>
      BY <1>0, <2>3 DEF RootState
    <3>2. j.phase = "prepared"
      BY DEF ActivationJournal
    <3>3. j.from \in {root.current} \cup JournalSlots(root.lastActivation)
      BY <2>3 DEF ActivationJournal, VerifiedActivation, Reactivable, ReceiptInv, Receipt
    <3> HIDE DEF j
    <3> QED
      BY <2>3, <3>1, <3>2, <3>3 DEF SlotInv
  <2> QED
    BY <1>5, <2>2, <2>3 DEF ActivateCommand, Go, Exit
<1>6. CASE consumeAssignmentAuthorization
  BY <1>0, <1>6 DEF consumeAssignmentAuthorization, RootStep, Go, Exit, RootState,
     ControlInv, SlotInv
<1>7. CASE installSlot
  BY <1>0, <1>7 DEF installSlot, RootStep, Go, Exit, RootState, ControlInv, SlotInv
<1>8. CASE switchCandidate
  BY <1>0, <1>8 DEF switchCandidate, RootStep, Go, Exit, RootState, ControlInv, SlotInv
<1>9. CASE writeSwitched
  BY <1>9, writeSwitchedEffect DEF SlotInv
<1>10. CASE restartCandidate
  BY <1>0, <1>10 DEF restartCandidate, Go, Exit, Restart, RootState, ControlInv, SlotInv
<1>11. CASE attestActivation
  BY <1>11, attestActivationEffect DEF SlotInv
<1>12. CASE persistHealthyActivation
  BY <1>0, <1>12 DEF persistHealthyActivation, RootStep, Go, Exit, persistActivation,
     persistReceipt, RootState, ControlInv, SlotInv
<1>13. CASE clearStaged
  BY <1>0, <1>13 DEF clearStaged, Go, Exit, Cleared, RootState, ControlInv, SlotInv
<1>14. CASE removeClaim
  BY <1>0, <1>14 DEF removeClaim, RootStep, Go, Exit, RootState, ControlInv, SlotInv
<1>15. CASE pruneObsoleteSlots
  <2>1. pc \in {"prune", "pruning"} /\ NoJournals /\ root.meta = root.current
    BY <1>15 DEF pruneObsoleteSlots, ControlInv, PlaceInv, Settled
  <2>2. CASE pc' \in {"idle", "command", "fail"} /\ UNCHANGED root
    BY <2>2 DEF SlotInv
  <2>3. CASE /\ pc = "prune" /\ pc' = "pruning" /\ UNCHANGED root
             /\ doomed' = (root.slots \cup root.husks) \ retainedSlotNames
    <3> DEFINE keep == {root.current, root.previous} \cup JournalSlots(root.lastActivation)
    <3>1. keep \subseteq retainedSlotNames
      BY DEF retainedSlotNames
    <3>2. doomed' \cap keep = {}
      <4> HIDE DEF keep
      <4> QED
        BY <2>3, <3>1
    <3>3. UNCHANGED keep
      BY <2>3
    <3> QED
      BY <2>1, <2>3, <3>2, <3>3 DEF SlotInv
  <2>4. ASSUME pc = "pruning", NEW s \in doomed, securelyRemoveSlot(s), pc' = "pruning"
        PROVE  SlotInv'
    <3>1. UNCHANGED <<root.current, root.meta, root.previous, root.lastActivation, root.journal,
                      root.rollbackJournal>>
      BY <1>0, <2>4 DEF securelyRemoveSlot, RootState
    <3>2. root'.slots \in {root.slots, root.slots \ {s}} /\ doomed' \subseteq doomed
      BY <1>0, <2>4 DEF securelyRemoveSlot, RootState
    <3> QED
      BY <2>1, <2>4, <3>1, <3>2 DEF SlotInv
  <2> QED
    BY <1>0, <1>15, <2>2, <2>3, <2>4 DEF pruneObsoleteSlots, Go, Exit
<1>16. CASE restorePrevious
  BY <1>0, <1>16 DEF restorePrevious, RootStep, Go, Exit, RootState, ControlInv, SlotInv
<1>17. CASE restartPrevious
  BY <1>0, <1>17 DEF restartPrevious, Go, Exit, Restart, RootState, ControlInv, SlotInv
<1>18. CASE RollbackCommand
  BY <1>0, <1>18 DEF RollbackCommand, Go, Exit, RollbackJournal, VerifiedRollback,
     replayCompletedRollback, RootState, ControlInv, SlotInv
<1>19. CASE ensureAuthorizationConsumed
  BY <1>0, <1>19 DEF ensureAuthorizationConsumed, RootStep, Go, Exit, RootState,
     ControlInv, SlotInv
<1>20. CASE switchTarget
  BY <1>0, <1>20 DEF switchTarget, RootStep, Go, Exit, RootState, ControlInv, SlotInv
<1>21. CASE writeRollbackSwitched
  BY <1>21, writeRollbackSwitchedEffect DEF SlotInv
<1>22. CASE restartTarget
  BY <1>0, <1>22 DEF restartTarget, Go, Exit, Restart, RootState, ControlInv, SlotInv
<1>23. CASE restoreFrom
  BY <1>0, <1>23 DEF restoreFrom, RootStep, Go, Exit, RootState, ControlInv, SlotInv
<1>24. CASE attestRollback
  BY <1>24, attestRollbackEffect DEF SlotInv
<1>25. CASE finishRollback
  BY <1>0, <1>25 DEF finishRollback, RootStep, Go, Exit, persistRollbackCounter,
     publishRollbackResult, clearSupersededReady, Cleared, RootState, ControlInv,
     SlotInv
<1>26. CASE publishFailure
  BY <1>0, <1>26 DEF publishFailure, Go, Exit, RootState, ControlInv, SlotInv
<1>27. CASE removeFailedClaim
  BY <1>0, <1>27 DEF removeFailedClaim, RootStep, Go, Exit, RootState, ControlInv,
     SlotInv
<1>28. CASE Kill
  BY <1>0, <1>28 DEF Kill, Exit, RootState, ControlInv, SlotInv
<1>29. CASE Reboot
  BY <1>0, <1>29 DEF Reboot, Exit, RootState, ControlInv, SlotInv
<1>30. CASE CallFails
  BY <1>0, <1>30 DEF CallFails, Go, Exit, RootState, ControlInv, SlotInv
<1>31. CASE Worker \/ Server \/ UNCHANGED vars
  BY <1>31, OutsideStep DEF SlotInv
<1> QED
  BY <1>1, <1>2, <1>3, <1>4, <1>5, <1>6, <1>7, <1>8, <1>9, <1>10, <1>11, <1>12, <1>13,
     <1>14, <1>15, <1>16, <1>17, <1>18, <1>19, <1>20, <1>21, <1>22, <1>23, <1>24, <1>25,
     <1>26, <1>27, <1>28, <1>29, <1>30, <1>31
     DEF Next, Activator, Faults

(* Every step keeps where a journal leads. *)
LEMMA TargetNext ==
    /\ TypeOK /\ ControlInv /\ FloorInv /\ ReceiptInv /\ CounterInv
    /\ PersistInv /\ PlaceInv /\ TargetInv /\ [Next]_vars
    => TargetInv'
<1> SUFFICES ASSUME TypeOK, ControlInv, FloorInv, ReceiptInv, CounterInv, PersistInv,
                    PlaceInv, TargetInv, [Next]_vars
             PROVE  TargetInv'
  OBVIOUS
<1> USE DEF Open, Done, NoJournals, Opening, Trying, Restoring, Persisting, Returning,
            Recording, Publishing, Activating, NoJournal, LastIsLatest
<1>0. root \in RootState /\ job \in Journal /\ then \in {"idle", "command", "fail"}
  BY DEF TypeOK
<1>1. CASE runActivator
  BY <1>0, <1>1 DEF runActivator, Enter, Go, Exit, RootState, ControlInv, TargetInv
<1>2. CASE claimRollback
  BY <1>0, <1>2 DEF claimRollback, Enter, Go, Exit, RootState, ControlInv, TargetInv
<1>3. CASE claimReady
  BY <1>0, <1>3 DEF claimReady, Go, Exit, RootState, ControlInv, TargetInv
<1>4. CASE recoverActivation
  BY <1>0, <1>4 DEF recoverActivation, Go, Exit, RootState, ControlInv, TargetInv
<1>5. CASE ActivateCommand
  <2>1. pc = "command" /\ NoJournals /\ root.meta = root.current /\ root.counter = Len(ledger)
    BY <1>5 DEF ActivateCommand, ControlInv, PlaceInv, Settled, CounterInv
  <2>2. CASE UNCHANGED <<root, ledger>> /\ pc' \in {"idle", "replayed", "fail"}
    BY <2>1, <2>2 DEF TargetInv
  <2>3. ASSUME VerifiedActivation(root.activationClaim), pc' = "consume", UNCHANGED ledger,
               root' = [root EXCEPT !.journal = ActivationJournal(root.activationClaim)],
               job' = ActivationJournal(root.activationClaim)
        PROVE  TargetInv'
    <3> DEFINE j == ActivationJournal(root.activationClaim)
    <3>1. root'.journal = j /\ UNCHANGED <<root.meta, root.lastActivation, root.rollbackJournal>>
      BY <1>0, <2>3 DEF RootState
    <3>2. /\ j.from = IF j.to = root.meta THEN root.lastActivation.from ELSE root.meta
          /\ j.to = root.meta => LastIsLatest
      BY <2>1, <2>3 DEF ActivationJournal, VerifiedActivation, Reactivable, ReceiptInv,
         Receipt
    <3> HIDE DEF j
    <3>3. job' = j
      BY <2>3 DEF j
    <3> QED
      BY <2>1, <2>3, <3>1, <3>2, <3>3 DEF TargetInv
  <2> QED
    BY <1>5, <2>2, <2>3 DEF ActivateCommand, Go, Exit
<1>6. CASE consumeAssignmentAuthorization
  BY <1>0, <1>6 DEF consumeAssignmentAuthorization, RootStep, Go, Exit, RootState,
     ControlInv, TargetInv
<1>7. CASE installSlot
  BY <1>0, <1>7 DEF installSlot, RootStep, Go, Exit, RootState, ControlInv, TargetInv
<1>8. CASE switchCandidate
  BY <1>0, <1>8 DEF switchCandidate, RootStep, Go, Exit, RootState, ControlInv,
     TargetInv
<1>9. CASE writeSwitched
  BY <1>9, writeSwitchedEffect DEF TargetInv
<1>10. CASE restartCandidate
  BY <1>0, <1>10 DEF restartCandidate, Go, Exit, Restart, RootState, ControlInv,
     TargetInv
<1>11. CASE attestActivation
  BY <1>11, attestActivationEffect DEF TargetInv
<1>12. CASE persistHealthyActivation
  BY <1>0, <1>12 DEF persistHealthyActivation, RootStep, Go, Exit, persistActivation,
     persistReceipt, RootState, ControlInv, TargetInv
<1>13. CASE clearStaged
  BY <1>0, <1>13 DEF clearStaged, Go, Exit, Cleared, RootState, ControlInv, TargetInv
<1>14. CASE removeClaim
  BY <1>0, <1>14 DEF removeClaim, RootStep, Go, Exit, RootState, ControlInv, TargetInv
<1>15. CASE pruneObsoleteSlots
  BY <1>0, <1>15 DEF pruneObsoleteSlots, Go, Exit, securelyRemoveSlot, RootState,
     ControlInv, TargetInv
<1>16. CASE restorePrevious
  BY <1>0, <1>16 DEF restorePrevious, RootStep, Go, Exit, RootState, ControlInv,
     TargetInv
<1>17. CASE restartPrevious
  BY <1>0, <1>17 DEF restartPrevious, Go, Exit, Restart, RootState, ControlInv,
     TargetInv
<1>18. CASE RollbackCommand
  <2>1. pc = "rollback" /\ ~Open(root.journal) /\ UNCHANGED ledger
    BY <1>18 DEF RollbackCommand, ControlInv
  <2>2. CASE UNCHANGED root /\ pc' \in {"ensure", "rbResult", "fail"}
    BY <2>1, <2>2 DEF TargetInv
  <2>3. ASSUME VerifiedRollback(root.rollbackClaim), ~Open(root.rollbackJournal), pc' = "ensure",
               root' = [root EXCEPT !.rollbackJournal = RollbackJournal(root.rollbackClaim)]
        PROVE  TargetInv'
    <3> DEFINE j == RollbackJournal(root.rollbackClaim)
    <3>1. root'.rollbackJournal = j /\ UNCHANGED <<root.meta, root.lastActivation, root.journal>>
      BY <1>0, <2>3 DEF RootState
    <3>2. root.counter = Len(ledger)
      BY <2>1, <2>3 DEF CounterInv
    <3>3. j.to = root.meta \/ (LastIsLatest /\ j.to = root.lastActivation.from)
      BY <2>1, <2>3, <3>2
         DEF RollbackJournal, RollbackTarget, VerifiedRollback, PersistInv, ReceiptInv, Receipt
    <3> HIDE DEF j
    <3> QED
      BY <2>1, <2>3, <3>1, <3>3 DEF TargetInv
  <2> QED
    BY <1>18, <2>2, <2>3 DEF RollbackCommand, Go, Exit
<1>19. CASE ensureAuthorizationConsumed
  BY <1>0, <1>19 DEF ensureAuthorizationConsumed, RootStep, Go, Exit, RootState,
     ControlInv, TargetInv
<1>20. CASE switchTarget
  BY <1>0, <1>20 DEF switchTarget, RootStep, Go, Exit, RootState, ControlInv, TargetInv
<1>21. CASE writeRollbackSwitched
  BY <1>21, writeRollbackSwitchedEffect DEF TargetInv
<1>22. CASE restartTarget
  BY <1>0, <1>22 DEF restartTarget, Go, Exit, Restart, RootState, ControlInv, TargetInv
<1>23. CASE restoreFrom
  BY <1>0, <1>23 DEF restoreFrom, RootStep, Go, Exit, RootState, ControlInv, TargetInv
<1>24. CASE attestRollback
  BY <1>24, attestRollbackEffect DEF TargetInv
<1>25. CASE finishRollback
  BY <1>0, <1>25 DEF finishRollback, RootStep, Go, Exit, persistRollbackCounter,
     publishRollbackResult, clearSupersededReady, Cleared, RootState, ControlInv,
     TargetInv
<1>26. CASE publishFailure
  BY <1>0, <1>26 DEF publishFailure, Go, Exit, RootState, ControlInv, TargetInv
<1>27. CASE removeFailedClaim
  BY <1>0, <1>27 DEF removeFailedClaim, RootStep, Go, Exit, RootState, ControlInv,
     TargetInv
<1>28. CASE Kill
  BY <1>0, <1>28 DEF Kill, Exit, RootState, ControlInv, TargetInv
<1>29. CASE Reboot
  BY <1>0, <1>29 DEF Reboot, Exit, RootState, ControlInv, TargetInv
<1>30. CASE CallFails
  BY <1>0, <1>30 DEF CallFails, Go, Exit, RootState, ControlInv, TargetInv
<1>31. CASE Worker \/ Server \/ UNCHANGED vars
  BY <1>31, OutsideStep DEF TargetInv
<1> QED
  BY <1>1, <1>2, <1>3, <1>4, <1>5, <1>6, <1>7, <1>8, <1>9, <1>10, <1>11, <1>12, <1>13,
     <1>14, <1>15, <1>16, <1>17, <1>18, <1>19, <1>20, <1>21, <1>22, <1>23, <1>24, <1>25,
     <1>26, <1>27, <1>28, <1>29, <1>30, <1>31
     DEF Next, Activator, Faults

(***************************************************************************)
(* Types                                                                   *)
(***************************************************************************)

(* The activator and the faults leave the server alone and at most reset   *)
(* the worker.                                                             *)
LEMMA InsideStep ==
    ASSUME Activator \/ Faults
    PROVE  UNCHANGED <<issued, offered, live>> /\ worker' \in {worker, Idle}
<1> USE DEF outside, server
<1>1. CASE runActivator
  BY <1>1 DEF runActivator
<1>2. CASE claimRollback
  BY <1>2 DEF claimRollback
<1>3. CASE claimReady
  BY <1>3 DEF claimReady
<1>4. CASE recoverActivation
  BY <1>4 DEF recoverActivation
<1>5. CASE ActivateCommand
  BY <1>5 DEF ActivateCommand
<1>6. CASE consumeAssignmentAuthorization
  BY <1>6 DEF consumeAssignmentAuthorization, RootStep
<1>7. CASE installSlot
  BY <1>7 DEF installSlot, RootStep
<1>8. CASE switchCandidate
  BY <1>8 DEF switchCandidate, RootStep
<1>9. CASE writeSwitched
  BY <1>9 DEF writeSwitched
<1>10. CASE restartCandidate
  BY <1>10 DEF restartCandidate
<1>11. CASE attestActivation
  BY <1>11 DEF attestActivation, Attest
<1>12. CASE persistHealthyActivation
  BY <1>12 DEF persistHealthyActivation, RootStep, persistActivation, persistReceipt
<1>13. CASE clearStaged
  BY <1>13 DEF clearStaged
<1>14. CASE removeClaim
  BY <1>14 DEF removeClaim, RootStep
<1>15. CASE pruneObsoleteSlots
  BY <1>15 DEF pruneObsoleteSlots
<1>16. CASE restorePrevious
  BY <1>16 DEF restorePrevious, RootStep
<1>17. CASE restartPrevious
  BY <1>17 DEF restartPrevious
<1>18. CASE RollbackCommand
  BY <1>18 DEF RollbackCommand
<1>19. CASE ensureAuthorizationConsumed
  BY <1>19 DEF ensureAuthorizationConsumed, RootStep
<1>20. CASE switchTarget
  BY <1>20 DEF switchTarget, RootStep
<1>21. CASE writeRollbackSwitched
  BY <1>21 DEF writeRollbackSwitched
<1>22. CASE restartTarget
  BY <1>22 DEF restartTarget
<1>23. CASE restoreFrom
  BY <1>23 DEF restoreFrom, RootStep
<1>24. CASE attestRollback
  BY <1>24 DEF attestRollback, Attest
<1>25. CASE finishRollback
  BY <1>25 DEF finishRollback, RootStep, persistRollbackCounter, publishRollbackResult,
     clearSupersededReady
<1>26. CASE publishFailure
  BY <1>26 DEF publishFailure
<1>27. CASE removeFailedClaim
  BY <1>27 DEF removeFailedClaim, RootStep
<1>28. CASE Kill
  BY <1>28 DEF Kill
<1>29. CASE Reboot
  BY <1>29 DEF Reboot
<1>30. CASE CallFails
  BY <1>30 DEF CallFails
<1> QED
  BY <1>1, <1>2, <1>3, <1>4, <1>5, <1>6, <1>7, <1>8, <1>9, <1>10, <1>11, <1>12, <1>13,
     <1>14, <1>15, <1>16, <1>17, <1>18, <1>19, <1>20, <1>21, <1>22, <1>23, <1>24, <1>25,
     <1>26, <1>27, <1>28, <1>29, <1>30
     DEF Activator, Faults

(* Every step keeps the commands issued before they are live. *)
LEMMA IssueNext == TypeOK /\ IssueInv /\ [Next]_vars => IssueInv'
<1> SUFFICES ASSUME TypeOK, IssueInv, [Next]_vars PROVE IssueInv'
  OBVIOUS
<1> USE DEF IssueInv
<1>1. CASE Activator \/ Faults \/ UNCHANGED vars
  BY <1>1, InsideStep DEF Idle, vars
<1>2. CASE Server
  <2>1. CASE \E act \in {"activate", "rollback"}, r \in Releases : Sign(act, r)
    <3>1. PICK act \in {"activate", "rollback"}, r \in Releases : Sign(act, r)
      BY <2>1
    <3>2. issued \in Seq([act : {"activate", "rollback"}, rel : Releases])
      BY DEF TypeOK
    <3>3. DOMAIN issued \subseteq DOMAIN issued' /\ offered' \in DOMAIN issued'
      BY <3>1, <3>2 DEF Sign
    <3> QED
      BY <3>1, <3>3 DEF Sign
  <2>2. CASE \E c \in Commands : Expire(c)
    BY <2>2 DEF Expire
  <2> QED
    BY <1>2, <2>1, <2>2 DEF Server
<1>3. CASE Worker
  <2>1. UNCHANGED <<issued, live>> /\ offered \in 0 .. MaxCommand
    BY <1>3 DEF Worker, WorkerReport, WorkerReported, WorkerReportAgain, WorkerCheck,
                RequestCommand, StageStart, StageFinish, server, TypeOK
  <2>2. /\ worker'.op = "stage" => worker'.arg \in Releases
        /\ worker'.op = "publish" => worker'.arg \in 0 .. MaxCommand
    BY <1>3, <2>1 DEF Worker, WorkerReport, WorkerReported, WorkerReportAgain, WorkerCheck,
                RequestCommand, StageStart, StageFinish, Idle
  <2> QED
    BY <2>1, <2>2
<1> QED
  BY <1>1, <1>2, <1>3 DEF Next

(* A live command is for a release. *)
LEMMA IssuedType ==
    ASSUME TypeOK, IssueInv, NEW c \in live
    PROVE  issued[c].rel \in Releases /\ issued[c].rel \in Slots
<1> DEFINE S == [act : {"activate", "rollback"}, rel : Releases]
<1>1. issued \in Seq(S) /\ c \in DOMAIN issued
  BY DEF TypeOK, IssueInv
<1>2. \A e \in S : e.rel \in Releases
  OBVIOUS
<1> HIDE DEF S
<1>3. issued[c].rel \in Releases
  BY <1>1, <1>2
<1> QED
  BY <1>3, ConstantsAssumption DEF Releases, Slots

(* While a command is undecided there are fewer receipts than commands. *)
LEMMA CounterRoom ==
    ASSUME TypeOK, FloorInv, CounterInv,
           Undecided(root.journal) \/ Undecided(root.rollbackJournal),
           root.counter = Len(ledger)
    PROVE  root.counter + 1 \in 0 .. MaxCommand
<1>1. root.commandFloor \in 0 .. MaxCommand /\ MaxCommand \in Nat
  BY ConstantsAssumption DEF TypeOK, RootState
<1>2. root.commandFloor # 0
  BY DEF FloorInv, Undecided, Open
<1>3. \A i \in DOMAIN ledger : i <= ledger[i].seq /\ ledger[i].seq < root.commandFloor
  BY DEF FloorInv
<1>4. Len(ledger) # 0 => Len(ledger) + 1 <= root.commandFloor
  BY <1>1, <1>3, LedgerType
<1> QED
  BY <1>1, <1>2, <1>4, LedgerType

(* Every step keeps the types of the root files and of the journal in memory. *)
LEMMA RootTypeNext ==
    /\ TypeOK /\ ControlInv /\ FloorInv /\ CounterInv /\ IssueInv /\ [Next]_vars
    => (root \in RootState /\ job \in Journal)'
<1> SUFFICES ASSUME TypeOK, ControlInv, FloorInv, CounterInv, IssueInv, [Next]_vars
             PROVE  (root \in RootState /\ job \in Journal)'
  OBVIOUS
<1>0. root \in RootState /\ job \in Journal /\ then \in {"idle", "command", "fail"}
  BY DEF TypeOK
<1>a. NoJournal \in Journal
  BY ConstantsAssumption DEF NoJournal, Journal, Slots
<1> HIDE DEF NoJournal
<1>b. /\ job.from \in Slots /\ job.to \in Slots /\ job.to \in 0 .. MaxRelease
      /\ job.seq \in 0 .. MaxCommand /\ job.counter \in 0 .. MaxCommand
      /\ 0 \in 0 .. MaxCommand
      /\ staging.ready \in 0 .. MaxCommand /\ staging.rollback \in 0 .. MaxCommand
  BY <1>0, ConstantsAssumption DEF Journal, TypeOK, StagingState, Slots
<1>1. CASE runActivator
  BY <1>0, <1>1, <1>a, <1>b DEF runActivator, Enter, Go, Exit, RootState
<1>2. CASE claimRollback
  BY <1>0, <1>2, <1>a, <1>b DEF claimRollback, Enter, Go, Exit, RootState
<1>3. CASE claimReady
  BY <1>0, <1>3, <1>a, <1>b DEF claimReady, Go, Exit, RootState
<1>4. CASE recoverActivation
  BY <1>0, <1>4, <1>a, <1>b DEF recoverActivation, Go, Exit, RootState
<1>5. CASE ActivateCommand
  <2>1. CASE UNCHANGED root /\ job' \in {job, NoJournal, root.lastActivation}
    BY <1>0, <1>a, <2>1 DEF RootState
  <2>2. ASSUME root.activationClaim \in live, VerifiedActivation(root.activationClaim),
               root' = [root EXCEPT !.journal = ActivationJournal(root.activationClaim)],
               job' = ActivationJournal(root.activationClaim)
        PROVE  root' \in RootState /\ job' \in Journal
    <3>1. issued[root.activationClaim].rel \in Slots
      BY <2>2, IssuedType
    <3>2. /\ root.current \in Slots /\ root.lastActivation \in Journal
          /\ root.activationClaim \in 0 .. MaxCommand
      BY <1>0 DEF RootState
    <3>3. ActivationJournal(root.activationClaim) \in Journal
      BY <3>1, <3>2, ConstantsAssumption DEF ActivationJournal, Journal
    <3> QED
      BY <1>0, <2>2, <3>3 DEF RootState
  <2> QED
    BY <1>5, <2>1, <2>2 DEF ActivateCommand, Go, Exit, VerifiedActivation
<1>6. CASE consumeAssignmentAuthorization
  BY <1>0, <1>6, <1>a, <1>b DEF consumeAssignmentAuthorization, RootStep, Go, Exit,
     RootState
<1>7. CASE installSlot
  BY <1>0, <1>7, <1>a, <1>b DEF installSlot, RootStep, Go, Exit, RootState
<1>8. CASE switchCandidate
  BY <1>0, <1>8, <1>a, <1>b DEF switchCandidate, RootStep, Go, Exit, RootState
<1>9. CASE writeSwitched
  <2>1. job' \in Journal
    BY <1>0, <1>9 DEF writeSwitched, Journal
  <2> QED
    BY <1>0, <1>9, <2>1 DEF writeSwitched, RootState
<1>10. CASE restartCandidate
  BY <1>0, <1>10, <1>a, <1>b DEF restartCandidate, Go, Exit, Restart, RootState
<1>11. CASE attestActivation
  <2>1. root.counter + 1 \in 0 .. MaxCommand
    BY <1>11, CounterRoom, attestActivationEffect DEF Undecided
  <2>2. job' \in Journal
    BY <1>0, <1>11, <2>1 DEF attestActivation, Attest, Journal
  <2> QED
    BY <1>0, <1>11, <2>2 DEF attestActivation, RootState
<1>12. CASE persistHealthyActivation
  BY <1>0, <1>12, <1>a, <1>b DEF persistHealthyActivation, RootStep, Go, Exit,
     persistActivation, persistReceipt, RootState
<1>13. CASE clearStaged
  BY <1>0, <1>13, <1>a, <1>b DEF clearStaged, Go, Exit, Cleared, RootState
<1>14. CASE removeClaim
  BY <1>0, <1>14, <1>a, <1>b DEF removeClaim, RootStep, Go, Exit, RootState
<1>15. CASE pruneObsoleteSlots
  <2>1. job' \in Journal
    BY <1>0, <1>a, <1>15 DEF pruneObsoleteSlots, Go, Exit
  <2>2. ASSUME NEW s \in doomed, securelyRemoveSlot(s) PROVE root' \in RootState
    <3>1. /\ root.slots \ {s} \in SUBSET Slots /\ root.husks \ {s} \in SUBSET Slots
          /\ root.husks \cup {s} \in SUBSET Slots
      BY DEF TypeOK, RootState
    <3> QED
      BY <1>0, <2>2, <3>1 DEF securelyRemoveSlot, RootState
  <2> QED
    BY <1>0, <1>15, <2>1, <2>2 DEF pruneObsoleteSlots
<1>16. CASE restorePrevious
  BY <1>0, <1>16, <1>a, <1>b DEF restorePrevious, RootStep, Go, Exit, RootState
<1>17. CASE restartPrevious
  BY <1>0, <1>17, <1>a, <1>b DEF restartPrevious, Go, Exit, Restart, RootState
<1>18. CASE RollbackCommand
  <2>1. CASE UNCHANGED root /\ job' \in {job, root.rollbackJournal, root.lastRollback}
    BY <1>0, <2>1 DEF RootState
  <2>2. ASSUME VerifiedRollback(root.rollbackClaim),
               root' = [root EXCEPT !.rollbackJournal = RollbackJournal(root.rollbackClaim)],
               job' = RollbackJournal(root.rollbackClaim)
        PROVE  root' \in RootState /\ job' \in Journal
    <3>1. /\ root.meta \in Slots /\ root.previous \in Slots \cup {NoSlot}
          /\ root.rollbackClaim \in 0 .. MaxCommand
      BY <1>0 DEF RootState
    <3>2. RollbackTarget(root.rollbackClaim) \in Slots
      BY <2>2, <3>1 DEF RollbackTarget, VerifiedRollback
    <3>3. RollbackJournal(root.rollbackClaim) \in Journal
      BY <3>1, <3>2, ConstantsAssumption DEF RollbackJournal, Journal
    <3> QED
      BY <1>0, <2>2, <3>3 DEF RootState
  <2> QED
    BY <1>18, <2>1, <2>2 DEF RollbackCommand, Go, Exit
<1>19. CASE ensureAuthorizationConsumed
  BY <1>0, <1>19, <1>a, <1>b DEF ensureAuthorizationConsumed, RootStep, Go, Exit,
     RootState
<1>20. CASE switchTarget
  BY <1>0, <1>20, <1>a, <1>b DEF switchTarget, RootStep, Go, Exit, RootState
<1>21. CASE writeRollbackSwitched
  <2>1. job' \in Journal
    BY <1>0, <1>21 DEF writeRollbackSwitched, Journal
  <2> QED
    BY <1>0, <1>21, <2>1 DEF writeRollbackSwitched, RootState
<1>22. CASE restartTarget
  BY <1>0, <1>22, <1>a, <1>b DEF restartTarget, Go, Exit, Restart, RootState
<1>23. CASE restoreFrom
  BY <1>0, <1>23, <1>a, <1>b DEF restoreFrom, RootStep, Go, Exit, RootState
<1>24. CASE attestRollback
  <2>1. root.counter + 1 \in 0 .. MaxCommand
    BY <1>24, CounterRoom, attestRollbackEffect DEF Undecided
  <2>2. job' \in Journal
    BY <1>0, <1>24, <2>1 DEF attestRollback, Attest, Journal
  <2> QED
    BY <1>0, <1>24, <2>2 DEF attestRollback, RootState
<1>25. CASE finishRollback
  BY <1>0, <1>25, <1>a, <1>b DEF finishRollback, RootStep, Go, Exit,
     persistRollbackCounter, publishRollbackResult, clearSupersededReady, Cleared,
     RootState
<1>26. CASE publishFailure
  BY <1>0, <1>26, <1>a, <1>b DEF publishFailure, Go, Exit, RootState
<1>27. CASE removeFailedClaim
  BY <1>0, <1>27, <1>a, <1>b DEF removeFailedClaim, RootStep, Go, Exit, RootState
<1>28. CASE Kill
  BY <1>0, <1>28, <1>a, <1>b DEF Kill, Exit, RootState
<1>29. CASE Reboot
  BY <1>0, <1>29, <1>a, <1>b DEF Reboot, Exit, RootState
<1>30. CASE CallFails
  BY <1>0, <1>30, <1>a, <1>b DEF CallFails, Go, Exit, RootState
<1>31. CASE Worker \/ Server \/ UNCHANGED vars
  BY <1>0, <1>31, OutsideStep
<1> QED
  BY <1>1, <1>2, <1>3, <1>4, <1>5, <1>6, <1>7, <1>8, <1>9, <1>10, <1>11, <1>12, <1>13,
     <1>14, <1>15, <1>16, <1>17, <1>18, <1>19, <1>20, <1>21, <1>22, <1>23, <1>24, <1>25,
     <1>26, <1>27, <1>28, <1>29, <1>30, <1>31
     DEF Next, Activator, Faults

(* Every step keeps the types of the staging files. *)
LEMMA StagingTypeNext == TypeOK /\ IssueInv /\ [Next]_vars => staging' \in StagingState
<1> SUFFICES ASSUME TypeOK, IssueInv, [Next]_vars PROVE staging' \in StagingState
  OBVIOUS
<1>0. /\ staging \in StagingState /\ job \in Journal /\ root.lastActivation \in Journal
      /\ root.activationClaim \in 0 .. MaxCommand /\ root.rollbackClaim \in 0 .. MaxCommand
      /\ 0 \in 0 .. MaxCommand /\ 0 \in 0 .. MaxRelease /\ NoJournal \in Journal
  BY ConstantsAssumption DEF TypeOK, RootState, NoJournal, Journal, Slots
<1> HIDE DEF NoJournal
<1>1. CASE claimRollback \/ claimReady
  BY <1>0, <1>1 DEF claimRollback, claimReady, StagingState
<1>2. CASE ActivateCommand \/ persistHealthyActivation \/ clearStaged
  BY <1>0, <1>2 DEF ActivateCommand, persistHealthyActivation, persistActivation,
     persistReceipt,
     clearStaged, Cleared, RootStep, StagingState
<1>3. CASE finishRollback
  BY <1>0, <1>3 DEF finishRollback, persistRollbackCounter, publishRollbackResult,
     clearSupersededReady, Cleared, RootStep, StagingState
<1>4. CASE publishFailure
  BY <1>0, <1>4 DEF publishFailure, OwnClaim, StagingState
<1>5. CASE WorkerReported
  BY <1>0, <1>5 DEF WorkerReported, StagingState
<1>6. CASE RequestCommand
  BY <1>0, <1>6 DEF RequestCommand, IssueInv, StagingState
<1>7. CASE StageFinish \/ \E r \in Releases : StageStart(r)
  <2>1. worker.op = "stage" => worker.arg \in 0 .. MaxRelease
    BY ConstantsAssumption DEF IssueInv, Releases
  <2> QED
    BY <1>0, <1>7, <2>1 DEF StageFinish, StageStart, StagingState
<1>8. CASE UNCHANGED staging
  BY <1>0, <1>8
<1>9. CASE attestActivation \/ attestRollback \/ writeSwitched \/ writeRollbackSwitched
  BY <1>8, <1>9 DEF attestActivation, attestRollback, Attest, writeSwitched,
     writeRollbackSwitched
<1>10. CASE \/ consumeAssignmentAuthorization \/ installSlot \/ switchCandidate \/ removeClaim
            \/ restorePrevious \/ ensureAuthorizationConsumed \/ switchTarget \/ restoreFrom
            \/ removeFailedClaim
  BY <1>8, <1>10 DEF consumeAssignmentAuthorization, installSlot, switchCandidate,
     removeClaim,
     restorePrevious, ensureAuthorizationConsumed, switchTarget, restoreFrom,
     removeFailedClaim, RootStep
<1>11. CASE \/ runActivator \/ recoverActivation \/ restartCandidate \/ pruneObsoleteSlots
            \/ restartPrevious \/ RollbackCommand \/ restartTarget
  BY <1>8, <1>11 DEF runActivator, recoverActivation, restartCandidate, pruneObsoleteSlots,
     restartPrevious, RollbackCommand, restartTarget
<1>12. CASE \/ WorkerReport \/ WorkerReportAgain \/ WorkerCheck \/ Server \/ Faults
            \/ UNCHANGED vars
  BY <1>8, <1>12 DEF WorkerReport, WorkerReportAgain, WorkerCheck, Server, Sign, Expire,
     Faults, Kill, Reboot, CallFails, vars
<1> QED
  BY <1>1, <1>2, <1>3, <1>4, <1>5, <1>6, <1>7, <1>9, <1>10, <1>11, <1>12
     DEF Next, Activator, Worker

(* What only the activator and the faults change. *)
ActivatorType ==
  /\ pc \in PcLabels /\ then \in {"idle", "command", "fail"} /\ doomed \subseteq Slots
  /\ action \in {"activate", "rollback"} /\ faults \in 0 .. MaxFaults
  /\ agent \in [slot : Slots, checked : Slots \cup {NoSlot}]
  /\ ledger \in Seq([seq : Commands, kind : {"activate", "rollback"}, slot : Slots])

LEMMA FaultsUnchanged == Worker \/ Server \/ UNCHANGED vars => UNCHANGED faults
  BY DEF Worker, WorkerReport, WorkerReported, WorkerReportAgain, WorkerCheck,
     RequestCommand,
     StageStart, StageFinish, Server, Sign, Expire, vars

(* Every step keeps the types of the activator's own state. *)
LEMMA ActivatorTypeNext ==
    TypeOK /\ ControlInv /\ FloorInv /\ CounterInv /\ [Next]_vars => ActivatorType'
<1> SUFFICES ASSUME TypeOK, ControlInv, FloorInv, CounterInv, [Next]_vars
             PROVE  ActivatorType'
  OBVIOUS
<1> USE DEF ActivatorType
<1>0. /\ pc \in PcLabels /\ then \in {"idle", "command", "fail"} /\ doomed \subseteq Slots
      /\ action \in {"activate", "rollback"} /\ faults \in 0 .. MaxFaults
      /\ agent \in [slot : Slots, checked : Slots \cup {NoSlot}]
      /\ ledger \in Seq([seq : Commands, kind : {"activate", "rollback"}, slot : Slots])
  BY DEF TypeOK
<1>1. CASE runActivator
  BY <1>0, <1>1 DEF runActivator, Enter, Go, Exit, outside, PcLabels
<1>2. CASE claimRollback
  BY <1>0, <1>2 DEF claimRollback, Enter, Go, Exit, outside, PcLabels
<1>3. CASE claimReady
  BY <1>0, <1>3 DEF claimReady, Go, Exit, outside, PcLabels
<1>4. CASE recoverActivation
  BY <1>0, <1>4 DEF recoverActivation, Go, Exit, outside, PcLabels
<1>5. CASE ActivateCommand
  BY <1>0, <1>5 DEF ActivateCommand, Go, Exit, ActivationJournal, VerifiedActivation,
     replayCompletedActivation, outside, PcLabels
<1>6. CASE consumeAssignmentAuthorization
  BY <1>0, <1>6 DEF consumeAssignmentAuthorization, RootStep, Go, Exit, outside,
     PcLabels
<1>7. CASE installSlot
  BY <1>0, <1>7 DEF installSlot, RootStep, Go, Exit, outside, PcLabels
<1>8. CASE switchCandidate
  BY <1>0, <1>8 DEF switchCandidate, RootStep, Go, Exit, outside, PcLabels
<1>9. CASE writeSwitched
  BY <1>0, <1>9 DEF writeSwitched, outside, PcLabels
<1>10. CASE restartCandidate
  <2>1. root.current \in Slots
    BY DEF TypeOK, RootState
  <2> QED
    BY <1>0, <1>10, <2>1 DEF restartCandidate, Restart, Go, outside, PcLabels
<1>11. CASE attestActivation
  <2>1. job.seq \in Commands /\ job.to \in Slots
    <3>1. job.seq # 0 /\ job \in Journal
      BY <1>11, attestActivationEffect DEF TypeOK, FloorInv, Open
    <3> QED
      BY <3>1 DEF Journal, Commands
  <2>2. ledger' \in Seq([seq : Commands, kind : {"activate", "rollback"}, slot : Slots])
    <3> DEFINE e == [seq |-> job.seq, kind |-> "activate", slot |-> job.to]
               R == [seq : Commands, kind : {"activate", "rollback"}, slot : Slots]
    <3>1. e \in R
      BY <2>1
    <3>2. ledger \in Seq(R) /\ ledger' = Append(ledger, e)
      BY <1>0, <1>11 DEF attestActivation, Attest
    <3> HIDE DEF e, R
    <3>3. ledger' \in Seq(R)
      BY <3>1, <3>2
    <3> QED
      BY <3>3 DEF R
  <2> QED
    BY <1>0, <1>11, <2>2 DEF attestActivation, Attest, outside, PcLabels
<1>12. CASE persistHealthyActivation
  BY <1>0, <1>12 DEF persistHealthyActivation, RootStep, Go, Exit, persistActivation,
     persistReceipt, outside, PcLabels
<1>13. CASE clearStaged
  BY <1>0, <1>13 DEF clearStaged, Go, Exit, Cleared, outside, PcLabels
<1>14. CASE removeClaim
  BY <1>0, <1>14 DEF removeClaim, RootStep, Go, Exit, outside, PcLabels
<1>15. CASE pruneObsoleteSlots
  <2>1. doomed' \subseteq Slots
    <3>1. doomed \subseteq Slots /\ root.slots \subseteq Slots /\ root.husks \subseteq Slots
      BY DEF TypeOK, RootState
    <3> QED
      BY <1>15, <3>1 DEF pruneObsoleteSlots, securelyRemoveSlot
  <2> QED
    BY <1>0, <1>15, <2>1 DEF pruneObsoleteSlots, Go, Exit, outside, PcLabels
<1>16. CASE restorePrevious
  BY <1>0, <1>16 DEF restorePrevious, RootStep, Go, Exit, outside, PcLabels
<1>17. CASE restartPrevious
  <2>1. root.current \in Slots
    BY DEF TypeOK, RootState
  <2> QED
    BY <1>0, <1>17, <2>1 DEF restartPrevious, Restart, Go, outside, PcLabels
<1>18. CASE RollbackCommand
  BY <1>0, <1>18 DEF RollbackCommand, Go, Exit, RollbackJournal, VerifiedRollback,
     replayCompletedRollback, outside, PcLabels
<1>19. CASE ensureAuthorizationConsumed
  BY <1>0, <1>19 DEF ensureAuthorizationConsumed, RootStep, Go, Exit, outside, PcLabels
<1>20. CASE switchTarget
  BY <1>0, <1>20 DEF switchTarget, RootStep, Go, Exit, outside, PcLabels
<1>21. CASE writeRollbackSwitched
  BY <1>0, <1>21 DEF writeRollbackSwitched, outside, PcLabels
<1>22. CASE restartTarget
  <2>1. root.current \in Slots
    BY DEF TypeOK, RootState
  <2> QED
    BY <1>0, <1>22, <2>1 DEF restartTarget, Restart, Go, outside, PcLabels
<1>23. CASE restoreFrom
  BY <1>0, <1>23 DEF restoreFrom, RootStep, Go, Exit, outside, PcLabels
<1>24. CASE attestRollback
  <2>1. job.seq \in Commands /\ job.to \in Slots
    <3>1. job.seq # 0 /\ job \in Journal
      BY <1>24, attestRollbackEffect DEF TypeOK, FloorInv, Open
    <3> QED
      BY <3>1 DEF Journal, Commands
  <2>2. ledger' \in Seq([seq : Commands, kind : {"activate", "rollback"}, slot : Slots])
    <3> DEFINE e == [seq |-> job.seq, kind |-> "rollback", slot |-> job.to]
               R == [seq : Commands, kind : {"activate", "rollback"}, slot : Slots]
    <3>1. e \in R
      BY <2>1
    <3>2. ledger \in Seq(R) /\ ledger' = Append(ledger, e)
      BY <1>0, <1>24 DEF attestRollback, Attest
    <3> HIDE DEF e, R
    <3>3. ledger' \in Seq(R)
      BY <3>1, <3>2
    <3> QED
      BY <3>3 DEF R
  <2> QED
    BY <1>0, <1>24, <2>2 DEF attestRollback, Attest, outside, PcLabels
<1>25. CASE finishRollback
  BY <1>0, <1>25 DEF finishRollback, RootStep, Go, Exit, persistRollbackCounter,
     publishRollbackResult, clearSupersededReady, Cleared, outside, PcLabels
<1>26. CASE publishFailure
  BY <1>0, <1>26 DEF publishFailure, Go, Exit, outside, PcLabels
<1>27. CASE removeFailedClaim
  BY <1>0, <1>27 DEF removeFailedClaim, RootStep, Go, Exit, outside, PcLabels
<1>28. CASE Kill
  <2>1. faults' \in 0 .. MaxFaults
    BY <1>0, ConstantsAssumption, <1>28 DEF Kill, Fault
  <2>2. root.current \in Slots
    BY DEF TypeOK, RootState
  <2> QED
    BY <1>0, <1>28, <2>1, <2>2 DEF Kill, Exit, PcLabels
<1>29. CASE Reboot
  <2>1. faults' \in 0 .. MaxFaults
    BY <1>0, ConstantsAssumption, <1>29 DEF Reboot, Fault
  <2>2. root.current \in Slots
    BY DEF TypeOK, RootState
  <2> QED
    BY <1>0, <1>29, <2>1, <2>2 DEF Reboot, Exit, PcLabels
<1>30. CASE CallFails
  <2>1. faults' \in 0 .. MaxFaults /\ doomed' = {} /\ UNCHANGED <<agent, ledger>>
    BY <1>0, ConstantsAssumption, <1>30 DEF CallFails, Fault
  <2>2. pc' \in PcLabels /\ then' \in {"idle", "command", "fail"} /\ action' \in {"activate", "rollback"}
    BY <1>0, <1>30 DEF CallFails, Go, Exit, PcLabels
  <2> QED
    BY <1>0, <2>1, <2>2
<1>31. CASE Worker \/ Server \/ UNCHANGED vars
  BY <1>0, <1>31, OutsideStep, FaultsUnchanged
<1> QED
  BY <1>1, <1>2, <1>3, <1>4, <1>5, <1>6, <1>7, <1>8, <1>9, <1>10, <1>11, <1>12, <1>13,
     <1>14, <1>15, <1>16, <1>17, <1>18, <1>19, <1>20, <1>21, <1>22, <1>23, <1>24, <1>25,
     <1>26, <1>27, <1>28, <1>29, <1>30, <1>31
     DEF Next, Activator, Faults

(* Every step keeps the types of the worker and of the server. *)
LEMMA ServerTypeNext ==
    TypeOK /\ [Next]_vars =>
      /\ worker' \in [op : {"idle", "publish", "stage", "failure", "rollbackResult",
                            "receipt"}, arg : 0 .. MaxCommand + MaxRelease]
      /\ issued' \in Seq([act : {"activate", "rollback"}, rel : Releases])
      /\ Len(issued') <= MaxCommand
      /\ offered' \in 0 .. MaxCommand
      /\ live' \subseteq Commands
<1> DEFINE W == [op : {"idle", "publish", "stage", "failure", "rollbackResult", "receipt"},
                 arg : 0 .. MaxCommand + MaxRelease]
           C == [act : {"activate", "rollback"}, rel : Releases]
<1> SUFFICES ASSUME TypeOK, [Next]_vars
             PROVE  /\ worker' \in W /\ issued' \in Seq(C) /\ Len(issued') <= MaxCommand
                    /\ offered' \in 0 .. MaxCommand /\ live' \subseteq Commands
  OBVIOUS
<1>0. /\ worker \in W /\ issued \in Seq(C) /\ Len(issued) <= MaxCommand
      /\ offered \in 0 .. MaxCommand /\ live \subseteq Commands /\ Idle \in W
  BY ConstantsAssumption DEF TypeOK, Idle
<1>1. CASE Activator \/ Faults \/ UNCHANGED vars
  BY <1>0, <1>1, InsideStep DEF vars
<1>2. CASE Server
  <2>1. ASSUME NEW act \in {"activate", "rollback"}, NEW r \in Releases, Sign(act, r)
        PROVE  /\ issued' \in Seq(C) /\ Len(issued') <= MaxCommand /\ worker' = worker
               /\ offered' \in 0 .. MaxCommand /\ live' \subseteq Commands
    <3> DEFINE e == [act |-> act, rel |-> r]
    <3>1. e \in C /\ issued' = Append(issued, e)
      BY <2>1 DEF Sign
    <3> HIDE DEF C, e
    <3>2. issued' \in Seq(C) /\ Len(issued') = Len(issued) + 1 /\ Len(issued) \in Nat
      BY <1>0, <3>1
    <3>3. Len(issued) < MaxCommand /\ offered' = Len(issued) + 1 /\ worker' = worker
          /\ live' = live \cup {offered'}
      BY <2>1 DEF Sign
    <3>4. offered' \in Commands
      BY <3>2, <3>3, ConstantsAssumption DEF Commands
    <3>5. offered' \in 0 .. MaxCommand /\ Len(issued') <= MaxCommand
      BY <3>2, <3>3, ConstantsAssumption
    <3>6. live' \subseteq Commands
      BY <1>0, <3>3, <3>4
    <3> QED
      BY <3>2, <3>3, <3>5, <3>6
  <2>2. ASSUME NEW c \in Commands, Expire(c)
        PROVE  UNCHANGED <<issued, offered, worker>> /\ live' \subseteq live
    BY <2>2 DEF Expire
  <2> HIDE DEF W, C
  <2> QED
    BY <1>0, <1>2, <2>1, <2>2 DEF Server
<1>3. CASE Worker
  <2>1. UNCHANGED <<issued, live>>
    BY <1>3 DEF Worker, WorkerReport, WorkerReported, WorkerReportAgain, WorkerCheck,
       RequestCommand, StageStart, StageFinish, server
  <2>2. offered' \in 0 .. MaxCommand
    BY <1>0, <1>3, ConstantsAssumption DEF Worker, WorkerReport, WorkerReported,
       WorkerReportAgain, WorkerCheck, RequestCommand, StageStart, StageFinish, server
  <2>3. CASE WorkerReport
    <3>1. /\ staging.failure \in 0 .. MaxCommand /\ staging.receipt.seq \in 0 .. MaxCommand
          /\ staging.rollbackResult.seq \in 0 .. MaxCommand
      BY DEF TypeOK, StagingState, Journal
    <3>2. \A a \in 0 .. MaxCommand : a \in 0 .. MaxCommand + MaxRelease
      BY ConstantsAssumption
    <3> QED
      BY <1>0, <2>1, <2>2, <2>3, <3>1, <3>2 DEF WorkerReport
  <2>4. CASE WorkerCheck
    <3>1. offered \in 0 .. MaxCommand + MaxRelease
      BY <1>0, ConstantsAssumption
    <3> QED
      BY <1>0, <2>1, <2>2, <2>4, <3>1 DEF WorkerCheck
  <2>5. ASSUME NEW r \in Releases, StageStart(r) PROVE worker' \in W
    <3>1. r \in 0 .. MaxCommand + MaxRelease
      BY ConstantsAssumption DEF Releases
    <3> QED
      BY <2>5, <3>1 DEF StageStart
  <2>6. CASE WorkerReported \/ WorkerReportAgain \/ RequestCommand \/ StageFinish
    BY <1>0, <2>1, <2>2, <2>6 DEF WorkerReported, WorkerReportAgain, RequestCommand,
       StageFinish
  <2> HIDE DEF W, C
  <2> QED
    BY <1>0, <1>3, <2>1, <2>2, <2>3, <2>4, <2>5, <2>6 DEF Worker
<1> HIDE DEF W, C
<1> QED
  BY <1>1, <1>2, <1>3 DEF Next

(* Every step keeps the types. *)
LEMMA TypeNext == UpdaterInv /\ [Next]_vars => TypeOK'
<1> SUFFICES ASSUME UpdaterInv, [Next]_vars PROVE TypeOK'
  OBVIOUS
<1>1. TypeOK /\ ControlInv /\ FloorInv /\ CounterInv /\ IssueInv
  BY DEF UpdaterInv
<1>2. root' \in RootState /\ job' \in Journal
  BY <1>1, RootTypeNext
<1>3. staging' \in StagingState
  BY <1>1, StagingTypeNext
<1>4. ActivatorType'
  BY <1>1, ActivatorTypeNext
<1>5. /\ worker' \in [op : {"idle", "publish", "stage", "failure", "rollbackResult",
                            "receipt"}, arg : 0 .. MaxCommand + MaxRelease]
      /\ issued' \in Seq([act : {"activate", "rollback"}, rel : Releases])
      /\ Len(issued') <= MaxCommand
      /\ offered' \in 0 .. MaxCommand
      /\ live' \subseteq Commands
  BY <1>1, ServerTypeNext
<1> QED
  BY <1>2, <1>3, <1>4, <1>5, Zenon DEF TypeOK, ActivatorType

(* The enrolled host satisfies the invariant. *)
LEMMA UpdaterInvInit == Init => UpdaterInv
<1> SUFFICES ASSUME Init PROVE UpdaterInv
  OBVIOUS
<1>0. NoJournal \in Journal /\ Bootstrap \in Slots
  BY ConstantsAssumption DEF NoJournal, Journal, Slots, Bootstrap
<1>1. TypeOK
  <2>1. root \in RootState
    BY <1>0, ConstantsAssumption DEF Init, RootState
  <2>2. staging \in StagingState
    BY <1>0, ConstantsAssumption DEF Init, StagingState
  <2>3. ActivatorType
    BY <1>0, ConstantsAssumption DEF Init, ActivatorType, PcLabels
  <2>4. /\ worker \in [op : {"idle", "publish", "stage", "failure", "rollbackResult",
                             "receipt"}, arg : 0 .. MaxCommand + MaxRelease]
        /\ issued \in Seq([act : {"activate", "rollback"}, rel : Releases])
        /\ Len(issued) <= MaxCommand
        /\ offered \in 0 .. MaxCommand
        /\ live \subseteq Commands
    BY ConstantsAssumption DEF Init, Idle
  <2>5. job \in Journal
    BY <1>0 DEF Init
  <2> QED
    BY <2>1, <2>2, <2>3, <2>4, <2>5, Zenon DEF TypeOK, ActivatorType
<1>2. /\ root.current = Bootstrap /\ root.meta = Bootstrap /\ root.previous = NoSlot
      /\ root.slots = {Bootstrap} /\ root.lastActivation = NoJournal
      /\ root.lastRollback = NoJournal /\ root.counter = 0 /\ root.commandFloor = 0
      /\ root.journal = NoJournal /\ root.rollbackJournal = NoJournal
  BY DEF Init
<1>3. /\ staging.receipt = NoJournal /\ staging.rollbackResult = NoJournal
      /\ agent.slot = Bootstrap /\ agent.checked = Bootstrap /\ pc = "idle"
      /\ worker.op = "idle" /\ live = {} /\ ledger = <<>> /\ Len(ledger) = 0
      /\ DOMAIN ledger = {}
  BY DEF Init, Idle
<1>4. NoJournal.phase = "none" /\ NoJournal.counter = 0
  BY DEF NoJournal
<1> HIDE DEF NoJournal
<1>5. ControlInv
  BY <1>2, <1>3, <1>4 DEF ControlInv, NoJournals, Open, Done, Opening, Trying, Restoring,
     Persisting, Returning, Recording, Publishing, Activating
<1>6. FloorInv
  BY <1>2, <1>3, <1>4 DEF FloorInv, Undecided, Open, Opening, Returning
<1>7. ReceiptInv /\ CounterInv
  BY <1>2, <1>3, <1>4 DEF ReceiptInv, Receipt, CounterInv, Done, Publishing
<1>8. PersistInv /\ PlaceInv
  BY <1>2, <1>3, <1>4 DEF PersistInv, PlaceInv, Settled, Runs, NoJournals, Open, Done,
     Persisting, Publishing
<1>9. SlotInv
  BY <1>2, <1>3, <1>4 DEF SlotInv, RecoverySlotsPresent, JournalSlots
<1>10. TargetInv /\ IssueInv
  BY <1>2, <1>3, <1>4 DEF TargetInv, IssueInv, Open, Opening, Trying
<1> QED
  BY <1>1, <1>5, <1>6, <1>7, <1>8, <1>9, <1>10 DEF UpdaterInv

(***************************************************************************)
(* RootActions                                                             *)
(***************************************************************************)

(* The slot in effect and the recovery slot, the receipts and the accepted *)
(* command change only with the files that say what they are.              *)
LEMMA Stutters ==
    ASSUME UNCHANGED <<root.commandFloor, root.journal, root.rollbackJournal, root.meta,
                       root.lastActivation, ledger>>
    PROVE  UNCHANGED Actions!absVars
  BY DEF Actions!absVars, Undecided, SlotInEffect, RecoverySlot

(* The latest receipt is the one of the last activation. *)
LEMMA LatestStep ==
    ASSUME TypeOK, ReceiptInv, LastIsLatest, ~Done(root.journal), ~Done(root.rollbackJournal)
    PROVE  Actions!LatestActivated /\ RecoverySlot = root.lastActivation.from
<1>1. Receipt(root.lastActivation, "activate") /\ Done(root.lastActivation)
  BY DEF ReceiptInv, LastIsLatest
<1>2. /\ Len(ledger) \in DOMAIN ledger
      /\ ledger[Len(ledger)] = [seq |-> root.lastActivation.seq, kind |-> "activate",
                                slot |-> root.meta]
  BY <1>1 DEF Receipt, LastIsLatest
<1>3. ledger # <<>>
  BY <1>2
<1>4. SlotInEffect = root.meta
  BY DEF SlotInEffect, Done
<1>5. RecoverySlot = root.lastActivation.from
  BY <1>1 DEF RecoverySlot, Done
<1> QED
  BY <1>2, <1>3, <1>4, <1>5 DEF Actions!LatestActivated

(* Dropping an undecided activation journal gives its command up. *)
LEMMA UndecidedDropped ==
    ASSUME TypeOK, UNCHANGED ledger, ~Open(root.rollbackJournal), root.journal.phase # "done",
           root' = [root EXCEPT !.journal = NoJournal]
    PROVE  [Actions!Next]_(Actions!absVars)
<1>1. /\ root'.journal = NoJournal
      /\ UNCHANGED <<root.commandFloor, root.rollbackJournal, root.meta, root.lastActivation>>
  BY DEF TypeOK, RootState
<1>2. UNCHANGED <<SlotInEffect, RecoverySlot>>
  BY <1>1 DEF SlotInEffect, RecoverySlot, Open, NoJournal
<1>3. /\ ~Undecided(root.rollbackJournal) /\ ~Undecided(root.journal)'
      /\ ~Undecided(root.rollbackJournal)'
  BY <1>1 DEF Undecided, Open, NoJournal
<1>4. CASE Undecided(root.journal)
  <2>1. Actions!Abort
    BY <1>1, <1>2, <1>3, <1>4 DEF Actions!Abort
  <2> QED
    BY <2>1 DEF Actions!Next
<1>5. CASE ~Undecided(root.journal)
  BY <1>1, <1>2, <1>3, <1>5 DEF Actions!absVars
<1> QED
  BY <1>4, <1>5

(* Dropping an undecided rollback journal gives its command up. *)
LEMMA RollbackDropped ==
    ASSUME TypeOK, UNCHANGED ledger, ~Open(root.journal), root.rollbackJournal.phase # "done",
           root' = [root EXCEPT !.rollbackJournal = NoJournal]
    PROVE  [Actions!Next]_(Actions!absVars)
<1>1. /\ root'.rollbackJournal = NoJournal
      /\ UNCHANGED <<root.commandFloor, root.journal, root.meta, root.lastActivation>>
  BY DEF TypeOK, RootState
<1>2. UNCHANGED <<SlotInEffect, RecoverySlot>>
  BY <1>1 DEF SlotInEffect, RecoverySlot, Open, NoJournal
<1>3. /\ ~Undecided(root.journal) /\ ~Undecided(root.rollbackJournal)'
      /\ ~Undecided(root.journal)'
  BY <1>1 DEF Undecided, Open, NoJournal
<1>4. CASE Undecided(root.rollbackJournal)
  <2>1. Actions!Abort
    BY <1>1, <1>2, <1>3, <1>4 DEF Actions!Abort
  <2> QED
    BY <2>1 DEF Actions!Next
<1>5. CASE ~Undecided(root.rollbackJournal)
  BY <1>1, <1>2, <1>3, <1>5 DEF Actions!absVars
<1> QED
  BY <1>4, <1>5

(* Every step of the host is a step of RootActions or leaves it as it is. *)
LEMMA RefinementStep ==
    UpdaterInv /\ [Next]_vars => [Actions!Next]_(Actions!absVars)
<1> SUFFICES ASSUME UpdaterInv, [Next]_vars PROVE [Actions!Next]_(Actions!absVars)
  OBVIOUS
<1> USE DEF UpdaterInv
<1>0. root \in RootState /\ job \in Journal
  BY DEF TypeOK
<1>1. CASE runActivator
  <2>1. UNCHANGED <<root.commandFloor, root.journal, root.rollbackJournal, root.meta,
                    root.lastActivation, ledger>>
    BY <1>0, <1>1 DEF runActivator, RootState
  <2> QED
    BY <2>1, Stutters
<1>2. CASE claimRollback
  <2>1. UNCHANGED <<root.commandFloor, root.journal, root.rollbackJournal, root.meta,
                    root.lastActivation, ledger>>
    BY <1>0, <1>2 DEF claimRollback, RootState
  <2> QED
    BY <2>1, Stutters
<1>3. CASE claimReady
  <2>1. UNCHANGED <<root.commandFloor, root.journal, root.rollbackJournal, root.meta,
                    root.lastActivation, ledger>>
    BY <1>0, <1>3 DEF claimReady, RootState
  <2> QED
    BY <2>1, Stutters
<1>4. CASE recoverActivation
  <2>1. UNCHANGED <<root.commandFloor, root.journal, root.rollbackJournal, root.meta,
                    root.lastActivation, ledger>>
    BY <1>0, <1>4 DEF recoverActivation, RootState
  <2> QED
    BY <2>1, Stutters
<1>5. CASE ActivateCommand
  <2>1. NoJournals /\ UNCHANGED ledger
    BY <1>5 DEF ActivateCommand, ControlInv
  <2>2. CASE UNCHANGED root
    BY <2>1, <2>2, Stutters
  <2>3. ASSUME NEW j, j.phase = "prepared", j.seq > root.commandFloor,
               root' = [root EXCEPT !.journal = j]
        PROVE  UNCHANGED Actions!absVars
    <3>1. root'.journal = j /\ UNCHANGED <<root.commandFloor, root.rollbackJournal, root.meta,
                                           root.lastActivation>>
      BY <1>0, <2>3 DEF RootState
    <3>2. root.commandFloor \in Nat
      BY <1>0 DEF RootState
    <3>3. ~Undecided(root.journal) /\ ~Undecided(root.rollbackJournal)
          /\ ~Undecided(root.journal)' /\ ~Undecided(root.rollbackJournal)'
      BY <2>1, <2>3, <3>1, <3>2 DEF NoJournals, Undecided
    <3>4. UNCHANGED <<SlotInEffect, RecoverySlot>>
      BY <2>1, <2>3, <3>1 DEF NoJournals, SlotInEffect, RecoverySlot
    <3> QED
      BY <2>1, <3>1, <3>3, <3>4 DEF Actions!absVars
  <2> QED
    BY <1>5, <2>2, <2>3 DEF ActivateCommand, ActivationJournal
<1>6. CASE consumeAssignmentAuthorization
  <2>1. /\ job = root.journal /\ job.phase = "prepared" /\ job.seq > root.commandFloor
        /\ ~Open(root.rollbackJournal) /\ UNCHANGED ledger
    BY <1>6 DEF consumeAssignmentAuthorization, RootStep, ControlInv, FloorInv, Activating,
       Opening
  <2>2. job.seq \in Nat /\ root.commandFloor \in Nat
    BY <1>0 DEF Journal, RootState
  <2>3. ~Undecided(root.journal) /\ ~Undecided(root.rollbackJournal)
    BY <2>1, <2>2 DEF Undecided, Open
  <2>4. CASE root' = [root EXCEPT !.commandFloor = job.seq]
    <3>1. /\ root'.commandFloor = job.seq
          /\ UNCHANGED <<root.journal, root.rollbackJournal, root.meta, root.lastActivation>>
      BY <1>0, <2>4 DEF RootState
    <3>2. Undecided(root.journal)' /\ UNCHANGED <<SlotInEffect, RecoverySlot>>
      BY <2>1, <3>1 DEF Undecided, SlotInEffect, RecoverySlot
    <3>3. Actions!Accept
      BY <2>1, <2>2, <2>3, <3>1, <3>2 DEF Actions!Accept
    <3> QED
      BY <3>3 DEF Actions!Next
  <2>5. CASE root' = [root EXCEPT !.journal = NoJournal]
    BY <2>1, <2>3, <2>5, UndecidedDropped
  <2> QED
    BY <1>6, <2>4, <2>5 DEF consumeAssignmentAuthorization, RootStep
<1>7. CASE installSlot
  <2>1. UNCHANGED <<root.commandFloor, root.journal, root.rollbackJournal, root.meta,
                    root.lastActivation, ledger>>
    BY <1>0, <1>7 DEF installSlot, RootStep, RootState
  <2> QED
    BY <2>1, Stutters
<1>8. CASE switchCandidate
  <2>1. UNCHANGED <<root.commandFloor, root.journal, root.rollbackJournal, root.meta,
                    root.lastActivation, ledger>>
    BY <1>0, <1>8 DEF switchCandidate, RootStep, RootState
  <2> QED
    BY <2>1, Stutters
<1>9. CASE writeSwitched
  <2>1. job.seq = root.commandFloor
    BY <1>9, writeSwitchedEffect DEF FloorInv, Opening, Returning
  <2>2. Undecided(root.journal) /\ Undecided(root.journal)'
    BY <1>9, <2>1, writeSwitchedEffect DEF Undecided
  <2>3. UNCHANGED <<SlotInEffect, RecoverySlot, root.commandFloor, ledger>>
    BY <1>9, writeSwitchedEffect DEF SlotInEffect, RecoverySlot
  <2> QED
    BY <2>2, <2>3 DEF Actions!absVars
<1>10. CASE restartCandidate
  <2>1. UNCHANGED <<root.commandFloor, root.journal, root.rollbackJournal, root.meta,
                    root.lastActivation, ledger>>
    BY <1>0, <1>10 DEF restartCandidate, RootState
  <2> QED
    BY <2>1, Stutters
<1>11. CASE attestActivation
  <2>1. /\ Undecided(root.journal)
        /\ ~Undecided(root.journal)' /\ ~Undecided(root.rollbackJournal)'
    BY <1>11, attestActivationEffect DEF Undecided, Open
  <2>2. ~Done(root.journal) /\ ~Done(root.rollbackJournal)
    BY <1>11, attestActivationEffect DEF Open, Done
  <2>3. SlotInEffect = root.meta /\ SlotInEffect' = job.to /\ RecoverySlot' = job.from
    BY <1>11, <2>2, attestActivationEffect DEF SlotInEffect, RecoverySlot, Done
  <2>4. /\ job.from = IF job.to = root.meta THEN root.lastActivation.from ELSE root.meta
        /\ job.to = root.meta => LastIsLatest
    BY <1>11, attestActivationEffect DEF TargetInv, Trying
  <2>5. job.to = SlotInEffect => Actions!LatestActivated
    BY <2>2, <2>3, <2>4, LatestStep
  <2>6. RecoverySlot' = IF job.to = SlotInEffect THEN RecoverySlot ELSE SlotInEffect
    BY <2>2, <2>3, <2>4, LatestStep
  <2>7. ledger' = Append(ledger, [seq |-> root.commandFloor, kind |-> "activate", slot |-> job.to])
    BY <1>11, attestActivationEffect DEF attestActivation, Attest
  <2>8. Actions!Issue("activate", job.to)
    BY <1>11, <2>1, <2>3, <2>7, attestActivationEffect DEF Actions!Issue
  <2>9. Actions!CommitActivation(job.to) /\ job.to \in Slots
    BY <1>0, <2>5, <2>6, <2>8 DEF Actions!CommitActivation, Journal
  <2> QED
    BY <2>9 DEF Actions!Next
<1>12. CASE persistHealthyActivation
  <2>1. /\ job = root.journal /\ Done(job) /\ ~Open(root.rollbackJournal) /\ UNCHANGED ledger
    BY <1>12 DEF persistHealthyActivation, persistActivation, persistReceipt, RootStep,
       ControlInv,
             Activating, Persisting
  <2>2. root'.commandFloor = root.commandFloor /\ root'.rollbackJournal = root.rollbackJournal
    BY <1>0, <1>12 DEF persistHealthyActivation, persistActivation, persistReceipt,
       RootStep, RootState
  <2>3. \/ root'.journal = job
        \/ /\ root'.journal = NoJournal /\ root.meta = job.to /\ root.lastActivation = job
           /\ UNCHANGED <<root.meta, root.lastActivation>>
    BY <1>0, <1>12, <2>1 DEF persistHealthyActivation, persistActivation, persistReceipt,
       RootStep,
       RootState, PlaceInv, PersistInv, Persisting
  <2>4. /\ ~Undecided(root.journal) /\ ~Undecided(root.rollbackJournal)
        /\ ~Undecided(root.journal)' /\ ~Undecided(root.rollbackJournal)'
    BY <2>1, <2>2, <2>3 DEF Undecided, Open, Done, NoJournal
  <2>5. UNCHANGED <<SlotInEffect, RecoverySlot>>
    BY <2>1, <2>2, <2>3 DEF SlotInEffect, RecoverySlot, Open, Done, NoJournal
  <2> QED
    BY <2>1, <2>2, <2>4, <2>5 DEF Actions!absVars
<1>13. CASE clearStaged
  <2>1. UNCHANGED <<root.commandFloor, root.journal, root.rollbackJournal, root.meta,
                    root.lastActivation, ledger>>
    BY <1>0, <1>13 DEF clearStaged, RootState
  <2> QED
    BY <2>1, Stutters
<1>14. CASE removeClaim
  <2>1. UNCHANGED <<root.commandFloor, root.journal, root.rollbackJournal, root.meta,
                    root.lastActivation, ledger>>
    BY <1>0, <1>14 DEF removeClaim, RootStep, RootState
  <2> QED
    BY <2>1, Stutters
<1>15. CASE pruneObsoleteSlots
  <2>1. UNCHANGED <<root.commandFloor, root.journal, root.rollbackJournal, root.meta,
                    root.lastActivation, ledger>>
    BY <1>0, <1>15 DEF pruneObsoleteSlots, securelyRemoveSlot, RootState
  <2> QED
    BY <2>1, Stutters
<1>16. CASE restorePrevious
  <2>1. /\ job = root.journal /\ Open(job) /\ ~Done(job) /\ ~Open(root.rollbackJournal)
        /\ UNCHANGED ledger
    BY <1>16 DEF restorePrevious, RootStep, ControlInv, Activating, Restoring
  <2>2. CASE pc = "restore"
    <3>1. UNCHANGED <<root.commandFloor, root.journal, root.rollbackJournal, root.meta,
                      root.lastActivation>>
      BY <1>0, <1>16, <2>2 DEF restorePrevious, RootStep, RootState
    <3> QED
      BY <2>1, <3>1, Stutters
  <2>3. CASE pc = "restoreMeta"
    <3>1. /\ root'.meta = job.from
          /\ UNCHANGED <<root.commandFloor, root.journal, root.rollbackJournal,
                         root.lastActivation>>
      BY <1>0, <1>16, <2>3 DEF restorePrevious, RootStep, RootState
    <3>2. CASE job.from = root.meta
      BY <2>1, <3>1, <3>2, Stutters
    <3>3. CASE LastIsLatest /\ job.from = root.lastActivation.from
      <4>1. Actions!LatestActivated /\ RecoverySlot = job.from
        BY <2>1, <3>3, LatestStep DEF Open, Done
      <4>2. SlotInEffect' = job.from /\ RecoverySlot' = RecoverySlot
        BY <2>1, <3>1 DEF SlotInEffect, RecoverySlot, Open, Done
      <4>3. /\ Undecided(root.journal)' = Undecided(root.journal)
            /\ Undecided(root.rollbackJournal)' = Undecided(root.rollbackJournal)
        BY <3>1 DEF Undecided
      <4>4. Actions!FallBack
        BY <2>1, <3>1, <4>1, <4>2, <4>3 DEF Actions!FallBack
      <4> QED
        BY <4>4 DEF Actions!Next
    <3> QED
      BY <2>1, <3>2, <3>3 DEF TargetInv
  <2>4. CASE pc = "dropJournal"
    <3>1. root' = [root EXCEPT !.journal = NoJournal]
      BY <1>16, <2>4 DEF restorePrevious, RootStep
    <3> QED
      BY <2>1, <3>1, UndecidedDropped DEF Done
  <2> QED
    BY <1>16, <2>2, <2>3, <2>4 DEF restorePrevious, RootStep
<1>17. CASE restartPrevious
  <2>1. UNCHANGED <<root.commandFloor, root.journal, root.rollbackJournal, root.meta,
                    root.lastActivation, ledger>>
    BY <1>0, <1>17 DEF restartPrevious, RootState
  <2> QED
    BY <2>1, Stutters
<1>18. CASE RollbackCommand
  <2>1. ~Open(root.journal) /\ UNCHANGED ledger
    BY <1>18 DEF RollbackCommand, ControlInv
  <2>2. CASE UNCHANGED root
    BY <2>1, <2>2, Stutters
  <2>3. ASSUME NEW j, j.phase = "prepared", j.seq > root.commandFloor, ~Open(root.rollbackJournal),
               root' = [root EXCEPT !.rollbackJournal = j]
        PROVE  UNCHANGED Actions!absVars
    <3>1. root'.rollbackJournal = j /\ UNCHANGED <<root.commandFloor, root.journal, root.meta,
                                                   root.lastActivation>>
      BY <1>0, <2>3 DEF RootState
    <3>2. root.commandFloor \in Nat
      BY <1>0 DEF RootState
    <3>3. ~Undecided(root.journal) /\ ~Undecided(root.rollbackJournal)
          /\ ~Undecided(root.journal)' /\ ~Undecided(root.rollbackJournal)'
      BY <2>1, <2>3, <3>1, <3>2 DEF Open, Undecided
    <3>4. UNCHANGED <<SlotInEffect, RecoverySlot>>
      BY <2>1, <2>3, <3>1 DEF Open, SlotInEffect, RecoverySlot
    <3> QED
      BY <2>1, <3>1, <3>3, <3>4 DEF Actions!absVars
  <2> QED
    BY <1>18, <2>2, <2>3 DEF RollbackCommand, RollbackJournal, Open
<1>19. CASE ensureAuthorizationConsumed
  <2>1. /\ job = root.rollbackJournal /\ Open(job) /\ job.seq >= root.commandFloor
        /\ job.phase # "prepared" => job.seq = root.commandFloor
        /\ ~Open(root.journal) /\ UNCHANGED ledger
    BY <1>19 DEF ensureAuthorizationConsumed, RootStep, ControlInv, FloorInv
  <2>2. job.seq \in Nat /\ root.commandFloor \in Nat
        /\ job.phase \in {"none", "prepared", "switched", "done"}
    BY <1>0 DEF Journal, RootState
  <2>3. CASE UNCHANGED root
    BY <2>1, <2>3, Stutters
  <2>4. CASE root.commandFloor < job.seq /\ root' = [root EXCEPT !.commandFloor = job.seq]
    <3>1. /\ root'.commandFloor = job.seq
          /\ UNCHANGED <<root.journal, root.rollbackJournal, root.meta, root.lastActivation>>
      BY <1>0, <2>4 DEF RootState
    <3>2. ~Undecided(root.journal) /\ ~Undecided(root.rollbackJournal)
      BY <2>1, <2>2, <2>4 DEF Undecided, Open
    <3>3. Undecided(root.rollbackJournal)' /\ UNCHANGED <<SlotInEffect, RecoverySlot>>
      BY <2>1, <2>2, <2>4, <3>1 DEF Undecided, SlotInEffect, RecoverySlot
    <3>4. Actions!Accept
      BY <2>1, <2>2, <2>4, <3>1, <3>2, <3>3 DEF Actions!Accept
    <3> QED
      BY <3>4 DEF Actions!Next
  <2> QED
    BY <1>19, <2>3, <2>4 DEF ensureAuthorizationConsumed, RootStep
<1>20. CASE switchTarget
  <2>1. UNCHANGED <<root.commandFloor, root.journal, root.rollbackJournal, root.meta,
                    root.lastActivation, ledger>>
    BY <1>0, <1>20 DEF switchTarget, RootStep, RootState
  <2> QED
    BY <2>1, Stutters
<1>21. CASE writeRollbackSwitched
  <2>1. job.seq = root.commandFloor
    BY <1>21, writeRollbackSwitchedEffect DEF FloorInv, Opening, Returning
  <2>2. Undecided(root.rollbackJournal) /\ Undecided(root.rollbackJournal)'
    BY <1>21, <2>1, writeRollbackSwitchedEffect DEF Undecided
  <2>3. UNCHANGED <<SlotInEffect, RecoverySlot, root.commandFloor, ledger>>
    BY <1>21, writeRollbackSwitchedEffect DEF SlotInEffect, RecoverySlot
  <2> QED
    BY <2>2, <2>3 DEF Actions!absVars
<1>22. CASE restartTarget
  <2>1. UNCHANGED <<root.commandFloor, root.journal, root.rollbackJournal, root.meta,
                    root.lastActivation, ledger>>
    BY <1>0, <1>22 DEF restartTarget, RootState
  <2> QED
    BY <2>1, Stutters
<1>23. CASE restoreFrom
  <2>1. /\ job = root.rollbackJournal /\ ~Done(job) /\ ~Open(root.journal) /\ UNCHANGED ledger
    BY <1>23 DEF restoreFrom, RootStep, ControlInv, Returning
  <2>2. CASE pc = "rbBack"
    <3>1. UNCHANGED <<root.commandFloor, root.journal, root.rollbackJournal, root.meta,
                      root.lastActivation>>
      BY <1>0, <1>23, <2>2 DEF restoreFrom, RootStep, RootState
    <3> QED
      BY <2>1, <3>1, Stutters
  <2>3. CASE pc = "rbDrop"
    <3>1. root' = [root EXCEPT !.rollbackJournal = NoJournal]
      BY <1>23, <2>3 DEF restoreFrom, RootStep
    <3> QED
      BY <2>1, <3>1, RollbackDropped DEF Done
  <2> QED
    BY <1>23, <2>2, <2>3 DEF restoreFrom, RootStep
<1>24. CASE attestRollback
  <2>1. /\ Undecided(root.rollbackJournal)
        /\ ~Undecided(root.journal)' /\ ~Undecided(root.rollbackJournal)'
    BY <1>24, attestRollbackEffect DEF Undecided, Open
  <2>2. ~Done(root.journal) /\ ~Done(root.rollbackJournal)
    BY <1>24, attestRollbackEffect DEF Open, Done
  <2>3. SlotInEffect = root.meta /\ SlotInEffect' = job.to /\ RecoverySlot' = RecoverySlot
    BY <1>24, <2>2, attestRollbackEffect DEF SlotInEffect, RecoverySlot, Done, Open
  <2>4. job.to = root.meta \/ (LastIsLatest /\ job.to = root.lastActivation.from)
    BY <1>24, <2>2, attestRollbackEffect DEF TargetInv, Open
  <2>5. job.to = SlotInEffect \/ (Actions!LatestActivated /\ job.to = RecoverySlot)
    BY <2>2, <2>3, <2>4, LatestStep
  <2>6. ledger' = Append(ledger, [seq |-> root.commandFloor, kind |-> "rollback", slot |-> job.to])
    BY <1>24, attestRollbackEffect DEF attestRollback, Attest
  <2>7. Actions!Issue("rollback", job.to)
    BY <1>24, <2>1, <2>3, <2>6, attestRollbackEffect DEF Actions!Issue
  <2>8. Actions!CommitRollback(job.to) /\ job.to \in Slots
    BY <1>0, <2>3, <2>5, <2>7 DEF Actions!CommitRollback, Journal
  <2> QED
    BY <2>8 DEF Actions!Next
<1>25. CASE finishRollback
  <2>1. UNCHANGED ledger /\ Done(job) /\ ~Open(root.journal)
    BY <1>25 DEF finishRollback, persistRollbackCounter, RootStep, publishRollbackResult,
             clearSupersededReady, ControlInv, Recording, Publishing
  <2>2. UNCHANGED <<root.commandFloor, root.journal, root.lastActivation>>
    BY <1>0, <1>25 DEF finishRollback, persistRollbackCounter, RootStep, RootState,
       publishRollbackResult, clearSupersededReady
  <2>3. \/ UNCHANGED <<root.meta, root.rollbackJournal>>
        \/ pc = "rbMeta" /\ UNCHANGED root.rollbackJournal
        \/ pc = "rbUnjournal" /\ root'.rollbackJournal = NoJournal /\ UNCHANGED root.meta
    BY <1>0, <1>25 DEF finishRollback, persistRollbackCounter, RootStep, RootState,
       publishRollbackResult, clearSupersededReady
  <2>4. CASE UNCHANGED <<root.meta, root.rollbackJournal>>
    BY <2>1, <2>2, <2>4, Stutters
  <2>5. ASSUME pc \in {"rbMeta", "rbUnjournal"},
               \/ UNCHANGED root.rollbackJournal
               \/ root'.rollbackJournal = NoJournal /\ root.meta = job.to /\ UNCHANGED root.meta
        PROVE  UNCHANGED Actions!absVars
    <3>1. job = root.rollbackJournal
      BY <2>5 DEF ControlInv, Recording
    <3>2. /\ ~Undecided(root.journal) /\ ~Undecided(root.rollbackJournal)
          /\ ~Undecided(root.journal)' /\ ~Undecided(root.rollbackJournal)'
      BY <2>1, <2>2, <2>5, <3>1 DEF Undecided, Open, Done, NoJournal
    <3>3. UNCHANGED <<SlotInEffect, RecoverySlot>>
      BY <2>1, <2>2, <2>5, <3>1 DEF SlotInEffect, RecoverySlot, Open, Done, NoJournal
    <3> QED
      BY <2>1, <2>2, <3>2, <3>3 DEF Actions!absVars
  <2>6. pc = "rbUnjournal" => root.meta = job.to
    BY DEF PlaceInv
  <2> QED
    BY <2>3, <2>4, <2>5, <2>6
<1>26. CASE publishFailure
  <2>1. UNCHANGED <<root.commandFloor, root.journal, root.rollbackJournal, root.meta,
                    root.lastActivation, ledger>>
    BY <1>0, <1>26 DEF publishFailure, RootState
  <2> QED
    BY <2>1, Stutters
<1>27. CASE removeFailedClaim
  <2>1. UNCHANGED <<root.commandFloor, root.journal, root.rollbackJournal, root.meta,
                    root.lastActivation, ledger>>
    BY <1>0, <1>27 DEF removeFailedClaim, RootStep, RootState
  <2> QED
    BY <2>1, Stutters
<1>28. CASE Kill
  <2>1. UNCHANGED <<root.commandFloor, root.journal, root.rollbackJournal, root.meta,
                    root.lastActivation, ledger>>
    BY <1>0, <1>28 DEF Kill, RootState
  <2> QED
    BY <2>1, Stutters
<1>29. CASE Reboot
  <2>1. UNCHANGED <<root.commandFloor, root.journal, root.rollbackJournal, root.meta,
                    root.lastActivation, ledger>>
    BY <1>0, <1>29 DEF Reboot, RootState
  <2> QED
    BY <2>1, Stutters
<1>30. CASE CallFails
  <2>1. UNCHANGED ledger
    BY <1>30 DEF CallFails
  <2>2. CASE pc = "consume" /\ root' = [root EXCEPT !.journal = NoJournal]
    <3>1. job = root.journal /\ job.phase = "prepared" /\ ~Open(root.rollbackJournal)
      BY <2>2 DEF ControlInv, Activating, Opening
    <3> QED
      BY <2>1, <2>2, <3>1, UndecidedDropped
  <2>3. CASE root' = [root EXCEPT !.current = job.from] \/ UNCHANGED root
    <3>1. UNCHANGED <<root.commandFloor, root.journal, root.rollbackJournal, root.meta,
                      root.lastActivation>>
      BY <1>0, <2>3 DEF RootState
    <3> QED
      BY <2>1, <3>1, Stutters
  <2> QED
    BY <1>30, <2>2, <2>3 DEF CallFails
<1>31. CASE Worker \/ Server \/ UNCHANGED vars
  BY <1>31, OutsideStep, Stutters
<1> QED
  BY <1>1, <1>2, <1>3, <1>4, <1>5, <1>6, <1>7, <1>8, <1>9, <1>10, <1>11, <1>12, <1>13,
     <1>14, <1>15, <1>16, <1>17, <1>18, <1>19, <1>20, <1>21, <1>22, <1>23, <1>24, <1>25,
     <1>26, <1>27, <1>28, <1>29, <1>30, <1>31
     DEF Next, Activator, Faults

(***************************************************************************)
(* Theorems                                                                *)
(***************************************************************************)

(* The inductive invariant of the host: where the activator is, what its   *)
(* journals and receipts say, where the host runs and what is installed,   *)
(* through every kill, reboot and failed call.                             *)
THEOREM UpdaterInvHolds == Spec => []UpdaterInv
<1>1. UpdaterInv /\ [Next]_vars => UpdaterInv'
  <2> SUFFICES ASSUME UpdaterInv, [Next]_vars PROVE UpdaterInv'
    OBVIOUS
  <2>1. /\ TypeOK /\ ControlInv /\ FloorInv /\ ReceiptInv /\ CounterInv /\ PersistInv
        /\ PlaceInv /\ SlotInv /\ TargetInv /\ IssueInv
    BY DEF UpdaterInv
  <2>2. TypeOK' /\ IssueInv'
    BY <2>1, TypeNext, IssueNext
  <2>3. ControlInv' /\ FloorInv' /\ CounterInv'
    BY <2>1, ControlNext, FloorNext, CounterNext
  <2>4. ReceiptInv' /\ PersistInv'
    BY <2>1, ReceiptNext, PersistNext
  <2>5. PlaceInv' /\ SlotInv' /\ TargetInv'
    BY <2>1, PlaceNext, SlotNext, TargetNext
  <2> QED
    BY <2>2, <2>3, <2>4, <2>5 DEF UpdaterInv
<1> QED
  BY <1>1, UpdaterInvInit, PTL DEF Spec

(* The files, the activator, the worker and the server keep their types;   *)
(* in particular a receipt counter never exceeds the commands issued.      *)
THEOREM UpdaterTypeCorrect == Spec => []TypeOK
<1>1. UpdaterInv => TypeOK
  BY DEF UpdaterInv
<1> QED
  BY <1>1, UpdaterInvHolds, PTL

(* Whenever no journal is open, link, metadata and agent agree on a slot   *)
(* that passed its last health check: activate.go and rollback.go remove   *)
(* their journal only then, whatever crashed before.                       *)
THEOREM UpdaterSettledIsHealthy == Spec => []SettledIsHealthy
<1>1. UpdaterInv => SettledIsHealthy
  BY DEF UpdaterInv, PlaceInv, Settled, Runs, SettledIsHealthy
<1> QED
  BY <1>1, UpdaterInvHolds, PTL

(* Receipts are numbered without gaps, for increasing commands, and every  *)
(* copy of one, in a journal, a result or the staging directory, is the    *)
(* receipt that was issued under its number (attestation.go).              *)
THEOREM UpdaterReceiptsAreNumbered == Spec => []ReceiptsAreNumbered
<1>1. UpdaterInv => ReceiptsAreNumbered
  <2> SUFFICES ASSUME UpdaterInv PROVE ReceiptsAreNumbered
    OBVIOUS
  <2>1. \A i, j \in DOMAIN ledger : i < j => ledger[i].seq < ledger[j].seq
    BY DEF UpdaterInv, FloorInv
  <2>2. root.counter \in {Len(ledger), Len(ledger) - 1}
    BY DEF UpdaterInv, CounterInv
  <2>3. root.counter # Len(ledger) =>
          Len(ledger) \in {root.journal.counter, root.rollbackJournal.counter}
    BY DEF UpdaterInv, CounterInv
  <2>4. ASSUME NEW r, NEW kind, Receipt(r, kind), r.phase = "done"
        PROVE  /\ r.counter \in DOMAIN ledger
               /\ ledger[r.counter].seq = r.seq /\ ledger[r.counter].slot = r.to
    BY <2>4 DEF Receipt, Done
  <2>5. /\ Receipt(root.journal, "activate") /\ Receipt(root.lastActivation, "activate")
        /\ Receipt(staging.receipt, "activate")
        /\ Receipt(root.rollbackJournal, "rollback") /\ Receipt(root.lastRollback, "rollback")
        /\ Receipt(staging.rollbackResult, "rollback")
    BY DEF UpdaterInv, ReceiptInv
  <2> QED
    BY <2>1, <2>2, <2>3, <2>4, <2>5 DEF ReceiptsAreNumbered
<1> QED
  BY <1>1, UpdaterInvHolds, PTL

(* No prune removes a slot the host may still have to run from, and a slot *)
(* is installed before anything points to it (slot_retention.go).          *)
THEOREM UpdaterRecoverySlotsPresent == Spec => []RecoverySlotsPresent
<1>1. UpdaterInv => RecoverySlotsPresent
  BY DEF UpdaterInv, SlotInv
<1> QED
  BY <1>1, UpdaterInvHolds, PTL

(* The host implements RootActions: through every crash, retry and replay  *)
(* a signed command is accepted once, decided once and attested at most    *)
(* once, and the slot in effect changes only with a receipt or the one     *)
(* documented fallback.                                                    *)
THEOREM UpdaterImplementsRootActions == Spec => ImplementsRootActions
<1>1. Init => Actions!Init
  <2> SUFFICES ASSUME Init PROVE Actions!Init
    OBVIOUS
  <2>1. /\ root.commandFloor = 0 /\ root.meta = Bootstrap /\ ledger = <<>>
        /\ root.journal = NoJournal /\ root.rollbackJournal = NoJournal
        /\ root.lastActivation = NoJournal /\ NoJournal.phase = "none"
    BY DEF Init, NoJournal
  <2>2. ~Undecided(root.journal) /\ ~Undecided(root.rollbackJournal)
    BY <2>1 DEF Undecided
  <2>3. SlotInEffect = Bootstrap /\ RecoverySlot = NoSlot
    BY <2>1 DEF SlotInEffect, RecoverySlot
  <2> QED
    BY <2>1, <2>2, <2>3 DEF Actions!Init
<1> QED
  BY <1>1, RefinementStep, UpdaterInvHolds, PTL DEF Spec, ImplementsRootActions,
     Actions!Spec
=============================================================================
