------------------------------ MODULE Updater ------------------------------
(***************************************************************************)
(* The managed updater of one agent host (internal/updater): an            *)
(* unprivileged worker that publishes signed commands and staged releases, *)
(* and a root activator, started by systemd whenever one of its files      *)
(* exists, that switches the `current` link, restarts the agent and        *)
(* attests the result.                                                     *)
(*                                                                         *)
(* Every durable write of the code (atomicJSON, removeAndSync, a rename)   *)
(* is one step, and the activator can be killed, or the host rebooted,     *)
(* between any two of them; only `root` and `staging` survive.  A file     *)
(* holding a command is modelled by the command's sequence number, 0 when  *)
(* the file is absent.  A release is its release sequence number, which is *)
(* also the name of the slot it is installed in; Bootstrap is the slot the *)
(* host was enrolled with.                                                 *)
(***************************************************************************)
EXTENDS Integers, Sequences, FiniteSets

CONSTANTS MaxRelease,   \* releases are 1 .. MaxRelease
          MaxCommand,   \* bound: commands the server issues
          MaxFaults,    \* bound: kills, reboots and failed system calls
          Expiring      \* commands whose authorization may run out

ASSUME ConstantsAssumption ==
  /\ MaxRelease \in Nat \ {0}
  /\ MaxCommand \in Nat \ {0}
  /\ MaxFaults \in Nat
  /\ Expiring \subseteq 1 .. MaxCommand

Bootstrap == 0
NoSlot    == -1
Releases  == 1 .. MaxRelease
Slots     == 0 .. MaxRelease
Commands  == 1 .. MaxCommand

VARIABLES
  root,     \* files only the activator writes: see RootState
  staging,  \* files shared by worker and activator: see StagingState
  pc,       \* next step of the activator, "idle" when it is not running
  job,      \* the journal the activator holds in memory
  then,     \* where the activator goes after a shared sequence of steps
  doomed,   \* the slots a running prune still has to remove
  action,   \* the kind of command the running activator works for
  agent,    \* [slot: started from, checked: last slot found healthy or NoSlot]
  worker,   \* [op, arg]: what the worker does while it holds worker.lock
  issued,   \* the commands signed so far, in order of sequence number
  offered,  \* the command the server hands out, 0 once its outcome is known
  live,     \* commands whose authorization has not expired
  ledger,   \* history: receipts in the order their journals became durable
  faults    \* kills, reboots and failed calls so far

activator == <<pc, job, then, action, doomed>>
server    == <<issued, offered, live>>
outside   == <<worker, server, faults>>
vars == <<root, staging, pc, job, then, action, doomed, agent, worker, issued, offered,
          live, ledger, faults>>

(***************************************************************************)
(* A journal names a command, the slot to leave and the slot to reach, and *)
(* once the new slot is healthy the counter of its receipt.  "done" stands *)
(* for "healthy" (activation.json) and "completed" (rollback-journal.json).*)
(***************************************************************************)
NoJournal == [phase |-> "none", seq |-> 0, from |-> 0, to |-> 0, counter |-> 0]

Journal ==
  [phase : {"none", "prepared", "switched", "done"}, seq : 0 .. MaxCommand,
   from : Slots, to : Slots, counter : 0 .. MaxCommand]

RootState ==
  [current : Slots,               \* the `current` link
   meta : Slots,                  \* current-slot.json
   previous : Slots \cup {NoSlot},\* previous.json
   slots : SUBSET Slots,          \* slot directories with their executable
   husks : SUBSET Slots,          \* slot directories an interrupted prune emptied
   lastActivation : Journal,      \* last-activation.json
   lastRollback : Journal,        \* last-rollback.json
   counter : 0 .. MaxCommand,     \* root-action-counter.json
   commandFloor : 0 .. MaxCommand,\* management-command-floor.json
   releaseFloor : 0 .. MaxRelease,\* floor.json
   journal : Journal,             \* activation.json
   rollbackJournal : Journal,     \* rollback-journal.json
   activationClaim : 0 .. MaxCommand,  \* activation-command.json
   rollbackClaim : 0 .. MaxCommand]    \* rollback-command.json

StagingState ==
  [ready : 0 .. MaxCommand,       \* ready.json
   rollback : 0 .. MaxCommand,    \* rollback.json
   staged : 0 .. MaxRelease,      \* staged.json, 0 if absent
   candidate : 0 .. MaxRelease,   \* artifact.bin with its manifest.json, 0 unless
                                  \* both are there and match
   receipt : Journal,             \* root-action-receipt.json
   rollbackResult : Journal,      \* rollback-result.json
   failure : 0 .. MaxCommand]     \* failure.json

PcLabels ==
  {"idle", "claimRollback", "claimReady", "reclaimRollback", "activate",
   "command", "consume", "install", "switch", "switched", "restart",
   "attest", "persist", "receipt", "counter", "floor", "previous", "meta",
   "clear", "unclaim", "unjournal", "prune", "pruning", "replayed", "restore",
   "restoreRestart", "restoreMeta", "dropJournal", "rollback", "ensure",
   "rbSwitch", "rbSwitched", "rbRestart", "rbBack", "rbBackRestart",
   "rbDrop", "rbAttest", "rbCounter", "rbMeta", "rbLast", "rbResult",
   "rbClearClaim", "rbClearReady", "rbUnclaim", "rbUnjournal", "fail",
   "unclaimFailed"}

Idle == [op |-> "idle", arg |-> 0]

TypeOK ==
  /\ root \in RootState
  /\ staging \in StagingState
  /\ pc \in PcLabels
  /\ job \in Journal
  /\ then \in {"idle", "command", "fail"}
  /\ doomed \subseteq Slots
  /\ action \in {"activate", "rollback"}
  /\ agent \in [slot : Slots, checked : Slots \cup {NoSlot}]
  /\ worker \in [op : {"idle", "publish", "stage", "failure", "rollbackResult",
                     "receipt"}, arg : 0 .. MaxCommand + MaxRelease]
  /\ issued \in Seq([act : {"activate", "rollback"}, rel : Releases])
  /\ Len(issued) <= MaxCommand
  /\ offered \in 0 .. MaxCommand
  /\ live \subseteq Commands
  /\ ledger \in Seq([seq : Commands, kind : {"activate", "rollback"}, slot : Slots])
  /\ faults \in 0 .. MaxFaults

Init ==
  /\ root = [current |-> Bootstrap, meta |-> Bootstrap, previous |-> NoSlot,
             slots |-> {Bootstrap}, husks |-> {}, lastActivation |-> NoJournal,
             lastRollback |-> NoJournal, counter |-> 0, commandFloor |-> 0,
             releaseFloor |-> 0, journal |-> NoJournal,
             rollbackJournal |-> NoJournal, activationClaim |-> 0,
             rollbackClaim |-> 0]
  /\ staging = [ready |-> 0, rollback |-> 0, staged |-> 0, candidate |-> 0,
                receipt |-> NoJournal, rollbackResult |-> NoJournal, failure |-> 0]
  /\ pc = "idle" /\ job = NoJournal /\ then = "idle" /\ action = "activate"
  /\ doomed = {}
  /\ agent = [slot |-> Bootstrap, checked |-> Bootstrap]
  /\ worker = Idle
  /\ issued = <<>> /\ offered = 0 /\ live = {}
  /\ ledger = <<>>
  /\ faults = 0

(***************************************************************************)
(* The server signs commands with increasing sequence numbers and offers   *)
(* the newest one.  Their authorizations run out.                          *)
(***************************************************************************)
Sign(act, rel) ==
  /\ Len(issued) < MaxCommand
  /\ issued' = Append(issued, [act |-> act, rel |-> rel])
  /\ offered' = Len(issued) + 1
  /\ live' = live \cup {offered'}
  /\ UNCHANGED <<root, staging, activator, agent, worker, ledger, faults>>

Expire(c) ==
  /\ c \in live \cap Expiring
  /\ live' = live \ {c}
  /\ UNCHANGED <<root, staging, activator, agent, worker, issued, offered, ledger,
                 faults>>

(***************************************************************************)
(* The worker.  It reports what it finds in the staging directory before   *)
(* it asks for work, and publishes the answer of the server some time      *)
(* after it read the directory.                                            *)
(***************************************************************************)
NothingToReport ==
  /\ staging.failure = 0
  /\ staging.rollbackResult = NoJournal
  /\ staging.receipt = NoJournal

(* The worker reads a result, sends it, and removes the file once the server
   has answered.  The activator may have replaced the file in between. *)
WorkerReport ==
  /\ worker = Idle
  /\ ~NothingToReport
  /\ worker' =
       IF staging.failure # 0
       THEN [op |-> "failure", arg |-> staging.failure]
       ELSE IF staging.rollbackResult # NoJournal
            THEN [op |-> "rollbackResult", arg |-> staging.rollbackResult.seq]
            ELSE [op |-> "receipt", arg |-> staging.receipt.seq]
  /\ UNCHANGED <<root, staging, activator, agent, server, ledger, faults>>

(* The server stops handing out a command once it knows how it ended. *)
WorkerReported ==
  /\ worker.op \in {"failure", "rollbackResult", "receipt"}
  /\ worker' = Idle
  /\ offered' = IF offered = worker.arg THEN 0 ELSE offered
  /\ staging' = CASE worker.op = "failure" -> [staging EXCEPT !.failure = 0]
                  [] worker.op = "rollbackResult" ->
                       [staging EXCEPT !.rollbackResult = NoJournal]
                  [] worker.op = "receipt" ->
                       [staging EXCEPT !.receipt = NoJournal]
  /\ UNCHANGED <<root, activator, agent, issued, live, ledger, faults>>

(* The call returned an error, the first of the two reports of an activation
   was acknowledged, or the worker died: the file stays, whether the server
   has the report or not. *)
WorkerReportAgain ==
  /\ worker.op \in {"failure", "rollbackResult", "receipt"}
  /\ worker' = Idle
  /\ offered' \in {offered, IF offered = worker.arg THEN 0 ELSE offered}
  /\ UNCHANGED <<root, staging, activator, agent, issued, live, ledger, faults>>

WorkerCheck ==
  /\ worker = Idle
  /\ NothingToReport
  /\ offered # 0
  /\ worker' = [op |-> "publish", arg |-> offered]
  /\ UNCHANGED <<root, staging, activator, agent, server, ledger, faults>>

RequestCommand ==
  /\ worker.op = "publish"
  /\ worker' = Idle
  /\ LET c == worker.arg
     IN  staging' =
           IF c \notin live THEN staging
           ELSE IF issued[c].act = "rollback"
                THEN [staging EXCEPT !.rollback = c]
                ELSE IF staging.staged = issued[c].rel
                     THEN [staging EXCEPT !.ready = c]
                     ELSE staging
  /\ UNCHANGED <<root, activator, agent, server, ledger, faults>>

(* The code compares the artifact only; a release whose manifest was replaced
   in between is kept there and may be staged again here. *)
reusableStagedRelease(r) == staging.staged = r /\ staging.candidate = r

(* The server answers STAGE, so it no longer hands out a command.  Stage
   removes the ready edge before it touches the candidate. *)
StageStart(r) ==
  /\ worker = Idle
  /\ NothingToReport
  /\ ~reusableStagedRelease(r)
  /\ r >= root.releaseFloor
  /\ worker' = [op |-> "stage", arg |-> r]
  /\ staging' = [staging EXCEPT !.ready = 0]
  /\ offered' = 0
  /\ UNCHANGED <<root, activator, agent, issued, live, ledger, faults>>

(* Stage replaces the artifact, then the manifest, then the record, and may
   fail before each of them. *)
StageFinish ==
  /\ worker.op = "stage"
  /\ worker' = Idle
  /\ staging' \in {staging, [staging EXCEPT !.candidate = 0],
                   [staging EXCEPT !.candidate = worker.arg],
                   [staging EXCEPT !.candidate = worker.arg, !.staged = worker.arg]}
  /\ UNCHANGED <<root, activator, agent, server, ledger, faults>>

(***************************************************************************)
(* runActivator: journals first, then rollback commands, then activations. *)
(***************************************************************************)
Exit == pc' = "idle" /\ job' = NoJournal /\ then' = "idle" /\ action' = "activate"

Go(label) ==
  IF label = "idle" THEN Exit ELSE pc' = label /\ UNCHANGED <<job, then, action>>

Enter(kind) == pc' = kind /\ action' = kind /\ UNCHANGED <<job, then>>

PathExists ==
  \/ staging.ready # 0 \/ staging.rollback # 0
  \/ root.activationClaim # 0 \/ root.rollbackClaim # 0
  \/ root.journal.phase # "none" \/ root.rollbackJournal.phase # "none"

runActivator ==
  /\ pc = "idle"
  /\ PathExists
  /\ IF root.rollbackJournal.phase # "none" THEN Enter("rollback")
     ELSE IF root.journal.phase # "none" THEN Enter("activate")
     ELSE Go("claimRollback")
  /\ UNCHANGED <<root, staging, agent, ledger, doomed, outside>>

claimRollback ==
  /\ pc \in {"claimRollback", "reclaimRollback"}
  /\ IF root.rollbackClaim = 0
     THEN /\ root' = [root EXCEPT !.rollbackClaim = staging.rollback]
          /\ staging' = [staging EXCEPT !.rollback = 0]
     ELSE UNCHANGED <<root, staging>>
  /\ IF root'.rollbackClaim # 0 THEN Enter("rollback")
     ELSE IF pc = "claimRollback" THEN Go("claimReady")
     ELSE IF root.activationClaim # 0 THEN Enter("activate")
     ELSE Go("idle")
  /\ UNCHANGED <<agent, ledger, doomed, outside>>

claimReady ==
  /\ pc = "claimReady"
  /\ IF root.activationClaim = 0
     THEN /\ root' = [root EXCEPT !.activationClaim = staging.ready]
          /\ staging' = [staging EXCEPT !.ready = 0]
     ELSE UNCHANGED <<root, staging>>
  /\ Go("reclaimRollback")
  /\ UNCHANGED <<agent, ledger, doomed, outside>>

(* A step of the activator that writes one root file. *)
RootStep(from, to, r) ==
  /\ pc = from
  /\ root' = r
  /\ Go(to)
  /\ UNCHANGED <<staging, agent, ledger, doomed, outside>>

(* restartAndCheck: the agent is started from `current` and found healthy,
   or not. *)
Restart(healthy) ==
  agent' = [slot |-> root.current,
            checked |-> IF healthy THEN root.current ELSE NoSlot]

(* Variant: a journal that is only prepared is not taken for recoverable. *)
recoverSwitchedOnly ==
  /\ pc = "activate"
  /\ LET phase == root.journal.phase
     IN  IF phase = "none" THEN Go("command")
         ELSE IF phase = "prepared" THEN Go("fail")
         ELSE /\ job' = root.journal
              /\ then' = "command"
              /\ pc' = IF phase = "done" THEN "persist" ELSE "restore"
              /\ UNCHANGED action
  /\ UNCHANGED <<root, staging, agent, ledger, doomed, outside>>

(***************************************************************************)
(* Activate.                                                               *)
(***************************************************************************)
recoverActivation ==
  /\ pc = "activate"
  /\ LET phase == root.journal.phase
     IN  IF phase = "none" THEN Go("command")
         ELSE /\ job' = root.journal
              /\ then' = "command"
              /\ pc' = IF phase = "done" THEN "persist" ELSE "restore"
              /\ UNCHANGED action
  /\ UNCHANGED <<root, staging, agent, ledger, doomed, outside>>

loadCurrentSlotMetadata == root.meta = root.current

(* The latest root action is the activation of the slot in effect, and it
   left a different slot to return to. *)
Reactivable ==
  /\ root.counter # 0
  /\ root.lastActivation.counter = root.counter
  /\ root.lastActivation.to = root.current
  /\ root.lastActivation.from # root.current

VerifiedActivation(c) ==
  /\ c \in live
  /\ staging.candidate = issued[c].rel
  /\ issued[c].rel >= root.releaseFloor
  /\ loadCurrentSlotMetadata
  /\ issued[c].rel = root.current => Reactivable

replayCompletedActivation(c) ==
  /\ root.lastActivation.seq = c
  /\ root.counter # 0
  /\ root.lastActivation.counter = root.counter
  /\ loadCurrentSlotMetadata
  /\ root.lastActivation.to = root.current

ActivationJournal(c) ==
  [phase |-> "prepared", seq |-> c,
   from |-> IF issued[c].rel = root.current THEN root.lastActivation.from
            ELSE root.current,
   to |-> issued[c].rel, counter |-> 0]

ActivateCommand ==
  /\ pc = "command"
  /\ LET c == root.activationClaim
     IN  \/ /\ c = 0
            /\ Go("idle")
            /\ UNCHANGED <<root, staging>>
         \/ /\ c # 0 /\ c = root.commandFloor
            /\ replayCompletedActivation(c)
            /\ staging' = [staging EXCEPT !.receipt = root.lastActivation]
            /\ job' = root.lastActivation
            /\ pc' = "replayed"
            /\ UNCHANGED <<root, then, action>>
         \/ /\ c # 0
            /\ IF c = root.commandFloor THEN ~replayCompletedActivation(c)
               ELSE c < root.commandFloor \/ ~VerifiedActivation(c)
            /\ Go("fail")
            /\ UNCHANGED <<root, staging>>
         \/ /\ c > root.commandFloor
            /\ VerifiedActivation(c)
            /\ root' = [root EXCEPT !.journal = ActivationJournal(c)]
            /\ job' = ActivationJournal(c)
            /\ pc' = "consume"
            /\ UNCHANGED <<staging, then, action>>
  /\ UNCHANGED <<agent, ledger, doomed, outside>>

(* Variant: the authorization is verified and not recorded as used. *)
verifyAuthorizationOnly ==
  IF job.seq \in live
  THEN RootStep("consume", "install", root)
  ELSE RootStep("consume", "fail", [root EXCEPT !.journal = NoJournal])

consumeAssignmentAuthorization ==
  IF job.seq \in live
  THEN RootStep("consume", "install", [root EXCEPT !.commandFloor = job.seq])
  ELSE RootStep("consume", "fail", [root EXCEPT !.journal = NoJournal])

installSlot ==
  IF job.to \in root.husks
  THEN RootStep("install", "fail", root)
  ELSE RootStep("install", "switch", [root EXCEPT !.slots = @ \cup {job.to}])

switchCandidate ==
  RootStep("switch", "switched", [root EXCEPT !.current = job.to])

writeSwitched ==
  /\ pc = "switched"
  /\ job' = [job EXCEPT !.phase = "switched"]
  /\ root' = [root EXCEPT !.journal = job']
  /\ pc' = "restart"
  /\ UNCHANGED <<staging, then, action, agent, ledger, doomed, outside>>

restartCandidate ==
  /\ pc = "restart"
  /\ \/ Restart(TRUE) /\ Go("attest")
     \/ /\ Restart(FALSE)
        /\ pc' = "restore" /\ then' = "fail"
        /\ UNCHANGED <<job, action>>
  /\ UNCHANGED <<root, staging, ledger, doomed, outside>>

(* createRootActionReceipt and the journal write that makes it durable. *)
Attest(kind) ==
  /\ job' = [job EXCEPT !.phase = "done", !.counter = root.counter + 1]
  /\ ledger' = Append(ledger, [seq |-> job.seq, kind |-> kind, slot |-> job.to])
  /\ UNCHANGED <<staging, action, agent, doomed, outside>>

attestActivation ==
  /\ pc = "attest"
  /\ Attest("activate")
  /\ root' = [root EXCEPT !.journal = job']
  /\ pc' = "persist" /\ then' = "idle"

(***************************************************************************)
(* persistHealthyActivation: eight writes, restarted from the first one by *)
(* recoverActivation after a crash.                                        *)
(***************************************************************************)
persistActivation ==
  IF job.counter \in {root.counter, root.counter + 1}
  THEN RootStep("persist", "receipt", [root EXCEPT !.lastActivation = job])
  ELSE RootStep("persist", "fail", root)

persistReceipt ==
  /\ pc = "receipt"
  /\ staging' = [staging EXCEPT !.receipt = job]
  /\ Go("counter")
  /\ UNCHANGED <<root, agent, ledger, doomed, outside>>

persistHealthyActivation ==
  \/ persistActivation
  \/ persistReceipt
  \/ RootStep("counter", "floor", [root EXCEPT !.counter = job.counter])
  \/ RootStep("floor", "previous", [root EXCEPT !.releaseFloor = job.to])
  \/ RootStep("previous", "meta", [root EXCEPT !.previous = job.from])
  \/ RootStep("meta", "clear", [root EXCEPT !.meta = job.to])
  \/ RootStep("unjournal", "prune", [root EXCEPT !.journal = NoJournal])

(* clearStagedIfMatchingAuthorization: the live edge and the candidate go
   only if worker.lock is free and the edge is for this very command; the
   claim goes in any case. *)
OwnsStaging(c) == staging.staged = issued[c].rel

Cleared ==
  [staging EXCEPT !.ready = 0, !.staged = 0, !.candidate = 0]

clearStaged ==
  /\ pc \in {"clear", "replayed"}
  /\ IF /\ worker = Idle
        /\ root.activationClaim = job.seq
        /\ staging.ready = job.seq
        /\ OwnsStaging(job.seq)
     THEN staging' = Cleared
     ELSE UNCHANGED staging
  /\ Go("unclaim")
  /\ UNCHANGED <<root, agent, ledger, doomed, outside>>

removeClaim ==
  RootStep("unclaim",
           IF root.journal.phase = "none" THEN "idle" ELSE "unjournal",
           IF root.activationClaim = job.seq
           THEN [root EXCEPT !.activationClaim = 0] ELSE root)

(***************************************************************************)
(* pruneObsoleteSlots: an executable goes first, then its directory.       *)
(***************************************************************************)
JournalSlots(j) == IF j.phase = "none" THEN {} ELSE {j.from, j.to}

(* Variant: the slots of completed actions are not retained. *)
retainCurrentOnly ==
  {root.current} \cup JournalSlots(root.journal)
    \cup JournalSlots(root.rollbackJournal)

retainedSlotNames ==
  {root.current, root.previous}
    \cup JournalSlots(root.journal) \cup JournalSlots(root.rollbackJournal)
    \cup JournalSlots(root.lastActivation)
    \cup {r.to : r \in {x \in {staging.receipt, staging.rollbackResult} :
                          x.phase # "none"}}

securelyRemoveSlot(s) ==
  IF s \in root.slots
  THEN /\ root' = [root EXCEPT !.slots = @ \ {s}, !.husks = @ \cup {s}]
       /\ UNCHANGED doomed
  ELSE /\ root' = [root EXCEPT !.husks = @ \ {s}]
       /\ doomed' = doomed \ {s}

pruneObsoleteSlots ==
  /\ \/ /\ pc = "prune"
        /\ doomed' = (root.slots \cup root.husks) \ retainedSlotNames
        /\ Go("pruning")
        /\ UNCHANGED root
     \/ /\ pc = "pruning"
        /\ \E s \in doomed : securelyRemoveSlot(s)
        /\ Go("pruning")
     \/ /\ pc = "pruning"
        /\ doomed = {}
        /\ Go(then)
        /\ UNCHANGED <<root, doomed>>
  /\ UNCHANGED <<staging, agent, ledger, outside>>

(***************************************************************************)
(* rollback(): an activation that did not come through goes back.          *)
(***************************************************************************)
restorePrevious ==
  \/ RootStep("restore", "restoreRestart", [root EXCEPT !.current = job.from])
  \/ RootStep("restoreMeta", "dropJournal", [root EXCEPT !.meta = job.from])
  \/ RootStep("dropJournal", then, [root EXCEPT !.journal = NoJournal])

(* Variant: the health check of the restored slot is ignored. *)
restartUnchecked ==
  /\ pc = "restoreRestart"
  /\ \E healthy \in BOOLEAN : Restart(healthy)
  /\ Go("restoreMeta")
  /\ UNCHANGED <<root, staging, ledger, doomed, outside>>

restartPrevious ==
  /\ pc = "restoreRestart"
  /\ \/ Restart(TRUE) /\ Go("restoreMeta")
     \/ Restart(FALSE) /\ Go("fail")
  /\ UNCHANGED <<root, staging, ledger, doomed, outside>>

(***************************************************************************)
(* Rollback.                                                               *)
(***************************************************************************)
(* The slot a rollback command leads to: the recovery slot if the command
   is for the release in effect, the slot in effect otherwise. *)
RollbackTarget(c) ==
  IF issued[c].rel = root.meta THEN root.previous ELSE root.meta

VerifiedRollback(c) ==
  /\ c \in live
  /\ loadCurrentSlotMetadata
  /\ issued[c].rel = root.meta =>
       /\ root.counter # 0
       /\ root.lastActivation.counter = root.counter
       /\ root.lastActivation.to = root.meta
       /\ root.previous # NoSlot
  /\ RollbackTarget(c) \in root.slots

replayCompletedRollback(c) ==
  /\ root.lastRollback.seq = c
  /\ root.counter # 0
  /\ root.lastRollback.counter = root.counter
  /\ loadCurrentSlotMetadata
  /\ root.lastRollback.to = root.current

RollbackJournal(c) ==
  [phase |-> "prepared", seq |-> c, from |-> root.meta,
   to |-> RollbackTarget(c), counter |-> 0]

RollbackCommand ==
  /\ pc = "rollback"
  /\ LET c == root.rollbackClaim
         recovering == root.rollbackJournal.phase # "none"
     IN  \/ /\ recovering
            /\ job' = root.rollbackJournal
            /\ pc' = "ensure"
            /\ UNCHANGED <<root, then, action>>
         \/ /\ ~recovering /\ c = root.commandFloor
            /\ replayCompletedRollback(c)
            /\ job' = root.lastRollback
            /\ pc' = "rbResult"
            /\ UNCHANGED <<root, then, action>>
         \/ /\ ~recovering
            /\ IF c = root.commandFloor THEN ~replayCompletedRollback(c)
               ELSE c < root.commandFloor \/ ~VerifiedRollback(c)
            /\ Go("fail")
            /\ UNCHANGED root
         \/ /\ ~recovering /\ c > root.commandFloor
            /\ VerifiedRollback(c)
            /\ root' = [root EXCEPT !.rollbackJournal = RollbackJournal(c)]
            /\ job' = RollbackJournal(c)
            /\ pc' = "ensure"
            /\ UNCHANGED <<then, action>>
  /\ UNCHANGED <<staging, agent, ledger, doomed, outside>>

(* Variant: a command that is recorded as used is refused on recovery. *)
consumeAgain ==
  LET resume == IF job.phase = "done" THEN "rbCounter" ELSE "rbSwitch"
  IN  IF root.commandFloor < job.seq /\ job.seq \in live
      THEN RootStep("ensure", resume, [root EXCEPT !.commandFloor = job.seq])
      ELSE RootStep("ensure", "fail", root)

(* ensureAuthorizationConsumed, and the phase continueRollback resumes in. *)
ensureAuthorizationConsumed ==
  LET resume == IF job.phase = "done" THEN "rbCounter" ELSE "rbSwitch"
  IN  \/ /\ root.commandFloor = job.seq
         /\ RootStep("ensure", resume, root)
      \/ /\ root.commandFloor < job.seq
         /\ job.seq \in live
         /\ RootStep("ensure", resume, [root EXCEPT !.commandFloor = job.seq])
      \/ /\ root.commandFloor # job.seq
         /\ root.commandFloor > job.seq \/ job.seq \notin live
         /\ RootStep("ensure", "fail", root)

switchTarget ==
  IF root.current \in {job.from, job.to}
  THEN RootStep("rbSwitch",
                IF job.phase = "prepared" THEN "rbSwitched" ELSE "rbRestart",
                [root EXCEPT !.current = job.to])
  ELSE RootStep("rbSwitch", "fail", root)

writeRollbackSwitched ==
  /\ pc = "rbSwitched"
  /\ job' = [job EXCEPT !.phase = "switched"]
  /\ root' = [root EXCEPT !.rollbackJournal = job']
  /\ pc' = "rbRestart"
  /\ UNCHANGED <<staging, then, action, agent, ledger, doomed, outside>>

restartTarget ==
  /\ \/ pc = "rbRestart" /\ Restart(TRUE) /\ Go("rbAttest")
     \/ pc = "rbRestart" /\ Restart(FALSE) /\ Go("rbBack")
     \/ pc = "rbBackRestart" /\ Restart(TRUE) /\ Go("rbDrop")
     \/ pc = "rbBackRestart" /\ Restart(FALSE) /\ Go("fail")
  /\ UNCHANGED <<root, staging, ledger, doomed, outside>>

restoreFrom ==
  \/ RootStep("rbBack", "rbBackRestart", [root EXCEPT !.current = job.from])
  \/ RootStep("rbDrop", "fail", [root EXCEPT !.rollbackJournal = NoJournal])

attestRollback ==
  /\ pc = "rbAttest"
  /\ Attest("rollback")
  /\ root' = [root EXCEPT !.rollbackJournal = job']
  /\ pc' = "rbCounter"
  /\ UNCHANGED then

(* Variant: the counter is incremented instead of set to the receipt's. *)
incrementRollbackCounter ==
  RootStep("rbCounter", "rbMeta", [root EXCEPT !.counter = @ + 1])

(* persistRollbackResult, then the cleanup at the end of continueRollback.
   clearSupersededActivation drops only activations older than the rollback. *)
persistRollbackCounter ==
  IF job.counter \in {root.counter, root.counter + 1}
  THEN RootStep("rbCounter", "rbMeta", [root EXCEPT !.counter = job.counter])
  ELSE RootStep("rbCounter", "fail", root)

publishRollbackResult ==
  /\ pc = "rbResult"
  /\ staging' = [staging EXCEPT !.rollbackResult = job]
  /\ Go("rbClearClaim")
  /\ UNCHANGED <<root, agent, ledger, doomed, outside>>

clearSupersededReady ==
  /\ pc = "rbClearReady"
  /\ IF staging.ready # 0 /\ staging.ready < job.seq /\ worker = Idle
     THEN staging' = IF OwnsStaging(staging.ready) THEN Cleared
                     ELSE [staging EXCEPT !.ready = 0]
     ELSE UNCHANGED staging
  /\ Go("rbUnclaim")
  /\ UNCHANGED <<root, agent, ledger, doomed, outside>>

finishRollback ==
  \/ persistRollbackCounter
  \/ RootStep("rbMeta", "rbLast", [root EXCEPT !.meta = job.to])
  \/ RootStep("rbLast", "rbResult", [root EXCEPT !.lastRollback = job])
  \/ publishRollbackResult
  \/ RootStep("rbClearClaim", "rbClearReady",
              IF root.activationClaim < job.seq
              THEN [root EXCEPT !.activationClaim = 0] ELSE root)
  \/ clearSupersededReady
  \/ RootStep("rbUnclaim",
              IF root.rollbackJournal.phase = "none" THEN "idle" ELSE "rbUnjournal",
              IF root.rollbackClaim = job.seq
              THEN [root EXCEPT !.rollbackClaim = 0] ELSE root)
  \/ /\ pc = "rbUnjournal"
     /\ root' = [root EXCEPT !.rollbackJournal = NoJournal]
     /\ pc' = "prune" /\ then' = "idle"
     /\ UNCHANGED <<job, action, staging, agent, ledger, doomed, outside>>

(***************************************************************************)
(* QuarantineActivationFailure.                                            *)
(***************************************************************************)
OwnJournal ==
  IF action = "activate" THEN root.journal ELSE root.rollbackJournal

OwnClaim ==
  IF action = "activate" THEN root.activationClaim ELSE root.rollbackClaim

publishFailure ==
  /\ pc = "fail"
  /\ staging' = IF OwnJournal.phase = "none"
                THEN [staging EXCEPT !.failure = OwnClaim]
                ELSE staging
  /\ Go("unclaimFailed")
  /\ UNCHANGED <<root, agent, ledger, doomed, outside>>

(* Variant: the claim of a failed command stays. *)
keepFailedClaim == RootStep("unclaimFailed", "idle", root)

removeFailedClaim ==
  RootStep("unclaimFailed", "idle",
           IF action = "activate"
           THEN [root EXCEPT !.activationClaim = 0]
           ELSE [root EXCEPT !.rollbackClaim = 0])

(***************************************************************************)
(* Faults: the activator is killed, the host reboots, a call fails.        *)
(***************************************************************************)
Fault == faults < MaxFaults /\ faults' = faults + 1

Kill ==
  /\ Fault
  /\ pc # "idle"
  /\ Exit /\ doomed' = {}
  /\ UNCHANGED <<root, staging, agent, worker, server, ledger>>

Reboot ==
  /\ Fault
  /\ Exit /\ doomed' = {}
  /\ worker' = Idle
  /\ agent' = [agent EXCEPT !.slot = root.current]
  /\ UNCHANGED <<root, staging, server, ledger>>

(* A failed call ends the activator's work with an error.  Two writes have
   an error path of their own, and its own call may fail as well. *)
CallFails ==
  /\ Fault
  /\ pc \notin {"idle", "restart", "rbRestart"}
  /\ Go(IF pc \in {"claimRollback", "claimReady", "reclaimRollback", "fail",
                   "unclaimFailed"} THEN "idle" ELSE "fail")
  /\ \/ UNCHANGED root
     \/ pc = "consume" /\ root' = [root EXCEPT !.journal = NoJournal]
     \/ pc = "switched" /\ root' = [root EXCEPT !.current = job.from]
  /\ doomed' = {}
  /\ UNCHANGED <<staging, agent, worker, server, ledger>>

-----------------------------------------------------------------------------
Activator ==
  \/ runActivator \/ claimRollback \/ claimReady
  \/ recoverActivation \/ ActivateCommand \/ consumeAssignmentAuthorization
  \/ installSlot \/ switchCandidate \/ writeSwitched \/ restartCandidate
  \/ attestActivation \/ persistHealthyActivation \/ clearStaged \/ removeClaim
  \/ pruneObsoleteSlots \/ restorePrevious \/ restartPrevious
  \/ RollbackCommand \/ ensureAuthorizationConsumed \/ switchTarget
  \/ writeRollbackSwitched \/ restartTarget \/ restoreFrom \/ attestRollback
  \/ finishRollback \/ publishFailure \/ removeFailedClaim

Worker ==
  \/ WorkerReport \/ WorkerReported \/ WorkerReportAgain \/ WorkerCheck \/ RequestCommand
  \/ \E r \in Releases : StageStart(r)
  \/ StageFinish

Server ==
  \/ \E act \in {"activate", "rollback"}, r \in Releases : Sign(act, r)
  \/ \E c \in Commands : Expire(c)

Faults == Kill \/ Reboot \/ CallFails

Next == Activator \/ Worker \/ Server \/ Faults

Spec == Init /\ [][Next]_vars

(* systemd starts the activator while one of its files exists and restarts
   it after an error; a slot that is restarted again and again comes up. *)
Healthy == agent'.checked # NoSlot

Fairness ==
  /\ WF_vars(Activator)
  /\ SF_vars(restartPrevious /\ Healthy)
  /\ SF_vars(restartTarget /\ Healthy)

FairSpec == Spec /\ Fairness

(***************************************************************************)
(* Properties                                                              *)
(***************************************************************************)
(* The journal of a command that is accepted and neither attested nor given
   up. *)
Undecided(j) ==
  j.phase \in {"prepared", "switched"} /\ j.seq = root.commandFloor

NoJournals == root.journal.phase = "none" /\ root.rollbackJournal.phase = "none"

(* Whenever no journal is open, the `current` link, its metadata and the
   running agent agree, and that slot passed its last health check.
   activate.go:rollback and rollback.go:continueRollback remove a journal
   only after the slot they settled on is up; a crash anywhere in between
   leaves the journal behind. *)
SettledIsHealthy ==
  NoJournals =>
    /\ root.meta = root.current
    /\ agent.slot = root.current
    /\ agent.checked = root.current

(* Every slot the host may have to run from is installed: the one in effect,
   the one a rollback restores, the ones an open journal can still lead to,
   and both slots of the latest activation (slot_retention.go). *)
RecoverySlotsPresent ==
  LET needed == {root.current, root.meta} \cup ({root.previous} \ {NoSlot})
                \cup JournalSlots(root.lastActivation)
                \cup JournalSlots(root.rollbackJournal)
                \cup (IF root.journal.phase = "prepared" THEN {root.journal.from}
                      ELSE JournalSlots(root.journal))
  IN  needed \subseteq root.slots

(* Receipts are numbered without gaps in the order they were issued, and for
   increasing command sequence numbers; the counter lags behind only while
   the journal that carries the newest receipt is being persisted
   (attestation.go, "does not advance exactly once"). *)
ReceiptsAreNumbered ==
  /\ \A i, j \in DOMAIN ledger : i < j => ledger[i].seq < ledger[j].seq
  /\ root.counter \in {Len(ledger), Len(ledger) - 1}
  /\ root.counter # Len(ledger) =>
       Len(ledger) \in {root.journal.counter, root.rollbackJournal.counter}
  /\ \A r \in {root.lastActivation, root.lastRollback, root.journal,
               root.rollbackJournal, staging.receipt, staging.rollbackResult} :
       r.phase = "done" =>
         /\ r.counter \in DOMAIN ledger
         /\ ledger[r.counter].seq = r.seq
         /\ ledger[r.counter].slot = r.to

(* An activation journal is always closed in the end: the activation is
   persisted, or the previous slot is running again. *)
ActivationIsDecided ==
  root.journal.phase # "none" ~> root.journal.phase = "none"

(* So is the journal of a rollback whose authorization was recorded as used. *)
RollbackIsDecided ==
  Undecided(root.rollbackJournal) ~> root.rollbackJournal.phase = "none"

(* The journal of a rollback whose authorization ran out before it was
   recorded as used: ensureAuthorizationConsumed refuses it at every start,
   and runActivator serves nothing before it. *)
RollbackStuck ==
  LET j == root.rollbackJournal
  IN  j.phase = "prepared" /\ j.seq > root.commandFloor /\ j.seq \notin live

(* A claimed command does not stay claimed: it is executed, refused, or
   dropped for a newer one.  The one thing that can hold it for good is the
   stuck journal of a rollback, which RollbackJournalRecovers is about. *)
ClaimIsDecided ==
  \A c \in Commands :
    root.activationClaim = c ~> root.activationClaim # c \/ RollbackStuck

(* "Durable journals always recover before a newly published command"
   (runtime.go, runActivator): a rollback journal does not stay for good. *)
RollbackJournalRecovers ==
  root.rollbackJournal.phase # "none" ~> root.rollbackJournal.phase = "none"

(* A failure the worker will report is never about a command whose journal
   is still open (failure.go: a FAILED report would move the assignment to
   blocked before the recovered receipt can reconcile). *)
FailureIsSettled ==
  staging.failure # 0 =>
    staging.failure \notin {root.journal.seq, root.rollbackJournal.seq}

(***************************************************************************)
(* The host implements RootActions: the slot in effect is the one the      *)
(* metadata names, or the one a receipt not yet persisted attests.         *)
(***************************************************************************)
SlotInEffect ==
  IF root.journal.phase = "done" THEN root.journal.to
  ELSE IF root.rollbackJournal.phase = "done" THEN root.rollbackJournal.to
  ELSE root.meta

RecoverySlot ==
  IF root.journal.phase = "done" THEN root.journal.from
  ELSE IF root.lastActivation.phase = "done" THEN root.lastActivation.from
  ELSE NoSlot

Actions == INSTANCE RootActions WITH
  used <- root.commandFloor,
  open <- Undecided(root.journal) \/ Undecided(root.rollbackJournal),
  slot <- SlotInEffect,
  recovery <- RecoverySlot

(* Every behaviour of the host, crashes and failed calls included, is a
   behaviour of RootActions: a command is accepted once, decided once and
   attested at most once, and a slot changes only with its receipt. *)
ImplementsRootActions == Actions!Spec
=============================================================================
