------------------------------- MODULE AiRuns -------------------------------
(***************************************************************************)
(* The durable queue of AI runs (adapters/job_store.py) and the AI worker  *)
(* processes that execute them (adapters/ai_worker.py).                    *)
(*                                                                         *)
(* A row of ai_runs is claimed by one worker for a lease, fenced by a      *)
(* token that is new for every claim.  claim_next takes its row with FOR   *)
(* UPDATE SKIP LOCKED, so it is one step.  Every other operation SELECTs   *)
(* its rows without a lock and UPDATEs them by primary key at commit, and  *)
(* PostgreSQL runs it in READ COMMITTED: it is two steps, Begin... and     *)
(* Commit..., and any other actor may commit between them.                 *)
(*                                                                         *)
(* The clock is abstracted to what the code asks of it.  A row's           *)
(* lease_expires_at is "none" (NULL), "live" (>= now) or "expired"         *)
(* (< now); available_at is due (NULL or <= now) or not.  Time passing is  *)
(* LeaseExpires and RetryDue.  The realtime and trace rows an operation    *)
(* appends to its transaction, and the text of results and errors, are     *)
(* left out.                                                               *)
(***************************************************************************)
EXTENDS Naturals

CONSTANTS
  Workers,      \* AI worker processes
  Runs,         \* ids of runs
  Labels,       \* "tool-<round>-<index>" labels of a control tool call
  MaxAttempts,  \* ai_runs.max_attempts
  Cancellable,  \* runs a user may come to cancel
  Prompt,       \* TRUE: a transaction ends before the deadline it relies on
  MaxCrashes,   \* bound on worker crashes
  None

ASSUME ConstantsAssumption ==
  /\ MaxAttempts \in Nat \ {0}
  /\ MaxCrashes \in Nat
  /\ Cancellable \subseteq Runs
  /\ Prompt \in BOOLEAN
  /\ None \notin Workers \cup Runs \cup Labels

VARIABLES
  runs,       \* the table ai_runs
  commands,   \* control commands created for runs, one per idempotency key
  nextToken,  \* supply of fresh lease tokens (uuid4)
  worker,     \* the main loop of each worker
  mainTxn,    \* its open transaction
  beating,    \* is the worker's heartbeat task running?
  beatTxn,    \* the heartbeat task's open transaction
  apiTxn,     \* the gateway's open cancel transaction
  crashes

vars == <<runs, commands, nextToken, worker, mainTxn, beating, beatTxn,
          apiTxn, crashes>>

-----------------------------------------------------------------------------
(* Types.  Of a run, unwanted says that its user may come to cancel it. *)

Active   == {"running", "waiting_model", "calling_tool", "waiting_device"}
Terminal == {"succeeded", "failed", "cancelled", "skipped"}
Status   == {"absent", "queued"} \cup Active \cup Terminal

Row == [status: Status, attempts: Nat, owner: Workers \cup {None}, token: Nat,
        lease: {"none", "live", "expired"}, due: BOOLEAN, cancel: BOOLEAN,
        unwanted: BOOLEAN, output: Nat]

(* A worker's main loop: polling (idle, then claim), executing a claimed   *)
(* run, in a tool call, or about to send an MCP control call whose         *)
(* ownership check passed.                                                 *)
Loop == [pc: {"idle", "claim", "exec", "tool", "call"}, run: Runs \cup {None},
         token: Nat, label: Labels \cup {None}, called: BOOLEAN]

Idle == [pc |-> "idle", run |-> None, token |-> 0, label |-> None,
         called |-> FALSE]

(* An open transaction: what it decided from the rows it read.  A recovery *)
(* reads many rows, an owned operation the one row of its run.             *)
NoTxn == [op |-> "none", rows |-> {}, lost |-> {}, run |-> None, token |-> 0,
          status |-> "absent"]

OwnedOps == {"transition", "complete", "fail"}

Txn == [op: {"none", "recover"} \cup OwnedOps, rows: SUBSET Runs,
        lost: SUBSET Runs, run: Runs \cup {None}, token: Nat, status: Status]

NoBeat   == [run |-> None, token |-> 0]
NoCancel == [run |-> None, withdraw |-> FALSE]

(* A worker that executes has a run, one that sends a call has its label.  *)
LoopOK(loop) ==
  /\ loop.pc \in {"exec", "tool", "call"} => loop.run \in Runs
  /\ loop.pc = "call" => loop.label \in Labels

TypeOK ==
  /\ runs \in [Runs -> Row]
  /\ commands \in SUBSET [run: Runs, label: Labels, token: Nat]
  /\ nextToken \in Nat \ {0}
  /\ worker \in [Workers -> Loop]
  /\ \A w \in Workers : LoopOK(worker[w])
  /\ mainTxn \in [Workers -> Txn]
  /\ beating \in [Workers -> BOOLEAN]
  /\ beatTxn \in [Workers -> [run: Runs \cup {None}, token: Nat]]
  /\ apiTxn \in [run: Runs \cup {None}, withdraw: BOOLEAN]
  /\ crashes \in 0..MaxCrashes

Init ==
  /\ runs = [r \in Runs |->
               [status |-> "absent", attempts |-> 0, owner |-> None,
                token |-> 0, lease |-> "none", due |-> TRUE, cancel |-> FALSE,
                unwanted |-> FALSE, output |-> 0]]
  /\ commands = {}
  /\ nextToken = 1
  /\ worker = [w \in Workers |-> Idle]
  /\ mainTxn = [w \in Workers |-> NoTxn]
  /\ beating = [w \in Workers |-> FALSE]
  /\ beatTxn = [w \in Workers |-> NoBeat]
  /\ apiTxn = NoCancel
  /\ crashes = 0

-----------------------------------------------------------------------------
(* Reading and writing rows *)

(* Mutant: ownership without owner and token.                              *)
OwnedByAnyone(w, r, t) == runs[r].status \in Active /\ runs[r].lease = "live"

(* _owned_run: the row is still this worker's claim, active and unexpired. *)
Owned(w, r, t) ==
  /\ runs[r].owner = w
  /\ runs[r].token = t
  /\ runs[r].status \in Active
  /\ runs[r].lease = "live"

(* Mutant: recovery looks at running rows only.                            *)
ExpiredWhileRunning(r) == runs[r].status = "running" /\ runs[r].lease = "expired"

(* recover_expired's filter *)
Expired(r) == runs[r].status \in Active /\ runs[r].lease = "expired"

LeaseCleared(row) == [row EXCEPT !.owner = None, !.token = 0, !.lease = "none"]

(* Mutants: a claim that forgets the owner, or keeps the old token.        *)
ClaimedWithoutOwner(row, w, t) ==
  [row EXCEPT !.status = "running", !.attempts = @ + 1, !.token = t, !.lease = "live"]

ClaimedWithoutToken(row, w, t) ==
  [row EXCEPT !.status = "running", !.attempts = @ + 1, !.owner = w, !.lease = "live"]

Claimed(row, w, t) ==
  [row EXCEPT !.status = "running", !.attempts = @ + 1, !.owner = w,
              !.token = t, !.lease = "live"]

(* A retry sets available_at to now + backoff.                             *)
Requeued(row) == [LeaseCleared(row) EXCEPT !.status = "queued", !.due = FALSE]

Ended(row, status) == [LeaseCleared(row) EXCEPT !.status = status]

(* The UPDATE of an owned operation, applied to the row as it is at commit *)
Written(row, txn) ==
  CASE txn.status = "absent"    -> row
    [] txn.status \in Active    -> [row EXCEPT !.status = txn.status]
    [] txn.status = "queued"    -> Requeued(row)
    [] txn.status = "succeeded" -> [Ended(row, "succeeded") EXCEPT !.output = txn.token]
    [] txn.status = "skipped"   -> [Ended(row, "skipped") EXCEPT !.output = txn.token]
    [] OTHER                    -> Ended(row, txn.status)

(* Under Prompt, time does not overtake an open transaction: the lease it  *)
(* found live stays live, the backoff it sets has not passed.              *)
OwnedTxnOpen(r) ==
  \/ \E w \in Workers : mainTxn[w].op \in OwnedOps /\ mainTxn[w].run = r
  \/ \E w \in Workers : beatTxn[w].run = r

RecoveryOpen(r) ==
  \E w \in Workers : mainTxn[w].op = "recover" /\ r \in mainTxn[w].rows

-----------------------------------------------------------------------------
(* The gateway *)

(* SqlAlchemyAiRunRepository.create *)
Create(r) ==
  /\ runs[r].status = "absent"
  /\ \E unwanted \in BOOLEAN :
       /\ unwanted => r \in Cancellable
       /\ runs' = [runs EXCEPT ![r].status = "queued", ![r].unwanted = unwanted]
  /\ UNCHANGED <<commands, nextToken, worker, mainTxn, beating, beatTxn,
                 apiTxn, crashes>>

(* cancel: a queued run is withdrawn, an active one is asked to stop.      *)
BeginCancel(r) ==
  /\ runs[r].unwanted
  /\ apiTxn = NoCancel
  /\ runs[r].status \in Active \cup {"queued"}
  /\ apiTxn' = [run |-> r, withdraw |-> runs[r].status = "queued"]
  /\ UNCHANGED <<runs, commands, nextToken, worker, mainTxn, beating, beatTxn,
                 crashes>>

CommitCancel ==
  /\ apiTxn # NoCancel
  /\ runs' = IF apiTxn.withdraw
             THEN [runs EXCEPT ![apiTxn.run].status = "cancelled"]
             ELSE [runs EXCEPT ![apiTxn.run].cancel = TRUE]
  /\ apiTxn' = NoCancel
  /\ UNCHANGED <<commands, nextToken, worker, mainTxn, beating, beatTxn,
                 crashes>>

-----------------------------------------------------------------------------
(* Time *)

LeaseExpires(r) ==
  /\ runs[r].lease = "live"
  /\ Prompt => ~OwnedTxnOpen(r)
  /\ runs' = [runs EXCEPT ![r].lease = "expired"]
  /\ UNCHANGED <<commands, nextToken, worker, mainTxn, beating, beatTxn,
                 apiTxn, crashes>>

RetryDue(r) ==
  /\ ~runs[r].due
  /\ Prompt => ~RecoveryOpen(r)
  /\ runs' = [runs EXCEPT ![r].due = TRUE]
  /\ UNCHANGED <<commands, nextToken, worker, mainTxn, beating, beatTxn,
                 apiTxn, crashes>>

-----------------------------------------------------------------------------
(* The worker's main loop: _run, claim_next, recover_expired               *)

(* The attempts of a lost or failed run are used up.                       *)
Exhausted(r) == runs[r].attempts >= MaxAttempts

BeginRecover(w) ==
  /\ worker[w].pc = "idle"
  /\ mainTxn[w] = NoTxn
  /\ mainTxn' = [mainTxn EXCEPT ![w] =
       [NoTxn EXCEPT !.op = "recover",
                     !.rows = {r \in Runs : Expired(r)},
                     !.lost = {r \in Runs : Expired(r) /\ Exhausted(r)}]]
  /\ UNCHANGED <<runs, commands, nextToken, worker, beating, beatTxn, apiTxn,
                 crashes>>

CommitRecover(w) ==
  /\ mainTxn[w].op = "recover"
  /\ runs' = [r \in Runs |->
                IF r \notin mainTxn[w].rows THEN runs[r]
                ELSE IF r \in mainTxn[w].lost THEN Ended(runs[r], "failed")
                ELSE Requeued(runs[r])]
  /\ mainTxn' = [mainTxn EXCEPT ![w] = NoTxn]
  /\ worker' = [worker EXCEPT ![w].pc = "claim"]
  /\ UNCHANGED <<commands, nextToken, beating, beatTxn, apiTxn, crashes>>

Claimable(r) == runs[r].status = "queued" /\ runs[r].due

Claim(w, r) ==
  /\ worker[w].pc = "claim"
  /\ Claimable(r)
  /\ runs' = [runs EXCEPT ![r] = Claimed(@, w, nextToken)]
  /\ nextToken' = nextToken + 1
  /\ worker' = [worker EXCEPT ![w] =
                  [Idle EXCEPT !.pc = "exec", !.run = r, !.token = nextToken]]
  /\ beating' = [beating EXCEPT ![w] = TRUE]
  /\ UNCHANGED <<commands, mainTxn, beatTxn, apiTxn, crashes>>

ClaimNothing(w) ==
  /\ worker[w].pc = "claim"
  /\ \A r \in Runs : ~Claimable(r)
  /\ worker' = [worker EXCEPT ![w] = Idle]
  /\ UNCHANGED <<runs, commands, nextToken, mainTxn, beating, beatTxn, apiTxn,
                 crashes>>

(* Leaving execute: the heartbeat task is cancelled in its finally block,  *)
(* but a renewal already running in its thread is not.                     *)
StopExecuting(w) ==
  /\ worker' = [worker EXCEPT ![w] = Idle]
  /\ beating' = [beating EXCEPT ![w] = FALSE]

(* An operation whose SELECT finds the run owned stays open with the       *)
(* decision it took; RunLeaseLost stops the execution.  The loop is at pc  *)
(* when the transaction is over.                                           *)
BeginOwned(w, op, status, pc) ==
  /\ worker[w].pc = "exec"
  /\ mainTxn[w] = NoTxn
  /\ LET r == worker[w].run
         t == worker[w].token
     IN  IF Owned(w, r, t)
         THEN /\ mainTxn' = [mainTxn EXCEPT ![w] =
                   [NoTxn EXCEPT !.op = op, !.run = r, !.token = t,
                      !.status = IF runs[r].cancel THEN "cancelled" ELSE status]]
              /\ worker' = [worker EXCEPT ![w].pc = pc]
              /\ UNCHANGED beating
         ELSE /\ StopExecuting(w)
              /\ UNCHANGED mainTxn
  /\ UNCHANGED <<runs, commands, nextToken, beatTxn, apiTxn, crashes>>

(* transition: to the status the run already has, the ORM emits no UPDATE  *)
(* ("absent" stands for no change).  _wait_for_command enters              *)
(* waiting_device only after a control call; a tool call follows           *)
(* calling_tool.                                                           *)
BeginTransition(w, status) ==
  /\ worker[w].pc = "exec"
  /\ status = "waiting_device" => worker[w].called
  /\ BeginOwned(w, "transition",
                IF runs[worker[w].run].status = status THEN "absent" ELSE status,
                IF status = "calling_tool" THEN "tool" ELSE "exec")

BeginComplete(w, status) == BeginOwned(w, "complete", status, "exec")

(* fail after an exception in execute: retried while attempts are left     *)
BeginFail(w) ==
  /\ worker[w].pc = "exec"
  /\ BeginOwned(w, "fail",
       IF Exhausted(worker[w].run) THEN "failed" ELSE "queued",
       "exec")

CommitOwned(w) ==
  /\ mainTxn[w].op \in OwnedOps
  /\ runs' = [runs EXCEPT ![mainTxn[w].run] = Written(@, mainTxn[w])]
  /\ mainTxn' = [mainTxn EXCEPT ![w] = NoTxn]
  /\ IF mainTxn[w].status \in Active \cup {"absent"}
     THEN UNCHANGED <<worker, beating>>
     ELSE StopExecuting(w)
  /\ UNCHANGED <<commands, nextToken, beatTxn, apiTxn, crashes>>

(* A tool call: tool_started and ensure_owned check the claim, then the    *)
(* MCP call goes out.  Read-only calls change nothing here; an attempt     *)
(* decides on at most one control call, at the label its model happens to  *)
(* reach it.                                                               *)
CheckCall(w, label) ==
  /\ worker[w].pc = "tool"
  /\ mainTxn[w] = NoTxn
  /\ label # None => ~worker[w].called
  /\ IF Owned(w, worker[w].run, worker[w].token)
     THEN /\ worker' = [worker EXCEPT ![w].pc = IF label = None THEN "exec" ELSE "call",
                                      ![w].label = label]
          /\ UNCHANGED beating
     ELSE StopExecuting(w)
  /\ UNCHANGED <<runs, commands, nextToken, mainTxn, beatTxn, apiTxn, crashes>>

(* The command is created once per idempotency key run_id:call_id.         *)
SendCall(w) ==
  /\ worker[w].pc = "call"
  /\ LET key == [run |-> worker[w].run, label |-> worker[w].label]
         known == \E c \in commands : c.run = key.run /\ c.label = key.label
     IN  commands' = IF known THEN commands
                     ELSE commands \cup {[run |-> key.run, label |-> key.label,
                                          token |-> worker[w].token]}
  /\ worker' = [worker EXCEPT ![w].pc = "exec", ![w].label = None,
                                  ![w].called = TRUE]
  /\ UNCHANGED <<runs, nextToken, mainTxn, beating, beatTxn, apiTxn, crashes>>

-----------------------------------------------------------------------------
(* The heartbeat task: _renew_lease, renew                                 *)

BeginRenew(w) ==
  /\ beating[w]
  /\ beatTxn[w] = NoBeat
  /\ IF Owned(w, worker[w].run, worker[w].token)
     THEN /\ beatTxn' = [beatTxn EXCEPT ![w] =
               [run |-> worker[w].run, token |-> worker[w].token]]
          /\ UNCHANGED beating
     ELSE /\ beating' = [beating EXCEPT ![w] = FALSE]
          /\ UNCHANGED beatTxn
  /\ UNCHANGED <<runs, commands, nextToken, worker, mainTxn, apiTxn, crashes>>

CommitRenew(w) ==
  /\ beatTxn[w] # NoBeat
  /\ runs' = [runs EXCEPT ![beatTxn[w].run].lease = "live"]
  /\ beatTxn' = [beatTxn EXCEPT ![w] = NoBeat]
  /\ UNCHANGED <<commands, nextToken, worker, mainTxn, beating, apiTxn, crashes>>

(* The process dies: its open transactions roll back.  A restarted worker  *)
(* has a new instance id; here it is the same worker, with nothing left of *)
(* its claim.                                                              *)
Crash(w) ==
  /\ crashes < MaxCrashes
  /\ worker[w].pc # "idle" \/ mainTxn[w] # NoTxn
  /\ crashes' = crashes + 1
  /\ StopExecuting(w)
  /\ mainTxn' = [mainTxn EXCEPT ![w] = NoTxn]
  /\ beatTxn' = [beatTxn EXCEPT ![w] = NoBeat]
  /\ UNCHANGED <<runs, commands, nextToken, apiTxn>>

-----------------------------------------------------------------------------
Transition(w) == \E s \in Active \ {"running"} : BeginTransition(w, s)
Complete(w)   == \E s \in {"succeeded", "skipped"} : BeginComplete(w, s)
Leave(w)      == Complete(w) \/ BeginFail(w)
Call(w)       == (\E l \in Labels \cup {None} : CheckCall(w, l)) \/ SendCall(w)
Poll(w)       == BeginRecover(w) \/ ClaimNothing(w) \/ \E r \in Runs : Claim(w, r)

WorkerStep(w) ==
  \/ Poll(w) \/ CommitRecover(w)
  \/ Transition(w) \/ Leave(w) \/ CommitOwned(w) \/ Call(w)
  \/ BeginRenew(w) \/ CommitRenew(w) \/ Crash(w)

Next ==
  \/ \E r \in Runs : Create(r) \/ BeginCancel(r) \/ LeaseExpires(r) \/ RetryDue(r)
  \/ CommitCancel
  \/ \E w \in Workers : WorkerStep(w)

(* Workers keep polling and executing; an execution cannot stay in its     *)
(* tool loop for ever (ai_tool_max_rounds), so leaving it is strongly      *)
(* fair.  A lease nobody holds any more runs out, a backoff passes.        *)
Held(r) ==
  \E w \in Workers : worker[w].run = r /\ worker[w].token = runs[r].token

Fairness ==
  /\ \A r \in Runs : WF_vars(RetryDue(r)) /\ WF_vars(~Held(r) /\ LeaseExpires(r))
  /\ WF_vars(CommitCancel)
  /\ \A w \in Workers :
       /\ WF_vars(BeginRecover(w)) /\ WF_vars(CommitRecover(w))
       /\ WF_vars(ClaimNothing(w) \/ \E r \in Runs : Claim(w, r))
       /\ WF_vars(CommitOwned(w)) /\ WF_vars(Call(w)) /\ SF_vars(Leave(w))
       /\ WF_vars(CommitRenew(w))

Spec == Init /\ [][Next]_vars
FairSpec == Spec /\ Fairness

-----------------------------------------------------------------------------
(* Safety *)

(* A row that a claim left in an active status carries a lease, so         *)
(* recover_expired can find it again: no run is active and unrecoverable.  *)
ActiveIsLeased == \A r \in Runs : runs[r].status \in Active => runs[r].lease # "none"

(* A run is never claimed more often than max_attempts allows, however     *)
(* failures, expiries and recoveries by several workers interleave.        *)
AttemptsBounded == \A r \in Runs : runs[r].attempts <= MaxAttempts

(* An open owned operation still matches the row's owner and token: what   *)
(* it commits, it commits for the current claim.                           *)
OpenTxnFenced ==
  \A w \in Workers :
    mainTxn[w].op \in OwnedOps =>
      LET row == runs[mainTxn[w].run]
      IN  row.owner = w /\ row.token = mainTxn[w].token

(* The result of a run is written by the claim that holds it.              *)
ResultByHolder ==
  [][\A r \in Runs : runs'[r].output # runs[r].output =>
        runs'[r].output = runs[r].token]_vars

(* Once it has ended, a run that nobody cancels never changes status.       *)
EndedIsFinal ==
  [][\A r \in Runs : runs[r].status \in Terminal /\ ~runs[r].unwanted =>
        runs'[r].status = runs[r].status]_vars

(* Retrying a run does not create a second hardware command.               *)
NoSecondHardwareCommand ==
  \A c, d \in commands : c.run = d.run => c = d

(* At most one worker holds a claim: a token a worker carries is its own,   *)
(* and a row that carries it names that worker and is the run it executes. *)
ClaimsExclusive ==
  \A w \in Workers :
    worker[w].token # 0 =>
      /\ \A v \in Workers \ {w} : worker[v].token # worker[w].token
      /\ \A r \in Runs : runs[r].token = worker[w].token =>
           runs[r].owner = w /\ worker[w].run = r

(* The queue of runs is leased work: an active run is held by its token.   *)
(* A run that its user cancels is none of it: the cancel is decided on a   *)
(* row that a worker may have claimed before the cancel commits.           *)
Absent == [state |-> "absent", holder |-> 0, result |-> 0]

Lease ==
  INSTANCE LeasedWork WITH
    Items <- Runs,
    granted <- nextToken,
    items <- [r \in Runs |->
      IF runs[r].unwanted THEN Absent
      ELSE [state |-> CASE runs[r].status = "absent"   -> "absent"
                        [] runs[r].status = "queued"   -> "ready"
                        [] runs[r].status \in Active   -> "held"
                        [] OTHER                       -> "closed",
            holder |-> runs[r].token, result |-> runs[r].output]]

(* Fencing: the run table implements leased work.                          *)
ImplementsLeasedWork == Lease!Spec

(* Liveness: every run that was created ends.                              *)
EveryRunEnds == \A r \in Runs : runs[r].status = "queued" ~> runs[r].status \in Terminal
=============================================================================
