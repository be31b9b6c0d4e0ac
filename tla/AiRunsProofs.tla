---------------------------- MODULE AiRunsProofs ----------------------------
(***************************************************************************)
(* Theorems about the queue of AI runs, for any number of workers, runs,   *)
(* attempts and crashes: its claims, its results and ends, and that it is  *)
(* leased work.                                                            *)
(***************************************************************************)
EXTENDS AiRuns, TLAPS

(* Setting a single column of a row yields a row.                          *)
LEMMA ColumnUpdates ==
  ASSUME NEW row \in Row
  PROVE  /\ \A s \in Status : [row EXCEPT !.status = s] \in Row
         /\ \A l \in {"none", "live", "expired"} : [row EXCEPT !.lease = l] \in Row
         /\ [row EXCEPT !.due = TRUE] \in Row
         /\ [row EXCEPT !.cancel = TRUE] \in Row
  BY DEF Row

(* A created row: queued, and wanted or not.                               *)
LEMMA CreatedRow ==
  ASSUME NEW row \in Row, NEW unwanted \in BOOLEAN
  PROVE  [row EXCEPT !.status = "queued", !.unwanted = unwanted] \in Row
<1>1. CASE unwanted = TRUE
  BY <1>1 DEF Row, Status
<1>2. CASE unwanted = FALSE
  BY <1>2 DEF Row, Status
<1> QED  BY <1>1, <1>2

(* The updates of a row yield rows.                                        *)
LEMMA RowUpdates ==
  ASSUME NEW row \in Row
  PROVE  /\ LeaseCleared(row) \in Row
         /\ Requeued(row) \in Row
         /\ \A s \in Status : Ended(row, s) \in Row
         /\ \A w \in Workers, t \in Nat : Claimed(row, w, t) \in Row
         /\ \A txn \in Txn : Written(row, txn) \in Row
<1>1. LeaseCleared(row) \in Row
  BY DEF Row, LeaseCleared
<1>2. Requeued(row) \in Row
  BY <1>1 DEF Row, Requeued, Status
<1>3. \A s \in Status : Ended(row, s) \in Row
  BY <1>1 DEF Row, Ended
<1>4. ASSUME NEW w \in Workers, NEW t \in Nat
      PROVE  Claimed(row, w, t) \in Row
  <2>1. row.attempts + 1 \in Nat /\ "running" \in Status
    BY DEF Row, Status, Active
  <2> QED
    BY <2>1 DEF Row, Claimed
<1>5. ASSUME NEW txn \in Txn
      PROVE  Written(row, txn) \in Row
  <2>1. txn.status \in Status /\ txn.token \in Nat
    BY DEF Txn
  <2>2. "succeeded" \in Status /\ "skipped" \in Status
    BY DEF Status, Terminal
  <2>3. \A s \in Status : [Ended(row, s) EXCEPT !.output = txn.token] \in Row
    BY <1>3, <2>1 DEF Row
  <2>4. [row EXCEPT !.status = txn.status] \in Row
    BY <2>1 DEF Row
  <2> QED
    BY <1>2, <1>3, <2>1, <2>2, <2>3, <2>4 DEF Written
<1> QED
  BY <1>1, <1>2, <1>3, <1>4, <1>5

(* The worker's records keep their shape.                                  *)
LEMMA LoopUpdates ==
  /\ Idle \in Loop
  /\ NoTxn \in Txn
  /\ \A r \in Runs, t \in Nat :
       [Idle EXCEPT !.pc = "exec", !.run = r, !.token = t] \in Loop
  /\ \A loop \in Loop :
       /\ \A pc \in {"idle", "claim", "exec", "tool", "call"} :
            /\ [loop EXCEPT !.pc = pc] \in Loop
            /\ \A l \in Labels \cup {None} :
                 [loop EXCEPT !.pc = pc, !.label = l] \in Loop
       /\ [loop EXCEPT !.pc = "exec", !.label = None, !.called = TRUE] \in Loop
<1>1. Idle \in Loop /\ NoTxn \in Txn
  BY DEF Loop, Idle, NoTxn, Txn, Status
<1>2. \A r \in Runs, t \in Nat :
        [Idle EXCEPT !.pc = "exec", !.run = r, !.token = t] \in Loop
  BY DEF Loop, Idle
<1>3. ASSUME NEW loop \in Loop, NEW pc \in {"idle", "claim", "exec", "tool", "call"}
      PROVE  [loop EXCEPT !.pc = pc] \in Loop
  BY DEF Loop
<1>4. ASSUME NEW loop \in Loop, NEW pc \in {"idle", "claim", "exec", "tool", "call"},
             NEW l \in Labels \cup {None}
      PROVE  [loop EXCEPT !.pc = pc, !.label = l] \in Loop
  BY DEF Loop
<1>5. ASSUME NEW loop \in Loop
      PROVE  [loop EXCEPT !.pc = "exec", !.label = None, !.called = TRUE] \in Loop
  BY DEF Loop
<1> QED
  BY <1>1, <1>2, <1>3, <1>4, <1>5

LEMMA LoopFields ==
  ASSUME NEW loop \in Loop, NEW pc \in {"idle", "claim", "exec", "tool", "call"},
         NEW l \in Labels \cup {None}
  PROVE  /\ [loop EXCEPT !.pc = pc].pc = pc
         /\ [loop EXCEPT !.pc = pc].run = loop.run
         /\ [loop EXCEPT !.pc = pc].token = loop.token
         /\ [loop EXCEPT !.pc = pc, !.label = l].pc = pc
         /\ [loop EXCEPT !.pc = pc, !.label = l].run = loop.run
         /\ [loop EXCEPT !.pc = pc, !.label = l].token = loop.token
         /\ [loop EXCEPT !.pc = pc, !.label = l].label = l
  BY DEF Loop

LEMMA StopTyped ==
  ASSUME TypeOK, NEW w \in Workers, StopExecuting(w)
  PROVE  /\ worker' \in [Workers -> Loop]
         /\ \A v \in Workers : LoopOK(worker'[v])
         /\ beating' \in [Workers -> BOOLEAN]
  BY LoopUpdates DEF TypeOK, StopExecuting, LoopOK, Idle

-----------------------------------------------------------------------------
(* Every step keeps the shapes of TypeOK.                                   *)
LEMMA NextType == TypeOK /\ [Next]_vars => TypeOK'
<1> USE ConstantsAssumption
<1> SUFFICES ASSUME TypeOK, [Next]_vars PROVE TypeOK'
  OBVIOUS
<1> USE DEF TypeOK
<1>1. ASSUME NEW r \in Runs, Create(r) PROVE TypeOK'
  <2>1. PICK unwanted \in BOOLEAN :
          runs' = [runs EXCEPT ![r].status = "queued", ![r].unwanted = unwanted]
    BY <1>1, Zenon DEF Create
  <2>2. [runs[r] EXCEPT !.status = "queued", !.unwanted = unwanted] \in Row
    BY CreatedRow
  <2>3. runs' \in [Runs -> Row]
    BY <2>1, <2>2
  <2> QED
    BY <1>1, <2>3 DEF Create
<1>2. ASSUME NEW r \in Runs, BeginCancel(r) PROVE TypeOK'
  BY <1>2 DEF BeginCancel
<1>3. ASSUME NEW r \in Runs, LeaseExpires(r) PROVE TypeOK'
  <2>1. [runs[r] EXCEPT !.lease = "expired"] \in Row
    BY ColumnUpdates
  <2> QED
    BY <1>3, <2>1 DEF LeaseExpires
<1>4. ASSUME NEW r \in Runs, RetryDue(r) PROVE TypeOK'
  <2>1. [runs[r] EXCEPT !.due = TRUE] \in Row
    BY ColumnUpdates
  <2> QED
    BY <1>4, <2>1 DEF RetryDue
<1>5. CASE CommitCancel
  <2>1. \A r \in Runs : /\ [runs[r] EXCEPT !.status = "cancelled"] \in Row
                        /\ [runs[r] EXCEPT !.cancel = TRUE] \in Row
    BY ColumnUpdates DEF Status, Terminal
  <2>2. runs' \in [Runs -> Row]
    BY <1>5, <2>1 DEF CommitCancel
  <2> QED
    BY <1>5, <2>2 DEF CommitCancel, NoCancel
<1>6. ASSUME NEW w \in Workers, BeginRecover(w) PROVE TypeOK'
  BY <1>6 DEF BeginRecover, Txn, NoTxn, Status
<1>7. ASSUME NEW w \in Workers, CommitRecover(w) PROVE TypeOK'
  <2>1. runs' \in [Runs -> Row]
    BY <1>7, RowUpdates DEF CommitRecover, Status, Terminal
  <2>2. worker' \in [Workers -> Loop] /\ mainTxn' \in [Workers -> Txn]
    BY <1>7, LoopUpdates DEF CommitRecover
  <2>3. \A v \in Workers : LoopOK(worker'[v])
    BY <1>7 DEF CommitRecover, LoopOK, Loop
  <2> QED
    BY <1>7, <2>1, <2>2, <2>3 DEF CommitRecover
<1>8. ASSUME NEW w \in Workers, NEW r \in Runs, Claim(w, r) PROVE TypeOK'
  <2>1. runs' \in [Runs -> Row]
    BY <1>8, RowUpdates DEF Claim
  <2>2. worker' \in [Workers -> Loop]
    BY <1>8, LoopUpdates DEF Claim
  <2>3. \A v \in Workers : LoopOK(worker'[v])
    BY <1>8 DEF Claim, LoopOK, Loop, Idle
  <2> QED
    BY <1>8, <2>1, <2>2, <2>3 DEF Claim
<1>9. ASSUME NEW w \in Workers, ClaimNothing(w) PROVE TypeOK'
  <2>1. worker' \in [Workers -> Loop]
    BY <1>9, LoopUpdates DEF ClaimNothing
  <2>2. \A v \in Workers : LoopOK(worker'[v])
    BY <1>9 DEF ClaimNothing, LoopOK, Loop, Idle
  <2> QED
    BY <1>9, <2>1, <2>2 DEF ClaimNothing
<1>10. ASSUME NEW w \in Workers, NEW op \in OwnedOps, NEW s \in Status,
              NEW pc \in {"exec", "tool"}, BeginOwned(w, op, s, pc)
       PROVE  TypeOK'
  <2>1. CASE Owned(w, worker[w].run, worker[w].token)
    <3> DEFINE txn == [NoTxn EXCEPT !.op = op, !.run = worker[w].run,
                         !.token = worker[w].token,
                         !.status = IF runs[worker[w].run].cancel THEN "cancelled" ELSE s]
    <3>1. txn \in Txn
      BY DEF Txn, NoTxn, Loop, Status, Terminal
    <3>2. mainTxn' = [mainTxn EXCEPT ![w] = txn] /\ UNCHANGED beating
      BY <1>10, <2>1 DEF BeginOwned
    <3>3. worker' \in [Workers -> Loop]
      <4>1. [worker[w] EXCEPT !.pc = pc] \in Loop
        BY LoopUpdates
      <4> QED
        BY <1>10, <2>1, <4>1 DEF BeginOwned
    <3>4. \A v \in Workers : LoopOK(worker'[v])
      <4>1. worker[w].run \in Runs
        BY <1>10 DEF BeginOwned, LoopOK
      <4>2. LoopOK([worker[w] EXCEPT !.pc = pc])
        BY <4>1, LoopFields DEF LoopOK
      <4> QED
        BY <1>10, <2>1, <4>2 DEF BeginOwned
    <3> QED
      BY <1>10, <3>1, <3>2, <3>3, <3>4 DEF BeginOwned
  <2>2. CASE ~Owned(w, worker[w].run, worker[w].token)
    BY <1>10, <2>2, StopTyped DEF BeginOwned
  <2> QED
    BY <2>1, <2>2
<1>11. ASSUME NEW w \in Workers, NEW s \in Active, BeginTransition(w, s) PROVE TypeOK'
  <2>1. PICK t \in Status, pc \in {"exec", "tool"} : BeginOwned(w, "transition", t, pc)
    BY <1>11 DEF BeginTransition, Status
  <2> QED
    BY <1>10, <2>1 DEF OwnedOps
<1>12. ASSUME NEW w \in Workers, NEW s \in {"succeeded", "skipped"}, BeginComplete(w, s)
       PROVE  TypeOK'
  BY <1>10, <1>12 DEF BeginComplete, OwnedOps, Status, Terminal
<1>13. ASSUME NEW w \in Workers, BeginFail(w) PROVE TypeOK'
  <2>1. PICK t \in Status : BeginOwned(w, "fail", t, "exec")
    BY <1>13 DEF BeginFail, Status, Terminal
  <2> QED
    BY <1>10, <2>1 DEF OwnedOps
<1>14. ASSUME NEW w \in Workers, CommitOwned(w) PROVE TypeOK'
  <2>1. runs' \in [Runs -> Row]
    BY <1>14, RowUpdates DEF CommitOwned
  <2>2. /\ worker' \in [Workers -> Loop]
        /\ \A v \in Workers : LoopOK(worker'[v])
        /\ beating' \in [Workers -> BOOLEAN]
    BY <1>14, StopTyped DEF CommitOwned
  <2>3. mainTxn' \in [Workers -> Txn]
    BY <1>14 DEF CommitOwned, Txn, NoTxn, Status
  <2> QED
    BY <1>14, <2>1, <2>2, <2>3 DEF CommitOwned
<1>15. ASSUME NEW w \in Workers, NEW l \in Labels \cup {None}, CheckCall(w, l)
       PROVE  TypeOK'
  <2>1. worker' \in [Workers -> Loop] /\ beating' \in [Workers -> BOOLEAN]
    <3> DEFINE pc == IF l = None THEN "exec" ELSE "call"
    <3>1. [worker[w] EXCEPT !.pc = pc, !.label = l] \in Loop
      BY LoopUpdates
    <3>2. CASE Owned(w, worker[w].run, worker[w].token)
      <4>1. /\ worker' = [worker EXCEPT ![w] = [worker[w] EXCEPT !.pc = pc, !.label = l]]
            /\ UNCHANGED beating
        BY <1>15, <3>2 DEF CheckCall
      <4> HIDE DEF pc
      <4> QED
        BY <3>1, <4>1
    <3>3. CASE ~Owned(w, worker[w].run, worker[w].token)
      BY <1>15, <3>3, StopTyped DEF CheckCall
    <3> QED
      BY <3>2, <3>3
  <2>2. \A v \in Workers : LoopOK(worker'[v])
    <3>1. CASE Owned(w, worker[w].run, worker[w].token)
      <4>1. PICK pc \in {"exec", "call"} :
              /\ pc = "call" => l # None
              /\ worker' = [worker EXCEPT ![w] = [worker[w] EXCEPT !.pc = pc, !.label = l]]
        BY <1>15, <3>1 DEF CheckCall
      <4>2. worker[w].run \in Runs
        BY <1>15 DEF CheckCall, LoopOK
      <4>3. LoopOK([worker[w] EXCEPT !.pc = pc, !.label = l])
        BY <4>1, <4>2, LoopFields DEF LoopOK
      <4> QED
        BY <4>1, <4>3
    <3>2. CASE ~Owned(w, worker[w].run, worker[w].token)
      BY <1>15, <3>2, StopTyped DEF CheckCall
    <3> QED
      BY <3>1, <3>2
  <2> QED
    BY <1>15, <2>1, <2>2 DEF CheckCall
<1>16. ASSUME NEW w \in Workers, SendCall(w) PROVE TypeOK'
  <2>1. worker' \in [Workers -> Loop]
    BY <1>16, LoopUpdates DEF SendCall
  <2>2. worker[w].run \in Runs /\ worker[w].label \in Labels /\ worker[w].token \in Nat
    BY <1>16 DEF SendCall, LoopOK, Loop
  <2>3. commands' \in SUBSET [run: Runs, label: Labels, token: Nat]
    BY <1>16, <2>2 DEF SendCall
  <2>4. \A v \in Workers : LoopOK(worker'[v])
    BY <1>16 DEF SendCall, LoopOK, Loop
  <2> QED
    BY <1>16, <2>1, <2>3, <2>4 DEF SendCall
<1>17. ASSUME NEW w \in Workers, BeginRenew(w) PROVE TypeOK'
  <2>1. worker[w].run \in Runs \cup {None} /\ worker[w].token \in Nat
    BY DEF Loop
  <2>2. beatTxn' \in [Workers -> [run: Runs \cup {None}, token: Nat]]
    BY <1>17, <2>1 DEF BeginRenew
  <2>3. beating' \in [Workers -> BOOLEAN]
    BY <1>17 DEF BeginRenew
  <2> QED
    BY <1>17, <2>2, <2>3 DEF BeginRenew
<1>18. ASSUME NEW w \in Workers, CommitRenew(w) PROVE TypeOK'
  <2>1. \A r \in Runs : [runs[r] EXCEPT !.lease = "live"] \in Row
    BY ColumnUpdates
  <2>2. runs' \in [Runs -> Row]
    BY <1>18, <2>1 DEF CommitRenew
  <2> QED
    BY <1>18, <2>2 DEF CommitRenew, NoBeat
<1>19. ASSUME NEW w \in Workers, Crash(w) PROVE TypeOK'
  <2>1. mainTxn' \in [Workers -> Txn]
    BY <1>19, LoopUpdates DEF Crash
  <2>2. beatTxn' \in [Workers -> [run: Runs \cup {None}, token: Nat]]
    BY <1>19 DEF Crash, NoBeat
  <2>3. crashes' \in 0..MaxCrashes
    BY <1>19 DEF Crash
  <2> QED
    BY <1>19, StopTyped, <2>1, <2>2, <2>3 DEF Crash
<1>20. CASE UNCHANGED vars
  BY <1>20 DEF vars
<1> QED
  BY <1>1, <1>2, <1>3, <1>4, <1>5, <1>6, <1>7, <1>8, <1>9, <1>11, <1>12, <1>13,
     <1>14, <1>15, <1>16, <1>17, <1>18, <1>19, <1>20
  DEF Next, WorkerStep, Poll, Transition, Leave, Complete, Call, Active

(* Type correctness: the table, the transactions and the workers keep the  *)
(* shapes declared in TypeOK.                                              *)
THEOREM TypeCorrect == Spec => []TypeOK
<1>1. Init => TypeOK
  BY ConstantsAssumption
     DEF Init, TypeOK, LoopOK, Row, Status, Active, Loop, Idle, Txn, NoTxn, NoBeat, NoCancel
<1> QED
  BY <1>1, NextType, PTL DEF Spec

-----------------------------------------------------------------------------
(* Claims are exclusive because their tokens are: no token in use has the  *)
(* number of the next one.                                                 *)
TokenInv ==
  /\ \A w \in Workers : worker[w].token < nextToken
  /\ \A r \in Runs : runs[r].token < nextToken
  /\ ClaimsExclusive

(* Every update of a row but a claim keeps its owner and token, or clears  *)
(* the token.                                                              *)
LEMMA TokenKeptOrCleared ==
  ASSUME NEW row \in Row
  PROVE  /\ \A s : Ended(row, s).token = 0
         /\ Requeued(row).token = 0
         /\ \A txn \in Txn : \/ Written(row, txn).token = 0
                              \/ /\ Written(row, txn).token = row.token
                                 /\ Written(row, txn).owner = row.owner
<1>1. LeaseCleared(row).token = 0 /\ LeaseCleared(row) \in Row
  BY RowUpdates DEF LeaseCleared, Row
<1>2. /\ \A s : Ended(row, s).token = 0
      /\ Requeued(row).token = 0
  BY <1>1 DEF Ended, Requeued, Row
<1>3. \A s, x : [Ended(row, s) EXCEPT !.output = x].token = 0
  BY <1>1 DEF Ended, Row
<1>4. \A s : [row EXCEPT !.status = s].token = row.token /\ [row EXCEPT !.status = s].owner = row.owner
  BY DEF Row
<1> QED
  BY <1>2, <1>3, <1>4 DEF Written

(* At most one worker holds the claim of a run, in every interleaving of   *)
(* paused workers: SKIP LOCKED and fresh tokens make claim_next exclusive. *)
THEOREM ClaimsAreExclusive == Spec => []ClaimsExclusive
<1>1. Init => TokenInv
  BY DEF Init, TokenInv, ClaimsExclusive, Idle
<1>2. TypeOK /\ TokenInv /\ [Next]_vars => TokenInv'
  <2> SUFFICES ASSUME TypeOK, TokenInv, [Next]_vars PROVE TokenInv'
    OBVIOUS
  <2>1. nextToken \in Nat \ {0} /\ \A r \in Runs : runs[r].token \in Nat
    BY DEF TypeOK, Row
  <2>2. \A w \in Workers : worker[w].token \in Nat
    BY DEF TypeOK, Loop
  (* A step that issues no token preserves TokenInv when it only clears    *)
  (* tokens and stops workers.                                             *)
  <2>3. ASSUME nextToken' = nextToken,
               \A w \in Workers : \/ worker'[w].token = 0
                                  \/ /\ worker'[w].token = worker[w].token
                                     /\ worker'[w].run = worker[w].run,
               \A r \in Runs : \/ runs'[r].token = 0
                               \/ /\ runs'[r].token = runs[r].token
                                  /\ runs'[r].owner = runs[r].owner
        PROVE  TokenInv'
    BY <2>1, <2>2, <2>3 DEF TokenInv, ClaimsExclusive
  <2>4. ASSUME NEW w \in Workers, NEW r \in Runs, Claim(w, r) PROVE TokenInv'
    <3>1. /\ runs'[r].token = nextToken /\ runs'[r].owner = w
          /\ \A q \in Runs \ {r} : runs'[q] = runs[q]
      BY <2>4 DEF Claim, Claimed, TypeOK, Row
    <3>2. /\ worker'[w].token = nextToken /\ worker'[w].run = r
          /\ \A v \in Workers \ {w} : worker'[v] = worker[v]
      BY <2>4 DEF Claim, TypeOK, Loop, Idle
    <3>3. nextToken' = nextToken + 1
      BY <2>4 DEF Claim
    <3> QED
      BY <2>1, <2>2, <3>1, <3>2, <3>3 DEF TokenInv, ClaimsExclusive
  <2>5. ASSUME NEW w \in Workers, StopExecuting(w)
        PROVE  \A v \in Workers : worker'[v].token = 0 \/ worker'[v] = worker[v]
    BY <2>5 DEF StopExecuting, Idle, TypeOK
  <2>6. ASSUME NEW r \in Runs, Create(r) \/ BeginCancel(r) \/ LeaseExpires(r) \/ RetryDue(r)
        PROVE  TokenInv'
    <3>1. \A q \in Runs : runs'[q].token = runs[q].token /\ runs'[q].owner = runs[q].owner
      <4>1. CASE Create(r)
        BY <4>1 DEF Create, TypeOK, Row
      <4>2. CASE BeginCancel(r)
        BY <4>2 DEF BeginCancel
      <4>3. CASE LeaseExpires(r)
        BY <4>3 DEF LeaseExpires, TypeOK, Row
      <4>4. CASE RetryDue(r)
        BY <4>4 DEF RetryDue, TypeOK, Row
      <4> QED
        BY <2>6, <4>1, <4>2, <4>3, <4>4
    <3>2. worker' = worker /\ nextToken' = nextToken
      BY <2>6 DEF Create, BeginCancel, LeaseExpires, RetryDue
    <3> QED
      BY <2>3, <3>1, <3>2
  <2>7. CASE CommitCancel
    BY <2>3, <2>7 DEF CommitCancel, TypeOK, Row
  <2>8. ASSUME NEW w \in Workers, BeginRecover(w) PROVE TokenInv'
    BY <2>3, <2>8 DEF BeginRecover
  <2>9. ASSUME NEW w \in Workers, CommitRecover(w) PROVE TokenInv'
    <3>1. \A r \in Runs : runs'[r].token = 0 \/ runs'[r] = runs[r]
      BY <2>9, TokenKeptOrCleared DEF CommitRecover, TypeOK
    <3>2. \A v \in Workers : worker'[v].token = worker[v].token /\ worker'[v].run = worker[v].run
      BY <2>9 DEF CommitRecover, TypeOK, Loop
    <3> QED
      BY <2>3, <2>9, <3>1, <3>2 DEF CommitRecover
  <2>10. ASSUME NEW w \in Workers, ClaimNothing(w) PROVE TokenInv'
    BY <2>3, <2>10 DEF ClaimNothing, Idle, TypeOK
  <2>11. ASSUME NEW w \in Workers, NEW op, NEW s, NEW pc, BeginOwned(w, op, s, pc)
         PROVE  TokenInv'
    <3>1. \A v \in Workers : \/ worker'[v].token = 0
                             \/ /\ worker'[v].token = worker[v].token
                                /\ worker'[v].run = worker[v].run
      BY <2>5, <2>11 DEF BeginOwned, TypeOK, Loop
    <3> QED
      BY <2>3, <2>11, <3>1 DEF BeginOwned
  <2>12. ASSUME NEW w \in Workers, CommitOwned(w) PROVE TokenInv'
    <3>1. \A r \in Runs : \/ runs'[r].token = 0
                          \/ /\ runs'[r].token = runs[r].token
                             /\ runs'[r].owner = runs[r].owner
      BY <2>12, TokenKeptOrCleared DEF CommitOwned, TypeOK
    <3>2. \A v \in Workers : worker'[v].token = 0 \/ worker'[v] = worker[v]
      BY <2>5, <2>12 DEF CommitOwned
    <3> QED
      BY <2>3, <2>12, <3>1, <3>2 DEF CommitOwned
  <2>13. ASSUME NEW w \in Workers, NEW l \in Labels \cup {None}, CheckCall(w, l)
         PROVE  TokenInv'
    <3>1. \A v \in Workers : \/ worker'[v].token = 0
                             \/ /\ worker'[v].token = worker[v].token
                                /\ worker'[v].run = worker[v].run
      <4>1. CASE Owned(w, worker[w].run, worker[w].token)
        <5>1. PICK pc \in {"exec", "call"} :
                worker' = [worker EXCEPT ![w] = [worker[w] EXCEPT !.pc = pc, !.label = l]]
          BY <2>13, <4>1 DEF CheckCall, TypeOK
        <5>2. worker \in [Workers -> Loop]
          BY DEF TypeOK
        <5> QED
          BY <5>1, <5>2, LoopFields
      <4>2. CASE ~Owned(w, worker[w].run, worker[w].token)
        BY <2>5, <2>13, <4>2 DEF CheckCall
      <4> QED
        BY <4>1, <4>2
    <3> QED
      BY <2>3, <2>13, <3>1 DEF CheckCall
  <2>14. ASSUME NEW w \in Workers, SendCall(w) PROVE TokenInv'
    <3>1. \A v \in Workers : worker'[v].token = worker[v].token /\ worker'[v].run = worker[v].run
      BY <2>14 DEF SendCall, TypeOK, Loop
    <3> QED
      BY <2>3, <2>14, <3>1 DEF SendCall
  <2>15. ASSUME NEW w \in Workers, BeginRenew(w) PROVE TokenInv'
    BY <2>3, <2>15 DEF BeginRenew
  <2>16. ASSUME NEW w \in Workers, CommitRenew(w) PROVE TokenInv'
    BY <2>3, <2>16 DEF CommitRenew, TypeOK, Row
  <2>17. ASSUME NEW w \in Workers, Crash(w) PROVE TokenInv'
    BY <2>3, <2>5, <2>17 DEF Crash
  <2>18. CASE UNCHANGED vars
    BY <2>3, <2>18 DEF vars
  <2> QED
    BY <2>4, <2>6, <2>7, <2>8, <2>9, <2>10, <2>11, <2>12, <2>13, <2>14, <2>15, <2>16,
       <2>17, <2>18
    DEF Next, WorkerStep, Poll, Transition, Leave, Complete, Call, BeginTransition,
        BeginComplete, BeginFail
<1>3. TokenInv => ClaimsExclusive
  BY DEF TokenInv
<1> QED
  BY <1>1, <1>2, <1>3, TypeCorrect, PTL DEF Spec

-----------------------------------------------------------------------------
(* Fencing under Prompt: while a transaction of the claimant is open, the  *)
(* lease it found live stays live; while a recovery is open, its runs are  *)
(* neither held nor due again.                                             *)
FenceInv ==
  /\ \A w \in Workers :
       mainTxn[w].op \in OwnedOps =>
         /\ runs[mainTxn[w].run].owner = w
         /\ runs[mainTxn[w].run].token = mainTxn[w].token
         /\ runs[mainTxn[w].run].lease = "live"
         /\ runs[mainTxn[w].run].status \notin {"absent", "queued"}
         /\ mainTxn[w].run \in Runs
  /\ \A r \in Runs :
       RecoveryOpen(r) =>
         /\ runs[r].lease # "live"
         /\ runs[r].status # "absent"
         /\ runs[r].status = "queued" => ~runs[r].due
         /\ \A w \in Workers : beatTxn[w].run # r
  /\ \A w \in Workers, r \in Runs :
       beatTxn[w].run = r => runs[r].lease # "expired"

(* What a recovery or an owned operation leaves in a row.                  *)
LEMMA WrittenRows ==
  ASSUME NEW row \in Row
  PROVE  /\ Requeued(row).lease = "none" /\ Requeued(row).status = "queued"
         /\ Requeued(row).due = FALSE
         /\ \A s \in Status : Ended(row, s).lease = "none" /\ Ended(row, s).status = s
         /\ \A txn \in Txn :
              \/ Written(row, txn).lease = "none"
              \/ Written(row, txn).lease = row.lease
<1>1. LeaseCleared(row).lease = "none" /\ LeaseCleared(row) \in Row
  BY RowUpdates DEF LeaseCleared, Row
<1>2. /\ Requeued(row).lease = "none" /\ Requeued(row).status = "queued"
      /\ Requeued(row).due = FALSE
  BY <1>1 DEF Requeued, Row
<1>3. \A s \in Status : Ended(row, s).lease = "none" /\ Ended(row, s).status = s
  BY <1>1 DEF Ended, Row
<1>4. \A s, x : [Ended(row, s) EXCEPT !.output = x].lease = "none"
  BY <1>1 DEF Ended, Row
<1>5. \A s : Ended(row, s).lease = "none" /\ [row EXCEPT !.status = s].lease = row.lease
  BY <1>1 DEF Ended, Row
<1> QED
  BY <1>2, <1>3, <1>4, <1>5 DEF Written

LEMMA FenceInductive ==
  ASSUME Prompt, TypeOK, FenceInv, [Next]_vars
  PROVE  FenceInv'
<1> USE ConstantsAssumption
<1> DEFINE Open(w) == mainTxn[w].op \in OwnedOps
           Rec(w, r) == mainTxn[w].op = "recover" /\ r \in mainTxn[w].rows
<1>0. \A r \in Runs : runs[r] \in Row
  BY DEF TypeOK
(* Steps that open no transaction and change the rows of no open one.      *)
<1>1. ASSUME \A w \in Workers : mainTxn'[w] = mainTxn[w] \/ mainTxn'[w] = NoTxn,
             \A w \in Workers : beatTxn'[w] = beatTxn[w] \/ beatTxn'[w] = NoBeat,
             \A r \in Runs :
               runs'[r] # runs[r] =>
                 /\ \A w \in Workers : Open(w) /\ mainTxn[w].run = r =>
                      \/ mainTxn'[w] = NoTxn
                      \/ /\ runs'[r].owner = runs[r].owner
                         /\ runs'[r].token = runs[r].token
                         /\ runs'[r].lease = "live"
                         /\ runs'[r].status \notin {"absent", "queued"}
                 /\ \A w \in Workers : Rec(w, r) =>
                      \/ mainTxn'[w] = NoTxn
                      \/ /\ runs'[r].lease # "live"
                         /\ runs'[r].status # "absent"
                         /\ runs'[r].status = "queued" => ~runs'[r].due
                 /\ \A w \in Workers : beatTxn'[w].run = r => runs'[r].lease # "expired"
      PROVE  FenceInv'
  <2>1. NoTxn.op \notin OwnedOps /\ NoTxn.op # "recover" /\ NoBeat.run \notin Runs
    BY DEF NoTxn, NoBeat, OwnedOps
  <2>2. ASSUME NEW w \in Workers, mainTxn'[w].op \in OwnedOps
        PROVE  /\ runs'[mainTxn'[w].run].owner = w
               /\ runs'[mainTxn'[w].run].token = mainTxn'[w].token
               /\ runs'[mainTxn'[w].run].lease = "live"
               /\ runs'[mainTxn'[w].run].status \notin {"absent", "queued"}
               /\ mainTxn'[w].run \in Runs
    <3>1. mainTxn'[w] = mainTxn[w] /\ Open(w) /\ mainTxn'[w] # NoTxn
      BY <1>1, <2>1, <2>2
    <3>2. mainTxn[w].run \in Runs
      BY <3>1 DEF FenceInv
    <3>3. CASE runs'[mainTxn[w].run] = runs[mainTxn[w].run]
      BY <3>1, <3>2, <3>3 DEF FenceInv
    <3>4. CASE runs'[mainTxn[w].run] # runs[mainTxn[w].run]
      BY <1>1, <3>1, <3>2, <3>4 DEF FenceInv
    <3> QED
      BY <3>3, <3>4
  <2>3. ASSUME NEW r \in Runs, NEW v \in Workers,
               mainTxn'[v].op = "recover", r \in mainTxn'[v].rows
        PROVE  /\ runs'[r].lease # "live"
               /\ runs'[r].status # "absent"
               /\ runs'[r].status = "queued" => ~runs'[r].due
               /\ \A w \in Workers : beatTxn'[w].run # r
    <3>1. mainTxn'[v] = mainTxn[v] /\ Rec(v, r) /\ mainTxn'[v] # NoTxn
      BY <1>1, <2>1, <2>3
    <3>2. RecoveryOpen(r)
      BY <3>1 DEF RecoveryOpen
    <3>3. \A w \in Workers : beatTxn'[w].run # r
      BY <1>1, <2>1, <3>2 DEF FenceInv
    <3>4. CASE runs'[r] = runs[r]
      BY <3>2, <3>3, <3>4 DEF FenceInv
    <3>5. CASE runs'[r] # runs[r]
      BY <1>1, <3>1, <3>3, <3>5
    <3> QED
      BY <3>4, <3>5
  <2>4. ASSUME NEW w \in Workers, NEW r \in Runs, beatTxn'[w].run = r
        PROVE  runs'[r].lease # "expired"
    <3>1. beatTxn[w].run = r
      BY <1>1, <2>1, <2>4
    <3> QED
      BY <1>1, <2>4, <3>1 DEF FenceInv
  <2> QED
    BY <2>2, <2>3, <2>4 DEF FenceInv, RecoveryOpen
(* Steps of the clock and the gateway.                                     *)
<1>2. ASSUME NEW r \in Runs, Create(r) PROVE FenceInv'
  <2>1. /\ runs[r].status = "absent" /\ runs'[r].lease = runs[r].lease
        /\ \A q \in Runs \ {r} : runs'[q] = runs[q]
        /\ UNCHANGED <<mainTxn, beatTxn>>
    BY <1>0, <1>2 DEF Create, TypeOK, Row
  <2> QED
    BY <1>1, <2>1 DEF FenceInv, RecoveryOpen
<1>3. CASE CommitCancel
  <2>1. UNCHANGED <<mainTxn, beatTxn>>
    BY <1>3 DEF CommitCancel
  <2>2. ASSUME NEW r \in Runs, runs'[r] # runs[r]
        PROVE  /\ runs'[r].owner = runs[r].owner
               /\ runs'[r].token = runs[r].token
               /\ runs'[r].lease = runs[r].lease
               /\ runs'[r].due = runs[r].due
               /\ runs'[r].status = runs[r].status \/ runs'[r].status = "cancelled"
    BY <1>0, <1>3, <2>2 DEF CommitCancel, TypeOK, Row
  <2> QED
    BY <1>1, <2>1, <2>2 DEF FenceInv, RecoveryOpen
<1>4. ASSUME NEW r \in Runs, LeaseExpires(r) PROVE FenceInv'
  <2>1. /\ runs[r].lease = "live" /\ ~OwnedTxnOpen(r)
        /\ \A q \in Runs \ {r} : runs'[q] = runs[q]
        /\ UNCHANGED <<mainTxn, beatTxn>>
    BY <1>0, <1>4 DEF LeaseExpires, TypeOK
  <2> QED
    BY <1>1, <2>1 DEF FenceInv, RecoveryOpen, OwnedTxnOpen
<1>5. ASSUME NEW r \in Runs, RetryDue(r) PROVE FenceInv'
  <2>1. /\ runs'[r].owner = runs[r].owner /\ runs'[r].token = runs[r].token
        /\ runs'[r].lease = runs[r].lease /\ runs'[r].status = runs[r].status
        /\ ~RecoveryOpen(r)
        /\ \A q \in Runs \ {r} : runs'[q] = runs[q]
        /\ UNCHANGED <<mainTxn, beatTxn>>
    BY <1>0, <1>5 DEF RetryDue, TypeOK, Row
  <2> QED
    BY <1>1, <2>1 DEF FenceInv, RecoveryOpen
(* Steps that write rows.                                                  *)
<1>6. ASSUME NEW w \in Workers, CommitRecover(w) PROVE FenceInv'
  <2>1. /\ \A v \in Workers : mainTxn'[v] = mainTxn[v] \/ mainTxn'[v] = NoTxn
        /\ UNCHANGED beatTxn
    BY <1>6 DEF CommitRecover, TypeOK
  <2>2. ASSUME NEW r \in Runs, runs'[r] # runs[r]
        PROVE  /\ RecoveryOpen(r)
               /\ runs'[r].lease = "none"
               /\ runs'[r].status \in {"failed", "queued"}
               /\ runs'[r].status = "queued" => ~runs'[r].due
    <3>1. r \in mainTxn[w].rows
      BY <1>6, <2>2 DEF CommitRecover
    <3>2. runs'[r] = Ended(runs[r], "failed") \/ runs'[r] = Requeued(runs[r])
      BY <1>6, <3>1 DEF CommitRecover
    <3>3. RecoveryOpen(r)
      BY <1>6, <3>1 DEF CommitRecover, RecoveryOpen
    <3>4. /\ Requeued(runs[r]).lease = "none" /\ Requeued(runs[r]).status = "queued"
          /\ ~Requeued(runs[r]).due
          /\ Ended(runs[r], "failed").lease = "none"
          /\ Ended(runs[r], "failed").status = "failed"
      <4>1. "failed" \in Status /\ runs[r] \in Row
        BY <1>0 DEF Status, Terminal
      <4>2. /\ Requeued(runs[r]).lease = "none" /\ Requeued(runs[r]).status = "queued"
            /\ Requeued(runs[r]).due = FALSE
        BY <4>1, WrittenRows
      <4>3. /\ Ended(runs[r], "failed").lease = "none"
            /\ Ended(runs[r], "failed").status = "failed"
        BY <4>1, WrittenRows
      <4> QED
        BY <4>2, <4>3
    <3> QED
      BY <3>2, <3>3, <3>4
  <2>3. ASSUME NEW r \in Runs, RecoveryOpen(r)
        PROVE  /\ \A v \in Workers : ~(Open(v) /\ mainTxn[v].run = r)
               /\ \A v \in Workers : beatTxn'[v].run # r
    BY <2>1, <2>3 DEF FenceInv
  <2> HIDE DEF Open, Rec
  <2> QED
    BY <1>1, <2>1, <2>2, <2>3
<1>7. ASSUME NEW w \in Workers, NEW r \in Runs, Claim(w, r) PROVE FenceInv'
  <2>1. /\ runs[r].status = "queued" /\ runs[r].due /\ runs'[r].lease = "live"
        /\ \A q \in Runs \ {r} : runs'[q] = runs[q]
        /\ UNCHANGED <<mainTxn, beatTxn>>
    BY <1>0, <1>7 DEF Claim, Claimable, Claimed, TypeOK, Row
  <2> QED
    BY <1>1, <2>1 DEF FenceInv, RecoveryOpen
<1>8. ASSUME NEW w \in Workers, CommitOwned(w) PROVE FenceInv'
  <2> DEFINE r == mainTxn[w].run
  <2>1. /\ r \in Runs /\ runs[r].lease = "live" /\ runs[r].owner = w
    BY <1>8 DEF CommitOwned, FenceInv
  <2>2. /\ mainTxn'[w] = NoTxn
        /\ \A v \in Workers \ {w} : mainTxn'[v] = mainTxn[v]
        /\ \A q \in Runs \ {r} : runs'[q] = runs[q]
        /\ runs'[r] = Written(runs[r], mainTxn[w])
        /\ UNCHANGED beatTxn
    BY <1>8, <2>1 DEF CommitOwned, TypeOK
  <2>3. runs'[r].lease \in {"none", "live"}
    <3>1. runs[r] \in Row /\ mainTxn[w] \in Txn
      BY <1>0, <2>1 DEF TypeOK
    <3>2. \/ Written(runs[r], mainTxn[w]).lease = "none"
          \/ Written(runs[r], mainTxn[w]).lease = runs[r].lease
      BY <3>1, WrittenRows
    <3> QED
      BY <2>1, <2>2, <3>2
  <2>4. \A v \in Workers : Open(v) /\ mainTxn[v].run = r => v = w
    BY <2>1 DEF FenceInv
  <2>5. ~RecoveryOpen(r)
    BY <2>1 DEF FenceInv
  <2> HIDE DEF r
  <2> QED
    BY <1>1, <2>1, <2>2, <2>3, <2>4, <2>5 DEF RecoveryOpen
<1>9. ASSUME NEW w \in Workers, CommitRenew(w) PROVE FenceInv'
  <2> DEFINE r == beatTxn[w].run
  <2>1. /\ \A q \in Runs : q # r => runs'[q] = runs[q]
        /\ r \in Runs => /\ runs'[r].owner = runs[r].owner
                         /\ runs'[r].token = runs[r].token
                         /\ runs'[r].status = runs[r].status
                         /\ runs'[r].lease = "live"
        /\ beatTxn'[w] = NoBeat
        /\ \A v \in Workers \ {w} : beatTxn'[v] = beatTxn[v]
        /\ UNCHANGED mainTxn
    BY <1>0, <1>9 DEF CommitRenew, TypeOK, Row
  <2>2. r \in Runs => ~RecoveryOpen(r)
    BY DEF FenceInv
  <2> QED
    BY <1>1, <2>1, <2>2 DEF FenceInv, RecoveryOpen
<1>10. ASSUME NEW w \in Workers, Crash(w) PROVE FenceInv'
  <2>1. /\ UNCHANGED runs
        /\ \A v \in Workers : mainTxn'[v] = mainTxn[v] \/ mainTxn'[v] = NoTxn
        /\ \A v \in Workers : beatTxn'[v] = beatTxn[v] \/ beatTxn'[v] = NoBeat
    BY <1>10 DEF Crash, TypeOK
  <2> QED
    BY <1>1, <2>1
(* Steps that open a transaction read the rows as they are.                *)
<1>11. ASSUME NEW w \in Workers, BeginRecover(w) PROVE FenceInv'
  <2>1. /\ mainTxn'[w].op = "recover"
        /\ \A r \in mainTxn'[w].rows : runs[r].status \in Active /\ runs[r].lease = "expired"
        /\ \A v \in Workers \ {w} : mainTxn'[v] = mainTxn[v]
        /\ UNCHANGED <<runs, beatTxn>>
    BY <1>11 DEF BeginRecover, Expired, NoTxn, TypeOK, Txn
  <2> QED
    BY <2>1 DEF FenceInv, RecoveryOpen, OwnedOps, Active
<1>12. ASSUME NEW w \in Workers, NEW op \in OwnedOps, NEW s, NEW pc, BeginOwned(w, op, s, pc)
       PROVE  FenceInv'
  <2> DEFINE r == worker[w].run
  <2>1. CASE Owned(w, r, worker[w].token)
    <3>1. /\ mainTxn'[w].op = op /\ mainTxn'[w].run = r
          /\ mainTxn'[w].token = worker[w].token
          /\ \A v \in Workers \ {w} : mainTxn'[v] = mainTxn[v]
          /\ UNCHANGED <<runs, beatTxn>>
      <4> DEFINE status == IF runs[r].cancel THEN "cancelled" ELSE s
                 txn == [NoTxn EXCEPT !.op = op, !.run = r, !.token = worker[w].token,
                           !.status = status]
      <4>1. mainTxn' = [mainTxn EXCEPT ![w] = txn] /\ UNCHANGED <<runs, beatTxn>>
        BY <1>12, <2>1 DEF BeginOwned
      <4>2. txn.op = op /\ txn.run = r /\ txn.token = worker[w].token
        <5> HIDE DEF r, status
        <5> QED
          BY DEF NoTxn
      <4> HIDE DEF txn
      <4> QED
        BY <4>1, <4>2 DEF TypeOK
    <3>2. r \in Runs
      BY <1>12 DEF BeginOwned, TypeOK, LoopOK
    <3>3. /\ runs[r].owner = w /\ runs[r].token = worker[w].token
          /\ runs[r].lease = "live" /\ runs[r].status \notin {"absent", "queued"}
      BY <2>1 DEF Owned, Active
    <3> HIDE DEF r
    <3> QED
      BY <3>1, <3>2, <3>3 DEF FenceInv, RecoveryOpen, OwnedOps
  <2>2. CASE ~Owned(w, r, worker[w].token)
    BY <1>1, <1>12, <2>2 DEF BeginOwned
  <2> QED
    BY <2>1, <2>2
<1>13. ASSUME NEW w \in Workers, BeginRenew(w) PROVE FenceInv'
  <2> DEFINE r == worker[w].run
  <2>1. CASE Owned(w, r, worker[w].token)
    <3>1. /\ beatTxn'[w].run = r
          /\ \A v \in Workers \ {w} : beatTxn'[v] = beatTxn[v]
          /\ UNCHANGED <<runs, mainTxn>>
      BY <1>13, <2>1 DEF BeginRenew, TypeOK
    <3>2. runs[r].lease = "live"
      BY <2>1 DEF Owned
    <3> HIDE DEF r
    <3> QED
      BY <3>1, <3>2 DEF FenceInv, RecoveryOpen
  <2>2. CASE ~Owned(w, r, worker[w].token)
    BY <1>1, <1>13, <2>2 DEF BeginRenew
  <2> QED
    BY <2>1, <2>2
<1>14. ASSUME UNCHANGED <<runs, mainTxn, beatTxn>> PROVE FenceInv'
  BY <1>1, <1>14
<1>15. \A r \in Runs : BeginCancel(r) => FenceInv'
  BY <1>14 DEF BeginCancel
<1>16. \A w \in Workers : ClaimNothing(w) \/ Call(w) => FenceInv'
  BY <1>14 DEF ClaimNothing, Call, CheckCall, SendCall
<1>17. \A w \in Workers : Transition(w) \/ Leave(w) => FenceInv'
  BY <1>12 DEF Transition, Leave, Complete, BeginTransition, BeginComplete, BeginFail, OwnedOps
<1>18. UNCHANGED vars => FenceInv'
  BY <1>14 DEF vars
<1> QED
  BY <1>2, <1>3, <1>4, <1>5, <1>6, <1>7, <1>8, <1>9, <1>10, <1>11, <1>13, <1>15,
     <1>16, <1>17, <1>18
  DEF Next, WorkerStep, Poll

(* If no transaction outlives the lease or the backoff it relies on, an    *)
(* open transaction of a worker always belongs to the current claim.       *)
THEOREM TransactionsAreFenced ==
  ASSUME Prompt
  PROVE  Spec => []OpenTxnFenced
<1>1. Init => FenceInv
  BY ConstantsAssumption DEF Init, FenceInv, RecoveryOpen, NoTxn, NoBeat, OwnedOps
<1>2. TypeOK /\ FenceInv /\ [Next]_vars => FenceInv'
  BY FenceInductive
<1>3. FenceInv => OpenTxnFenced
  BY DEF FenceInv, OpenTxnFenced
<1> QED
  BY <1>1, <1>2, <1>3, TypeCorrect, PTL DEF Spec

(* Only an owned operation touches a result, with the token of its claim.  *)
LEMMA WrittenOutput ==
  ASSUME NEW row \in Row
  PROVE  /\ \A s : Ended(row, s).output = row.output
         /\ Requeued(row).output = row.output
         /\ \A txn \in Txn : Written(row, txn).output \in {row.output, txn.token}
<1>1. LeaseCleared(row) \in Row /\ LeaseCleared(row).output = row.output
  BY RowUpdates DEF LeaseCleared, Row
<1>2. /\ \A s : Ended(row, s).output = row.output
      /\ Requeued(row).output = row.output
  BY <1>1 DEF Ended, Requeued, Row
<1>3. \A s, x : [Ended(row, s) EXCEPT !.output = x].output = x
  BY <1>1 DEF Ended, Row
<1>4. \A s : [row EXCEPT !.status = s].output = row.output
  BY DEF Row
<1> QED
  BY <1>2, <1>3, <1>4 DEF Written

(* ... so the result of a run is written by the claim that holds it.       *)
THEOREM ResultsAreFenced ==
  ASSUME Prompt
  PROVE  Spec => ResultByHolder
<1>1. ASSUME TypeOK, OpenTxnFenced, [Next]_vars
      PROVE  \A r \in Runs : runs'[r].output # runs[r].output =>
                              runs'[r].output = runs[r].token
  <2> DEFINE Keeps == \A r \in Runs : runs'[r].output = runs[r].output
  <2>0. \A r \in Runs : runs[r] \in Row
    BY <1>1 DEF TypeOK
  <2>1. ASSUME NEW r \in Runs, Create(r) \/ LeaseExpires(r) \/ RetryDue(r)
        PROVE  Keeps
    <3>1. CASE Create(r)
      BY <1>1, <2>0, <3>1 DEF Create, TypeOK, Row
    <3>2. CASE LeaseExpires(r)
      BY <1>1, <2>0, <3>2 DEF LeaseExpires, TypeOK, Row
    <3>3. CASE RetryDue(r)
      BY <1>1, <2>0, <3>3 DEF RetryDue, TypeOK, Row
    <3> QED
      BY <2>1, <3>1, <3>2, <3>3
  <2>2. ASSUME CommitCancel PROVE Keeps
    BY <1>1, <2>0, <2>2 DEF CommitCancel, TypeOK, Row
  <2>3. ASSUME NEW w \in Workers, CommitRecover(w) PROVE Keeps
    BY <2>0, <2>3, WrittenOutput DEF CommitRecover
  <2>4. ASSUME NEW w \in Workers, NEW r \in Runs, Claim(w, r) PROVE Keeps
    BY <1>1, <2>0, <2>4 DEF Claim, Claimed, TypeOK, Row
  <2>5. ASSUME NEW w \in Workers, CommitRenew(w) PROVE Keeps
    BY <1>1, <2>0, <2>5 DEF CommitRenew, TypeOK, Row
  <2>6. ASSUME NEW w \in Workers, CommitOwned(w), NEW r \in Runs,
               runs'[r].output # runs[r].output
        PROVE  runs'[r].output = runs[r].token
    <3>1. mainTxn[w] \in Txn
      BY <1>1 DEF TypeOK
    <3>2. r = mainTxn[w].run /\ runs'[r] = Written(runs[r], mainTxn[w])
      BY <1>1, <2>6 DEF CommitOwned, TypeOK
    <3>3. runs[r].token = mainTxn[w].token
      BY <1>1, <2>6, <3>2 DEF CommitOwned, OpenTxnFenced
    <3>4. \/ Written(runs[r], mainTxn[w]).output = runs[r].output
          \/ Written(runs[r], mainTxn[w]).output = mainTxn[w].token
      BY <2>0, <3>1, WrittenOutput
    <3> QED
      BY <2>6, <3>2, <3>3, <3>4
  <2>7. ASSUME UNCHANGED runs PROVE Keeps
    BY <2>7
  <2>8. \A w \in Workers :
          \/ BeginRecover(w) \/ ClaimNothing(w) \/ Transition(w) \/ Leave(w)
          \/ Call(w) \/ BeginRenew(w) \/ Crash(w)
          => Keeps
    <3> HIDE DEF Keeps
    <3>1. \A w, op, s, pc : BeginOwned(w, op, s, pc) => Keeps
      BY <2>7 DEF BeginOwned
    <3>2. \A w : Transition(w) \/ Leave(w) => Keeps
      BY <3>1 DEF Transition, BeginTransition, Leave, Complete, BeginComplete, BeginFail
    <3>3. \A w, l : CheckCall(w, l) \/ SendCall(w) => Keeps
      BY <2>7 DEF CheckCall, SendCall
    <3>4. \A w : BeginRecover(w) \/ ClaimNothing(w) \/ BeginRenew(w) \/ Crash(w) => Keeps
      BY <2>7 DEF BeginRecover, ClaimNothing, BeginRenew, Crash
    <3> QED  BY <3>2, <3>3, <3>4 DEF Call
  <2>9. \A r \in Runs : BeginCancel(r) => Keeps
    BY <2>7 DEF BeginCancel
  <2>10. UNCHANGED vars => Keeps
    BY <2>7 DEF vars
  <2> QED
    BY <1>1, <2>1, <2>2, <2>3, <2>4, <2>5, <2>6, <2>8, <2>9, <2>10
    DEF Next, WorkerStep, Poll
<1>2. TypeOK /\ OpenTxnFenced /\ [Next]_vars =>
        [\A r \in Runs : runs'[r].output # runs[r].output =>
           runs'[r].output = runs[r].token]_vars
  BY <1>1
<1> QED
  BY <1>2, TypeCorrect, TransactionsAreFenced, PTL DEF Spec, ResultByHolder

-----------------------------------------------------------------------------
(* What every step does to a row.  The claim of a row is all but its lease, *)
(* backoff and request to cancel.                                          *)
SameClaim(old, new) ==
  /\ new.status = old.status /\ new.attempts = old.attempts
  /\ new.owner = old.owner /\ new.token = old.token
  /\ new.output = old.output /\ new.unwanted = old.unwanted
  /\ old.lease # "none" => new.lease # "none"

(* A row that a recovery or the end of an execution releases.              *)
Released(old, new) ==
  /\ new.attempts = old.attempts /\ new.unwanted = old.unwanted
  /\ new.owner = None /\ new.token = 0

LEMMA ReleasedRows ==
  ASSUME NEW row \in Row
  PROVE  /\ Released(row, Requeued(row)) /\ Requeued(row).output = row.output
         /\ \A s \in Status : /\ Released(row, Ended(row, s))
                              /\ Ended(row, s).output = row.output
<1>1. /\ LeaseCleared(row) \in Row /\ Released(row, LeaseCleared(row))
      /\ LeaseCleared(row).output = row.output
  BY RowUpdates DEF LeaseCleared, Row, Released
<1>2. Released(row, Requeued(row)) /\ Requeued(row).output = row.output
  BY <1>1 DEF Requeued, Row, Released
<1>3. \A s \in Status : Released(row, Ended(row, s)) /\ Ended(row, s).output = row.output
  BY <1>1 DEF Ended, Row, Released
<1> QED  BY <1>2, <1>3

(* The outcome of an owned operation.                                      *)
LEMMA WrittenOutcome ==
  ASSUME NEW row \in Row, NEW txn \in Txn
  PROVE  LET new == Written(row, txn)
         IN  \/ txn.status = "absent" /\ SameClaim(row, new)
             \/ /\ txn.status \in Active
                /\ SameClaim([row EXCEPT !.status = txn.status], new)
             \/ /\ txn.status = "queued" /\ Released(row, new)
                /\ new.status = "queued" /\ new.output = row.output
             \/ /\ txn.status \in Terminal /\ Released(row, new)
                /\ new.status = txn.status
                /\ new.output \in {row.output, txn.token}
<1>1. txn.status \in Status
  BY DEF Txn
<1>2. CASE txn.status = "absent"
  BY <1>2 DEF Written, SameClaim
<1>3. CASE txn.status \in Active
  BY <1>3 DEF Written, SameClaim, Active
<1>4. CASE txn.status = "queued"
  <2>1. Written(row, txn) = Requeued(row)
    BY <1>4 DEF Written, Active
  <2> QED  BY <1>4, <2>1, ReleasedRows, WrittenRows
<1>5. CASE txn.status \in {"succeeded", "skipped"}
  <2>1. Written(row, txn) = [Ended(row, txn.status) EXCEPT !.output = txn.token]
    BY <1>5 DEF Written, Active
  <2>2. /\ Ended(row, txn.status) \in Row /\ Released(row, Ended(row, txn.status))
        /\ Ended(row, txn.status).status = txn.status
    BY <1>1, RowUpdates, ReleasedRows, WrittenRows
  <2>3. /\ Released(row, [Ended(row, txn.status) EXCEPT !.output = txn.token])
        /\ [Ended(row, txn.status) EXCEPT !.output = txn.token].status = txn.status
        /\ [Ended(row, txn.status) EXCEPT !.output = txn.token].output = txn.token
    BY <2>2 DEF Row, Released
  <2> QED  BY <1>5, <2>1, <2>3 DEF Terminal
<1>6. CASE txn.status \in {"failed", "cancelled"}
  <2>1. Written(row, txn) = Ended(row, txn.status)
    BY <1>6 DEF Written, Active
  <2>2. /\ Released(row, Ended(row, txn.status))
        /\ Ended(row, txn.status).status = txn.status
        /\ Ended(row, txn.status).output = row.output
    BY <1>1, ReleasedRows, WrittenRows
  <2> QED  BY <1>6, <2>1, <2>2 DEF Terminal
<1> QED  BY <1>1, <1>2, <1>3, <1>4, <1>5, <1>6 DEF Status, Terminal

(* The steps that change the claim of a row.                               *)
LEMMA RowStep ==
  ASSUME TypeOK, [Next]_vars, NEW r \in Runs
  PROVE  \/ SameClaim(runs[r], runs'[r])
         \/ Create(r)
         \/ CommitCancel /\ apiTxn.run = r /\ apiTxn.withdraw
         \/ \E w \in Workers : Claim(w, r)
         \/ \E w \in Workers : CommitRecover(w) /\ r \in mainTxn[w].rows
         \/ \E w \in Workers : CommitOwned(w) /\ mainTxn[w].run = r
<1>0. runs[r] \in Row /\ \A q \in Runs : runs[q] \in Row
  BY DEF TypeOK
<1>1. runs'[r] = runs[r] => SameClaim(runs[r], runs'[r])
  BY DEF SameClaim
<1>2. ASSUME NEW q \in Runs, Create(q)
      PROVE  runs'[r] = runs[r] \/ q = r
  BY <1>2 DEF Create, TypeOK
<1>3. ASSUME NEW q \in Runs, LeaseExpires(q) \/ RetryDue(q)
      PROVE  SameClaim(runs[r], runs'[r])
  <2>1. CASE LeaseExpires(q)
    BY <1>0, <2>1 DEF LeaseExpires, SameClaim, TypeOK, Row
  <2>2. CASE RetryDue(q)
    BY <1>0, <2>2 DEF RetryDue, SameClaim, TypeOK, Row
  <2> QED  BY <1>3, <2>1, <2>2
<1>4. ASSUME CommitCancel
      PROVE  SameClaim(runs[r], runs'[r]) \/ (apiTxn.run = r /\ apiTxn.withdraw)
  <2>1. CASE apiTxn.withdraw
    BY <1>1, <1>4, <2>1 DEF CommitCancel, TypeOK
  <2>2. CASE ~apiTxn.withdraw
    BY <1>0, <1>4, <2>2 DEF CommitCancel, SameClaim, TypeOK, Row
  <2> QED  BY <2>1, <2>2
<1>5. ASSUME NEW w \in Workers, NEW q \in Runs, Claim(w, q)
      PROVE  runs'[r] = runs[r] \/ q = r
  BY <1>5 DEF Claim, TypeOK
<1>6. ASSUME NEW w \in Workers, CommitRecover(w)
      PROVE  runs'[r] = runs[r] \/ r \in mainTxn[w].rows
  BY <1>6 DEF CommitRecover
<1>7. ASSUME NEW w \in Workers, CommitOwned(w)
      PROVE  runs'[r] = runs[r] \/ mainTxn[w].run = r
  BY <1>7 DEF CommitOwned, TypeOK
<1>8. ASSUME NEW w \in Workers, CommitRenew(w)
      PROVE  SameClaim(runs[r], runs'[r])
  BY <1>0, <1>8 DEF CommitRenew, SameClaim, TypeOK, Row
<1>9. ASSUME NEW w \in Workers,
             \/ BeginRecover(w) \/ ClaimNothing(w) \/ Transition(w) \/ Leave(w)
             \/ Call(w) \/ BeginRenew(w) \/ Crash(w)
      PROVE  runs' = runs
  BY <1>9 DEF BeginRecover, ClaimNothing, Transition, BeginTransition, Leave, Complete,
     BeginComplete, BeginFail, BeginOwned, Call, CheckCall, SendCall, BeginRenew, Crash
<1>10. ASSUME UNCHANGED vars \/ \E q \in Runs : BeginCancel(q)
       PROVE  runs' = runs
  BY <1>10 DEF vars, BeginCancel
<1> QED
  BY <1>1, <1>2, <1>3, <1>4, <1>5, <1>6, <1>7, <1>8, <1>9, <1>10 DEF Next, WorkerStep, Poll

-----------------------------------------------------------------------------
(* The queue under Prompt.  A run that is not executed has no holder, and  *)
(* one that waits has an attempt left.                                     *)
RowInv(r) ==
  /\ runs[r].status \in Active => runs[r].lease # "none"
  /\ runs[r].status \notin Active /\ ~runs[r].unwanted =>
       runs[r].owner = None /\ runs[r].token = 0
  /\ runs[r].status = "absent" =>
       runs[r].owner = None /\ runs[r].token = 0 /\ runs[r].output = 0
  /\ runs[r].attempts <= MaxAttempts
  /\ runs[r].status \in {"absent", "queued"} => ~Exhausted(r)

(* The decisions of the open transactions still hold: whoever retries a    *)
(* run has an attempt left, whoever gives one up has not; and a run that    *)
(* two recoveries found has at most been failed by the other.              *)
DecisionInv(w) ==
  /\ mainTxn[w].op \in OwnedOps /\ mainTxn[w].status = "queued" =>
       ~Exhausted(mainTxn[w].run)
  /\ mainTxn[w].op = "recover" =>
       \A r \in mainTxn[w].rows :
         /\ (r \in mainTxn[w].lost) <=> Exhausted(r)
         /\ runs[r].status \in Terminal /\ ~runs[r].unwanted =>
              runs[r].status = "failed" /\ Exhausted(r)

CancelInv ==
  apiTxn.run \in Runs => runs[apiTxn.run].unwanted /\ runs[apiTxn.run].status # "absent"

QueueInv ==
  /\ TypeOK
  /\ FenceInv
  /\ \A r \in Runs : RowInv(r)
  /\ \A w \in Workers : DecisionInv(w)
  /\ CancelInv

LEMMA InitQueue == Init => QueueInv
<1> SUFFICES ASSUME Init PROVE QueueInv
  OBVIOUS
<1>1. TypeOK
  BY ConstantsAssumption
     DEF Init, TypeOK, LoopOK, Row, Status, Active, Loop, Idle, Txn, NoTxn, NoBeat, NoCancel
<1>2. FenceInv
  BY ConstantsAssumption DEF Init, FenceInv, RecoveryOpen, NoTxn, NoBeat, OwnedOps
<1>3. \A r \in Runs : RowInv(r)
  BY ConstantsAssumption DEF Init, RowInv, Active, Exhausted
<1>4. (\A w \in Workers : DecisionInv(w)) /\ CancelInv
  BY ConstantsAssumption DEF Init, DecisionInv, CancelInv, NoTxn, OwnedOps, NoCancel
<1> QED  BY <1>1, <1>2, <1>3, <1>4 DEF QueueInv

(* An open owned operation is about an executed run, or an unwanted one.   *)
LEMMA OwnedRun ==
  ASSUME QueueInv, NEW w \in Workers, mainTxn[w].op \in OwnedOps
  PROVE  LET r == mainTxn[w].run
         IN  /\ r \in Runs /\ runs[r] \in Row /\ mainTxn[w] \in Txn
             /\ runs[r].owner = w /\ runs[r].token = mainTxn[w].token
             /\ runs[r].lease = "live"
             /\ runs[r].status \notin {"absent", "queued"}
             /\ runs[r].status \in Active \/ runs[r].unwanted
BY ConstantsAssumption DEF QueueInv, FenceInv, RowInv, TypeOK

(* An open recovery is about runs that nobody can claim.                   *)
LEMMA RecoveredRun ==
  ASSUME QueueInv, NEW w \in Workers, NEW r \in mainTxn[w].rows, mainTxn[w].op = "recover"
  PROVE  /\ r \in Runs /\ runs[r] \in Row
         /\ runs[r].lease # "live" /\ runs[r].status # "absent"
         /\ runs[r].status = "queued" => ~runs[r].due
         /\ (r \in mainTxn[w].lost) <=> Exhausted(r)
         /\ runs[r].status \in Terminal /\ ~runs[r].unwanted =>
              runs[r].status = "failed" /\ Exhausted(r)
<1>1. mainTxn[w] \in Txn /\ mainTxn[w].rows \in SUBSET Runs
  BY DEF QueueInv, TypeOK, Txn
<1>2. RecoveryOpen(r)
  BY DEF RecoveryOpen
<1> QED  BY <1>1, <1>2 DEF QueueInv, FenceInv, DecisionInv, TypeOK

(* What a recovery makes of its runs.                                      *)
LEMMA RecoveredRows ==
  ASSUME QueueInv, NEW w \in Workers, CommitRecover(w), NEW r \in mainTxn[w].rows
  PROVE  /\ Released(runs[r], runs'[r]) /\ runs'[r].output = runs[r].output
         /\ runs'[r].status = IF Exhausted(r) THEN "failed" ELSE "queued"
<1>1. /\ r \in Runs /\ runs[r] \in Row /\ mainTxn[w].op = "recover"
      /\ (r \in mainTxn[w].lost) <=> Exhausted(r)
  BY RecoveredRun DEF CommitRecover
<1>2. runs'[r] = IF Exhausted(r) THEN Ended(runs[r], "failed") ELSE Requeued(runs[r])
  BY <1>1 DEF CommitRecover
<1>3. "failed" \in Status
  BY DEF Status, Terminal
<1>4. CASE Exhausted(r)
  <2>1. runs'[r] = Ended(runs[r], "failed")
    BY <1>2, <1>4
  <2>2. /\ Released(runs[r], Ended(runs[r], "failed"))
        /\ Ended(runs[r], "failed").output = runs[r].output
        /\ Ended(runs[r], "failed").status = "failed"
    BY <1>1, <1>3, ReleasedRows, WrittenRows
  <2> QED  BY <1>4, <2>1, <2>2
<1>5. CASE ~Exhausted(r)
  <2>1. runs'[r] = Requeued(runs[r])
    BY <1>2, <1>5
  <2> QED  BY <1>1, <1>5, <2>1, ReleasedRows, WrittenRows
<1> QED  BY <1>4, <1>5

(* The row that is created, withdrawn or claimed.                          *)
LEMMA NewRows ==
  ASSUME TypeOK, NEW r \in Runs
  PROVE  /\ Create(r) =>
              /\ runs[r].status = "absent" /\ runs'[r].status = "queued"
              /\ runs'[r].attempts = runs[r].attempts /\ runs'[r].owner = runs[r].owner
              /\ runs'[r].token = runs[r].token /\ runs'[r].output = runs[r].output
              /\ \A q \in Runs \ {r} : runs'[q] = runs[q]
         /\ CommitCancel /\ apiTxn.run = r /\ apiTxn.withdraw =>
              /\ runs'[r].status = "cancelled" /\ runs'[r].attempts = runs[r].attempts
              /\ runs'[r].unwanted = runs[r].unwanted
         /\ \A w \in Workers : Claim(w, r) =>
              /\ runs[r].status = "queued" /\ runs[r].due
              /\ runs'[r].status = "running" /\ runs'[r].attempts = runs[r].attempts + 1
              /\ runs'[r].token = nextToken /\ runs'[r].lease = "live"
              /\ runs'[r].output = runs[r].output /\ runs'[r].unwanted = runs[r].unwanted
              /\ \A q \in Runs \ {r} : runs'[q] = runs[q]
<1>0. runs[r] \in Row
  BY DEF TypeOK
<1>1. ASSUME Create(r)
      PROVE  /\ runs[r].status = "absent" /\ runs'[r].status = "queued"
             /\ runs'[r].attempts = runs[r].attempts /\ runs'[r].owner = runs[r].owner
             /\ runs'[r].token = runs[r].token /\ runs'[r].output = runs[r].output
             /\ \A q \in Runs \ {r} : runs'[q] = runs[q]
  <2>1. PICK unwanted \in BOOLEAN :
          runs' = [runs EXCEPT ![r] = [runs[r] EXCEPT !.status = "queued", !.unwanted = unwanted]]
    BY <1>1, Zenon DEF Create
  <2> HIDE DEF TypeOK
  <2>2. runs[r].status = "absent"
    BY <1>1 DEF Create
  <2>3. CASE unwanted = TRUE
    BY <1>0, <2>1, <2>2, <2>3 DEF Row, TypeOK
  <2>4. CASE unwanted = FALSE
    BY <1>0, <2>1, <2>2, <2>4 DEF Row, TypeOK
  <2> QED  BY <2>3, <2>4
<1>2. ASSUME CommitCancel, apiTxn.run = r, apiTxn.withdraw
      PROVE  /\ runs'[r].status = "cancelled" /\ runs'[r].attempts = runs[r].attempts
             /\ runs'[r].unwanted = runs[r].unwanted
  BY <1>0, <1>2 DEF CommitCancel, TypeOK, Row
<1>3. ASSUME NEW w \in Workers, Claim(w, r)
      PROVE  /\ runs[r].status = "queued" /\ runs[r].due
             /\ runs'[r].status = "running" /\ runs'[r].attempts = runs[r].attempts + 1
             /\ runs'[r].token = nextToken /\ runs'[r].lease = "live"
             /\ runs'[r].output = runs[r].output /\ runs'[r].unwanted = runs[r].unwanted
             /\ \A q \in Runs \ {r} : runs'[q] = runs[q]
  BY <1>0, <1>3 DEF Claim, Claimable, Claimed, TypeOK, Row
<1> QED  BY <1>1, <1>2, <1>3

(* What the end of an owned operation makes of its run.                    *)
LEMMA OwnedRows ==
  ASSUME QueueInv, NEW w \in Workers, CommitOwned(w), NEW r \in Runs, mainTxn[w].run = r
  PROVE  \/ SameClaim(runs[r], runs'[r])
         \/ /\ runs'[r].status \in Active /\ runs[r].lease = "live"
            /\ SameClaim([runs[r] EXCEPT !.status = runs'[r].status], runs'[r])
         \/ /\ ~Exhausted(r) /\ Released(runs[r], runs'[r])
            /\ runs'[r].status = "queued" /\ runs'[r].output = runs[r].output
         \/ /\ runs'[r].status \in Terminal /\ Released(runs[r], runs'[r])
            /\ runs'[r].output \in {runs[r].output, runs[r].token}
<1>1. /\ mainTxn[w].op \in OwnedOps /\ runs[r] \in Row /\ mainTxn[w] \in Txn
      /\ runs[r].token = mainTxn[w].token /\ runs[r].lease = "live"
  BY OwnedRun DEF CommitOwned
<1>2. runs'[r] = Written(runs[r], mainTxn[w])
  BY DEF CommitOwned, QueueInv, TypeOK
<1>3. mainTxn[w].status = "queued" => ~Exhausted(r)
  BY <1>1 DEF QueueInv, DecisionInv
<1>4. ASSUME mainTxn[w].status \in Active,
             SameClaim([runs[r] EXCEPT !.status = mainTxn[w].status], runs'[r])
      PROVE  /\ runs'[r].status = mainTxn[w].status
             /\ SameClaim([runs[r] EXCEPT !.status = runs'[r].status], runs'[r])
  BY <1>1, <1>4 DEF SameClaim, Row
<1> QED  BY <1>1, <1>2, <1>3, <1>4, WrittenOutcome

LEMMA RowPreserved ==
  ASSUME QueueInv, [Next]_vars, NEW r \in Runs
  PROVE  RowInv(r)'
<1>0. RowInv(r) /\ runs[r] \in Row /\ TypeOK /\ MaxAttempts \in Nat
  BY ConstantsAssumption DEF QueueInv, TypeOK
<1>1. CASE SameClaim(runs[r], runs'[r])
  BY <1>0, <1>1 DEF SameClaim, RowInv, Exhausted
<1>2. CASE Create(r)
  BY <1>0, <1>2, NewRows DEF RowInv, Exhausted, Active
<1>3. CASE CommitCancel /\ apiTxn.run = r /\ apiTxn.withdraw
  <2>1. runs[r].unwanted
    BY <1>3 DEF QueueInv, CancelInv
  <2> QED  BY <1>0, <1>3, <2>1, NewRows DEF RowInv, Exhausted, Active
<1>4. ASSUME NEW w \in Workers, Claim(w, r) PROVE RowInv(r)'
  <2>1. /\ runs[r].status = "queued" /\ runs'[r].status = "running"
        /\ runs'[r].attempts = runs[r].attempts + 1 /\ runs'[r].lease = "live"
    BY <1>0, <1>4, NewRows
  <2>2. runs[r].attempts \in Nat
    BY <1>0 DEF Row
  <2> QED  BY <1>0, <2>1, <2>2 DEF RowInv, Exhausted, Active
<1>5. ASSUME NEW w \in Workers, CommitRecover(w), r \in mainTxn[w].rows PROVE RowInv(r)'
  BY <1>0, <1>5, RecoveredRows DEF RowInv, Exhausted, Active, Released
<1>6. ASSUME NEW w \in Workers, CommitOwned(w), mainTxn[w].run = r PROVE RowInv(r)'
  <2>1. runs[r].status \notin {"absent", "queued"}
    BY <1>6, OwnedRun DEF CommitOwned
  <2>2. CASE /\ runs'[r].status \in Active /\ runs[r].lease = "live"
             /\ SameClaim([runs[r] EXCEPT !.status = runs'[r].status], runs'[r])
    <3>1. runs'[r].attempts = runs[r].attempts /\ runs'[r].lease # "none"
      BY <1>0, <2>2 DEF SameClaim, Row
    <3> QED  BY <1>0, <2>2, <3>1 DEF RowInv, Active
  <2>3. CASE Released(runs[r], runs'[r]) /\ runs'[r].status \in {"queued"} \cup Terminal
             /\ (runs'[r].status = "queued" => ~Exhausted(r))
    BY <1>0, <2>3 DEF RowInv, Released, Active, Terminal, Exhausted
  <2>4. CASE SameClaim(runs[r], runs'[r])
    BY <1>1, <2>4
  <2> QED  BY <1>6, <2>2, <2>3, <2>4, OwnedRows DEF Terminal
<1> QED  BY <1>0, <1>1, <1>2, <1>3, <1>4, <1>5, <1>6, RowStep

(* A decision stands while its transaction is open: the runs it is about   *)
(* cannot be claimed, and nobody but another recovery ends them.           *)
LEMMA DecisionStands ==
  ASSUME QueueInv, [Next]_vars, NEW w \in Workers, mainTxn'[w] = mainTxn[w]
  PROVE  DecisionInv(w)'
<1>0. TypeOK
  BY DEF QueueInv
<1>1. ASSUME mainTxn[w].op \in OwnedOps, mainTxn[w].status = "queued"
      PROVE  ~Exhausted(mainTxn[w].run)'
  <2> DEFINE r == mainTxn[w].run
  <2>1. /\ r \in Runs /\ runs[r].status \notin {"absent", "queued"} /\ runs[r].lease = "live"
        /\ runs[r] \in Row /\ ~Exhausted(r)
    BY <1>1, OwnedRun DEF QueueInv, DecisionInv
  <2> HIDE DEF r
  <2>2. ~Create(r) /\ (\A v \in Workers : ~Claim(v, r))
    BY <1>0, <2>1, NewRows
  <2>3. \A v \in Workers : CommitRecover(v) => r \notin mainTxn[v].rows
    BY <2>1, RecoveredRun DEF CommitRecover
  <2>4. CommitCancel /\ apiTxn.run = r /\ apiTxn.withdraw => runs'[r].attempts = runs[r].attempts
    BY <1>0, <2>1, NewRows
  <2>5. \A v \in Workers : CommitOwned(v) /\ mainTxn[v].run = r
          => runs'[r].attempts = runs[r].attempts
    <3>1. SameClaim([runs[r] EXCEPT !.status = runs'[r].status], runs'[r])
            => runs'[r].attempts = runs[r].attempts
      BY <2>1 DEF SameClaim, Row
    <3> QED  BY <2>1, <3>1, OwnedRows DEF SameClaim, Released
  <2>6. runs'[r].attempts = runs[r].attempts
    BY <1>0, <2>1, <2>2, <2>3, <2>4, <2>5, RowStep DEF SameClaim
  <2>7. r' = r
    BY DEF r
  <2> QED  BY <2>1, <2>6, <2>7 DEF Exhausted, r
<1>2. ASSUME mainTxn[w].op = "recover", NEW r \in mainTxn[w].rows
      PROVE  /\ (r \in mainTxn[w].lost) <=> Exhausted(r)'
             /\ runs'[r].status \in Terminal /\ ~runs'[r].unwanted =>
                  runs'[r].status = "failed" /\ Exhausted(r)'
  <2>1. /\ r \in Runs /\ runs[r] \in Row
        /\ runs[r].lease # "live" /\ runs[r].status # "absent"
        /\ runs[r].status = "queued" => ~runs[r].due
        /\ (r \in mainTxn[w].lost) <=> Exhausted(r)
        /\ runs[r].status \in Terminal /\ ~runs[r].unwanted =>
             runs[r].status = "failed" /\ Exhausted(r)
    BY <1>2, RecoveredRun
  <2>2. ~Create(r) /\ (\A v \in Workers : ~Claim(v, r))
    BY <1>0, <2>1, NewRows
  <2>3. \A v \in Workers : ~(CommitOwned(v) /\ mainTxn[v].run = r)
    BY <2>1, OwnedRun DEF CommitOwned
  <2>4. CASE SameClaim(runs[r], runs'[r])
    BY <2>1, <2>4 DEF SameClaim, Exhausted
  <2>5. CASE CommitCancel /\ apiTxn.run = r /\ apiTxn.withdraw
    <3>1. runs[r].unwanted
      BY <2>1, <2>5 DEF QueueInv, CancelInv
    <3> QED  BY <1>0, <2>1, <2>5, <3>1, NewRows DEF Exhausted
  <2>6. ASSUME NEW v \in Workers, CommitRecover(v), r \in mainTxn[v].rows
        PROVE  /\ (r \in mainTxn[w].lost) <=> Exhausted(r)'
               /\ runs'[r].status \in Terminal /\ ~runs'[r].unwanted =>
                    runs'[r].status = "failed" /\ Exhausted(r)'
    BY <2>1, <2>6, RecoveredRows DEF Released, Exhausted, Terminal
  <2> QED  BY <1>0, <2>1, <2>2, <2>3, <2>4, <2>5, <2>6, RowStep
<1> QED  BY <1>1, <1>2 DEF DecisionInv

(* A transaction decides from the rows as they are.                        *)
LEMMA DecisionTaken ==
  ASSUME QueueInv, NEW w \in Workers, BeginRecover(w) \/ Transition(w) \/ Leave(w)
  PROVE  DecisionInv(w)'
<1> USE DEF QueueInv
<1>1. CASE BeginRecover(w)
  <2>1. /\ mainTxn'[w].op = "recover" /\ runs' = runs
        /\ mainTxn'[w].rows = {r \in Runs : Expired(r)}
        /\ mainTxn'[w].lost = {r \in Runs : Expired(r) /\ Exhausted(r)}
    BY <1>1 DEF BeginRecover, TypeOK, NoTxn
  <2>2. \A r \in Runs : Expired(r) => runs[r].status \notin Terminal
    BY DEF Expired, Active, Terminal
  <2> QED  BY <2>1, <2>2 DEF DecisionInv, OwnedOps, Exhausted
<1>2. ASSUME NEW op \in OwnedOps, NEW s, NEW pc, BeginOwned(w, op, s, pc),
             s = "queued" => ~Exhausted(worker[w].run)
      PROVE  DecisionInv(w)'
  <2> DEFINE r == worker[w].run
             status == IF runs[r].cancel THEN "cancelled" ELSE s
             txn == [NoTxn EXCEPT !.op = op, !.run = r, !.token = worker[w].token,
                       !.status = status]
  <2>1. CASE Owned(w, r, worker[w].token)
    <3>1. mainTxn' = [mainTxn EXCEPT ![w] = txn] /\ runs' = runs
      BY <1>2, <2>1 DEF BeginOwned
    <3>2. txn.op = op /\ txn.run = r /\ (txn.status = "queued" => s = "queued")
      <4>1. status = "queued" => s = "queued"
        OBVIOUS
      <4> HIDE DEF r, status
      <4> QED  BY <4>1 DEF NoTxn
    <3> HIDE DEF txn
    <3> QED  BY <1>2, <3>1, <3>2 DEF DecisionInv, OwnedOps, Exhausted, TypeOK
  <2>2. CASE ~Owned(w, r, worker[w].token)
    <3>1. mainTxn' = mainTxn /\ mainTxn[w] = NoTxn
      BY <1>2, <2>2 DEF BeginOwned
    <3> QED  BY <3>1 DEF DecisionInv, NoTxn, OwnedOps
  <2> QED  BY <2>1, <2>2
<1>3. ASSUME NEW s \in Active, BeginTransition(w, s) PROVE DecisionInv(w)'
  BY <1>2, <1>3 DEF BeginTransition, OwnedOps, Active
<1>4. ASSUME NEW s \in {"succeeded", "skipped"}, BeginComplete(w, s) PROVE DecisionInv(w)'
  BY <1>2, <1>4 DEF BeginComplete, OwnedOps
<1>5. ASSUME BeginFail(w) PROVE DecisionInv(w)'
  BY <1>2, <1>5 DEF BeginFail, OwnedOps
<1> QED  BY <1>1, <1>3, <1>4, <1>5 DEF Transition, Leave, Complete, Active

LEMMA DecisionPreserved ==
  ASSUME QueueInv, [Next]_vars, NEW w \in Workers
  PROVE  DecisionInv(w)'
<1>0. TypeOK
  BY DEF QueueInv
<1>1. mainTxn'[w] = NoTxn => DecisionInv(w)'
  BY DEF DecisionInv, NoTxn, OwnedOps
<1>2. ASSUME NEW v \in Workers,
             \/ BeginRecover(v) \/ Transition(v) \/ Leave(v)
      PROVE  v = w \/ mainTxn'[w] = mainTxn[w]
  BY <1>0, <1>2 DEF BeginRecover, Transition, Leave, Complete, BeginTransition,
     BeginComplete, BeginFail, BeginOwned, TypeOK
<1>3. ASSUME NEW v \in Workers,
             CommitRecover(v) \/ CommitOwned(v) \/ Crash(v)
      PROVE  mainTxn'[w] \in {mainTxn[w], NoTxn}
  BY <1>0, <1>3 DEF CommitRecover, CommitOwned, Crash, TypeOK
<1>4. ASSUME NEW v \in Workers,
             \/ ClaimNothing(v) \/ Call(v) \/ BeginRenew(v) \/ CommitRenew(v)
             \/ \E r \in Runs : Claim(v, r)
      PROVE  mainTxn' = mainTxn
  BY <1>4 DEF ClaimNothing, Call, CheckCall, SendCall, BeginRenew, CommitRenew, Claim
<1>5. ASSUME \/ \E r \in Runs : Create(r) \/ BeginCancel(r) \/ LeaseExpires(r) \/ RetryDue(r)
             \/ CommitCancel
             \/ UNCHANGED vars
      PROVE  mainTxn' = mainTxn
  BY <1>5 DEF Create, BeginCancel, LeaseExpires, RetryDue, CommitCancel, vars
<1> QED
  BY <1>1, <1>2, <1>3, <1>4, <1>5, DecisionStands, DecisionTaken DEF Next, WorkerStep, Poll

LEMMA CancelPreserved ==
  ASSUME QueueInv, [Next]_vars
  PROVE  CancelInv'
<1>0. TypeOK /\ CancelInv
  BY DEF QueueInv
<1>1. ASSUME NEW r \in Runs, runs[r].unwanted, runs[r].status # "absent"
      PROVE  runs'[r].unwanted /\ runs'[r].status # "absent"
  <2>1. ASSUME NEW w \in Workers, CommitOwned(w), mainTxn[w].run = r
        PROVE  runs'[r].unwanted /\ runs'[r].status # "absent"
    <3>1. runs[r] \in Row /\ \A s : [runs[r] EXCEPT !.status = s].unwanted = runs[r].unwanted
                                    /\ [runs[r] EXCEPT !.status = s].status = s
      BY <1>0 DEF TypeOK, Row
    <3> QED  BY <1>1, <2>1, <3>1, OwnedRows DEF SameClaim, Released, Active, Terminal
  <2> QED
    BY <1>0, <1>1, <2>1, RowStep, NewRows, RecoveredRows DEF SameClaim, Released
<1>2. ASSUME NEW r \in Runs, BeginCancel(r)
      PROVE  CancelInv'
  BY <1>2 DEF BeginCancel, CancelInv, Active
<1>3. ASSUME apiTxn' = apiTxn
      PROVE  CancelInv'
  BY <1>0, <1>1, <1>3 DEF CancelInv
<1>4. ASSUME CommitCancel
      PROVE  CancelInv'
  BY <1>4, ConstantsAssumption DEF CommitCancel, CancelInv, NoCancel
<1>5. ASSUME \/ \E r \in Runs : Create(r) \/ LeaseExpires(r) \/ RetryDue(r)
             \/ UNCHANGED vars
      PROVE  apiTxn' = apiTxn
  BY <1>5 DEF Create, LeaseExpires, RetryDue, vars
<1>6. ASSUME NEW w \in Workers, WorkerStep(w)
      PROVE  apiTxn' = apiTxn
  BY <1>6 DEF WorkerStep, Poll, BeginRecover, ClaimNothing, Claim, CommitRecover,
     Transition, BeginTransition, Leave, Complete, BeginComplete, BeginFail, BeginOwned,
     CommitOwned, Call, CheckCall, SendCall, BeginRenew, CommitRenew, Crash
<1> QED  BY <1>2, <1>3, <1>4, <1>5, <1>6 DEF Next

LEMMA QueueInductive ==
  ASSUME Prompt
  PROVE  QueueInv /\ [Next]_vars => QueueInv'
<1> SUFFICES ASSUME QueueInv, [Next]_vars PROVE QueueInv'
  OBVIOUS
<1>1. TypeOK' /\ FenceInv'
  BY NextType, FenceInductive DEF QueueInv
<1> QED
  BY <1>1, RowPreserved, DecisionPreserved, CancelPreserved DEF QueueInv

(* No run is tried more often than max_attempts allows, however failures,  *)
(* lost leases and the recoveries of several workers interleave.           *)
THEOREM AttemptsAreBounded ==
  ASSUME Prompt
  PROVE  Spec => []AttemptsBounded
<1>1. QueueInv => AttemptsBounded
  BY DEF QueueInv, RowInv, AttemptsBounded
<1> QED  BY InitQueue, QueueInductive, <1>1, PTL DEF Spec

(* An active run carries a lease, so a recovery can find it again.         *)
THEOREM ActiveRunsAreLeased ==
  ASSUME Prompt
  PROVE  Spec => []ActiveIsLeased
<1>1. QueueInv => ActiveIsLeased
  BY DEF QueueInv, RowInv, ActiveIsLeased
<1> QED  BY InitQueue, QueueInductive, <1>1, PTL DEF Spec

(* A run that has ended stays as it ended, unless its user cancels it:     *)
(* neither a late worker nor a second recovery revives or fails it.        *)
THEOREM EndsAreFinal ==
  ASSUME Prompt
  PROVE  Spec => EndedIsFinal
<1>1. QueueInv /\ [Next]_vars =>
        \A r \in Runs : runs[r].status \in Terminal /\ ~runs[r].unwanted =>
          runs'[r].status = runs[r].status
  <2> SUFFICES ASSUME QueueInv, [Next]_vars, NEW r \in Runs,
                      runs[r].status \in Terminal, ~runs[r].unwanted
               PROVE  runs'[r].status = runs[r].status
    OBVIOUS
  <2>0. TypeOK
    BY DEF QueueInv
  <2>1. ~Create(r) /\ (\A w \in Workers : ~Claim(w, r))
    BY <2>0, NewRows DEF Terminal
  <2>2. ~(CommitCancel /\ apiTxn.run = r /\ apiTxn.withdraw)
    BY DEF QueueInv, CancelInv
  <2>3. \A w \in Workers : ~(CommitOwned(w) /\ mainTxn[w].run = r)
    BY OwnedRun DEF CommitOwned, Active, Terminal
  <2>4. ASSUME NEW w \in Workers, CommitRecover(w), r \in mainTxn[w].rows
        PROVE  runs'[r].status = runs[r].status
    BY <2>4, RecoveredRun, RecoveredRows DEF CommitRecover
  <2> QED  BY <2>0, <2>1, <2>2, <2>3, <2>4, RowStep DEF SameClaim
<1> QED  BY InitQueue, QueueInductive, <1>1, PTL DEF Spec, EndedIsFinal

-----------------------------------------------------------------------------
(* The queue implements leased work *)

(* The item that a row stands for; an unwanted row stands for none.        *)
Leased(row) ==
  IF row.unwanted THEN Absent
  ELSE [state |-> CASE row.status = "absent"   -> "absent"
                    [] row.status = "queued"   -> "ready"
                    [] row.status \in Active   -> "held"
                    [] OTHER                   -> "closed",
        holder |-> row.token, result |-> row.output]

LEMMA LeasedStates ==
  ASSUME NEW row \in Row
  PROVE  /\ Leased(row) = [state |-> Leased(row).state, holder |-> Leased(row).holder,
                           result |-> Leased(row).result]
         /\ row.unwanted => Leased(row) = Absent
         /\ ~row.unwanted =>
              /\ Leased(row) = [state |-> Leased(row).state, holder |-> row.token,
                                result |-> row.output]
              /\ row.status = "absent" => Leased(row).state = "absent"
              /\ row.status = "queued" => Leased(row).state = "ready"
              /\ row.status \in Active => Leased(row).state = "held"
              /\ row.status \in Terminal => Leased(row).state = "closed"
<1>1. CASE row.unwanted
  BY <1>1 DEF Leased, Absent
<1>2. CASE ~row.unwanted
  BY <1>2 DEF Leased, Active, Terminal
<1> QED  BY <1>1, <1>2

(* Each step of the abstract specification, written for the mapped rows.   *)
LEMMA LeaseSteps ==
  ASSUME runs \in [Runs -> Row], runs' \in [Runs -> Row]
  PROVE  /\ \A r \in Runs :
              /\ Leased(runs[r]).state = "absent"
              /\ \A q \in Runs \ {r} : Leased(runs'[q]) = Leased(runs[q])
              /\ Leased(runs'[r]) = [state |-> "ready", holder |-> Leased(runs[r]).holder,
                                     result |-> Leased(runs[r]).result]
              /\ nextToken' = nextToken
              => Lease!Add(r)
         /\ \A batch \in SUBSET Runs :
              /\ \A r \in batch : /\ Leased(runs[r]).state = "ready"
                                  /\ Leased(runs'[r]) =
                                       [state |-> "held", holder |-> nextToken,
                                        result |-> Leased(runs[r]).result]
              /\ \A r \in Runs \ batch : Leased(runs'[r]) = Leased(runs[r])
              /\ nextToken' = nextToken + 1
              => Lease!Grant(batch)
         /\ \A r \in Runs :
              /\ Leased(runs[r]).state = "held"
              /\ \A q \in Runs \ {r} : Leased(runs'[q]) = Leased(runs[q])
              /\ \E result \in {Leased(runs[r]).result, Leased(runs[r]).holder} :
                   Leased(runs'[r]) =
                     [state |-> "closed", holder |-> 0, result |-> result]
              /\ nextToken' = nextToken
              => Lease!Close(r)
         /\ \A back, drop \in SUBSET Runs :
              /\ \A r \in back : /\ Leased(runs[r]).state = "held" /\ r \notin drop
                                 /\ Leased(runs'[r]) =
                                      [state |-> "ready", holder |-> 0,
                                       result |-> Leased(runs[r]).result]
              /\ \A r \in drop : /\ Leased(runs[r]).state = "held"
                                 /\ Leased(runs'[r]) =
                                      [state |-> "closed", holder |-> 0,
                                       result |-> Leased(runs[r]).result]
              /\ \A r \in Runs \ (back \cup drop) : Leased(runs'[r]) = Leased(runs[r])
              /\ nextToken' = nextToken
              => Lease!Release(back, drop)
<1> DEFINE items == [r \in Runs |-> Leased(runs[r])]
<1>0. /\ items = [r \in Runs |-> Leased(runs[r])]
      /\ \A r \in Runs :
           items[r] = [state |-> Leased(runs[r]).state, holder |-> Leased(runs[r]).holder,
                       result |-> Leased(runs[r]).result]
  BY LeasedStates
<1>01. ASSUME NEW r \in Runs, NEW s, NEW h
       PROVE  [items[r] EXCEPT !.state = s, !.holder = h]
                = [state |-> s, holder |-> h, result |-> Leased(runs[r]).result]
  <2>1. items[r] = [state |-> Leased(runs[r]).state, holder |-> Leased(runs[r]).holder,
                    result |-> Leased(runs[r]).result]
    BY <1>0
  <2>2. [items[r] EXCEPT !.state = s]
          = [state |-> s, holder |-> Leased(runs[r]).holder, result |-> Leased(runs[r]).result]
    BY <2>1
  <2>3. [[state |-> s, holder |-> Leased(runs[r]).holder, result |-> Leased(runs[r]).result]
           EXCEPT !.holder = h]
          = [state |-> s, holder |-> h, result |-> Leased(runs[r]).result]
    OBVIOUS
  <2> QED  BY <2>1, <2>2, <2>3, Zenon
<1>00. items' = [r \in Runs |-> Leased(runs'[r])]
  BY DEF Leased, Absent
<1> HIDE DEF items
<1>1. ASSUME NEW r \in Runs,
             Leased(runs[r]).state = "absent",
             \A q \in Runs \ {r} : Leased(runs'[q]) = Leased(runs[q]),
             Leased(runs'[r]) = [state |-> "ready", holder |-> Leased(runs[r]).holder,
                                 result |-> Leased(runs[r]).result],
             nextToken' = nextToken
      PROVE  Lease!Add(r)
  <2>1. items' = [items EXCEPT ![r].state = "ready"] /\ items[r].state = "absent"
    BY <1>0, <1>00, <1>1
  <2> QED  BY <1>1, <2>1 DEF Lease!Add, Leased, items
<1>2. ASSUME NEW batch \in SUBSET Runs,
             \A r \in batch : /\ Leased(runs[r]).state = "ready"
                              /\ Leased(runs'[r]) =
                                   [state |-> "held", holder |-> nextToken,
                                    result |-> Leased(runs[r]).result],
             \A r \in Runs \ batch : Leased(runs'[r]) = Leased(runs[r]),
             nextToken' = nextToken + 1
      PROVE  Lease!Grant(batch)
  <2>1. items' = [r \in Runs |->
                    IF r \in batch THEN [items[r] EXCEPT !.state = "held", !.holder = nextToken]
                    ELSE items[r]]
    <3>1. ASSUME NEW r \in batch
          PROVE  Leased(runs'[r]) = [items[r] EXCEPT !.state = "held", !.holder = nextToken]
      <4>1. r \in Runs
        OBVIOUS
      <4>2. [items[r] EXCEPT !.state = "held", !.holder = nextToken]
              = [state |-> "held", holder |-> nextToken, result |-> Leased(runs[r]).result]
        BY <1>01, <4>1, Zenon
      <4>3. Leased(runs'[r]) = [state |-> "held", holder |-> nextToken, result |-> Leased(runs[r]).result]
        BY <1>2
      <4> QED  BY <4>2, <4>3, Zenon
    <3>2. \A r \in Runs \ batch : Leased(runs'[r]) = items[r]
      BY <1>0, <1>2
    <3> QED  BY <1>00, <3>1, <3>2
  <2>2. \A r \in batch : items[r].state \in {"ready", "held"}
    BY <1>0, <1>2
  <2> QED  BY <1>2, <2>1, <2>2 DEF Lease!Grant, Leased, items
<1>3. ASSUME NEW r \in Runs,
             Leased(runs[r]).state = "held",
             \A q \in Runs \ {r} : Leased(runs'[q]) = Leased(runs[q]),
             NEW result \in {Leased(runs[r]).result, Leased(runs[r]).holder},
             Leased(runs'[r]) = [state |-> "closed", holder |-> 0, result |-> result],
             nextToken' = nextToken
      PROVE  Lease!Close(r)
  <2>1. /\ items' = [items EXCEPT ![r] = [state |-> "closed", holder |-> 0, result |-> result]]
        /\ result \in {items[r].result, items[r].holder} /\ items[r].state = "held"
    BY <1>0, <1>00, <1>3
  <2> QED  BY <1>3, <2>1 DEF Lease!Close, Leased, items
<1>4. ASSUME NEW back \in SUBSET Runs, NEW drop \in SUBSET Runs,
             \A r \in back : /\ Leased(runs[r]).state = "held" /\ r \notin drop
                             /\ Leased(runs'[r]) =
                                  [state |-> "ready", holder |-> 0,
                                   result |-> Leased(runs[r]).result],
             \A r \in drop : /\ Leased(runs[r]).state = "held"
                             /\ Leased(runs'[r]) =
                                  [state |-> "closed", holder |-> 0,
                                   result |-> Leased(runs[r]).result],
             \A r \in Runs \ (back \cup drop) : Leased(runs'[r]) = Leased(runs[r]),
             nextToken' = nextToken
      PROVE  Lease!Release(back, drop)
  <2>1. items' = [r \in Runs |->
                    CASE r \in drop -> [items[r] EXCEPT !.state = "closed", !.holder = 0]
                      [] r \in back \ drop -> [items[r] EXCEPT !.state = "ready", !.holder = 0]
                      [] OTHER -> items[r]]
    <3>1. ASSUME NEW r \in drop
          PROVE  Leased(runs'[r]) = [items[r] EXCEPT !.state = "closed", !.holder = 0]
      <4>1. r \in Runs
        OBVIOUS
      <4>2. [items[r] EXCEPT !.state = "closed", !.holder = 0]
              = [state |-> "closed", holder |-> 0, result |-> Leased(runs[r]).result]
        BY <1>01, <4>1, Zenon
      <4>3. Leased(runs'[r]) = [state |-> "closed", holder |-> 0, result |-> Leased(runs[r]).result]
        BY <1>4
      <4> QED  BY <4>2, <4>3, Zenon
    <3>2. ASSUME NEW r \in back
          PROVE  /\ Leased(runs'[r]) = [items[r] EXCEPT !.state = "ready", !.holder = 0]
                 /\ r \notin drop
      <4>1. r \in Runs
        OBVIOUS
      <4>2. [items[r] EXCEPT !.state = "ready", !.holder = 0]
              = [state |-> "ready", holder |-> 0, result |-> Leased(runs[r]).result]
        BY <1>01, <4>1, Zenon
      <4>3. Leased(runs'[r]) = [state |-> "ready", holder |-> 0, result |-> Leased(runs[r]).result] /\ r \notin drop
        BY <1>4
      <4> QED  BY <4>2, <4>3, Zenon
    <3>3. \A r \in Runs \ (back \cup drop) : Leased(runs'[r]) = items[r]
      BY <1>0, <1>4
    <3> QED  BY <1>00, <3>1, <3>2, <3>3
  <2>2. \A r \in back \cup drop : items[r].state = "held"
    BY <1>0, <1>4
  <2> QED  BY <1>4, <2>1, <2>2 DEF Lease!Release, Leased, items
<1> QED  BY <1>1, <1>2, <1>3, <1>4

(* Every step of the queue is a step of leased work or none: creation adds *)
(* an item, a claim grants it, the end of an execution closes or releases  *)
(* it, and a recovery releases the runs it retries and drops the ones it   *)
(* fails.                                                                  *)
LEMMA StepsAreLeased ==
  ASSUME Prompt, QueueInv, [Next]_vars
  PROVE  Lease!Next \/ (/\ \A r \in Runs : Leased(runs'[r]) = Leased(runs[r])
                        /\ nextToken' = nextToken)
<1> DEFINE Stutter == /\ \A r \in Runs : Leased(runs'[r]) = Leased(runs[r])
                      /\ nextToken' = nextToken
<1>0. /\ TypeOK /\ runs \in [Runs -> Row] /\ runs' \in [Runs -> Row]
      /\ \A r \in Runs : runs[r] \in Row /\ runs'[r] \in Row
  BY NextType DEF QueueInv, TypeOK
<1>1. \A r \in Runs : SameClaim(runs[r], runs'[r]) => Leased(runs'[r]) = Leased(runs[r])
  BY DEF SameClaim, Leased
<1>2. \A r \in Runs : runs'[r] = runs[r] => Leased(runs'[r]) = Leased(runs[r])
  OBVIOUS
<1>3. \A r \in Runs : runs[r].unwanted /\ runs'[r].unwanted
        => Leased(runs'[r]) = Leased(runs[r])
  BY DEF Leased
<1>4. \A r \in Runs : RowInv(r)
  BY DEF QueueInv
<1>5. ASSUME NEW r \in Runs, Create(r)
      PROVE  Lease!Next \/ Stutter
  <2>1. /\ runs[r].status = "absent" /\ runs'[r].status = "queued"
        /\ runs'[r].token = runs[r].token /\ runs'[r].output = runs[r].output
        /\ \A q \in Runs \ {r} : runs'[q] = runs[q]
        /\ nextToken' = nextToken
    BY <1>0, <1>5, NewRows DEF Create
  <2>2. /\ Leased(runs[r]).state = "absent" /\ Leased(runs[r]).holder = 0
        /\ Leased(runs[r]).result = 0 /\ runs[r].token = 0 /\ runs[r].output = 0
        /\ Leased(runs[r]) = Absent
    BY <1>0, <1>4, <2>1, LeasedStates DEF RowInv, Absent
  <2>3. CASE runs'[r].unwanted
    <3>1. Leased(runs'[r]) = Leased(runs[r])
      BY <1>0, <2>2, <2>3, LeasedStates
    <3> QED  BY <1>2, <2>1, <3>1
  <2>4. CASE ~runs'[r].unwanted
    <3>1. Leased(runs'[r]) = [state |-> "ready", holder |-> Leased(runs[r]).holder,
                              result |-> Leased(runs[r]).result]
      BY <1>0, <2>1, <2>2, <2>4, LeasedStates
    <3>2. \A q \in Runs \ {r} : Leased(runs'[q]) = Leased(runs[q])
      BY <2>1
    <3>3. Lease!Add(r)
      BY <1>0, <2>1, <2>2, <3>1, <3>2, LeaseSteps
    <3> QED  BY <3>3 DEF Lease!Next
  <2> QED  BY <2>3, <2>4
<1>6. ASSUME NEW w \in Workers, NEW r \in Runs, Claim(w, r)
      PROVE  Lease!Next
  <2>1. /\ runs[r].status = "queued" /\ runs'[r].status = "running"
        /\ runs'[r].token = nextToken /\ runs'[r].output = runs[r].output
        /\ runs'[r].unwanted = runs[r].unwanted
        /\ \A q \in Runs \ {r} : runs'[q] = runs[q]
        /\ nextToken' = nextToken + 1
    BY <1>0, <1>6, NewRows DEF Claim
  <2>2. \A q \in Runs \ {r} : Leased(runs'[q]) = Leased(runs[q])
    BY <2>1
  <2>3. {r} \in SUBSET Runs /\ {} \in SUBSET Runs
    OBVIOUS
  <2>4. CASE runs[r].unwanted
    <3>1. \A q \in Runs \ {} : Leased(runs'[q]) = Leased(runs[q])
      BY <1>3, <2>1, <2>2, <2>4
    <3>2. Lease!Grant({})
      BY <1>0, <2>1, <2>3, <3>1, LeaseSteps
    <3> QED  BY <2>3, <3>2 DEF Lease!Next
  <2>5. CASE ~runs[r].unwanted
    <3>1. /\ Leased(runs[r]).state = "ready"
          /\ Leased(runs'[r]) = [state |-> "held", holder |-> nextToken,
                                 result |-> Leased(runs[r]).result]
      <4>1. Leased(runs[r]).state = "ready" /\ Leased(runs[r]).result = runs[r].output
        BY <1>0, <2>1, <2>5, LeasedStates
      <4>2. Leased(runs'[r]) = [state |-> "held", holder |-> nextToken,
                                result |-> runs[r].output]
        BY <1>0, <2>1, <2>5, LeasedStates DEF Active
      <4> QED  BY <4>1, <4>2
    <3>2. Lease!Grant({r})
      BY <1>0, <2>1, <2>2, <2>3, <3>1, LeaseSteps
    <3> QED  BY <2>3, <3>2 DEF Lease!Next
  <2> QED  BY <2>4, <2>5
<1>7. ASSUME NEW w \in Workers, CommitOwned(w)
      PROVE  Lease!Next \/ Stutter
  <2>0. PICK r \in Runs : r = mainTxn[w].run
    BY <1>7, OwnedRun DEF CommitOwned
  <2>1. /\ \A q \in Runs \ {r} : Leased(runs'[q]) = Leased(runs[q])
        /\ nextToken' = nextToken
        /\ runs[r].status \in Active \/ runs[r].unwanted
    BY <1>0, <1>7, <2>0, OwnedRun DEF CommitOwned
  <2>2. CASE SameClaim(runs[r], runs'[r])
    BY <1>1, <2>1, <2>2
  <2>3. CASE /\ runs'[r].status \in Active
             /\ SameClaim([runs[r] EXCEPT !.status = runs'[r].status], runs'[r])
    <3>1. /\ runs'[r].token = runs[r].token /\ runs'[r].output = runs[r].output
          /\ runs'[r].unwanted = runs[r].unwanted
      BY <1>0, <2>3 DEF SameClaim, Row
    <3>2. Leased(runs'[r]) = Leased(runs[r])
      BY <1>0, <1>3, <2>1, <2>3, <3>1, LeasedStates
    <3> QED  BY <2>1, <3>2
  <2>4. CASE Released(runs[r], runs'[r]) /\ runs[r].unwanted
    BY <1>3, <2>1, <2>4 DEF Released
  <2>5. CASE /\ Released(runs[r], runs'[r]) /\ ~runs[r].unwanted
             /\ runs'[r].status = "queued" /\ runs'[r].output = runs[r].output
    <3>1. /\ Leased(runs[r]).state = "held"
          /\ Leased(runs'[r]) = [state |-> "ready", holder |-> 0,
                                 result |-> Leased(runs[r]).result]
      <4>1. Leased(runs[r]).state = "held" /\ Leased(runs[r]).result = runs[r].output
        BY <1>0, <2>1, <2>5, LeasedStates
      <4>2. Leased(runs'[r]) = [state |-> "ready", holder |-> 0, result |-> runs[r].output]
        BY <1>0, <2>5, LeasedStates DEF Released
      <4> QED  BY <4>1, <4>2
    <3>2. {r} \in SUBSET Runs /\ {} \in SUBSET Runs
      OBVIOUS
    <3>3. Lease!Release({r}, {})
      BY <1>0, <2>1, <3>1, <3>2, LeaseSteps
    <3> QED  BY <3>2, <3>3 DEF Lease!Next
  <2>6. CASE /\ Released(runs[r], runs'[r]) /\ ~runs[r].unwanted
             /\ runs'[r].status \in Terminal
             /\ runs'[r].output \in {runs[r].output, runs[r].token}
    <3>1. /\ Leased(runs[r]).state = "held" /\ Leased(runs[r]).result = runs[r].output
          /\ Leased(runs[r]).holder = runs[r].token
      BY <1>0, <2>1, <2>6, LeasedStates
    <3>2. Leased(runs'[r]) = [state |-> "closed", holder |-> 0, result |-> runs'[r].output]
      BY <1>0, <2>6, LeasedStates DEF Released
    <3>3. Lease!Close(r)
      BY <1>0, <2>1, <2>6, <3>1, <3>2, LeaseSteps
    <3> QED  BY <3>3 DEF Lease!Next
  <2> QED  BY <1>7, <2>0, <2>2, <2>3, <2>4, <2>5, <2>6, OwnedRows
<1>8. ASSUME NEW w \in Workers, CommitRecover(w)
      PROVE  Lease!Next
  <2> DEFINE Wanted == {r \in mainTxn[w].rows : ~runs[r].unwanted /\ runs[r].status \in Active}
  <2>0. PICK back \in SUBSET Runs, drop \in SUBSET Runs :
          /\ back = {r \in Wanted : ~Exhausted(r)}
          /\ drop = {r \in Wanted : Exhausted(r)}
    <3>1. Wanted \in SUBSET Runs
      BY <1>8, RecoveredRun DEF CommitRecover
    <3> HIDE DEF Wanted
    <3> QED  BY <3>1
  <2>1. nextToken' = nextToken
    BY <1>8 DEF CommitRecover
  <2>2. ASSUME NEW r \in Runs, r \notin mainTxn[w].rows
        PROVE  Leased(runs'[r]) = Leased(runs[r])
    BY <1>8, <2>2 DEF CommitRecover
  <2>3. ASSUME NEW r \in mainTxn[w].rows
        PROVE  /\ r \in Runs
               /\ Released(runs[r], runs'[r]) /\ runs'[r].output = runs[r].output
               /\ runs'[r].status = IF Exhausted(r) THEN "failed" ELSE "queued"
               /\ runs[r].status # "absent"
               /\ runs[r].status \in Terminal /\ ~runs[r].unwanted =>
                    runs[r].status = "failed" /\ Exhausted(r)
    BY <1>8, RecoveredRun, RecoveredRows DEF CommitRecover
  <2>4. ASSUME NEW r \in mainTxn[w].rows, r \notin Wanted
        PROVE  Leased(runs'[r]) = Leased(runs[r])
    <3>0. r \in Runs /\ runs[r] \in Row /\ runs'[r] \in Row /\ RowInv(r)
      BY <1>0, <1>4, <2>3
    <3>1. CASE runs[r].unwanted
      BY <1>3, <2>3, <3>1 DEF Released
    <3>2. CASE ~runs[r].unwanted /\ runs[r].status = "queued"
      <4>1. runs'[r].status = "queued" /\ runs[r].token = 0 /\ runs'[r].token = 0
        BY <2>3, <3>0, <3>2 DEF RowInv, Released, Active
      <4> QED  BY <2>3, <3>0, <3>2, <4>1, LeasedStates DEF Released
    <3>3. CASE ~runs[r].unwanted /\ runs[r].status \in Terminal
      <4>1. /\ runs[r].status = "failed" /\ runs'[r].status = "failed"
            /\ runs[r].token = 0 /\ runs'[r].token = 0
        BY <2>3, <3>0, <3>3 DEF RowInv, Released, Active
      <4> QED  BY <2>3, <3>0, <3>3, <4>1, LeasedStates DEF Released, Terminal
    <3>4. runs[r].status \in Active \cup Terminal \cup {"queued"}
      BY <2>3, <3>0 DEF Row, Status
    <3> QED  BY <2>4, <3>1, <3>2, <3>3, <3>4
  <2>5. ASSUME NEW r \in Wanted
        PROVE  /\ r \in Runs /\ Leased(runs[r]).state = "held"
               /\ Exhausted(r) => Leased(runs'[r]) = [state |-> "closed", holder |-> 0,
                                                      result |-> Leased(runs[r]).result]
               /\ ~Exhausted(r) => Leased(runs'[r]) = [state |-> "ready", holder |-> 0,
                                                       result |-> Leased(runs[r]).result]
    <3>0. r \in Runs /\ runs[r] \in Row /\ runs'[r] \in Row
      BY <1>0, <2>3
    <3>1. Leased(runs[r]).state = "held" /\ Leased(runs[r]).result = runs[r].output
      BY <3>0, LeasedStates
    <3>2. /\ runs'[r].token = 0 /\ ~runs'[r].unwanted /\ runs'[r].output = runs[r].output
          /\ Exhausted(r) => runs'[r].status \in Terminal
          /\ ~Exhausted(r) => runs'[r].status = "queued"
      BY <2>3 DEF Released, Terminal
    <3>3. /\ Exhausted(r) => Leased(runs'[r]) = [state |-> "closed", holder |-> 0,
                                                 result |-> runs[r].output]
          /\ ~Exhausted(r) => Leased(runs'[r]) = [state |-> "ready", holder |-> 0,
                                                  result |-> runs[r].output]
      BY <3>0, <3>2, LeasedStates
    <3> QED  BY <3>0, <3>1, <3>3
  <2>6. \A r \in Runs \ (back \cup drop) : Leased(runs'[r]) = Leased(runs[r])
    <3>1. \A r \in Wanted : r \in back \cup drop
      BY <2>0
    <3> HIDE DEF Wanted
    <3> QED  BY <2>2, <2>4, <3>1
  <2>7. \A r \in back : /\ Leased(runs[r]).state = "held" /\ r \notin drop
                         /\ Leased(runs'[r]) = [state |-> "ready", holder |-> 0,
                                                result |-> Leased(runs[r]).result]
    <3>1. \A r \in back : r \in Wanted /\ ~Exhausted(r) /\ r \notin drop
      BY <2>0
    <3> HIDE DEF Wanted
    <3> QED  BY <2>5, <3>1
  <2>8. \A r \in drop : /\ Leased(runs[r]).state = "held"
                         /\ Leased(runs'[r]) = [state |-> "closed", holder |-> 0,
                                                result |-> Leased(runs[r]).result]
    <3>1. \A r \in drop : r \in Wanted /\ Exhausted(r)
      BY <2>0
    <3> HIDE DEF Wanted
    <3> QED  BY <2>5, <3>1
  <2>9. runs \in [Runs -> Row] /\ runs' \in [Runs -> Row] /\ nextToken' = nextToken
    BY <1>0, <2>1
  <2>10. Lease!Release(back, drop)
    <3> HIDE DEF Wanted, QueueInv, RowInv, TypeOK
    <3> QED  BY <2>6, <2>7, <2>8, <2>9, LeaseSteps
  <2> QED  BY <2>10 DEF Lease!Next
<1>9. ASSUME CommitCancel
      PROVE  Stutter
  <2>1. ASSUME NEW r \in Runs
        PROVE  Leased(runs'[r]) = Leased(runs[r])
    <3>1. CASE apiTxn.run = r
      <4>1. runs[r].unwanted
        BY <3>1 DEF QueueInv, CancelInv
      <4>2. runs'[r].unwanted = runs[r].unwanted
        BY <1>0, <1>9, <3>1 DEF CommitCancel, Row
      <4> QED  BY <1>3, <4>1, <4>2
    <3>2. CASE apiTxn.run # r
      BY <1>0, <1>9, <3>2 DEF CommitCancel
    <3> QED  BY <3>1, <3>2
  <2> QED  BY <1>9, <2>1 DEF CommitCancel
<1>10. ASSUME NEW r \in Runs, BeginCancel(r) \/ LeaseExpires(r) \/ RetryDue(r)
       PROVE  Stutter
  <2>1. ASSUME NEW q \in Runs
        PROVE  SameClaim(runs[q], runs'[q])
    <3>1. CASE BeginCancel(r)
      BY <3>1 DEF BeginCancel, SameClaim
    <3>2. CASE LeaseExpires(r)
      BY <1>0, <3>2 DEF LeaseExpires, SameClaim, Row
    <3>3. CASE RetryDue(r)
      BY <1>0, <3>3 DEF RetryDue, SameClaim, Row
    <3> QED  BY <1>10, <3>1, <3>2, <3>3
  <2> QED  BY <1>1, <1>10, <2>1 DEF BeginCancel, LeaseExpires, RetryDue
<1>11. ASSUME NEW w \in Workers, CommitRenew(w)
       PROVE  Stutter
  <2>1. ASSUME NEW q \in Runs
        PROVE  SameClaim(runs[q], runs'[q])
    BY <1>0, <1>11 DEF CommitRenew, SameClaim, Row
  <2> QED  BY <1>1, <1>11, <2>1 DEF CommitRenew
<1>12. ASSUME NEW w \in Workers,
              \/ BeginRecover(w) \/ ClaimNothing(w) \/ Transition(w) \/ Leave(w)
              \/ Call(w) \/ BeginRenew(w) \/ Crash(w)
       PROVE  Stutter
  <2>1. UNCHANGED <<runs, nextToken>>
    BY <1>12 DEF BeginRecover, ClaimNothing, Transition, BeginTransition, Leave, Complete,
       BeginComplete, BeginFail, BeginOwned, Call, CheckCall, SendCall, BeginRenew, Crash
  <2> QED  BY <2>1
<1>13. ASSUME UNCHANGED vars
       PROVE  Stutter
  BY <1>13 DEF vars
<1> HIDE DEF Stutter
<1>14. Lease!Next \/ Stutter
  BY <1>5, <1>6, <1>7, <1>8, <1>9, <1>10, <1>11, <1>12, <1>13 DEF Next, WorkerStep, Poll
<1> QED  BY <1>14 DEF Stutter

(* The queue of AI runs is leased work: a run is granted under a token that *)
(* was never used, only the claim that holds it closes it or leaves a      *)
(* result, and a closed run stays closed, through crashes, lost leases,    *)
(* retries and concurrent recoveries.                                      *)
THEOREM RunsAreLeasedWork ==
  ASSUME Prompt
  PROVE  Spec => ImplementsLeasedWork
<1>1. Init => Lease!Init
  <2> SUFFICES ASSUME Init PROVE Lease!Init
    OBVIOUS
  <2>1. \A r \in Runs : ~runs[r].unwanted
    BY DEF Init
  <2>2. [r \in Runs |-> Leased(runs[r])] = [r \in Runs |-> Absent] /\ nextToken = 1
    <3>1. /\ \A r \in Runs : runs[r] \in Row
          /\ \A r \in Runs : /\ runs[r].status = "absent" /\ runs[r].token = 0
                             /\ runs[r].output = 0
      BY InitQueue DEF Init, QueueInv, TypeOK
    <3> QED  BY <2>1, <3>1, LeasedStates DEF Absent, Init
  <2> QED  BY <2>2 DEF Lease!Init, Leased, Absent
<1>2. QueueInv /\ [Next]_vars => [Lease!Next]_<<[r \in Runs |-> Leased(runs[r])], nextToken>>
  <2> SUFFICES ASSUME QueueInv, [Next]_vars
               PROVE  \/ Lease!Next
                      \/ /\ [r \in Runs |-> Leased(runs'[r])]
                              = [r \in Runs |-> Leased(runs[r])]
                         /\ nextToken' = nextToken
    BY DEF Leased, Absent
  <2> QED  BY StepsAreLeased
<1> QED  BY InitQueue, QueueInductive, <1>1, <1>2, PTL
         DEF Spec, ImplementsLeasedWork, Lease!Spec, Leased
=============================================================================
