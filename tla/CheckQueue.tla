------------------------------ MODULE CheckQueue ------------------------------
(***************************************************************************)
(* CCheckQueue and CCheckQueueControl of the top chain: ConnectBlock (a    *)
(* master) hands the script checks of a block to worker threads, helps     *)
(* them, and waits until all are done.                                     *)
(*                                                                         *)
(* All shared state is read and written under one mutex, so that a         *)
(* critical section is one step: from taking the mutex to giving it up or  *)
(* to cond.wait, which gives it up and blocks at once.  A check is known   *)
(* by the master that added it and by what it will return; running a batch *)
(* touches nothing shared.                                                 *)
(*                                                                         *)
(* A thread blocked in cond.wait is woken by a notification, for no reason *)
(* (condition variables allow that), or by an interruption: the node       *)
(* interrupts its thread group when it stops, workers and the thread that  *)
(* imports blocks alike.  fQuit is never set and is left out.              *)
(***************************************************************************)
EXTENDS Integers, Sequences, FiniteSets, FiniteSetsExt

CONSTANTS Workers, Masters,  \* threads in Thread() and threads that connect blocks
          nBatchSize,        \* most checks of a batch
          MaxChecks,         \* bound: checks one master adds under one control
          MaxInputs,         \* bound: checks of one transaction
          MaxInterrupts,     \* bound: threads interrupted
          Nobody

Threads == Workers \cup Masters

ASSUME CheckQueueAssumption ==
  /\ Workers \cap Masters = {} /\ Nobody \notin Threads
  /\ IsFiniteSet(Threads)
  /\ nBatchSize \in Nat \ {0} /\ MaxChecks \in Nat /\ MaxInputs \in Nat /\ MaxInterrupts \in Nat

VARIABLES
  queue,       \* queue, a stack
  nIdle, nTotal, fAllOk, nTodo,
  ControlMutex,\* the master that has it, or Nobody
  pc,          \* where each thread is
  vChecks,     \* the batch of each thread
  nNow, fOk,   \* size and outcome of a thread's last batch; 0 before its first
  destructing, \* that master is in ~CCheckQueueControl and its Wait() has not returned
  result,      \* what Wait() returned to the master that has the control
  added,       \* history: how many checks were added under the control, and
               \* whether all of them succeed
  interrupts   \* interruptions so far

shared == <<queue, nIdle, nTotal, fAllOk, nTodo>>
locals == <<vChecks, nNow, fOk>>
queueVars == <<shared, ControlMutex, pc, locals, destructing, result, added, interrupts>>

Check == [owner : Masters, ok : BOOLEAN]
InLoop == {"lock", "wait", "woken", "work"}

QueueInit ==
  /\ queue = <<>> /\ nIdle = 0 /\ nTotal = 0 /\ fAllOk = TRUE /\ nTodo = 0
  /\ ControlMutex = Nobody
  /\ pc = [t \in Threads |-> IF t \in Workers THEN "lock" ELSE "outside"]
  /\ vChecks = [t \in Threads |-> <<>>]
  /\ nNow = [t \in Threads |-> 0] /\ fOk = [t \in Threads |-> TRUE]
  /\ destructing = FALSE /\ result = TRUE
  /\ added = [n |-> 0, ok |-> TRUE]
  /\ interrupts = 0

-------------------------------------------------------------------------------
(* notify_one and notify_all: the program counters once threads of S that  *)
(* wait have been notified.                                                *)
Waiting(S) == {t \in S : pc[t] = "wait"}

notify_one(S) ==
  IF Waiting(S) = {} THEN {pc} ELSE {[pc EXCEPT ![t] = "woken"] : t \in Waiting(S)}

notify_all(S) == [t \in Threads |-> IF t \in Waiting(S) THEN "woken" ELSE pc[t]]

(* How many checks a thread takes from a queue that is not empty. *)
Batch(total, idle) == Max({1, Min({nBatchSize, Len(queue) \div (total + idle + 1)})})

(* The part of Loop() from the test of the queue on, in a critical section *)
(* that has got as far as these values.  A thread that blocks or returns   *)
(* does not use its nNow and fOk again.                                    *)
Proceed(t, at, todo, ok, total, idle) ==
  \/ LET n == Batch(total, idle)
         rest == Len(queue) - n
     IN /\ queue # <<>>
        /\ vChecks' = [vChecks EXCEPT ![t] = SubSeq(queue, rest + 1, Len(queue))]
        /\ queue' = SubSeq(queue, 1, rest)
        /\ nNow' = [nNow EXCEPT ![t] = n]
        /\ fOk' = [fOk EXCEPT ![t] = ok]
        /\ pc' = [at EXCEPT ![t] = "work"]
        /\ nTodo' = todo /\ fAllOk' = ok /\ nTotal' = total /\ nIdle' = idle
        /\ UNCHANGED result
  \/ /\ queue = <<>> /\ t \in Masters /\ todo = 0
     /\ nTotal' = total - 1
     /\ result' = ok
     /\ fAllOk' = TRUE
     /\ nNow' = [nNow EXCEPT ![t] = 0] /\ fOk' = [fOk EXCEPT ![t] = TRUE]
     /\ pc' = [at EXCEPT ![t] = "done"]
     /\ nTodo' = todo /\ nIdle' = idle
     /\ UNCHANGED <<queue, vChecks>>
  \/ /\ queue = <<>> /\ (t \in Masters => todo # 0)
     /\ nIdle' = idle + 1
     /\ pc' = [at EXCEPT ![t] = "wait"]
     /\ nNow' = [nNow EXCEPT ![t] = 0] /\ fOk' = [fOk EXCEPT ![t] = TRUE]
     /\ nTodo' = todo /\ fAllOk' = ok /\ nTotal' = total
     /\ UNCHANGED <<queue, vChecks, result>>

(* Mutant: the last batch does not tell the master. *)
Loop_silent(t) ==
  /\ pc[t] = "lock"
  /\ IF nNow[t] > 0
     THEN Proceed(t, pc, nTodo - nNow[t], fAllOk /\ fOk[t], nTotal, nIdle)
     ELSE Proceed(t, pc, nTodo, fAllOk, nTotal + 1, nIdle)
  /\ UNCHANGED <<ControlMutex, destructing, added, interrupts>>

(* Mutant: the outcome of a batch is dropped. *)
Loop_forgets(t) ==
  /\ pc[t] = "lock"
  /\ IF nNow[t] > 0
     THEN LET todo == nTodo - nNow[t]
          IN \E at \in IF todo = 0 /\ t \in Workers THEN notify_one(Masters) ELSE {pc} :
               Proceed(t, at, todo, fAllOk, nTotal, nIdle)
     ELSE Proceed(t, pc, nTodo, fAllOk, nTotal + 1, nIdle)
  /\ UNCHANGED <<ControlMutex, destructing, added, interrupts>>

(* Mutant: a batch counts as one check. *)
Loop_counts_one(t) ==
  /\ pc[t] = "lock"
  /\ IF nNow[t] > 0
     THEN LET todo == nTodo - 1
          IN \E at \in IF todo = 0 /\ t \in Workers THEN notify_one(Masters) ELSE {pc} :
               Proceed(t, at, todo, fAllOk /\ fOk[t], nTotal, nIdle)
     ELSE Proceed(t, pc, nTodo, fAllOk, nTotal + 1, nIdle)
  /\ UNCHANGED <<ControlMutex, destructing, added, interrupts>>

(* Loop() takes the mutex: accounts for the batch it has run, if any, and  *)
(* wakes the master after the last one.                                    *)
Loop(t) ==
  /\ pc[t] = "lock"
  /\ IF nNow[t] > 0
     THEN LET todo == nTodo - nNow[t]
          IN \E at \in IF todo = 0 /\ t \in Workers THEN notify_one(Masters) ELSE {pc} :
               Proceed(t, at, todo, fAllOk /\ fOk[t], nTotal, nIdle)
     ELSE Proceed(t, pc, nTodo, fAllOk, nTotal + 1, nIdle)
  /\ UNCHANGED <<ControlMutex, destructing, added, interrupts>>

(* Loop() comes back from cond.wait. *)
Resume(t) ==
  /\ pc[t] = "woken"
  /\ Proceed(t, pc, nTodo, fAllOk, nTotal, nIdle - 1)
  /\ UNCHANGED <<ControlMutex, destructing, added, interrupts>>

(* The checks of a batch, in turn, until one fails. *)
Execute(t) ==
  /\ pc[t] = "work"
  /\ fOk' = [fOk EXCEPT ![t] = @ /\ \A i \in DOMAIN vChecks[t] : vChecks[t][i].ok]
  /\ vChecks' = [vChecks EXCEPT ![t] = <<>>]
  /\ pc' = [pc EXCEPT ![t] = "lock"]
  /\ UNCHANGED <<shared, ControlMutex, nNow, destructing, result, added, interrupts>>

Spurious(t) ==
  /\ pc[t] = "wait"
  /\ pc' = [pc EXCEPT ![t] = "woken"]
  /\ UNCHANGED <<shared, ControlMutex, locals, destructing, result, added, interrupts>>

(* cond.wait throws thread_interrupted.  A worker ends.  In a master the   *)
(* exception leaves ConnectBlock through ~CCheckQueueControl, which calls  *)
(* Wait() again; if it was that call that was interrupted, an exception    *)
(* leaves a destructor and the process is terminated.  The counters of     *)
(* idle and of all threads are not put right.                              *)
Interrupt(t) ==
  /\ interrupts < MaxInterrupts /\ pc[t] \in {"wait", "woken"}
  /\ interrupts' = interrupts + 1
  /\ IF t \in Workers
     THEN pc' = [pc EXCEPT ![t] = "dead"] /\ UNCHANGED destructing
     ELSE \/ /\ ~destructing
             /\ pc' = [pc EXCEPT ![t] = "lock"]
             /\ destructing' = TRUE
          \/ /\ destructing
             /\ pc' = [s \in Threads |-> "dead"]
             /\ UNCHANGED destructing
  /\ UNCHANGED <<shared, ControlMutex, locals, result, added>>

-------------------------------------------------------------------------------
(* The constructor of CCheckQueueControl, in ConnectBlock. *)
Control(m) ==
  /\ pc[m] = "outside" /\ ControlMutex = Nobody
  /\ ControlMutex' = m
  /\ pc' = [pc EXCEPT ![m] = "control"]
  /\ UNCHANGED <<shared, locals, destructing, result, added, interrupts>>

(* ConnectBlock adds the checks of one transaction. *)
Add(m, oks) ==
  /\ pc[m] = "control" /\ added.n + Len(oks) <= MaxChecks
  /\ queue' = queue \o [i \in DOMAIN oks |-> [owner |-> m, ok |-> oks[i]]]
  /\ nTodo' = nTodo + Len(oks)
  /\ \/ Len(oks) = 1 /\ pc' \in notify_one(Workers)
     \/ Len(oks) > 1 /\ pc' = notify_all(Workers)
  /\ added' = [n |-> added.n + Len(oks), ok |-> added.ok /\ \A i \in DOMAIN oks : oks[i]]
  /\ UNCHANGED <<nIdle, nTotal, fAllOk, ControlMutex, locals, destructing, result, interrupts>>

(* control.Wait(), after the last transaction. *)
Wait(m) ==
  /\ pc[m] = "control"
  /\ pc' = [pc EXCEPT ![m] = "lock"]
  /\ UNCHANGED <<shared, ControlMutex, locals, destructing, result, added, interrupts>>

(* Mutant: the control is left at once. *)
Return_at_once(m) ==
  /\ pc[m] \in {"control", "done"}
  /\ ControlMutex' = Nobody
  /\ pc' = [pc EXCEPT ![m] = "outside"]
  /\ UNCHANGED <<shared, locals, destructing, result, added, interrupts>>

(* ~CCheckQueueControl: after Wait() it leaves; ConnectBlock may also have *)
(* returned early, at a transaction that is invalid.                       *)
Return(m) ==
  \/ /\ pc[m] = "done"
     /\ ControlMutex' = Nobody
     /\ pc' = [pc EXCEPT ![m] = "outside"]
     /\ result' = TRUE /\ added' = [n |-> 0, ok |-> TRUE] /\ destructing' = FALSE
     /\ UNCHANGED <<shared, locals, interrupts>>
  \/ /\ pc[m] = "control"
     /\ destructing' = TRUE
     /\ pc' = [pc EXCEPT ![m] = "lock"]
     /\ UNCHANGED <<shared, ControlMutex, locals, result, added, interrupts>>

Terminated == (\A t \in Threads : pc[t] = "dead") /\ UNCHANGED queueVars

Outcomes == UNION {[1..n -> BOOLEAN] : n \in 1..MaxInputs}

QueueNext ==
  \/ \E t \in Threads : Loop(t) \/ Resume(t) \/ Execute(t) \/ Spurious(t) \/ Interrupt(t)
  \/ \E m \in Masters : Control(m) \/ Wait(m) \/ Return(m)
  \/ \E m \in Masters, oks \in Outcomes : Add(m, oks)
  \/ Terminated

(* A thread that can run does, checks end, and ConnectBlock comes to its   *)
(* end.  Nobody need be woken without a reason, and no block need come.    *)
Fairness ==
  /\ \A t \in Threads : WF_queueVars(Loop(t) \/ Resume(t) \/ Execute(t))
  /\ \A m \in Masters : WF_queueVars(Wait(m) \/ Return(m))

QueueSpec == QueueInit /\ [][QueueNext]_queueVars /\ Fairness

-------------------------------------------------------------------------------
(* Type correctness; the counters of threads drift by interruptions only.  *)
QueueTypeOK ==
  /\ queue \in Seq(Check) /\ Len(queue) <= MaxChecks /\ nTodo \in 0..MaxChecks
  /\ nIdle \in 0..(Cardinality(Threads) + MaxInterrupts)
  /\ nTotal \in 0..(Cardinality(Threads) + MaxInterrupts)
  /\ fAllOk \in BOOLEAN
  /\ ControlMutex \in Masters \cup {Nobody}
  /\ pc \in [Threads -> InLoop \cup {"outside", "control", "done", "dead"}]
  /\ vChecks \in [Threads -> Seq(Check)] /\ nNow \in [Threads -> 0..nBatchSize]
  /\ fOk \in [Threads -> BOOLEAN] /\ destructing \in BOOLEAN
  /\ result \in BOOLEAN /\ added \in [n : 0..MaxChecks, ok : BOOLEAN]

(* nTodo counts what is queued and what threads have taken and not yet     *)
(* accounted for, so that the master neither leaves early nor stays.       *)
TodoCounts ==
  (\E t \in Threads : pc[t] # "dead") =>
    nTodo = Len(queue) +
            MapThenSumSet(LAMBDA t : IF pc[t] \in {"work", "lock"} THEN nNow[t] ELSE 0, Threads)

(* Wait() returns whether all checks added under this control succeed,     *)
(* whoever ran them and whichever were skipped after a failure.            *)
ResultExact ==
  \A m \in Masters : pc[m] = "done" =>
    /\ result = added.ok
    /\ queue = <<>> /\ \A t \in Threads : vChecks[t] = <<>>

(* "passed queue is supposed to be unused": whatever is queued or being    *)
(* run belongs to the master that has the control, and nothing of an       *)
(* earlier block, its failure included, is left when the next one starts.  *)
ChecksBelongToControl ==
  /\ \A i \in DOMAIN queue : queue[i].owner = ControlMutex
  /\ \A t \in Threads : \A i \in DOMAIN vChecks[t] : vChecks[t][i].owner = ControlMutex
  /\ ControlMutex = Nobody => nTodo = 0 /\ fAllOk

(* A master that waits for its checks gets to the end, even if workers are *)
(* interrupted meanwhile, unless the process is terminated.                *)
WaitReturns == \A m \in Masters : pc[m] \in InLoop ~> pc[m] \in {"done", "outside", "dead"}
===============================================================================
