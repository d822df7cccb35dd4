--------------------------- MODULE BatchScheduler ---------------------------
(***************************************************************************)
(* The transaction hand-off of the AVM (src/unnamed/part_002, vm.go):      *)
(* issueTx appends a verified transaction to vm.txs, FlushTxs signals the  *)
(* consensus engine over the bounded channel toEngine without blocking,   *)
(* PendingTxs lets the engine drain vm.txs, and the batch timer flushes    *)
(* from its own goroutine after taking ctx.Lock.  Shutdown releases        *)
(* ctx.Lock around timer.Stop.                                             *)
(*                                                                         *)
(* A transaction is named by its issue number 1..MaxIssued: the same       *)
(* bytes issued twice are two entries of vm.txs, as in the code.           *)
(* Every VM entry point runs on the engine thread holding ctx.Lock, so one *)
(* call is one atomic step; only Shutdown, which drops the lock in the    *)
(* middle, is split into steps.                                            *)
(***************************************************************************)
EXTENDS Naturals, Sequences, FiniteSets

CONSTANTS
    BatchSize,      \* batchSize (30 in the code)
    MaxIssued,      \* bound on the number of IssueTx calls explored
    ChanCap,        \* capacity of the toEngine channel
    MaxStopVertex   \* bound on the number of issueStopVertex calls explored

ASSUME ConstantsAssumption ==
    /\ BatchSize \in Nat \ {0}
    /\ MaxIssued \in Nat \ {0}
    /\ ChanCap \in Nat \ {0}
    /\ MaxStopVertex \in Nat

\* The two messages the VM sends on toEngine (common.PendingTxs, common.StopVertex).
Messages == {"PendingTxs", "StopVertex"}

\* The stages of the engine thread inside VM.Shutdown.
Stages == {"running", "entered", "unlocked", "stopped", "closed"}

VARIABLES
    txs,          \* vm.txs: issue numbers waiting to be pulled, in order
    issued,       \* how many transactions have been issued so far
    pulled,       \* issue numbers the engine has received from PendingTxs
    armed,        \* the batch timer has a timeout set
    firing,       \* the timer goroutine is running the handler (waiting for ctx.Lock)
    stopped,      \* timer.Stop has been called
    toEngine,     \* the buffered channel vm.toEngine
    engPull,      \* the engine took a PendingTxs message and will call PendingTxs
    stopVertices, \* how many issueStopVertex calls have been made
    lockHeld,     \* ctx.Lock is held by the engine thread inside Shutdown
    shut          \* the stage of the engine thread in Shutdown

vars == <<txs, issued, pulled, armed, firing, stopped, toEngine, engPull,
          stopVertices, lockHeld, shut>>

TypeOK ==
    /\ txs \in Seq(1..MaxIssued)
    /\ issued \in 0..MaxIssued
    /\ pulled \in SUBSET (1..MaxIssued)
    /\ armed \in BOOLEAN
    /\ firing \in BOOLEAN
    /\ stopped \in BOOLEAN
    /\ toEngine \in Seq(Messages)
    /\ Len(toEngine) <= ChanCap
    /\ engPull \in BOOLEAN
    /\ stopVertices \in 0..MaxStopVertex
    /\ lockHeld \in BOOLEAN
    /\ shut \in Stages

-----------------------------------------------------------------------------
(* Timer operations used by the code (utils/timer, outside src).  Once     *)
(* stopped, a timer never sets a timeout again.                            *)

SetTimeoutIn == armed' = ~stopped

\* The non-blocking send `select { case vm.toEngine <- m: default: }`.
CanSend == Len(toEngine) < ChanCap

(* Mutants.  FlushTxsClears: FlushTxs also resets vm.txs after signalling *)
(* the engine, as if the flush itself handed the batch over.               *)
FlushTxsClears(q) ==
    /\ txs' = IF q # << >> /\ CanSend THEN << >> ELSE q
    /\ IF q # << >> /\ ~CanSend
         THEN /\ toEngine' = toEngine
              /\ SetTimeoutIn
         ELSE /\ toEngine' = IF q # << >> THEN Append(toEngine, "PendingTxs")
                                          ELSE toEngine
              /\ armed' = FALSE

\* FlushTxsNoRearm: the dropped signal is only logged; the timeout is not re-armed.
FlushTxsNoRearm(q) ==
    /\ txs' = q
    /\ toEngine' = IF q # << >> /\ CanSend THEN Append(toEngine, "PendingTxs")
                                          ELSE toEngine
    /\ armed' = FALSE

(* FlushTxs on the queue q: cancel the timer; if q is non-empty, try to   *)
(* signal the engine and, when the channel is full, drop the signal and    *)
(* re-arm the timeout.  The queue is left as it is: only PendingTxs        *)
(* drains vm.txs.                                                          *)
FlushTxs(q) ==
    /\ txs' = q
    /\ IF q # << >> /\ ~CanSend
         THEN /\ toEngine' = toEngine
              /\ SetTimeoutIn
         ELSE /\ toEngine' = IF q # << >> THEN Append(toEngine, "PendingTxs")
                                          ELSE toEngine
              /\ armed' = FALSE

(* VM.IssueTx after parseTx and verifyWithoutCacheWrites succeeded, i.e.   *)
(* issueTx: append, then flush at exactly batchSize, or arm the timer for  *)
(* the first transaction of a window.                                      *)
IssueTx ==
    /\ shut = "running"
    /\ issued < MaxIssued
    /\ issued' = issued + 1
    /\ LET new == Append(txs, issued + 1) IN
         \/ /\ Len(new) = BatchSize
            /\ FlushTxs(new)
         \/ /\ Len(new) # BatchSize
            /\ Len(new) = 1
            /\ txs' = new
            /\ SetTimeoutIn
            /\ toEngine' = toEngine
         \/ /\ Len(new) \notin {BatchSize, 1}
            /\ txs' = new
            /\ UNCHANGED <<armed, toEngine>>
    /\ UNCHANGED <<pulled, firing, stopped, engPull, stopVertices, lockHeld, shut>>

\* Mutant: PendingTxs hands over at most one batch and keeps the rest.
PendingTxsOneBatch ==
    /\ shut = "running"
    /\ engPull
    /\ armed' = FALSE
    /\ LET k == IF Len(txs) < BatchSize THEN Len(txs) ELSE BatchSize IN
         /\ pulled' = pulled \cup {txs[i] : i \in 1..k}
         /\ txs' = SubSeq(txs, k + 1, Len(txs))
    /\ engPull' = FALSE
    /\ UNCHANGED <<issued, firing, stopped, toEngine, stopVertices, lockHeld, shut>>

(* VM.PendingTxs, called by the engine when it handles a PendingTxs        *)
(* message: cancel the timer and hand over all of vm.txs.                  *)
PendingTxs ==
    /\ shut = "running"
    /\ engPull
    /\ armed' = FALSE
    /\ pulled' = pulled \cup {txs[i] : i \in DOMAIN txs}
    /\ txs' = << >>
    /\ engPull' = FALSE
    /\ UNCHANGED <<issued, firing, stopped, toEngine, stopVertices, lockHeld, shut>>

(* VM.issueStopVertex: a non-blocking send of StopVertex, dropped when the *)
(* channel is full.                                                        *)
IssueStopVertex ==
    /\ shut = "running"
    /\ stopVertices < MaxStopVertex
    /\ stopVertices' = stopVertices + 1
    /\ toEngine' = IF CanSend THEN Append(toEngine, "StopVertex") ELSE toEngine
    /\ UNCHANGED <<txs, issued, pulled, armed, firing, stopped, engPull, lockHeld, shut>>

(* The engine takes the next message off toEngine.  A PendingTxs message   *)
(* makes it call PendingTxs; StopVertex is handled by the engine alone.    *)
EngineReceive ==
    /\ shut = "running"
    /\ toEngine # << >>
    /\ ~engPull
    /\ engPull' = (Head(toEngine) = "PendingTxs")
    /\ toEngine' = Tail(toEngine)
    /\ UNCHANGED <<txs, issued, pulled, armed, firing, stopped, stopVertices, lockHeld, shut>>

(* The timeout elapses: the timer goroutine starts the handler.            *)
TimerExpire ==
    /\ armed
    /\ ~firing
    /\ ~stopped
    /\ armed' = FALSE
    /\ firing' = TRUE
    /\ UNCHANGED <<txs, issued, pulled, stopped, toEngine, engPull, stopVertices, lockHeld, shut>>

(* The handler installed by Initialize: take ctx.Lock, FlushTxs, unlock.   *)
TimerHandler ==
    /\ firing
    /\ ~lockHeld
    /\ FlushTxs(txs)
    /\ firing' = FALSE
    /\ UNCHANGED <<issued, pulled, stopped, engPull, stopVertices, lockHeld, shut>>

-----------------------------------------------------------------------------
(* VM.Shutdown, entered by the engine thread with ctx.Lock held.           *)

ShutdownEnter ==
    /\ shut = "running"
    /\ ~engPull
    /\ shut' = "entered"
    /\ lockHeld' = TRUE
    /\ UNCHANGED <<txs, issued, pulled, armed, firing, stopped, toEngine, engPull, stopVertices>>

\* Mutant: Shutdown calls timer.Stop while still holding ctx.Lock.
ShutdownUnlockKeepsLock ==
    /\ shut = "entered"
    /\ shut' = "unlocked"
    /\ lockHeld' = TRUE
    /\ UNCHANGED <<txs, issued, pulled, armed, firing, stopped, toEngine, engPull, stopVertices>>

\* vm.ctx.Lock.Unlock() before stopping the timer.
ShutdownUnlock ==
    /\ shut = "entered"
    /\ shut' = "unlocked"
    /\ lockHeld' = FALSE
    /\ UNCHANGED <<txs, issued, pulled, armed, firing, stopped, toEngine, engPull, stopVertices>>

\* vm.timer.Stop(): returns once no handler is running; no timeout fires after it.
ShutdownStopTimer ==
    /\ shut = "unlocked"
    /\ ~firing
    /\ stopped' = TRUE
    /\ armed' = FALSE
    /\ shut' = "stopped"
    /\ UNCHANGED <<txs, issued, pulled, firing, toEngine, engPull, stopVertices, lockHeld>>

\* vm.ctx.Lock.Lock(), then vm.baseDB.Close().
ShutdownRelock ==
    /\ shut = "stopped"
    /\ ~lockHeld
    /\ shut' = "closed"
    /\ lockHeld' = TRUE
    /\ UNCHANGED <<txs, issued, pulled, armed, firing, stopped, toEngine, engPull, stopVertices>>

-----------------------------------------------------------------------------

Init ==
    /\ txs = << >>
    /\ issued = 0
    /\ pulled = {}
    /\ armed = FALSE
    /\ firing = FALSE
    /\ stopped = FALSE
    /\ toEngine = << >>
    /\ engPull = FALSE
    /\ stopVertices = 0
    /\ lockHeld = FALSE
    /\ shut = "running"

Next ==
    \/ IssueTx
    \/ PendingTxs
    \/ IssueStopVertex
    \/ EngineReceive
    \/ TimerExpire
    \/ TimerHandler
    \/ ShutdownEnter
    \/ ShutdownUnlock
    \/ ShutdownStopTimer
    \/ ShutdownRelock

Spec == Init /\ [][Next]_vars

(* The timer goroutine, the engine's message loop and a Shutdown call in   *)
(* progress all keep running; clients (IssueTx, issueStopVertex) and the   *)
(* decision to shut down are not obliged to act.  timer.Stop waits only   *)
(* for the handler that is running, while a re-armed timeout needs a full *)
(* batchTimeout to fire again, so Stop is strongly fair: it is not starved *)
(* by a handler that keeps re-arming against a full channel.              *)
Fairness ==
    /\ WF_vars(TimerExpire)
    /\ WF_vars(TimerHandler)
    /\ WF_vars(EngineReceive)
    /\ WF_vars(PendingTxs)
    /\ WF_vars(ShutdownUnlock)
    /\ SF_vars(ShutdownStopTimer)
    /\ WF_vars(ShutdownRelock)

FairSpec == Spec /\ Fairness

-----------------------------------------------------------------------------
(* Properties                                                              *)

\* The set of issue numbers in vm.txs.
Pending == {txs[i] : i \in DOMAIN txs}

\* The abstract hand-off: vm.txs as a set, the engine's pulls and the issue count.
H == INSTANCE TxHandoff WITH pending <- Pending, delivered <- pulled, count <- issued

(* The scheduler implements the hand-off the engine is promised: an issue  *)
(* adds one new transaction to what is pending, and only PendingTxs moves  *)
(* anything to the engine, all of vm.txs at once; no flush, timer firing,  *)
(* dropped signal or shutdown step takes a transaction out of vm.txs or    *)
(* hands over part of it.                                                  *)
HandoffSpec == H!Spec

(* Every issued transaction is handed to the engine exactly once: it is    *)
(* either still in vm.txs (once) or was returned by PendingTxs, never both *)
(* and never lost, whatever FlushTxs, the timer and PendingTxs interleave. *)
TxConservation ==
    /\ Pending \cup pulled = 1..issued
    /\ Pending \cap pulled = {}
    /\ \A i, j \in DOMAIN txs : txs[i] = txs[j] => i = j

(* A non-empty vm.txs is never stranded while the timer is usable: a       *)
(* timeout is set, the timer handler is about to flush, or a PendingTxs    *)
(* signal is in the channel or being handled, so FlushTxs's dropped signal *)
(* (re-armed timeout) and issueTx's window start are never both missing.  *)
NotStranded ==
    (txs # << >> /\ ~stopped) =>
        \/ armed
        \/ firing
        \/ engPull
        \/ \E i \in DOMAIN toEngine : toEngine[i] = "PendingTxs"

(* Every issued transaction is eventually pulled by the engine unless the  *)
(* VM is shut down: dropped signals under channel contention are retried   *)
(* by the re-armed timer.                                                  *)
AllPulled ==
    \A n \in 1..MaxIssued :
        (n \in Pending) ~> (n \in pulled \/ shut # "running")

(* Shutdown returns: releasing ctx.Lock before timer.Stop lets a timer     *)
(* handler that waits for ctx.Lock finish, so Stop does not deadlock.      *)
ShutdownCompletes == (shut = "entered") ~> (shut = "closed")

(* The spec (4.4): reaching batchSize flushes and "the 31st starts a fresh *)
(* pending window", bounding queue growth; vm.txs holds at most batchSize. *)
PendingBounded == Len(txs) <= BatchSize

=============================================================================
