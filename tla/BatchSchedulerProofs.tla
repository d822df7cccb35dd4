------------------------ MODULE BatchSchedulerProofs ------------------------
(***************************************************************************)
(* Proofs, for every value of the constants, of the invariants that the   *)
(* run MCBatchScheduler checks on a small instance: type correctness, the *)
(* exactly-once hand-off of issued transactions (TxConservation), and that *)
(* a non-empty vm.txs always has a pending flush or signal (NotStranded).  *)
(* Neither safety invariant is inductive alone; their conjunction with     *)
(* TypeOK is.                                                              *)
(***************************************************************************)
EXTENDS BatchScheduler, TLAPS

\* The inductive invariant.
IInv == TypeOK /\ TxConservation /\ NotStranded

\* Facts about the sequence operations used by the actions.
LEMMA AppendFacts ==
    ASSUME NEW S, NEW s \in Seq(S), NEW e \in S
    PROVE  /\ Append(s, e) \in Seq(S)
           /\ Len(Append(s, e)) = Len(s) + 1
           /\ DOMAIN Append(s, e) = 1..Len(s) + 1
           /\ {Append(s, e)[i] : i \in DOMAIN Append(s, e)}
                = {s[i] : i \in DOMAIN s} \cup {e}
           /\ Append(s, e)[Len(s) + 1] = e
           /\ \A i \in 1..Len(s) : Append(s, e)[i] = s[i]
  OBVIOUS

LEMMA TailHasOthers ==
    ASSUME NEW S, NEW s \in Seq(S), NEW m, s # << >>, Head(s) # m,
           \E i \in DOMAIN s : s[i] = m
    PROVE  \E i \in DOMAIN Tail(s) : Tail(s)[i] = m
  <1>1. PICK i \in DOMAIN s : s[i] = m
    OBVIOUS
  <1>2. i # 1
    BY <1>1
  <1>3. i - 1 \in DOMAIN Tail(s) /\ Tail(s)[i - 1] = m
    BY <1>1, <1>2
  <1>. QED
    BY <1>3

-----------------------------------------------------------------------------

\* TypeOK split into the Boolean flags (Zenon's part) and the data (SMT's part).
BoolsOK ==
    /\ armed \in BOOLEAN
    /\ firing \in BOOLEAN
    /\ stopped \in BOOLEAN
    /\ engPull \in BOOLEAN
    /\ lockHeld \in BOOLEAN

DataOK ==
    /\ txs \in Seq(1..MaxIssued)
    /\ issued \in 0..MaxIssued
    /\ pulled \in SUBSET (1..MaxIssued)
    /\ toEngine \in Seq(Messages)
    /\ Len(toEngine) <= ChanCap
    /\ stopVertices \in 0..MaxStopVertex
    /\ shut \in Stages

LEMMA TypeSplit == TypeOK <=> BoolsOK /\ DataOK
  BY Zenon DEF TypeOK, BoolsOK, DataOK

(* FlushTxs on a well-typed queue keeps the channel well-typed and, on a   *)
(* non-empty queue, leaves either a PendingTxs signal in the channel or    *)
(* (if the timer is usable) a timeout.                                     *)
LEMMA FlushTxsFacts ==
    ASSUME TypeOK, NEW q \in Seq(1..MaxIssued), FlushTxs(q)
    PROVE  /\ txs' = q
           /\ toEngine' \in Seq(Messages)
           /\ Len(toEngine') <= ChanCap
           /\ (q # << >> /\ ~stopped) =>
                 (armed' \/ \E i \in DOMAIN toEngine' : toEngine'[i] = "PendingTxs")
  <1>1. CASE q # << >> /\ ~CanSend
    BY <1>1 DEF FlushTxs, SetTimeoutIn, TypeOK
  <1>2. CASE q # << >> /\ CanSend
    <2>1. toEngine' = Append(toEngine, "PendingTxs") /\ txs' = q
      BY <1>2 DEF FlushTxs
    <2>2. toEngine' \in Seq(Messages) /\ Len(toEngine') <= ChanCap
      BY <2>1, <1>2, ConstantsAssumption DEF CanSend, TypeOK, Messages
    <2>3. Len(toEngine) + 1 \in DOMAIN toEngine'
          /\ toEngine'[Len(toEngine) + 1] = "PendingTxs"
      BY <2>1 DEF TypeOK
    <2>. QED
      BY <2>1, <2>2, <2>3
  <1>3. CASE q = << >>
    BY <1>3 DEF FlushTxs, TypeOK
  <1>. QED
    BY <1>1, <1>2, <1>3

\* FlushTxs sets armed to a Boolean.
LEMMA FlushTxsArmed ==
    ASSUME NEW q, FlushTxs(q), stopped \in BOOLEAN
    PROVE  armed' \in BOOLEAN
  BY Zenon DEF FlushTxs, SetTimeoutIn

-----------------------------------------------------------------------------

LEMMA InitIInv == Init => IInv
  <1> SUFFICES ASSUME Init PROVE IInv
    OBVIOUS
  <1>1. DataOK
    BY ConstantsAssumption DEF Init, DataOK, Stages
  <1>2. BoolsOK
    BY Zenon DEF Init, BoolsOK
  <1>3. Pending = {}
    BY DEF Init, Pending
  <1>4. TxConservation
    BY <1>3 DEF Init, TxConservation
  <1>5. NotStranded
    BY DEF Init, NotStranded
  <1>. QED
    BY <1>1, <1>2, <1>4, <1>5, TypeSplit DEF IInv

\* The Boolean flags stay Booleans.
LEMMA BoolsNext == TypeOK /\ [Next]_vars => BoolsOK'
  <1> SUFFICES ASSUME TypeOK, [Next]_vars PROVE BoolsOK'
    OBVIOUS
  <1>1. BoolsOK
    BY TypeSplit
  <1>2. CASE IssueTx
    <2>1. armed' \in BOOLEAN
      BY <1>1, <1>2, FlushTxsArmed, Zenon DEF IssueTx, SetTimeoutIn, BoolsOK
    <2>. QED
      BY <1>1, <1>2, <2>1, Zenon DEF IssueTx, BoolsOK
  <1>3. CASE TimerHandler
    BY <1>1, <1>3, FlushTxsArmed, Zenon DEF TimerHandler, BoolsOK
  <1>4. CASE ~IssueTx /\ ~TimerHandler
    BY <1>1, <1>4, Zenon
    DEF Next, vars, BoolsOK, PendingTxs, IssueStopVertex, EngineReceive, TimerExpire,
        ShutdownEnter, ShutdownUnlock, ShutdownStopTimer, ShutdownRelock
  <1>. QED
    BY <1>2, <1>3, <1>4

\* The data stays well-typed.
LEMMA DataNext == TypeOK /\ [Next]_vars => DataOK'
  <1> SUFFICES ASSUME TypeOK, [Next]_vars PROVE DataOK'
    OBVIOUS
  <1>1. CASE IssueTx
    <2> DEFINE new == Append(txs, issued + 1)
    <2>1. issued + 1 \in 1..MaxIssued /\ issued' = issued + 1
      BY ConstantsAssumption, <1>1 DEF IssueTx, TypeOK
    <2>2. new \in Seq(1..MaxIssued)
      BY <2>1 DEF TypeOK
    <2>3. txs' = new /\ toEngine' \in Seq(Messages) /\ Len(toEngine') <= ChanCap
      BY <1>1, <2>2, FlushTxsFacts DEF IssueTx, TypeOK
    <2>. QED
      BY <1>1, <2>1, <2>3 DEF IssueTx, TypeOK, DataOK
  <1>2. CASE IssueStopVertex
    BY ConstantsAssumption, <1>2 DEF IssueStopVertex, TypeOK, DataOK, CanSend, Messages
  <1>3. CASE TimerHandler
    BY <1>3, FlushTxsFacts DEF TimerHandler, TypeOK, DataOK
  <1>4. CASE PendingTxs
    <2>1. txs' = << >> /\ pulled' = pulled \cup {txs[i] : i \in DOMAIN txs}
          /\ issued' = issued /\ toEngine' = toEngine /\ stopVertices' = stopVertices
          /\ shut' = shut
      BY <1>4, Zenon DEF PendingTxs
    <2>2. \A i \in DOMAIN txs : txs[i] \in 1..MaxIssued
      BY ConstantsAssumption DEF TypeOK
    <2>3. pulled' \in SUBSET (1..MaxIssued)
      BY <2>1, <2>2 DEF TypeOK
    <2>4. txs' \in Seq(1..MaxIssued)
      BY <2>1
    <2>. QED
      BY <2>1, <2>3, <2>4 DEF TypeOK, DataOK
  <1>7. CASE EngineReceive
    <2>1. toEngine' = Tail(toEngine) /\ toEngine # << >>
      BY <1>7, Zenon DEF EngineReceive
    <2>2. toEngine' \in Seq(Messages) /\ Len(toEngine') <= ChanCap
      BY <2>1, ConstantsAssumption DEF TypeOK
    <2>3. UNCHANGED <<txs, issued, pulled, stopVertices, shut>>
      BY <1>7, Zenon DEF EngineReceive
    <2>. QED
      BY <2>2, <2>3 DEF TypeOK, DataOK
  <1>8. CASE TimerExpire
    BY <1>8 DEF TimerExpire, TypeOK, DataOK
  <1>5. CASE ShutdownEnter \/ ShutdownUnlock \/ ShutdownStopTimer \/ ShutdownRelock
    BY <1>5 DEF ShutdownEnter, ShutdownUnlock, ShutdownStopTimer, ShutdownRelock,
                TypeOK, DataOK, Stages
  <1>6. CASE UNCHANGED vars
    BY <1>6 DEF vars, TypeOK, DataOK
  <1>. QED
    BY <1>1, <1>2, <1>3, <1>4, <1>5, <1>6, <1>7, <1>8 DEF Next

LEMMA TypeNext == TypeOK /\ [Next]_vars => TypeOK'
  <1>1. TypeOK' <=> BoolsOK' /\ DataOK'
    BY Zenon DEF TypeOK, BoolsOK, DataOK
  <1>. QED
    BY <1>1, BoolsNext, DataNext

\* The two safety invariants are preserved by every step, given the types.
LEMMA SafetyNext ==
    TypeOK /\ TypeOK' /\ TxConservation /\ NotStranded /\ [Next]_vars
      => TxConservation' /\ NotStranded'
  <1> SUFFICES ASSUME TypeOK, TypeOK', TxConservation, NotStranded, [Next]_vars
               PROVE  TxConservation' /\ NotStranded'
    OBVIOUS
  <1>1. CASE IssueTx
    <2> DEFINE new == Append(txs, issued + 1)
    <2>1. issued + 1 \in 1..MaxIssued /\ issued' = issued + 1
      BY <1>1 DEF IssueTx, TypeOK
    <2>2. /\ new \in Seq(1..MaxIssued)
          /\ Len(new) = Len(txs) + 1
          /\ {new[i] : i \in DOMAIN new} = Pending \cup {issued + 1}
          /\ new[Len(txs) + 1] = issued + 1
          /\ DOMAIN new = 1..Len(txs) + 1
          /\ \A k \in 1..Len(txs) : new[k] = txs[k]
      <3>1. new \in Seq(1..MaxIssued) /\ Len(new) = Len(txs) + 1
            /\ DOMAIN new = 1..Len(txs) + 1
        BY <2>1 DEF TypeOK
      <3>2. new[Len(txs) + 1] = issued + 1 /\ \A k \in 1..Len(txs) : new[k] = txs[k]
        BY DEF TypeOK
      <3>3. {new[i] : i \in DOMAIN new} = Pending \cup {issued + 1}
        <4>1. \A i \in DOMAIN new : new[i] \in Pending \cup {issued + 1}
          BY <3>1, <3>2 DEF TypeOK, Pending
        <4>2. \A x \in Pending : \E i \in DOMAIN new : new[i] = x
          BY <3>1, <3>2 DEF TypeOK, Pending
        <4>3. \E i \in DOMAIN new : new[i] = issued + 1
          BY <3>1, <3>2
        <4>. QED
          BY <4>1, <4>2, <4>3
      <3>. QED
        BY <3>1, <3>2, <3>3
    <2>0. firing' = firing /\ engPull' = engPull /\ stopped' = stopped
      BY <1>1, Zenon DEF IssueTx
    \* What the three branches of issueTx's switch have in common.
    <2>3. /\ txs' = new
          /\ (~stopped => \/ armed' \/ firing' \/ engPull'
                          \/ \E i \in DOMAIN toEngine' : toEngine'[i] = "PendingTxs")
      <3>1. CASE Len(new) = BatchSize /\ FlushTxs(new)
        <4>1. new # << >>
          BY <2>2
        <4>. QED
          BY <3>1, <4>1, <2>2, FlushTxsFacts
      <3>2. CASE Len(new) # BatchSize /\ Len(new) = 1 /\ txs' = new /\ SetTimeoutIn
                 /\ toEngine' = toEngine
        BY <3>2 DEF SetTimeoutIn
      <3>3. CASE Len(new) \notin {BatchSize, 1} /\ txs' = new /\ UNCHANGED <<armed, toEngine>>
        <4>1. txs # << >>
          BY <3>3, <2>2 DEF TypeOK
        <4>. QED
          BY <2>0, <3>3, <4>1 DEF NotStranded
      <3>. QED
        BY <1>1, <3>1, <3>2, <3>3 DEF IssueTx
    <2>4. TxConservation'
      <3>1. issued + 1 \notin Pending \cup pulled
        BY DEF TxConservation, TypeOK
      <3>2. \A i, j \in DOMAIN new : new[i] = new[j] => i = j
        <4> SUFFICES ASSUME NEW i \in DOMAIN new, NEW j \in DOMAIN new, new[i] = new[j]
                     PROVE i = j
          OBVIOUS
        <4>1. \A k \in 1..Len(txs) : new[k] \in Pending
          BY <2>2 DEF TypeOK, Pending
        <4>. QED
          BY <4>1, <2>2, <3>1 DEF TxConservation, TypeOK
      <3>3. Pending' = Pending \cup {issued + 1}
        BY <2>2, <2>3 DEF Pending
      <3>. QED
        BY <1>1, <2>1, <2>3, <3>1, <3>2, <3>3 DEF IssueTx, TxConservation, TypeOK
    <2>5. NotStranded'
      BY <2>0, <2>3 DEF NotStranded
    <2>. QED
      BY <2>4, <2>5
  <1>2. CASE PendingTxs
    <2>1. TxConservation'
      BY <1>2 DEF PendingTxs, TxConservation, Pending, TypeOK
    <2>2. NotStranded'
      BY <1>2 DEF PendingTxs, NotStranded
    <2>. QED
      BY <2>1, <2>2
  <1>3. CASE IssueStopVertex
    <2>1. \A i \in DOMAIN toEngine : i \in DOMAIN toEngine' /\ toEngine'[i] = toEngine[i]
      BY <1>3 DEF IssueStopVertex, TypeOK
    <2>. QED
      BY <1>3, <2>1 DEF IssueStopVertex, TxConservation, NotStranded, Pending
  <1>4. CASE EngineReceive
    <2>0. /\ toEngine # << >> /\ ~engPull /\ toEngine' = Tail(toEngine)
          /\ engPull' = (Head(toEngine) = "PendingTxs")
          /\ txs' = txs /\ issued' = issued /\ pulled' = pulled
          /\ armed' = armed /\ firing' = firing /\ stopped' = stopped
      BY <1>4, Zenon DEF EngineReceive
    <2>1. ASSUME txs' # << >>, ~stopped'
          PROVE  \/ armed' \/ firing' \/ engPull'
                 \/ \E i \in DOMAIN toEngine' : toEngine'[i] = "PendingTxs"
      <3>1. CASE Head(toEngine) = "PendingTxs"
        BY <2>0, <3>1, Zenon
      <3>2. CASE Head(toEngine) # "PendingTxs"
        <4>1. armed \/ firing \/ \E i \in DOMAIN toEngine : toEngine[i] = "PendingTxs"
          BY <2>0, <2>1, Zenon DEF NotStranded
        <4>2. CASE armed \/ firing
          BY <4>2, <2>0, Zenon
        <4>3. CASE \E i \in DOMAIN toEngine : toEngine[i] = "PendingTxs"
          <5>1. \E i \in DOMAIN Tail(toEngine) : Tail(toEngine)[i] = "PendingTxs"
            BY <4>3, <2>0, <3>2, TailHasOthers DEF TypeOK
          <5>. QED
            BY <5>1, <2>0
        <4>. QED
          BY <4>1, <4>2, <4>3
      <3>. QED
        BY <3>1, <3>2
    <2>2. NotStranded'
      BY <2>1, Zenon DEF NotStranded
    <2>3. TxConservation'
      BY <2>0 DEF TxConservation, Pending
    <2>. QED
      BY <2>2, <2>3
  <1>5. CASE TimerExpire
    BY <1>5 DEF TimerExpire, TxConservation, NotStranded, Pending
  <1>6. CASE TimerHandler
    <2>1. txs' = txs
          /\ ((txs # << >> /\ ~stopped) =>
                 (armed' \/ \E i \in DOMAIN toEngine' : toEngine'[i] = "PendingTxs"))
      BY <1>6, FlushTxsFacts DEF TimerHandler, TypeOK
    <2>. QED
      BY <1>6, <2>1 DEF TimerHandler, TxConservation, NotStranded, Pending
  <1>7. CASE ShutdownEnter \/ ShutdownUnlock \/ ShutdownRelock
    BY <1>7 DEF ShutdownEnter, ShutdownUnlock, ShutdownRelock, TxConservation,
                NotStranded, Pending
  <1>8. CASE ShutdownStopTimer
    BY <1>8 DEF ShutdownStopTimer, TxConservation, NotStranded, Pending
  <1>9. CASE UNCHANGED vars
    BY <1>9 DEF vars, TxConservation, NotStranded, Pending
  <1>. QED
    BY <1>1, <1>2, <1>3, <1>4, <1>5, <1>6, <1>7, <1>8, <1>9 DEF Next

LEMMA NextIInv == IInv /\ [Next]_vars => IInv'
  BY TypeNext, SafetyNext DEF IInv

-----------------------------------------------------------------------------

(* The batch hand-off never loses or duplicates an issued transaction, and *)
(* a non-empty vm.txs always has a timeout or a PendingTxs signal behind   *)
(* it, for every batchSize, channel capacity and number of issues.         *)
THEOREM InvariantsHold == Spec => [](TypeOK /\ TxConservation /\ NotStranded)
  <1>1. Init => IInv
    BY InitIInv
  <1>2. IInv /\ [Next]_vars => IInv'
    BY NextIInv
  <1>. QED
    BY <1>1, <1>2, PTL DEF Spec, IInv

\* Every issued transaction is handed over exactly once (vm.txs and the pulled batches).
THEOREM TxConservationHolds == Spec => []TxConservation
  BY InvariantsHold, PTL

\* A non-empty vm.txs is never left without a timeout or a PendingTxs signal.
THEOREM NotStrandedHolds == Spec => []NotStranded
  BY InvariantsHold, PTL

\* Type correctness of the batch scheduler.
THEOREM TypeCorrect == Spec => []TypeOK
  BY InvariantsHold, PTL

-----------------------------------------------------------------------------
(* The refinement of the abstract hand-off (module TxHandoff).             *)

\* The issue step appends the next issue number to vm.txs, in each branch.
LEMMA IssueAppends ==
    ASSUME TypeOK, IssueTx
    PROVE  /\ txs' = Append(txs, issued + 1)
           /\ issued + 1 \in 1..MaxIssued
  <1>1. FlushTxs(Append(txs, issued + 1)) => txs' = Append(txs, issued + 1)
    BY DEF FlushTxs
  <1>2. txs' = Append(txs, issued + 1)
    BY <1>1 DEF IssueTx
  <1>3. issued < MaxIssued /\ issued \in 0..MaxIssued
    BY DEF IssueTx, TypeOK
  <1>4. issued + 1 \in 1..MaxIssued
    BY <1>3, ConstantsAssumption
  <1>. QED
    BY <1>2, <1>4

(* Every step of the scheduler is an issue or a pull of the hand-off, or  *)
(* leaves vm.txs, the pulled set and the issue count alone.               *)
LEMMA NextHandoff == TypeOK /\ [Next]_vars => [H!Next]_H!hvars
  <1> SUFFICES ASSUME TypeOK, [Next]_vars PROVE H!Next \/ UNCHANGED H!hvars
    OBVIOUS
  <1>1. CASE IssueTx
    <2>1. txs' = Append(txs, issued + 1) /\ issued + 1 \in 1..MaxIssued
      BY <1>1, IssueAppends
    <2>2. Pending' = Pending \cup {issued + 1}
      BY <2>1, AppendFacts DEF TypeOK, Pending
    <2>3. H!Issue
      BY <1>1, <2>2 DEF IssueTx, H!Issue
    <2>. QED
      BY <2>3 DEF H!Next
  <1>2. CASE PendingTxs
    <2>1. H!Pull
      BY <1>2 DEF PendingTxs, H!Pull, Pending
    <2>. QED
      BY <2>1 DEF H!Next
  <1>3. CASE TimerHandler
    BY <1>3 DEF TimerHandler, FlushTxs, H!hvars, Pending
  <1>4. CASE IssueStopVertex \/ EngineReceive \/ TimerExpire \/ UNCHANGED vars
    BY <1>4 DEF IssueStopVertex, EngineReceive, TimerExpire, vars, H!hvars, Pending
  <1>5. CASE ShutdownEnter \/ ShutdownUnlock \/ ShutdownStopTimer \/ ShutdownRelock
    BY <1>5 DEF ShutdownEnter, ShutdownUnlock, ShutdownStopTimer, ShutdownRelock,
              H!hvars, Pending
  <1>. QED
    BY <1>1, <1>2, <1>3, <1>4, <1>5 DEF Next

(* The scheduler implements the hand-off (HandoffSpec), for every batch   *)
(* size, channel capacity and number of issues: no flush, timer firing,  *)
(* dropped signal or shutdown step takes a transaction out of vm.txs, and *)
(* PendingTxs hands all of vm.txs over in one step.                       *)
THEOREM HandoffRefinement == Spec => HandoffSpec
  <1>1. Init => H!Init
    BY DEF Init, H!Init, Pending
  <1>. QED
    BY <1>1, NextHandoff, TypeCorrect, PTL DEF Spec, HandoffSpec, H!Spec

=============================================================================
