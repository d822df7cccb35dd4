---------------------------- MODULE NodeProcess ----------------------------
(***************************************************************************)
(* The node process around the VM: runner.Run (src/app/runner/runner.go)  *)
(* and the systemd unit that starts it (src/unnamed/part_000).            *)
(*                                                                         *)
(* Run builds the node app and either serves it as a plugin to the daemon *)
(* until the daemon closes it, then returns, or prints the header, runs   *)
(* the app and exits with its exit code.  The process may also be killed *)
(* at any point.  systemd restarts the service whatever the exit          *)
(* (Restart=always, RestartSec=1); StartLimitIntervalSec=0 turns off its  *)
(* start-rate limit.                                                       *)
(*                                                                         *)
(* The VM (module Validator) runs inside the process: its steps happen    *)
(* only while the app is up, and every exit is the Validator's Restart:   *)
(* what was committed stays, vm.txs and vm.bootstrapped are lost.         *)
(***************************************************************************)
EXTENDS Naturals, Sequences

CONSTANTS
    TxIds, Genesis, Malformed, Ins, NumOuts, FxValid, MaxIndex, Rank, MaxPending,
    StartLimitIntervalSec,  \* [Unit] StartLimitIntervalSec
    StartLimitBurst         \* systemd's StartLimitBurst (not set: its default)

VARIABLES
    status, utxos, bootstrapped, txs,   \* the VM's (module Validator)
    proc,     \* "inactive", "started", "serving", "running" or "exited"
    plugin,   \* config.PluginMode of this installation
    starts,   \* starts counted against the start limit, capped at the burst
    handed    \* the transactions the engine has pulled with PendingTxs

V == INSTANCE Validator

(* The VM's constants are the Validator's, with its assumptions; the     *)
(* unit's start-limit settings are numbers.                               *)
ASSUME NodeAssumption ==
    /\ V!ValidatorAssumption
    /\ StartLimitIntervalSec \in Nat
    /\ StartLimitBurst \in Nat

vmVars == <<status, utxos, bootstrapped, txs>>
vars == <<status, utxos, bootstrapped, txs, proc, plugin, starts, handed>>

\* The states in which the node app, and the VM in it, runs.
Up == {"serving", "running"}

TypeOK ==
    /\ V!TypeOK
    /\ proc \in {"inactive", "started", "serving", "running", "exited"}
    /\ plugin \in BOOLEAN
    /\ starts \in 0..StartLimitBurst
    /\ handed \in SUBSET TxIds

-----------------------------------------------------------------------------
(* systemd                                                                 *)

(* Mutant: the unit without StartLimitIntervalSec=0, so that systemd's    *)
(* default rate limit gives up after StartLimitBurst starts.               *)
RestartAllowedLimited == starts < StartLimitBurst

(* Restart=always restarts on every exit; with StartLimitIntervalSec=0   *)
(* the start-rate limit never stops it.                                   *)
RestartAllowed == StartLimitIntervalSec = 0 \/ starts < StartLimitBurst

CountStart == starts' = IF starts < StartLimitBurst THEN starts + 1 ELSE starts

(* ExecStart: the service is started at boot (WantedBy=multi-user).       *)
BootStart ==
    /\ proc = "inactive"
    /\ proc' = "started"
    /\ CountStart
    /\ UNCHANGED <<vmVars, plugin, handed>>

(* RestartSec after any exit, systemd runs ExecStart again.               *)
ServiceRestart ==
    /\ proc = "exited"
    /\ RestartAllowed
    /\ proc' = "started"
    /\ CountStart
    /\ UNCHANGED <<vmVars, plugin, handed>>

-----------------------------------------------------------------------------
(* runner.Run                                                              *)

(* process.NewApp, then plugin.Serve: the daemon drives the node.          *)
ServePlugin ==
    /\ proc = "started"
    /\ plugin
    /\ proc' = "serving"
    /\ UNCHANGED <<vmVars, plugin, starts, handed>>

(* process.NewApp, the header, then app.Run.                              *)
RunApp ==
    /\ proc = "started"
    /\ ~plugin
    /\ proc' = "running"
    /\ UNCHANGED <<vmVars, plugin, starts, handed>>

(* The process ends and the VM's memory with it.                          *)
Exit ==
    /\ proc' = "exited"
    /\ V!Restart
    /\ UNCHANGED <<plugin, starts, handed>>

(* plugin.Serve returns when the daemon is done with the plugin; Run      *)
(* returns and the process ends.                                          *)
ServeReturns ==
    /\ proc = "serving"
    /\ Exit

(* app.Run returns its exit code and Run calls os.Exit with it.           *)
AppExits ==
    /\ proc = "running"
    /\ Exit

(* The process is killed (signal, OOM, crash) wherever it is.             *)
Killed ==
    /\ proc \in {"started"} \cup Up
    /\ Exit

-----------------------------------------------------------------------------
(* The VM while the app is up.  The engine pulling vm.txs hands them over. *)

VMStep ==
    /\ proc \in Up
    /\ \/ \E t \in TxIds : V!ParseTx(t) \/ V!IssueTx(t) \/ V!Accept(t) \/ V!Reject(t)
       \/ V!OnNormalOperationsStarted
    /\ UNCHANGED <<proc, plugin, starts, handed>>

EnginePull ==
    /\ proc \in Up
    /\ V!PendingTxs
    /\ handed' = handed \cup {txs[i] : i \in DOMAIN txs}
    /\ UNCHANGED <<proc, plugin, starts>>

Init ==
    /\ V!Init
    /\ proc = "inactive"
    /\ plugin \in BOOLEAN
    /\ starts = 0
    /\ handed = {}

Next ==
    \/ BootStart
    \/ ServiceRestart
    \/ ServePlugin
    \/ RunApp
    \/ ServeReturns
    \/ AppExits
    \/ Killed
    \/ VMStep
    \/ EnginePull

(* systemd keeps its promises (ExecStart and the restart timer).  A      *)
(* start that is tried again and again eventually gets through NewApp to  *)
(* plugin.Serve or app.Run: strong fairness, since a kill may interrupt   *)
(* any one start (a node that crashes on every start is a persistent      *)
(* fault these properties leave out).  The engine pulls a non-empty       *)
(* vm.txs it has been signalled about (what BatchScheduler's AllPulled    *)
(* shows under the timer's fairness).                                     *)
Fairness ==
    /\ WF_vars(BootStart)
    /\ WF_vars(ServiceRestart)
    /\ SF_vars(ServePlugin)
    /\ SF_vars(RunApp)
    /\ WF_vars(EnginePull /\ txs # << >>)

Spec == Init /\ [][Next]_vars /\ Fairness

-----------------------------------------------------------------------------
(* Properties                                                              *)

(* However often the node exits or is killed, and whichever way it was    *)
(* started, it is up again: Restart=always with the rate limit turned off *)
(* by StartLimitIntervalSec=0, and Run reaching plugin.Serve or app.Run.  *)
NodeComesBack == []<>(proc \in Up)

(* Every transaction IssueTx appended to vm.txs is eventually pulled by   *)
(* the engine (spec 4.2: a crash after issue cannot lose it; spec 5:      *)
(* shutdown never discards accumulated transactions).                     *)
IssuedReachesEngine ==
    \A t \in TxIds : (\E i \in DOMAIN txs : txs[i] = t) ~> (t \in handed)

=============================================================================
