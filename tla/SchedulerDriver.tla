--------------------------- MODULE SchedulerDriver ---------------------------
(***************************************************************************)
(* The scheduler driver's lifecycle, its lock, its messenger and the      *)
(* dispatch of the master's FrameworkRegistered and ResourceOffers         *)
(* messages. The driver's code is not among the sources; its behaviour is *)
(* the one the driver's tests (scheduler_test.go) assert and, where they   *)
(* say nothing, the one spec 4.2 and 5 describe.                           *)
(*                                                                         *)
(* Threads: "app" makes the control calls Start, Stop, Abort, LaunchTasks *)
(* and KillTask; "joiner" calls Join; the messenger's delivery thread      *)
(* "disp" runs the handlers and the framework callbacks, and the offers    *)
(* callback calls LaunchTasks back on the driver. One mutex guards status, *)
(* stopped and connected; a call holding it is one step, except Stop,     *)
(* which closes the stop channel before it finishes.                       *)
(***************************************************************************)
EXTENDS Naturals

CONSTANTS
    MaxStarts,   \* bound on Start calls that start the messenger
    MaxOffers    \* bound on ResourceOffers messages the master sends

ASSUME MaxStarts \in Nat \ {0} /\ MaxOffers \in Nat

VARIABLES
    status,       \* driver.status
    stopped,      \* driver.stopped
    connected,    \* driver.connected
    stopCh,       \* driver.stopCh: "open" or "closed"
    messenger,    \* the messenger: "running" or "stopped"
    lock,         \* holder of the driver mutex, or "free"
    appPc,        \* "idle", or "stopping" between the two halves of Stop
    appCall,      \* the app's last call
    appRes,       \* status returned by the app's last call
    starts,       \* Start calls that started the messenger
    regSend,      \* outcome of the last RegisterFramework send
    joinPc,       \* "idle", "wait" on stopCh, "read" status, returned
    joinRes,      \* status Join returned, "none" before it returns
    dispPc,       \* delivery thread: "idle", handling or in a callback
    dispRes,      \* status LaunchTasks returned to the offers callback
    registeredCb, \* number of Registered callback invocations
    regPending,   \* RegisterFramework messages the master has received
    toDriver,     \* messages from the master in flight, per kind
    offersSent,   \* ResourceOffers messages the master has sent
    masterKnows   \* has the master registered the framework?

vars == <<status, stopped, connected, stopCh, messenger, lock, appPc, appCall,
          appRes, starts, regSend, joinPc, joinRes, dispPc, dispRes, registeredCb,
          regPending, toDriver, offersSent, masterKnows>>

Statuses == {"NOT_STARTED", "RUNNING", "STOPPED", "ABORTED"}
Terminal == {"STOPPED", "ABORTED"}
Kinds    == {"FrameworkRegistered", "ResourceOffers"}

TypeOK ==
    /\ status \in Statuses
    /\ {stopped, connected} \subseteq BOOLEAN
    /\ stopCh \in {"open", "closed"}
    /\ messenger \in {"running", "stopped"}
    /\ lock \in {"free", "app"}
    /\ appPc \in {"idle", "stopping"}
    /\ appCall \in {"none", "Start", "Stop", "Abort", "LaunchTasks",
                    "KillTask"}
    /\ appRes \in Statuses \cup {"none"}
    /\ starts \in 0..MaxStarts
    /\ regSend \in {"none", "ok", "failed"}
    /\ joinPc \in {"idle", "wait", "read", "done", "doneAtOnce"}
    /\ joinRes \in Statuses \cup {"none"}
    /\ dispPc \in {"idle", "handleRegistered", "cbRegistered", "cbOffers"}
    /\ dispRes \in Statuses \cup {"none"}
    /\ registeredCb \in Nat
    /\ regPending \in 0..MaxStarts
    /\ toDriver \in [Kinds -> Nat]
    /\ offersSent \in 0..MaxOffers
    /\ masterKnows \in BOOLEAN

\* NewMesosSchedulerDriver: NOT_STARTED, stopped, a fresh stop channel.
Init ==
    /\ status = "NOT_STARTED"
    /\ stopped = TRUE
    /\ connected = FALSE
    /\ stopCh = "open"
    /\ messenger = "stopped"
    /\ lock = "free"
    /\ appPc = "idle"
    /\ appCall = "none"
    /\ appRes = "none"
    /\ starts = 0
    /\ regSend = "none"
    /\ joinPc = "idle"
    /\ joinRes = "none"
    /\ dispPc = "idle"
    /\ dispRes = "none"
    /\ registeredCb = 0
    /\ regPending = 0
    /\ toDriver = [k \in Kinds |-> 0]
    /\ offersSent = 0
    /\ masterKnows = FALSE

AppCall == appPc = "idle" /\ lock = "free"

\* What the master and the network do is left unchanged by the driver.
MasterUnchanged == UNCHANGED <<regPending, toDriver, offersSent, masterKnows>>

-----------------------------------------------------------------------------
(***************************************************************************)
(* Start: only from NOT_STARTED. The messenger starts, then a              *)
(* RegisterFramework message is sent to the master. A messenger that      *)
(* fails to start, or a failed send, leaves the driver NOT_STARTED and    *)
(* stopped (TestSchedulerDriverStartWithMessengerFailure,                  *)
(* ...WithRegistrationFailure, which permit a messenger Stop but do not   *)
(* assert it); the start and stop of the messenger are one step here. A   *)
(* failed send may still have reached the master. Starting a started      *)
(* driver returns its status.                                              *)
(***************************************************************************)
StartUnchanged == UNCHANGED <<connected, stopCh, lock, appPc, joinPc, joinRes,
                              dispPc, dispRes, registeredCb>>

StartNoop ==
    /\ appCall' = "Start"
    /\ AppCall
    /\ status # "NOT_STARTED"
    /\ appRes' = status
    /\ UNCHANGED <<status, stopped, messenger, starts, regSend>>
    /\ StartUnchanged /\ MasterUnchanged

StartMessengerFails ==
    /\ appCall' = "Start"
    /\ AppCall
    /\ status = "NOT_STARTED"
    /\ starts < MaxStarts
    /\ starts' = starts + 1
    /\ appRes' = "NOT_STARTED"
    /\ UNCHANGED <<status, stopped, messenger, regSend>>
    /\ StartUnchanged /\ MasterUnchanged

StartRegistered ==
    /\ appCall' = "Start"
    /\ AppCall
    /\ status = "NOT_STARTED"
    /\ starts < MaxStarts
    /\ starts' = starts + 1
    /\ messenger' = "running"
    /\ regSend' = "ok"
    /\ regPending' = regPending + 1
    /\ status' = "RUNNING"
    /\ stopped' = FALSE
    /\ appRes' = "RUNNING"
    /\ UNCHANGED <<toDriver, offersSent, masterKnows>> /\ StartUnchanged

StartRegisterFails ==
    /\ appCall' = "Start"
    /\ AppCall
    /\ status = "NOT_STARTED"
    /\ starts < MaxStarts
    /\ starts' = starts + 1
    /\ regSend' = "failed"
    /\ regPending' \in {regPending, regPending + 1}
    /\ appRes' = "NOT_STARTED"
    /\ UNCHANGED <<status, stopped, messenger, toDriver, offersSent,
                   masterKnows>>
    /\ StartUnchanged

(***************************************************************************)
(* Stop and Abort act only on a RUNNING driver and otherwise return the    *)
(* status. Stop closes the stop channel, then stops the messenger and      *)
(* sets stopped and STOPPED, holding the lock throughout. Abort also       *)
(* clears connected and ends in ABORTED.                                   *)
(***************************************************************************)
StopAbortUnchanged == UNCHANGED <<starts, regSend, joinPc, joinRes, dispPc,
                                  dispRes, registeredCb>>

StopNoop ==
    /\ appCall' = "Stop"
    /\ AppCall
    /\ status # "RUNNING"
    /\ appRes' = status
    /\ UNCHANGED <<status, stopped, connected, stopCh, messenger, lock, appPc>>
    /\ StopAbortUnchanged /\ MasterUnchanged

\* Mutant: Stop forgets to close the stop channel.
StopBeginNoClose ==
    /\ appCall' = "Stop"
    /\ AppCall
    /\ status = "RUNNING"
    /\ lock' = "app"
    /\ appPc' = "stopping"
    /\ UNCHANGED <<status, stopped, connected, stopCh, messenger, appRes>>
    /\ StopAbortUnchanged /\ MasterUnchanged

StopBegin ==
    /\ appCall' = "Stop"
    /\ AppCall
    /\ status = "RUNNING"
    /\ lock' = "app"
    /\ stopCh' = "closed"
    /\ appPc' = "stopping"
    /\ UNCHANGED <<status, stopped, connected, messenger, appRes>>
    /\ StopAbortUnchanged /\ MasterUnchanged

StopEnd ==
    /\ appPc = "stopping"
    /\ messenger' = "stopped"
    /\ stopped' = TRUE
    /\ status' = "STOPPED"
    /\ lock' = "free"
    /\ appPc' = "idle"
    /\ appRes' = "STOPPED"
    /\ UNCHANGED appCall
    /\ UNCHANGED <<connected, stopCh>>
    /\ StopAbortUnchanged /\ MasterUnchanged

AbortNoop ==
    /\ appCall' = "Abort"
    /\ AppCall
    /\ status # "RUNNING"
    /\ appRes' = status
    /\ UNCHANGED <<status, stopped, connected, stopCh, messenger, lock, appPc>>
    /\ StopAbortUnchanged /\ MasterUnchanged

Abort ==
    /\ appCall' = "Abort"
    /\ AppCall
    /\ status = "RUNNING"
    /\ connected' = FALSE
    /\ messenger' = "stopped"
    /\ stopped' = TRUE
    /\ status' = "ABORTED"
    /\ stopCh' = "closed"
    /\ appRes' = "ABORTED"
    /\ UNCHANGED <<lock, appPc>>
    /\ StopAbortUnchanged /\ MasterUnchanged

(***************************************************************************)
(* LaunchTasks and KillTask return the status when not RUNNING and         *)
(* otherwise send and return RUNNING whatever the send's outcome, so in    *)
(* the driver's state they only return a status.                           *)
(***************************************************************************)
TaskCallUnchanged ==
    UNCHANGED <<status, stopped, connected, stopCh, messenger, lock, appPc,
                starts, regSend, joinPc, joinRes, dispPc, dispRes,
                registeredCb>> /\ MasterUnchanged

LaunchTasks ==
    /\ AppCall
    /\ appCall' = "LaunchTasks"
    /\ appRes' = status
    /\ TaskCallUnchanged

KillTask ==
    /\ AppCall
    /\ appCall' = "KillTask"
    /\ appRes' = status
    /\ TaskCallUnchanged

(***************************************************************************)
(* Join: returns the status at once when it is not RUNNING; otherwise it  *)
(* waits on the stop channel, without the lock, then reads the status.     *)
(***************************************************************************)
JoinUnchanged ==
    UNCHANGED <<status, stopped, connected, stopCh, messenger, lock, appPc,
                appCall, appRes, starts, regSend, dispPc, dispRes, registeredCb>>
    /\ MasterUnchanged

JoinCall ==
    /\ joinPc = "idle" /\ lock = "free"
    /\ IF status # "RUNNING"
         THEN joinRes' = status /\ joinPc' = "doneAtOnce"
         ELSE joinPc' = "wait" /\ UNCHANGED joinRes
    /\ JoinUnchanged

JoinWake ==
    /\ joinPc = "wait" /\ stopCh = "closed"
    /\ joinPc' = "read"
    /\ UNCHANGED joinRes /\ JoinUnchanged

\* Mutant: Join reads the status without taking the lock.
JoinReadUnlocked ==
    /\ joinPc = "read"
    /\ joinRes' = status
    /\ joinPc' = "done"
    /\ JoinUnchanged

JoinRead ==
    /\ joinPc = "read" /\ lock = "free"
    /\ joinRes' = status
    /\ joinPc' = "done"
    /\ JoinUnchanged

(***************************************************************************)
(* The messenger's delivery thread. A message reaching a stopped messenger *)
(* is refused. FrameworkRegistered sets connected under the lock, then the *)
(* Registered callback runs; ResourceOffers runs the offers callback,      *)
(* which launches tasks on the offer through the driver.                   *)
(***************************************************************************)
DispUnchanged ==
    UNCHANGED <<status, stopped, stopCh, messenger, lock, appPc, appCall,
                appRes, starts, regSend, joinPc, joinRes>>

Deliver(k) ==
    /\ dispPc = "idle"
    /\ messenger = "running"
    /\ toDriver[k] > 0
    /\ toDriver' = [toDriver EXCEPT ![k] = @ - 1]
    /\ dispPc' = IF k = "FrameworkRegistered" THEN "handleRegistered"
                                              ELSE "cbOffers"
    /\ UNCHANGED <<connected, dispRes, registeredCb, regPending, offersSent,
                   masterKnows>>
    /\ DispUnchanged

Refuse(k) ==
    /\ messenger = "stopped"
    /\ toDriver[k] > 0
    /\ toDriver' = [toDriver EXCEPT ![k] = @ - 1]
    /\ UNCHANGED <<connected, dispPc, dispRes, registeredCb, regPending,
                   offersSent, masterKnows>>
    /\ DispUnchanged

FrameworkRegistered ==
    /\ dispPc = "handleRegistered" /\ lock = "free"
    /\ connected' = TRUE
    /\ dispPc' = "cbRegistered"
    /\ UNCHANGED <<dispRes, registeredCb>> /\ MasterUnchanged /\ DispUnchanged

RegisteredCallback ==
    /\ dispPc = "cbRegistered"
    /\ registeredCb' = registeredCb + 1
    /\ dispPc' = "idle"
    /\ UNCHANGED <<connected, dispRes>> /\ MasterUnchanged /\ DispUnchanged

OffersCallback ==
    /\ dispPc = "cbOffers" /\ lock = "free"
    /\ dispRes' = status
    /\ dispPc' = "idle"
    /\ UNCHANGED <<connected, registeredCb>> /\ MasterUnchanged
    /\ DispUnchanged

(***************************************************************************)
(* The master: it answers every RegisterFramework it received and offers  *)
(* resources to a registered framework.                                    *)
(***************************************************************************)
MasterUnchangedDriver ==
    UNCHANGED <<status, stopped, connected, stopCh, messenger, lock, appPc,
                appCall, appRes, starts, regSend, joinPc, joinRes, dispPc, dispRes,
                registeredCb>>

MasterRegister ==
    /\ regPending > 0
    /\ regPending' = regPending - 1
    /\ toDriver' = [toDriver EXCEPT !["FrameworkRegistered"] = @ + 1]
    /\ masterKnows' = TRUE
    /\ UNCHANGED offersSent /\ MasterUnchangedDriver

MasterOffer ==
    /\ masterKnows
    /\ offersSent < MaxOffers
    /\ offersSent' = offersSent + 1
    /\ toDriver' = [toDriver EXCEPT !["ResourceOffers"] = @ + 1]
    /\ UNCHANGED <<regPending, masterKnows>> /\ MasterUnchangedDriver

-----------------------------------------------------------------------------

App ==
    \/ StartNoop \/ StartMessengerFails \/ StartRegistered
    \/ StartRegisterFails
    \/ StopNoop \/ StopBegin \/ StopEnd \/ AbortNoop \/ Abort
    \/ LaunchTasks \/ KillTask

Joiner == JoinCall \/ JoinWake \/ JoinRead

Dispatcher ==
    \/ \E k \in Kinds : Deliver(k) \/ Refuse(k)
    \/ FrameworkRegistered \/ RegisteredCallback \/ OffersCallback

Master == MasterRegister \/ MasterOffer

Next == App \/ Joiner \/ Dispatcher \/ Master

\* Threads that have started a call finish it: a thread waiting for the
\* mutex gets it (Go's sync.Mutex hands it over to a waiter starved for
\* long), so the steps taking the lock are strongly fair. The messenger
\* delivers what reaches it. The app and the master owe nothing.
Fairness ==
    /\ WF_vars(StopEnd)
    /\ WF_vars(JoinWake)
    /\ SF_vars(JoinRead)
    /\ SF_vars(FrameworkRegistered)
    /\ SF_vars(OffersCallback)
    /\ WF_vars(RegisteredCallback)
    /\ \A k \in Kinds : WF_vars(Deliver(k) \/ Refuse(k))

Spec == Init /\ [][Next]_vars /\ Fairness

-----------------------------------------------------------------------------
(***************************************************************************)
(* Properties.                                                             *)
(***************************************************************************)

\* The driver implements its lifecycle contract: the status only moves
\* NOT_STARTED -> RUNNING -> STOPPED | ABORTED (no restart, no rollback of
\* a running driver), and Join returns NOT_STARTED or the terminal status
\* even when it wakes on the stop channel while Stop is still finishing.
Lifecycle == INSTANCE DriverLifecycle WITH status <- status, joinRes <- joinRes
LifecycleRefined == Lifecycle!Spec

\* A Join blocked on the stop channel returns once the driver has stopped
\* or aborted (TestSchdulerDriverStopOK, TestSchdulerDriverAbort).
JoinReturns == (joinPc \in {"wait", "read"} /\ status \in Terminal)
                  ~> joinPc = "done"

\* Spec 4.2: a failed RegisterFramework send at Start is non-fatal and the
\* driver reports RUNNING.
RegistrationFailureNonFatal ==
    [][(starts' = starts + 1 /\ regSend' = "failed") => status' = "RUNNING"]_vars

\* Spec 4.2: Abort marks the driver disconnected; an aborted driver is not
\* connected afterwards.
AbortedDisconnected == status = "ABORTED" => ~connected

=============================================================================
