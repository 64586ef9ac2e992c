----------------------------- MODULE MqttClient -----------------------------
(***************************************************************************)
(* IndustrialMqttClient (src/industrial_mqtt_client.cpp): a thread that    *)
(* keeps a libhv client connected to the broker, start() and stop() by the *)
(* outputter, and publish() from the outputter's MQTT worker.  A section   *)
(* under mqtt_mutex_ is one action.  No name is one of Outputter's, so     *)
(* that OutputterProofs can extend both.                                   *)
(***************************************************************************)
EXTENDS Integers

CONSTANT Limits  \* values of config_.max_reconnect_attempts; 0, like the default -1, is no limit

ASSUME MqttAssumption == Limits \subseteq Int

VARIABLES
    threadExit, isRunning, isConnected,  \* the atomics of those names
    limit,          \* config_.max_reconnect_attempts
    cli,            \* mqtt_cli_: null, or a pointer to a client that is live or freed
    allocated,      \* history: calls of mqtt_client_new less those of mqtt_client_free
    attempts,       \* reconnect_attempts_, counted only when there is a limit
    wPc,            \* where mqttWorkThread is
    uses,           \* the client mqttWorkThread passed to libhv, "none" outside libhv
    ownerPc,        \* where the outputter's constructor and destructor are
    pubPc,          \* where publish() is
    pubUsed         \* history: the client publishInternal passed to libhv last

client == <<limit, cli, allocated, attempts>>
clientVars == <<threadExit, isRunning, isConnected, limit, cli, allocated, attempts, wPc, uses,
                ownerPc, pubPc, pubUsed>>

ClientInit == /\ threadExit = FALSE /\ isRunning = FALSE /\ isConnected = FALSE
              /\ limit \in Limits /\ cli = "null" /\ allocated = 0 /\ attempts = 0
              /\ wPc = "none" /\ uses = "none" /\ ownerPc = "init"
              /\ pubPc = "idle" /\ pubUsed = "none"

\* What mqtt_client_free does to the count: nothing when it is given nullptr
Released == IF cli = "null" THEN allocated ELSE allocated - 1

\* Mutant: mqtt_cli_ is left pointing at the client that was freed
MFree == /\ cli' = IF cli = "null" THEN "null" ELSE "freed"
         /\ allocated' = Released /\ UNCHANGED limit

\* mqtt_client_free(mqtt_cli_); mqtt_cli_ = nullptr
Free == cli' = "null" /\ allocated' = Released /\ UNCHANGED limit

-----------------------------------------------------------------------------
(* The owner: init and start in the constructor; the outputter's destructor *)
(* joins the publishing thread and calls stop(), then the client's own      *)
(* destructor calls stop() again and joins mqttWorkThread.                  *)

OwnerStart == /\ ownerPc = "init" /\ ~isRunning
              /\ threadExit' = FALSE /\ isRunning' = TRUE
              /\ attempts' = 0
              /\ wPc' = "test" /\ ownerPc' = "started"
              /\ UNCHANGED <<isConnected, limit, cli, allocated, uses, pubPc, pubUsed>>

\* stop(): the client is taken away from mqttWorkThread whatever it is doing
StopClient == /\ threadExit' = TRUE /\ isRunning' = FALSE /\ isConnected' = FALSE
              /\ Free /\ UNCHANGED attempts
              /\ uses' = IF cli = "live" /\ uses = "live" THEN "freed" ELSE uses

OwnerStop == /\ ownerPc = "started" /\ pubPc = "idle"
             /\ IF isRunning THEN StopClient
                ELSE UNCHANGED <<threadExit, isRunning, isConnected, client, uses>>
             /\ ownerPc' = "join"
             /\ UNCHANGED <<wPc, pubPc, pubUsed>>

\* the second stop() returns at once
Join == /\ ownerPc = "join" /\ wPc = "exited"
        /\ ownerPc' = "done"
        /\ UNCHANGED <<threadExit, isRunning, isConnected, client, wPc, uses, pubPc, pubUsed>>

-----------------------------------------------------------------------------
(* mqttWorkThread *)

ThreadExitTest == /\ wPc = "test"
                  /\ wPc' = IF threadExit THEN "exited" ELSE "new"
                  /\ UNCHANGED <<threadExit, isRunning, isConnected, client, uses, ownerPc, pubPc, pubUsed>>

\* threadExit is not looked at again under the lock
New == /\ wPc = "new"
       /\ cli' = "live" /\ allocated' = allocated + 1
       /\ wPc' = "connect"
       /\ UNCHANGED <<threadExit, isRunning, isConnected, limit, attempts, uses, ownerPc, pubPc, pubUsed>>

\* mqtt_client_new failed: sleep and start over
NewFails == /\ wPc = "new"
            /\ cli' = "null" /\ wPc' = "test"
            /\ UNCHANGED <<threadExit, isRunning, isConnected, limit, allocated, attempts, uses, ownerPc, pubPc, pubUsed>>

\* mqtt_client_connect reads mqtt_cli_ without the lock.  stop() may free the
\* client during this call and during mqtt_client_run: what libhv then does
\* is undefined; here the call returns, with either result.
ClientConnect == /\ wPc = "connect"
                 /\ uses' = cli
                 /\ wPc' = "connecting"
                 /\ UNCHANGED <<threadExit, isRunning, isConnected, client, ownerPc, pubPc, pubUsed>>

\* ret == 0; mqtt_client_run reads mqtt_cli_ again
ConnectOk == /\ wPc = "connecting"
             /\ uses' = cli
             /\ wPc' = "run"
             /\ UNCHANGED <<threadExit, isRunning, isConnected, client, ownerPc, pubPc, pubUsed>>

ConnectFails == /\ wPc = "connecting"
                /\ uses' = "none" /\ wPc' = "failed"
                /\ UNCHANGED <<threadExit, isRunning, isConnected, client, ownerPc, pubPc, pubUsed>>

\* Mutant: the client of a failed connection is not freed
MFreeFailed == /\ wPc = "failed"
               /\ cli' = "null" /\ wPc' = "test"
               /\ UNCHANGED <<threadExit, isRunning, isConnected, limit, allocated, attempts, uses, ownerPc, pubPc, pubUsed>>

FreeFailed == /\ wPc = "failed"
              /\ Free /\ wPc' = "test"
              /\ UNCHANGED <<threadExit, isRunning, isConnected, attempts, uses, ownerPc, pubPc, pubUsed>>

\* mqtt_client_run is hloop_run: it returns after mqtt_client_stop, and may or
\* may not return when the connection is lost or never acknowledged
RunReturns == /\ wPc \in {"run", "acked", "lost"}
              /\ uses' = "none" /\ wPc' = "cleanup"
              /\ UNCHANGED <<threadExit, isRunning, isConnected, client, ownerPc, pubPc, pubUsed>>

Cleanup == /\ wPc = "cleanup"
           /\ Free /\ wPc' = "after"
           /\ UNCHANGED <<threadExit, isRunning, isConnected, attempts, uses, ownerPc, pubPc, pubUsed>>

\* Mutant: the thread ends with the first connection it loses
MAfterRun == /\ wPc = "after"
             /\ isConnected' = FALSE
             /\ wPc' = "exited"
             /\ UNCHANGED <<threadExit, isRunning, client, uses, ownerPc, pubPc, pubUsed>>

\* is_connected_ = false, then leave or go on to reconnect()
AfterRun == /\ wPc = "after"
            /\ isConnected' = FALSE
            /\ wPc' = IF threadExit THEN "exited" ELSE "reconnect"
            /\ UNCHANGED <<threadExit, isRunning, client, uses, ownerPc, pubPc, pubUsed>>

\* reconnect(): stop() when the limit is reached, otherwise count
Reconnect == /\ wPc = "reconnect"
             /\ IF limit > 0 /\ attempts >= limit
                THEN IF isRunning THEN StopClient
                     ELSE UNCHANGED <<threadExit, isRunning, isConnected, client, uses>>
                ELSE /\ attempts' = IF limit > 0 THEN attempts + 1 ELSE 0
                     /\ UNCHANGED <<threadExit, isRunning, isConnected, limit, cli, allocated, uses>>
             /\ wPc' = "test"
             /\ UNCHANGED <<ownerPc, pubPc, pubUsed>>

\* onMqttEvent, called by mqtt_client_run: a connection is acknowledged once
\* and lost once, and libhv is not told to make another (no set_reconnect)
Connack == /\ wPc = "run" /\ uses = "live"
           /\ isConnected' = TRUE /\ attempts' = 0
           /\ wPc' = "acked"
           /\ UNCHANGED <<threadExit, isRunning, limit, cli, allocated, uses, ownerPc, pubPc, pubUsed>>

Disconnected == /\ wPc \in {"run", "acked"} /\ uses = "live"
                /\ isConnected' = FALSE
                /\ wPc' = "lost"
                /\ UNCHANGED <<threadExit, isRunning, client, uses, ownerPc, pubPc, pubUsed>>

-----------------------------------------------------------------------------
(* publish(), by the one thread that the outputter joins before stop() *)

PublishTest == /\ pubPc = "idle" /\ ownerPc = "started" /\ isConnected
               /\ pubPc' = "locked"
               /\ UNCHANGED <<threadExit, isRunning, isConnected, client, wPc, uses, ownerPc, pubUsed>>

\* Under the lock: -2 when mqtt_cli_ is null, else it is handed to libhv
PublishInternal == /\ pubPc = "locked"
                   /\ pubUsed' = IF cli = "null" THEN pubUsed ELSE cli
                   /\ pubPc' = "idle"
                   /\ UNCHANGED <<threadExit, isRunning, isConnected, client, wPc, uses, ownerPc>>

-----------------------------------------------------------------------------
MqttWorkThread == \/ ThreadExitTest \/ New \/ NewFails \/ ClientConnect \/ ConnectOk \/ ConnectFails
                  \/ FreeFailed \/ Cleanup \/ AfterRun \/ Reconnect

ClientNext == \/ OwnerStart \/ OwnerStop \/ Join
              \/ MqttWorkThread \/ RunReturns \/ Connack \/ Disconnected
              \/ PublishTest \/ PublishInternal

ClientSpec == ClientInit /\ [][ClientNext]_clientVars

\* The thread is scheduled and a stopped client's run returns; a connection
\* that nobody stops may last for ever.
StopSpec == /\ ClientSpec /\ WF_clientVars(MqttWorkThread)
            /\ WF_clientVars(RunReturns /\ uses # "live")

\* ... and memory is not short for ever.  The broker need not be there.
RetrySpec == StopSpec /\ SF_clientVars(New)

-----------------------------------------------------------------------------
(* Properties *)

\* Types, and the limit on reconnect_attempts_.
ClientTypeOK == /\ threadExit \in BOOLEAN /\ isRunning \in BOOLEAN /\ isConnected \in BOOLEAN
                /\ limit \in Limits /\ attempts \in 0 .. (IF limit > 0 THEN limit ELSE 0)
                /\ cli \in {"null", "live", "freed"} /\ allocated \in Nat
                /\ wPc \in {"none", "test", "new", "connect", "connecting", "failed", "run",
                            "acked", "lost", "cleanup", "after", "reconnect", "exited"}
                /\ uses \in {"none", "null", "live", "freed"}
                /\ ownerPc \in {"init", "started", "join", "done"}
                /\ pubPc \in {"idle", "locked"} /\ pubUsed \in {"none", "live", "freed"}

\* Whichever of stop(), reconnect()'s own stop(), a failed connection and the end of a connection frees
\* a client, each is freed exactly once and mqtt_cli_ holds the only one left.
ClientsBalanced == allocated = IF cli = "null" THEN 0 ELSE 1

\* publish() tests is_connected_ before it has the lock, and is_connected_ stays
\* true while the thread frees a client whose run returned and until a later
\* statement: even so a freed client is never passed to mqtt_client_publish.
PublishUsesLiveClient == pubUsed # "freed"

\* A connection that failed, and one that mqtt_client_run returned from, is
\* followed by another attempt to connect: without a limit on the attempts
\* only the owner's stop() prevents it.
Reconnects == (isRunning /\ wPc \in {"failed", "cleanup"}) ~>
              (wPc = "connecting" \/ ownerPc = "join" \/ (limit > 0 /\ ~isRunning))

\* "Stop the client and leave the work thread": after stop() mqttWorkThread
\* ends, so that the destructor's join returns.
StopEndsThread == (ownerPc = "join") ~> (wPc = "exited")
=============================================================================
