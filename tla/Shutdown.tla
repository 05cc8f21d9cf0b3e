------------------------------ MODULE Shutdown ------------------------------
(***************************************************************************)
(* The end of a server process: installGracefulShutdown and                *)
(* closeAllInOrder (src/lib/shutdown.ts) with the targets of src/server.ts *)
(* (the same as those of src/workers/index.ts), against the HTTP requests, *)
(* the worker runs and the 'failed' listeners that are still under way.    *)
(***************************************************************************)
EXTENDS Naturals, Sequences

CONSTANTS
    Workers,    \* the worker slots of this process
    Requests,   \* the HTTP requests
    Triggers,   \* what calls shutdown(): {"SIGTERM", "SIGINT", "exception"}
    None        \* not exited

ExitCodes == {0, 1, 130, 143}

ASSUME ShutdownAssumption ==
    /\ Triggers \subseteq {"SIGTERM", "SIGINT", "exception"}
    /\ None \notin ExitCodes

VARIABLES
    listening,     \* the triggers whose listener is still installed
    shuttingDown,  \* the flag of installGracefulShutdown
    at,            \* trigger -> the target its call of shutdown() is closing
    closes,        \* target -> how often its close() was called (up to 2)
    failed,        \* the targets whose close threw
    hung,          \* the targets whose close never resolves
    exited,        \* the exit code, or None
    activeIo,      \* whether ws/server.ts still has its io
    serving,       \* the HTTP requests in flight
    run,           \* worker -> what its run of handleJob needs next
    handlers,      \* workers with a 'failed' listener under way
    lost           \* history: a 'failed' listener was cut off by an exit

processVars == <<activeIo, serving, run, handlers>>
closeVars   == <<listening, shuttingDown, at, closes, failed>>
vars == <<closeVars, hung, exited, processVars, lost>>

workersLast == <<"http", "queues", "prisma", "redis", "workers">>  \* mutant

Targets == <<"http", "workers", "queues", "prisma", "redis">>

TargetNames == {"http", "workers", "queues", "prisma", "redis"}

TypeOK ==
    /\ listening \subseteq Triggers
    /\ shuttingDown \in BOOLEAN
    /\ at \in [Triggers -> 0 .. 6]
    /\ closes \in [TargetNames -> 0 .. 2]
    /\ failed \subseteq TargetNames
    /\ hung \subseteq TargetNames
    /\ exited \in ExitCodes \cup {None}
    /\ activeIo \in BOOLEAN
    /\ serving \subseteq Requests
    /\ run \in [Workers -> {"idle", "io", "fetch", "db"}]
    /\ handlers \subseteq Workers
    /\ lost \in BOOLEAN

Init ==
    /\ listening = Triggers
    /\ shuttingDown = FALSE
    /\ at = [t \in Triggers |-> 0]
    /\ closes = [n \in TargetNames |-> 0]
    /\ failed = {}
    /\ hung \in SUBSET TargetNames
    /\ exited = None
    /\ activeIo = TRUE
    /\ serving = {}
    /\ run = [w \in Workers |-> "idle"]
    /\ handlers = {}
    /\ lost = FALSE

-----------------------------------------------------------------------------
Called(n) == closes[n] > 0

(***************************************************************************)
(* Calling the close of the target at place i, if there is one; app.close  *)
(* refuses new requests from then on, worker.close takes no more jobs.     *)
(***************************************************************************)
BeginClose(t, i) ==
    /\ at' = [at EXCEPT ![t] = i]
    /\ closes' = IF i > Len(Targets) THEN closes
                 ELSE [closes EXCEPT ![Targets[i]] = IF @ = 2 THEN 2 ELSE @ + 1]

(***************************************************************************)
(* shutdown(): the first caller closes everything, later ones are ignored. *)
(* The listener of a signal is installed with `once`: used or ignored, it  *)
(* is gone, and the same signal again is fatal.                            *)
(***************************************************************************)
neverIgnored == FALSE  \* mutant: the flag is not looked at

alreadyShuttingDown == shuttingDown

shutdown(t) ==
    /\ exited = None
    /\ t \in listening
    /\ at[t] = 0
    /\ listening' = listening \ ({t} \ {"exception"})
    /\ IF alreadyShuttingDown
       THEN UNCHANGED <<shuttingDown, at, closes>>
       ELSE shuttingDown' = TRUE /\ BeginClose(t, 1)
    /\ UNCHANGED <<failed, hung, exited, processVars, lost>>

(***************************************************************************)
(* External: app.close() waits for the requests in flight, worker.close()  *)
(* for the runs; neither waits for a 'failed' listener.                    *)
(***************************************************************************)
Quiet(n) ==
    /\ n = "http" => serving = {}
    /\ n = "workers" => \A w \in Workers : run[w] = "idle"

Closing(t) ==
    /\ exited = None
    /\ at[t] \in 1 .. Len(Targets)
    /\ Targets[at[t]] \notin hung

(***************************************************************************)
(* The close waited for resolves and the loop goes on.  Closing http runs  *)
(* the onClose hook, which closes the io and its Redis clients and clears  *)
(* activeIo.                                                               *)
(***************************************************************************)
closeResolves(t) ==
    /\ Closing(t)
    /\ Quiet(Targets[at[t]])
    /\ activeIo' = (activeIo /\ Targets[at[t]] # "http")
    /\ BeginClose(t, at[t] + 1)
    /\ UNCHANGED <<listening, shuttingDown, failed, hung, exited, serving, run,
                   handlers, lost>>

abandonLoop(t) ==  \* mutant: no catch, the loop ends with the error
    /\ Closing(t)
    /\ failed' = failed \cup {Targets[at[t]]}
    /\ at' = [at EXCEPT ![t] = 0]
    /\ UNCHANGED <<listening, shuttingDown, closes, hung, exited, processVars, lost>>

(***************************************************************************)
(* The close waited for throws: the error is logged, the loop goes on.     *)
(***************************************************************************)
closeThrows(t) ==
    /\ Closing(t)
    /\ failed' = failed \cup {Targets[at[t]]}
    /\ BeginClose(t, at[t] + 1)
    /\ UNCHANGED <<listening, shuttingDown, hung, exited, processVars, lost>>

closeNext(t) == closeResolves(t) \/ closeThrows(t)

codeOfSignal(t) == IF t = "exception" THEN 1 ELSE 15  \* mutant: the signal's number

ExitCode(t) == IF t = "exception" THEN 1 ELSE 0

Exit(code) ==
    /\ exited' = code
    /\ lost' = (handlers # {})
    /\ UNCHANGED <<closeVars, hung, processVars>>

complete(t) ==
    /\ exited = None
    /\ at[t] = Len(Targets) + 1
    /\ Exit(ExitCode(t))

(***************************************************************************)
(* External: a signal nobody listens for ends the process, with 128 plus   *)
(* its number as the code: SIGINT is 2, SIGTERM 15.                        *)
(***************************************************************************)
fatalCode(t) == IF t = "SIGINT" THEN 130 ELSE 143

killed(t) ==
    /\ exited = None
    /\ t \in Triggers \ listening
    /\ Exit(fatalCode(t))

(***************************************************************************)
(* The timer of 30 s, set with the flag.                                   *)
(***************************************************************************)
forceExit ==
    /\ exited = None
    /\ shuttingDown
    /\ Exit(1)

-----------------------------------------------------------------------------
beginRequest(r) ==
    /\ exited = None
    /\ r \notin serving
    /\ ~Called("http")
    /\ serving' = serving \cup {r}
    /\ UNCHANGED <<closeVars, hung, exited, activeIo, run, handlers, lost>>

endRequest(r) ==
    /\ exited = None
    /\ r \in serving
    /\ serving' = serving \ {r}
    /\ UNCHANGED <<closeVars, hung, exited, activeIo, run, handlers, lost>>

takeJob(w) ==
    /\ exited = None
    /\ run[w] = "idle"
    /\ ~Called("workers")
    /\ \E need \in {"io", "db"} : run' = [run EXCEPT ![w] = need]
    /\ UNCHANGED <<closeVars, hung, exited, activeIo, serving, handlers, lost>>

RunThrows(w) ==
    /\ run' = [run EXCEPT ![w] = "idle"]
    /\ handlers' = handlers \cup {w}

(***************************************************************************)
(* The run of a websocket job asks getIo() for the io, which throws once   *)
(* the http target has closed it.                                          *)
(***************************************************************************)
getIo(w) ==
    /\ exited = None
    /\ run[w] = "io"
    /\ IF activeIo
       THEN run' = [run EXCEPT ![w] = "fetch"] /\ UNCHANGED handlers
       ELSE RunThrows(w)
    /\ UNCHANGED <<closeVars, hung, exited, activeIo, serving, lost>>

(***************************************************************************)
(* The presence answer, and the emit in the same stretch of code.  The     *)
(* call ends whatever became of the io in the meantime: with the sockets   *)
(* of other replicas, with none ("recipient offline"), or with an error of *)
(* a closed Redis client.                                                  *)
(***************************************************************************)
fetchSockets(w) ==
    /\ exited = None
    /\ run[w] = "fetch"
    /\ \/ run' = [run EXCEPT ![w] = "db"] /\ UNCHANGED handlers
       \/ RunThrows(w)
    /\ UNCHANGED <<closeVars, hung, exited, activeIo, serving, lost>>

(***************************************************************************)
(* The run writes its row and ends, or throws; the listener of 'failed'    *)
(* runs on its own.                                                        *)
(***************************************************************************)
endRun(w) ==
    /\ exited = None
    /\ run[w] = "db"
    /\ \/ run' = [run EXCEPT ![w] = "idle"] /\ UNCHANGED handlers
       \/ RunThrows(w)
    /\ UNCHANGED <<closeVars, hung, exited, activeIo, serving, lost>>

endHandler(w) ==
    /\ exited = None
    /\ w \in handlers
    /\ handlers' = handlers \ {w}
    /\ UNCHANGED <<closeVars, hung, exited, activeIo, serving, run, lost>>

Next ==
    \/ \E t \in Triggers : shutdown(t) \/ closeNext(t) \/ complete(t) \/ killed(t)
    \/ forceExit
    \/ \E r \in Requests : beginRequest(r) \/ endRequest(r)
    \/ \E w \in Workers :
         takeJob(w) \/ getIo(w) \/ fetchSockets(w) \/ endRun(w) \/ endHandler(w)

Spec == Init /\ [][Next]_vars

(***************************************************************************)
(* Requests and runs under way end, one way or the other, a close that     *)
(* does not hang resolves once it has nothing left to wait for, and the    *)
(* loop goes on to the exit.  Nothing is assumed of the timer.             *)
(***************************************************************************)
FairSpec ==
    /\ Spec
    /\ \A r \in Requests : WF_vars(endRequest(r))
    /\ \A w \in Workers : WF_vars(getIo(w) \/ fetchSockets(w) \/ endRun(w))
    /\ \A t \in Triggers : WF_vars(closeResolves(t) \/ complete(t))

-----------------------------------------------------------------------------
(***************************************************************************)
(* Two signals and an exception close every target once, in one sequence.  *)
(***************************************************************************)
ClosedOnce == \A n \in TargetNames : closes[n] <= 1

(***************************************************************************)
(* "Drain the workers" before "its Redis client closes underneath it"      *)
(* (server.ts): the queues, Prisma and the main Redis connection are not   *)
(* closed under a request or a run, unless the close that waits for it     *)
(* threw.  Of the io and the Redis clients of its adapter this is not      *)
(* true: the http target comes first and takes them from a websocket run.  *)
(***************************************************************************)
ConnectionsOutliveWork ==
    \A n \in {"queues", "prisma", "redis"} :
      Called(n) =>
        /\ serving = {} \/ "http" \in failed
        /\ (\A w \in Workers : run[w] = "idle") \/ "workers" \in failed

(***************************************************************************)
(* A shutdown needs its 30 s timer only for a close that hangs: however    *)
(* many closes throw, whatever requests and runs are under way, and though *)
(* the io is gone when a run asks for it, the drain comes to its end.      *)
(***************************************************************************)
DrainEnds == (shuttingDown /\ hung = {}) ~> (exited # None)

(***************************************************************************)
(* "drains in-flight jobs before resolving" (workers/index.ts): an orderly *)
(* exit in which no close failed cuts off no failure handler.              *)
(***************************************************************************)
NoHandlerCutOff == (exited = 0 /\ failed = {}) => ~lost

=============================================================================
