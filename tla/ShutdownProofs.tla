--------------------------- MODULE ShutdownProofs ---------------------------
(***************************************************************************)
(* The order of an orderly shutdown, for any number of workers, requests   *)
(* and triggers and whatever closes fail or hang.                          *)
(***************************************************************************)
EXTENDS Shutdown, TLAPS

LEMMA TargetFacts ==
  /\ Len(Targets) = 5
  /\ Targets[1] = "http" /\ Targets[2] = "workers" /\ Targets[3] = "queues"
  /\ Targets[4] = "prisma" /\ Targets[5] = "redis"
  BY DEF Targets

(***************************************************************************)
(* At most one call of shutdown() gets past the flag, and it has called    *)
(* the closes of exactly the targets it has come to, once each.            *)
(***************************************************************************)
OneSequence ==
    \A t, u \in Triggers : at[t] > 0 /\ at[u] > 0 => t = u

FlagFirst ==
    IF shuttingDown THEN \E t \in Triggers : at[t] > 0
    ELSE (\A t \in Triggers : at[t] = 0) /\ (\A n \in TargetNames : closes[n] = 0)

ClosesUpTo(k) ==
    /\ closes["http"] = IF k >= 1 THEN 1 ELSE 0
    /\ closes["workers"] = IF k >= 2 THEN 1 ELSE 0
    /\ closes["queues"] = IF k >= 3 THEN 1 ELSE 0
    /\ closes["prisma"] = IF k >= 4 THEN 1 ELSE 0
    /\ closes["redis"] = IF k >= 5 THEN 1 ELSE 0

ClosesInOrder == \A t \in Triggers : at[t] > 0 => ClosesUpTo(at[t])

(***************************************************************************)
(* A close that has been waited for has left nothing under way.            *)
(***************************************************************************)
Drained ==
    \A t \in Triggers :
      /\ at[t] > 1 => serving = {} \/ "http" \in failed
      /\ at[t] > 2 => (\A w \in Workers : run[w] = "idle") \/ "workers" \in failed

Orderly == TypeOK /\ OneSequence /\ FlagFirst /\ ClosesInOrder /\ Drained

LEMMA InitOrderly == Init => Orderly
<1> SUFFICES ASSUME Init PROVE Orderly
  OBVIOUS
<1>1. TypeOK
  <2>1. at \in [Triggers -> 0 .. 6] /\ closes \in [TargetNames -> 0 .. 2]
    BY DEF Init
  <2>2. /\ listening \subseteq Triggers /\ shuttingDown \in BOOLEAN
        /\ failed \subseteq TargetNames /\ hung \subseteq TargetNames
        /\ exited \in ExitCodes \cup {None} /\ activeIo \in BOOLEAN
    BY DEF Init
  <2>3. /\ serving \subseteq Requests /\ run \in [Workers -> {"idle", "io", "fetch", "db"}]
        /\ handlers \subseteq Workers /\ lost \in BOOLEAN
    BY DEF Init
  <2> QED BY <2>1, <2>2, <2>3 DEF TypeOK
<1>2. OneSequence /\ FlagFirst /\ ClosesInOrder /\ Drained
  BY DEF Init, OneSequence, FlagFirst, ClosesInOrder, Drained
<1> QED BY <1>1, <1>2 DEF Orderly

LEMMA ShutdownStep ==
  ASSUME Orderly, NEW t \in Triggers, shutdown(t)
  PROVE  Orderly'
<1> USE DEF Orderly, TypeOK, TargetNames
<1>1. /\ listening' \subseteq Triggers
      /\ UNCHANGED <<failed, hung, exited, activeIo, serving, run, handlers, lost>>
  BY DEF shutdown, processVars
<1>2. CASE shuttingDown
  <2>1. UNCHANGED <<shuttingDown, at, closes>>
    BY <1>2 DEF shutdown, alreadyShuttingDown
  <2> QED
    BY <1>1, <2>1 DEF OneSequence, FlagFirst, ClosesInOrder, ClosesUpTo, Drained
<1>3. CASE ~shuttingDown
  <2>1. /\ shuttingDown' = TRUE
        /\ at' = [at EXCEPT ![t] = 1]
        /\ closes' = [closes EXCEPT !["http"] = 1]
    BY <1>3, TargetFacts
    DEF shutdown, alreadyShuttingDown, BeginClose, FlagFirst
  <2>2. TypeOK'
    BY <1>1, <2>1
  <2>3. OneSequence' /\ FlagFirst'
    BY <1>3, <2>1 DEF OneSequence, FlagFirst
  <2>4. ClosesInOrder'
    BY <1>3, <2>1 DEF ClosesInOrder, ClosesUpTo, FlagFirst
  <2>5. Drained'
    BY <1>1, <1>3, <2>1 DEF Drained, FlagFirst
  <2> QED BY <2>2, <2>3, <2>4, <2>5
<1> QED BY <1>2, <1>3

LEMMA CloseNextStep ==
  ASSUME Orderly, NEW t \in Triggers, closeNext(t)
  PROVE  Orderly'
<1> DEFINE i == at[t]
<1> DEFINE n == Targets[i]
<1> USE DEF Orderly, TypeOK, TargetNames
<1>1. /\ i \in 1 .. 5
      /\ at' = [at EXCEPT ![t] = i + 1]
      /\ n \in TargetNames
      /\ UNCHANGED <<listening, shuttingDown, hung, exited, serving, run, handlers,
                     lost>>
  BY TargetFacts
  DEF closeNext, closeResolves, closeThrows, Closing, BeginClose, processVars
<1>2. closes' = IF i = 5 THEN closes
                ELSE [closes EXCEPT ![Targets[i + 1]] = IF @ = 2 THEN 2 ELSE @ + 1]
  BY <1>1, TargetFacts DEF closeNext, closeResolves, closeThrows, BeginClose
<1>3. /\ failed \subseteq failed' /\ failed' \subseteq TargetNames
      /\ Quiet(n) \/ n \in failed'
      /\ activeIo' \in BOOLEAN
  BY <1>1 DEF closeNext, closeResolves, closeThrows, processVars
<1>4. ClosesUpTo(i)
  BY <1>1 DEF ClosesInOrder
<1>5. ClosesUpTo(at[t])'
  <2>1. CASE i = 1
    BY <1>1, <1>2, <1>4, <2>1, TargetFacts DEF ClosesUpTo
  <2>2. CASE i = 2
    BY <1>1, <1>2, <1>4, <2>2, TargetFacts DEF ClosesUpTo
  <2>3. CASE i = 3
    BY <1>1, <1>2, <1>4, <2>3, TargetFacts DEF ClosesUpTo
  <2>4. CASE i = 4
    BY <1>1, <1>2, <1>4, <2>4, TargetFacts DEF ClosesUpTo
  <2>5. CASE i = 5
    BY <1>1, <1>2, <1>4, <2>5, TargetFacts DEF ClosesUpTo
  <2> QED BY <1>1, <2>1, <2>2, <2>3, <2>4, <2>5
<1>6. TypeOK'
  <2>1. closes' \in [TargetNames -> 0 .. 2]
    BY <1>1, <1>2, TargetFacts
  <2> QED BY <1>1, <1>3, <2>1
<1>7. \A u \in Triggers : u # t => at[u] = 0
  BY <1>1 DEF OneSequence
<1>8. OneSequence' /\ ClosesInOrder'
  BY <1>1, <1>5, <1>7 DEF OneSequence, ClosesInOrder
<1>9. FlagFirst'
  BY <1>1 DEF FlagFirst
<1>10. Drained'
  <2>1. at'[t] > 1 => serving = {} \/ "http" \in failed'
    BY <1>1, <1>3, TargetFacts DEF Drained, Quiet
  <2>2. at'[t] > 2 =>
          (\A w \in Workers : run[w] = "idle") \/ "workers" \in failed'
    BY <1>1, <1>3, TargetFacts DEF Drained, Quiet
  <2> QED BY <1>1, <1>7, <2>1, <2>2 DEF Drained
<1> QED BY <1>6, <1>8, <1>9, <1>10

(***************************************************************************)
(* A request that begins finds app.close not called yet, a run worker.close*)
(* not called yet.                                                         *)
(***************************************************************************)
LEMMA WorkStep ==
  ASSUME Orderly,
         \/ \E r \in Requests : beginRequest(r) \/ endRequest(r)
         \/ \E w \in Workers :
              takeJob(w) \/ getIo(w) \/ fetchSockets(w) \/ endRun(w) \/ endHandler(w)
  PROVE  Orderly'
<1> USE DEF Orderly, TypeOK
<1>1. UNCHANGED <<closeVars, hung, exited, activeIo, lost>>
  BY DEF beginRequest, endRequest, takeJob, getIo, fetchSockets, RunThrows, endRun,
      endHandler
<1>2. /\ serving' \subseteq Requests /\ handlers' \subseteq Workers
      /\ run' \in [Workers -> {"idle", "io", "fetch", "db"}]
  BY DEF beginRequest, endRequest, takeJob, getIo, fetchSockets, RunThrows, endRun,
      endHandler
<1>3. TypeOK' /\ OneSequence' /\ FlagFirst' /\ ClosesInOrder'
  BY <1>1, <1>2
  DEF closeVars, OneSequence, FlagFirst, ClosesInOrder, ClosesUpTo
<1>4. serving' \subseteq serving \/ closes["http"] = 0
  BY DEF beginRequest, endRequest, takeJob, getIo, fetchSockets, RunThrows, endRun,
      endHandler, Called, TargetNames
<1>5. \/ \A w \in Workers : run[w] = "idle" => run'[w] = "idle"
      \/ closes["workers"] = 0
  BY DEF beginRequest, endRequest, takeJob, getIo, fetchSockets, RunThrows, endRun,
      endHandler, Called, TargetNames
<1>6. Drained'
  BY <1>1, <1>4, <1>5 DEF closeVars, Drained, ClosesInOrder, ClosesUpTo
<1> QED BY <1>3, <1>6

LEMMA OrderlyStep == Orderly /\ [Next]_vars => Orderly'
<1> SUFFICES ASSUME Orderly, [Next]_vars PROVE Orderly'
  OBVIOUS
<1>1. CASE UNCHANGED vars
  BY <1>1
  DEF Orderly, TypeOK, OneSequence, FlagFirst, ClosesInOrder, ClosesUpTo,
      Drained, vars, closeVars, processVars
<1>2. ASSUME NEW code \in ExitCodes, Exit(code) PROVE Orderly'
  BY <1>2
  DEF Orderly, TypeOK, OneSequence, FlagFirst, ClosesInOrder, ClosesUpTo,
      Drained, Exit, closeVars, processVars, ExitCodes
<1>3. ASSUME NEW t \in Triggers, complete(t) \/ killed(t) PROVE Orderly'
  <2>1. \E code \in ExitCodes : Exit(code)
    BY <1>3 DEF complete, killed, ExitCode, fatalCode, ExitCodes
  <2> QED BY <1>2, <2>1
<1>4. CASE forceExit
  BY <1>2, <1>4 DEF forceExit, ExitCodes
<1> QED
  BY <1>1, <1>3, <1>4, ShutdownStep, CloseNextStep, WorkStep DEF Next

LEMMA OrderlyInvariant == Spec => []Orderly
  BY InitOrderly, OrderlyStep, PTL DEF Spec

(***************************************************************************)
(* Every variable of the shutdown keeps its type.                          *)
(***************************************************************************)
THEOREM ShutdownTypes == Spec => []TypeOK
<1>1. Orderly => TypeOK
  BY DEF Orderly
<1> QED BY <1>1, OrderlyInvariant, PTL

(***************************************************************************)
(* However many signals and exceptions arrive, and in whatever order, no   *)
(* target is closed twice.                                                 *)
(***************************************************************************)
THEOREM TargetsClosedOnce == Spec => []ClosedOnce
<1>1. ASSUME Orderly PROVE ClosedOnce
  <2>1. CASE ~shuttingDown
    BY <1>1, <2>1 DEF Orderly, FlagFirst, ClosedOnce
  <2>2. CASE shuttingDown
    <3>1. PICK t \in Triggers : at[t] > 0
      BY <1>1, <2>2 DEF Orderly, FlagFirst
    <3>2. ClosesUpTo(at[t]) /\ at[t] \in Nat
      BY <1>1, <3>1 DEF Orderly, ClosesInOrder, TypeOK
    <3> QED BY <3>2 DEF ClosesUpTo, ClosedOnce, TargetNames
  <2> QED BY <2>1, <2>2 DEF Orderly, TypeOK
<1> QED BY <1>1, OrderlyInvariant, PTL

(***************************************************************************)
(* The queues, Prisma and the main Redis connection are not closed under a *)
(* request or a run, unless the close that waits for it threw.  (Nothing   *)
(* like it holds of the io and the Redis clients of its adapter.)          *)
(***************************************************************************)
THEOREM WorkKeepsConnections == Spec => []ConnectionsOutliveWork
<1>1. ASSUME Orderly PROVE ConnectionsOutliveWork
  <2>1. SUFFICES ASSUME NEW n \in {"queues", "prisma", "redis"}, closes[n] > 0
                 PROVE  /\ serving = {} \/ "http" \in failed
                        /\ \/ \A w \in Workers : run[w] = "idle"
                           \/ "workers" \in failed
    BY DEF ConnectionsOutliveWork, Called
  <2>2. shuttingDown
    BY <1>1, <2>1 DEF Orderly, TypeOK, FlagFirst, TargetNames
  <2>3. PICK t \in Triggers : at[t] > 0
    BY <1>1, <2>2 DEF Orderly, FlagFirst
  <2>4. at[t] > 2
    BY <1>1, <2>1, <2>3 DEF Orderly, ClosesInOrder, ClosesUpTo, TypeOK
  <2> QED BY <1>1, <2>4 DEF Orderly, Drained, TypeOK
<1> QED BY <1>1, OrderlyInvariant, PTL

=============================================================================
