------------------------ MODULE PluginLifecycleProofs ------------------------
(***************************************************************************)
(* Proofs about PluginLifecycle, for any number of calling threads.        *)
(***************************************************************************)
EXTENDS PluginLifecycle, TLAPS

LEMMA InitEstablishesLInv == Init => LInv
<1> SUFFICES ASSUME Init PROVE LInv
  OBVIOUS
<1>1. TypeOK
  <2>1. stopper \in [Stoppers -> StopLabels] /\ pc \in [Threads -> ThreadLabels]
    BY DEF Init, StopLabels, ThreadLabels
  <2>2. started \in BOOLEAN /\ subscribed \in BOOLEAN /\ ticking \in BOOLEAN
        /\ abandoned \in BOOLEAN
    BY DEF Init
  <2>3. stopCalls \in 0..2
    BY DEF Init
  <2> QED
    BY <2>1, <2>2, <2>3 DEF Init, TypeOK, HostLabels
<1>2. StartsFirst
  BY DEF Init, StartsFirst, HasStarted
<1>3. StopsInTurn /\ StopsOnceUnlessAbandoned
  BY DEF Init, StopsInTurn, StopsOnceUnlessAbandoned, Entered, Stoppers
<1>4. HandlesAreHeld /\ FailsOnlyOnceDisposing
  BY DEF Init, HandlesAreHeld, FailsOnlyOnceDisposing
<1> QED
  BY <1>1, <1>2, <1>3, <1>4 DEF LInv

\* StartAsync: nothing has been called or stopped yet.
LEMMA StartKeepsLInv ==
  ASSUME LInv,
         \/ StartAsync \/ LoadFails \/ CreateHandle \/ VerifyFails \/ CallStart
         \/ PluginStarts \/ PluginRefuses \/ MarkStarted \/ Subscribe \/ StartTimer
  PROVE  LInv'
<1> USE DEF LInv, StartAsync, LoadFails, CreateHandle, VerifyFails, CallStart, PluginStarts,
            PluginRefuses, MarkStarted, Subscribe, StartTimer, HostStep, feeding, history
<1>1. TypeOK'
  <2>1. host' \in HostLabels
    BY DEF TypeOK, HostLabels
  <2>2. UNCHANGED <<stopper, pc, stopCalls, abandoned>>
        /\ handle' \in {"live", handle}
        /\ plugin' \in {"loaded", "starting", "running", "refused", plugin}
    OBVIOUS
  <2>3. started' \in BOOLEAN /\ subscribed' \in BOOLEAN /\ ticking' \in BOOLEAN
    BY DEF TypeOK
  <2> QED
    BY <2>1, <2>2, <2>3 DEF TypeOK
<1>2. StartsFirst'
  BY DEF TypeOK, StartsFirst, HasStarted, StopsInTurn, Entered, Stoppers
<1>3. StopsInTurn'
  BY DEF TypeOK, StopsInTurn, StartsFirst, HasStarted, Entered, Stoppers
<1>4. StopsOnceUnlessAbandoned'
  BY DEF StopsOnceUnlessAbandoned
<1>5. HandlesAreHeld' /\ FailsOnlyOnceDisposing'
  BY DEF TypeOK, HandlesAreHeld, FailsOnlyOnceDisposing
<1> QED
  BY <1>1, <1>2, <1>3, <1>4, <1>5

\* StopAsync and Dispose: Dispose finds no task under way unless it was abandoned.
LEMMA StopKeepsLInv ==
  ASSUME LInv,
         \/ Unsubscribe \/ StopTimer \/ RunStop \/ StopFinishes \/ DeadlineExpires
         \/ Dispose \/ DisposeHandle \/ ClearHandle
  PROVE  LInv'
<1> USE DEF LInv, Unsubscribe, StopTimer, RunStop, StopFinishes, DeadlineExpires, Dispose,
            DisposeHandle, ClearHandle, HostStep, feeding, history
<1>1. TypeOK'
  <2>1. stopper' \in [Stoppers -> StopLabels]
    BY DEF TypeOK, StopLabels
  <2>2. host' \in HostLabels
    BY DEF TypeOK, HostLabels
  <2>3. handle' \in {"null", "live", "disposed"}
    BY DEF TypeOK
  <2>4. UNCHANGED <<started, plugin, pc, stopCalls>>
        /\ subscribed' \in {FALSE, subscribed} /\ ticking' \in {FALSE, ticking}
        /\ abandoned' \in {TRUE, abandoned}
    OBVIOUS
  <2> QED
    BY <2>1, <2>2, <2>3, <2>4 DEF TypeOK
<1>2. StartsFirst'
  BY DEF TypeOK, StartsFirst, HasStarted, Stoppers
<1>3. StopsInTurn'
  BY DEF TypeOK, StopsInTurn, Entered, Stoppers
<1>4. StopsOnceUnlessAbandoned'
  BY DEF StopsOnceUnlessAbandoned
<1>5. HandlesAreHeld' /\ FailsOnlyOnceDisposing'
  BY DEF TypeOK, HandlesAreHeld, FailsOnlyOnceDisposing
<1> QED
  BY <1>1, <1>2, <1>3, <1>4, <1>5

\* One call of Stop.
LEMMA StopperKeepsLInv ==
  ASSUME LInv, NEW a \in Stoppers, StopRuns(a) \/ PluginStops(a)
  PROVE  LInv'
<1> USE DEF LInv, StopRuns, StopCheck, StopMark, StopCall, PluginStops, StopStep, feeding, history
<1>1. stopCalls' \in 0..2 /\ StopsInTurn' /\ StopsOnceUnlessAbandoned'
  <2>1. CASE StopCheck(a)
    BY <2>1 DEF TypeOK, StopsInTurn, StopsOnceUnlessAbandoned, Entered, Stoppers
  <2>2. CASE StopMark(a)
    BY <2>2 DEF TypeOK, StopsInTurn, StopsOnceUnlessAbandoned, Entered, Stoppers
  <2>3. CASE StopCall(a)
    <3>1. a \in {"task", "dispose"} /\ stopper[a] = "call"
      BY <2>3 DEF Stoppers
    <3>2. CASE handle # "live"
      BY <2>3, <3>1, <3>2 DEF TypeOK, StopsInTurn, StopsOnceUnlessAbandoned, Entered, Stoppers
    <3>3. CASE handle = "live"
      <4>1. stopCalls' = stopCalls + 1 /\ stopper' = [stopper EXCEPT ![a] = "in"]
            /\ UNCHANGED <<host, started, abandoned>>
        BY <2>3, <3>3
      <4>2. ~ started
        BY <3>1 DEF StopsInTurn, Stoppers
      <4> QED
        BY <3>1, <4>1, <4>2 DEF TypeOK, StopsInTurn, StopsOnceUnlessAbandoned, Entered, Stoppers
    <3> QED
      BY <3>2, <3>3
  <2>4. CASE PluginStops(a)
    BY <2>4 DEF TypeOK, StopsInTurn, StopsOnceUnlessAbandoned, Entered, Stoppers
  <2> QED
    BY <2>1, <2>2, <2>3, <2>4
<1>2. TypeOK'
  BY <1>1 DEF TypeOK, StopLabels
<1>3. StartsFirst'
  BY DEF TypeOK, StartsFirst, HasStarted, Stoppers
<1>4. HandlesAreHeld' /\ FailsOnlyOnceDisposing'
  BY DEF HandlesAreHeld, FailsOnlyOnceDisposing
<1> QED
  BY <1>1, <1>2, <1>3, <1>4

\* A thread's step changes nothing but its program counter.
LEMMA ThreadKeepsLInv ==
  ASSUME LInv, NEW t \in Threads,
         Feed(t) \/ Request(t) \/ ThreadRuns(t) \/ HandleReturns(t) \/ PageReturns(t)
  PROVE  LInv'
<1> USE DEF LInv, Feed, Request, ThreadRuns, CheckStarted, CheckHandle, EnterHandle,
            PerformActions, EnterPage, HandleReturns, PageReturns, ThreadStep, Fault, others,
            feeding, history
<1>1. TypeOK'
  BY DEF TypeOK, ThreadLabels
<1>2. StartsFirst'
  BY DEF TypeOK, StartsFirst, HasStarted
<1>3. StopsInTurn' /\ StopsOnceUnlessAbandoned'
  BY DEF StopsInTurn, StopsOnceUnlessAbandoned, Entered
<1>4. HandlesAreHeld' /\ FailsOnlyOnceDisposing'
  BY DEF TypeOK, HandlesAreHeld, FailsOnlyOnceDisposing
<1> QED
  BY <1>1, <1>2, <1>3, <1>4

LEMMA NextKeepsLInv == LInv /\ [Next]_vars => LInv'
<1> SUFFICES ASSUME LInv, [Next]_vars PROVE LInv'
  OBVIOUS
<1>1. CASE HostRuns \/ HostDecides \/ PluginStarts \/ PluginRefuses
  BY <1>1, StartKeepsLInv, StopKeepsLInv DEF HostRuns, HostDecides
<1>2. ASSUME NEW a \in Stoppers, StopRuns(a) \/ PluginStops(a) PROVE LInv'
  BY <1>2, StopperKeepsLInv
<1>3. ASSUME NEW t \in Threads,
             Feed(t) \/ Request(t) \/ ThreadRuns(t) \/ HandleReturns(t) \/ PageReturns(t)
      PROVE  LInv'
  BY <1>3, ThreadKeepsLInv
<1>4. CASE UNCHANGED vars
  BY <1>4 DEF vars, LInv, TypeOK, StartsFirst, HasStarted, StopsInTurn, Entered,
              StopsOnceUnlessAbandoned, HandlesAreHeld, FailsOnlyOnceDisposing
<1> QED
  BY <1>1, <1>2, <1>3, <1>4 DEF Next, PluginReturns

LEMMA LInvHolds == Spec => []LInv
BY InitEstablishesLInv, NextKeepsLInv, PTL DEF Spec

\* The fields and every thread's position keep their types.
THEOREM TypeCorrect == Spec => []TypeOK
<1>1. LInv => TypeOK
  BY DEF LInv
<1> QED
  BY <1>1, LInvHolds, PTL

\* handle() and stop() are called only on a plugin whose start() succeeded, for any
\* number of timer, event and request threads.
THEOREM OnlyAfterStartAlways == Spec => []OnlyAfterStart
<1>1. LInv => OnlyAfterStart
  BY DEF LInv, OnlyAfterStart, StartsFirst, HasStarted
<1> QED
  BY <1>1, LInvHolds, PTL

\* Unless the deadline expired, the plugin's stop() is called at most once.
THEOREM StopsOnceUnlessAbandonedAlways == Spec => []StopsOnceUnlessAbandoned
<1>1. LInv => StopsOnceUnlessAbandoned
  BY DEF LInv
<1> QED
  BY <1>1, LInvHolds, PTL

\* A page or a form request throws only once disposal has disposed the handle.
THEOREM FailsOnlyOnceDisposingAlways == Spec => []FailsOnlyOnceDisposing
<1>1. LInv => FailsOnlyOnceDisposing
  BY DEF LInv
<1> QED
  BY <1>1, LInvHolds, PTL

-----------------------------------------------------------------------------
(* The plugin's methods are called as PluginContract has it.               *)

\* The host's thread: the object is made, started once, and given up.
LEMMA HostHonoursContract ==
  ASSUME LInv, HostRuns \/ HostDecides \/ PluginStarts \/ PluginRefuses
  PROVE  [Contract!Next]_Contract!vars
<1> USE DEF LInv, Contract!Next, Contract!vars
<1>1. pc' = pc /\ stopCalls' = stopCalls
  BY DEF HostRuns, HostDecides, StartAsync, LoadFails, CreateHandle, VerifyFails, CallStart,
         PluginStarts, PluginRefuses, MarkStarted, Subscribe, StartTimer, Unsubscribe, StopTimer,
         RunStop, StopFinishes, DeadlineExpires, Dispose, DisposeHandle, ClearHandle, history
<1>2. {b \in Stoppers : stopper'[b] = "in"} = {b \in Stoppers : stopper[b] = "in"}
  <2>1. CASE RunStop \/ Dispose
    <3>1. PICK a \in Stoppers : stopper[a] = "none" /\ stopper' = [stopper EXCEPT ![a] = "check"]
      BY <2>1 DEF RunStop, Dispose, HostStep, StopsInTurn, Stoppers, TypeOK
    <3> QED
      BY <3>1 DEF TypeOK
  <2>2. CASE ~ (RunStop \/ Dispose)
    BY <2>2 DEF HostRuns, HostDecides, StartAsync, LoadFails, CreateHandle, VerifyFails, CallStart,
                PluginStarts, PluginRefuses, MarkStarted, Subscribe, StartTimer, Unsubscribe,
                StopTimer, StopFinishes, DeadlineExpires, DisposeHandle, ClearHandle
  <2> QED
    BY <2>1, <2>2
<1>3. CASE CreateHandle
  BY <1>1, <1>2, <1>3 DEF CreateHandle, HostStep, StartsFirst, HasStarted, Contract!Load
<1>4. CASE CallStart
  BY <1>1, <1>2, <1>4 DEF CallStart, HostStep, StartsFirst, Contract!Start
<1>5. CASE PluginStarts \/ PluginRefuses
  BY <1>1, <1>2, <1>5 DEF PluginStarts, PluginRefuses, HostStep, StartsFirst, Contract!StartReturns
<1>6. CASE DisposeHandle
  <2>1. plugin' = plugin /\ plugin # "starting"
        /\ (handle' = "live") = FALSE
    BY <1>6 DEF DisposeHandle, HostStep, StartsFirst
  <2>2. CASE handle = "live"
    BY <1>1, <1>2, <2>1, <2>2 DEF Contract!GiveUp
  <2>3. CASE handle # "live"
    BY <1>1, <1>2, <2>1, <2>3
  <2> QED
    BY <2>2, <2>3
<1>7. CASE ClearHandle
  BY <1>1, <1>2, <1>7 DEF ClearHandle, HostStep, HandlesAreHeld
<1>8. CASE \/ StartAsync \/ LoadFails \/ VerifyFails \/ MarkStarted \/ Subscribe \/ StartTimer
           \/ StopTimer \/ RunStop \/ StopFinishes \/ DeadlineExpires \/ Unsubscribe \/ Dispose
  <2>1. plugin' = plugin /\ handle' = handle
    BY <1>8 DEF StartAsync, LoadFails, VerifyFails, MarkStarted, Subscribe, StartTimer, StopTimer,
                RunStop, StopFinishes, DeadlineExpires, Unsubscribe, Dispose
  <2> QED
    BY <1>1, <1>2, <2>1
<1> QED
  BY <1>3, <1>4, <1>5, <1>6, <1>7, <1>8 DEF HostRuns, HostDecides

\* A call of Stop enters the plugin at most twice, and only a started one.
LEMMA StopperHonoursContract ==
  ASSUME LInv, NEW a \in Stoppers, StopRuns(a) \/ PluginStops(a)
  PROVE  [Contract!Next]_Contract!vars
<1> USE DEF LInv, Contract!Next, Contract!vars
<1>1. pc' = pc /\ handle' = handle
  BY DEF StopRuns, StopCheck, StopMark, StopCall, PluginStops
<1>2. CASE StopCheck(a) \/ StopMark(a) \/ (StopCall(a) /\ handle # "live")
  <2>1. stopper[a] # "in" /\ plugin' = plugin /\ stopCalls' = stopCalls
    BY <1>2 DEF StopCheck, StopMark, StopCall, StopStep, history
  <2>2. PICK to \in {"mark", "call", "done"} : stopper' = [stopper EXCEPT ![a] = to]
    BY <1>2 DEF StopCheck, StopMark, StopCall, StopStep
  <2>3. {b \in Stoppers : stopper'[b] = "in"} = {b \in Stoppers : stopper[b] = "in"}
    BY <2>1, <2>2 DEF TypeOK
  <2> QED
    BY <1>1, <2>1, <2>3
<1>3. CASE StopCall(a) /\ handle = "live"
  <2>1. /\ stopper[a] = "call" /\ stopper' = [stopper EXCEPT ![a] = "in"]
        /\ plugin' = "stopping" /\ stopCalls' = stopCalls + 1
    BY <1>3 DEF StopCall, StopStep
  <2>2. {b \in Stoppers : stopper'[b] = "in"} = {b \in Stoppers : stopper[b] = "in"} \cup {a}
    BY <2>1 DEF TypeOK
  <2>3. stopCalls < 2
    BY <2>1 DEF StopsInTurn, Entered, Stoppers, TypeOK
  <2>4. HasStarted
    BY <2>1 DEF StartsFirst
  <2>5. Contract!Stop(a)
    BY <1>1, <1>3, <2>1, <2>2, <2>3, <2>4 DEF Contract!Stop, Contract!Started, HasStarted
  <2> QED
    BY <2>5
<1>4. CASE PluginStops(a)
  <2>1. /\ stopper[a] = "in" /\ stopper' = [stopper EXCEPT ![a] = "done"]
        /\ plugin' = IF \E b \in Stoppers \ {a} : stopper[b] = "in" THEN "stopping" ELSE "stopped"
        /\ stopCalls' = stopCalls
    BY <1>4 DEF PluginStops, StopStep, history
  <2>2. {b \in Stoppers : stopper'[b] = "in"} = {b \in Stoppers : stopper[b] = "in"} \ {a}
    BY <2>1 DEF TypeOK
  <2>3. (\E b \in Stoppers \ {a} : stopper[b] = "in")
            <=> {b \in Stoppers : stopper'[b] = "in"} # {}
    BY <2>2
  <2>4. Contract!StopReturns(a)
    BY <1>1, <2>1, <2>2, <2>3 DEF Contract!StopReturns
  <2> QED
    BY <2>4
<1> QED
  BY <1>2, <1>3, <1>4 DEF StopRuns

\* A thread enters handle() of a started plugin, a page of any, while it is held.
LEMMA ThreadHonoursContract ==
  ASSUME LInv, NEW t \in Threads,
         Feed(t) \/ Request(t) \/ ThreadRuns(t) \/ HandleReturns(t) \/ PageReturns(t)
  PROVE  [Contract!Next]_Contract!vars
<1> USE DEF LInv, Contract!Next, Contract!vars
<1>1. UNCHANGED <<plugin, handle, stopper, stopCalls>>
  BY DEF Feed, Request, ThreadRuns, CheckStarted, CheckHandle, EnterHandle, PerformActions,
         EnterPage, HandleReturns, PageReturns, others, history
<1>2. CASE EnterHandle(t) /\ handle = "live"
  <2>1. pc[t] = "call" /\ pc' = [pc EXCEPT ![t] = "handling"]
    BY <1>2 DEF EnterHandle, ThreadStep
  <2>2. /\ {u \in Threads : pc'[u] = "handling"} = {u \in Threads : pc[u] = "handling"} \cup {t}
        /\ {u \in Threads : pc'[u] = "rendering"} = {u \in Threads : pc[u] = "rendering"} \ {t}
    BY <2>1 DEF TypeOK
  <2>3. t \notin {u \in Threads : pc[u] = "rendering"}
    BY <2>1
  <2>4. HasStarted
    BY <2>1 DEF StartsFirst
  <2>5. Contract!Handle(t)
    BY <1>1, <1>2, <2>1, <2>2, <2>3, <2>4 DEF Contract!Handle, Contract!Started, HasStarted
  <2> QED
    BY <2>5
<1>3. CASE HandleReturns(t)
  <2>1. PICK to \in {"perform", "idle"} : pc[t] = "handling" /\ pc' = [pc EXCEPT ![t] = to]
    BY <1>3 DEF HandleReturns, ThreadStep
  <2>2. /\ {u \in Threads : pc'[u] = "handling"} = {u \in Threads : pc[u] = "handling"} \ {t}
        /\ {u \in Threads : pc'[u] = "rendering"} = {u \in Threads : pc[u] = "rendering"} \ {t}
    BY <2>1 DEF TypeOK
  <2>3. t \notin {u \in Threads : pc[u] = "rendering"}
    BY <2>1
  <2>4. Contract!HandleReturns(t)
    BY <1>1, <2>1, <2>2, <2>3 DEF Contract!HandleReturns
  <2> QED
    BY <2>4
<1>4. CASE EnterPage(t) /\ handle = "live"
  <2>1. pc[t] = "pageCall" /\ pc' = [pc EXCEPT ![t] = "rendering"]
    BY <1>4 DEF EnterPage, ThreadStep
  <2>2. /\ {u \in Threads : pc'[u] = "rendering"} = {u \in Threads : pc[u] = "rendering"} \cup {t}
        /\ {u \in Threads : pc'[u] = "handling"} = {u \in Threads : pc[u] = "handling"} \ {t}
    BY <2>1 DEF TypeOK
  <2>3. t \notin {u \in Threads : pc[u] = "handling"}
    BY <2>1
  <2>4. Contract!Render(t)
    BY <1>1, <1>4, <2>1, <2>2, <2>3 DEF Contract!Render
  <2> QED
    BY <2>4
<1>5. CASE PageReturns(t)
  <2>1. pc[t] = "rendering" /\ pc' = [pc EXCEPT ![t] = "idle"]
    BY <1>5 DEF PageReturns, ThreadStep
  <2>2. /\ {u \in Threads : pc'[u] = "rendering"} = {u \in Threads : pc[u] = "rendering"} \ {t}
        /\ {u \in Threads : pc'[u] = "handling"} = {u \in Threads : pc[u] = "handling"} \ {t}
    BY <2>1 DEF TypeOK
  <2>3. t \notin {u \in Threads : pc[u] = "handling"}
    BY <2>1
  <2>4. Contract!RenderReturns(t)
    BY <1>1, <2>1, <2>2, <2>3 DEF Contract!RenderReturns
  <2> QED
    BY <2>4
<1>6. CASE \/ Feed(t) \/ Request(t) \/ CheckStarted(t) \/ CheckHandle(t) \/ PerformActions(t)
           \/ (EnterHandle(t) /\ handle # "live") \/ (EnterPage(t) /\ handle # "live")
  <2>1. PICK to \in ThreadLabels \ {"handling", "rendering"} :
            pc[t] \notin {"handling", "rendering"} /\ pc' = [pc EXCEPT ![t] = to]
    BY <1>6 DEF Feed, Request, CheckStarted, CheckHandle, PerformActions, EnterHandle, EnterPage,
                ThreadStep, Fault, ThreadLabels
  <2>2. /\ {u \in Threads : pc'[u] = "handling"} = {u \in Threads : pc[u] = "handling"}
        /\ {u \in Threads : pc'[u] = "rendering"} = {u \in Threads : pc[u] = "rendering"}
    BY <2>1 DEF TypeOK
  <2> QED
    BY <1>1, <2>2
<1> QED
  BY <1>2, <1>3, <1>4, <1>5, <1>6 DEF ThreadRuns

\* Every behaviour of runtime, service and deadline calls the plugin's methods as the
\* contract allows, for any number of threads.
THEOREM ContractHonoured == Spec => HonoursPluginContract
<1>1. Init => Contract!Init
  BY DEF Init, Contract!Init
<1>2. LInv /\ [Next]_vars => [Contract!Next]_Contract!vars
  <2> SUFFICES ASSUME LInv, [Next]_vars PROVE [Contract!Next]_Contract!vars
    OBVIOUS
  <2>1. CASE UNCHANGED vars
    BY <2>1 DEF vars, Contract!vars
  <2> QED
    BY <2>1, HostHonoursContract, StopperHonoursContract, ThreadHonoursContract
    DEF Next, PluginReturns
<1> QED
  BY <1>1, <1>2, LInvHolds, PTL DEF Spec, HonoursPluginContract, Contract!Spec
=============================================================================
