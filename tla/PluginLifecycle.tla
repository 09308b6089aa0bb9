--------------------------- MODULE PluginLifecycle ---------------------------
(***************************************************************************)
(* The life of one plugin: RustPluginHostedService drives                  *)
(* RustPluginRuntime.Start, Stop and Dispose from BTCPay's host thread,    *)
(* while timer callbacks, invoice events and web requests call Dispatch    *)
(* and Page on threads of their own.  None of these takes a lock, so every *)
(* read of _started or _handle is a step of its own.                       *)
(*                                                                         *)
(* Plugin code (start, stop, handle, pages and page) may take for ever:    *)
(* its returns are actions without fairness.  The host is external: it     *)
(* calls StartAsync once, later StopAsync, then Dispose; it may also       *)
(* dispose a service it never stopped, when another service fails to start.*)
(*                                                                         *)
(* A definition named X_Something is X with a bug in it, for the mutants.  *)
(***************************************************************************)
EXTENDS Naturals

CONSTANTS
    TickThreads,      \* pool threads that run timer callbacks
    InvoiceThreads,   \* threads that publish invoice events
    RequestThreads    \* web request threads

Feeders == TickThreads \cup InvoiceThreads
Threads == Feeders \cup RequestThreads

ASSUME ThreadsAssumption ==
    TickThreads \cap InvoiceThreads = {} /\ Feeders \cap RequestThreads = {}

VARIABLES
    host,        \* where BTCPay's host thread is in StartAsync, StopAsync, Dispose
    handle,      \* _handle: null, a live object or a disposed one
    started,     \* _started
    subscribed,  \* _subscriptions is not empty
    ticking,     \* _tick is running
    plugin,      \* what the plugin has been asked to do and answered
    stopper,     \* the two calls of Stop: the deadline's task and Dispose's own
    pc,          \* where each calling thread is
    abandoned,   \* history: the deadline expired before the task finished
    stopCalls    \* history: how often Plugin::stop was entered

vars == <<host, handle, started, subscribed, ticking, plugin, stopper, pc,
          abandoned, stopCalls>>

Stoppers == {"task", "dispose"}

HostLabels == {"new", "load", "verify", "starting", "mark", "subscribe", "timer",
               "up", "startFailed", "untick", "run", "waiting", "stopped",
               "joining", "clearing", "disposed"}
StopLabels == {"none", "check", "mark", "call", "in", "done"}
ThreadLabels == {"idle", "check", "call", "handling", "perform",
                 "pageCheck", "pageCall", "rendering", "faulted"}

Init ==
    /\ host = "new"
    /\ handle = "null"
    /\ started = FALSE
    /\ subscribed = FALSE
    /\ ticking = FALSE
    /\ plugin = "none"
    /\ stopper = [a \in Stoppers |-> "none"]
    /\ pc = [t \in Threads |-> "idle"]
    /\ abandoned = FALSE
    /\ stopCalls = 0

feeding == <<subscribed, ticking>>
history == <<abandoned, stopCalls>>

-----------------------------------------------------------------------------
(* StartAsync.                                                             *)

HostStep(from, to) == host = from /\ host' = to

\* if (_started) return;
StartAsync ==
    /\ HostStep("new", IF started THEN "subscribe" ELSE "load")
    /\ UNCHANGED <<handle, started, feeding, plugin, stopper, pc, history>>

\* NativeLoader.Initialize or the PluginHandle constructor throws
LoadFails ==
    /\ HostStep("load", "startFailed")
    /\ UNCHANGED <<handle, started, feeding, plugin, stopper, pc, history>>

\* _handle = new PluginHandle(); Metadata = _handle.Metadata();
CreateHandle ==
    /\ HostStep("load", "verify")
    /\ handle' = "live"
    /\ plugin' = "loaded"
    /\ UNCHANGED <<started, feeding, stopper, pc, history>>

\* VerifyIdentity throws (or Metadata did): the handle is left in place.
VerifyFails ==
    /\ HostStep("verify", "startFailed")
    /\ UNCHANGED <<handle, started, feeding, plugin, stopper, pc, history>>

\* _handle.Start(_services)
CallStart_MarksEarly ==
    /\ HostStep("verify", "starting")
    /\ plugin' = "starting"
    /\ started' = TRUE
    /\ UNCHANGED <<handle, feeding, stopper, pc, history>>
CallStart ==
    /\ HostStep("verify", "starting")
    /\ plugin' = "starting"
    /\ UNCHANGED <<handle, started, feeding, stopper, pc, history>>

PluginStarts ==
    /\ HostStep("starting", "mark")
    /\ plugin' = "running"
    /\ UNCHANGED <<handle, started, feeding, stopper, pc, history>>

\* An error or a contained panic becomes PluginLoadException; the handle stays.
PluginRefuses ==
    /\ HostStep("starting", "startFailed")
    /\ plugin' = "refused"
    /\ UNCHANGED <<handle, started, feeding, stopper, pc, history>>

MarkStarted ==
    /\ HostStep("mark", "subscribe")
    /\ started' = TRUE
    /\ UNCHANGED <<handle, feeding, plugin, stopper, pc, history>>

Subscribe ==
    /\ HostStep("subscribe", "timer")
    /\ subscribed' = TRUE
    /\ UNCHANGED <<handle, started, ticking, plugin, stopper, pc, history>>

\* if (_tickInterval > TimeSpan.Zero)
StartTimer ==
    /\ HostStep("timer", "up")
    /\ ticking' \in BOOLEAN
    /\ UNCHANGED <<handle, started, subscribed, plugin, stopper, pc, history>>

-----------------------------------------------------------------------------
(* StopAsync and Dispose.                                                  *)

\* The host stops every service, one that failed to start included.
Unsubscribe ==
    /\ host \in {"up", "startFailed"}
    /\ host' = "untick"
    /\ subscribed' = FALSE
    /\ UNCHANGED <<handle, started, ticking, plugin, stopper, pc, history>>

\* _tick?.Dispose() waits for no callback that is already running or queued.
StopTimer ==
    /\ HostStep("untick", "run")
    /\ ticking' = FALSE
    /\ UNCHANGED <<handle, started, subscribed, plugin, stopper, pc, history>>

\* Deadline.RunAsync(_runtime.Stop, ...): Task.Run, then WhenAny
RunStop ==
    /\ HostStep("run", "waiting")
    /\ stopper' = [stopper EXCEPT !["task"] = "check"]
    /\ UNCHANGED <<handle, started, feeding, plugin, pc, history>>

StopFinishes ==
    /\ HostStep("waiting", "stopped")
    /\ stopper["task"] = "done"
    /\ UNCHANGED <<handle, started, feeding, plugin, stopper, pc, history>>

DeadlineExpires_Never == StopFinishes
DeadlineExpires ==
    /\ HostStep("waiting", "stopped")
    /\ stopper["task"] # "done"
    /\ abandoned' = TRUE
    /\ UNCHANGED <<handle, started, feeding, plugin, stopper, pc, stopCalls>>

\* Dispose: _tick?.Dispose(), then RustPluginRuntime.Dispose calls Stop inline.
Dispose ==
    /\ host \in {"up", "startFailed", "stopped"}
    /\ host' = "joining"
    /\ ticking' = FALSE
    /\ stopper' = [stopper EXCEPT !["dispose"] = "check"]
    /\ UNCHANGED <<handle, started, subscribed, plugin, pc, history>>

\* _handle?.Dispose()
DisposeHandle ==
    /\ HostStep("joining", "clearing")
    /\ stopper["dispose"] = "done"
    /\ handle' = IF handle = "null" THEN "null" ELSE "disposed"
    /\ UNCHANGED <<started, feeding, plugin, stopper, pc, history>>

ClearHandle ==
    /\ HostStep("clearing", "disposed")
    /\ handle' = "null"
    /\ UNCHANGED <<started, feeding, plugin, stopper, pc, history>>

-----------------------------------------------------------------------------
(* RustPluginRuntime.Stop, called by the deadline's task and by Dispose.   *)

StopStep(a, from, to) == stopper[a] = from /\ stopper' = [stopper EXCEPT ![a] = to]

\* if (!_started || _handle is null) return;
StopCheck_Handle(a) ==
    /\ StopStep(a, "check", IF handle # "null" THEN "mark" ELSE "done")
    /\ UNCHANGED <<host, handle, started, feeding, plugin, pc, history>>
StopCheck(a) ==
    /\ StopStep(a, "check", IF started /\ handle # "null" THEN "mark" ELSE "done")
    /\ UNCHANGED <<host, handle, started, feeding, plugin, pc, history>>

StopMark_Forgets(a) ==
    /\ StopStep(a, "mark", "call")
    /\ UNCHANGED <<host, handle, started, feeding, plugin, pc, history>>
StopMark(a) ==
    /\ StopStep(a, "mark", "call")
    /\ started' = FALSE
    /\ UNCHANGED <<host, handle, feeding, plugin, pc, history>>

\* _handle.Stop(): a handle gone in the meantime throws, and Stop catches it.
StopCall(a) ==
    IF handle = "live"
      THEN /\ StopStep(a, "call", "in")
           /\ plugin' = "stopping"
           /\ stopCalls' = stopCalls + 1
           /\ UNCHANGED <<host, handle, started, feeding, pc, abandoned>>
      ELSE /\ StopStep(a, "call", "done")
           /\ UNCHANGED <<host, handle, started, feeding, plugin, pc, history>>

\* The plugin's stop returns, or panics into its guard.
PluginStops_Retried(a) ==
    /\ \E to \in {"done", "call"} : StopStep(a, "in", to)
    /\ UNCHANGED <<host, handle, started, feeding, plugin, pc, history>>
PluginStops(a) ==
    /\ StopStep(a, "in", "done")
    /\ plugin' = IF \E b \in Stoppers \ {a} : stopper[b] = "in" THEN "stopping" ELSE "stopped"
    /\ UNCHANGED <<host, handle, started, feeding, pc, history>>

-----------------------------------------------------------------------------
(* Dispatch and Page, from any thread.                                     *)

ThreadStep(t, from, to) == pc[t] = from /\ pc' = [pc EXCEPT ![t] = to]

others == <<host, handle, started, feeding, plugin, stopper, history>>

\* The timer queues a callback, or an event is published to its subscribers:
\* from here the callback runs even if its source is disposed meanwhile.
Feed(t) ==
    /\ \/ t \in TickThreads /\ ticking
       \/ t \in InvoiceThreads /\ subscribed
    /\ ThreadStep(t, "idle", "check")
    /\ UNCHANGED others

\* A submitted form or command (Dispatch), or a page or menu being rendered.
Request(t) ==
    /\ t \in RequestThreads
    /\ \E from \in {"idle", "faulted"}, to \in {"check", "pageCheck"} : ThreadStep(t, from, to)
    /\ UNCHANGED others

\* if (!_started || _handle is null) return [];
CheckStarted(t) ==
    /\ ThreadStep(t, "check", IF started /\ handle # "null" THEN "call" ELSE "idle")
    /\ UNCHANGED others

\* if (_handle is null) return [] or null;
CheckHandle_Unchecked(t) ==
    /\ ThreadStep(t, "pageCheck", "pageCall")
    /\ UNCHANGED others
CheckHandle(t) ==
    /\ ThreadStep(t, "pageCheck", IF handle # "null" THEN "pageCall" ELSE "idle")
    /\ UNCHANGED others

\* An exception other than PluginException: SafeDispatch logs it for the timer and
\* the event loop, a request fails with it.
Fault(t) == IF t \in Feeders THEN "idle" ELSE "faulted"

\* _handle.Handle(hostEvent)
EnterHandle(t) ==
    /\ ThreadStep(t, "call", IF handle = "live" THEN "handling" ELSE Fault(t))
    /\ UNCHANGED others

\* Actions to carry out, or a PluginException and none.
HandleReturns(t) ==
    /\ \E to \in {"perform", "idle"} : ThreadStep(t, "handling", to)
    /\ UNCHANGED others

\* foreach (var action in actions) Perform(action); Perform throws nothing.
PerformActions(t) ==
    /\ ThreadStep(t, "perform", "idle")
    /\ UNCHANGED others

EnterPage_Uncounted(t) ==
    /\ ThreadStep(t, "pageCall", IF handle # "null" THEN "rendering" ELSE Fault(t))
    /\ UNCHANGED others
EnterPage(t) ==
    /\ ThreadStep(t, "pageCall", IF handle = "live" THEN "rendering" ELSE Fault(t))
    /\ UNCHANGED others

PageReturns(t) ==
    /\ ThreadStep(t, "rendering", "idle")
    /\ UNCHANGED others

-----------------------------------------------------------------------------
\* Steps of the host thread between two returns of plugin code.
HostRuns ==
    \/ StartAsync \/ LoadFails \/ CreateHandle \/ VerifyFails \/ CallStart
    \/ MarkStarted \/ Subscribe \/ StartTimer
    \/ StopTimer \/ RunStop \/ StopFinishes \/ DeadlineExpires
    \/ DisposeHandle \/ ClearHandle

\* Decisions of the host's owner.
HostDecides == Unsubscribe \/ Dispose

StopRuns(a) == StopCheck(a) \/ StopMark(a) \/ StopCall(a)

ThreadRuns(t) ==
    \/ CheckStarted(t) \/ CheckHandle(t) \/ EnterHandle(t)
    \/ PerformActions(t) \/ EnterPage(t)

\* Returns of plugin code, which may never come.
PluginReturns ==
    \/ PluginStarts \/ PluginRefuses
    \/ \E a \in Stoppers : PluginStops(a)
    \/ \E t \in Threads : HandleReturns(t) \/ PageReturns(t)

Next ==
    \/ HostRuns \/ HostDecides \/ PluginReturns
    \/ \E a \in Stoppers : StopRuns(a)
    \/ \E t \in Threads : Feed(t) \/ Request(t) \/ ThreadRuns(t)

Spec == Init /\ [][Next]_vars

\* Threads keep running, the pool starts a queued task, a delay elapses.  Plugin
\* code is promised nothing: it may hang in any call.
LiveSpec ==
    /\ Spec
    /\ WF_vars(HostRuns)
    /\ \A a \in Stoppers : WF_vars(StopRuns(a))
    /\ \A t \in Threads : WF_vars(ThreadRuns(t))

-----------------------------------------------------------------------------
(* Properties.                                                             *)

\* Every variable has its type.
TypeOK ==
    /\ host \in HostLabels
    /\ handle \in {"null", "live", "disposed"}
    /\ started \in BOOLEAN /\ subscribed \in BOOLEAN /\ ticking \in BOOLEAN
    /\ plugin \in {"none", "loaded", "starting", "running", "refused", "stopping", "stopped"}
    /\ stopper \in [Stoppers -> StopLabels]
    /\ pc \in [Threads -> ThreadLabels]
    /\ abandoned \in BOOLEAN
    /\ stopCalls \in 0..2

\* Neither handle() nor stop() is ever called on a plugin whose start() has not
\* returned successfully, however requests race the start.
OnlyAfterStart ==
    (\/ \E t \in Threads : pc[t] = "handling"
     \/ stopCalls > 0) => plugin \in {"running", "stopping", "stopped"}

\* A deadline that did not expire leaves Dispose nothing to stop: the plugin's
\* stop() runs at most once.
StopsOnceUnlessAbandoned == ~ abandoned => stopCalls <= 1

\* A request fails with an exception only while or after the service is disposed: no
\* start, failed or under way, no stop and no deadline makes one fail.
FailsOnlyOnceDisposing ==
    (\E t \in Threads : pc[t] = "faulted") => host \in {"clearing", "disposed"}

\* StopAsync returns whatever the plugin does, hanging in stop() included.
StopAsyncReturns == host = "waiting" ~> host = "stopped"

\* Once a Stop has marked the plugin stopped, disposing it blocks on nothing, even
\* though the abandoned stop() still hangs.
DisposeReturnsOnceStopped ==
    (host = "joining" /\ stopper["dispose"] = "check" /\ ~ started) ~> host = "disposed"

\* After StopAsync, deliveries that had passed the check run out: from some point
\* on no event enters the plugin.
DeliveryCeases ==
    <>(host = "stopped") => <>[][\A t \in Threads : ~ (pc[t] = "call" /\ pc'[t] = "handling")]_vars

\* The plugin's methods are called as its author is promised, whatever threads,
\* failures, deadlines and disposal do: see PluginContract.
Contract == INSTANCE PluginContract
                WITH Callers <- Threads, life <- plugin, held <- (handle = "live"),
                     handling <- {t \in Threads : pc[t] = "handling"},
                     rendering <- {t \in Threads : pc[t] = "rendering"},
                     stopping <- {a \in Stoppers : stopper[a] = "in"},
                     stops <- stopCalls
HonoursPluginContract == Contract!Spec

(* Why the three invariants are kept, and the contract honoured.           *)

\* start() has returned successfully.
HasStarted == plugin \in {"running", "stopping", "stopped"}

StartsFirst ==
    /\ host \in {"new", "load"} => plugin = "none"
    /\ host = "verify" => plugin = "loaded" /\ handle = "live"
    /\ host = "starting" <=> plugin = "starting"
    /\ host \in {"new", "load", "verify", "starting"} => ~ HasStarted
    /\ host \in {"mark", "subscribe"} => HasStarted
    /\ started => HasStarted
    /\ stopCalls > 0 => HasStarted
    /\ \A t \in Threads : pc[t] \in {"call", "handling"} => HasStarted
    /\ \A a \in Stoppers : stopper[a] \in {"mark", "call", "in"} => HasStarted

\* The number of Stops that may have entered the plugin's stop().
Entered(a) == IF stopper[a] \in {"in", "done"} THEN 1 ELSE 0

StopsInTurn ==
    /\ stopCalls <= Entered("task") + Entered("dispose")
    /\ stopper["dispose"] # "none" => host \in {"joining", "clearing", "disposed"}
    /\ stopper["task"] # "none" =>
           host \in {"waiting", "stopped", "joining", "clearing", "disposed"}
    /\ ~ abandoned /\ host \in {"stopped", "joining", "clearing", "disposed"} =>
           stopper["task"] \in {"none", "done"}
    /\ started => host \notin {"new", "load", "verify", "starting", "mark"} /\ stopCalls = 0
    /\ \A a \in Stoppers :
           /\ stopper[a] \in {"call", "in"} => ~ started
           /\ ~ abandoned /\ stopper[a] \in {"mark", "call"} => stopCalls = 0

\* A thread that found a handle finds one still, or the service disposed.
HandlesAreHeld ==
    /\ handle = "disposed" => host = "clearing"
    /\ host \in {"clearing", "disposed"} => handle # "live"
    /\ host # "disposed" =>
           \A t \in Threads : pc[t] \in {"call", "pageCall"} => handle # "null"

\* The inductive invariant.
LInv ==
    /\ TypeOK
    /\ StartsFirst
    /\ StopsInTurn
    /\ StopsOnceUnlessAbandoned
    /\ HandlesAreHeld
    /\ FailsOnlyOnceDisposing

-----------------------------------------------------------------------------
(* What the code's comments say and the code does not keep.                *)

\* RustPluginHostedService.StopAsync: "stop feeding events first, then stop the
\* plugin, so nothing is delivered to a plugin that is shutting down."
NothingDeliveredWhileStopping ==
    [][\A t \in Feeders :
           host = "waiting" /\ pc[t] = "call" /\ pc'[t] = "handling" => plugin = "running"]_vars
=============================================================================
