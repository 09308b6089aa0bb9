---------------------------- MODULE PluginContract ----------------------------
(***************************************************************************)
(* What the host promises the author of a plugin (trait Plugin, behind     *)
(* PluginHandle): which of its methods are called when, and which may run  *)
(* at the same time.  start() is called once and alone but for pages;      *)
(* handle() only once it has succeeded; stop() likewise, and at most twice;*)
(* no call begins once the object is given up, though calls under way may  *)
(* still end.  Everything else may overlap.                                *)
(***************************************************************************)
EXTENDS Naturals

CONSTANTS Callers, Stoppers

VARIABLES
    life,       \* how far the plugin has come
    held,       \* the host holds the object
    handling,   \* callers inside handle()
    rendering,  \* callers inside pages(), page() or settings_schema()
    stopping,   \* callers inside stop()
    stops       \* how often stop() was called

vars == <<life, held, handling, rendering, stopping, stops>>

Init ==
    /\ life = "none"
    /\ held = FALSE
    /\ handling = {} /\ rendering = {} /\ stopping = {}
    /\ stops = 0

Started == life \in {"running", "stopping", "stopped"}

\* The object is made, and asked for its metadata.
Load ==
    /\ life = "none"
    /\ life' = "loaded" /\ held' = TRUE
    /\ UNCHANGED <<handling, rendering, stopping, stops>>

Start ==
    /\ life = "loaded" /\ held
    /\ life' = "starting"
    /\ UNCHANGED <<held, handling, rendering, stopping, stops>>

\* Ok, or an error or a panic, after which it is never started again.
StartReturns ==
    /\ life = "starting"
    /\ life' \in {"running", "refused"}
    /\ UNCHANGED <<held, handling, rendering, stopping, stops>>

Handle(c) ==
    /\ Started /\ held
    /\ c \notin handling \cup rendering
    /\ handling' = handling \cup {c}
    /\ UNCHANGED <<life, held, rendering, stopping, stops>>

HandleReturns(c) ==
    /\ c \in handling
    /\ handling' = handling \ {c}
    /\ UNCHANGED <<life, held, rendering, stopping, stops>>

\* Pages are asked for as long as there is an object, started or not.
Render(c) ==
    /\ held
    /\ c \notin handling \cup rendering
    /\ rendering' = rendering \cup {c}
    /\ UNCHANGED <<life, held, handling, stopping, stops>>

RenderReturns(c) ==
    /\ c \in rendering
    /\ rendering' = rendering \ {c}
    /\ UNCHANGED <<life, held, handling, stopping, stops>>

Stop(c) ==
    /\ Started /\ held
    /\ stops < 2 /\ c \notin stopping
    /\ life' = "stopping"
    /\ stopping' = stopping \cup {c}
    /\ stops' = stops + 1
    /\ UNCHANGED <<held, handling, rendering>>

StopReturns(c) ==
    /\ c \in stopping
    /\ stopping' = stopping \ {c}
    /\ life' = IF stopping' = {} THEN "stopped" ELSE "stopping"
    /\ UNCHANGED <<held, handling, rendering, stops>>

\* Never while the plugin is being started.
GiveUp ==
    /\ held /\ life # "starting"
    /\ held' = FALSE
    /\ UNCHANGED <<life, handling, rendering, stopping, stops>>

Next ==
    \/ Load \/ Start \/ StartReturns \/ GiveUp
    \/ \E c \in Callers : Handle(c) \/ HandleReturns(c) \/ Render(c) \/ RenderReturns(c)
    \/ \E c \in Stoppers : Stop(c) \/ StopReturns(c)

Spec == Init /\ [][Next]_vars
=============================================================================
