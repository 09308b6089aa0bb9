----------------------------- MODULE PluginStore -----------------------------
(***************************************************************************)
(* What IPluginBackend promises of settings and the key/value store: a     *)
(* document that readers see and a document that survives a restart.       *)
(* Writes take turns.  One shows at once, then the whole of what is seen   *)
(* is stored; one that fails leaves the two documents apart until the next *)
(* write or restart.                                                       *)
(***************************************************************************)
CONSTANTS Writers, Slots, Contents, NoWriter

VARIABLES
    visible,  \* what readers see
    stored,   \* what a restart finds
    writer    \* whose write shows and is not yet stored

vars == <<visible, stored, writer>>

Init ==
    /\ stored \in [Slots -> Contents]
    /\ visible = stored
    /\ writer = NoWriter

\* A write of one slot takes effect for every reader at once.
Show(w, s, v) ==
    /\ writer = NoWriter
    /\ writer' = w
    /\ visible' = [visible EXCEPT ![s] = v]
    /\ UNCHANGED stored

\* It is stored with the whole document, never an older one than readers see.
Persist(w) ==
    /\ writer = w
    /\ writer' = NoWriter
    /\ stored' = visible
    /\ UNCHANGED visible

\* It fails, having been stored or not; readers go on seeing it.
Fail(w) ==
    /\ writer = w
    /\ writer' = NoWriter
    /\ stored' \in {stored, visible}
    /\ UNCHANGED visible

\* A restart shows what was stored.
Restart ==
    /\ writer' = NoWriter
    /\ visible' = stored
    /\ UNCHANGED stored

Next ==
    \/ \E w \in Writers :
          \/ \E s \in Slots, v \in Contents : Show(w, s, v)
          \/ Persist(w) \/ Fail(w)
    \/ Restart

Spec == Init /\ [][Next]_vars
=============================================================================
