--------------------------- MODULE SettingsBackend ---------------------------
(***************************************************************************)
(* SettingsRepositoryBackend: a plugin's settings and key/value store, one *)
(* document in BTCPay's ISettingsRepository, cached in memory, written     *)
(* whole.  Threads of the plugin, BTCPay's timer and request threads call  *)
(* it at the same time; a SemaphoreSlim(1, 1) serialises loads and writes, *)
(* reads of a loaded document take no lock.                                *)
(*                                                                         *)
(* One action is one step of one caller between two points where another   *)
(* thread can run.  The database is external: a fetch or an update may     *)
(* throw, and an update that throws may or may not have been committed.    *)
(* The process may crash and restart at any point.                         *)
(*                                                                         *)
(* A definition named X_Something is X with a bug in it, for the mutants.  *)
(***************************************************************************)
CONSTANTS
    Callers,       \* threads calling the backend
    SettingKeys,   \* keys of PluginState.Settings
    StoreKeys,     \* keys of PluginState.Store
    Values,        \* strings held by either dictionary
    Absent,        \* TryGetValue found nothing
    Nobody,        \* the semaphore is free
    NoDocument,    \* a null PluginState reference
    Nothing        \* no call, no answer, no promise

Slots == SettingKeys \cup StoreKeys
Contents == Values \cup {Absent}
Documents == [Slots -> Contents]
Calls == [slot : Slots, write : BOOLEAN, value : Contents]

ASSUME KeysAssumption == SettingKeys \cap StoreKeys = {}
ASSUME AbsentAssumption == Absent \notin Values
ASSUME NobodyAssumption == Nobody \notin Callers
ASSUME NoDocumentAssumption == NoDocument \notin Documents
ASSUME NothingAssumption == Nothing \notin Contents

VARIABLES
    db,        \* the stored document
    cache,     \* _cache
    gate,      \* who holds _gate
    pc,        \* where each caller stands
    call,      \* the arguments of the call in progress
    doc,       \* the document it fetched, or the snapshot it is storing
    answer,    \* what its last read returned
    promised   \* history: what the last acknowledged write of a slot stored,
               \* Nothing once another write of that slot has begun

vars == <<db, cache, gate, pc, call, doc, answer, promised>>

\* Inside _gate: from a successful Wait to the Release in the finally block.
Critical == {"fill", "fetched", "change", "changing", "save", "commit",
             "release", "unwind"}
Labels == {"idle", "check", "wait", "lookup"} \cup Critical

\* What the next reader will be shown, loading the document if need be.
Visible == IF cache = NoDocument THEN db ELSE cache

Goto(c, label) == pc' = [pc EXCEPT ![c] = label]

Return(c) == Goto(c, "idle") /\ call' = [call EXCEPT ![c] = Nothing]

Init ==
    /\ db \in Documents
    /\ cache = NoDocument
    /\ gate = Nobody
    /\ pc = [c \in Callers |-> "idle"]
    /\ call = [c \in Callers |-> Nothing]
    /\ doc = [c \in Callers |-> NoDocument]
    /\ answer = [c \in Callers |-> Nothing]
    /\ promised = db

-----------------------------------------------------------------------------
(* The five operations of IPluginBackend that touch the document.          *)

Begin(c, label, slot, write, value) ==
    /\ pc[c] = "idle"
    /\ Goto(c, label)
    /\ call' = [call EXCEPT ![c] = [slot |-> slot, write |-> write, value |-> value]]
    /\ answer' = [answer EXCEPT ![c] = Nothing]
    /\ UNCHANGED <<db, cache, gate, doc, promised>>

GetSetting(c) == \E k \in SettingKeys : Begin(c, "check", k, FALSE, Absent)
SetSetting_Null(c) == \E k \in SettingKeys : Begin(c, "wait", k, TRUE, Nothing)
SetSetting(c) == \E k \in SettingKeys, v \in Values : Begin(c, "wait", k, TRUE, v)
StoreGet(c)   == \E k \in StoreKeys : Begin(c, "check", k, FALSE, Absent)
StorePut(c)   == \E k \in StoreKeys, v \in Values : Begin(c, "wait", k, TRUE, v)
StoreDelete(c) == \E k \in StoreKeys : Begin(c, "wait", k, TRUE, Absent)

NewCall(c) == GetSetting(c) \/ SetSetting(c) \/ StoreGet(c) \/ StorePut(c) \/ StoreDelete(c)

-----------------------------------------------------------------------------
(* Load, and the part of Mutate that loads.                                *)

\* if (_cache is not null) return _cache;   -- before taking the gate
FastPath(c) ==
    /\ pc[c] = "check"
    /\ Goto(c, IF cache # NoDocument THEN "lookup" ELSE "wait")
    /\ UNCHANGED <<db, cache, gate, call, doc, answer, promised>>

\* _gate.Wait()
Enter_Unguarded(c) ==
    /\ pc[c] = "wait"
    /\ gate' = c
    /\ Goto(c, "fill")
    /\ UNCHANGED <<db, cache, call, doc, answer, promised>>
Enter(c) ==
    /\ pc[c] = "wait"
    /\ gate = Nobody
    /\ gate' = c
    /\ Goto(c, "fill")
    /\ UNCHANGED <<db, cache, call, doc, answer, promised>>

AfterLoad(c) == IF call[c].write THEN "change" ELSE "release"

\* _cache ??= ... : someone else filled it while this caller waited
AlreadyFilled(c) ==
    /\ pc[c] = "fill"
    /\ cache # NoDocument
    /\ Goto(c, AfterLoad(c))
    /\ UNCHANGED <<db, cache, gate, call, doc, answer, promised>>

\* GetSettingAsync, an absent row being an empty PluginState
Fetch(c) ==
    /\ pc[c] = "fill"
    /\ cache = NoDocument
    /\ doc' = [doc EXCEPT ![c] = db]
    /\ Goto(c, "fetched")
    /\ UNCHANGED <<db, cache, gate, call, answer, promised>>

FetchFails(c) ==
    /\ pc[c] = "fill"
    /\ cache = NoDocument
    /\ Goto(c, "unwind")
    /\ UNCHANGED <<db, cache, gate, call, doc, answer, promised>>

Assign(c) ==
    /\ pc[c] = "fetched"
    /\ cache' = doc[c]
    /\ Goto(c, AfterLoad(c))
    /\ UNCHANGED <<db, gate, call, doc, answer, promised>>

-----------------------------------------------------------------------------
(* The rest of Mutate: change the cached object in place, store it whole.  *)

\* From here until ChangeEnd the dictionary is being modified.
ChangeBegin(c) ==
    /\ pc[c] = "change"
    /\ Goto(c, "changing")
    /\ promised' = [promised EXCEPT ![call[c].slot] = Nothing]
    /\ UNCHANGED <<db, cache, gate, call, doc, answer>>

ChangeEnd_Rebuilds(c) ==
    /\ pc[c] = "changing"
    /\ cache' = [s \in Slots |-> IF s = call[c].slot THEN call[c].value ELSE Absent]
    /\ Goto(c, "save")
    /\ UNCHANGED <<db, gate, call, doc, answer, promised>>
ChangeEnd(c) ==
    /\ pc[c] = "changing"
    /\ cache' = [cache EXCEPT ![call[c].slot] = call[c].value]
    /\ Goto(c, "save")
    /\ UNCHANGED <<db, gate, call, doc, answer, promised>>

\* UpdateSetting serialises the document, then commits what it serialised.
Serialize_OnlyChange(c) ==
    /\ pc[c] = "save"
    /\ doc' = [doc EXCEPT ![c] = [db EXCEPT ![call[c].slot] = call[c].value]]
    /\ Goto(c, "commit")
    /\ UNCHANGED <<db, cache, gate, call, answer, promised>>
Serialize(c) ==
    /\ pc[c] = "save"
    /\ doc' = [doc EXCEPT ![c] = cache]
    /\ Goto(c, "commit")
    /\ UNCHANGED <<db, cache, gate, call, answer, promised>>

Commit(c) ==
    /\ pc[c] = "commit"
    /\ db' = doc[c]
    /\ Goto(c, "release")
    /\ UNCHANGED <<cache, gate, call, doc, answer, promised>>

\* The connection is lost before or after the commit; the cache is not undone.
CommitFails(c) ==
    /\ pc[c] = "commit"
    /\ db' \in {db, doc[c]}
    /\ Goto(c, "unwind")
    /\ UNCHANGED <<cache, gate, call, doc, answer, promised>>

-----------------------------------------------------------------------------
(* The finally blocks, the unlocked lookup, and a restart.                 *)

\* finally { _gate.Release(); } after a normal end: a write is acknowledged.
Release(c) ==
    /\ pc[c] = "release"
    /\ gate' = Nobody
    /\ doc' = [doc EXCEPT ![c] = NoDocument]
    /\ IF call[c].write
         THEN /\ Return(c)
              /\ promised' = [promised EXCEPT ![call[c].slot] = call[c].value]
         ELSE /\ Goto(c, "lookup")
              /\ UNCHANGED <<call, promised>>
    /\ UNCHANGED <<db, cache, answer>>

\* The same finally, with an exception on its way to the caller.
Unwind_KeepsGate(c) ==
    /\ pc[c] = "unwind"
    /\ doc' = [doc EXCEPT ![c] = NoDocument]
    /\ Return(c)
    /\ UNCHANGED <<db, cache, gate, answer, promised>>
Unwind(c) ==
    /\ pc[c] = "unwind"
    /\ gate' = Nobody
    /\ doc' = [doc EXCEPT ![c] = NoDocument]
    /\ Return(c)
    /\ UNCHANGED <<db, cache, answer, promised>>

\* Both slots live in the same Dictionary object.
SameDictionary(s, t) == (s \in SettingKeys) <=> (t \in SettingKeys)

\* An insertion (which may resize) or a removal is under way in the dictionary
\* of slot s.  Replacing the value of a present key moves nothing.
Unstable(s) ==
    \E c \in Callers :
        /\ pc[c] = "changing"
        /\ SameDictionary(s, call[c].slot)
        /\ (call[c].value = Absent) # (cache[call[c].slot] = Absent)

\* TryGetValue on the shared document, outside the gate: a Dictionary read while
\* another thread inserts or removes may miss a key that is there.
Lookup(c) ==
    /\ pc[c] = "lookup"
    /\ \E found \in {cache[call[c].slot]} \cup (IF Unstable(call[c].slot) THEN {Absent} ELSE {}) :
            answer' = [answer EXCEPT ![c] = found]
    /\ Return(c)
    /\ UNCHANGED <<db, cache, gate, doc, promised>>

\* A new process: only the database survives.
Restart ==
    /\ cache' = NoDocument
    /\ gate' = Nobody
    /\ pc' = [c \in Callers |-> "idle"]
    /\ call' = [c \in Callers |-> Nothing]
    /\ doc' = [c \in Callers |-> NoDocument]
    /\ answer' = [c \in Callers |-> Nothing]
    /\ UNCHANGED <<db, promised>>

\* What a caller's thread does once called; it never stops half-way.
Step(c) ==
    \/ FastPath(c) \/ Enter(c) \/ AlreadyFilled(c)
    \/ Fetch(c) \/ FetchFails(c) \/ Assign(c)
    \/ ChangeBegin(c) \/ ChangeEnd(c)
    \/ Serialize(c) \/ Commit(c) \/ CommitFails(c)
    \/ Release(c) \/ Unwind(c) \/ Lookup(c)

Next == (\E c \in Callers : NewCall(c) \/ Step(c)) \/ Restart

Spec == Init /\ [][Next]_vars

\* A thread inside the backend keeps running, and the database answers or
\* throws.  Nothing is assumed about which waiter a semaphore lets in.
LiveSpec == Spec /\ \A c \in Callers : WF_vars(Step(c))

-----------------------------------------------------------------------------
(* Properties.                                                             *)

\* Every variable has its type.
TypeOK ==
    /\ db \in Documents
    /\ cache \in Documents \cup {NoDocument}
    /\ gate \in Callers \cup {Nobody}
    /\ pc \in [Callers -> Labels]
    /\ call \in [Callers -> Calls \cup {Nothing}]
    /\ doc \in [Callers -> Documents \cup {NoDocument}]
    /\ answer \in [Callers -> Contents \cup {Nothing}]
    /\ promised \in [Slots -> Contents \cup {Nothing}]

\* A write that SetSetting, StorePut or StoreDelete acknowledged is both stored
\* and visible until another write of the same key begins: no concurrent load,
\* no write of another key, no failure and no restart undoes it.
AcknowledgedWritesHold ==
    \A s \in Slots :
        promised[s] # Nothing => db[s] = promised[s] /\ Visible[s] = promised[s]

\* The semaphore cannot leak: whoever holds it gives it back, whatever threw.
GateIsReleased == \A c \in Callers : (gate = c) ~> (gate # c)

\* No caller waits for ever unless new calls keep overtaking it: once no new
\* calls arrive, every call in progress returns.
QuietCallsReturn ==
    (\A c \in Callers : []<>(pc[c] = "idle")) \/ []<><<\E c \in Callers : NewCall(c)>>_vars

\* A read of a key whose value is acknowledged and that nobody is writing answers
\* with that value, never with a stale or foreign one; it may miss, but only while
\* another key of the same dictionary is being inserted or removed.
ReadsAreCurrentOrMiss ==
    [][\A c \in Callers :
           answer'[c] # answer[c] /\ answer'[c] # Nothing /\ promised[call[c].slot] # Nothing
               => \/ answer'[c] = promised[call[c].slot]
                  \/ answer'[c] = Absent /\ Unstable(call[c].slot)]_vars

(* Why AcknowledgedWritesHold is kept: what each caller inside the gate      *)
(* knows of the cache, the database and the promises.                      *)

GateIsExclusive == \A c \in Callers : pc[c] \in Critical <=> gate = c

CallsAreKnown == \A c \in Callers : pc[c] # "idle" => call[c] \in Calls

Mutating == {"change", "changing", "save", "commit"}

DocumentsAreCurrent ==
    \A c \in Callers :
        /\ pc[c] \in Mutating \cup {"release", "lookup"} => cache # NoDocument
        /\ pc[c] = "fetched" => cache = NoDocument /\ doc[c] = db
        /\ pc[c] = "commit" => doc[c] = cache
        /\ pc[c] \in Mutating => call[c].write

WritesInProgress ==
    \A c \in Callers :
        /\ pc[c] \in {"changing", "save", "commit"} => promised[call[c].slot] = Nothing
        /\ pc[c] \in {"save", "commit"} => cache[call[c].slot] = call[c].value
        /\ pc[c] = "release" /\ call[c].write =>
               cache = db /\ db[call[c].slot] = call[c].value

\* The inductive invariant: AcknowledgedWritesHold follows from nothing less,
\* because a Commit keeps it only if the snapshot is the cache, which needs the
\* gate to be exclusive.
IInv ==
    /\ TypeOK
    /\ GateIsExclusive
    /\ CallsAreKnown
    /\ DocumentsAreCurrent
    /\ WritesInProgress
    /\ AcknowledgedWritesHold

-----------------------------------------------------------------------------
(* What the backend promises, without threads, cache or semaphore.         *)

\* The caller whose change is in the cache and not yet committed.
Writing == IF gate # Nobody /\ pc[gate] \in {"save", "commit"} THEN gate ELSE Nobody

Store == INSTANCE PluginStore
             WITH Writers <- Callers, NoWriter <- Nobody,
                  visible <- Visible, stored <- db, writer <- Writing

\* The backend implements PluginStore: writes take turns, loading the document is
\* invisible, a save stores exactly what is visible, and only a restart takes
\* anything back.
ImplementsPluginStore == Store!Spec
=============================================================================
