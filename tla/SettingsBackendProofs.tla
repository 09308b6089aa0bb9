------------------------ MODULE SettingsBackendProofs ------------------------
(***************************************************************************)
(* Proofs about SettingsBackend, for any callers, keys and values.         *)
(***************************************************************************)
EXTENDS SettingsBackend, TLAPS

LEMMA InitEstablishesIInv == Init => IInv
<1> SUFFICES ASSUME Init PROVE IInv
  OBVIOUS
<1>1. TypeOK
  BY DEF Init, TypeOK, Labels, Documents
<1>2. GateIsExclusive
  BY NobodyAssumption DEF Init, GateIsExclusive, Critical
<1>3. CallsAreKnown /\ DocumentsAreCurrent /\ WritesInProgress
  BY DEF Init, CallsAreKnown, DocumentsAreCurrent, WritesInProgress, Mutating
<1>4. AcknowledgedWritesHold
  BY DEF Init, AcknowledgedWritesHold, Visible
<1> QED
  BY <1>1, <1>2, <1>3, <1>4 DEF IInv

\* A call on an idle thread.
LEMMA NewCallKeepsIInv ==
  ASSUME IInv, NEW c \in Callers, NewCall(c)
  PROVE  IInv'
<1>1. PICK label \in {"check", "wait"}, x \in Calls :
        /\ pc[c] = "idle"
        /\ pc' = [pc EXCEPT ![c] = label]
        /\ call' = [call EXCEPT ![c] = x]
        /\ answer' = [answer EXCEPT ![c] = Nothing]
        /\ UNCHANGED <<db, cache, gate, doc, promised>>
  BY DEF NewCall, GetSetting, SetSetting, StoreGet, StorePut, StoreDelete, Begin, Goto,
         Calls, Slots, Contents
<1>2. TypeOK'
  BY <1>1 DEF IInv, TypeOK, Labels
<1>3. GateIsExclusive'
  BY <1>1 DEF IInv, TypeOK, GateIsExclusive, Critical
<1>4. CallsAreKnown'
  BY <1>1 DEF IInv, TypeOK, CallsAreKnown
<1>5. DocumentsAreCurrent' /\ WritesInProgress'
  BY <1>1 DEF IInv, TypeOK, DocumentsAreCurrent, WritesInProgress, Mutating
<1>6. AcknowledgedWritesHold'
  BY <1>1 DEF IInv, AcknowledgedWritesHold, Visible
<1> QED
  BY <1>2, <1>3, <1>4, <1>5, <1>6 DEF IInv

\* The steps that move only the program counter, and Enter, which takes the gate.
LEMMA ControlStepKeepsIInv ==
  ASSUME IInv, NEW c \in Callers,
         FastPath(c) \/ Enter(c) \/ AlreadyFilled(c) \/ FetchFails(c)
  PROVE  IInv'
<1> USE DEF IInv
<1>1. TypeOK'
  BY DEF FastPath, Enter, AlreadyFilled, FetchFails, AfterLoad, Goto, TypeOK, Labels, Critical
<1>2. GateIsExclusive'
  BY NobodyAssumption DEF FastPath, Enter, AlreadyFilled, FetchFails, AfterLoad, Goto,
         TypeOK, GateIsExclusive, Critical
<1>3. CallsAreKnown'
  BY DEF FastPath, Enter, AlreadyFilled, FetchFails, AfterLoad, Goto, TypeOK, CallsAreKnown
<1>4. DocumentsAreCurrent'
  BY DEF FastPath, Enter, AlreadyFilled, FetchFails, AfterLoad, Goto, TypeOK,
         DocumentsAreCurrent, Mutating
<1>5. WritesInProgress'
  BY DEF FastPath, Enter, AlreadyFilled, FetchFails, AfterLoad, Goto, TypeOK, WritesInProgress
<1>6. AcknowledgedWritesHold'
  BY DEF FastPath, Enter, AlreadyFilled, FetchFails, AcknowledgedWritesHold, Visible
<1> QED
  BY <1>1, <1>2, <1>3, <1>4, <1>5, <1>6

\* What holds inside the gate: nobody else is in there.
LEMMA OthersAreOutside ==
  ASSUME IInv, NEW c \in Callers, pc[c] \in Critical
  PROVE  /\ gate = c
         /\ \A d \in Callers \ {c} : pc[d] \notin Critical
BY DEF IInv, GateIsExclusive

LEMMA CallFields ==
  ASSUME NEW x \in Calls
  PROVE  x.slot \in Slots /\ x.write \in BOOLEAN /\ x.value \in Contents
BY DEF Calls

\* Filling the cache: readers are shown what they were shown before.
LEMMA FillKeepsIInv ==
  ASSUME IInv, NEW c \in Callers, Fetch(c) \/ Assign(c)
  PROVE  IInv'
<1> USE DEF IInv
<1>1. gate = c /\ \A d \in Callers \ {c} : pc[d] \notin Critical
  BY OthersAreOutside DEF Fetch, Assign, Critical
<1>2. TypeOK'
  BY DEF Fetch, Assign, AfterLoad, Goto, TypeOK, Labels, Critical, DocumentsAreCurrent
<1>3. GateIsExclusive'
  BY DEF Fetch, Assign, AfterLoad, Goto, TypeOK, GateIsExclusive, Critical
<1>4. CallsAreKnown'
  BY DEF Fetch, Assign, AfterLoad, Goto, TypeOK, CallsAreKnown
<1>5. DocumentsAreCurrent'
  BY <1>1, NoDocumentAssumption
     DEF Fetch, Assign, AfterLoad, Goto, TypeOK, DocumentsAreCurrent, Mutating, Critical
<1>6. WritesInProgress'
  BY <1>1 DEF Fetch, Assign, AfterLoad, Goto, TypeOK, WritesInProgress, Critical
<1>7. AcknowledgedWritesHold'
  BY DEF Fetch, Assign, AcknowledgedWritesHold, Visible, DocumentsAreCurrent
<1> QED
  BY <1>2, <1>3, <1>4, <1>5, <1>6, <1>7

\* Changing the cached document: the promise about the slot is withdrawn first.
LEMMA ChangeKeepsIInv ==
  ASSUME IInv, NEW c \in Callers, ChangeBegin(c) \/ ChangeEnd(c)
  PROVE  IInv'
<1> USE DEF IInv
<1>1. gate = c /\ \A d \in Callers \ {c} : pc[d] \notin Critical
  BY OthersAreOutside DEF ChangeBegin, ChangeEnd, Critical
<1>2. cache \in Documents /\ cache # NoDocument
  BY DEF ChangeBegin, ChangeEnd, TypeOK, DocumentsAreCurrent, Mutating
<1>3. call[c] \in Calls /\ call[c].slot \in Slots /\ call[c].value \in Contents
  BY CallFields DEF ChangeBegin, ChangeEnd, CallsAreKnown
<1>4. ChangeEnd(c) => /\ cache' \in Documents
                      /\ cache'[call[c].slot] = call[c].value
                      /\ \A s \in Slots \ {call[c].slot} : cache'[s] = cache[s]
  <2> DEFINE changed == [cache EXCEPT ![call[c].slot] = call[c].value]
  <2>1. /\ changed \in Documents
        /\ changed[call[c].slot] = call[c].value
        /\ \A s \in Slots \ {call[c].slot} : changed[s] = cache[s]
    BY <1>2, <1>3 DEF Documents
  <2>2. ChangeEnd(c) => cache' = changed
    BY DEF ChangeEnd
  <2> QED
    BY <2>1, <2>2
<1>5. TypeOK'
  BY <1>3, <1>4 DEF ChangeBegin, ChangeEnd, Goto, TypeOK, Labels, Critical
<1>6. GateIsExclusive'
  BY DEF ChangeBegin, ChangeEnd, Goto, TypeOK, GateIsExclusive, Critical
<1>7. CallsAreKnown'
  BY DEF ChangeBegin, ChangeEnd, Goto, TypeOK, CallsAreKnown
<1>8. DocumentsAreCurrent'
  BY <1>1, <1>2, <1>4, NoDocumentAssumption
     DEF ChangeBegin, ChangeEnd, Goto, TypeOK, DocumentsAreCurrent, Mutating, Critical
<1>9. WritesInProgress'
  BY <1>1, <1>3, <1>4
     DEF ChangeBegin, ChangeEnd, Goto, TypeOK, WritesInProgress, Critical
<1>10. AcknowledgedWritesHold'
  <2>1. CASE ChangeBegin(c)
    BY <2>1, <1>3 DEF ChangeBegin, TypeOK, AcknowledgedWritesHold, Visible
  <2>2. CASE ChangeEnd(c)
    <3>1. promised[call[c].slot] = Nothing
      BY <2>2 DEF ChangeEnd, WritesInProgress
    <3>2. cache' # NoDocument
      BY <2>2, <1>4, NoDocumentAssumption
    <3> QED
      BY <2>2, <3>1, <3>2, <1>2, <1>4 DEF ChangeEnd, AcknowledgedWritesHold, Visible
  <2> QED
    BY <2>1, <2>2
<1> QED
  BY <1>5, <1>6, <1>7, <1>8, <1>9, <1>10

\* Storing: what is committed is what readers see.
LEMMA StoreKeepsIInv ==
  ASSUME IInv, NEW c \in Callers, Serialize(c) \/ Commit(c) \/ CommitFails(c)
  PROVE  IInv'
<1> USE DEF IInv
<1>1. gate = c /\ \A d \in Callers \ {c} : pc[d] \notin Critical
  BY OthersAreOutside DEF Serialize, Commit, CommitFails, Critical
<1>2. cache \in Documents /\ cache # NoDocument
  BY DEF Serialize, Commit, CommitFails, TypeOK, DocumentsAreCurrent, Mutating
<1>3. TypeOK'
  BY <1>2 DEF Serialize, Commit, CommitFails, Goto, TypeOK, Labels, Critical, DocumentsAreCurrent
<1>4. GateIsExclusive'
  BY DEF Serialize, Commit, CommitFails, Goto, TypeOK, GateIsExclusive, Critical
<1>5. CallsAreKnown'
  BY DEF Serialize, Commit, CommitFails, Goto, TypeOK, CallsAreKnown
<1>6. DocumentsAreCurrent'
  BY <1>1, <1>2
     DEF Serialize, Commit, CommitFails, Goto, TypeOK, DocumentsAreCurrent, Mutating, Critical
<1>7. WritesInProgress'
  BY <1>1 DEF Serialize, Commit, CommitFails, Goto, TypeOK, WritesInProgress,
              DocumentsAreCurrent, Critical
<1>8. AcknowledgedWritesHold'
  BY <1>2 DEF Serialize, Commit, CommitFails, AcknowledgedWritesHold, Visible,
              DocumentsAreCurrent
<1> QED
  BY <1>3, <1>4, <1>5, <1>6, <1>7, <1>8

\* Leaving the gate, and the unlocked lookup.
LEMMA ReturnKeepsIInv ==
  ASSUME IInv, NEW c \in Callers, Release(c) \/ Unwind(c) \/ Lookup(c)
  PROVE  IInv'
<1> USE DEF IInv
<1>1. pc[c] # "lookup" => gate = c /\ \A d \in Callers \ {c} : pc[d] \notin Critical
  BY OthersAreOutside DEF Release, Unwind, Lookup, Critical
<1>2. call[c] \in Calls /\ call[c].slot \in Slots /\ call[c].value \in Contents
  BY CallFields DEF Release, Unwind, Lookup, CallsAreKnown
<1>3. TypeOK'
  <2>1. Lookup(c) => answer' \in [Callers -> Contents \cup {Nothing}]
    <3>1. Lookup(c) => cache \in Documents
      BY DEF Lookup, TypeOK, DocumentsAreCurrent
    <3>2. Lookup(c) => cache[call[c].slot] \in Contents
      BY <3>1, <1>2 DEF Documents
    <3> QED
      BY <3>2 DEF Lookup, TypeOK, Contents
  <2> QED
    BY <2>1, <1>2 DEF Release, Unwind, Lookup, Return, Goto, TypeOK, Labels
<1>4. GateIsExclusive'
  BY <1>1, NobodyAssumption
     DEF Release, Unwind, Lookup, Return, Goto, TypeOK, GateIsExclusive, Critical
<1>5. CallsAreKnown'
  BY DEF Release, Unwind, Lookup, Return, Goto, TypeOK, CallsAreKnown
<1>6. DocumentsAreCurrent'
  BY <1>1 DEF Release, Unwind, Lookup, Return, Goto, TypeOK, DocumentsAreCurrent,
         Mutating, Critical
<1>7. WritesInProgress'
  BY <1>1 DEF Release, Unwind, Lookup, Return, Goto, TypeOK, WritesInProgress, Critical
<1>8. AcknowledgedWritesHold'
  BY <1>2 DEF Release, Unwind, Lookup, AcknowledgedWritesHold, Visible, WritesInProgress, TypeOK
<1> QED
  BY <1>3, <1>4, <1>5, <1>6, <1>7, <1>8

LEMMA RestartKeepsIInv ==
  ASSUME IInv, Restart
  PROVE  IInv'
<1> USE DEF IInv, Restart
<1>1. TypeOK'
  BY DEF TypeOK, Labels
<1>2. GateIsExclusive'
  BY NobodyAssumption DEF GateIsExclusive, Critical
<1>3. CallsAreKnown' /\ DocumentsAreCurrent' /\ WritesInProgress'
  BY DEF CallsAreKnown, DocumentsAreCurrent, WritesInProgress, Mutating
<1>4. AcknowledgedWritesHold'
  BY DEF AcknowledgedWritesHold, Visible
<1> QED
  BY <1>1, <1>2, <1>3, <1>4

LEMMA NextKeepsIInv == IInv /\ [Next]_vars => IInv'
<1> SUFFICES ASSUME IInv, [Next]_vars PROVE IInv'
  OBVIOUS
<1>1. ASSUME NEW c \in Callers, NewCall(c) PROVE IInv'
  BY <1>1, NewCallKeepsIInv
<1>2. ASSUME NEW c \in Callers, Step(c) PROVE IInv'
  BY <1>2, ControlStepKeepsIInv, FillKeepsIInv, ChangeKeepsIInv, StoreKeepsIInv, ReturnKeepsIInv
     DEF Step
<1>3. CASE Restart
  BY <1>3, RestartKeepsIInv
<1>4. CASE UNCHANGED vars
  BY <1>4 DEF vars, IInv, TypeOK, GateIsExclusive, CallsAreKnown, DocumentsAreCurrent,
             WritesInProgress, AcknowledgedWritesHold, Visible
<1> QED
  BY <1>1, <1>2, <1>3, <1>4 DEF Next

\* The inductive invariant holds in every behaviour.
LEMMA IInvHolds == Spec => []IInv
BY InitEstablishesIInv, NextKeepsIInv, PTL DEF Spec

\* Fields and locals of the backend keep their types, whatever the interleaving.
THEOREM TypeCorrect == Spec => []TypeOK
<1>1. IInv => TypeOK
  BY DEF IInv
<1> QED
  BY <1>1, IInvHolds, PTL

\* A write acknowledged by SetSetting, StorePut or StoreDelete stays stored and
\* visible until the next write of its key, for any number of callers and keys.
THEOREM AcknowledgedWritesHoldAlways == Spec => []AcknowledgedWritesHold
<1>1. IInv => AcknowledgedWritesHold
  BY DEF IInv
<1> QED
  BY <1>1, IInvHolds, PTL

\* A read of an acknowledged value returns it, or misses while its dictionary is
\* being restructured; it never returns anything else.
THEOREM ReadsAreCurrentOrMissAlways == Spec => ReadsAreCurrentOrMiss
<1> DEFINE Answered(c) ==
             answer'[c] # answer[c] /\ answer'[c] # Nothing /\ promised[call[c].slot] # Nothing
           Current(c) == \/ answer'[c] = promised[call[c].slot]
                         \/ answer'[c] = Absent /\ Unstable(call[c].slot)
<1>1. ASSUME IInv, [Next]_vars, NEW c \in Callers, Answered(c)
      PROVE  Current(c)
  <2>1. Lookup(c)
    <3>1. ~ Restart /\ ~ UNCHANGED vars /\ \A d \in Callers : ~ NewCall(d)
      BY <1>1 DEF IInv, TypeOK, Restart, vars, NewCall, GetSetting, SetSetting, StoreGet,
                  StorePut, StoreDelete, Begin
    <3>2. \A d \in Callers : Step(d) /\ ~ Lookup(d) => UNCHANGED answer
      BY DEF Step, FastPath, Enter, AlreadyFilled, Fetch, FetchFails, Assign, ChangeBegin,
             ChangeEnd, Serialize, Commit, CommitFails, Release, Unwind
    <3>3. \A d \in Callers : Lookup(d) /\ d # c => answer'[c] = answer[c]
      BY DEF Lookup, IInv, TypeOK
    <3> QED
      BY <1>1, <3>1, <3>2, <3>3 DEF Next
  <2>2. cache[call[c].slot] = promised[call[c].slot]
    <3>1. call[c].slot \in Slots /\ cache # NoDocument
      BY <1>1, <2>1, CallFields DEF Lookup, IInv, CallsAreKnown, DocumentsAreCurrent
    <3> QED
      BY <1>1, <3>1 DEF IInv, AcknowledgedWritesHold, Visible
  <2> QED
    BY <1>1, <2>1, <2>2 DEF Lookup, IInv, TypeOK
<1>2. IInv /\ [Next]_vars => \A c \in Callers : Answered(c) => Current(c)
  BY <1>1
<1> QED
  BY <1>2, IInvHolds, PTL DEF Spec, ReadsAreCurrentOrMiss

-----------------------------------------------------------------------------
(* The backend implements PluginStore.                                     *)

\* The writer of PluginStore is the one caller between change and commit.
LEMMA WriterIsTheOneStoring ==
  ASSUME IInv
  PROVE  /\ Writing \in Callers \cup {Nobody}
         /\ \A d \in Callers : Writing = d <=> pc[d] \in {"save", "commit"}
<1>1. gate \in Callers \cup {Nobody} /\ Nobody \notin Callers
  BY NobodyAssumption DEF IInv, TypeOK
<1>2. \A d \in Callers : pc[d] \in {"save", "commit"} => gate = d
  BY DEF IInv, GateIsExclusive, Critical
<1> QED
  BY <1>1, <1>2 DEF Writing

LEMMA SameWriter ==
  ASSUME IInv, IInv',
         \A d \in Callers : pc'[d] \in {"save", "commit"} <=> pc[d] \in {"save", "commit"}
  PROVE  Writing' = Writing
<1>1. /\ Writing' \in Callers \cup {Nobody}
      /\ \A d \in Callers : Writing' = d <=> pc'[d] \in {"save", "commit"}
  <2>1. gate' \in Callers \cup {Nobody} /\ Nobody \notin Callers
    BY NobodyAssumption DEF IInv, TypeOK
  <2>2. \A d \in Callers : pc'[d] \in {"save", "commit"} => gate' = d
    BY DEF IInv, GateIsExclusive, Critical
  <2> QED
    BY <2>1, <2>2 DEF Writing
<1> QED
  BY <1>1, WriterIsTheOneStoring, NobodyAssumption

\* One caller's step is a write, a save or invisible to PluginStore.
LEMMA StepImplements ==
  ASSUME IInv, IInv', NEW c \in Callers, Step(c)
  PROVE  [Store!Next]_Store!vars
<1> USE DEF Store!Next, Store!vars, Visible
<1>1. pc \in [Callers -> Labels]
  BY DEF IInv, TypeOK
<1>2. CASE FastPath(c) \/ Enter(c) \/ AlreadyFilled(c) \/ Fetch(c) \/ FetchFails(c) \/ Assign(c)
           \/ ChangeBegin(c) \/ Serialize(c) \/ Release(c) \/ Unwind(c) \/ Lookup(c)
  <2>1. \A d \in Callers : pc'[d] \in {"save", "commit"} <=> pc[d] \in {"save", "commit"}
    BY <1>1, <1>2 DEF FastPath, Enter, AlreadyFilled, Fetch, FetchFails, Assign, ChangeBegin,
                      Serialize, Release, Unwind, Lookup, Goto, Return, AfterLoad
  <2>2. Writing' = Writing
    BY <2>1, SameWriter
  <2>3. Visible' = Visible /\ db' = db
    BY <1>2 DEF FastPath, Enter, AlreadyFilled, Fetch, FetchFails, Assign, ChangeBegin,
                Serialize, Release, Unwind, Lookup, IInv, DocumentsAreCurrent
  <2> QED
    BY <2>2, <2>3
<1>3. CASE ChangeEnd(c)
  <2>1. cache \in Documents /\ cache # NoDocument
    BY <1>3 DEF ChangeEnd, IInv, TypeOK, DocumentsAreCurrent, Mutating
  <2>2. call[c].slot \in Slots /\ call[c].value \in Contents
    BY <1>3, CallFields DEF ChangeEnd, IInv, CallsAreKnown
  <2>3. cache' = [cache EXCEPT ![call[c].slot] = call[c].value]
    BY <1>3 DEF ChangeEnd
  <2>4. cache' # NoDocument
    <3>1. cache' \in Documents
      BY <2>1, <2>2, <2>3 DEF Documents
    <3> QED
      BY <3>1, NoDocumentAssumption
  <2>5. Writing = Nobody /\ Writing' = c
    <3>1. gate = c /\ gate' = c /\ pc[c] = "changing" /\ pc'[c] = "save"
      BY <1>1, <1>3 DEF ChangeEnd, Goto, IInv, GateIsExclusive, Critical
    <3> QED
      BY <3>1, NobodyAssumption DEF Writing
  <2>6. Store!Show(c, call[c].slot, call[c].value)
    BY <1>3, <2>1, <2>3, <2>4, <2>5 DEF ChangeEnd, Store!Show
  <2> QED
    BY <2>2, <2>6
<1>4. CASE Commit(c) \/ CommitFails(c)
  <2>1. doc[c] = Visible /\ cache' = cache /\ cache # NoDocument
    BY <1>4 DEF Commit, CommitFails, IInv, DocumentsAreCurrent, Mutating
  <2>2. Writing = c /\ Writing' = Nobody
    <3>1. gate = c /\ gate' = c /\ pc[c] = "commit" /\ pc'[c] \in {"release", "unwind"}
      BY <1>1, <1>4 DEF Commit, CommitFails, Goto, IInv, GateIsExclusive, Critical
    <3> QED
      BY <3>1, NobodyAssumption DEF Writing
  <2>3. Store!Persist(c) \/ Store!Fail(c)
    BY <2>1, <2>2, <1>4 DEF Commit, CommitFails, Store!Persist, Store!Fail
  <2> QED
    BY <2>3
<1> QED
  BY <1>2, <1>3, <1>4 DEF Step

\* Every behaviour of the backend is one of PluginStore: writes take turns, loads are
\* invisible, a save never stores an older document than the one readers see.
THEOREM Implementation == Spec => ImplementsPluginStore
<1>1. Init => Store!Init
  BY DEF Init, Store!Init, Visible, Writing, Documents
<1>2. IInv /\ IInv' /\ [Next]_vars => [Store!Next]_Store!vars
  <2> SUFFICES ASSUME IInv, IInv', [Next]_vars PROVE [Store!Next]_Store!vars
    OBVIOUS
  <2>1. ASSUME NEW c \in Callers, NewCall(c) PROVE UNCHANGED Store!vars
    <3>1. Visible' = Visible /\ db' = db
      BY <2>1 DEF NewCall, GetSetting, SetSetting, StoreGet, StorePut, StoreDelete, Begin, Visible
    <3>2. \A d \in Callers : pc'[d] \in {"save", "commit"} <=> pc[d] \in {"save", "commit"}
      BY <2>1 DEF NewCall, GetSetting, SetSetting, StoreGet, StorePut, StoreDelete, Begin, Goto,
                  IInv, TypeOK
    <3> QED
      BY <3>1, <3>2, SameWriter DEF Store!vars
  <2>2. CASE Restart
    BY <2>2, NobodyAssumption DEF Restart, Store!Next, Store!Restart, Visible, Writing
  <2>3. CASE UNCHANGED vars
    BY <2>3 DEF vars, Store!vars, Visible, Writing
  <2> QED
    BY <2>1, <2>2, <2>3, StepImplements DEF Next
<1> QED
  BY <1>1, <1>2, IInvHolds, PTL DEF Spec, ImplementsPluginStore, Store!Spec
=============================================================================
