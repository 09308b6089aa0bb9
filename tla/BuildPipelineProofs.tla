------------------------- MODULE BuildPipelineProofs -------------------------
(***************************************************************************)
(* Proofs about BuildPipeline, for any commands, plugins, workspaces and   *)
(* revisions of their source.                                              *)
(***************************************************************************)
EXTENDS BuildPipeline, TLAPS

\* The steps of a command from a certain point on.
Packing == {"packer", "packing tool", "compiling tool", "pack"}
Wrapping == {"checkout", "clear", "clone", "cloning", "wrapper", "clean", "publish",
             "strip", "reload"} \cup Packing
Generated == {"shim"} \cup Wrapping
Described == {"materialise", "bindgen", "install", "generate"} \cup Generated
Compiled == {"native", "metadata"} \cup Described

\* A command finds what its earlier steps have made: nothing removes a library,
\* bindings, a shim or a packer.
InOrder(j) ==
    /\ job[j].pc \in Compiled => Library(j) # None
    /\ job[j].pc \in Described => job[j].md # None
    /\ job[j].pc \in Generated => bindings[Plugin(j)] # None
    /\ job[j].pc \in Wrapping =>
         /\ shim[Plugin(j)].code # None
         /\ shim[Plugin(j)].projects[Source[job[j].md].plugin] # None
    /\ job[j].pc \in Packing => job[j].again # None
    /\ job[j].pc = "compiling tool" => packer[job[j].again] # None

StepsInOrder == \A j \in Jobs : InOrder(j)

PInv == TypeOK /\ StepsInOrder

JobsTyped == job \in [Jobs -> Started \cup {Idle}]

LEMMA InitEstablishesPInv == Init => PInv
<1> SUFFICES ASSUME Init PROVE PInv
  OBVIOUS
<1>1. /\ src \in [Plugins -> Revisions] /\ \A p \in Plugins : src[p] \in RevisionsOf(p)
      /\ lib \in [Dirs \X Profiles -> Revisions \cup {None}]
  BY DEF Init
<1>2. /\ host \in [Plugins -> Versions]
      /\ bindings \in [Plugins -> Bindings \cup {None}]
      /\ shim \in [Plugins -> Shims]
      /\ publish \in [Plugins -> Published \cup {None}]
  BY DEF Init, Versions, Shims
<1>3. /\ out = [p \in Plugins |-> out[p]]
      /\ \A p \in Plugins : \A v \in DOMAIN out[p] : out[p][v] \in Published
  BY DEF Init
<1>4. /\ generator \in Versions
      /\ checkout \in [Tags -> Checkouts \cup {None}]
      /\ packer \in [Tags -> Packers \cup {None}]
      /\ job \in [Jobs -> Started \cup {Idle}]
      /\ edits \in Nat
  BY DEF Init
<1>5. StepsInOrder
  BY DEF Init, StepsInOrder, InOrder, Idle, Compiled, Described, Generated, Wrapping, Packing
<1> QED
  BY <1>1, <1>2, <1>3, <1>4, <1>5 DEF PInv, TypeOK

LEMMA NoneIsNone == None \notin Revisions /\ None \notin Tags
  BY NoneAssumption

\* A revision says what SourceAssumption lists.
LEMMA SourceIsKnown ==
  ASSUME NEW r \in Revisions
  PROVE  /\ Source[r].plugin \in Plugins /\ Source[r].version \in Nat
         /\ Source[r].page \in BOOLEAN /\ Source[r].strip \in BOOLEAN
         /\ \A c \in Commands : Load(c, r) \in Tags
  BY SourceAssumption, TagAssumption DEF Load

LEMMA StartedJobs ==
  ASSUME TypeOK, NEW j \in Jobs, job[j].pc # "idle"
  PROVE  /\ job[j] \in Started
         /\ Plugin(j) \in Plugins
         /\ LibraryPath(j) \in Dirs \X Profiles
         /\ Library(j) \in Revisions \cup {None}
<1>1. job[j] \in Started
  BY DEF TypeOK, Idle
<1>2. Profile(j) \in Profiles
  BY <1>1 DEF Started, Profile, Profiles
<1>3. CargoTargetDir(j) \in Dirs
  BY <1>1 DEF Started, CargoTargetDir, Dirs, TargetKey
<1> QED
  BY <1>1, <1>2, <1>3 DEF LibraryPath, Library, TypeOK, Plugin, Started

LEMMA StrippedIsBoolean ==
  ASSUME NEW j \in Jobs, Library(j) \in Revisions
  PROVE  Stripped(j) \in BOOLEAN
  BY SourceIsKnown DEF Stripped

\* A step of a command changes where it is, and keeps the type of the commands.
LEMMA GotoKeepsType ==
  ASSUME TypeOK, NEW j \in Jobs, job[j].pc # "idle", NEW l \in Labels, Goto(j, l)
  PROVE  /\ JobsTyped'
         /\ job'[j].pc = l
         /\ \A k \in Jobs : k # j => job'[k] = job[k]
         /\ \A k \in Jobs : job[k].pc # "idle" =>
              /\ job'[k].command = job[k].command /\ job'[k].plugin = job[k].plugin
              /\ job'[k].md = job[k].md /\ job'[k].again = job[k].again
<1>1. job[j] \in Started
  BY StartedJobs
<1>2. [job[j] EXCEPT !.pc = l] \in Started
  BY <1>1 DEF Started
<1> QED
  BY <1>1, <1>2 DEF TypeOK, JobsTyped, Goto, Started

\* Where an invocation works is decided once.
LEMMA SamePlaces ==
  ASSUME NEW k \in Jobs, job'[k].command = job[k].command, job'[k].plugin = job[k].plugin
  PROVE  LibraryPath(k)' = LibraryPath(k) /\ Plugin(k)' = Plugin(k)
  BY DEF LibraryPath, CargoTargetDir, TargetKey, Profile, Plugin

\* What is there stays there.
NothingVanishes ==
    /\ \A x \in Dirs \X Profiles : lib[x] # None => lib'[x] # None
    /\ \A p \in Plugins :
         /\ bindings[p] # None => bindings'[p] # None
         /\ shim[p].code # None => shim'[p].code # None
         /\ \A q \in Plugins : shim[p].projects[q] # None => shim'[p].projects[q] # None
    /\ \A t \in Tags : packer[t] # None => packer'[t] # None

\* A command's own facts after a step, as far as it had reached before it.
Kept(k) ==
    /\ job[k].pc \in Compiled => Library(k)' # None
    /\ job[k].pc \in Described => job[k].md # None
    /\ job[k].pc \in Generated => bindings'[Plugin(k)] # None
    /\ job[k].pc \in Wrapping =>
         /\ shim'[Plugin(k)].code # None
         /\ shim'[Plugin(k)].projects[Source[job[k].md].plugin] # None
    /\ job[k].pc \in Packing => job[k].again # None
    /\ job[k].pc = "compiling tool" => packer'[job[k].again] # None

LEMMA FactsAreKept ==
  ASSUME PInv, NothingVanishes, NEW k \in Jobs, job[k].pc # "idle",
         job'[k].command = job[k].command, job'[k].plugin = job[k].plugin
  PROVE  Kept(k)
<1>1. /\ job[k] \in Started /\ Plugin(k) \in Plugins /\ LibraryPath(k) \in Dirs \X Profiles
  BY StartedJobs DEF PInv
<1>2. InOrder(k)
  BY DEF PInv, StepsInOrder
<1>3. job[k].pc \in Compiled => Library(k)' # None
  BY <1>1, <1>2, SamePlaces DEF NothingVanishes, InOrder, Library
<1>4. job[k].md # None => Source[job[k].md].plugin \in Plugins
  BY <1>1, SourceIsKnown DEF Started
<1>5. job[k].pc \in Wrapping =>
         /\ shim'[Plugin(k)].code # None
         /\ shim'[Plugin(k)].projects[Source[job[k].md].plugin] # None
  BY <1>1, <1>2, <1>4 DEF NothingVanishes, InOrder, Described, Generated
<1>6. job[k].pc = "compiling tool" => packer'[job[k].again] # None
  BY <1>1, <1>2 DEF NothingVanishes, InOrder, Packing, Started
<1> QED
  BY <1>1, <1>2, <1>3, <1>5, <1>6 DEF NothingVanishes, InOrder, Kept

LEMMA OthersStayInOrder ==
  ASSUME PInv, NothingVanishes, NEW k \in Jobs, job'[k].pc = job[k].pc,
         job[k].pc # "idle" =>
           /\ job'[k].command = job[k].command /\ job'[k].plugin = job[k].plugin
           /\ job'[k].md = job[k].md /\ job'[k].again = job[k].again
  PROVE  InOrder(k)'
<1>1. CASE job[k].pc = "idle"
  BY <1>1 DEF InOrder, Compiled, Described, Generated, Wrapping, Packing
<1>2. CASE job[k].pc # "idle"
  BY <1>2, FactsAreKept, SamePlaces DEF InOrder, Kept
<1> QED
  BY <1>1, <1>2

\* A command that moves to a step whose facts are those of the step before.
LEMMA GotoKeepsOrder ==
  ASSUME PInv, NothingVanishes, NEW j \in Jobs, job[j].pc # "idle", NEW l \in Labels, Goto(j, l),
         l # "compiling tool", l \in Compiled => job[j].pc \in Compiled,
         l \in Described => job[j].pc \in Described,
         l \in Generated => job[j].pc \in Generated,
         l \in Wrapping => job[j].pc \in Wrapping,
         l \in Packing => job[j].pc \in Packing
  PROVE  StepsInOrder' /\ JobsTyped'
<1>1. /\ JobsTyped'
      /\ job'[j].pc = l
      /\ \A k \in Jobs : k # j => job'[k] = job[k]
      /\ \A k \in Jobs : job[k].pc # "idle" =>
           /\ job'[k].command = job[k].command /\ job'[k].plugin = job[k].plugin
           /\ job'[k].md = job[k].md /\ job'[k].again = job[k].again
  BY GotoKeepsType DEF PInv
<1>2. ASSUME NEW k \in Jobs, k # j PROVE InOrder(k)'
  BY <1>1, <1>2, OthersStayInOrder
<1>3. InOrder(j)'
  BY <1>1, FactsAreKept, SamePlaces DEF InOrder, Kept
<1> QED
  BY <1>1, <1>2, <1>3 DEF StepsInOrder

\* TypeOK without the commands.
FilesTyped ==
    /\ src \in [Plugins -> Revisions] /\ \A p \in Plugins : src[p] \in RevisionsOf(p)
    /\ lib \in [Dirs \X Profiles -> Revisions \cup {None}]
    /\ host \in [Plugins -> Versions]
    /\ bindings \in [Plugins -> Bindings \cup {None}]
    /\ shim \in [Plugins -> Shims]
    /\ publish \in [Plugins -> Published \cup {None}]
    /\ out = [p \in Plugins |-> out[p]]
    /\ \A p \in Plugins : \A v \in DOMAIN out[p] : out[p][v] \in Published
    /\ generator \in Versions
    /\ checkout \in [Tags -> Checkouts \cup {None}]
    /\ packer \in [Tags -> Packers \cup {None}]
    /\ edits \in Nat

LEMMA TypeOKParts == TypeOK <=> FilesTyped /\ JobsTyped
  BY DEF TypeOK, FilesTyped, JobsTyped

LEMMA QuietStepsPreservePInv ==
  ASSUME PInv, NEW j \in Jobs,
         \/ NativeDependencies(j) \/ EnsureBtcpayserver(j) \/ BuildWrapper(j)
         \/ EnsurePluginPacker(j)
  PROVE  PInv'
<1>0. UNCHANGED <<src, lib, layout, out, cache, edits>>
  BY DEF NativeDependencies, EnsureBtcpayserver, BuildWrapper, EnsurePluginPacker
<1>1. NothingVanishes
  BY <1>0 DEF NothingVanishes, layout, cache
<1>2. FilesTyped'
  BY <1>0, TypeOKParts DEF PInv, FilesTyped, layout, cache
<1>3. PICK l \in Labels :
        /\ Goto(j, l) /\ job[j].pc # "idle" /\ l # "compiling tool"
        /\ l \in Compiled => job[j].pc \in Compiled
        /\ l \in Described => job[j].pc \in Described
        /\ l \in Generated => job[j].pc \in Generated
        /\ l \in Wrapping => job[j].pc \in Wrapping
        /\ l \in Packing => job[j].pc \in Packing
  <2>1. CASE NativeDependencies(j)
    BY <2>1 DEF NativeDependencies, At, Labels, Compiled, Described, Generated, Wrapping, Packing
  <2>2. CASE EnsureBtcpayserver(j)
    BY <2>2 DEF EnsureBtcpayserver, At, Labels, Compiled, Described, Generated, Wrapping, Packing
  <2>3. CASE BuildWrapper(j)
    BY <2>3 DEF BuildWrapper, At, Labels, Compiled, Described, Generated, Wrapping, Packing
  <2>4. CASE EnsurePluginPacker(j)
    <3>1. At(j, "packer") /\ \E l \in {"pack", "packing tool"} : Goto(j, l)
      BY <2>4 DEF EnsurePluginPacker
    <3> QED
      BY <3>1 DEF At, Labels, Compiled, Described, Generated, Wrapping, Packing
  <2> QED
    BY <2>1, <2>2, <2>3, <2>4
<1>4. StepsInOrder' /\ JobsTyped'
  BY <1>1, <1>3, GotoKeepsOrder
<1>5. TypeOK'
  BY <1>2, <1>4 DEF FilesTyped, JobsTyped, TypeOK
<1> QED
  BY <1>4, <1>5 DEF PInv

\* A command that changes what it has in its hands.
LEMMA JobKeepsType ==
  ASSUME TypeOK, NEW j \in Jobs, NEW s \in Started, job' = [job EXCEPT ![j] = s]
  PROVE  JobsTyped' /\ job'[j] = s /\ \A k \in Jobs : k # j => job'[k] = job[k]
  BY DEF TypeOK, JobsTyped

LEMMA CargoBuildPreservesPInv ==
  ASSUME PInv, NEW j \in Jobs, CargoBuild(j)
  PROVE  PInv'
<1>1. /\ Plugin(j) \in Plugins /\ LibraryPath(j) \in Dirs \X Profiles
      /\ job[j].pc # "idle" /\ job[j].pc = "cargo" /\ "native" \in Labels
  BY StartedJobs DEF PInv, CargoBuild, At, Labels
<1>2. src[Plugin(j)] \in Revisions /\ src[Plugin(j)] # None
  BY <1>1, NoneIsNone DEF PInv, TypeOK
<1>3. NothingVanishes
  BY <1>1, <1>2 DEF NothingVanishes, CargoBuild, layout, cache, PInv, TypeOK
<1>4. FilesTyped'
  BY <1>1, <1>2, TypeOKParts DEF PInv, FilesTyped, CargoBuild, layout, cache
<1>5. /\ JobsTyped'
      /\ job'[j].pc = "native"
      /\ \A k \in Jobs : k # j => job'[k] = job[k]
      /\ job'[j].command = job[j].command /\ job'[j].plugin = job[j].plugin
  BY <1>1, GotoKeepsType DEF CargoBuild, PInv
<1>6. Library(j)' # None
  BY <1>1, <1>2, <1>5, SamePlaces DEF CargoBuild, Library, PInv, TypeOK
<1>7. InOrder(j)'
  BY <1>5, <1>6 DEF InOrder, Described, Generated, Wrapping, Packing
<1>8. ASSUME NEW k \in Jobs, k # j PROVE InOrder(k)'
  BY <1>3, <1>5, <1>8, OthersStayInOrder
<1> QED
  BY <1>4, <1>5, <1>7, <1>8, TypeOKParts DEF PInv, StepsInOrder, TypeOK, FilesTyped, JobsTyped

LEMMA ReadMetadataPreservesPInv ==
  ASSUME PInv, NEW j \in Jobs, ReadMetadata(j)
  PROVE  PInv'
<1> DEFINE s == [job[j] EXCEPT !.pc = "materialise", !.md = Library(j)]
<1>1. /\ job[j] \in Started /\ job[j].pc = "metadata"
      /\ Library(j) \in Revisions /\ Library(j) # None
  BY StartedJobs, NoneIsNone DEF PInv, StepsInOrder, InOrder, Compiled, ReadMetadata, At
<1>2. NothingVanishes
  BY DEF NothingVanishes, ReadMetadata, layout, cache
<1>3. FilesTyped'
  BY TypeOKParts DEF PInv, FilesTyped, ReadMetadata, layout, cache
<1>4. s \in Started /\ job' = [job EXCEPT ![j] = s]
  BY <1>1 DEF ReadMetadata, Started, Labels, PInv, TypeOK
<1> HIDE DEF s
<1>5. JobsTyped' /\ job'[j] = s /\ \A k \in Jobs : k # j => job'[k] = job[k]
  BY <1>4, JobKeepsType DEF PInv
<1>6. s.pc = "materialise" /\ s.md # None /\ s.command = job[j].command /\ s.plugin = job[j].plugin
  BY <1>1 DEF s, Started
<1>7. InOrder(j)'
  <2>1. Kept(j)
    BY <1>1, <1>2, <1>5, <1>6, FactsAreKept
  <2> QED
    BY <2>1, <1>1, <1>5, <1>6 DEF Kept, InOrder, Compiled, Generated, Wrapping, Packing
<1>8. ASSUME NEW k \in Jobs, k # j PROVE InOrder(k)'
  BY <1>2, <1>5, <1>8, OthersStayInOrder
<1> QED
  BY <1>3, <1>5, <1>7, <1>8 DEF PInv, StepsInOrder, TypeOK, FilesTyped, JobsTyped

\* Steps that make or remove files nothing above speaks of.
LEMMA HostStepsPreservePInv ==
  ASSUME PInv, NEW j \in Jobs, Materialise(j) \/ CleanPublishDir(j)
  PROVE  PInv'
<1>1. job[j].pc # "idle" /\ Plugin(j) \in Plugins /\ Cli[j] \in Versions
  BY StartedJobs DEF PInv, Materialise, CleanPublishDir, At, Versions
<1>2. NothingVanishes
  BY DEF NothingVanishes, Materialise, CleanPublishDir, cache
<1>3. FilesTyped'
  BY <1>1, TypeOKParts DEF PInv, FilesTyped, Materialise, CleanPublishDir, cache
<1>4. StepsInOrder' /\ JobsTyped'
  BY <1>1, <1>2, GotoKeepsOrder
     DEF Materialise, CleanPublishDir, At, Labels, Compiled, Described, Generated, Wrapping, Packing
<1> QED
  BY <1>3, <1>4, TypeOKParts DEF PInv, FilesTyped, JobsTyped, TypeOK

LEMMA CloneStepsPreservePInv ==
  ASSUME PInv, NEW j \in Jobs, ClearCheckout(j) \/ StartClone(j) \/ Cloning(j)
  PROVE  PInv'
<1>1. job[j].pc # "idle" /\ job[j] \in Started /\ job[j].tag \in Tags
  BY StartedJobs DEF PInv, ClearCheckout, StartClone, Cloning, At, Started
<1>2. NothingVanishes
  BY DEF NothingVanishes, ClearCheckout, StartClone, Cloning, layout, cache
<1>3. checkout' \in [Tags -> Checkouts \cup {None}]
  <2>1. CASE ClearCheckout(j)
    BY <2>1, <1>1 DEF ClearCheckout, PInv, TypeOK
  <2>2. CASE StartClone(j)
    BY <2>2, <1>1 DEF StartClone, PInv, TypeOK, Checkouts
  <2>3. CASE Cloning(j)
    <3>1. checkout[job[j].tag] \in Checkouts
      BY <2>3, <1>1 DEF Cloning, Checkout, PInv, TypeOK
    <3>2. \A h \in {"the project", "everything"} :
            [checkout[job[j].tag] EXCEPT !.holds = h] \in Checkouts
      BY <3>1 DEF Checkouts
    <3>3. PICK h \in {"the project", "everything"} :
            checkout' = [checkout EXCEPT ![job[j].tag].holds = h]
      BY <2>3 DEF Cloning
    <3> QED
      BY <3>2, <3>3, <1>1 DEF PInv, TypeOK
  <2> QED
    BY <2>1, <2>2, <2>3
<1>4. FilesTyped'
  BY <1>3, TypeOKParts DEF PInv, FilesTyped, ClearCheckout, StartClone, Cloning, layout
<1>5. StepsInOrder' /\ JobsTyped'
  <2>1. CASE UNCHANGED job
    BY <2>1, <1>2, OthersStayInOrder DEF PInv, StepsInOrder, TypeOK, JobsTyped
  <2>2. CASE \E l \in {"clone", "cloning", "wrapper"} : Goto(j, l)
    BY <2>2, <1>1, <1>2, GotoKeepsOrder
       DEF ClearCheckout, StartClone, Cloning, At, Labels, Compiled, Described, Generated,
           Wrapping, Packing
  <2> QED
    BY <2>1, <2>2 DEF ClearCheckout, StartClone, Cloning
<1> QED
  BY <1>4, <1>5, TypeOKParts DEF PInv, FilesTyped, JobsTyped, TypeOK

LEMMA BuildPackerPreservesPInv ==
  ASSUME PInv, NEW j \in Jobs, BuildPacker(j)
  PROVE  PInv'
<1>1. /\ job[j].pc = "packing tool" /\ job[j].tag \in Tags /\ job[j].again \in Tags
      /\ "compiling tool" \in Labels
  BY StartedJobs DEF PInv, StepsInOrder, InOrder, BuildPacker, At, Started, Packing, Labels
<1> DEFINE new == [from |-> job[j].tag, complete |-> FALSE]
<1>2. new \in Packers /\ None \notin Packers
  BY <1>1, FilesAssumption DEF Packers
<1>3. packer' = [packer EXCEPT ![job[j].again] = new] /\ Goto(j, "compiling tool")
  BY DEF BuildPacker
<1> HIDE DEF new
<1>4. NothingVanishes
  BY <1>1, <1>2, <1>3 DEF NothingVanishes, BuildPacker, layout, PInv, TypeOK
<1>5. FilesTyped'
  BY <1>1, <1>2, <1>3, TypeOKParts DEF PInv, FilesTyped, BuildPacker, layout
<1>6. /\ JobsTyped'
      /\ job'[j].pc = "compiling tool"
      /\ \A k \in Jobs : k # j => job'[k] = job[k]
      /\ job'[j].command = job[j].command /\ job'[j].plugin = job[j].plugin
      /\ job'[j].md = job[j].md /\ job'[j].again = job[j].again
  BY <1>1, <1>3, GotoKeepsType DEF PInv
<1>7. packer'[job[j].again] # None
  BY <1>1, <1>2, <1>3 DEF PInv, TypeOK
<1>8. InOrder(j)'
  <2>1. Kept(j)
    BY <1>1, <1>4, <1>6, FactsAreKept
  <2> QED
    BY <2>1, <1>1, <1>6, <1>7, SamePlaces
       DEF Kept, InOrder, Compiled, Described, Generated, Wrapping, Packing
<1>9. ASSUME NEW k \in Jobs, k # j PROVE InOrder(k)'
  BY <1>4, <1>6, <1>9, OthersStayInOrder
<1> QED
  BY <1>5, <1>6, <1>8, <1>9 DEF PInv, StepsInOrder, TypeOK, FilesTyped, JobsTyped

LEMMA PackerBuiltPreservesPInv ==
  ASSUME PInv, NEW j \in Jobs, PackerBuilt(j)
  PROVE  PInv'
<1>1. job[j].pc = "compiling tool" /\ job[j].again \in Tags
  BY StartedJobs DEF PInv, StepsInOrder, InOrder, PackerBuilt, At, Started, Packing
<1>2. packer[job[j].again] \in Packers
  BY <1>1 DEF PInv, TypeOK, StepsInOrder, InOrder
<1> DEFINE new == [packer[job[j].again] EXCEPT !.complete = TRUE]
<1>3. new \in Packers /\ new # None
  BY <1>2, FilesAssumption DEF Packers
<1>4. packer' = [packer EXCEPT ![job[j].again] = new] /\ Goto(j, "pack")
  BY DEF PackerBuilt
<1> HIDE DEF new
<1>5. NothingVanishes
  BY <1>1, <1>3, <1>4 DEF NothingVanishes, PackerBuilt, layout, PInv, TypeOK
<1>6. FilesTyped'
  BY <1>1, <1>3, <1>4, TypeOKParts DEF PInv, FilesTyped, PackerBuilt, layout
<1>7. StepsInOrder' /\ JobsTyped'
  BY <1>1, <1>4, <1>5, GotoKeepsOrder
     DEF Labels, Compiled, Described, Generated, Wrapping, Packing
<1> QED
  BY <1>6, <1>7, TypeOKParts DEF PInv, FilesTyped, JobsTyped, TypeOK

LEMMA EnsureBindgenPreservesPInv ==
  ASSUME PInv, NEW j \in Jobs, EnsureBindgen(j) \/ InstallBindgen(j)
  PROVE  PInv'
<1>1. /\ job[j] \in Started /\ job[j].pc \in {"bindgen", "install"}
      /\ Cli[j] \in Versions
  BY StartedJobs DEF PInv, EnsureBindgen, InstallBindgen, At, Versions
<1>2. NothingVanishes
  BY DEF NothingVanishes, EnsureBindgen, InstallBindgen, layout, cache
<1>3. FilesTyped'
  BY <1>1, TypeOKParts DEF PInv, FilesTyped, EnsureBindgen, InstallBindgen, layout, cache
<1>4. CASE Goto(j, "install")
  <2>1. StepsInOrder' /\ JobsTyped'
    BY <1>1, <1>2, <1>4, GotoKeepsOrder
       DEF Labels, Compiled, Described, Generated, Wrapping, Packing
  <2> QED
    BY <1>3, <2>1 DEF PInv, TypeOK, FilesTyped, JobsTyped
<1>5. CASE ~Goto(j, "install")
  <2>1. PICK from \in {"cached", "on PATH"} :
          job' = [job EXCEPT ![j].pc = "generate", ![j].bindgen = from]
    BY <1>5 DEF EnsureBindgen, InstallBindgen
  <2> DEFINE s == [job[j] EXCEPT !.pc = "generate", !.bindgen = from]
  <2>2. s \in Started /\ job' = [job EXCEPT ![j] = s]
    BY <1>1, <2>1 DEF Started, Labels, PInv, TypeOK
  <2>3. /\ s.pc = "generate" /\ s.command = job[j].command /\ s.plugin = job[j].plugin
        /\ s.md = job[j].md /\ s.again = job[j].again
    BY <1>1 DEF Started
  <2> HIDE DEF s
  <2>4. JobsTyped' /\ job'[j] = s /\ \A k \in Jobs : k # j => job'[k] = job[k]
    BY <2>2, JobKeepsType DEF PInv
  <2>5. InOrder(j)'
    <3>1. Kept(j)
      BY <1>1, <1>2, <2>3, <2>4, FactsAreKept
    <3> QED
      BY <3>1, <1>1, <2>3, <2>4
         DEF Kept, InOrder, Compiled, Described, Generated, Wrapping, Packing
  <2>6. ASSUME NEW k \in Jobs, k # j PROVE InOrder(k)'
    BY <1>2, <2>4, <2>6, OthersStayInOrder
  <2> QED
    BY <1>3, <2>4, <2>5, <2>6 DEF PInv, StepsInOrder, TypeOK, FilesTyped, JobsTyped
<1> QED
  BY <1>4, <1>5

LEMMA GenerateBindingsPreservesPInv ==
  ASSUME PInv, NEW j \in Jobs, GenerateBindings(j)
  PROVE  PInv'
<1>1. /\ job[j] \in Started /\ job[j].pc = "generate" /\ Plugin(j) \in Plugins
      /\ Library(j) \in Revisions
  BY StartedJobs
     DEF PInv, StepsInOrder, InOrder, Compiled, Described, GenerateBindings, At
<1> DEFINE new == [lib |-> Library(j),
                   by |-> IF job[j].bindgen = "cached" THEN generator ELSE OnPath[j]]
<1>2. new \in Bindings /\ None \notin Bindings
  BY <1>1, FilesAssumption DEF PInv, TypeOK, Bindings, Versions
<1> HIDE DEF new
<1>3. bindings' = bindings \/ bindings' = [bindings EXCEPT ![Plugin(j)] = new]
  BY DEF GenerateBindings, new
<1>4. bindings' \in [Plugins -> Bindings \cup {None}]
  BY <1>1, <1>2, <1>3 DEF PInv, TypeOK
<1>5. NothingVanishes
  BY <1>1, <1>2, <1>3 DEF NothingVanishes, GenerateBindings, cache, PInv, TypeOK
<1>6. FilesTyped'
  BY <1>4, TypeOKParts DEF PInv, FilesTyped, GenerateBindings, cache
<1> DEFINE l == IF bindings'[Plugin(j)] = None THEN "failed" ELSE "shim"
<1> DEFINE s == [job[j] EXCEPT !.pc = l, !.bindgen = None]
<1>7. s \in Started /\ job' = [job EXCEPT ![j] = s]
  BY <1>1 DEF GenerateBindings, Started, Labels, PInv, TypeOK
<1>8. /\ s.pc = l /\ s.command = job[j].command /\ s.plugin = job[j].plugin
      /\ s.md = job[j].md /\ s.again = job[j].again
  BY <1>1 DEF Started
<1> HIDE DEF s
<1>9. JobsTyped' /\ job'[j] = s /\ \A k \in Jobs : k # j => job'[k] = job[k]
  BY <1>7, JobKeepsType DEF PInv
<1>10. InOrder(j)'
  <2>1. Kept(j)
    BY <1>1, <1>5, <1>8, <1>9, FactsAreKept
  <2>2. Plugin(j)' = Plugin(j)
    BY <1>8, <1>9 DEF Plugin
  <2> QED
    BY <2>1, <2>2, <1>1, <1>8, <1>9
       DEF Kept, InOrder, Compiled, Described, Generated, Wrapping, Packing
<1>11. ASSUME NEW k \in Jobs, k # j PROVE InOrder(k)'
  BY <1>5, <1>9, <1>11, OthersStayInOrder
<1> QED
  BY <1>6, <1>9, <1>10, <1>11 DEF PInv, StepsInOrder, TypeOK, FilesTyped, JobsTyped

LEMMA GenerateShimPreservesPInv ==
  ASSUME PInv, NEW j \in Jobs, GenerateShim(j)
  PROVE  PInv'
<1>1. /\ job[j] \in Started /\ job[j].pc = "shim" /\ Plugin(j) \in Plugins
      /\ job[j].md \in Revisions /\ job[j].md # None /\ "checkout" \in Labels
  BY StartedJobs, NoneIsNone
     DEF PInv, StepsInOrder, InOrder, Described, Generated, GenerateShim, At, Started, Labels
<1> DEFINE new == Shim(shim[Plugin(j)], job[j].md)
<1>2. shim[Plugin(j)] \in Shims /\ Source[job[j].md].plugin \in Plugins
  BY <1>1, SourceIsKnown DEF PInv, TypeOK
<1>3. /\ new \in Shims /\ new.code = job[j].md /\ new.projects[Source[job[j].md].plugin] = job[j].md
      /\ \A q \in Plugins : shim[Plugin(j)].projects[q] # None => new.projects[q] # None
  BY <1>1, <1>2 DEF Shim, Shims
<1>4. shim' = [shim EXCEPT ![Plugin(j)] = new] /\ Goto(j, "checkout")
  BY DEF GenerateShim
<1> HIDE DEF new
<1>5. NothingVanishes
  BY <1>1, <1>3, <1>4 DEF NothingVanishes, GenerateShim, cache, PInv, TypeOK
<1>6. FilesTyped'
  BY <1>1, <1>3, <1>4, TypeOKParts DEF PInv, FilesTyped, GenerateShim, cache
<1>7. /\ JobsTyped'
      /\ job'[j].pc = "checkout"
      /\ \A k \in Jobs : k # j => job'[k] = job[k]
      /\ job'[j].command = job[j].command /\ job'[j].plugin = job[j].plugin
      /\ job'[j].md = job[j].md /\ job'[j].again = job[j].again
  BY <1>1, <1>4, GotoKeepsType DEF PInv
<1>8. shim'[Plugin(j)] = new
  BY <1>1, <1>4 DEF PInv, TypeOK
<1>9. InOrder(j)'
  <2>1. Kept(j)
    BY <1>1, <1>5, <1>7, FactsAreKept
  <2> QED
    BY <2>1, <1>1, <1>3, <1>7, <1>8, SamePlaces
       DEF Kept, InOrder, Compiled, Described, Generated, Wrapping, Packing
<1>10. ASSUME NEW k \in Jobs, k # j PROVE InOrder(k)'
  BY <1>5, <1>7, <1>10, OthersStayInOrder
<1> QED
  BY <1>6, <1>7, <1>9, <1>10 DEF PInv, StepsInOrder, TypeOK, FilesTyped, JobsTyped

\* dotnet publish finds all it needs.
LEMMA PublishedIsWhole ==
  ASSUME PInv, NEW j \in Jobs, Publish(j)
  PROVE  publish'[Plugin(j)] \in Published
<1>1. /\ job[j] \in Started /\ job[j].pc = "publish" /\ Plugin(j) \in Plugins
      /\ Library(j) \in Revisions /\ job[j].md \in Revisions /\ InOrder(j)
  BY StartedJobs
     DEF PInv, StepsInOrder, InOrder, Compiled, Described, Generated, Wrapping, Publish, At, Started
<1> DEFINE new == [lib |-> Library(j), stripped |-> Stripped(j),
                   project |-> shim[Plugin(j)].projects[Source[job[j].md].plugin],
                   code |-> shim[Plugin(j)].code,
                   controller |-> shim[Plugin(j)].controller,
                   bindings |-> bindings[Plugin(j)], host |-> host[Plugin(j)]]
<1>2. shim[Plugin(j)] \in Shims /\ Source[job[j].md].plugin \in Plugins
  BY <1>1, SourceIsKnown DEF PInv, TypeOK
<1>3. /\ shim[Plugin(j)].projects[Source[job[j].md].plugin] \in Revisions
      /\ shim[Plugin(j)].code \in Revisions
      /\ shim[Plugin(j)].controller \in Revisions \cup {None}
  BY <1>1, <1>2 DEF Shims, InOrder, Wrapping
<1>4. bindings[Plugin(j)] \in Bindings
  BY <1>1 DEF InOrder, Generated, Wrapping, PInv, TypeOK
<1>5. new \in Published
  BY <1>1, <1>3, <1>4, StrippedIsBoolean DEF Published, PInv, TypeOK
<1>6. publish' = [publish EXCEPT ![Plugin(j)] = new]
  BY DEF Publish
<1> QED
  BY <1>1, <1>5, <1>6 DEF PInv, TypeOK

LEMMA PublishPreservesPInv ==
  ASSUME PInv, NEW j \in Jobs, Publish(j) \/ VerifyAndStrip(j)
  PROVE  PInv'
<1>1. job[j] \in Started /\ job[j].pc \in {"publish", "strip"} /\ Plugin(j) \in Plugins
  BY StartedJobs DEF PInv, Publish, VerifyAndStrip, At
<1>2. publish' \in [Plugins -> Published \cup {None}]
  <2>1. CASE Publish(j)
    BY <2>1, <1>1, PublishedIsWhole DEF PInv, TypeOK, Publish
  <2>2. CASE VerifyAndStrip(j) /\ UNCHANGED publish
    BY <2>2 DEF PInv, TypeOK
  <2>3. CASE Complete(j) /\ publish' = [publish EXCEPT ![Plugin(j)].stripped = TRUE]
    <3>1. publish[Plugin(j)] \in Published
      BY <1>1, <2>3 DEF Complete, PInv, TypeOK
    <3>2. [publish[Plugin(j)] EXCEPT !.stripped = TRUE] \in Published
      BY <3>1 DEF Published
    <3> QED
      BY <1>1, <2>3, <3>2 DEF PInv, TypeOK
  <2> QED
    BY <2>1, <2>2, <2>3 DEF VerifyAndStrip
<1>3. NothingVanishes
  BY DEF NothingVanishes, Publish, VerifyAndStrip, cache
<1>4. FilesTyped'
  BY <1>2, TypeOKParts DEF PInv, FilesTyped, Publish, VerifyAndStrip, cache
<1>5. StepsInOrder' /\ JobsTyped'
  <2>1. \/ At(j, "publish") /\ Goto(j, "strip")
        \/ At(j, "strip") /\ (Goto(j, "reload") \/ Goto(j, "failed"))
    BY DEF Publish, VerifyAndStrip
  <2> QED
    BY <2>1, <1>1, <1>3, GotoKeepsOrder
       DEF At, Labels, Compiled, Described, Generated, Wrapping, Packing
<1> QED
  BY <1>4, <1>5, TypeOKParts DEF PInv, FilesTyped, JobsTyped, TypeOK

LEMMA ReloadConfigPreservesPInv ==
  ASSUME PInv, NEW j \in Jobs, ReloadConfig(j)
  PROVE  PInv'
<1> DEFINE tag == Load(job[j].command, src[Plugin(j)])
<1> DEFINE s == [job[j] EXCEPT !.pc = "packer", !.again = tag]
<1>1. job[j] \in Started /\ job[j].pc = "reload" /\ Plugin(j) \in Plugins
  BY StartedJobs DEF PInv, ReloadConfig, At
<1>2. tag \in Tags
  BY <1>1, SourceIsKnown DEF PInv, TypeOK, Started
<1>3. NothingVanishes
  BY DEF NothingVanishes, ReloadConfig, layout, cache
<1>4. FilesTyped'
  BY TypeOKParts DEF PInv, FilesTyped, ReloadConfig, layout, cache
<1>5. job' = [job EXCEPT ![j] = s]
  BY <1>1 DEF ReloadConfig, PInv, TypeOK
<1> HIDE DEF tag
<1>6. s \in Started
  BY <1>1, <1>2 DEF Started, Labels
<1>7. /\ s.pc = "packer" /\ s.command = job[j].command /\ s.plugin = job[j].plugin
      /\ s.md = job[j].md /\ s.again # None
  BY <1>1, <1>2, NoneIsNone DEF Started
<1> HIDE DEF s
<1>8. JobsTyped' /\ job'[j] = s /\ \A k \in Jobs : k # j => job'[k] = job[k]
  BY <1>5, <1>6, JobKeepsType DEF PInv
<1>9. InOrder(j)'
  <2>1. Kept(j)
    BY <1>1, <1>3, <1>7, <1>8, FactsAreKept
  <2>2. Plugin(j)' = Plugin(j)
    BY <1>7, <1>8 DEF Plugin
  <2> QED
    BY <2>1, <2>2, <1>1, <1>7, <1>8
       DEF Kept, InOrder, Compiled, Described, Generated, Wrapping, Packing
<1>10. ASSUME NEW k \in Jobs, k # j PROVE InOrder(k)'
  BY <1>3, <1>8, <1>10, OthersStayInOrder
<1> QED
  BY <1>4, <1>8, <1>9, <1>10 DEF PInv, StepsInOrder, TypeOK, FilesTyped, JobsTyped

\* A step after which a command is over.
LEMMA EndingKeepsOrder ==
  ASSUME PInv, NothingVanishes, NEW j \in Jobs, NEW s \in Started,
         s.pc \in {"packaged", "failed"}, job' = [job EXCEPT ![j] = s]
  PROVE  StepsInOrder' /\ JobsTyped'
<1>1. JobsTyped' /\ job'[j] = s /\ \A k \in Jobs : k # j => job'[k] = job[k]
  BY JobKeepsType DEF PInv
<1>2. InOrder(j)'
  BY <1>1 DEF InOrder, Compiled, Described, Generated, Wrapping, Packing
<1>3. ASSUME NEW k \in Jobs, k # j PROVE InOrder(k)'
  BY <1>1, <1>3, OthersStayInOrder
<1> QED
  BY <1>1, <1>2, <1>3 DEF StepsInOrder

LEMMA PackPreservesPInv ==
  ASSUME PInv, NEW j \in Jobs, Pack(j)
  PROVE  PInv'
<1> DEFINE id == Source[job[j].md].plugin
<1>1. /\ job[j] \in Started /\ job[j].pc = "pack" /\ Plugin(j) \in Plugins
      /\ job[j].md \in Revisions /\ id \in Plugins /\ publish[Plugin(j)] \in Published
  BY StartedJobs, SourceIsKnown
     DEF PInv, TypeOK, StepsInOrder, InOrder, Described, Generated, Wrapping, Packing, Pack, At,
         Started, Complete
<1>2. out' = [out EXCEPT ![id] = Added(out[id], publish[Plugin(j)])]
  BY DEF Pack
<1>3. \A v \in DOMAIN Added(out[id], publish[Plugin(j)]) :
        Added(out[id], publish[Plugin(j)])[v] \in Published
  BY <1>1 DEF Added, PInv, TypeOK
<1>4. out' = [p \in Plugins |-> out'[p]] /\ out'[id] = Added(out[id], publish[Plugin(j)])
  BY <1>1, <1>2 DEF PInv, TypeOK
<1>5. \A p \in Plugins : \A v \in DOMAIN out'[p] : out'[p][v] \in Published
  BY <1>1, <1>2, <1>3, <1>4 DEF PInv, TypeOK
<1>6. FilesTyped'
  BY <1>4, <1>5, TypeOKParts DEF PInv, FilesTyped, Pack, layout, cache
<1>7. NothingVanishes
  BY DEF NothingVanishes, Pack, layout, cache
<1>8. PICK found \in Reported(out'[id], job[j].md) :
        job' = [job EXCEPT ![j].pc = "packaged", ![j].result = found]
  BY DEF Pack
<1>9. found \in Published
  BY <1>1, <1>5 DEF Reported
<1> DEFINE s == [job[j] EXCEPT !.pc = "packaged", !.result = found]
<1>10. s \in Started /\ s.pc = "packaged" /\ job' = [job EXCEPT ![j] = s]
  BY <1>1, <1>8, <1>9 DEF Started, Labels, PInv, TypeOK
<1> HIDE DEF s
<1>11. StepsInOrder' /\ JobsTyped'
  BY <1>7, <1>10, EndingKeepsOrder
<1> QED
  BY <1>6, <1>11, TypeOKParts DEF PInv, FilesTyped, JobsTyped, TypeOK

LEMMA AbortPreservesPInv ==
  ASSUME PInv, NEW j \in Jobs, Abort(j)
  PROVE  PInv'
<1>1. job[j] \in Started
  BY StartedJobs DEF PInv, Abort, Running, Over
<1>2. checkout' \in [Tags -> Checkouts \cup {None}]
  BY <1>1 DEF Abort, PInv, TypeOK, Started
<1>3. FilesTyped'
  BY <1>2, TypeOKParts DEF PInv, FilesTyped, Abort, layout
<1>4. NothingVanishes
  BY DEF NothingVanishes, Abort, layout
<1> DEFINE s == [job[j] EXCEPT !.pc = "failed", !.md = None, !.again = None, !.bindgen = None]
<1>5. s \in Started /\ s.pc = "failed" /\ job' = [job EXCEPT ![j] = s]
  BY <1>1 DEF Abort, Started, Labels, PInv, TypeOK
<1> HIDE DEF s
<1>6. StepsInOrder' /\ JobsTyped'
  BY <1>4, <1>5, EndingKeepsOrder
<1> QED
  BY <1>3, <1>6, TypeOKParts DEF PInv, FilesTyped, JobsTyped, TypeOK

LEMMA StartPreservesPInv ==
  ASSUME PInv, NEW j \in Jobs, Start(j)
  PROVE  PInv'
<1>1. PICK c \in Command[j], p \in Plugins :
        job' = [k \in Jobs |->
                   IF k = j
                   THEN [pc |-> "cargo", command |-> c, plugin |-> p, at |-> src[p],
                         tag |-> Load(c, src[p]), again |-> None, md |-> None,
                         bindgen |-> None, result |-> None,
                         met |-> {i \in Jobs : Running(i)}, edited |-> FALSE]
                   ELSE IF Running(k) THEN [job[k] EXCEPT !.met = @ \cup {j}]
                   ELSE job[k]]
  BY DEF Start
<1>2. c \in Commands /\ src[p] \in Revisions
  BY CommandAssumption DEF PInv, TypeOK
<1>3. job'[j] \in Started /\ job'[j].pc = "cargo"
  <2>1. Load(c, src[p]) \in Tags
    BY <1>2, SourceIsKnown
  <2> QED
    BY <1>1, <1>2, <2>1 DEF Started, Labels
<1>4. ASSUME NEW k \in Jobs, k # j
      PROVE  /\ job'[k] \in Started \cup {Idle} /\ job'[k].pc = job[k].pc
             /\ job[k].pc # "idle" =>
                  /\ job'[k].command = job[k].command /\ job'[k].plugin = job[k].plugin
                  /\ job'[k].md = job[k].md /\ job'[k].again = job[k].again
  <2>1. CASE Running(k)
    <3>1. job[k] \in Started
      BY <2>1, StartedJobs DEF PInv, Running, Over
    <3> DEFINE met == job[k].met \cup {j}
    <3>2. job'[k] = [job[k] EXCEPT !.met = met]
      BY <1>1, <1>4, <2>1
    <3>3. met \in SUBSET Jobs
      BY <3>1 DEF Started
    <3> HIDE DEF met
    <3> QED
      BY <3>1, <3>2, <3>3 DEF Started
  <2>2. CASE ~Running(k)
    BY <1>1, <1>4, <2>2 DEF PInv, TypeOK
  <2> QED
    BY <2>1, <2>2
<1>5. JobsTyped'
  BY <1>1, <1>3, <1>4 DEF JobsTyped
<1>6. NothingVanishes
  BY DEF NothingVanishes, Start, layout, cache
<1>7. FilesTyped'
  BY TypeOKParts DEF PInv, FilesTyped, Start, layout, cache
<1>8. InOrder(j)'
  BY <1>3 DEF InOrder, Compiled, Described, Generated, Wrapping, Packing
<1>9. ASSUME NEW k \in Jobs, k # j PROVE InOrder(k)'
  BY <1>4, <1>6, <1>9, OthersStayInOrder
<1> QED
  BY <1>5, <1>7, <1>8, <1>9 DEF PInv, StepsInOrder, TypeOK, FilesTyped, JobsTyped

LEMMA EditPreservesPInv ==
  ASSUME PInv, NEW p \in Plugins, Edit(p)
  PROVE  PInv'
<1>1. /\ src' \in [Plugins -> Revisions] /\ \A q \in Plugins : src'[q] \in RevisionsOf(q)
  BY DEF Edit, PInv, TypeOK, RevisionsOf
<1>2. FilesTyped'
  BY <1>1, TypeOKParts DEF PInv, FilesTyped, Edit, layout, cache
<1>3. ASSUME NEW k \in Jobs
      PROVE  /\ job'[k] \in Started \cup {Idle} /\ job'[k].pc = job[k].pc
             /\ job[k].pc # "idle" =>
                  /\ job'[k].command = job[k].command /\ job'[k].plugin = job[k].plugin
                  /\ job'[k].md = job[k].md /\ job'[k].again = job[k].again
  <2>1. CASE Running(k) /\ Plugin(k) = p
    <3>1. job[k] \in Started
      BY <2>1, StartedJobs DEF PInv, Running, Over
    <3>2. job'[k] = [job[k] EXCEPT !.edited = TRUE]
      BY <2>1 DEF Edit
    <3> QED
      BY <3>1, <3>2 DEF Started
  <2>2. CASE ~(Running(k) /\ Plugin(k) = p)
    BY <2>2 DEF Edit, PInv, TypeOK
  <2> QED
    BY <2>1, <2>2
<1>4. JobsTyped'
  BY <1>3 DEF JobsTyped, Edit
<1>5. NothingVanishes
  BY DEF NothingVanishes, Edit, layout, cache
<1>6. StepsInOrder'
  BY <1>3, <1>5, OthersStayInOrder DEF StepsInOrder
<1> QED
  BY <1>2, <1>4, <1>6 DEF PInv, TypeOK, FilesTyped, JobsTyped

LEMMA StepPreservesPInv == PInv /\ [Next]_vars => PInv'
<1> SUFFICES ASSUME PInv, [Next]_vars PROVE PInv'
  OBVIOUS
<1>1. CASE UNCHANGED vars
  <2>1. TypeOK'
    BY <1>1 DEF vars, layout, cache, PInv, TypeOK
  <2>2. ASSUME NEW k \in Jobs PROVE InOrder(k)'
    BY <1>1, OthersStayInOrder DEF vars, layout, cache, NothingVanishes
  <2> QED
    BY <2>1, <2>2 DEF PInv, StepsInOrder
<1>2. ASSUME NEW j \in Jobs, Step(j) PROVE PInv'
  BY <1>2, StartPreservesPInv, CargoBuildPreservesPInv, QuietStepsPreservePInv,
     ReadMetadataPreservesPInv, HostStepsPreservePInv, EnsureBindgenPreservesPInv,
     GenerateBindingsPreservesPInv, GenerateShimPreservesPInv, CloneStepsPreservePInv,
     PublishPreservesPInv, ReloadConfigPreservesPInv, BuildPackerPreservesPInv,
     PackerBuiltPreservesPInv, PackPreservesPInv, AbortPreservesPInv
     DEF Step
<1>3. ASSUME NEW p \in Plugins, Edit(p) PROVE PInv'
  BY <1>3, EditPreservesPInv
<1> QED
  BY <1>1, <1>2, <1>3 DEF Next

\* Every variable keeps its type, with any number of commands, plugins and edits.
THEOREM TypeCorrect == Spec => []TypeOK
<1>1. PInv => TypeOK
  BY DEF PInv
<1> QED
  BY <1>1, InitEstablishesPInv, StepPreservesPInv, PTL DEF Spec

-----------------------------------------------------------------------------
(* What goes into a package made with --docker.                            *)

Docker(j) == job[j].command = "package --docker"

\* No other command for the plugin has run since this one began.
Calm(j) == \A k \in job[j].met : Plugin(k) # Plugin(j)

\* Commands that run at once know of each other, and of none that did not run.
Acquainted ==
    \A j, k \in Jobs :
        /\ Running(j) /\ Running(k) /\ j # k => k \in job[j].met
        /\ job[j].pc # "idle" /\ k \in job[j].met => job[k].pc # "idle"

\* In the target directory of a plugin there is only a library of that plugin.
LibrariesAtHome ==
    \A p \in Plugins, profile \in Profiles :
        lib[<<TargetKey(p), profile>>] \in RevisionsOf(p) \cup {None}

Assembling == {"strip", "reload"} \cup Packing

\* The parts a command in docker has made so far are of its own plugin.
OwnParts(j) ==
    /\ job[j].pc \in Described => job[j].md \in RevisionsOf(Plugin(j))
    /\ Calm(j) /\ job[j].pc \in Wrapping => shim[Plugin(j)].projects[Plugin(j)] = job[j].md
    /\ Calm(j) /\ job[j].pc \in Assembling =>
         /\ publish[Plugin(j)] # None
         /\ publish[Plugin(j)].project = job[j].md
         /\ Source[publish[Plugin(j)].lib].plugin = Plugin(j)
    /\ Calm(j) /\ job[j].pc = "packaged" /\ PlainlyVersioned(j)
         => Source[job[j].result.lib].plugin = Plugin(j)

DInv ==
    /\ PInv /\ Acquainted /\ LibrariesAtHome
    /\ \A j \in Jobs : job[j].pc # "idle" /\ Docker(j) => OwnParts(j)

\* A step of a command, but its start: of the others' places and its own
\* circumstances nothing changes.
LEMMA StepsAreLocal ==
  ASSUME PInv, NEW j \in Jobs, Step(j), ~Start(j)
  PROVE  /\ Running(j) /\ job'[j].pc # "idle"
         /\ job'[j].command = job[j].command /\ job'[j].plugin = job[j].plugin
         /\ job'[j].met = job[j].met /\ job'[j].tag = job[j].tag
         /\ job'[j].at = job[j].at /\ job'[j].edited = job[j].edited
         /\ \A k \in Jobs : k # j => job'[k] = job[k]
         /\ \A p \in Plugins : p # job[j].plugin => shim'[p] = shim[p] /\ publish'[p] = publish[p]
<1> USE DEF PInv, TypeOK
<1>1. Running(j)
  BY DEF Step, CargoBuild, NativeDependencies, ReadMetadata, Materialise, EnsureBindgen,
         InstallBindgen, GenerateBindings, GenerateShim, EnsureBtcpayserver, ClearCheckout,
         StartClone, Cloning, BuildWrapper, CleanPublishDir, Publish, VerifyAndStrip,
         ReloadConfig, EnsurePluginPacker, BuildPacker, PackerBuilt, Pack, Abort, At,
         Running, Over
<1>2. job[j] \in Started /\ job[j].plugin \in Plugins
  BY <1>1, StartedJobs DEF Running, Over, Started
<1>3. \A p \in Plugins : p # job[j].plugin => shim'[p] = shim[p] /\ publish'[p] = publish[p]
  BY <1>2
     DEF Step, CargoBuild, NativeDependencies, ReadMetadata, Materialise, EnsureBindgen,
         InstallBindgen, GenerateBindings, GenerateShim, EnsureBtcpayserver, ClearCheckout,
         StartClone, Cloning, BuildWrapper, CleanPublishDir, Publish, VerifyAndStrip,
         ReloadConfig, EnsurePluginPacker, BuildPacker, PackerBuilt, Pack, Abort, Plugin, layout
<1> DEFINE Local == /\ job'[j].pc # "idle"
                    /\ job'[j].command = job[j].command /\ job'[j].plugin = job[j].plugin
                    /\ job'[j].met = job[j].met /\ job'[j].tag = job[j].tag
                    /\ job'[j].at = job[j].at /\ job'[j].edited = job[j].edited
                    /\ \A k \in Jobs : k # j => job'[k] = job[k]
<1>4. ASSUME NEW l \in Labels, Goto(j, l) PROVE Local
  BY <1>2, <1>4 DEF Goto, Started, Labels
<1>5. Local
  <2>1. CASE EnsureBindgen(j) \/ InstallBindgen(j)
    <3>1. CASE Goto(j, "install")
      BY <3>1, <1>4 DEF Labels
    <3>2. ASSUME NEW from \in {"cached", "on PATH"},
                 job' = [job EXCEPT ![j].pc = "generate", ![j].bindgen = from]
          PROVE  Local
      BY <3>2, <1>2 DEF Started
    <3> QED
      BY <2>1, <3>1, <3>2 DEF EnsureBindgen, InstallBindgen
  <2>2. CASE ReadMetadata(j)
    BY <2>2, <1>2 DEF ReadMetadata, Started
  <2>3. CASE GenerateBindings(j)
    <3>1. PICK l \in {"failed", "shim"} : job' = [job EXCEPT ![j].pc = l, ![j].bindgen = None]
      BY <2>3 DEF GenerateBindings
    <3> QED
      BY <3>1, <1>2 DEF Started
  <2>4. CASE ReloadConfig(j)
    BY <2>4, <1>2 DEF ReloadConfig, Started
  <2>5. CASE Pack(j)
    <3>1. PICK found : job' = [job EXCEPT ![j].pc = "packaged", ![j].result = found]
      BY <2>5 DEF Pack
    <3> QED
      BY <3>1, <1>2 DEF Started
  <2>6. CASE Abort(j)
    BY <2>6, <1>2 DEF Abort, Started
  <2>7. CASE Cloning(j)
    BY <2>7, <1>1, <1>2, <1>4 DEF Cloning, Labels, Running, Over
  <2>8. CASE \E l \in Labels : Goto(j, l)
    BY <2>8, <1>4
  <2>9. \/ CargoBuild(j) \/ NativeDependencies(j) \/ Materialise(j) \/ GenerateShim(j)
        \/ EnsureBtcpayserver(j) \/ ClearCheckout(j) \/ StartClone(j) \/ BuildWrapper(j)
        \/ CleanPublishDir(j) \/ Publish(j) \/ VerifyAndStrip(j) \/ EnsurePluginPacker(j)
        \/ BuildPacker(j) \/ PackerBuilt(j)
        => \E l \in Labels : Goto(j, l)
    <3>1. NativeDependencies(j) => Goto(j, "failed") \/ Goto(j, "metadata")
      BY DEF NativeDependencies
    <3>2. BuildWrapper(j) => Goto(j, "clean") \/ Goto(j, "built")
      BY DEF BuildWrapper
    <3>3. EnsurePluginPacker(j) => Goto(j, "pack") \/ Goto(j, "packing tool")
      BY DEF EnsurePluginPacker
    <3> QED
      BY <3>1, <3>2, <3>3
         DEF CargoBuild, Materialise, GenerateShim, EnsureBtcpayserver, ClearCheckout, StartClone,
             CleanPublishDir, Publish, VerifyAndStrip, BuildPacker, PackerBuilt, Labels
  <2> QED
    BY <2>1, <2>2, <2>3, <2>4, <2>5, <2>6, <2>7, <2>8, <2>9 DEF Step
<1> QED
  BY <1>1, <1>3, <1>5

\* The start of a command: the others that run meet it.
LEMMA StartsMeet ==
  ASSUME PInv, NEW j \in Jobs, Start(j)
  PROVE  /\ job[j].pc = "idle" /\ job'[j].pc = "cargo"
         /\ job'[j].met = {i \in Jobs : Running(i)}
         /\ \A k \in Jobs : k # j =>
              /\ job'[k].pc = job[k].pc
              /\ Running(k) => job'[k].met = job[k].met \cup {j}
              /\ ~Running(k) => job'[k] = job[k]
              /\ job[k].pc # "idle" =>
                   /\ job'[k].command = job[k].command /\ job'[k].plugin = job[k].plugin
                   /\ job'[k].md = job[k].md /\ job'[k].result = job[k].result
                   /\ job'[k].tag = job[k].tag /\ job'[k].again = job[k].again
                   /\ job'[k].at = job[k].at /\ job'[k].edited = job[k].edited
                   /\ job'[k].bindgen = job[k].bindgen
                   /\ job[k].met \subseteq job'[k].met
<1>1. ASSUME NEW k \in Jobs, k # j, Running(k)
      PROVE  /\ job'[k].pc = job[k].pc
             /\ job'[k].met = job[k].met \cup {j}
             /\ job'[k].command = job[k].command /\ job'[k].plugin = job[k].plugin
             /\ job'[k].md = job[k].md /\ job'[k].result = job[k].result
             /\ job'[k].tag = job[k].tag /\ job'[k].again = job[k].again
             /\ job'[k].at = job[k].at /\ job'[k].edited = job[k].edited
             /\ job'[k].bindgen = job[k].bindgen
  <2>1. job[k] \in Started
    BY <1>1, StartedJobs DEF PInv, Running, Over
  <2>2. job'[k] = [job[k] EXCEPT !.met = @ \cup {j}]
    BY <1>1 DEF Start
  <2> QED
    BY <2>1, <2>2 DEF Started
<1>2. ASSUME NEW k \in Jobs, k # j, ~Running(k) PROVE job'[k] = job[k]
  BY <1>2 DEF Start
<1>3. job[j].pc = "idle" /\ job'[j].pc = "cargo" /\ job'[j].met = {i \in Jobs : Running(i)}
  BY DEF Start, At
<1> QED
  BY <1>1, <1>2, <1>3

LEMMA EditsKeepCommands ==
  ASSUME PInv, NEW p \in Plugins, Edit(p), NEW k \in Jobs
  PROVE  /\ job'[k].pc = job[k].pc
         /\ job[k].pc # "idle" =>
              /\ job'[k].command = job[k].command /\ job'[k].plugin = job[k].plugin
              /\ job'[k].md = job[k].md /\ job'[k].result = job[k].result
              /\ job'[k].met = job[k].met /\ job'[k].bindgen = job[k].bindgen
              /\ job'[k].tag = job[k].tag /\ job'[k].again = job[k].again
              /\ job'[k].at = job[k].at
              /\ job'[k].edited = IF Running(k) /\ Plugin(k) = p THEN TRUE ELSE job[k].edited
<1>1. CASE Running(k) /\ Plugin(k) = p
  <2>1. job[k] \in Started /\ job'[k] = [job[k] EXCEPT !.edited = TRUE]
    BY <1>1, StartedJobs DEF PInv, Running, Over, Edit
  <2> QED
    BY <1>1, <2>1 DEF Started
<1>2. CASE ~(Running(k) /\ Plugin(k) = p)
  BY <1>2 DEF Edit
<1> QED
  BY <1>1, <1>2

LEMMA CommandsStayAcquainted == PInv /\ Acquainted /\ [Next]_vars => Acquainted'
<1> SUFFICES ASSUME PInv, Acquainted, [Next]_vars, NEW a \in Jobs, NEW b \in Jobs
             PROVE  /\ Running(a)' /\ Running(b)' /\ a # b => b \in job'[a].met
                    /\ job'[a].pc # "idle" /\ b \in job'[a].met => job'[b].pc # "idle"
  BY DEF Acquainted
<1>0. /\ Running(a) /\ Running(b) /\ a # b => b \in job[a].met
      /\ job[a].pc # "idle" /\ b \in job[a].met => job[b].pc # "idle"
  BY DEF Acquainted
<1>1. CASE UNCHANGED vars
  BY <1>0, <1>1 DEF vars, Running
<1>2. ASSUME NEW j \in Jobs, Step(j), ~Start(j)
      PROVE  /\ Running(a)' /\ Running(b)' /\ a # b => b \in job'[a].met
             /\ job'[a].pc # "idle" /\ b \in job'[a].met => job'[b].pc # "idle"
  BY <1>0, <1>2, StepsAreLocal DEF Running, Over
<1>3. ASSUME NEW j \in Jobs, Start(j)
      PROVE  /\ Running(a)' /\ Running(b)' /\ a # b => b \in job'[a].met
             /\ job'[a].pc # "idle" /\ b \in job'[a].met => job'[b].pc # "idle"
  <2>1. CASE a = j
    BY <2>1, <1>3, StartsMeet DEF Running, Over
  <2>2. CASE a # j
    <3>1. CASE Running(a)
      BY <2>2, <3>1, <1>0, <1>3, StartsMeet DEF Running, Over
    <3>2. CASE ~Running(a)
      BY <2>2, <3>2, <1>0, <1>3, StartsMeet DEF Running, Over
    <3> QED
      BY <3>1, <3>2
  <2> QED
    BY <2>1, <2>2
<1>4. ASSUME NEW p \in Plugins, Edit(p)
      PROVE  /\ Running(a)' /\ Running(b)' /\ a # b => b \in job'[a].met
             /\ job'[a].pc # "idle" /\ b \in job'[a].met => job'[b].pc # "idle"
  <2>1. /\ job'[a].pc = job[a].pc /\ job'[b].pc = job[b].pc
        /\ job[a].pc # "idle" => job'[a].met = job[a].met
    BY <1>4, EditsKeepCommands
  <2> QED
    BY <1>0, <2>1 DEF Running, Over
<1> QED
  BY <1>1, <1>2, <1>3, <1>4 DEF Next, Step

LEMMA LibrariesStayAtHome == PInv /\ LibrariesAtHome /\ [Next]_vars => LibrariesAtHome'
<1> SUFFICES ASSUME PInv, LibrariesAtHome, [Next]_vars,
                    NEW p \in Plugins, NEW profile \in Profiles
             PROVE  lib'[<<TargetKey(p), profile>>] \in RevisionsOf(p) \cup {None}
  BY DEF LibrariesAtHome, TargetKey
<1> DEFINE x == <<TargetKey(p), profile>>
<1>1. lib[x] \in RevisionsOf(p) \cup {None} /\ x \in Dirs \X Profiles
  BY DEF LibrariesAtHome, TargetKey, Dirs
<1>2. CASE lib' = lib
  BY <1>1, <1>2
<1>3. ASSUME NEW j \in Jobs, CargoBuild(j)
      PROVE  lib'[x] \in RevisionsOf(p) \cup {None}
  <2>1. /\ lib' = [lib EXCEPT ![LibraryPath(j)] = src[Plugin(j)]] /\ Plugin(j) \in Plugins
        /\ LibraryPath(j) \in Dirs \X Profiles
    BY <1>3, StartedJobs DEF CargoBuild, At, PInv
  <2>2. CASE LibraryPath(j) = x
    <3>1. Plugin(j) = p
      BY <2>2 DEF LibraryPath, CargoTargetDir, TargetKey, Plugin
    <3>2. lib'[x] = src[p]
      BY <2>1, <2>2, <3>1, <1>1 DEF PInv, TypeOK
    <3> QED
      BY <3>2 DEF PInv, TypeOK
  <2>3. CASE LibraryPath(j) # x
    BY <2>1, <2>3, <1>1 DEF PInv, TypeOK
  <2> QED
    BY <2>2, <2>3
<1>4. lib' = lib \/ \E j \in Jobs : CargoBuild(j)
  BY DEF Next, vars, Edit, Step, Start, NativeDependencies, ReadMetadata, Materialise,
         EnsureBindgen, InstallBindgen, GenerateBindings, GenerateShim, EnsureBtcpayserver,
         ClearCheckout, StartClone, Cloning, BuildWrapper, CleanPublishDir, Publish,
         VerifyAndStrip, ReloadConfig, EnsurePluginPacker, BuildPacker, PackerBuilt, Pack, Abort
<1> QED
  BY <1>2, <1>3, <1>4

\* Commands keep their plugin, so who is calm after a step was so before it.
LEMMA CalmIsNotRegained ==
  ASSUME PInv, Acquainted, NEW j \in Jobs, job[j].pc # "idle", Calm(j)',
         job[j].met \subseteq job'[j].met,
         \A k \in Jobs : job[k].pc # "idle" => job'[k].plugin = job[k].plugin
  PROVE  Calm(j)
<1>1. job[j].met \subseteq Jobs
  BY StartedJobs DEF PInv, Started
<1> QED
  BY <1>1 DEF Calm, Plugin, Acquainted

LEMMA OthersKeepOwnParts ==
  ASSUME DInv, [Next]_vars, NEW j \in Jobs, job[j].pc # "idle", ~Step(j), Docker(j)'
  PROVE  OwnParts(j)'
<1> USE DEF DInv
<1> DEFINE Frame ==
        /\ job'[j].pc = job[j].pc /\ job'[j].plugin = job[j].plugin
        /\ job'[j].command = job[j].command
        /\ job'[j].md = job[j].md /\ job'[j].result = job[j].result
        /\ job[j].met \subseteq job'[j].met
        /\ \A k \in Jobs : job[k].pc # "idle" => job'[k].plugin = job[k].plugin
        /\ Calm(j) /\ Running(j) =>
             shim'[Plugin(j)] = shim[Plugin(j)] /\ publish'[Plugin(j)] = publish[Plugin(j)]
<1>1. Frame
  <2>0. Plugin(j) \in Plugins
    BY StartedJobs DEF PInv
  <2>1. CASE UNCHANGED vars
    BY <2>1 DEF vars, layout
  <2>2. ASSUME NEW k \in Jobs, Start(k) PROVE Frame
    BY <2>2, StartsMeet DEF Step, Start, layout
  <2>3. ASSUME NEW k \in Jobs, Step(k), ~Start(k) PROVE Frame
    <3>1. Calm(j) /\ Running(j) => job[k].plugin # Plugin(j)
      BY <2>3, StepsAreLocal DEF Acquainted, Calm, Plugin
    <3> QED
      BY <2>0, <2>3, <3>1, StepsAreLocal
  <2>4. ASSUME NEW p \in Plugins, Edit(p) PROVE Frame
    <3>1. UNCHANGED layout
      BY <2>4 DEF Edit
    <3> QED
      BY <2>4, <3>1, EditsKeepCommands DEF layout
  <2> QED
    BY <2>1, <2>2, <2>3, <2>4 DEF Next
<1>2. Docker(j) /\ OwnParts(j)
  BY <1>1 DEF Docker
<1>3. Calm(j)' => Calm(j)
  BY <1>1, CalmIsNotRegained
<1>4. Running(j) \/ job[j].pc \in Over
  BY DEF Running
<1> QED
  BY <1>1, <1>2, <1>3, <1>4
     DEF OwnParts, Plugin, PlainlyVersioned, Over, Described, Generated, Wrapping, Assembling, Packing

LEMMA OwnStepsKeepOwnParts ==
  ASSUME DInv, NEW j \in Jobs, Step(j), Docker(j)'
  PROVE  OwnParts(j)'
<1> USE DEF DInv
<1>1. CASE Start(j)
  BY <1>1, StartsMeet
     DEF OwnParts, Described, Generated, Wrapping, Assembling, Packing
<1>2. CASE ~Start(j)
  <2>1. /\ Running(j) /\ job'[j].pc # "idle" /\ job[j].pc # "idle"
        /\ job'[j].command = job[j].command /\ job'[j].plugin = job[j].plugin
        /\ job'[j].met = job[j].met
        /\ \A k \in Jobs : k # j => job'[k] = job[k]
    BY <1>2, StepsAreLocal DEF Running, Over
  <2>2. /\ job[j] \in Started /\ Plugin(j) \in Plugins /\ InOrder(j) /\ OwnParts(j) /\ Docker(j)
    BY <2>1, StartedJobs DEF PInv, StepsInOrder, Docker
  <2>3. (Calm(j)' => Calm(j)) /\ Plugin(j)' = Plugin(j)
    <3>1. \A k \in Jobs : job'[k].plugin = job[k].plugin
      BY <2>1
    <3> QED
      BY <2>1, <3>1, CalmIsNotRegained DEF Plugin
  <2>4. job[j].pc \in Compiled => Library(j) \in RevisionsOf(Plugin(j))
    BY <2>2 DEF InOrder, LibrariesAtHome, Library, LibraryPath, CargoTargetDir, Docker, Plugin,
                Profile, Profiles
  <2>5. CASE job'[j].pc \notin Described \cup {"packaged"}
    BY <2>5 DEF OwnParts, Described, Generated, Wrapping, Assembling, Packing
  <2>6. CASE ReadMetadata(j)
    <3>1. job'[j].pc = "materialise" /\ job'[j].md = Library(j) /\ job[j].pc \in Compiled
      BY <2>2, <2>6 DEF ReadMetadata, PInv, TypeOK, Started, At, Compiled
    <3> QED
      BY <3>1, <2>3, <2>4
         DEF OwnParts, Described, Generated, Wrapping, Assembling, Packing
  <2>7. CASE GenerateShim(j)
    <3>1. job'[j].pc = "checkout" /\ job'[j].md = job[j].md /\ job[j].md \in RevisionsOf(Plugin(j))
      BY <2>2, <2>7
         DEF GenerateShim, Goto, PInv, TypeOK, Started, At, OwnParts, Described, Generated
    <3>2. shim'[Plugin(j)].projects[Plugin(j)] = job[j].md
      BY <2>2, <2>7, <3>1 DEF GenerateShim, Shim, Shims, RevisionsOf, PInv, TypeOK
    <3> QED
      BY <3>1, <3>2, <2>3
         DEF OwnParts, Described, Generated, Wrapping, Assembling, Packing
  <2>8. CASE Publish(j)
    <3>1. /\ job'[j].pc = "strip" /\ job'[j].md = job[j].md /\ job[j].md \in RevisionsOf(Plugin(j))
          /\ Library(j) \in RevisionsOf(Plugin(j))
      BY <2>2, <2>4, <2>8
         DEF Publish, Goto, PInv, TypeOK, Started, At, OwnParts, Compiled, Described, Generated,
             Wrapping
    <3>2. shim' = shim /\ (Calm(j) => shim[Plugin(j)].projects[Plugin(j)] = job[j].md)
      BY <2>2, <2>8 DEF Publish, At, OwnParts, Wrapping
    <3>3. /\ publish'[Plugin(j)].lib = Library(j)
          /\ publish'[Plugin(j)].project = shim[Plugin(j)].projects[Plugin(j)]
      BY <2>2, <2>8, <3>1 DEF Publish, RevisionsOf, PInv, TypeOK
    <3>4. publish'[Plugin(j)] # None
      BY <2>8, PublishedIsWhole, FilesAssumption
    <3> QED
      BY <3>1, <3>2, <3>3, <3>4, <2>3
         DEF OwnParts, RevisionsOf, Described, Generated, Wrapping, Assembling, Packing
  <2>9. CASE VerifyAndStrip(j) /\ job'[j].pc \in Described \cup {"packaged"}
    <3>1. job[j].pc = "strip" /\ (Goto(j, "failed") \/ (Complete(j) /\ Goto(j, "reload")))
      BY <2>9 DEF VerifyAndStrip, At
    <3>2. "failed" \notin Described \cup {"packaged"}
      BY DEF Described, Generated, Wrapping, Packing
    <3>3. ~Goto(j, "failed")
      <4>1. Goto(j, "failed") => job'[j].pc = "failed"
        BY <2>1, GotoKeepsType DEF PInv, Labels
      <4> QED
        BY <4>1, <2>9, <3>2
    <3>4. job'[j].pc = "reload" /\ job'[j].md = job[j].md
      BY <2>1, <3>1, <3>3, GotoKeepsType DEF PInv, Labels
    <3>5. publish[Plugin(j)] \in Published
      BY <2>2, <3>1, <3>3 DEF Complete, PInv, TypeOK
    <3>6. /\ publish'[Plugin(j)].lib = publish[Plugin(j)].lib
          /\ publish'[Plugin(j)].project = publish[Plugin(j)].project
          /\ publish'[Plugin(j)] \in Published
      <4>1. CASE UNCHANGED publish
        BY <4>1, <3>5
      <4>2. CASE publish' = [publish EXCEPT ![Plugin(j)].stripped = TRUE]
        <5>1. publish'[Plugin(j)] = [publish[Plugin(j)] EXCEPT !.stripped = TRUE]
          BY <4>2, <2>2 DEF PInv, TypeOK
        <5> QED
          BY <5>1, <3>5 DEF Published
      <4> QED
        BY <2>9, <4>1, <4>2 DEF VerifyAndStrip
    <3>7. shim' = shim
      BY <2>9 DEF VerifyAndStrip
    <3> QED
      BY <3>1, <3>4, <3>6, <3>7, <2>2, <2>3, FilesAssumption
         DEF OwnParts, Described, Generated, Wrapping, Assembling, Packing
  <2>10. CASE Pack(j)
    <3> DEFINE id == Source[job[j].md].plugin
    <3> DEFINE packages == Added(out[id], publish[Plugin(j)])
    <3>1. PICK found \in Reported(out'[id], job[j].md) :
            job' = [job EXCEPT ![j].pc = "packaged", ![j].result = found]
      BY <2>10 DEF Pack
    <3>2. /\ job[j].pc = "pack" /\ job[j].md \in RevisionsOf(Plugin(j)) /\ id = Plugin(j)
      BY <2>2, <2>10
         DEF Pack, At, OwnParts, Described, Generated, Wrapping, Packing, RevisionsOf
    <3>3. job'[j].pc = "packaged" /\ job'[j].md = job[j].md /\ job'[j].result = found
      BY <3>1, <2>2 DEF PInv, TypeOK, Started
    <3>4. out'[id] = packages
      BY <3>2, <2>2, <2>10 DEF Pack, PInv, TypeOK
    <3>5. CASE Calm(j) /\ PlainlyVersioned(j)
      <4>1. publish[Plugin(j)].project = job[j].md /\ Source[publish[Plugin(j)].lib].plugin = Plugin(j)
        BY <3>2, <3>5, <2>2 DEF OwnParts, Assembling, Packing
      <4>2. packages[Source[job[j].md].version] = publish[Plugin(j)]
            /\ Source[job[j].md].version \in DOMAIN packages
        BY <4>1 DEF Added
      <4>3. found = publish[Plugin(j)]
        BY <3>4, <3>5, <4>2 DEF Reported, PlainlyVersioned
      <4> QED
        BY <3>3, <4>1, <4>3, <2>3
           DEF OwnParts, Described, Generated, Wrapping, Assembling, Packing
    <3>6. CASE ~(Calm(j) /\ PlainlyVersioned(j))
      BY <3>3, <3>6, <2>3
         DEF OwnParts, Described, Generated, Wrapping, Assembling, Packing, PlainlyVersioned
    <3> QED
      BY <3>5, <3>6
  <2>11. CASE /\ job'[j].pc \in Described \cup {"packaged"}
              /\ ~ReadMetadata(j) /\ ~GenerateShim(j) /\ ~Publish(j) /\ ~VerifyAndStrip(j) /\ ~Pack(j)
    <3> DEFINE Ahead == /\ job'[j].md = job[j].md /\ job'[j].pc # "packaged"
                        /\ job[j].pc \in Described
                        /\ job'[j].pc \in Wrapping => job[j].pc \in Wrapping /\ shim' = shim
                        /\ job'[j].pc \in Assembling => job[j].pc \in Assembling /\ publish' = publish
    <3>1. Ahead
      <4>1. ASSUME NEW l \in Labels, Goto(j, l)
            PROVE  job'[j].pc = l /\ job'[j].md = job[j].md
        BY <2>1, <4>1, GotoKeepsType DEF PInv
      <4>2. CASE CargoBuild(j) \/ NativeDependencies(j)
        <5>1. Goto(j, "native") \/ Goto(j, "failed") \/ Goto(j, "metadata")
          BY <4>2 DEF CargoBuild, NativeDependencies
        <5> QED
          BY <4>1, <5>1, <2>11 DEF Labels, Described, Generated, Wrapping, Packing
      <4>3. CASE Abort(j)
        <5>1. job'[j].pc = "failed"
          BY <4>3, <2>2 DEF Abort, PInv, TypeOK, Started
        <5> QED
          BY <5>1, <2>11 DEF Described, Generated, Wrapping, Packing
      <4>4. CASE Materialise(j)
        BY <4>4, <4>1
           DEF Materialise, At, Labels, Described, Generated, Wrapping, Assembling, Packing
      <4>5. CASE EnsureBindgen(j) \/ InstallBindgen(j)
        <5>1. job[j].pc \in {"bindgen", "install"}
          BY <4>5 DEF EnsureBindgen, InstallBindgen, At
        <5>2. job'[j].pc \in {"generate", "install"} /\ job'[j].md = job[j].md
          <6>1. CASE Goto(j, "install")
            BY <6>1, <4>1 DEF Labels
          <6>2. ASSUME NEW from \in {"cached", "on PATH"},
                       job' = [job EXCEPT ![j].pc = "generate", ![j].bindgen = from]
                PROVE  job'[j].pc \in {"generate", "install"} /\ job'[j].md = job[j].md
            BY <6>2, <2>2 DEF PInv, TypeOK, Started
          <6> QED
            BY <4>5, <6>1, <6>2 DEF EnsureBindgen, InstallBindgen
        <5> QED
          BY <5>1, <5>2 DEF Described, Generated, Wrapping, Assembling, Packing
      <4>6. CASE GenerateBindings(j)
        <5>1. PICK l \in {"failed", "shim"} : job' = [job EXCEPT ![j].pc = l, ![j].bindgen = None]
          BY <4>6 DEF GenerateBindings
        <5>2. job'[j].pc = l /\ job'[j].md = job[j].md
          BY <5>1, <2>2 DEF PInv, TypeOK, Started
        <5> QED
          BY <4>6, <5>2
             DEF GenerateBindings, At, Described, Generated, Wrapping, Assembling, Packing
      <4>7. CASE \/ EnsureBtcpayserver(j) \/ ClearCheckout(j) \/ StartClone(j) \/ Cloning(j)
                 \/ BuildWrapper(j) \/ CleanPublishDir(j)
        <5>1. job[j].pc \in {"checkout", "clear", "clone", "cloning", "wrapper", "clean"} /\ shim' = shim
          BY <4>7 DEF EnsureBtcpayserver, ClearCheckout, StartClone, Cloning, BuildWrapper,
                      CleanPublishDir, At, layout
        <5>2. \/ job' = job
              \/ \E l \in {"wrapper", "clear", "clone", "cloning", "clean", "built", "publish"} :
                   Goto(j, l)
          <6>1. BuildWrapper(j) => Goto(j, "clean") \/ Goto(j, "built")
            BY DEF BuildWrapper
          <6> QED
            BY <4>7, <6>1 DEF EnsureBtcpayserver, ClearCheckout, StartClone, Cloning, CleanPublishDir
        <5>3. /\ job'[j].md = job[j].md
              /\ job'[j].pc \in {"checkout", "wrapper", "clear", "clone", "cloning", "clean", "built",
                                 "publish"}
          BY <4>1, <5>1, <5>2 DEF Labels
        <5> QED
          BY <5>1, <5>3 DEF Described, Generated, Wrapping, Assembling, Packing
      <4>8. CASE ReloadConfig(j)
        <5>1. job'[j].pc = "packer" /\ job'[j].md = job[j].md
          BY <4>8, <2>2 DEF ReloadConfig, PInv, TypeOK, Started
        <5> QED
          BY <4>8, <5>1
             DEF ReloadConfig, At, layout, Described, Generated, Wrapping, Assembling, Packing
      <4>9. CASE EnsurePluginPacker(j) \/ BuildPacker(j) \/ PackerBuilt(j)
        <5>1. job[j].pc \in Packing /\ shim' = shim /\ publish' = publish
          BY <4>9 DEF EnsurePluginPacker, BuildPacker, PackerBuilt, At, layout, Packing
        <5>2. \E l \in Packing : Goto(j, l)
          <6>1. EnsurePluginPacker(j) => Goto(j, "pack") \/ Goto(j, "packing tool")
            BY DEF EnsurePluginPacker
          <6> QED
            BY <4>9, <6>1 DEF BuildPacker, PackerBuilt, Packing
        <5>3. job'[j].md = job[j].md /\ job'[j].pc \in Packing
          BY <4>1, <5>2 DEF Labels, Packing
        <5> QED
          BY <5>1, <5>3 DEF Described, Generated, Wrapping, Assembling, Packing
      <4> QED
        BY <1>2, <2>11, <4>2, <4>3, <4>4, <4>5, <4>6, <4>7, <4>8, <4>9 DEF Step
    <3> QED
      BY <3>1, <2>2, <2>3 DEF OwnParts
  <2> QED
    BY <2>5, <2>6, <2>7, <2>8, <2>9, <2>10, <2>11
<1> QED
  BY <1>1, <1>2

LEMMA InitEstablishesDInv == Init => DInv
<1> SUFFICES ASSUME Init PROVE DInv
  OBVIOUS
<1>1. Acquainted /\ \A j \in Jobs : job[j].pc = "idle"
  BY DEF Init, Acquainted, Idle, Running, Over
<1>2. LibrariesAtHome
  BY DEF Init, LibrariesAtHome, TargetKey, Dirs
<1> QED
  BY <1>1, <1>2, InitEstablishesPInv DEF DInv

LEMMA StepPreservesDInv == DInv /\ [Next]_vars => DInv'
<1> SUFFICES ASSUME DInv, [Next]_vars PROVE DInv'
  OBVIOUS
<1>1. PInv' /\ Acquainted' /\ LibrariesAtHome'
  BY StepPreservesPInv, CommandsStayAcquainted, LibrariesStayAtHome DEF DInv
<1>2. ASSUME NEW j \in Jobs, job'[j].pc # "idle", Docker(j)' PROVE OwnParts(j)'
  <2>1. CASE Step(j)
    BY <1>2, <2>1, OwnStepsKeepOwnParts
  <2>2. CASE ~Step(j)
    <3>1. job[j].pc # "idle"
      <4>1. CASE UNCHANGED vars
        BY <4>1, <1>2 DEF vars
      <4>2. ASSUME NEW k \in Jobs, Step(k) PROVE job'[j].pc = job[j].pc
        BY <2>2, <4>2, StepsAreLocal, StartsMeet DEF DInv, Step
      <4>3. ASSUME NEW p \in Plugins, Edit(p) PROVE job'[j].pc = job[j].pc
        BY <4>3, EditsKeepCommands DEF DInv
      <4> QED
        BY <1>2, <4>1, <4>2, <4>3 DEF Next
    <3> QED
      BY <1>2, <2>2, <3>1, OthersKeepOwnParts
  <2> QED
    BY <2>1, <2>2
<1> QED
  BY <1>1, <1>2 DEF DInv

\* With --docker, whatever members of one workspace are built at the same time and
\* however often their sources change, no plugin is packaged with another's library.
THEOREM DockerPackagesHoldTheirOwnLibraryAlways ==
  Spec => []DockerPackagesHoldTheirOwnLibrary
<1>1. DInv => DockerPackagesHoldTheirOwnLibrary
  BY DEF DInv, DockerPackagesHoldTheirOwnLibrary, OwnParts, Docker, Calm, Packaged, At
<1> QED
  BY <1>1, InitEstablishesDInv, StepPreservesDInv, PTL DEF Spec

-----------------------------------------------------------------------------
(* Where each step leads.                                                  *)

\* A command moves on with what it has in its hands.
To(j, l) ==
    /\ job'[j].pc = l /\ job'[j].md = job[j].md /\ job'[j].again = job[j].again
    /\ job'[j].bindgen = job[j].bindgen /\ job'[j].result = job[j].result

LEMMA GotoLeadsTo ==
  ASSUME TypeOK, NEW j \in Jobs, job[j].pc # "idle", NEW l, Goto(j, l)
  PROVE  To(j, l)
<1>1. job[j] \in Started
  BY StartedJobs
<1> QED
  BY <1>1 DEF TypeOK, Goto, Started, To

LEMMA StepsLeadTo ==
  ASSUME PInv, NEW j \in Jobs, Step(j), ~Start(j)
  PROVE  /\ CargoBuild(j) => To(j, "native")
         /\ NativeDependencies(j) => To(j, "failed") \/ To(j, "metadata")
         /\ Materialise(j) => To(j, "bindgen")
         /\ EnsureBindgen(j) => To(j, "install") \/ job'[j].pc = "generate"
         /\ EnsureBindgen(j) \/ InstallBindgen(j) \/ GenerateBindings(j) => job'[j].md = job[j].md
         /\ InstallBindgen(j) => job'[j].pc = "generate"
         /\ GenerateBindings(j) => job'[j].pc \in {"failed", "shim"}
         /\ ReadMetadata(j) => job'[j].pc = "materialise" /\ job'[j].md = Library(j)
         /\ GenerateShim(j) => To(j, "checkout")
         /\ EnsureBtcpayserver(j) => To(j, "wrapper") \/ To(j, "clear") \/ To(j, "clone")
         /\ ClearCheckout(j) => To(j, "clone")
         /\ StartClone(j) => To(j, "cloning")
         /\ Cloning(j) => To(j, "cloning") \/ To(j, "wrapper")
         /\ BuildWrapper(j) => To(j, "clean") \/ To(j, "built")
         /\ CleanPublishDir(j) => To(j, "publish")
         /\ Publish(j) => To(j, "strip")
         /\ VerifyAndStrip(j) => To(j, "failed") \/ (Complete(j) /\ To(j, "reload"))
         /\ ReloadConfig(j) => /\ job'[j].pc = "packer" /\ job'[j].md = job[j].md
                               /\ job'[j].again = Load(job[j].command, src[Plugin(j)])
         /\ EnsurePluginPacker(j) => To(j, "pack") \/ To(j, "packing tool")
         /\ BuildPacker(j) => To(j, "compiling tool")
         /\ PackerBuilt(j) => To(j, "pack")
         /\ Pack(j) => job'[j].pc = "packaged" /\ job'[j].md = job[j].md
         /\ Abort(j) => job'[j].pc = "failed"
<1>1. Running(j) /\ TypeOK /\ job[j].pc # "idle"
  BY StepsAreLocal DEF PInv, Running, Over
<1>2. job[j] \in Started /\ job \in [Jobs -> Started \cup {Idle}]
  BY <1>1, StartedJobs DEF TypeOK
<1>3. \A l : Goto(j, l) => To(j, l)
  BY <1>1, GotoLeadsTo
<1>4. /\ CargoBuild(j) => To(j, "native")
      /\ NativeDependencies(j) => To(j, "failed") \/ To(j, "metadata")
      /\ Materialise(j) => To(j, "bindgen")
  BY <1>3 DEF CargoBuild, NativeDependencies, Materialise
<1>5. /\ EnsureBindgen(j) => To(j, "install") \/ (job'[j].pc = "generate" /\ job'[j].md = job[j].md)
      /\ InstallBindgen(j) => job'[j].pc = "generate" /\ job'[j].md = job[j].md
      /\ GenerateBindings(j) => job'[j].pc \in {"failed", "shim"} /\ job'[j].md = job[j].md
  <2>1. EnsureBindgen(j) => Goto(j, "install")
           \/ job' = [job EXCEPT ![j].pc = "generate", ![j].bindgen = "cached"]
           \/ job' = [job EXCEPT ![j].pc = "generate", ![j].bindgen = "on PATH"]
    BY DEF EnsureBindgen
  <2>2. InstallBindgen(j) => job' = [job EXCEPT ![j].pc = "generate", ![j].bindgen = "cached"]
    BY DEF InstallBindgen
  <2>3. GenerateBindings(j) =>
           \/ job' = [job EXCEPT ![j].pc = "failed", ![j].bindgen = None]
           \/ job' = [job EXCEPT ![j].pc = "shim", ![j].bindgen = None]
    BY DEF GenerateBindings
  <2>4. ASSUME job' = [job EXCEPT ![j].pc = "generate", ![j].bindgen = "cached"]
        PROVE  job'[j].pc = "generate" /\ job'[j].md = job[j].md
    BY <1>2, <2>4 DEF Started
  <2>5. ASSUME job' = [job EXCEPT ![j].pc = "generate", ![j].bindgen = "on PATH"]
        PROVE  job'[j].pc = "generate" /\ job'[j].md = job[j].md
    BY <1>2, <2>5 DEF Started
  <2>6. ASSUME job' = [job EXCEPT ![j].pc = "failed", ![j].bindgen = None]
        PROVE  job'[j].pc = "failed" /\ job'[j].md = job[j].md
    BY <1>2, <2>6 DEF Started
  <2>7. ASSUME job' = [job EXCEPT ![j].pc = "shim", ![j].bindgen = None]
        PROVE  job'[j].pc = "shim" /\ job'[j].md = job[j].md
    BY <1>2, <2>7 DEF Started
  <2> QED
    BY <1>3, <2>1, <2>2, <2>3, <2>4, <2>5, <2>6, <2>7
<1>6. /\ ReadMetadata(j) => job'[j].pc = "materialise" /\ job'[j].md = Library(j)
      /\ ReloadConfig(j) => /\ job'[j].pc = "packer" /\ job'[j].md = job[j].md
                            /\ job'[j].again = Load(job[j].command, src[Plugin(j)])
      /\ Abort(j) => job'[j].pc = "failed"
  <2> USE <1>2
  <2>1. ASSUME ReadMetadata(j) PROVE job'[j].pc = "materialise" /\ job'[j].md = Library(j)
    BY <2>1 DEF ReadMetadata, Started
  <2>2. ASSUME ReloadConfig(j)
        PROVE  /\ job'[j].pc = "packer" /\ job'[j].md = job[j].md
               /\ job'[j].again = Load(job[j].command, src[Plugin(j)])
    BY <2>2 DEF ReloadConfig, Started
  <2>3. ASSUME Abort(j) PROVE job'[j].pc = "failed"
    BY <2>3 DEF Abort, Started
  <2> QED
    BY <2>1, <2>2, <2>3
<1>7. /\ GenerateShim(j) => To(j, "checkout")
      /\ EnsureBtcpayserver(j) => To(j, "wrapper") \/ To(j, "clear") \/ To(j, "clone")
      /\ ClearCheckout(j) => To(j, "clone")
      /\ StartClone(j) => To(j, "cloning")
  BY <1>3 DEF GenerateShim, EnsureBtcpayserver, ClearCheckout, StartClone
<1>8. /\ Cloning(j) => To(j, "cloning") \/ To(j, "wrapper")
      /\ BuildWrapper(j) => To(j, "clean") \/ To(j, "built")
      /\ CleanPublishDir(j) => To(j, "publish")
      /\ Publish(j) => To(j, "strip")
  <2>1. BuildWrapper(j) => Goto(j, "clean") \/ Goto(j, "built")
    BY DEF BuildWrapper
  <2>2. Cloning(j) => (UNCHANGED job /\ job[j].pc = "cloning") \/ Goto(j, "wrapper")
    BY DEF Cloning, At
  <2>3. UNCHANGED job /\ job[j].pc = "cloning" => To(j, "cloning")
    BY DEF To
  <2> QED
    BY <1>3, <2>1, <2>2, <2>3 DEF CleanPublishDir, Publish
<1>9. /\ VerifyAndStrip(j) => To(j, "failed") \/ (Complete(j) /\ To(j, "reload"))
      /\ EnsurePluginPacker(j) => To(j, "pack") \/ To(j, "packing tool")
      /\ BuildPacker(j) => To(j, "compiling tool")
      /\ PackerBuilt(j) => To(j, "pack")
  <2>1. EnsurePluginPacker(j) => Goto(j, "pack") \/ Goto(j, "packing tool")
    BY DEF EnsurePluginPacker
  <2> QED
    BY <1>3, <2>1 DEF VerifyAndStrip, BuildPacker, PackerBuilt
<1>10. Pack(j) => job'[j].pc = "packaged" /\ job'[j].md = job[j].md
  <2>1. SUFFICES ASSUME Pack(j)
                 PROVE  job'[j].pc = "packaged" /\ job'[j].md = job[j].md
    OBVIOUS
  <2>2. PICK found : job' = [job EXCEPT ![j].pc = "packaged", ![j].result = found]
    BY <2>1 DEF Pack
  <2> QED
    BY <1>2, <2>2 DEF Started
<1> QED
  BY <1>4, <1>5, <1>6, <1>7, <1>8, <1>9, <1>10 DEF To

-----------------------------------------------------------------------------
(* What git finds where it clones.                                         *)

\* A command changes no checkout but that of its tag.
LEMMA CheckoutsOfOthersStay ==
  ASSUME PInv, NEW k \in Jobs, Step(k), ~Start(k), NEW t \in Tags, t # job[k].tag
  PROVE  checkout'[t] = checkout[t]
<1>1. checkout \in [Tags -> Checkouts \cup {None}]
  BY DEF PInv, TypeOK
<1>2. \/ UNCHANGED checkout
      \/ ClearCheckout(k) \/ StartClone(k) \/ Cloning(k)
      \/ checkout' = [checkout EXCEPT ![job[k].tag] = None]
  BY DEF Step, CargoBuild, NativeDependencies, ReadMetadata, Materialise, EnsureBindgen,
         InstallBindgen, GenerateBindings, GenerateShim, EnsureBtcpayserver, BuildWrapper,
         CleanPublishDir, Publish, VerifyAndStrip, ReloadConfig, EnsurePluginPacker, BuildPacker,
         PackerBuilt, Pack, Abort, cache
<1> QED
  BY <1>1, <1>2 DEF ClearCheckout, StartClone, Cloning

CInv == PInv /\ Acquainted /\ ClonesFindNoRemains

LEMMA StepPreservesCInv == CInv /\ [Next]_vars => CInv'
<1> SUFFICES ASSUME CInv, [Next]_vars PROVE CInv'
  OBVIOUS
<1>1. PInv /\ Acquainted /\ PInv' /\ Acquainted'
  BY StepPreservesPInv, CommandsStayAcquainted DEF CInv
<1> SUFFICES ASSUME NEW j \in Jobs, job'[j].pc = "clone",
                    \A k \in job'[j].met : job'[k].tag # job'[j].tag
             PROVE  checkout'[job'[j].tag] = None
  BY <1>1 DEF CInv, ClonesFindNoRemains, At, Checkout
<1> DEFINE Stays == /\ job[j].pc = "clone" /\ job'[j].tag = job[j].tag
                    /\ job[j].met \subseteq job'[j].met
                    /\ \A k \in job[j].met : job'[k].tag = job[k].tag
                    /\ checkout'[job[j].tag] = checkout[job[j].tag]
<1>2. ASSUME Stays PROVE checkout'[job'[j].tag] = None
  <2>1. \A k \in job[j].met : job[k].tag # job[j].tag
    BY <1>2
  <2> QED
    BY <1>2, <2>1 DEF CInv, ClonesFindNoRemains, At, Checkout
<1>3. job[j].pc # "idle" => job[j].met \subseteq Jobs /\ job[j].tag \in Tags
                            /\ \A k \in job[j].met : job[k].pc # "idle"
  BY <1>1, StartedJobs DEF PInv, Started, Acquainted
<1>4. CASE UNCHANGED vars
  BY <1>2, <1>4 DEF vars, cache
<1>5. ASSUME NEW p \in Plugins, Edit(p) PROVE Stays
  <2>1. checkout' = checkout
    BY <1>5 DEF Edit, cache
  <2>2. \A k \in Jobs : /\ job'[k].pc = job[k].pc
                       /\ (job[k].pc # "idle" => job'[k].tag = job[k].tag /\ job'[k].met = job[k].met)
    BY <1>1, <1>5, EditsKeepCommands
  <2> QED
    BY <1>3, <2>1, <2>2
<1>6. ASSUME NEW k \in Jobs, Start(k) PROVE Stays
  <2>1. checkout' = checkout
    BY <1>6 DEF Start, cache
  <2>2. k # j
    BY <1>1, <1>6, StartsMeet
  <2>3. \A i \in Jobs : job[i].pc # "idle" =>
           /\ job'[i].pc = job[i].pc /\ job'[i].tag = job[i].tag /\ job[i].met \subseteq job'[i].met
    BY <1>1, <1>6, StartsMeet
  <2>4. job[j].pc = "clone"
    BY <1>1, <1>6, <2>2, StartsMeet
  <2> QED
    BY <1>3, <2>1, <2>3, <2>4
<1>7. ASSUME NEW k \in Jobs, Step(k), ~Start(k), k # j PROVE Stays
  <2>1. /\ Running(k) /\ job'[j] = job[j] /\ job'[k].tag = job[k].tag
        /\ \A i \in Jobs : i # k => job'[i] = job[i]
    BY <1>1, <1>7, StepsAreLocal
  <2>2. Running(j) /\ k \in job[j].met
    BY <1>1, <1>7, <2>1 DEF Acquainted, Running, Over
  <2>3. job[k].tag # job[j].tag
    BY <2>1, <2>2
  <2>4. checkout'[job[j].tag] = checkout[job[j].tag]
    BY <1>1, <1>3, <1>7, <2>1, <2>3, CheckoutsOfOthersStay
  <2> QED
    BY <1>3, <2>1, <2>4
<1>8. ASSUME Step(j), ~Start(j) PROVE checkout'[job'[j].tag] = None
  <2>1. job'[j].tag = job[j].tag /\ job[j].pc # "idle"
    BY <1>1, <1>8, StepsAreLocal DEF Running, Over
  <2>2. EnsureBtcpayserver(j) \/ ClearCheckout(j)
    BY <1>1, <1>8, StepsLeadTo DEF Step, To
  <2>3. CASE EnsureBtcpayserver(j)
    <3>1. To(j, "wrapper") => job'[j].pc = "wrapper"
      BY DEF To
    <3>2. \A l : Goto(j, l) => job'[j].pc = l
      BY <1>1, <2>1, GotoLeadsTo DEF To, PInv
    <3>3. Goto(j, "clone") /\ Checkout(j) = None
      BY <2>3, <3>2 DEF EnsureBtcpayserver
    <3> QED
      BY <2>1, <2>3, <3>3 DEF EnsureBtcpayserver, Checkout, cache
  <2>4. CASE ClearCheckout(j)
    BY <1>1, <1>3, <2>1, <2>4 DEF ClearCheckout, PInv, TypeOK
  <2> QED
    BY <2>2, <2>3, <2>4
<1> HIDE DEF Stays
<1> QED
  BY <1>1, <1>2, <1>4, <1>5, <1>6, <1>7, <1>8, StartsMeet DEF Next

\* Whatever commands are interrupted and where, git clones into what another left only
\* while a command fetches the same version.
THEOREM ClonesFindNoRemainsAlways == Spec => []ClonesFindNoRemains
<1>1. Init => CInv
  <2>1. Init => DInv
    BY InitEstablishesDInv
  <2>2. Init => ClonesFindNoRemains
    BY DEF Init, Idle, ClonesFindNoRemains, At
  <2> QED
    BY <2>1, <2>2 DEF DInv, CInv
<1>2. CInv => ClonesFindNoRemains
  BY DEF CInv
<1> QED
  BY <1>1, <1>2, StepPreservesCInv, PTL DEF Spec

-----------------------------------------------------------------------------
(* Which version a packer is built from.                                   *)

Unedited == \A j \in Jobs : job[j].pc # "idle" => ~job[j].edited

\* Both readings of btcpay.toml find the same version.
ReadsAgree(j) ==
    /\ job[j].tag = Load(job[j].command, src[Plugin(j)])
    /\ job[j].pc \in Packing => job[j].again = job[j].tag

PackersMatch == \A t \in Tags : packer[t] # None => packer[t].from = t

VInv == PInv /\ (Unedited => PackersMatch /\ \A j \in Jobs : Running(j) => ReadsAgree(j))

LEMMA SourcesStay ==
  ASSUME NEW k \in Jobs, Step(k)
  PROVE  /\ src' = src
         /\ packer' = packer \/ BuildPacker(k) \/ PackerBuilt(k)
  BY DEF Step, Start, CargoBuild, NativeDependencies, ReadMetadata, Materialise, EnsureBindgen,
         InstallBindgen, GenerateBindings, GenerateShim, EnsureBtcpayserver, ClearCheckout,
         StartClone, Cloning, BuildWrapper, CleanPublishDir, Publish, VerifyAndStrip,
         ReloadConfig, EnsurePluginPacker, BuildPacker, PackerBuilt, Pack, Abort, cache

LEMMA StartsReadTheSource ==
  ASSUME PInv, NEW k \in Jobs, Start(k)
  PROVE  ReadsAgree(k)' /\ ~job'[k].edited
<1>1. PICK c \in Command[k], p \in Plugins :
        job'[k] = [pc |-> "cargo", command |-> c, plugin |-> p, at |-> src[p],
                   tag |-> Load(c, src[p]), again |-> None, md |-> None,
                   bindgen |-> None, result |-> None,
                   met |-> {i \in Jobs : Running(i)}, edited |-> FALSE]
  BY DEF Start
<1>2. /\ job'[k].pc = "cargo" /\ job'[k].command = c /\ job'[k].plugin = p
      /\ job'[k].tag = Load(c, src[p]) /\ job'[k].edited = FALSE
  BY <1>1
<1>3. src' = src
  BY SourcesStay DEF Step
<1> QED
  BY <1>2, <1>3 DEF ReadsAgree, Packing, Plugin, Load

LEMMA StepPreservesVInv == VInv /\ [Next]_vars => VInv'
<1> SUFFICES ASSUME VInv, [Next]_vars, Unedited'
             PROVE  PackersMatch' /\ \A j \in Jobs : Running(j)' => ReadsAgree(j)'
  BY StepPreservesPInv DEF VInv
<1>1. PInv
  BY DEF VInv
<1> DEFINE Goal == PackersMatch' /\ \A j \in Jobs : Running(j)' => ReadsAgree(j)'
<1>2. CASE UNCHANGED vars
  BY <1>2 DEF VInv, Unedited, PackersMatch, Running, ReadsAgree, Plugin, Load, vars, cache
<1>3. ASSUME NEW k \in Jobs, Start(k) PROVE Goal
  <2>1. src' = src /\ packer' = packer
    BY <1>3 DEF Start, cache
  <2>2. \A j \in Jobs : j # k => job'[j].pc = job[j].pc
           /\ (job[j].pc # "idle" =>
                 /\ job'[j].command = job[j].command /\ job'[j].plugin = job[j].plugin
                 /\ job'[j].tag = job[j].tag /\ job'[j].again = job[j].again
                 /\ job'[j].edited = job[j].edited)
    BY <1>1, <1>3, StartsMeet
  <2>3. job[k].pc = "idle" /\ ReadsAgree(k)'
    BY <1>1, <1>3, StartsMeet, StartsReadTheSource
  <2>4. Unedited
    BY <2>2, <2>3 DEF Unedited
  <2>5. PackersMatch'
    BY <2>1, <2>4 DEF VInv, PackersMatch
  <2>6. ASSUME NEW j \in Jobs, j # k, Running(j)' PROVE ReadsAgree(j)'
    <3>1. Running(j) /\ ReadsAgree(j)
      BY <2>2, <2>4, <2>6 DEF VInv, Running
    <3> QED
      BY <2>1, <2>2, <2>6, <3>1 DEF ReadsAgree, Running, Over, Plugin, Load
  <2> QED
    BY <2>3, <2>5, <2>6
<1>4. ASSUME NEW p \in Plugins, Edit(p) PROVE Goal
  <2>1. packer' = packer /\ \A q \in Plugins : q # p => src'[q] = src[q]
    BY <1>1, <1>4 DEF Edit, cache, PInv, TypeOK
  <2>2. \A j \in Jobs : job'[j].pc = job[j].pc
           /\ (job[j].pc # "idle" =>
                 /\ job'[j].command = job[j].command /\ job'[j].plugin = job[j].plugin
                 /\ job'[j].tag = job[j].tag /\ job'[j].again = job[j].again
                 /\ job'[j].edited = IF Running(j) /\ Plugin(j) = p THEN TRUE ELSE job[j].edited)
    BY <1>1, <1>4, EditsKeepCommands
  <2>3. Unedited /\ \A j \in Jobs : Running(j) => Plugin(j) # p
    BY <2>2 DEF Unedited, Running, Over
  <2>4. PackersMatch'
    BY <2>1, <2>3 DEF VInv, PackersMatch
  <2>5. ASSUME NEW j \in Jobs, Running(j)' PROVE ReadsAgree(j)'
    <3>1. Running(j) /\ ReadsAgree(j) /\ job[j].pc # "idle"
      BY <2>2, <2>3, <2>5 DEF VInv, Running, Over
    <3>2. src'[Plugin(j)] = src[Plugin(j)]
      BY <1>1, <2>1, <2>3, <3>1, StartedJobs DEF PInv
    <3> QED
      BY <2>2, <3>1, <3>2 DEF ReadsAgree, Plugin, Load
  <2> QED
    BY <2>4, <2>5
<1>5. ASSUME NEW k \in Jobs, Step(k), ~Start(k) PROVE Goal
  <2>1. /\ Running(k) /\ job'[k].pc # "idle"
        /\ job'[k].command = job[k].command /\ job'[k].plugin = job[k].plugin
        /\ job'[k].tag = job[k].tag /\ job'[k].edited = job[k].edited
        /\ \A j \in Jobs : j # k => job'[j] = job[j]
    BY <1>1, <1>5, StepsAreLocal
  <2>2. src' = src /\ (packer' = packer \/ BuildPacker(k) \/ PackerBuilt(k))
    BY <1>5, SourcesStay
  <2>3. Unedited
    BY <2>1 DEF Unedited
  <2>4. ReadsAgree(k) /\ PackersMatch /\ \A j \in Jobs : Running(j) => ReadsAgree(j)
    BY <2>1, <2>3 DEF VInv
  <2>5. ASSUME NEW j \in Jobs, j # k, Running(j)' PROVE ReadsAgree(j)'
    BY <2>1, <2>2, <2>4, <2>5 DEF ReadsAgree, Running, Plugin, Load
  <2>6. job'[k].pc \in Packing => job'[k].again = job'[k].tag
    <3>1. \/ ReloadConfig(k)
          \/ EnsurePluginPacker(k) \/ BuildPacker(k) \/ PackerBuilt(k)
          \/ job'[k].pc \notin Packing
      BY <1>1, <1>5, StepsLeadTo DEF Step, To, Packing
    <3>2. CASE ReloadConfig(k)
      BY <1>1, <1>5, <2>1, <2>4, <3>2, StepsLeadTo DEF ReadsAgree
    <3>3. CASE EnsurePluginPacker(k) \/ BuildPacker(k) \/ PackerBuilt(k)
      <4>1. job'[k].again = job[k].again
        BY <1>1, <1>5, <3>3, StepsLeadTo DEF To
      <4>2. job[k].pc \in Packing
        BY <3>3 DEF EnsurePluginPacker, BuildPacker, PackerBuilt, At, Packing
      <4> QED
        BY <2>1, <2>4, <4>1, <4>2 DEF ReadsAgree
    <3> QED
      BY <3>1, <3>2, <3>3
  <2>7. ReadsAgree(k)'
    BY <2>1, <2>2, <2>4, <2>6 DEF ReadsAgree, Plugin, Load
  <2>8. PackersMatch'
    <3>1. packer \in [Tags -> Packers \cup {None}]
      BY <1>1 DEF PInv, TypeOK
    <3>2. CASE packer' = packer
      BY <2>4, <3>2 DEF PackersMatch
    <3>3. CASE BuildPacker(k)
      <4>1. job[k].again = job[k].tag
        BY <2>4, <3>3 DEF ReadsAgree, BuildPacker, At, Packing
      <4> DEFINE new == [from |-> job[k].tag, complete |-> FALSE]
      <4>2. packer' = [packer EXCEPT ![job[k].tag] = new] /\ new.from = job[k].tag
        BY <3>3, <4>1 DEF BuildPacker
      <4> HIDE DEF new
      <4> QED
        BY <2>4, <3>1, <4>2 DEF PackersMatch
    <3>4. CASE PackerBuilt(k)
      <4>1. job[k].again \in Tags /\ packer[job[k].again] # None
        BY <1>1, <2>1, <3>4, StartedJobs
           DEF PackerBuilt, At, PInv, StepsInOrder, InOrder, Packing, Running, Over, Started
      <4> DEFINE new == [packer[job[k].again] EXCEPT !.complete = TRUE]
      <4>2. packer[job[k].again] \in Packers
        BY <3>1, <4>1
      <4>3. new.from = packer[job[k].again].from
        BY <4>2 DEF Packers
      <4>4. packer' = [packer EXCEPT ![job[k].again] = new]
        BY <3>4 DEF PackerBuilt
      <4> HIDE DEF new
      <4> QED
        BY <2>4, <3>1, <4>1, <4>3, <4>4 DEF PackersMatch
    <3> QED
      BY <2>2, <3>2, <3>3, <3>4
  <2> QED
    BY <2>5, <2>7, <2>8
<1> HIDE DEF Goal
<1>6. Goal
  BY <1>2, <1>3, <1>4, <1>5 DEF Next, Goal
<1> QED
  BY <1>6 DEF Goal

\* However many commands share the cache and wherever they are interrupted, the packer
\* kept for a version of BTCPay was built from that version, unless a plugin is edited
\* while a command for it runs.
THEOREM PackersMatchTheirVersionAlways == Spec => []PackersMatchTheirVersion
<1>1. Init => VInv
  <2>1. Init => PackersMatch /\ \A j \in Jobs : ~Running(j)
    BY DEF Init, Idle, Running, Over, PackersMatch
  <2> QED
    BY <2>1, InitEstablishesPInv DEF VInv
<1>2. VInv => PackersMatchTheirVersion
  BY DEF VInv, Unedited, PackersMatch, PackersMatchTheirVersion, At
<1> QED
  BY <1>1, <1>2, StepPreservesVInv, PTL DEF Spec

-----------------------------------------------------------------------------
(* What goes into a package nothing disturbs.                              *)

Admitted == {"metadata"} \cup Described

PageOf(md) == IF Source[md].page THEN md ELSE None

BoundBy(j) == IF job[j].bindgen = "cached" THEN generator ELSE OnPath[j]

Bound(md, cli) == [lib |-> md, by |-> cli]

ShimOf(s, md) ==
    s.projects[Source[md].plugin] = md /\ s.code = md /\ s.controller = PageOf(md)

PartsOf(p, md, cli) ==
    /\ p.lib = md /\ p.project = md /\ p.code = md /\ p.controller = PageOf(md) /\ p.host = cli
    /\ ~Source[md].strip => p.bindings = Bound(md, cli)

\* What a command no other overlaps has made so far was made from the library it read,
\* and that from the source it found.
Unspoilt(j) ==
    /\ Running(j) /\ ~job[j].edited => src[Plugin(j)] = job[j].at
    /\ job[j].pc \in Compiled => Library(j) \in RevisionsOf(Plugin(j))
    /\ job[j].pc \in Compiled /\ ~job[j].edited => Library(j) = job[j].at
    /\ job[j].pc \in Admitted => ~Source[Library(j)].needsMore
    /\ job[j].pc \in Described => job[j].md = Library(j)
    /\ job[j].pc = "generate" => BoundBy(j) = Cli[j]
    /\ job[j].pc \in Generated /\ ~Source[job[j].md].strip
         => bindings[Plugin(j)] = Bound(job[j].md, Cli[j])
    /\ job[j].pc \in Wrapping => ShimOf(shim[Plugin(j)], job[j].md)
    /\ job[j].pc = "publish" => host[Plugin(j)] = Cli[j]
    /\ job[j].pc \in Assembling => PartsOf(publish[Plugin(j)], job[j].md, Cli[j])
    /\ job[j].pc = "packaged" =>
         /\ ~Source[job[j].md].needsMore
         /\ ~job[j].edited => job[j].md = job[j].at
         /\ PlainlyVersioned(j) => PartsOf(job[j].result, job[j].md, Cli[j])

UInv ==
    /\ PInv /\ Acquainted
    /\ \A j \in Jobs : job[j].pc # "idle" /\ Alone(j) => Unspoilt(j)

\* The files each step writes.
LEMMA StepsWrite ==
  ASSUME NEW k \in Jobs, Step(k), ~Start(k)
  PROVE  /\ lib' = lib \/ CargoBuild(k)
         /\ host' = host \/ Materialise(k) \/ CleanPublishDir(k)
         /\ bindings' = bindings \/ GenerateBindings(k)
         /\ shim' = shim \/ GenerateShim(k)
         /\ publish' = publish \/ CleanPublishDir(k) \/ Publish(k) \/ VerifyAndStrip(k)
         /\ generator' = generator \/ InstallBindgen(k)
         /\ out' = out \/ Pack(k)
  BY DEF Step, CargoBuild, NativeDependencies, ReadMetadata, Materialise, EnsureBindgen,
         InstallBindgen, GenerateBindings, GenerateShim, EnsureBtcpayserver, ClearCheckout,
         StartClone, Cloning, BuildWrapper, CleanPublishDir, Publish, VerifyAndStrip,
         ReloadConfig, EnsurePluginPacker, BuildPacker, PackerBuilt, Pack, Abort, layout, cache

\* Where a command is tells what it has done.
LEMMA StepsAscend ==
  ASSUME PInv, NEW j \in Jobs, Step(j), ~Start(j)
  PROVE  /\ job'[j].pc \in Compiled => CargoBuild(j) \/ job[j].pc \in Compiled
         /\ job'[j].pc \in Admitted => NativeDependencies(j) \/ job[j].pc \in Admitted
         /\ job'[j].pc \in Described => ReadMetadata(j) \/ job[j].pc \in Described
         /\ job'[j].pc = "generate" => EnsureBindgen(j) \/ InstallBindgen(j)
         /\ job'[j].pc \in Generated => GenerateBindings(j) \/ job[j].pc \in Generated
         /\ job'[j].pc \in Wrapping => GenerateShim(j) \/ job[j].pc \in Wrapping
         /\ job'[j].pc = "publish" => CleanPublishDir(j)
         /\ job'[j].pc \in Assembling => Publish(j) \/ job[j].pc \in Assembling
         /\ job'[j].pc = "packaged" => Pack(j)
         /\ job'[j].pc \in Described \cup {"packaged"} => ReadMetadata(j) \/ job'[j].md = job[j].md
<1> DEFINE Ascends(to, from) ==
      /\ to \in Compiled => CargoBuild(j) \/ from \in Compiled
      /\ to \in Admitted => NativeDependencies(j) \/ from \in Admitted
      /\ to \in Described => ReadMetadata(j) \/ from \in Described
      /\ to = "generate" => EnsureBindgen(j) \/ InstallBindgen(j)
      /\ to \in Generated => GenerateBindings(j) \/ from \in Generated
      /\ to \in Wrapping => GenerateShim(j) \/ from \in Wrapping
      /\ to = "publish" => CleanPublishDir(j)
      /\ to \in Assembling => Publish(j) \/ from \in Assembling
      /\ to = "packaged" => Pack(j)
<1> DEFINE Goal == /\ Ascends(job'[j].pc, job[j].pc)
                   /\ job'[j].pc \in Described \cup {"packaged"} =>
                        ReadMetadata(j) \/ job'[j].md = job[j].md
<1> USE DEF Compiled, Admitted, Described, Generated, Wrapping, Assembling, Packing
<1>1. CASE CargoBuild(j) \/ NativeDependencies(j) \/ Abort(j)
  <2>1. \/ CargoBuild(j) /\ job'[j].pc = "native" /\ job'[j].md = job[j].md
        \/ NativeDependencies(j) /\ job'[j].pc = "metadata" /\ job'[j].md = job[j].md
        \/ job'[j].pc = "failed"
    BY <1>1, StepsLeadTo DEF To
  <2> QED
    BY <1>1, <2>1 DEF NativeDependencies, At
<1>2. CASE ReadMetadata(j) \/ Materialise(j) \/ EnsureBindgen(j) \/ InstallBindgen(j)
  <2>1. \/ ReadMetadata(j) /\ job'[j].pc = "materialise"
        \/ Materialise(j) /\ job'[j].pc = "bindgen" /\ job'[j].md = job[j].md
        \/ /\ EnsureBindgen(j) \/ InstallBindgen(j)
           /\ job'[j].pc \in {"install", "generate"} /\ job'[j].md = job[j].md
    BY <1>2, StepsLeadTo DEF To
  <2> QED
    BY <1>2, <2>1 DEF ReadMetadata, Materialise, EnsureBindgen, InstallBindgen, At
<1>3. CASE GenerateBindings(j) \/ GenerateShim(j)
  <2>1. \/ /\ GenerateBindings(j)
           /\ job'[j].pc \in {"failed", "shim"} /\ job'[j].md = job[j].md
        \/ GenerateShim(j) /\ job'[j].pc = "checkout" /\ job'[j].md = job[j].md
    BY <1>3, StepsLeadTo DEF To
  <2> QED
    BY <1>3, <2>1 DEF GenerateBindings, GenerateShim, At
<1>4. CASE EnsureBtcpayserver(j) \/ ClearCheckout(j) \/ StartClone(j) \/ Cloning(j)
  <2>1. job'[j].pc \in {"wrapper", "clear", "clone", "cloning"} /\ job'[j].md = job[j].md
    BY <1>4, StepsLeadTo DEF To
  <2> QED
    BY <1>4, <2>1 DEF EnsureBtcpayserver, ClearCheckout, StartClone, Cloning, At
<1>5. CASE BuildWrapper(j) \/ CleanPublishDir(j)
  <2>1. \/ BuildWrapper(j) /\ job'[j].pc \in {"clean", "built"} /\ job'[j].md = job[j].md
        \/ CleanPublishDir(j) /\ job'[j].pc = "publish" /\ job'[j].md = job[j].md
    BY <1>5, StepsLeadTo DEF To
  <2> QED
    BY <1>5, <2>1 DEF BuildWrapper, CleanPublishDir, At
<1>6. CASE Publish(j) \/ VerifyAndStrip(j) \/ ReloadConfig(j)
  <2>1. \/ Publish(j) /\ job'[j].pc = "strip" /\ job'[j].md = job[j].md
        \/ VerifyAndStrip(j) /\ job'[j].pc \in {"failed", "reload"} /\ job'[j].md = job[j].md
        \/ ReloadConfig(j) /\ job'[j].pc = "packer" /\ job'[j].md = job[j].md
    BY <1>6, StepsLeadTo DEF To
  <2> QED
    BY <1>6, <2>1 DEF Publish, VerifyAndStrip, ReloadConfig, At
<1>7. CASE EnsurePluginPacker(j) \/ BuildPacker(j) \/ PackerBuilt(j)
  <2>1. job'[j].pc \in {"pack", "packing tool", "compiling tool"} /\ job'[j].md = job[j].md
    BY <1>7, StepsLeadTo DEF To
  <2> QED
    BY <1>7, <2>1 DEF EnsurePluginPacker, BuildPacker, PackerBuilt, At
<1>8. CASE Pack(j)
  <2>1. job'[j].pc = "packaged" /\ job'[j].md = job[j].md
    BY <1>8, StepsLeadTo
  <2> QED
    BY <1>8, <2>1
<1>9. Goal
  BY <1>1, <1>2, <1>3, <1>4, <1>5, <1>6, <1>7, <1>8 DEF Step
<1> QED
  BY <1>9

\* A command that does not overlap another writes none of its files, but perhaps the
\* generator both pin.
LEMMA OthersWriteElsewhere ==
  ASSUME PInv, NEW j \in Jobs, job[j].pc # "idle",
         NEW k \in Jobs, Step(k), ~Start(k), ~Overlap(j, k)
  PROVE  /\ lib'[LibraryPath(j)] = lib[LibraryPath(j)]
         /\ host'[Plugin(j)] = host[Plugin(j)] /\ bindings'[Plugin(j)] = bindings[Plugin(j)]
         /\ shim'[Plugin(j)] = shim[Plugin(j)] /\ publish'[Plugin(j)] = publish[Plugin(j)]
         /\ generator' = generator \/ generator' = Cli[j]
<1>1. /\ Plugin(j) # Plugin(k) /\ Cli[j] = Cli[k] /\ LibraryPath(k) # LibraryPath(j)
  BY DEF Overlap, LibraryPath
<1>2. Plugin(j) \in Plugins /\ LibraryPath(j) \in Dirs \X Profiles
  BY StartedJobs DEF PInv
<1>3. lib'[LibraryPath(j)] = lib[LibraryPath(j)]
  <2>1. CASE CargoBuild(k)
    BY <1>1, <1>2, <2>1 DEF CargoBuild, PInv, TypeOK
  <2> QED
    BY <2>1, StepsWrite
<1>4. host'[Plugin(j)] = host[Plugin(j)] /\ bindings'[Plugin(j)] = bindings[Plugin(j)]
  <2>1. CASE Materialise(k) \/ CleanPublishDir(k)
    BY <1>1, <1>2, <2>1 DEF Materialise, CleanPublishDir, PInv, TypeOK
  <2>2. CASE GenerateBindings(k)
    BY <1>1, <1>2, <2>2 DEF GenerateBindings, PInv, TypeOK
  <2> QED
    BY <2>1, <2>2, StepsWrite
<1>5. shim'[Plugin(j)] = shim[Plugin(j)] /\ publish'[Plugin(j)] = publish[Plugin(j)]
  BY <1>1, <1>2, StepsAreLocal DEF Plugin
<1>6. generator' = generator \/ generator' = Cli[j]
  BY <1>1, StepsWrite DEF InstallBindgen
<1> QED
  BY <1>3, <1>4, <1>5, <1>6

LEMMA AloneIsNotRegained ==
  ASSUME PInv, Acquainted, NEW j \in Jobs, job[j].pc # "idle", Alone(j)',
         job[j].met \subseteq job'[j].met,
         \A k \in Jobs : job[k].pc # "idle" =>
            job'[k].plugin = job[k].plugin /\ job'[k].command = job[k].command
  PROVE  Alone(j)
<1> SUFFICES ASSUME NEW k \in job[j].met PROVE ~Overlap(j, k)
  BY DEF Alone
<1>1. k \in Jobs /\ job[k].pc # "idle" /\ ~Overlap(j, k)'
  BY StartedJobs DEF PInv, Started, Acquainted, Alone
<1> QED
  BY <1>1 DEF Overlap, Plugin, CargoTargetDir, TargetKey

LEMMA OthersKeepUnspoilt ==
  ASSUME UInv, [Next]_vars, NEW j \in Jobs, job[j].pc # "idle", ~Step(j), Alone(j)'
  PROVE  Unspoilt(j)'
<1> USE DEF UInv
<1> DEFINE Same ==
        /\ job'[j].pc = job[j].pc /\ job'[j].plugin = job[j].plugin
        /\ job'[j].command = job[j].command /\ job'[j].at = job[j].at
        /\ job'[j].md = job[j].md /\ job'[j].result = job[j].result
        /\ job'[j].bindgen = job[j].bindgen
        /\ job[j].met \subseteq job'[j].met
        /\ ~job'[j].edited => ~job[j].edited
        /\ \A k \in Jobs : job[k].pc # "idle" =>
              job'[k].plugin = job[k].plugin /\ job'[k].command = job[k].command
<1> DEFINE Untouched ==
        /\ ~job'[j].edited => src'[Plugin(j)] = src[Plugin(j)]
        /\ lib'[LibraryPath(j)] = lib[LibraryPath(j)]
        /\ host'[Plugin(j)] = host[Plugin(j)] /\ bindings'[Plugin(j)] = bindings[Plugin(j)]
        /\ shim'[Plugin(j)] = shim[Plugin(j)] /\ publish'[Plugin(j)] = publish[Plugin(j)]
        /\ generator' = generator \/ generator' = Cli[j]
<1>1. Same /\ (Alone(j) /\ Running(j) => Untouched)
  <2>0. Plugin(j) \in Plugins
    BY StartedJobs DEF PInv
  <2>1. CASE UNCHANGED vars
    BY <2>1 DEF vars, layout, cache
  <2>2. ASSUME NEW k \in Jobs, Start(k) PROVE Same /\ Untouched
    <3>1. UNCHANGED <<src, lib, layout, out, cache>>
      BY <2>2 DEF Start
    <3> QED
      BY <2>2, <3>1, StartsMeet DEF Step, layout, cache
  <2>3. ASSUME NEW k \in Jobs, Step(k), ~Start(k)
        PROVE  Same /\ (Alone(j) /\ Running(j) => Untouched)
    <3>1. Alone(j) /\ Running(j) => ~Overlap(j, k)
      BY <2>3, StepsAreLocal DEF Acquainted, Alone
    <3>2. Same
      BY <2>3, StepsAreLocal
    <3>3. src' = src
      BY <2>3, SourcesStay
    <3>4. Alone(j) /\ Running(j) => Untouched
      BY <2>3, <3>1, <3>3, OthersWriteElsewhere
    <3> QED
      BY <3>2, <3>4
  <2>4. ASSUME NEW p \in Plugins, Edit(p)
        PROVE  Same /\ (Running(j) => Untouched)
    <3>1. UNCHANGED <<lib, layout, out, cache>> /\ \A q \in Plugins : q # p => src'[q] = src[q]
      BY <2>4 DEF Edit, PInv, TypeOK
    <3>2. Same /\ (Running(j) /\ Plugin(j) = p => job'[j].edited)
      BY <2>4, EditsKeepCommands
    <3> QED
      BY <2>0, <2>4, <3>1, <3>2 DEF layout, cache
  <2> QED
    BY <2>1, <2>2, <2>3, <2>4 DEF Next
<1>2. Alone(j) /\ Unspoilt(j)
  BY <1>1, AloneIsNotRegained
<1>3. /\ Plugin(j)' = Plugin(j) /\ LibraryPath(j)' = LibraryPath(j)
      /\ Running(j)' = Running(j) /\ PlainlyVersioned(j)' = PlainlyVersioned(j)
  BY <1>1 DEF Plugin, LibraryPath, CargoTargetDir, TargetKey, Profile, Running, PlainlyVersioned
<1>4. CASE Running(j)
  <2>1. Library(j)' = Library(j)
    BY <1>1, <1>2, <1>3, <1>4 DEF Library
  <2>2. BoundBy(j) = Cli[j] => BoundBy(j)' = Cli[j]
    BY <1>1, <1>2, <1>4 DEF BoundBy
  <2> QED
    BY <1>1, <1>2, <1>3, <1>4, <2>1, <2>2 DEF Unspoilt, Running, Over
<1>5. CASE ~Running(j)
  BY <1>1, <1>2, <1>3, <1>5
     DEF Unspoilt, Running, Over, Compiled, Admitted, Described, Generated, Wrapping, Assembling,
         Packing
<1> QED
  BY <1>4, <1>5

LEMMA StartsAreUnspoilt ==
  ASSUME PInv, NEW j \in Jobs, Start(j)
  PROVE  Unspoilt(j)'
<1>1. PICK c \in Command[j], p \in Plugins :
        job'[j] = [pc |-> "cargo", command |-> c, plugin |-> p, at |-> src[p],
                   tag |-> Load(c, src[p]), again |-> None, md |-> None,
                   bindgen |-> None, result |-> None,
                   met |-> {i \in Jobs : Running(i)}, edited |-> FALSE]
  BY DEF Start
<1>2. job'[j].pc = "cargo" /\ job'[j].plugin = p /\ job'[j].at = src[p]
  BY <1>1
<1>3. src' = src
  BY SourcesStay DEF Step
<1> QED
  BY <1>2, <1>3 DEF Unspoilt, Plugin, Compiled, Admitted, Described, Generated, Wrapping,
                    Assembling, Packing

LEMMA OwnStepsKeepUnspoilt ==
  ASSUME UInv, NEW j \in Jobs, Step(j), ~Start(j), Alone(j)'
  PROVE  Unspoilt(j)'
<1>1. PInv /\ Acquainted
  BY DEF UInv
<1>2. /\ Running(j) /\ job[j].pc # "idle" /\ job'[j].pc # "idle"
      /\ job'[j].command = job[j].command /\ job'[j].plugin = job[j].plugin
      /\ job'[j].met = job[j].met /\ job'[j].at = job[j].at /\ job'[j].edited = job[j].edited
      /\ \A k \in Jobs : k # j => job'[k] = job[k]
  BY <1>1, StepsAreLocal DEF Running, Over
<1>3. Alone(j) /\ Unspoilt(j)
  <2>1. Alone(j)
    BY <1>1, <1>2, AloneIsNotRegained
  <2> QED
    BY <1>2, <2>1 DEF UInv
<1>4. /\ job[j] \in Started /\ Plugin(j) \in Plugins /\ InOrder(j)
      /\ LibraryPath(j) \in Dirs \X Profiles
  BY <1>1, <1>2, StartedJobs DEF PInv, StepsInOrder
<1>5. /\ Plugin(j)' = Plugin(j) /\ LibraryPath(j)' = LibraryPath(j)
      /\ src' = src /\ (job[j].pc \in Compiled /\ ~CargoBuild(j) => Library(j)' = Library(j))
  <2>1. Plugin(j)' = Plugin(j) /\ LibraryPath(j)' = LibraryPath(j)
    BY <1>2, SamePlaces
  <2> QED
    BY <2>1, StepsWrite, SourcesStay DEF Library
<1>6. job[j].pc \in Compiled => ~CargoBuild(j)
  BY DEF CargoBuild, At, Compiled, Described, Generated, Wrapping, Packing
<1>7. ~job'[j].edited => src'[Plugin(j)'] = job'[j].at
  BY <1>2, <1>3, <1>5 DEF Unspoilt
<1>8. job'[j].pc \in Compiled /\ ~job'[j].edited => Library(j)' = job'[j].at
  <2>1. CASE CargoBuild(j)
    <3>1. lib' = [lib EXCEPT ![LibraryPath(j)] = src[Plugin(j)]]
      BY <2>1 DEF CargoBuild
    <3>2. Library(j)' = src[Plugin(j)]
      BY <1>1, <1>4, <1>5, <3>1 DEF Library, PInv, TypeOK
    <3> QED
      BY <1>2, <1>3, <3>2 DEF Unspoilt
  <2>2. CASE ~CargoBuild(j)
    BY <1>1, <1>2, <1>3, <1>5, <2>2, StepsAscend DEF Unspoilt
  <2> QED
    BY <2>1, <2>2
<1>9. job'[j].pc \in Admitted => ~Source[Library(j)'].needsMore
  <2>1. CASE NativeDependencies(j) /\ job'[j].pc \in Admitted
    <3>1. Goto(j, IF Source[Library(j)].needsMore THEN "failed" ELSE "metadata")
          /\ lib' = lib /\ job[j].pc \in Compiled
      BY <2>1 DEF NativeDependencies, At, Compiled
    <3>2. \A l : Goto(j, l) => job'[j].pc = l
      BY <1>1, <1>2, GotoLeadsTo DEF PInv, To
    <3>3. "failed" \notin Admitted
      BY DEF Admitted, Described, Generated, Wrapping, Packing
    <3>4. ~Source[Library(j)].needsMore
      BY <2>1, <3>1, <3>2, <3>3
    <3> QED
      BY <1>5, <1>6, <3>1, <3>4
  <2>2. CASE ~NativeDependencies(j) /\ job'[j].pc \in Admitted
    <3>1. job[j].pc \in Admitted /\ job[j].pc \in Compiled
      BY <1>1, <2>2, StepsAscend DEF Admitted, Compiled
    <3> QED
      BY <1>3, <1>5, <1>6, <3>1 DEF Unspoilt
  <2> QED
    BY <2>1, <2>2
<1>10. job'[j].pc \in Described => job'[j].md = Library(j)'
  <2>1. CASE ReadMetadata(j)
    <3>1. job'[j].md = Library(j) /\ job[j].pc \in Compiled
      BY <1>1, <2>1, StepsLeadTo DEF ReadMetadata, At, Compiled
    <3> QED
      BY <1>5, <1>6, <3>1
  <2>2. CASE ~ReadMetadata(j) /\ job'[j].pc \in Described
    <3>1. job[j].pc \in Described /\ job[j].pc \in Compiled /\ job'[j].md = job[j].md
      BY <1>1, <2>2, StepsAscend DEF Compiled
    <3> QED
      BY <1>3, <1>5, <1>6, <3>1 DEF Unspoilt
  <2> QED
    BY <2>1, <2>2
<1>11. job'[j].pc = "generate" => BoundBy(j)' = Cli[j]
  <2>1. CASE EnsureBindgen(j) /\ job'[j].pc = "generate"
    <3>1. generator' = generator
      BY <2>1 DEF EnsureBindgen, cache
    <3>2. Goto(j, "install") => job'[j].pc = "install"
      BY <1>1, <1>2, GotoLeadsTo DEF PInv, To
    <3>3. CASE generator = Cli[j] /\ job' = [job EXCEPT ![j].pc = "generate", ![j].bindgen = "cached"]
      <4>1. job'[j].bindgen = "cached"
        BY <1>1, <1>4, <3>3 DEF PInv, TypeOK, Started
      <4> QED
        BY <3>1, <3>3, <4>1 DEF BoundBy
    <3>4. CASE OnPath[j] = Cli[j] /\ job' = [job EXCEPT ![j].pc = "generate", ![j].bindgen = "on PATH"]
      <4>1. job'[j].bindgen = "on PATH"
        BY <1>1, <1>4, <3>4 DEF PInv, TypeOK, Started
      <4> QED
        BY <3>1, <3>4, <4>1 DEF BoundBy
    <3> QED
      BY <2>1, <3>2, <3>3, <3>4 DEF EnsureBindgen
  <2>2. CASE InstallBindgen(j)
    <3>1. job' = [job EXCEPT ![j].pc = "generate", ![j].bindgen = "cached"]
      BY <2>2 DEF InstallBindgen
    <3>2. job'[j].bindgen = "cached"
      BY <1>1, <1>4, <3>1 DEF PInv, TypeOK, Started
    <3> QED
      BY <2>2, <3>2 DEF BoundBy, InstallBindgen
  <2> QED
    BY <1>1, <2>1, <2>2, StepsAscend
<1>12. job'[j].pc \in Generated /\ ~Source[job'[j].md].strip
         => bindings'[Plugin(j)'] = Bound(job'[j].md, Cli[j])
  <2> SUFFICES ASSUME job'[j].pc \in Generated, ~Source[job'[j].md].strip
               PROVE  bindings'[Plugin(j)] = Bound(job'[j].md, Cli[j])
    BY <1>5
  <2>1. CASE GenerateBindings(j)
    <3>1. job[j].pc = "generate" /\ job'[j].md = job[j].md
      BY <1>1, <2>1, StepsLeadTo DEF GenerateBindings, At
    <3>2. job[j].md = Library(j) /\ BoundBy(j) = Cli[j]
      BY <1>3, <3>1 DEF Unspoilt, Described
    <3>3. ~Stripped(j)
      BY <3>1, <3>2 DEF Stripped
    <3>4. bindings' = [bindings EXCEPT ![Plugin(j)] = Bound(Library(j), BoundBy(j))]
      BY <2>1, <3>3 DEF GenerateBindings, Bound, BoundBy
    <3> QED
      BY <1>1, <1>4, <3>1, <3>2, <3>4 DEF PInv, TypeOK
  <2>2. CASE ~GenerateBindings(j)
    <3>1. job[j].pc \in Generated /\ bindings' = bindings
      BY <1>1, <2>2, StepsAscend, StepsWrite
    <3>2. job'[j].md = job[j].md
      <4>1. job'[j].pc \in Described
        BY DEF Described
      <4>2. ~ReadMetadata(j)
        BY <3>1 DEF ReadMetadata, At, Generated, Wrapping, Packing
      <4> QED
        BY <1>1, <4>1, <4>2, StepsAscend
    <3> QED
      BY <1>3, <3>1, <3>2 DEF Unspoilt
  <2> QED
    BY <2>1, <2>2
<1>13. job'[j].pc \in Wrapping => ShimOf(shim'[Plugin(j)'], job'[j].md)
  <2> SUFFICES ASSUME job'[j].pc \in Wrapping
               PROVE  ShimOf(shim'[Plugin(j)], job'[j].md)
    BY <1>5
  <2>1. CASE GenerateShim(j)
    <3>1. job[j].pc = "shim" /\ job'[j].md = job[j].md
      BY <1>1, <2>1, StepsLeadTo DEF GenerateShim, At, To
    <3>2. job[j].md \in Revisions
      BY <1>4, <3>1 DEF InOrder, Described, Generated, Started
    <3>3. Source[job[j].md].plugin \in Plugins /\ shim[Plugin(j)] \in Shims
      BY <1>1, <1>4, <3>2, SourceIsKnown DEF PInv, TypeOK
    <3>4. shim'[Plugin(j)] = Shim(shim[Plugin(j)], job[j].md)
      BY <1>1, <1>4, <2>1 DEF GenerateShim, PInv, TypeOK
    <3>5. ShimOf(Shim(shim[Plugin(j)], job[j].md), job[j].md)
      BY <3>3 DEF Shim, ShimOf, Shims, PageOf
    <3> QED
      BY <3>1, <3>4, <3>5
  <2>2. CASE ~GenerateShim(j)
    <3>1. job[j].pc \in Wrapping /\ shim' = shim
      BY <1>1, <2>2, StepsAscend, StepsWrite
    <3>2. job'[j].md = job[j].md
      <4>1. job'[j].pc \in Described
        BY DEF Described, Generated
      <4>2. ~ReadMetadata(j)
        BY <3>1 DEF ReadMetadata, At, Wrapping, Packing
      <4> QED
        BY <1>1, <4>1, <4>2, StepsAscend
    <3> QED
      BY <1>3, <3>1, <3>2 DEF Unspoilt
  <2> QED
    BY <2>1, <2>2
<1>14. job'[j].pc = "publish" => host'[Plugin(j)'] = Cli[j]
  <2>1. ASSUME CleanPublishDir(j) PROVE host'[Plugin(j)] = Cli[j]
    BY <1>1, <1>4, <2>1 DEF CleanPublishDir, PInv, TypeOK
  <2> QED
    BY <1>1, <1>5, <2>1, StepsAscend
<1>15. job'[j].pc \in Assembling => PartsOf(publish'[Plugin(j)'], job'[j].md, Cli[j])
  <2> SUFFICES ASSUME job'[j].pc \in Assembling
               PROVE  PartsOf(publish'[Plugin(j)], job'[j].md, Cli[j])
    BY <1>5
  <2>1. CASE Publish(j)
    <3> DEFINE made ==
          [lib |-> Library(j), stripped |-> Stripped(j),
           project |-> shim[Plugin(j)].projects[Source[job[j].md].plugin],
           code |-> shim[Plugin(j)].code, controller |-> shim[Plugin(j)].controller,
           bindings |-> bindings[Plugin(j)], host |-> host[Plugin(j)]]
    <3>1. job[j].pc = "publish" /\ job'[j].md = job[j].md
      BY <1>1, <2>1, StepsLeadTo DEF Publish, At, To
    <3>2. publish'[Plugin(j)] = made
      <4> HIDE DEF made
      <4>1. publish' = [publish EXCEPT ![Plugin(j)] = made]
        BY <2>1 DEF Publish, made
      <4> QED
        BY <1>1, <1>4, <4>1 DEF PInv, TypeOK
    <3>3. /\ made.lib = Library(j)
          /\ made.project = shim[Plugin(j)].projects[Source[job[j].md].plugin]
          /\ made.code = shim[Plugin(j)].code /\ made.controller = shim[Plugin(j)].controller
          /\ made.bindings = bindings[Plugin(j)] /\ made.host = host[Plugin(j)]
      OBVIOUS
    <3> HIDE DEF made
    <3>4. /\ job[j].md = Library(j) /\ ShimOf(shim[Plugin(j)], job[j].md)
          /\ host[Plugin(j)] = Cli[j]
          /\ ~Source[job[j].md].strip => bindings[Plugin(j)] = Bound(job[j].md, Cli[j])
      BY <1>3, <3>1 DEF Unspoilt, Described, Generated, Wrapping
    <3>5. PartsOf(made, job[j].md, Cli[j])
      BY <3>3, <3>4 DEF PartsOf, ShimOf
    <3> QED
      BY <3>1, <3>2, <3>5
  <2>2. CASE ~Publish(j)
    <3>1. job[j].pc \in Assembling
      BY <1>1, <2>2, StepsAscend
    <3>2. PartsOf(publish[Plugin(j)], job[j].md, Cli[j])
      BY <1>3, <3>1 DEF Unspoilt
    <3>3. job'[j].md = job[j].md
      <4>1. job'[j].pc \in Described
        BY DEF Described, Generated, Wrapping, Assembling
      <4>2. ~ReadMetadata(j)
        BY <3>1 DEF ReadMetadata, At, Assembling, Packing
      <4> QED
        BY <1>1, <4>1, <4>2, StepsAscend
    <3>4. ~CleanPublishDir(j)
      BY <3>1 DEF CleanPublishDir, At, Assembling, Packing
    <3>5. CASE VerifyAndStrip(j)
      <4>1. publish' = publish \/ publish' = [publish EXCEPT ![Plugin(j)].stripped = TRUE]
        BY <3>5 DEF VerifyAndStrip
      <4>2. Complete(j)
        <5>1. To(j, "failed") => job'[j].pc \notin Assembling
          BY DEF To, Assembling, Packing
        <5> QED
          BY <1>1, <3>5, <5>1, StepsLeadTo
      <4>3. publish[Plugin(j)] \in Published
        BY <1>1, <1>4, <4>2 DEF Complete, PInv, TypeOK
      <4>4. CASE publish' = [publish EXCEPT ![Plugin(j)].stripped = TRUE]
        <5> DEFINE p == [publish[Plugin(j)] EXCEPT !.stripped = TRUE]
        <5>1. publish'[Plugin(j)] = p
          BY <1>1, <1>4, <4>4 DEF PInv, TypeOK
        <5>2. /\ p.lib = publish[Plugin(j)].lib /\ p.project = publish[Plugin(j)].project
              /\ p.code = publish[Plugin(j)].code
              /\ p.controller = publish[Plugin(j)].controller
              /\ p.bindings = publish[Plugin(j)].bindings /\ p.host = publish[Plugin(j)].host
          BY <4>3 DEF Published
        <5> HIDE DEF p
        <5> QED
          BY <3>2, <3>3, <5>1, <5>2 DEF PartsOf
      <4> QED
        BY <3>2, <3>3, <4>1, <4>4
    <3> QED
      BY <2>2, <3>2, <3>3, <3>4, <3>5, StepsWrite
  <2> QED
    BY <2>1, <2>2
<1>16. job'[j].pc = "packaged" =>
         /\ ~Source[job'[j].md].needsMore
         /\ ~job'[j].edited => job'[j].md = job'[j].at
         /\ PlainlyVersioned(j)' => PartsOf(job'[j].result, job'[j].md, Cli[j])
  <2> SUFFICES ASSUME Pack(j)
               PROVE  /\ ~Source[job'[j].md].needsMore
                      /\ ~job'[j].edited => job'[j].md = job'[j].at
                      /\ PlainlyVersioned(j)' => PartsOf(job'[j].result, job'[j].md, Cli[j])
    BY <1>1, StepsAscend
  <2>1. job[j].pc = "pack" /\ job'[j].md = job[j].md
    BY <1>1, StepsLeadTo DEF Pack, At
  <2>2. /\ job[j].md = Library(j) /\ ~Source[Library(j)].needsMore
        /\ ~job[j].edited => Library(j) = job[j].at
        /\ PartsOf(publish[Plugin(j)], job[j].md, Cli[j])
    BY <1>3, <2>1 DEF Unspoilt, Compiled, Admitted, Described, Generated, Wrapping, Assembling,
                      Packing
  <2>3. ASSUME PlainlyVersioned(j) PROVE job'[j].result = publish[Plugin(j)]
    <3> DEFINE id == Source[job[j].md].plugin
    <3> DEFINE packages == Added(out[id], publish[Plugin(j)])
    <3>1. PICK found \in Reported(out'[id], job[j].md) :
            job' = [job EXCEPT ![j].pc = "packaged", ![j].result = found]
      BY DEF Pack
    <3>2. job'[j].result = found
      BY <1>1, <1>4, <3>1 DEF PInv, TypeOK, Started
    <3>3. id \in Plugins
      <4>1. job[j].md \in Revisions
        BY <1>4, <2>1 DEF InOrder, Started, Described, Generated, Wrapping, Packing
      <4> QED
        BY <4>1, SourceIsKnown
    <3>4. out'[id] = packages
      BY <1>1, <3>3 DEF Pack, PInv, TypeOK
    <3>5. publish[Plugin(j)].project = job[j].md
      BY <2>2 DEF PartsOf
    <3>6. packages[Source[job[j].md].version] = publish[Plugin(j)]
          /\ Source[job[j].md].version \in DOMAIN packages
      BY <3>5 DEF Added
    <3> QED
      BY <2>3, <3>1, <3>2, <3>4, <3>6 DEF Reported, PlainlyVersioned
  <2>4. PlainlyVersioned(j)' = PlainlyVersioned(j)
    BY <2>1 DEF PlainlyVersioned
  <2> QED
    BY <1>2, <2>1, <2>2, <2>3, <2>4
<1>17. job'[j].pc \in Compiled => Library(j)' \in RevisionsOf(Plugin(j)')
  <2>1. CASE CargoBuild(j)
    <3>1. lib' = [lib EXCEPT ![LibraryPath(j)] = src[Plugin(j)]]
      BY <2>1 DEF CargoBuild
    <3>2. Library(j)' = src[Plugin(j)]
      BY <1>1, <1>4, <1>5, <3>1 DEF Library, PInv, TypeOK
    <3> QED
      BY <1>1, <1>4, <1>5, <3>2 DEF PInv, TypeOK
  <2>2. CASE ~CargoBuild(j)
    BY <1>1, <1>3, <1>5, <2>2, StepsAscend DEF Unspoilt
  <2> QED
    BY <2>1, <2>2
<1> QED
  BY <1>7, <1>8, <1>9, <1>10, <1>11, <1>12, <1>13, <1>14, <1>15, <1>16, <1>17
     DEF Unspoilt, RevisionsOf

LEMMA InitEstablishesUInv == Init => UInv
<1> SUFFICES ASSUME Init PROVE UInv
  OBVIOUS
<1>1. \A j \in Jobs : job[j].pc = "idle"
  BY DEF Init, Idle
<1> QED
  BY <1>1, InitEstablishesDInv DEF DInv, UInv

LEMMA StepPreservesUInv == UInv /\ [Next]_vars => UInv'
<1> SUFFICES ASSUME UInv, [Next]_vars PROVE UInv'
  OBVIOUS
<1>1. PInv' /\ Acquainted'
  BY StepPreservesPInv, CommandsStayAcquainted DEF UInv
<1>2. ASSUME NEW j \in Jobs, job'[j].pc # "idle", Alone(j)' PROVE Unspoilt(j)'
  <2>1. CASE Step(j)
    BY <1>2, <2>1, OwnStepsKeepUnspoilt, StartsAreUnspoilt DEF UInv
  <2>2. CASE ~Step(j)
    <3>1. job[j].pc # "idle"
      <4>1. CASE UNCHANGED vars
        BY <4>1, <1>2 DEF vars
      <4>2. ASSUME NEW k \in Jobs, Step(k) PROVE job'[j].pc = job[j].pc
        BY <2>2, <4>2, StepsAreLocal, StartsMeet DEF UInv, Step
      <4>3. ASSUME NEW p \in Plugins, Edit(p) PROVE job'[j].pc = job[j].pc
        BY <4>3, EditsKeepCommands DEF UInv
      <4> QED
        BY <1>2, <4>1, <4>2, <4>3 DEF Next
    <3> QED
      BY <1>2, <2>2, <3>1, OthersKeepUnspoilt
  <2> QED
    BY <2>1, <2>2
<1> QED
  BY <1>1, <1>2 DEF UInv

\* Whatever earlier commands left behind, and whatever commands run meanwhile that do not
\* overlap, a package made of a source nobody edits consists of parts made from it.
THEOREM UndisturbedPackagesMatchTheirSourceAlways ==
  Spec => []UndisturbedPackagesMatchTheirSource
<1>1. UInv => UndisturbedPackagesMatchTheirSource
  <2> SUFFICES ASSUME UInv, NEW j \in Jobs, Packaged(j), Alone(j), ~job[j].edited,
                      ~Source[job[j].at].strip, PlainlyVersioned(j)
               PROVE  /\ job[j].result.lib = job[j].at /\ job[j].result.project = job[j].at
                      /\ job[j].result.code = job[j].at
                      /\ job[j].result.controller = PageOf(job[j].at)
                      /\ job[j].result.bindings = Bound(job[j].at, Cli[j])
                      /\ job[j].result.host = Cli[j]
    BY DEF UndisturbedPackagesMatchTheirSource, PageOf, Bound
  <2>1. Unspoilt(j) /\ job[j].pc = "packaged"
    BY DEF UInv, Packaged, At
  <2>2. job[j].md = job[j].at /\ PartsOf(job[j].result, job[j].md, Cli[j])
    BY <2>1 DEF Unspoilt
  <2> QED
    BY <2>2 DEF PartsOf
<1> QED
  BY <1>1, InitEstablishesUInv, StepPreservesUInv, PTL DEF Spec

\* However often the source is edited while a command runs, no library BTCPay cannot load
\* gets into a package no overlapping command disturbed.
THEOREM UnloadableLibrariesAreRefusedAlways == Spec => []UnloadableLibrariesAreRefused
<1>1. UInv => UnloadableLibrariesAreRefused
  <2> SUFFICES ASSUME UInv, NEW j \in Jobs, Packaged(j), Alone(j), PlainlyVersioned(j)
               PROVE  ~Source[job[j].result.lib].needsMore
    BY DEF UnloadableLibrariesAreRefused
  <2>1. Unspoilt(j) /\ job[j].pc = "packaged"
    BY DEF UInv, Packaged, At
  <2> QED
    BY <2>1 DEF Unspoilt, PartsOf
<1> QED
  BY <1>1, InitEstablishesUInv, StepPreservesUInv, PTL DEF Spec

\* BindingsAreOfTheLibraryJustBuilt is refuted by stripped libraries only: of any other,
\* however often its source is edited, the bindings in an undisturbed package are generated.
THEOREM BindingsAreOfAnUnstrippedLibrary ==
  Spec => [](\A j \in Jobs :
               Packaged(j) /\ Alone(j) /\ PlainlyVersioned(j) /\ ~Source[job[j].result.lib].strip
                 => job[j].result.bindings = [lib |-> job[j].result.lib, by |-> Cli[j]])
<1> DEFINE Generates(j) ==
      Packaged(j) /\ Alone(j) /\ PlainlyVersioned(j) /\ ~Source[job[j].result.lib].strip
        => job[j].result.bindings = [lib |-> job[j].result.lib, by |-> Cli[j]]
<1>1. UInv => \A j \in Jobs : Generates(j)
  <2> SUFFICES ASSUME UInv, NEW j \in Jobs, Packaged(j), Alone(j), PlainlyVersioned(j),
                      ~Source[job[j].result.lib].strip
               PROVE  job[j].result.bindings = Bound(job[j].result.lib, Cli[j])
    BY DEF Bound
  <2>1. Unspoilt(j) /\ job[j].pc = "packaged"
    BY DEF UInv, Packaged, At
  <2> QED
    BY <2>1 DEF Unspoilt, PartsOf
<1> QED
  BY <1>1, InitEstablishesUInv, StepPreservesUInv, PTL DEF Spec

\* The last step of a command adds one package and keeps the others.
LEMMA PackGoesHome ==
  ASSUME PInv, NEW j \in Jobs, Pack(j),
         Docker(j) => OwnParts(j), Alone(j) => Unspoilt(j),
         NEW p \in Plugins
  PROVE  /\ DOMAIN out[p] \subseteq DOMAIN out'[p]
         /\ \A v \in DOMAIN out'[p] :
              (v \in DOMAIN out[p] => out'[p][v] # out[p][v])
                => /\ At(j, "pack") /\ At(j, "packaged")'
                   /\ Alone(j) \/ Docker(j) => Plugin(j) = p
                   /\ Alone(j) /\ ~job[j].edited => Source[job[j].at].version = v
<1> DEFINE id == Source[job[j].md].plugin
<1> DEFINE package == publish[Plugin(j)]
<1> DEFINE new == Source[package.project].version
<1>1. At(j, "pack") /\ At(j, "packaged")'
  BY StepsLeadTo DEF Pack, At, Start, Step
<1>2. job[j].md \in Revisions /\ id \in Plugins
  BY <1>1, StartedJobs, SourceIsKnown
     DEF At, PInv, StepsInOrder, InOrder, Started, Described, Generated, Wrapping, Packing
<1>3. out'[id] = Added(out[id], package) /\ (p # id => out'[p] = out[p])
  BY <1>2 DEF Pack, PInv, TypeOK
<1>4. /\ DOMAIN out[p] \subseteq DOMAIN out'[p]
      /\ \A v \in DOMAIN out'[p] :
           (v \in DOMAIN out[p] => out'[p][v] # out[p][v]) => p = id /\ v = new
  BY <1>3 DEF Added
<1>5. Alone(j) => id = Plugin(j) /\ (~job[j].edited => new = Source[job[j].at].version)
  <2>1. Alone(j) => /\ job[j].md = Library(j) /\ Library(j) \in RevisionsOf(Plugin(j))
                    /\ ~job[j].edited => Library(j) = job[j].at
                    /\ package.project = job[j].md
    BY <1>1 DEF At, Unspoilt, PartsOf, Compiled, Described, Generated, Wrapping, Assembling, Packing
  <2> QED
    BY <2>1 DEF RevisionsOf
<1>6. Docker(j) => id = Plugin(j)
  BY <1>1 DEF At, OwnParts, RevisionsOf, Described, Generated, Wrapping, Packing
<1> QED
  BY <1>1, <1>4, <1>5, <1>6

\* Whatever runs, fails or is killed, each package that comes out is where a package of
\* its plugin and version belongs, unless something disturbed the command that made it.
THEOREM PackagesGoHomeAlways == Spec => PackagesGoHome
<1> DEFINE OnlyDelivered ==
      \A p \in Plugins :
         /\ DOMAIN out[p] \subseteq DOMAIN out'[p]
         /\ \A v \in DOMAIN out'[p] :
              (v \in DOMAIN out[p] => out'[p][v] # out[p][v]) => Delivered(p, v)
<1>1. ASSUME DInv, UInv, [Next]_vars PROVE OnlyDelivered
  <2>1. CASE out' = out
    BY <2>1
  <2>2. ASSUME NEW j \in Jobs, Pack(j) PROVE OnlyDelivered
    <3>1. (Docker(j) => OwnParts(j)) /\ (Alone(j) => Unspoilt(j))
      BY <1>1, <2>2 DEF DInv, UInv, Pack, At
    <3> QED
      BY <1>1, <2>2, <3>1, PackGoesHome DEF DInv, Docker, Delivered
  <2>3. out' = out \/ \E j \in Jobs : Pack(j)
    <3>1. CASE UNCHANGED vars \/ (\E p \in Plugins : Edit(p)) \/ \E j \in Jobs : Start(j)
      BY <3>1 DEF vars, Edit, Start
    <3>2. CASE \E j \in Jobs : Step(j) /\ ~Start(j)
      BY <3>2, StepsWrite
    <3> QED
      BY <1>1, <3>1, <3>2 DEF Next
  <2> QED
    BY <2>1, <2>2, <2>3
<1>2. DInv /\ UInv /\ [Next]_vars => [OnlyDelivered]_vars
  BY <1>1
<1> QED
  BY <1>2, InitEstablishesDInv, StepPreservesDInv, InitEstablishesUInv, StepPreservesUInv, PTL
     DEF Spec, PackagesGoHome

=============================================================================
