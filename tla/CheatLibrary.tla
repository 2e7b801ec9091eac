---- MODULE CheatLibrary ----
(***************************************************************************)
(* The packs that say what may be edited in a save (cheat_service.go,      *)
(* cheat_store.go, cheat_library.go) and the modules that bring parsers    *)
(* and packs of their own (game_modules*.go).  A pack is built in, of an   *)
(* installed module, or a file of the runtime store; an operator switches  *)
(* it off and on; uploads and the synchronisation with GitHub write packs  *)
(* and install modules.  No lock is held: each request reads and writes    *)
(* the files step by step, may fail at each write, and stops with the      *)
(* server.  What a pack says is left out, its status is kept.              *)
(***************************************************************************)
EXTENDS FiniteSets, Naturals, TLC

CONSTANTS
    Packs,         \* pack ids
    Builtins,      \* the packs shipped with the server
    Modules,       \* module ids
    Place,         \* [Modules -> Nat]: their order, by system and title
    Bundles,       \* [Modules -> SUBSET SUBSET Packs]: what their zips hold
    ParserOf,      \* [Packs -> Modules \cup {CompiledIn}]: the adapter of a pack
    CompiledIn,    \* stands for the adapters compiled into the server
    LibraryPacks,  \* the packs in the GitHub library
    Workers,       \* requests served at a time
    Nothing,       \* what an idle worker is at
    MaxOrders      \* bound on the requests of a behaviour

Off == {"disabled", "deleted"}
Statuses == Off \cup {"active"}
PackStatuses == UNION {[S -> Statuses] : S \in SUBSET Packs}

(***************************************************************************)
(* Requests and what they are at: the change of a pack's status, of a      *)
(* module's, the installation of a module, and the writing of packs.       *)
(* packs and mods are what a request concerns.                             *)
(***************************************************************************)
PackChange ==
    [step : {"builtin", "runtime", "module"}, packs : SUBSET Packs,
     mods : SUBSET Modules, named : SUBSET Packs, status : Statuses, pack : Packs]
ModuleChange ==
    [step : {"set"}, packs : SUBSET Packs, mods : SUBSET Modules,
     named : SUBSET Packs, status : Statuses, module : Modules, brings : SUBSET Packs]
Installation ==
    [step : {"remove", "install"}, packs : SUBSET Packs, mods : SUBSET Modules,
     status : Statuses, module : Modules, brings : SUBSET Packs]
Fetching ==
    [step : {"fetch"}, packs : SUBSET Packs, mods : SUBSET Modules,
     files : SUBSET Packs, existing : PackStatuses]
Writing ==
    [step : {"write", "manifest"}, packs : SUBSET Packs, mods : SUBSET Modules,
     files : SUBSET Packs, existing : PackStatuses, pack : Packs, status : Statuses]

Job == PackChange \cup ModuleChange \cup Installation \cup Fetching \cup Writing

ASSUME LibraryAssumption ==
    /\ Builtins \subseteq Packs /\ LibraryPacks \subseteq Packs
    /\ Place \in [Modules -> Nat]
    /\ \A m, n \in Modules : Place[m] = Place[n] => m = n
    /\ Bundles \in [Modules -> SUBSET SUBSET Packs]
    /\ Nothing \notin Job
    /\ MaxOrders \in Nat

VARIABLES
    packFiles,     \* packs/<id>/pack.yaml exists
    manifests,     \* packs/<id>/manifest.json: status, for those that exist
    tombstones,    \* tombstones/<id>.json: status, for those that exist
    modules,       \* installed/<id>/module.json: [status, packs]
    jobs,          \* [Workers -> what each is at]
    orders,        \* requests made
    alone,         \* history: workers whose request has met no other
    off            \* history: packs switched off by such a request

storeVars == <<packFiles, manifests, tombstones, modules>>
libraryVars == <<packFiles, manifests, tombstones, modules, jobs, orders, alone, off>>

(***************************************************************************)
(* listManagedPacks: a runtime pack hides a module's pack of the same id,  *)
(* and both hide a built-in one.  Of the modules with a pack of the same   *)
(* id, the first counts (listModules).                                     *)
(***************************************************************************)
HeldBy(m) == IF m \in DOMAIN modules THEN modules[m].packs ELSE {}
Holders(p) == {m \in DOMAIN modules : p \in modules[m].packs}
First(p) == {m \in Holders(p) : \A n \in Holders(p) : Place[m] <= Place[n]}

Kind(p) == CASE p \in DOMAIN manifests -> "runtime"
             [] p \notin DOMAIN manifests /\ Holders(p) # {} -> "module"
             [] p \notin DOMAIN manifests /\ Holders(p) = {} -> "builtin"

Known == DOMAIN manifests \cup Builtins \cup {p \in Packs : Holders(p) # {}}

Status(p) ==
    CASE Kind(p) = "runtime" -> manifests[p]
      [] Kind(p) = "module" -> modules[CHOOSE m \in First(p) : TRUE].status
      [] Kind(p) = "builtin" -> IF p \in DOMAIN tombstones THEN tombstones[p]
                                                           ELSE "active"

Listing == [p \in Known |-> Status(p)]

(* adapterByID: a module's parser is an adapter while the module is active. *)
Adapters == {CompiledIn} \cup {m \in DOMAIN modules : modules[m].status = "active"}

(* resolvePayload: the packs an edit of a save may be made with. *)
Usable == {p \in Known : Status(p) = "active" /\ ParserOf[p] \in Adapters}

(***************************************************************************)
(* A request meets those at work that concern a pack or a module it does.  *)
(***************************************************************************)
Meets(w, job) ==
    {v \in Workers \ {w} : /\ jobs[v] # Nothing
                           /\ \/ jobs[v].packs \cap job.packs # {}
                              \/ jobs[v].mods \cap job.mods # {}}

Take(w, job, before) ==
    /\ jobs' = [jobs EXCEPT ![w] = job]
    /\ alone' = IF Meets(w, job) = {} THEN before
                ELSE before \ (Meets(w, job) \cup {w})

Begin(w, job) ==
    /\ jobs[w] = Nothing
    /\ orders < MaxOrders
    /\ orders' = orders + 1
    /\ Take(w, job, alone \cup {w})

Continue(w, job) ==
    /\ jobs' = [jobs EXCEPT ![w] = job]
    /\ UNCHANGED <<orders, alone>>

End(w) ==
    /\ jobs' = [jobs EXCEPT ![w] = Nothing]
    /\ alone' = alone \ {w}
    /\ UNCHANGED orders

At(w, step) == jobs[w] # Nothing /\ jobs[w].step = step

With(f, x, v) == [y \in DOMAIN f \cup {x} |-> IF y = x THEN v ELSE f[y]]
Without(f, x) == [y \in DOMAIN f \ {x} |-> f[y]]

(* The module that has the status of p, and the packs that share it. *)
Deciding(p) == IF Kind(p) = "module" THEN First(p) ELSE {}
Siblings(p) == {p} \cup UNION {modules[m].packs : m \in Deciding(p)}

(* What is off after the worker w has set a status ... *)
Switched(w) ==
    IF jobs[w].status \in Off /\ w \in alone THEN off \cup jobs[w].named ELSE off

(* ... and that a pack being enabled is not promised to stay off. *)
Enabling(S, status) == IF status = "active" THEN off \ S ELSE off

(***************************************************************************)
(* deleteManagedPack, disableManagedPack, enableManagedPack: the listing   *)
(* says where the status of the pack is kept.                              *)
(***************************************************************************)
ChangePack(w, p, status) ==
    /\ p \in Known
    /\ Begin(w, [step |-> Kind(p), packs |-> Siblings(p), mods |-> Deciding(p),
                 named |-> {p}, status |-> status, pack |-> p])
    /\ off' = Enabling(Siblings(p), status)
    /\ UNCHANGED storeVars

(* writeTombstone, clearTombstone. *)
ChangeBuiltin(w) ==
    /\ At(w, "builtin")
    /\ tombstones' = IF jobs[w].status = "active"
                     THEN Without(tombstones, jobs[w].pack)
                     ELSE With(tombstones, jobs[w].pack, jobs[w].status)
    /\ off' = Switched(w)
    /\ End(w)
    /\ UNCHANGED <<packFiles, manifests, modules>>

(* updateRuntimePackStatus: a pack that is no runtime pack is not found. *)
ChangeRuntime(w) ==
    /\ At(w, "runtime")
    /\ jobs[w].pack \in DOMAIN manifests
    /\ manifests' = With(manifests, jobs[w].pack, jobs[w].status)
    /\ off' = Switched(w)
    /\ End(w)
    /\ UNCHANGED <<packFiles, tombstones, modules>>

(* setStatusByPackID finds the first module with the pack, and setStatus   *)
(* reads its record ...                                                    *)
ReadModule(w) ==
    /\ At(w, "module")
    /\ \E m \in First(jobs[w].pack) :
         LET j == jobs[w]
             held == modules[m].packs
         IN  /\ Take(w, [step |-> "set", packs |-> j.packs \cup held,
                         mods |-> j.mods \cup {m}, named |-> j.named,
                         status |-> j.status, module |-> m, brings |-> held], alone)
             /\ off' = Enabling(held, j.status)
    /\ UNCHANGED <<storeVars, orders>>

(* ... or finds none, and the pack is taken for a runtime pack. *)
ModuleIsGone(w) ==
    /\ At(w, "module")
    /\ Holders(jobs[w].pack) = {}
    /\ Continue(w, [jobs[w] EXCEPT !.step = "runtime"])
    /\ UNCHANGED <<storeVars, off>>

(* The record is written back with the status, whatever became of the      *)
(* module.                                                                 *)
WriteModule(w) ==
    /\ At(w, "set")
    /\ modules' = With(modules, jobs[w].module,
                       [status |-> jobs[w].status, packs |-> jobs[w].brings])
    /\ off' = Switched(w)
    /\ End(w)
    /\ UNCHANGED <<packFiles, manifests, tombstones>>

(* handleModuleStatus names the module: the packs seen as its own are meant. *)
ChangeModule(w, m, status) ==
    /\ m \in DOMAIN modules
    /\ Begin(w, [step |-> "set", packs |-> modules[m].packs, mods |-> {m},
                 named |-> {p \in modules[m].packs : m \in Deciding(p)},
                 status |-> status, module |-> m, brings |-> modules[m].packs])
    /\ off' = Enabling(modules[m].packs, status)
    /\ UNCHANGED storeVars

(***************************************************************************)
(* Writing packs.  validateLiveCheatPack wants the pack's adapter;         *)
(* writePack writes pack.yaml, then manifest.json.                         *)
(***************************************************************************)
ValidateLive(p) == ParserOf[p] \in Adapters

(* createManagedPack: an uploaded pack is active. *)
Create(w, p) ==
    /\ ValidateLive(p)
    /\ Begin(w, [step |-> "write", packs |-> {p}, mods |-> {}, files |-> {},
                 existing |-> [q \in {} |-> "active"], pack |-> p,
                 status |-> "active"])
    /\ off' = off \ {p}
    /\ UNCHANGED storeVars

(* The packs of the modules of S that are being written again: a request   *)
(* that looks meanwhile sees neither them nor their status, so that what   *)
(* it writes may be active.                                                *)
Rewritten(S) ==
    UNION {jobs[w].packs : w \in {v \in Workers : At(v, "install") /\ jobs[v].module \in S}}

(* syncLibrary: the listing is read once, when the tree was fetched. *)
Sync(w) ==
    /\ Begin(w, [step |-> "fetch", packs |-> LibraryPacks, mods |-> {},
                 files |-> LibraryPacks, existing |-> Listing])
    /\ off' = off \ Rewritten(Modules)
    /\ UNCHANGED storeVars

(* The status a synchronised pack is written with. *)
SyncStatusActive(j, p) == "active"
SyncStatus(j, p) == IF p \in DOMAIN j.existing THEN j.existing[p] ELSE "active"

(* A file of the library is fetched, decoded and found valid ... *)
Fetch(w, p) ==
    /\ At(w, "fetch")
    /\ p \in jobs[w].files
    /\ ValidateLive(p)
    /\ Continue(w, [step |-> "write", packs |-> jobs[w].packs, mods |-> jobs[w].mods,
                    files |-> jobs[w].files \ {p}, existing |-> jobs[w].existing,
                    pack |-> p, status |-> SyncStatus(jobs[w], p)])
    /\ UNCHANGED <<storeVars, off>>

(* ... or reported as an error and passed over. *)
Skip(w, p) ==
    /\ At(w, "fetch")
    /\ p \in jobs[w].files
    /\ Continue(w, [jobs[w] EXCEPT !.files = @ \ {p}])
    /\ UNCHANGED <<storeVars, off>>

WritePackFile(w) ==
    /\ At(w, "write")
    /\ packFiles' = packFiles \cup {jobs[w].pack}
    /\ Continue(w, [jobs[w] EXCEPT !.step = "manifest"])
    /\ UNCHANGED <<manifests, tombstones, modules, off>>

(* What is left of a synchronisation after a pack. *)
Rest(j) == [step |-> "fetch", packs |-> j.packs, mods |-> j.mods,
            files |-> j.files, existing |-> j.existing]

WriteManifest(w) ==
    /\ At(w, "manifest")
    /\ manifests' = With(manifests, jobs[w].pack, jobs[w].status)
    /\ IF jobs[w].files = {} THEN End(w) ELSE Continue(w, Rest(jobs[w]))
    /\ UNCHANGED <<packFiles, tombstones, modules, off>>

(* A pack of the library that could not be written is reported, too. *)
WriteFails(w) ==
    /\ At(w, "write") \/ At(w, "manifest")
    /\ jobs[w].files # {}
    /\ Continue(w, Rest(jobs[w]))
    /\ UNCHANGED <<storeVars, off>>

(* Every file was passed over. *)
SyncEnds(w) ==
    /\ At(w, "fetch")
    /\ jobs[w].files = {}
    /\ End(w)
    /\ UNCHANGED <<storeVars, off>>

(***************************************************************************)
(* importZip: a module keeps the status disabled or deleted; its directory *)
(* is removed and written again, module.json last.  The packs a bundle     *)
(* brings newly, and those it no longer hides, are as they come.           *)
(***************************************************************************)
Kept(m) == IF m \in DOMAIN modules /\ modules[m].status \in Off
           THEN modules[m].status ELSE "active"

Import(w, m, bundle) ==
    /\ bundle \in Bundles[m]
    /\ Begin(w, [step |-> "remove", packs |-> bundle \cup HeldBy(m), mods |-> {m},
                 status |-> Kept(m), module |-> m, brings |-> bundle])
    /\ off' = off \ ((bundle \ HeldBy(m)) \cup (HeldBy(m) \ bundle) \cup Rewritten({m}))
    /\ UNCHANGED storeVars

RemoveModule(w) ==
    /\ At(w, "remove")
    /\ modules' = Without(modules, jobs[w].module)
    /\ Continue(w, [jobs[w] EXCEPT !.step = "install"])
    /\ UNCHANGED <<packFiles, manifests, tombstones, off>>

InstallModule(w) ==
    /\ At(w, "install")
    /\ modules' = With(modules, jobs[w].module,
                       [status |-> jobs[w].status, packs |-> jobs[w].brings])
    /\ End(w)
    /\ UNCHANGED <<packFiles, manifests, tombstones, off>>

(***************************************************************************)
(* A write, a download or a lookup fails and the request ends with an      *)
(* error, or the server stops.  A module whose import ends between its     *)
(* removal and its record is gone, and its status with it.                 *)
(***************************************************************************)
LostStatuses(W) == UNION {jobs[w].packs : w \in {v \in W : At(v, "install")}}

Fail(w) ==
    /\ jobs[w] # Nothing
    /\ End(w)
    /\ off' = off \ LostStatuses({w})
    /\ UNCHANGED storeVars

RestartLibrary ==
    /\ \E w \in Workers : jobs[w] # Nothing
    /\ jobs' = [w \in Workers |-> Nothing]
    /\ alone' = {}
    /\ off' = off \ LostStatuses(Workers)
    /\ UNCHANGED <<storeVars, orders>>

LibraryInit ==
    /\ packFiles = {}
    /\ manifests = [p \in {} |-> "active"]
    /\ tombstones = [p \in {} |-> "active"]
    /\ modules = [m \in {} |-> "active"]
    /\ jobs = [w \in Workers |-> Nothing]
    /\ orders = 0
    /\ alone = {}
    /\ off = {}

LibraryNext ==
    \/ \E w \in Workers :
         \/ \E p \in Packs, s \in Statuses : ChangePack(w, p, s)
         \/ \E m \in Modules, s \in Statuses : ChangeModule(w, m, s)
         \/ ChangeBuiltin(w)
         \/ ChangeRuntime(w)
         \/ ReadModule(w)
         \/ ModuleIsGone(w)
         \/ WriteModule(w)
         \/ \E p \in Packs : Create(w, p) \/ Fetch(w, p) \/ Skip(w, p)
         \/ Sync(w)
         \/ WritePackFile(w)
         \/ WriteManifest(w)
         \/ WriteFails(w)
         \/ SyncEnds(w)
         \/ \E m \in Modules, b \in SUBSET Packs : Import(w, m, b)
         \/ RemoveModule(w)
         \/ InstallModule(w)
         \/ Fail(w)
    \/ RestartLibrary

LibrarySpec == LibraryInit /\ [][LibraryNext]_libraryVars

(* Types, and that a manifest has its pack beside it, without which the    *)
(* listing of every pack fails.                                            *)
LibraryTypeOK ==
    /\ packFiles \subseteq Packs
    /\ DOMAIN manifests \subseteq packFiles
    /\ \A p \in DOMAIN manifests : manifests[p] \in Statuses
    /\ DOMAIN tombstones \subseteq Builtins
    /\ \A p \in DOMAIN tombstones : tombstones[p] \in Off
    /\ DOMAIN modules \subseteq Modules
    /\ \A m \in DOMAIN modules :
         modules[m] \in [status : Statuses, packs : SUBSET Packs]
    /\ jobs \in [Workers -> Job \cup {Nothing}]
    /\ orders \in 0..MaxOrders
    /\ alone \subseteq {w \in Workers : jobs[w] # Nothing}
    /\ off \subseteq Packs

(***************************************************************************)
(* A pack an operator has disabled or deleted is used for no edit until    *)
(* the pack or its module is enabled, the pack is uploaded, or a bundle    *)
(* brings or drops it: whatever is synchronised or imported, whatever      *)
(* fails and whenever the server restarts.  While a module's directory is  *)
(* written again, the packs it hides are seen.                             *)
(***************************************************************************)
SwitchedOffStaysOff == off \cap Usable \subseteq Rewritten(Modules)
====
