----------------------------- MODULE Provisioning -----------------------------
(***************************************************************************)
(* How the files a program loads come to be: the version pins, the scripts *)
(* that fetch the library, generate the binding scaffold and rewrite the   *)
(* vendored sources, and the program that is then started from them.  A    *)
(* script may be interrupted after any of its writes and run again.  Files *)
(* are edited, and scripts run, while no program runs; a compiled binary   *)
(* is one built just before it starts.                                     *)
(***************************************************************************)
EXTENDS NativeLoader

CONSTANTS
  Modules,     \* the files of src/bindings/impl
  ModuleOf     \* function -> the file that would implement it

VARIABLES
  pin,         \* DUCKDB_VERSION
  pkg, devDep, \* base versions in package.json, of the package and of node-api
  contract,    \* version of node-bindings.d.ts
  header,      \* version of vendor/duckdb.h
  stubs,       \* functions.ts: the functions that throw NotImplemented
  listed,      \* functions.ts: the impl files it re-exports
  script,      \* the step a running script is at
  target,      \* what a running fetch-lib fetches
  fetched,     \* history: the targets fetch-lib has completed since the pin changed
  fresh        \* history: functions.ts was written since contract and impl changed

pins == <<pin, pkg, devDep, contract>>
generated == <<stubs, listed>>
running == <<script, target>>
vars == <<host, lib, impl, loading, pins, header, generated, running, fetched, fresh>>

ASSUME ProvisioningAssumption ==
  /\ Versions \subseteq Nat \ {0} /\ 1 \in Versions
  /\ \A v \in Versions : ContractOf[v] \subseteq Names
  /\ ByValue \subseteq Names
  /\ ModuleOf \in [Names -> Modules]
  /\ "vendor" \notin Dirs /\ None \notin Dirs \cup {"vendor"}

Init ==
  /\ host \in {"linux-x64", "musl", "other"}
  /\ lib = Absent /\ impl = {}
  /\ LoaderInit
  /\ pin = 1 /\ pkg = 1 /\ devDep = 1 /\ contract = 1
  /\ header = 1
  /\ stubs = ContractOf[1] /\ listed = {}
  /\ script = "idle" /\ target = None
  /\ fetched = {} /\ fresh = TRUE

Resting == program = "none" /\ script = "idle"

-----------------------------------------------------------------------------
(* Edits by hand, in any order.                                            *)
BumpPin(v) ==
  /\ Resting /\ v > pin
  /\ pin' = v /\ fetched' = {}
  /\ UNCHANGED <<host, lib, impl, loading, pkg, devDep, contract, header, generated, running,
                 fresh>>

BumpPackage ==
  /\ Resting /\ pkg # pin
  /\ pkg' = pin
  /\ UNCHANGED <<host, lib, impl, loading, pin, devDep, contract, header, generated, running,
                 fetched, fresh>>

BumpReference ==
  /\ Resting /\ devDep # pin
  /\ devDep' = pin
  /\ UNCHANGED <<host, lib, impl, loading, pin, pkg, contract, header, generated,
                 running, fetched, fresh>>

(* The vendored contract is copied anew.                                   *)
Revendor ==
  /\ Resting /\ contract # pin
  /\ contract' = pin
  /\ fresh' = FALSE
  /\ UNCHANGED <<host, lib, impl, loading, pin, pkg, devDep, header, generated, running, fetched>>

Implement(f) ==
  /\ Resting /\ f \in ContractOf[contract] \ impl
  /\ impl' = impl \cup {f}
  /\ fresh' = FALSE
  /\ UNCHANGED <<host, lib, loading, pins, header, generated, running, fetched>>

-----------------------------------------------------------------------------
(* fetch-lib: download, unzip into the directory of the target, move the   *)
(* header, remove the rest.  A failed download stops it.  The target is    *)
(* its argument or, without one, that of the host; an unknown one ends it  *)
(* at once.  Only the library of linux-x64 is ever loaded.                 *)
Targets == {"linux-x64", "elsewhere"}

OnTarget(l) == IF target = "linux-x64" THEN l ELSE lib

Begin(step) ==
  /\ Resting
  /\ script' = step
  /\ UNCHANGED <<host, lib, impl, loading, pins, header, generated, fetched, fresh>>

FetchLib(t) == Begin("download") /\ target' = t

Unzip ==
  /\ script = "download"
  /\ lib' = OnTarget([ver |-> pin, whole |-> FALSE])
  /\ script' = "unzipping" /\ fetched' = fetched \ {target}
  /\ UNCHANGED <<host, impl, loading, pins, header, generated, target, fresh>>

UnzipEnds ==
  /\ script = "unzipping"
  /\ lib' = OnTarget([ver |-> pin, whole |-> TRUE])
  /\ script' = "moving"
  /\ UNCHANGED <<host, impl, loading, pins, header, generated, target, fetched, fresh>>

(* Mutant: the header stays in the directory of the target.                *)
LeaveHeader == UNCHANGED header

MoveHeader == header' = pin

FetchEnds ==
  /\ script = "moving"
  /\ MoveHeader
  /\ script' = "idle" /\ target' = None
  /\ fetched' = fetched \cup {target}
  /\ UNCHANGED <<host, lib, impl, loading, pins, generated, fresh>>

(* gen-bindings-scaffold: the enums and types of the contract, whose       *)
(* contents are left out, ...                                              *)
GenerateScaffold == Begin("scaffold") /\ UNCHANGED target

WriteTypes ==
  /\ script = "scaffold"
  /\ script' = "barrel"
  /\ UNCHANGED <<host, lib, impl, loading, pins, header, generated, target, fetched, fresh>>

(* Mutant: every function of the contract gets a stub.                     *)
AllNames == ContractOf[contract]

StubNames == ContractOf[contract] \ impl

(* ... then the barrel: a stub for what no file under impl exports, and a  *)
(* re-export of every file.                                                *)
WriteFunctions ==
  /\ script = "barrel"
  /\ stubs' = StubNames
  /\ listed' = {ModuleOf[f] : f \in impl}
  /\ script' = "idle" /\ fresh' = TRUE
  /\ UNCHANGED <<host, lib, impl, loading, pins, header, target, fetched>>

(* A script fails or is interrupted.                                       *)
Interrupt ==
  /\ script # "idle"
  /\ script' = "idle" /\ target' = None
  /\ UNCHANGED <<host, lib, impl, loading, pins, header, generated, fetched, fresh>>

(* check-version exits with an error when this holds; the latest release   *)
(* it also asks for is for information.                                    *)
HardDrift == lib = Absent \/ pkg # pin \/ devDep # pin

-----------------------------------------------------------------------------
maintenance == <<pins, header, generated, running, fetched, fresh>>

Run == script = "idle" /\ (StartProgram("source") \/ StartProgram("binary"))
       /\ UNCHANGED maintenance

Load(i) == LoaderStep(i) /\ UNCHANGED maintenance

Quit == Exit /\ UNCHANGED maintenance

Next ==
  \/ \E v \in Versions : BumpPin(v)
  \/ BumpPackage
  \/ BumpReference
  \/ Revendor
  \/ \E f \in Names : Implement(f)
  \/ \E t \in Targets : FetchLib(t)
  \/ Unzip
  \/ UnzipEnds
  \/ FetchEnds
  \/ GenerateScaffold
  \/ WriteTypes
  \/ WriteFunctions
  \/ Interrupt
  \/ Run
  \/ \E i \in Importers : Load(i)
  \/ Quit

(* The event loop runs every module that can run.                          *)
Spec == Init /\ [][Next]_vars /\ \A i \in Importers : WF_vars(Load(i))

-----------------------------------------------------------------------------
(* What a call of function f of the drop-in layer does: a local stub hides *)
(* a re-exported function of its name.                                     *)
CallOf(f) ==
  CASE f \in stubs -> "NotImplemented"
    [] f \notin stubs /\ f \in impl /\ ModuleOf[f] \in listed ->
         IF f \in ByValue /\ f \notin SymbolsOf([ver |-> loader["neo"].ver, whole |-> TRUE])
           THEN "null function" ELSE "implementation"
    [] OTHER -> "missing"

TypeOK ==
  /\ host \in {"linux-x64", "musl", "other"}
  /\ lib \in Libs /\ impl \subseteq Names
  /\ program \in {"none", "source", "binary"}
  /\ cached \in Dirs \cup {"vendor", None}
  /\ made \subseteq Dirs
  /\ copies \in [Dirs -> SUBSET Files]
  /\ loader \in [Importers -> [pc : {"off", "import", "writing", "loaded", "ready", "failed"},
                               paths : Dirs \cup {"vendor", None}, ver : Versions \cup {0}]]
  /\ pin \in Versions /\ pkg \in Versions /\ devDep \in Versions /\ contract \in Versions
  /\ header \in Versions
  /\ stubs \subseteq Names /\ listed \subseteq Modules
  /\ script \in {"idle", "download", "unzipping", "moving", "scaffold", "barrel"}
  /\ target \in Targets \cup {None}
  /\ fetched \subseteq Targets /\ fresh \in BOOLEAN

(* A module that is given paths finds all three files there, complete,     *)
(* even when another module is still writing its own copies.  Run from     *)
(* source, the two modules open the same library; only a binary may end    *)
(* with two copies of it in one process.                                   *)
PathsAreComplete ==
  /\ cached # None => Complete(cached)
  /\ \A i \in Importers :
       loader[i].pc \in {"loaded", "ready"} =>
         /\ Complete(loader[i].paths)
         /\ program = "source" => loader[i].paths = "vendor"

(* Once fetch-lib has ended for a target, the header is that of the pin,   *)
(* and once it has ended for linux-x64 so is the library that programs     *)
(* load, whatever interrupted runs came before and whatever other targets  *)
(* are fetched meanwhile; if check-version then finds no drift, package    *)
(* and reference agree too.  A fetch for another target alone moves the    *)
(* header on and leaves the library behind, which check-version does not   *)
(* see: it knows of the library only that it is there.                     *)
FetchedFilesAgree ==
  /\ fetched # {} => header = pin
  /\ "linux-x64" \in fetched =>
       /\ lib = [ver |-> pin, whole |-> TRUE]
       /\ ~HardDrift => {lib.ver, header, pkg, devDep} = {pin}

(* After the scaffold is generated, a call reaches the implementation of   *)
(* every function that has one and NotImplemented otherwise.  What may     *)
(* still go wrong is a function of the shim that the library opened does   *)
(* not have, which shim_init does not notice.                              *)
CallsReachTheirFunction ==
  fresh /\ loader["neo"].pc = "ready" =>
    \A f \in ContractOf[contract] :
      CASE f \notin impl -> CallOf(f) = "NotImplemented"
        [] f \in impl -> \/ CallOf(f) = "implementation"
                         \/ /\ CallOf(f) = "null function"
                            /\ f \notin ContractOf[loader["neo"].ver]

(* A module that is imported becomes ready or fails, unless its program    *)
(* ends first; no interleaving of the two leaves one waiting.              *)
ImportsSettle ==
  \A i \in Importers :
    loader[i].pc = "import" ~> loader[i].pc \in {"ready", "failed", "off"}

=============================================================================
