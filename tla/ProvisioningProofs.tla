-------------------------- MODULE ProvisioningProofs --------------------------
(***************************************************************************)
(* Theorems about the files a program loads, for any versions, contracts   *)
(* and order of edits, scripts and interruptions, and, at the end, about   *)
(* the Bun-native client that is then there to be used, for any number of  *)
(* wrappers, chunks and errors.                                            *)
(***************************************************************************)
EXTENDS Provisioning, NativeClient, TLAPS

-----------------------------------------------------------------------------

Pcs == {"off", "import", "writing", "loaded", "ready", "failed"}

LoaderRecords == [pc : Pcs, paths : Dirs \cup {"vendor", None}, ver : Versions \cup {0}]

(* Scripts and programs never run at once.                                 *)
OneAtATime == program = "none" \/ script = "idle"

(* A module that writes copies has a directory of its program.  What has   *)
(* been written stays while the program runs.                              *)
PlacesInv ==
  /\ program = "none" => cached = None /\ loader = [i \in Importers |-> Off]
  /\ program = "source" => cached \in {"vendor", None}
  /\ \A i \in Importers :
       /\ loader[i].pc = "writing" => loader[i].paths \in Dirs /\ program = "binary"
       /\ loader[i].pc \in {"loaded", "ready"} => loader[i].paths \in Dirs \cup {"vendor"}

(* While fetch-lib writes, nothing is said of the files of its target;     *)
(* what it has written is of the pin.                                      *)
FetchInv ==
  /\ script \in {"download", "unzipping", "moving"} => target \in Targets
  /\ script \in {"unzipping", "moving"} => target \notin fetched
  /\ script = "moving" /\ target = "linux-x64" => lib = [ver |-> pin, whole |-> TRUE]
  /\ fetched # {} => header = pin
  /\ "linux-x64" \in fetched => lib = [ver |-> pin, whole |-> TRUE]

BarrelInv ==
  fresh => stubs = ContractOf[contract] \ impl /\ listed = {ModuleOf[f] : f \in impl}

PInv ==
  /\ TypeOK /\ OneAtATime /\ PlacesInv /\ PathsAreComplete
  /\ FetchInv /\ BarrelInv

LEMMA InitPInv == Init => PInv
<1> SUFFICES ASSUME Init PROVE PInv
  OBVIOUS
<1> USE ProvisioningAssumption DEF Init, LoaderInit
<1>1. TypeOK
  BY DEF TypeOK, Libs, Absent, Off, Files
<1>2. OneAtATime /\ PlacesInv /\ PathsAreComplete
  BY DEF OneAtATime, PlacesInv, PathsAreComplete, Off
<1>3. FetchInv /\ BarrelInv
  BY DEF FetchInv, BarrelInv
<1> QED
  BY <1>1, <1>2, <1>3 DEF PInv

(* What a step of a module does to its record.                             *)
LEMMA ModuleMoves ==
  ASSUME PInv, NEW i \in Importers, NEW r \in LoaderRecords,
         loader' = [loader EXCEPT ![i] = r]
  PROVE  /\ loader' \in [Importers -> LoaderRecords] /\ loader'[i] = r
         /\ \A j \in Importers \ {i} : loader'[j] = loader[j]
         /\ loader[i] \in LoaderRecords
<1>1. loader \in [Importers -> LoaderRecords]
  BY DEF PInv, TypeOK, LoaderRecords, Pcs
<1> QED
  BY <1>1

(* A record of the new place, whatever becomes of its fields.              *)
LEMMA StepsOfModules ==
  ASSUME PInv, program # "none", NEW i \in Importers, NEW r \in LoaderRecords,
         loader' = [loader EXCEPT ![i] = r], UNCHANGED <<host, lib, impl, program, maintenance>>,
         made' \subseteq Dirs, copies' \in [Dirs -> SUBSET Files],
         \A d \in Dirs : copies[d] \subseteq copies'[d],
         cached' \in {cached, r.paths},
         cached' # None => Complete(cached)' /\ cached' \in Dirs \cup {"vendor"}
                           /\ (program = "source" => cached' = "vendor"),
         r.pc = "writing" => r.paths \in Dirs /\ program = "binary",
         r.pc \in {"loaded", "ready"} => /\ r.paths \in Dirs \cup {"vendor"} /\ Complete(r.paths)'
                                         /\ program = "source" => r.paths = "vendor"
  PROVE  PInv'
<1>1. /\ loader' \in [Importers -> LoaderRecords] /\ loader'[i] = r
      /\ \A j \in Importers \ {i} : loader'[j] = loader[j]
  BY ModuleMoves
<1>2. UNCHANGED <<pin, pkg, devDep, contract, header, stubs, listed, script, target, fetched, fresh>>
  BY DEF maintenance, pins, generated, running
<1>3. TypeOK'
  BY <1>1, <1>2 DEF PInv, TypeOK, LoaderRecords, Pcs
<1>4. OneAtATime' /\ PlacesInv'
  BY <1>1, <1>2 DEF PInv, OneAtATime, PlacesInv
<1>5. \A p \in Dirs \cup {"vendor"} :
        /\ Complete(p) => Complete(p)'
        /\ Complete(p) => LibraryAt(p)' = lib /\ LibraryAt(p) = lib
  BY DEF Complete, LibraryAt, PInv, TypeOK, Files
<1>6. PathsAreComplete'
  BY <1>1, <1>5 DEF PInv, PlacesInv, PathsAreComplete
<1>8. FetchInv' /\ BarrelInv'
  BY <1>2 DEF PInv, FetchInv, BarrelInv
<1> QED
  BY <1>3, <1>4, <1>6, <1>8 DEF PInv

(* The record of a module after a step, as a value.                        *)
LEMMA NewStatus ==
  ASSUME NEW old \in LoaderRecords, NEW c \in Pcs
  PROVE  \E q \in LoaderRecords : q = [old EXCEPT !.pc = c] /\ q.pc = c /\ q.paths = old.paths
<1>1. [old EXCEPT !.pc = c] \in LoaderRecords /\ [old EXCEPT !.pc = c].pc = c
      /\ [old EXCEPT !.pc = c].paths = old.paths
  BY DEF LoaderRecords
<1> QED
  BY <1>1

LEMMA StepLoadNative ==
  ASSUME PInv, NEW i \in Importers, LoadNative(i), UNCHANGED maintenance
  PROVE  PInv'
<1>0. /\ loader[i] \in LoaderRecords
      /\ "loaded" \in Pcs /\ "failed" \in Pcs /\ "writing" \in Pcs
  BY DEF PInv, TypeOK, LoaderRecords, Pcs
<1>1. /\ loader[i].pc = "import" /\ UNCHANGED <<host, lib, impl, program, copies>>
      /\ loader \in [Importers -> LoaderRecords] /\ loader[i] \in LoaderRecords
  BY DEF LoadNative, PInv, TypeOK, LoaderRecords, Pcs
<1>2. program # "none"
  BY <1>1 DEF PInv, PlacesInv, Off
<1>3. \A p : Complete(p)' = Complete(p)
  BY <1>1 DEF Complete
<1>4. cached \in Dirs \cup {"vendor", None} /\ made \subseteq Dirs
      /\ copies \in [Dirs -> SUBSET Files] /\ (cached # None => Complete(cached))
      /\ (program = "source" => cached \in {"vendor", None})
      /\ program \in {"none", "source", "binary"}
  BY DEF PInv, TypeOK, PathsAreComplete, PlacesInv
<1>5. CASE cached # None
  <2>1. PICK q \in LoaderRecords : q = [loader[i] EXCEPT !.pc = "loaded", !.paths = cached]
                                  /\ q.pc = "loaded" /\ q.paths = cached
    <3>1. cached \in Dirs \cup {"vendor", None} /\ loader[i] \in LoaderRecords /\ "loaded" \in Pcs
      BY <1>0, <1>4
    <3>2. /\ [loader[i] EXCEPT !.pc = "loaded", !.paths = cached] \in LoaderRecords
          /\ [loader[i] EXCEPT !.pc = "loaded", !.paths = cached].pc = "loaded"
          /\ [loader[i] EXCEPT !.pc = "loaded", !.paths = cached].paths = cached
      BY ONLY <3>1 DEF LoaderRecords
    <3> QED
      BY <3>2
  <2>2. loader' = [loader EXCEPT ![i] = q] /\ UNCHANGED <<cached, made>>
    BY <1>1, <1>5, <2>1 DEF LoadNative
  <2>3. cached \in Dirs \cup {"vendor"} /\ (program = "source" => cached = "vendor")
    BY <1>4, <1>5
  <2>4. Complete(cached)'
    BY <1>3, <1>4, <1>5, <2>2 DEF Complete
  <2>5. Complete(q.paths)'
    BY <1>1, <1>3, <1>4, <1>5, <2>1
  <2> QED
    BY <1>1, <1>2, <1>4, <2>1, <2>2, <2>3, <2>4, <2>5, StepsOfModules
<1>6. CASE cached = None /\ ~SelectLib
  <2>1. PICK q \in LoaderRecords : q = [loader[i] EXCEPT !.pc = "failed"] /\ q.pc = "failed"
    BY ONLY <1>0, NewStatus
  <2>2. loader' = [loader EXCEPT ![i] = q] /\ UNCHANGED <<cached, made>>
    BY <1>1, <1>6, <2>1 DEF LoadNative
  <2> QED
    BY <1>1, <1>2, <1>4, <1>6, <2>1, <2>2, StepsOfModules
<1>7. CASE cached = None /\ SelectLib /\ OnDisk
  <2>1. PICK q \in LoaderRecords : q = [loader[i] EXCEPT !.pc = "loaded", !.paths = "vendor"]
                                  /\ q.pc = "loaded" /\ q.paths = "vendor"
    <3>1. "vendor" \in Dirs \cup {"vendor", None} /\ loader[i] \in LoaderRecords /\ "loaded" \in Pcs
      BY <1>0
    <3>2. /\ [loader[i] EXCEPT !.pc = "loaded", !.paths = "vendor"] \in LoaderRecords
          /\ [loader[i] EXCEPT !.pc = "loaded", !.paths = "vendor"].pc = "loaded"
          /\ [loader[i] EXCEPT !.pc = "loaded", !.paths = "vendor"].paths = "vendor"
      BY ONLY <3>1 DEF LoaderRecords
    <3> QED
      BY <3>2
  <2>2. loader' = [loader EXCEPT ![i] = q] /\ UNCHANGED made /\ cached' = "vendor"
    BY <1>1, <1>7, <2>1 DEF LoadNative
  <2>3. Complete(q.paths)' /\ Complete(cached)'
    BY <2>1, <2>2 DEF Complete
  <2> QED
    BY <1>1, <1>2, <1>4, <2>1, <2>2, <2>3, StepsOfModules
<1>8. CASE cached = None /\ SelectLib /\ ~OnDisk
  <2>1. PICK d \in Dirs \ made :
          made' = made \cup {d} /\ loader' = [loader EXCEPT ![i].pc = "writing", ![i].paths = d]
          /\ UNCHANGED cached
    BY <1>8 DEF LoadNative
  <2>2. PICK q \in LoaderRecords : q = [loader[i] EXCEPT !.pc = "writing", !.paths = d]
                                  /\ q.pc = "writing" /\ q.paths = d
    <3>1. d \in Dirs \cup {"vendor", None} /\ loader[i] \in LoaderRecords /\ "writing" \in Pcs
      BY <1>0, <2>1
    <3>2. /\ [loader[i] EXCEPT !.pc = "writing", !.paths = d] \in LoaderRecords
          /\ [loader[i] EXCEPT !.pc = "writing", !.paths = d].pc = "writing"
          /\ [loader[i] EXCEPT !.pc = "writing", !.paths = d].paths = d
      BY ONLY <3>1 DEF LoaderRecords
    <3> QED
      BY <3>2
  <2>3. loader' = [loader EXCEPT ![i] = q]
    BY <1>1, <2>1, <2>2
  <2>4. program = "binary"
    BY <1>2, <1>4, <1>8 DEF OnDisk
  <2>5. made' \subseteq Dirs /\ cached' = None /\ cached' = cached /\ d \in Dirs
    BY <1>4, <1>8, <2>1
  <2> QED
    BY <1>1, <1>2, <1>4, <2>2, <2>3, <2>4, <2>5, StepsOfModules
<1> QED
  BY <1>5, <1>6, <1>7, <1>8

LEMMA StepWrites ==
  ASSUME PInv, NEW i \in Importers, WriteCopy(i) \/ WriteFails(i) \/ FinishCopies(i),
         UNCHANGED maintenance
  PROVE  PInv'
<1>0. /\ loader[i] \in LoaderRecords
      /\ "loaded" \in Pcs /\ "failed" \in Pcs /\ "writing" \in Pcs
  BY DEF PInv, TypeOK, LoaderRecords, Pcs
<1>1. /\ loader[i].pc = "writing" /\ UNCHANGED <<host, lib, impl, program, made>>
      /\ loader \in [Importers -> LoaderRecords] /\ loader[i] \in LoaderRecords
  BY DEF WriteCopy, WriteFails, FinishCopies, PInv, TypeOK, LoaderRecords, Pcs
<1>2. program = "binary" /\ loader[i].paths \in Dirs
  BY <1>1 DEF PInv, PlacesInv
<1>3. cached \in Dirs \cup {"vendor", None} /\ made \subseteq Dirs
      /\ copies \in [Dirs -> SUBSET Files] /\ (cached # None => Complete(cached))
      /\ None \notin Dirs \cup {"vendor"}
  BY ProvisioningAssumption DEF PInv, TypeOK, PathsAreComplete
<1>4. CASE WriteCopy(i)
  <2>1. PICK f \in Files : copies' = [copies EXCEPT ![loader[i].paths] = @ \cup {f}]
                           /\ UNCHANGED <<cached, loader>>
    BY <1>4 DEF WriteCopy
  <2>2. copies' \in [Dirs -> SUBSET Files] /\ \A d \in Dirs : copies[d] \subseteq copies'[d]
    BY <1>2, <1>3, <2>1
  <2>3. loader' = [loader EXCEPT ![i] = loader[i]]
    BY <1>1, <2>1
  <2>4. cached' # None => Complete(cached)' /\ cached' \in Dirs \cup {"vendor"}
    BY <1>3, <2>1, <2>2 DEF Complete
  <2> QED
    BY <1>1, <1>2, <1>3, <2>1, <2>2, <2>3, <2>4, StepsOfModules
<1>5. CASE WriteFails(i)
  <2>1. PICK q \in LoaderRecords : q = [loader[i] EXCEPT !.pc = "failed"] /\ q.pc = "failed"
    BY ONLY <1>0, NewStatus
  <2>2. loader' = [loader EXCEPT ![i] = q] /\ UNCHANGED <<cached, copies>>
    BY <1>1, <1>5, <2>1 DEF WriteFails
  <2>3. cached' # None => Complete(cached)' /\ cached' \in Dirs \cup {"vendor"}
    BY <1>3, <2>2 DEF Complete
  <2> QED
    BY <1>1, <1>2, <1>3, <2>1, <2>2, <2>3, StepsOfModules
<1>6. CASE FinishCopies(i)
  <2>1. PICK q \in LoaderRecords : q = [loader[i] EXCEPT !.pc = "loaded"] /\ q.pc = "loaded" /\ q.paths = loader[i].paths
    BY ONLY <1>0, NewStatus
  <2>2. /\ loader' = [loader EXCEPT ![i] = q] /\ cached' = q.paths
        /\ UNCHANGED copies /\ copies[loader[i].paths] = Files
    BY <1>1, <1>6, <2>1 DEF FinishCopies, Written
  <2>3. q.paths \in Dirs /\ copies'[q.paths] = Files
    BY <1>2, <2>1, <2>2
  <2>4. Complete(q.paths)' /\ Complete(cached)'
    BY <2>2, <2>3 DEF Complete
  <2> QED
    BY <1>1, <1>2, <1>3, <2>1, <2>2, <2>3, <2>4, StepsOfModules
<1> QED
  BY <1>4, <1>5, <1>6

LEMMA StepLoadModule ==
  ASSUME PInv, NEW i \in Importers, LoadModule(i), UNCHANGED maintenance
  PROVE  PInv'
<1>1. /\ loader[i].pc = "loaded"
      /\ UNCHANGED <<host, lib, impl, program, cached, made, copies>>
      /\ loader \in [Importers -> LoaderRecords] /\ loader[i] \in LoaderRecords
  BY DEF LoadModule, PInv, TypeOK, LoaderRecords, Pcs
<1>2. program # "none"
  BY <1>1 DEF PInv, PlacesInv, Off
<1>3. PICK p \in Dirs \cup {"vendor"} :
        /\ p = loader[i].paths /\ Complete(p)
        /\ program = "source" => p = "vendor"
  BY <1>1 DEF PInv, PlacesInv, PathsAreComplete
<1>4. PICK l \in Libs : l = LibraryAt(p)
  BY <1>3 DEF LibraryAt, PInv, TypeOK, Libs
<1>5. PICK opens \in BOOLEAN : opens = (OpenLibrary(i, l) /\ CompileShim(p) /\ InitShim(l))
  OBVIOUS
<1>6. opens => /\ l.whole /\ l.ver \in Versions
               /\ BoundSymbols[i] \subseteq ContractOf[l.ver]
  <2>1. l.whole => l.ver \in Versions
    BY DEF Libs, Absent
  <2> QED
    BY <1>5, <2>1 DEF OpenLibrary, SymbolsOf
<1>7. PICK q : q = IF opens THEN [pc |-> "ready", paths |-> p, ver |-> l.ver]
                   ELSE [loader[i] EXCEPT !.pc = "failed"]
  OBVIOUS
<1>8. q \in LoaderRecords /\ q.pc \in {"ready", "failed"} /\ q.paths = p
  BY <1>1, <1>3, <1>6, <1>7 DEF LoaderRecords, Pcs
<1>10. loader' = [loader EXCEPT ![i] = q]
  BY <1>3, <1>4, <1>5, <1>7 DEF LoadModule
<1>11. LibraryAt(p)' = l /\ Complete(p)' /\ BoundSymbols[i]' = BoundSymbols[i]
  BY <1>1, <1>3, <1>4 DEF LibraryAt, Complete, BoundSymbols
<1>12. /\ cached \in Dirs \cup {"vendor", None} /\ made \subseteq Dirs
       /\ copies \in [Dirs -> SUBSET Files] /\ (cached # None => Complete(cached))
       /\ program = "source" => cached \in {"vendor", None}
  BY DEF PInv, TypeOK, PathsAreComplete, PlacesInv
<1>13. /\ made' \subseteq Dirs /\ copies' \in [Dirs -> SUBSET Files]
       /\ \A d \in Dirs : copies[d] \subseteq copies'[d]
       /\ cached' \in {cached, q.paths}
       /\ cached' # None => Complete(cached)' /\ cached' \in Dirs \cup {"vendor"}
                            /\ (program = "source" => cached' = "vendor")
  BY <1>1, <1>12 DEF Complete
<1>14. q.pc \in {"loaded", "ready"} => /\ q.paths \in Dirs \cup {"vendor"} /\ Complete(q.paths)'
                                       /\ program = "source" => q.paths = "vendor"
  BY <1>3, <1>8, <1>11
<1> QED
  BY ONLY PInv, <1>1, <1>2, <1>8, <1>10, <1>13, <1>14, i \in Importers,
          UNCHANGED maintenance, StepsOfModules

LEMMA StepLoad == ASSUME PInv, NEW i \in Importers, Load(i) PROVE PInv'
  BY StepLoadNative, StepWrites, StepLoadModule DEF Load, LoaderStep

(* Nothing is cached and no module is there before and after a program.    *)
LEMMA StepRun == ASSUME PInv, Run \/ Quit PROVE PInv'
<1>1. /\ UNCHANGED <<host, lib, impl, pin, pkg, devDep, contract, header, stubs, listed, script,
                     target, fetched, fresh>>
      /\ made' \in {made, {}}
  BY DEF Run, Quit, StartProgram, Exit, maintenance, pins, generated, running
<1>2. FetchInv' /\ BarrelInv'
  BY <1>1 DEF PInv, FetchInv, BarrelInv
<1>3. Off \in LoaderRecords /\ Off.pc = "off"
  BY DEF Off, LoaderRecords, Pcs
<1>4. [Off EXCEPT !.pc = "import"] \in LoaderRecords /\ [Off EXCEPT !.pc = "import"].pc = "import"
  BY DEF Off, LoaderRecords, Pcs
<1>5. CASE Run
  <2>1. /\ program = "none" /\ program' \in {"source", "binary"} /\ script = "idle"
        /\ loader' = [i \in Importers |-> [Off EXCEPT !.pc = "import"]]
        /\ UNCHANGED <<cached, copies>>
    BY <1>5 DEF Run, StartProgram
  <2>2. cached = None
    BY <2>1 DEF PInv, PlacesInv
  <2>3. \A i \in Importers : loader'[i] \in LoaderRecords /\ loader'[i].pc = "import"
    BY <1>4, <2>1
  <2>4. TypeOK'
    BY <1>1, <2>1, <2>2, <2>3 DEF PInv, TypeOK, LoaderRecords, Pcs
  <2>5. OneAtATime' /\ PlacesInv' /\ PathsAreComplete'
    BY <1>1, <2>1, <2>2, <2>3
       DEF OneAtATime, PlacesInv, PathsAreComplete
  <2> QED
    BY <1>2, <2>4, <2>5 DEF PInv
<1>6. CASE Quit
  <2>1. /\ program' = "none" /\ cached' = None
        /\ loader' = [i \in Importers |-> Off] /\ copies' = [d \in Dirs |-> {}]
    BY <1>6 DEF Quit, Exit
  <2>2. \A i \in Importers : loader'[i] \in LoaderRecords /\ loader'[i].pc = "off"
    BY <1>3, <2>1
  <2>3. TypeOK'
    BY <1>1, <2>1, <2>2 DEF PInv, TypeOK, LoaderRecords, Pcs
  <2>4. OneAtATime' /\ PlacesInv' /\ PathsAreComplete'
    BY <1>1, <2>1, <2>2
       DEF OneAtATime, PlacesInv, PathsAreComplete
  <2> QED
    BY <1>2, <2>3, <2>4 DEF PInv
<1> QED
  BY <1>5, <1>6

(* While no program runs, the files may change.                            *)
LEMMA StepAtRest ==
  ASSUME PInv, program = "none", UNCHANGED <<host, loading>>, TypeOK', FetchInv', BarrelInv'
  PROVE  PInv'
<1>1. cached = None /\ \A i \in Importers : loader[i].pc = "off"
  BY DEF PInv, PlacesInv, Off
<1>2. UNCHANGED <<program, cached, loader>>
  BY DEF loading
<1>3. OneAtATime' /\ PlacesInv' /\ PathsAreComplete'
  BY <1>1, <1>2 DEF PInv, OneAtATime, PlacesInv, PathsAreComplete
<1> QED
  BY <1>3 DEF PInv

Edits ==
  \/ \E v \in Versions : BumpPin(v)
  \/ BumpPackage \/ BumpReference \/ Revendor
  \/ \E f \in Names : Implement(f)

Scripts ==
  \/ \E t \in Targets : FetchLib(t)
  \/ Unzip \/ UnzipEnds \/ FetchEnds
  \/ GenerateScaffold \/ WriteTypes \/ WriteFunctions \/ Interrupt

LEMMA StepEdits == ASSUME PInv, Edits PROVE PInv'
<1> USE DEF pins, generated, loading, running, Resting
<1>1. program = "none" /\ script = "idle" /\ script' = script /\ UNCHANGED <<host, loading>>
  BY DEF Edits, BumpPin, BumpPackage, BumpReference, Revendor, Implement
<1>2. TypeOK /\ FetchInv /\ BarrelInv
  BY DEF PInv
<1>3. ASSUME NEW v \in Versions, BumpPin(v) PROVE TypeOK' /\ FetchInv' /\ BarrelInv'
  <2>1. TypeOK'
    BY <1>2, <1>3 DEF BumpPin, TypeOK
  <2>2. FetchInv' /\ BarrelInv'
    BY <1>1, <1>2, <1>3 DEF BumpPin, FetchInv, BarrelInv
  <2> QED
    BY <2>1, <2>2
<1>4. CASE BumpPackage \/ BumpReference
  <2>1. TypeOK'
    BY <1>2, <1>4 DEF BumpPackage, BumpReference, TypeOK
  <2>2. FetchInv' /\ BarrelInv'
    BY <1>2, <1>4 DEF BumpPackage, BumpReference, FetchInv, BarrelInv
  <2> QED
    BY <1>1, <2>1, <2>2, StepAtRest
<1>5. CASE Revendor
  <2>1. TypeOK'
    BY <1>2, <1>5 DEF Revendor, TypeOK
  <2>2. FetchInv' /\ BarrelInv'
    BY <1>2, <1>5 DEF Revendor, FetchInv, BarrelInv
  <2> QED
    BY <1>1, <2>1, <2>2, StepAtRest
<1>6. ASSUME NEW f \in Names, Implement(f) PROVE TypeOK' /\ FetchInv' /\ BarrelInv'
  <2>1. TypeOK'
    BY <1>2, <1>6 DEF Implement, TypeOK
  <2>2. FetchInv' /\ BarrelInv'
    BY <1>2, <1>6 DEF Implement, FetchInv, BarrelInv
  <2> QED
    BY <2>1, <2>2
<1> QED
  BY <1>1, <1>3, <1>4, <1>5, <1>6, StepAtRest DEF Edits

LEMMA StepScripts == ASSUME PInv, Scripts PROVE PInv'
<1> USE DEF pins, generated, loading, running
<1>1. program = "none" /\ UNCHANGED <<host, loading>>
  BY DEF Scripts, Resting, FetchLib, GenerateScaffold, Begin, Unzip, UnzipEnds, FetchEnds,
         WriteTypes, WriteFunctions, Interrupt, PInv, OneAtATime
<1>2. TypeOK /\ FetchInv /\ BarrelInv
  BY DEF PInv
<1>3. CASE (\E t \in Targets : FetchLib(t)) \/ GenerateScaffold \/ Interrupt
  <2>1. /\ UNCHANGED <<lib, impl, pin, pkg, devDep, contract, header, stubs, listed, fetched, fresh>>
        /\ \/ script' = "idle" /\ target' = None
           \/ script' = "download" /\ target' \in Targets
           \/ script' = "scaffold" /\ target' = target
    BY <1>3 DEF FetchLib, GenerateScaffold, Begin, Interrupt
  <2>2. TypeOK' /\ FetchInv' /\ BarrelInv'
    BY <1>1, <1>2, <2>1 DEF TypeOK, FetchInv, BarrelInv
  <2> QED
    BY <1>1, <2>2, StepAtRest
<1>4. CASE Unzip
  <2>1. lib' \in Libs
    BY <1>2, <1>4 DEF Unzip, OnTarget, TypeOK, Libs
  <2>2. TypeOK'
    BY <1>2, <1>4, <2>1 DEF Unzip, TypeOK
  <2>3. FetchInv' /\ BarrelInv'
    BY <1>2, <1>4 DEF Unzip, OnTarget, FetchInv, BarrelInv
  <2> QED
    BY <1>1, <2>2, <2>3, StepAtRest
<1>5. CASE UnzipEnds
  <2>1. lib' \in Libs
    BY <1>2, <1>5 DEF UnzipEnds, OnTarget, TypeOK, Libs
  <2>2. TypeOK'
    BY <1>2, <1>5, <2>1 DEF UnzipEnds, TypeOK
  <2>3. FetchInv' /\ BarrelInv'
    BY <1>2, <1>5 DEF UnzipEnds, OnTarget, FetchInv, BarrelInv
  <2> QED
    BY <1>1, <2>2, <2>3, StepAtRest
<1>6. CASE FetchEnds
  <2>1. TypeOK'
    BY <1>2, <1>6 DEF FetchEnds, MoveHeader, FetchInv, TypeOK
  <2>2. FetchInv' /\ BarrelInv'
    BY <1>2, <1>6 DEF FetchEnds, MoveHeader, FetchInv, BarrelInv
  <2> QED
    BY <1>1, <2>1, <2>2, StepAtRest
<1>7. CASE WriteTypes
  <2>1. TypeOK'
    BY <1>2, <1>7 DEF WriteTypes, TypeOK
  <2>2. FetchInv' /\ BarrelInv'
    BY <1>2, <1>7 DEF WriteTypes, FetchInv, BarrelInv
  <2> QED
    BY <1>1, <2>1, <2>2, StepAtRest
<1>8. CASE WriteFunctions
  <2>1. StubNames \subseteq Names /\ {ModuleOf[f] : f \in impl} \subseteq Modules
    BY <1>2, ProvisioningAssumption DEF TypeOK, StubNames
  <2>2. TypeOK'
    BY <1>2, <1>8, <2>1 DEF WriteFunctions, TypeOK
  <2>3. FetchInv' /\ BarrelInv'
    BY <1>2, <1>8 DEF WriteFunctions, StubNames, FetchInv, BarrelInv
  <2> QED
    BY <1>1, <2>2, <2>3, StepAtRest
<1> QED
  BY <1>3, <1>4, <1>5, <1>6, <1>7, <1>8 DEF Scripts

LEMMA StepPInv == PInv /\ [Next]_vars => PInv'
<1>1. ASSUME PInv, UNCHANGED vars PROVE PInv'
  <2>1. UNCHANGED <<host, lib, impl, program, cached, made, copies, loader, pin, pkg, devDep,
                    contract, header, stubs, listed, script, target, fetched, fresh>>
    BY <1>1 DEF vars, loading, pins, generated, running
  <2>2. TypeOK' /\ OneAtATime' /\ PlacesInv'
    BY <1>1, <2>1 DEF PInv, TypeOK, OneAtATime, PlacesInv
  <2>3. PathsAreComplete'
    BY <1>1, <2>1 DEF PInv, PathsAreComplete, Complete, LibraryAt, BoundSymbols
  <2>4. FetchInv' /\ BarrelInv'
    BY <1>1, <2>1 DEF PInv, FetchInv, BarrelInv
  <2> QED
    BY <2>2, <2>3, <2>4 DEF PInv
<1>2. ASSUME PInv, Next PROVE PInv'
  <2>1. Edits \/ Scripts \/ Run \/ Quit \/ \E i \in Importers : Load(i)
    BY <1>2 DEF Next, Edits, Scripts
  <2> QED
    BY <1>2, <2>1, StepEdits, StepScripts, StepRun, StepLoad
<1> QED
  BY <1>1, <1>2

LEMMA PInvariant == Spec => []PInv
<1>1. PInv /\ [Next]_vars => PInv'
  BY StepPInv
<1> QED
  BY InitPInv, <1>1, PTL DEF Spec

(* The variables keep their types.                                         *)
THEOREM ProvisioningTypeCorrect == Spec => []TypeOK
<1>1. PInv => TypeOK
  BY DEF PInv
<1> QED
  BY PInvariant, <1>1, PTL

(* The paths loadNative gives out or remembers lead to files that are      *)
(* completely written, whichever module asks first and whatever write of   *)
(* the other one is pending or has failed; from source both modules get    *)
(* the vendored files.                                                     *)
THEOREM GivenPathsAreComplete == Spec => []PathsAreComplete
<1>1. PInv => PathsAreComplete
  BY DEF PInv
<1> QED
  BY PInvariant, <1>1, PTL

(* Whatever was edited, interrupted, run again or fetched for another      *)
(* target, a fetch-lib that has ended for linux-x64 leaves library and     *)
(* header of the pin, and if check-version then finds no drift, package    *)
(* and reference are of it too.                                            *)
THEOREM FinishedFetchAgrees == Spec => []FetchedFilesAgree
<1>1. ASSUME PInv PROVE FetchedFilesAgree
  <2>1. fetched # {} => header = pin
    BY <1>1 DEF PInv, FetchInv
  <2>2. ASSUME "linux-x64" \in fetched
        PROVE  /\ lib = [ver |-> pin, whole |-> TRUE]
               /\ ~HardDrift => {lib.ver, header, pkg, devDep} = {pin}
    <3>1. lib = [ver |-> pin, whole |-> TRUE] /\ header = pin
      BY <1>1, <2>2 DEF PInv, FetchInv
    <3>2. lib.ver = pin
      BY <3>1
    <3> QED
      BY <3>1, <3>2 DEF HardDrift
  <2> QED
    BY <2>1, <2>2 DEF FetchedFilesAgree
<1> QED
  BY PInvariant, <1>1, PTL

(* With a barrel that is up to date, every function of the contract        *)
(* resolves to its implementation or to its stub, for any set of           *)
(* implemented functions and any files they are in; only a shim symbol     *)
(* that an old library lacks is called without having been noticed.        *)
THEOREM CallsResolve == Spec => []CallsReachTheirFunction
<1>1. ASSUME PInv PROVE CallsReachTheirFunction
  <2> SUFFICES ASSUME fresh, loader["neo"].pc = "ready", NEW f \in ContractOf[contract]
               PROVE  /\ f \notin impl => CallOf(f) = "NotImplemented"
                      /\ f \in impl => \/ CallOf(f) = "implementation"
                                       \/ /\ CallOf(f) = "null function"
                                          /\ f \notin ContractOf[loader["neo"].ver]
    BY DEF CallsReachTheirFunction
  <2>1. stubs = ContractOf[contract] \ impl /\ listed = {ModuleOf[g] : g \in impl}
    BY <1>1 DEF PInv, BarrelInv
  <2>2. CASE f \notin impl
    BY <2>1, <2>2 DEF CallOf
  <2>3. CASE f \in impl
    <3>1. f \notin stubs /\ ModuleOf[f] \in listed
      BY <2>1, <2>3
    <3>2. SymbolsOf([ver |-> loader["neo"].ver, whole |-> TRUE]) = ContractOf[loader["neo"].ver]
      BY DEF SymbolsOf
    <3> QED
      BY <2>3, <3>1, <3>2 DEF CallOf
  <2> QED
    BY <2>2, <2>3
<1> QED
  BY PInvariant, <1>1, PTL

-----------------------------------------------------------------------------
(* The client: the objects are those of the open wrappers, each where its  *)
(* wrapper remembers it and with its slot still on it.                     *)
SlotsInv ==
  /\ \A w \in wrappers \ closed : slot[w] = number[w] /\ number[w] \in Addresses
  /\ \A a \in Addresses : memory[a] \in (wrappers \ closed) \cup {NoWrapper}

ClientInv == ClientTypeOK /\ OnlyDecodeErrorsLeak /\ ObjectsFollowWrappers /\ SlotsInv

LEMMA InitClientInv == ClientInit => ClientInv
  BY ClientAssumption
     DEF ClientInit, ClientInv, ClientTypeOK, OnlyDecodeErrorsLeak, ObjectsFollowWrappers,
         SlotsInv, Steps

(* A call that runs on something that is not its own object was made on a  *)
(* closed wrapper, and so was one that finds nothing to run on.            *)
LEMMA OpenCallsRun ==
  ASSUME ClientInv, NEW w \in wrappers, w \notin closed
  PROVE  At(number[w]) = w /\ Runs(w)
<1>1. At(number[w]) = w
  BY DEF ClientInv, ObjectsFollowWrappers
<1>2. SameKind(w, w)
  BY DEF ClientInv, ClientTypeOK, Wrappers, SameKind
<1> QED
  BY <1>1, <1>2 DEF Runs, New

LEMMA StepCalls ==
  ASSUME ClientInv, NEW w \in Wrappers, Calls(w)
  PROVE  astray' \subseteq closed /\ w \in wrappers /\ step = "idle" /\ fault = NoWrapper
<1>1. w \in wrappers /\ step = "idle" /\ fault = NoWrapper
  BY DEF Calls, Runs, New, Ready
<1>2. At(number[w]) # w => w \in closed
  BY <1>1, OpenCallsRun
<1>3. astray' = astray \cup {v \in {w} : At(number[v]) # v} /\ astray \subseteq closed
  BY DEF Calls, ClientInv, ObjectsFollowWrappers
<1> QED
  BY <1>1, <1>2, <1>3

LEMMA StepAllocate ==
  ASSUME ClientInv, NEW w \in Wrappers, Allocate(w), astray' \subseteq closed
  PROVE  ClientInv'
<1> USE ClientAssumption DEF ClientInv
<1>1. PICK a \in Addresses :
        /\ memory[a] = NoWrapper
        /\ memory' = [memory EXCEPT ![a] = w]
        /\ slot' = [slot EXCEPT ![w] = a]
        /\ number' = [number EXCEPT ![w] = a]
  BY DEF Allocate
<1>2. /\ w \notin wrappers /\ wrappers' = wrappers \cup {w}
      /\ UNCHANGED <<closed, step, chunksLeft, results, chunks, decodeErrors, fault>>
  BY DEF Allocate, New, calls
<1>3. /\ memory \in [Addresses -> Wrappers \cup {NoWrapper}] /\ wrappers \subseteq Wrappers
      /\ number \in [Wrappers -> Addresses \cup {NoAddress}]
      /\ slot \in [Wrappers -> Addresses \cup {NoAddress}] /\ closed \subseteq wrappers
  BY DEF ClientTypeOK
<1>4. ClientTypeOK' /\ OnlyDecodeErrorsLeak'
  BY <1>1, <1>2, <1>3 DEF ClientTypeOK, OnlyDecodeErrorsLeak
<1>5. /\ memory'[a] = w /\ number'[w] = a /\ slot'[w] = a /\ w \notin closed
      /\ \A b \in Addresses \ {a} : memory'[b] = memory[b]
      /\ \A v \in Wrappers \ {w} : number'[v] = number[v] /\ slot'[v] = slot[v]
  BY <1>1, <1>2, <1>3
<1>6. SlotsInv'
  BY <1>2, <1>3, <1>5 DEF SlotsInv
<1>7. ASSUME NEW v \in wrappers PROVE v \notin closed <=> At(number[v])' = v
  <2>1. v # w /\ v \in Wrappers /\ number'[v] = number[v] /\ v # NoWrapper
    BY <1>2, <1>3, <1>5
  <2>2. v \notin closed <=> At(number[v]) = v
    BY DEF ObjectsFollowWrappers
  <2>3. number[v] # a => (At(number[v])' = v <=> At(number[v]) = v)
    BY <1>5, <2>1 DEF At
  <2>4. number[v] = a => At(number[v]) = NoWrapper /\ At(number[v])' = w
    BY <1>1, <1>5, <2>1 DEF At
  <2> QED
    BY <2>1, <2>2, <2>3, <2>4
<1>8. At(number[w])' = w
  BY <1>5 DEF At
<1>9. ASSUME NEW b \in Addresses, memory'[b] # NoWrapper PROVE number'[memory'[b]] = b
  <2>1. CASE b = a
    BY <1>5, <2>1
  <2>2. CASE b # a
    <3>1. memory'[b] = memory[b] /\ memory[b] \in wrappers /\ number[memory[b]] = b
      BY <1>5, <1>9, <2>2 DEF SlotsInv, ObjectsFollowWrappers
    <3> QED
      BY <1>2, <1>3, <1>5, <3>1
  <2> QED
    BY <2>1, <2>2
<1>10. ObjectsFollowWrappers'
  BY <1>2, <1>5, <1>7, <1>8, <1>9 DEF ObjectsFollowWrappers
<1> QED
  BY <1>4, <1>6, <1>10

LEMMA StepClose ==
  ASSUME ClientInv, NEW w \in Wrappers, Close(w)
  PROVE  ClientInv'
<1> USE ClientAssumption DEF ClientInv
<1>1. /\ w \in wrappers /\ w \notin closed /\ slot[w] = number[w] /\ number[w] \in Addresses
      /\ memory' = [a \in Addresses |-> IF a = number[w] THEN NoWrapper ELSE memory[a]]
      /\ slot' = [slot EXCEPT ![w] = NoAddress] /\ closed' = closed \cup {w}
      /\ UNCHANGED <<wrappers, number, astray, step, chunksLeft, results, chunks,
                     decodeErrors, fault>>
  BY DEF Close, New, SlotsInv, calls
<1>2. /\ memory \in [Addresses -> Wrappers \cup {NoWrapper}] /\ wrappers \subseteq Wrappers
      /\ slot \in [Wrappers -> Addresses \cup {NoAddress}]
      /\ number \in [Wrappers -> Addresses \cup {NoAddress}]
  BY DEF ClientTypeOK
<1>3. ClientTypeOK' /\ OnlyDecodeErrorsLeak'
  BY <1>1, <1>2 DEF ClientTypeOK, OnlyDecodeErrorsLeak
<1>4. memory[number[w]] = w
  BY <1>1 DEF ObjectsFollowWrappers, At
<1>5. \A a \in Addresses : memory'[a] = IF a = number[w] THEN NoWrapper ELSE memory[a]
  BY <1>1
<1>6. \A a \in Addresses : memory[a] = w => a = number[w]
  BY <1>2 DEF ObjectsFollowWrappers
<1>7. SlotsInv'
  BY <1>1, <1>2, <1>5, <1>6 DEF SlotsInv
<1>8. ASSUME NEW v \in wrappers PROVE v \notin closed' <=> At(number[v])' = v
  <2>1. v \in Wrappers /\ v # NoWrapper /\ (v \notin closed <=> At(number[v]) = v)
    BY <1>2 DEF ObjectsFollowWrappers
  <2>2. CASE v = w
    BY <1>1, <1>5, <2>1, <2>2 DEF At
  <2>3. CASE v # w
    BY <1>1, <1>4, <1>5, <2>1, <2>3 DEF At
  <2> QED
    BY <2>2, <2>3
<1>9. ObjectsFollowWrappers'
  BY <1>1, <1>5, <1>8 DEF ObjectsFollowWrappers
<1> QED
  BY <1>3, <1>7, <1>9

LEMMA StepClientInv == ClientInv /\ [ClientNext]_clientVars => ClientInv'
<1> SUFFICES ASSUME ClientInv, [ClientNext]_clientVars PROVE ClientInv'
  OBVIOUS
<1> USE ClientAssumption DEF handles, calls
<1>0. ASSUME UNCHANGED <<memory, wrappers, number, slot, closed>>, astray' \subseteq closed,
             fault' # NoWrapper => fault' \in closed, ClientTypeOK', OnlyDecodeErrorsLeak'
      PROVE  ClientInv'
  BY <1>0 DEF ClientInv, ObjectsFollowWrappers, SlotsInv, At
<1>1. ASSUME UNCHANGED <<handles, fault>>, ClientTypeOK', OnlyDecodeErrorsLeak'
      PROVE  ClientInv'
  BY <1>0, <1>1 DEF ClientInv, ObjectsFollowWrappers
<1>2. CASE UNCHANGED clientVars
  BY <1>1, <1>2 DEF clientVars, ClientInv, ClientTypeOK, OnlyDecodeErrorsLeak
<1>3. CASE Create
  <2>1. Db \in Wrappers /\ astray' \subseteq closed
    BY <1>3 DEF Create, Wrappers, ClientInv, ObjectsFollowWrappers
  <2> QED
    BY <1>3, <2>1, StepAllocate DEF Create
<1>4. ASSUME NEW c \in Conns, Connect(c) PROVE ClientInv'
  <2>1. Db \in Wrappers /\ c \in Wrappers
    BY DEF Wrappers
  <2> QED
    BY <1>4, <2>1, StepCalls, StepAllocate DEF Connect
<1>5. ASSUME NEW c \in Conns, NEW s \in Stmts, Prepare(c, s) PROVE ClientInv'
  <2>1. c \in Wrappers /\ s \in Wrappers
    BY DEF Wrappers
  <2> QED
    BY <1>5, <2>1, StepCalls, StepAllocate DEF Prepare
<1>6. ASSUME NEW w \in Wrappers, Query(w) PROVE ClientInv'
  <2>1. astray' \subseteq closed /\ closed \subseteq wrappers /\ step = "idle" /\ fault = NoWrapper
    BY <1>6, StepCalls DEF Query, ClientInv, ClientTypeOK
  <2>2. ClientTypeOK' /\ OnlyDecodeErrorsLeak'
    BY <1>6, <2>1 DEF Query, ClientInv, ClientTypeOK, OnlyDecodeErrorsLeak, Steps
  <2> QED
    BY <1>0, <1>6, <2>1, <2>2 DEF Query
<1>7. ASSUME NEW w \in Wrappers, DanglingCall(w) PROVE ClientInv'
  <2>1. w \in wrappers /\ w \in closed
    BY <1>7, OpenCallsRun DEF DanglingCall, New
  <2>2. ClientTypeOK' /\ OnlyDecodeErrorsLeak'
    BY <1>7 DEF DanglingCall, ClientInv, ClientTypeOK, OnlyDecodeErrorsLeak
  <2>3. astray' \subseteq closed
    BY <1>7 DEF DanglingCall, ClientInv, ObjectsFollowWrappers
  <2> QED
    BY <1>0, <1>7, <2>1, <2>2, <2>3 DEF DanglingCall
<1>8. CASE FreeResult
  BY <1>1, <1>8 DEF FreeResult, ClientInv, ClientTypeOK, OnlyDecodeErrorsLeak, Steps
<1>9. CASE FetchChunk
  BY <1>1, <1>9 DEF FetchChunk, ClientInv, ClientTypeOK, OnlyDecodeErrorsLeak, Steps
<1>10. CASE DecodeChunk
  BY <1>1, <1>10 DEF DecodeChunk, ClientInv, ClientTypeOK, OnlyDecodeErrorsLeak, Steps
<1>11. CASE DecodeThrows
  BY <1>1, <1>11 DEF DecodeThrows, ClientInv, ClientTypeOK, OnlyDecodeErrorsLeak, Steps
<1>12. CASE FinishRead
  BY <1>1, <1>12 DEF FinishRead, ClientInv, ClientTypeOK, OnlyDecodeErrorsLeak, Steps
<1>13. ASSUME NEW w \in Wrappers, Close(w) PROVE ClientInv'
  BY <1>13, StepClose
<1> QED
  BY <1>2, <1>3, <1>4, <1>5, <1>6, <1>7, <1>8, <1>9, <1>10, <1>11, <1>12, <1>13
     DEF ClientNext

LEMMA ClientInvariant == ClientSpec => []ClientInv
<1>1. ClientInv /\ [ClientNext]_clientVars => ClientInv'
  BY StepClientInv
<1> QED
  BY InitClientInv, <1>1, PTL DEF ClientSpec

(* The variables keep their types.                                         *)
THEOREM ClientTypeCorrect == ClientSpec => []ClientTypeOK
<1>1. ClientInv => ClientTypeOK
  BY DEF ClientInv
<1> QED
  BY ClientInvariant, <1>1, PTL

(* Calls free what they allocate on every path but a decode error.         *)
THEOREM LeaksExplained == ClientSpec => []OnlyDecodeErrorsLeak
<1>1. ClientInv => OnlyDecodeErrorsLeak
  BY DEF ClientInv
<1> QED
  BY ClientInvariant, <1>1, PTL

(* However often and in whatever order wrappers are closed, and wherever   *)
(* the allocator puts what comes after them, a close frees its own object, *)
(* once, and only calls on closed wrappers go astray.                      *)
THEOREM ObjectsKept == ClientSpec => []ObjectsFollowWrappers
<1>1. ClientInv => ObjectsFollowWrappers
  BY DEF ClientInv
<1> QED
  BY ClientInvariant, <1>1, PTL
=============================================================================
