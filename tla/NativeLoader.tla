----------------------------- MODULE NativeLoader -----------------------------
(***************************************************************************)
(* What happens when a program imports the package: each of the two FFI    *)
(* modules, the one of the Bun-native client ("legacy") and the one of the *)
(* drop-in layer ("neo"), awaits loadNative, opens libduckdb and compiles  *)
(* and initialises the shim.  A program that imports both runs the two     *)
(* concurrently, up to their awaits.  In a compiled binary loadNative      *)
(* copies the embedded files to a new directory first.                     *)
(***************************************************************************)
EXTENDS Naturals

CONSTANTS
  Names,       \* functions of the binding contract
  ByValue,     \* those whose C function goes through the shim
  ContractOf,  \* version -> the functions the contract and the library have
  Dirs,        \* temporary directories of a program, one for each importer
  None

Importers == {"legacy", "neo"}

Versions == DOMAIN ContractOf

Absent == [ver |-> 0, whole |-> FALSE]

Libs == {Absent} \cup [ver : Versions, whole : BOOLEAN]

VARIABLES
  host,    \* the platform; process.platform does not tell "musl" apart
  lib,     \* vendor/linux-x64/libduckdb.so
  impl,    \* the functions implemented in src/bindings/impl
  program, \* none, run from source, or a compiled binary of the same files
  cached,  \* the variable of that name in library.ts
  made,    \* the temporary directories the program has made
  copies,  \* directory -> which of the three files are complete in it
  loader   \* importer -> where its module is, the paths it got, the library it opened

loading == <<program, cached, made, copies, loader>>

Files == {"libduckdb.so", "shim.c", "duckdb.h"}

Off == [pc |-> "off", paths |-> None, ver |-> 0]

LoaderInit ==
  /\ program = "none"
  /\ cached = None
  /\ made = {}
  /\ copies = [d \in Dirs |-> {}]
  /\ loader = [i \in Importers |-> Off]

StartProgram(mode) ==
  /\ program = "none"
  /\ program' = mode
  /\ loader' = [i \in Importers |-> [Off EXCEPT !.pc = "import"]]
  /\ UNCHANGED <<host, lib, impl, cached, made, copies>>

(* selectLib, and the imports of the embedded files, which must exist.     *)
SelectLib == host \in {"linux-x64", "musl"} /\ lib # Absent

(* Run from source, the imports resolve to paths on disk.                  *)
OnDisk == program = "source"

(* loadNative up to its first await.                                       *)
LoadNative(i) ==
  /\ loader[i].pc = "import"
  /\ \/ /\ cached # None
        /\ loader' = [loader EXCEPT ![i].pc = "loaded", ![i].paths = cached]
        /\ UNCHANGED <<cached, made>>
     \/ /\ cached = None /\ ~SelectLib
        /\ loader' = [loader EXCEPT ![i].pc = "failed"]
        /\ UNCHANGED <<cached, made>>
     \/ /\ cached = None /\ SelectLib /\ OnDisk
        /\ cached' = "vendor"
        /\ loader' = [loader EXCEPT ![i].pc = "loaded", ![i].paths = "vendor"]
        /\ UNCHANGED made
     \/ /\ cached = None /\ SelectLib /\ ~OnDisk
        /\ \E d \in Dirs \ made :
             /\ made' = made \cup {d}
             /\ loader' = [loader EXCEPT ![i].pc = "writing", ![i].paths = d]
        /\ UNCHANGED cached
  /\ UNCHANGED <<host, lib, impl, program, copies>>

(* One of the three concurrent writes completes, or fails.                 *)
WriteCopy(i) ==
  /\ loader[i].pc = "writing"
  /\ \E f \in Files \ copies[loader[i].paths] :
       copies' = [copies EXCEPT ![loader[i].paths] = @ \cup {f}]
  /\ UNCHANGED <<host, lib, impl, program, cached, made, loader>>

WriteFails(i) ==
  /\ loader[i].pc = "writing"
  /\ Files \ copies[loader[i].paths] # {}
  /\ loader' = [loader EXCEPT ![i].pc = "failed"]
  /\ UNCHANGED <<host, lib, impl, program, cached, made, copies>>

(* Mutants: the paths are remembered before the files are written; a       *)
(* module waits for the paths of the other.                                *)
NotAwaited(d) == TRUE

OtherWrote(d) == cached # None

Written(d) == copies[d] = Files

FinishCopies(i) ==
  /\ loader[i].pc = "writing"
  /\ Written(loader[i].paths)
  /\ cached' = loader[i].paths
  /\ loader' = [loader EXCEPT ![i].pc = "loaded"]
  /\ UNCHANGED <<host, lib, impl, program, made, copies>>

(* The library at the paths: the vendored file, or a copy of it.           *)
LibraryAt(p) ==
  IF p = "vendor" THEN lib
  ELSE IF "libduckdb.so" \in copies[p] THEN lib ELSE Absent

Complete(p) == p = "vendor" \/ copies[p] = Files

(* The symbols each dlopen table names beyond those of every version, and  *)
(* those only the shim calls.                                              *)
BoundSymbols == [i \in Importers |-> IF i = "neo" THEN impl \ ByValue ELSE {}]

ShimSymbols == impl \cap ByValue

SymbolsOf(l) == IF l.whole THEN ContractOf[l.ver] ELSE {}

(* dlopen resolves its whole table or throws; the library that selectLib    *)
(* picks is built for glibc.                                               *)
OpenLibrary(i, l) == host # "musl" /\ l.whole /\ BoundSymbols[i] \subseteq SymbolsOf(l)

(* cc needs the source and the header; shim_init looks up every symbol of  *)
(* the shim and insists on two that every version has.                     *)
CompileShim(p) == p = "vendor" \/ {"shim.c", "duckdb.h"} \subseteq copies[p]

InitShim(l) == l.whole

(* The module body after its await, which does not yield again.            *)
LoadModule(i) ==
  /\ loader[i].pc = "loaded"
  /\ LET p == loader[i].paths
         l == LibraryAt(p)
     IN  loader' = [loader EXCEPT ![i] =
           IF OpenLibrary(i, l) /\ CompileShim(p) /\ InitShim(l)
             THEN [pc |-> "ready", paths |-> p, ver |-> l.ver]
             ELSE [@ EXCEPT !.pc = "failed"]]
  /\ UNCHANGED <<host, lib, impl, program, cached, made, copies>>

(* The process ends or is killed.  Its directories stay, and no later      *)
(* program looks at them: it makes others, for which the model uses the    *)
(* same names again.                                                       *)
Exit ==
  /\ program # "none"
  /\ program' = "none"
  /\ cached' = None
  /\ loader' = [i \in Importers |-> Off]
  /\ made' = {}
  /\ copies' = [d \in Dirs |-> {}]
  /\ UNCHANGED <<host, lib, impl>>

LoaderStep(i) == LoadNative(i) \/ WriteCopy(i) \/ WriteFails(i) \/ FinishCopies(i)
                 \/ LoadModule(i)

=============================================================================
