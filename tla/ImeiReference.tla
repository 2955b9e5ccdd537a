--------------------------- MODULE ImeiReference ---------------------------
(***************************************************************************)
(* The table of device models by TAC, the first digits of an IMEI: the     *)
(* import of a file (imei_import.go, imei_repository.go,                   *)
(* cmd/importimei) and the lookup of the fulfillment form                  *)
(* (imei_service.go, imei_handler.go).                                     *)
(*                                                                         *)
(* A file is a sequence of lines, each a record of its kind, TAC and       *)
(* device; "malformed" stands for every line that is refused by itself.    *)
(* An import is one transaction: its rows are locked until it ends, and    *)
(* until then nobody else sees them.                                       *)
(***************************************************************************)
EXTENDS Integers, Sequences, FiniteSets, FiniteSetsExt, SequencesExt

CONSTANTS
  TACs,
  Devices,      \* brand, model and release year of a row
  Files,        \* the files there are to import
  ChunkSize,    \* importChunkSize
  Importers,    \* the imports in progress at one moment
  Unknown       \* the device of a TAC that is not in the table

LineKind == {"blank", "header", "malformed", "row"}

ImeiAssumption ==
  /\ ChunkSize \in Nat \ {0}
  /\ Unknown \notin Devices
  /\ Files \subseteq Seq([kind : LineKind, tac : TACs, device : Devices])

VARIABLES
  table,     \* imei_reference as committed, the device of each TAC
  imports    \* the transaction of each importer

vars == <<table, imports>>

Nothing == [tac \in {} |-> Unknown]

(* chunk is what the running INSERT has still to write, start where the    *)
(* next one begins; written are the rows only the transaction sees.        *)
Idle == [at |-> "idle", rows |-> <<>>, start |-> 0, chunk |-> <<>>, written |-> Nothing]

Init ==
  /\ table \in [TACs -> Devices \cup {Unknown}]
  /\ imports = [i \in Importers |-> Idle]

---------------------------------------------------------------------------
(* ParseImeiReferenceCSV.                                                  *)

(* The lines that are left out: blank ones, and a header on the first line *)
(* that is not blank.                                                      *)
IsFirst(file, i) ==
  file[i].kind # "blank" /\ \A j \in 1 .. i - 1 : file[j].kind = "blank"

IsData(file, i) ==
  file[i].kind # "blank" /\ ~(file[i].kind = "header" /\ IsFirst(file, i))

IsProblem(file, i) ==
  /\ IsData(file, i)
  /\ \/ file[i].kind # "row"
     \/ \E j \in 1 .. i - 1 : file[j].kind = "row" /\ file[j].tac = file[i].tac

(* The rows in the order of their lines: the k-th has k - 1 before it.     *)
RowLines(file) == {i \in DOMAIN file : file[i].kind = "row"}

Rows(file) ==
  [k \in 1 .. Cardinality(RowLines(file)) |->
     file[CHOOSE i \in RowLines(file) :
            Cardinality({j \in RowLines(file) : j < i}) = k - 1]]

IsValidFile(file) ==
  Rows(file) # <<>> /\ \A i \in DOMAIN file : ~IsProblem(file, i)

---------------------------------------------------------------------------
(* ImportImeiReference of a valid file, unless it is a dry run.            *)
Continue(i, import) == imports' = [imports EXCEPT ![i] = import]

Begin(i, file) ==
  /\ imports[i].at = "idle"
  /\ IsValidFile(file)
  /\ Continue(i, [Idle EXCEPT !.at = "import", !.rows = Rows(file)])
  /\ UNCHANGED table

(* The mutant takes the last chunk for a whole one.                        *)
ChunkMutant(rows, start) ==
  IF start + ChunkSize > Len(rows) THEN <<>> ELSE SubSeq(rows, start + 1, start + ChunkSize)

Chunk(rows, start) ==
  SubSeq(rows, start + 1, Min({start + ChunkSize, Len(rows)}))

SendChunk(i) ==
  LET import == imports[i] IN
  /\ import.at = "import" /\ import.chunk = <<>> /\ import.start < Len(import.rows)
  /\ Continue(i, [import EXCEPT !.chunk = Chunk(import.rows, import.start),
                                !.start = @ + ChunkSize])
  /\ UNCHANGED table

(* A row another import has written is waited for.  A statement that names *)
(* one TAC twice fails.                                                    *)
IsLocked(i, tac) == \E j \in Importers \ {i} : tac \in DOMAIN imports[j].written

UpsertRow(i) ==
  LET import == imports[i]
      row == Head(import.chunk)
      again == \E r \in ToSet(Tail(import.chunk)) : r.tac = row.tac
  IN
  /\ import.chunk # <<>>
  /\ ~IsLocked(i, row.tac)
  /\ Continue(i, IF again THEN Idle
                 ELSE [import EXCEPT
                         !.chunk = Tail(@),
                         !.written = [tac \in DOMAIN @ \cup {row.tac} |->
                                        IF tac = row.tac THEN row.device ELSE @[tac]]])
  /\ UNCHANGED table

Commit(i) ==
  LET import == imports[i] IN
  /\ import.at = "import" /\ import.chunk = <<>> /\ import.start >= Len(import.rows)
  /\ table' = [tac \in TACs |-> IF tac \in DOMAIN import.written THEN import.written[tac]
                                ELSE table[tac]]
  /\ Continue(i, Idle)

(* A statement fails, as one of two imports that wait for each other does, *)
(* the ten minutes are over, or the process dies.                          *)
Rollback(i) ==
  /\ imports[i].at # "idle"
  /\ Continue(i, Idle)
  /\ UNCHANGED table

Next ==
  \E i \in Importers :
    \/ \E file \in Files : Begin(i, file)
    \/ SendChunk(i) \/ UpsertRow(i) \/ Commit(i) \/ Rollback(i)

Spec == Init /\ [][Next]_vars

---------------------------------------------------------------------------
(* Lookup of an IMEI, given by its number of digits and its TAC.  A TAC    *)
(* that is not in the table is answered, as found or not; only a text that *)
(* is no IMEI is an error.                                                 *)
Lookup(digits, tac) ==
  CASE digits \notin 14 .. 16 -> "error"
    [] table[tac] = Unknown -> "not found"
    [] OTHER -> table[tac]

(* The form is given what some import, or the table as it was, says of a   *)
(* TAC, and the lookups of one file agree: the table only ever changes by  *)
(* a whole file ("Either every row is imported or none is"), whatever else *)
(* is imported at the same time and wherever an import ends.               *)
Applied(file) ==
  \A tac \in TACs :
    LET lines == {i \in RowLines(file) : file[i].tac = tac}
    IN  IF lines = {} THEN Lookup(15, tac)' = Lookup(15, tac)
        ELSE \A i \in lines : Lookup(15, tac)' = file[i].device

WholeFiles == [][table' = table \/ \E file \in Files : Applied(file)]_vars
=============================================================================
