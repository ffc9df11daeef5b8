------------------------------ MODULE BulkWrites ------------------------------
(***************************************************************************)
(* A program writes rows into a table of two columns, the value it cares   *)
(* about and the number of the row, by one of five routes: the typed       *)
(* appender, appendValue, typed binds, bindValue, or the bind of the       *)
(* Bun-native client.  Any call may throw, the program catches what is     *)
(* thrown and goes on as it likes, and the client reads the table back.    *)
(***************************************************************************)
EXTENDS ValueCodecs

CONSTANTS
  Subjects,  \* the [type, value] pairs of the program
  MaxRows,   \* bound: rows the program writes
  MaxThrows, \* bound: rows during which a call throws
  FlushAt    \* bound: buffered rows at which DuckDB's appender flushes itself

ASSUME BoundAssumption == MaxRows \in Nat /\ MaxThrows \in Nat /\ FlushAt \in Nat \ {0}

ASSUME SubjectAssumption == \A s \in Subjects : ValueFor(s.type, s.value)

AppendRoutes == {"append", "appendValue"}
BindRoutes == {"bind", "bindValue", "client"}

VARIABLES
  subject,  \* the type of the first column and the value for it
  route,
  turn,     \* the program row being written and the column its next call is for
  appender, \* DuckDB's appender: open, closed or invalid; its row so far, its buffer
  params,   \* what is bound to the two parameters
  table,
  acked,    \* the rows whose endRow or execution returned
  threw,    \* the rows during which a call threw
  lost,     \* an exception said that buffered rows are lost
  readback  \* the first column as the client reads it

vars == <<subject, route, turn, appender, params, table, acked, threw, lost, readback>>

Columns == {1, 2}

Unbound == [row |-> 0, col |-> 0, native |-> Null]

NotRead == <<Throw>>

(* What a call for column c of row r hands to DuckDB for v.                *)
CellOf(c, r, v) ==
  [row |-> r, col |-> c,
   native |-> IF c = 2 THEN Num(r) ELSE Encode(route, subject.type, v)]

Init ==
  /\ subject \in Subjects
  /\ route \in AppendRoutes \cup BindRoutes
  /\ route = "client" => subject.type \in ClientTypes
  /\ turn = [row |-> 1, next |-> 1]
  /\ appender = [state |-> IF route \in AppendRoutes THEN "open" ELSE "none",
                 cells |-> <<>>, rows |-> <<>>]
  /\ params = [i \in Columns |-> Unbound]
  /\ table = <<>>
  /\ acked = {}
  /\ threw = {}
  /\ lost = FALSE
  /\ readback = NotRead

Writing == turn.row <= MaxRows /\ readback = NotRead

(* Mutant: the state that a call returns is not looked at.                 *)
Unchecked(rc) == FALSE

(* check of appender.ts, and checkState of the others.                     *)
Throws(rc) == rc = "error"

NextRow == turn' = [row |-> turn.row + 1, next |-> 1]

(* After an exception the program tries again, leaves the column out, or   *)
(* gives the row up.                                                       *)
GoOnAfterThrow ==
  /\ Cardinality(threw \cup {turn.row}) <= MaxThrows
  /\ threw' = threw \cup {turn.row}
  /\ \/ UNCHANGED turn
     \/ turn.next < 3 /\ turn' = [turn EXCEPT !.next = @ + 1]
     \/ NextRow

Done(rc, onSuccess) == IF Throws(rc) THEN GoOnAfterThrow ELSE onSuccess /\ UNCHANGED threw

NextColumn == turn' = [turn EXCEPT !.next = @ + 1]

-----------------------------------------------------------------------------
(* The appender.                                                           *)

(* append_*, append_value, append_null: DuckDB casts the value to the type *)
(* of the column the appender is at, and may refuse.                       *)
AppendResult ==
  IF appender.state # "open" \/ Len(appender.cells) = 2 THEN {"error"} ELSE {"ok", "error"}

AppendCell(v) ==
  /\ Writing /\ route \in AppendRoutes /\ turn.next \in Columns
  /\ \E rc \in AppendResult :
       /\ appender' = IF rc = "ok"
                        THEN [appender EXCEPT !.cells = Append(@, CellOf(turn.next, turn.row, v))]
                        ELSE appender
       /\ Done(rc, NextColumn)
  /\ UNCHANGED <<subject, route, params, table, acked, lost, readback>>

(* createValue refuses a value of another JavaScript type, and a stub      *)
(* throws, before DuckDB is called.                                        *)
RefusedByLayer ==
  /\ Writing /\ route # "client" /\ turn.next \in Columns
  /\ GoOnAfterThrow
  /\ UNCHANGED <<subject, route, appender, params, table, acked, lost, readback>>

(* Flushing stores the buffer, or fails and invalidates the appender.      *)
Flushed(rc, rows) ==
  /\ appender' = [appender EXCEPT !.rows = <<>>, !.cells = <<>>,
                                  !.state = IF rc = "ok" THEN @ ELSE "invalid"]
  /\ table' = IF rc = "ok" THEN table \o rows ELSE table
  /\ lost' = (lost \/ (Throws(rc) /\ appender.state = "open"))

EndRowShort ==
  /\ Writing /\ route \in AppendRoutes /\ turn.next = 3
  /\ appender.state # "open" \/ Len(appender.cells) # 2
  /\ Done("error", NextRow)
  /\ UNCHANGED <<subject, route, appender, params, table, acked, lost, readback>>

EndRow ==
  /\ Writing /\ route \in AppendRoutes /\ turn.next = 3
  /\ appender.state = "open" /\ Len(appender.cells) = 2
  /\ LET rows == Append(appender.rows, appender.cells)
     IN  IF Len(rows) < FlushAt
           THEN /\ appender' = [appender EXCEPT !.rows = rows, !.cells = <<>>]
                /\ acked' = acked \cup {turn.row}
                /\ Done("ok", NextRow)
                /\ UNCHANGED <<table, lost>>
           ELSE \E rc \in {"ok", "error"} :
                  /\ Flushed(rc, rows)
                  /\ acked' = IF Throws(rc) THEN acked ELSE acked \cup {turn.row}
                  /\ Done(rc, NextRow)
  /\ UNCHANGED <<subject, route, params, readback>>

FlushResult ==
  CASE appender.state = "open" -> IF appender.cells = <<>> THEN {"ok", "error"} ELSE {"error"}
    [] OTHER -> {"error"}

FlushSync ==
  /\ Writing /\ route \in AppendRoutes /\ turn.next # 2
  /\ \E rc \in FlushResult :
       /\ Flushed(rc, appender.rows)
       /\ Done(rc, UNCHANGED turn)
  /\ UNCHANGED <<subject, route, params, acked, readback>>

CloseSync ==
  /\ route \in AppendRoutes /\ readback = NotRead
  /\ appender.state \in {"open", "invalid"}
  /\ \E rc \in FlushResult :
       /\ appender' = [appender EXCEPT !.rows = <<>>, !.cells = <<>>, !.state = "closed"]
       /\ table' = IF rc = "ok" THEN table \o appender.rows ELSE table
       /\ lost' = (lost \/ Throws(rc))
  /\ turn' = [row |-> MaxRows + 1, next |-> 1]
  /\ UNCHANGED <<subject, route, params, acked, threw, readback>>

-----------------------------------------------------------------------------
(* Prepared statements: the state a bind returns is ignored.               *)

Bound(old, cell) == IF cell.native = Throw THEN old ELSE cell

BindCell(v) ==
  /\ Writing /\ route \in BindRoutes /\ turn.next \in Columns
  /\ LET cell == CellOf(turn.next, turn.row, v)
     IN  /\ params' = [params EXCEPT ![turn.next] = Bound(@, cell)]
         /\ IF cell.native = Throw THEN GoOnAfterThrow ELSE NextColumn /\ UNCHANGED threw
  /\ UNCHANGED <<subject, route, appender, table, acked, lost, readback>>

(* Executing throws when a parameter is unbound, when a text does not cast *)
(* to its column, or for a reason of the table's.                          *)
ExecuteResult ==
  IF \E i \in Columns : params[i] = Unbound \/ params[i].native = Uncastable
    THEN {"error"} ELSE {"ok", "error"}

Execute ==
  /\ Writing /\ route \in BindRoutes /\ turn.next = 3
  /\ \E rc \in ExecuteResult :
       /\ table' = IF rc = "ok" THEN Append(table, <<params[1], params[2]>>) ELSE table
       /\ acked' = IF Throws(rc) THEN acked ELSE acked \cup {turn.row}
       /\ Done(rc, NextRow)
  /\ UNCHANGED <<subject, route, appender, params, lost, readback>>

-----------------------------------------------------------------------------
(* Reading back, when no row number was cast into the first column.        *)

Whole(r) == \A c \in Columns : r[c].col = c /\ r[c].row = r[1].row

ReadBack ==
  /\ readback = NotRead
  /\ table # <<>>
  /\ \A i \in DOMAIN table : table[i][1].col = 1
  /\ LET out == DecodeColumn(subject.type, DecimalScale(subject.value),
                             [i \in DOMAIN table |-> table[i][1].native])
     IN  readback' = IF Throw \in Range(out) THEN <<Throw, Throw>> ELSE out
  /\ UNCHANGED <<subject, route, turn, appender, params, table, acked, threw, lost>>

Next ==
  \/ AppendCell(subject.value)
  \/ AppendCell(Null)
  \/ RefusedByLayer
  \/ EndRowShort
  \/ EndRow
  \/ FlushSync
  \/ CloseSync
  \/ BindCell(subject.value)
  \/ BindCell(Null)
  \/ Execute
  \/ ReadBack

Spec == Init /\ [][Next]_vars

-----------------------------------------------------------------------------
(* The variables hold values of their types; DuckDB's cells hold no more   *)
(* than a machine word in each of their words.                             *)
TypeOK ==
  /\ subject \in Subjects
  /\ route \in AppendRoutes \cup BindRoutes
  /\ turn.row \in 1 .. MaxRows + 1 /\ turn.next \in 1 .. 3
  /\ appender.state \in {"none", "open", "invalid", "closed"}
  /\ Len(appender.cells) <= 2 /\ Len(appender.rows) < FlushAt
  /\ acked \subseteq 1 .. MaxRows /\ threw \subseteq 1 .. MaxRows
  /\ lost \in BOOLEAN
  /\ \A i \in DOMAIN table :
       table[i][1].native.is = "words" =>
         table[i][1].native.lower \in UInt64 /\ table[i][1].native.upper \in UInt64

(* A row of the table holds, column by column, what the program wrote for  *)
(* one of its rows -- unless a call threw during one of the rows it mixes  *)
(* (appender.ts, prepared.ts: nothing takes a half-written row back).      *)
RowsAreWhole ==
  \A i \in DOMAIN table :
    Whole(table[i]) \/ \E c \in Columns : table[i][c].row \in threw

(* A row that endRow or an execution accepted is in the table or in the    *)
(* appender's buffer, unless an exception said that a flush failed         *)
(* (appender.ts: flush and close check what DuckDB returns).               *)
AckedRowsAreKept ==
  \A r \in acked :
    \/ lost
    \/ r \in threw
    \/ \E i \in DOMAIN table : \E c \in Columns : table[i][c].row = r
    \/ \E i \in DOMAIN appender.rows : \E c \in Columns : appender.rows[i][c].row = r

(* Reading back gives NULL exactly for the rows that hold NULL, across the *)
(* words of the validity mask, for every type that is decoded at all       *)
(* (decode.ts isValid and the default of decodeColumn).                    *)
ReadRows == readback # NotRead /\ readback # <<Throw, Throw>>

NullsReadBack ==
  ReadRows /\ subject.type # "INTERVAL" =>
    \A i \in DOMAIN table : readback[i] = Null <=> table[i][1].native = Null

(* What the client's documentation says a value of the type reads as: a    *)
(* string of the time or the date, a Date within a millisecond, the number *)
(* nearest to a DECIMAL, and the value itself for the others.              *)
IsTime(micros, read) ==
  /\ read.is = "time"
  /\ ((read.h * Sixty + read.m) * Sixty + read.s) * Unit + read.us = micros

Promised(type, v, read) ==
  CASE type = "TIME" -> IsTime(v.n, read)
    [] type = "TIME_TZ" -> IsTime(v.micros, read)
    [] type = "DATE" -> read = [is |-> "date", of |-> <<v.n \div MonthDays, v.n % MonthDays>>]
    [] type = "TIMESTAMP" -> read.is = "int" /\ Size(v.n - read.n * Unit) < Unit
    [] type \in {"DECIMAL18", "DECIMAL38"} -> read = Nearest(v.n, Ten ^ v.scale)
    [] OTHER -> read = v

(* The values that do not survive, by what loses them on the way in ...    *)
LostWritten(type, v) ==
  CASE type \in {"BIGINT", "TIME", "TIMESTAMP"} -> v.n \notin Int64
    [] type = "DATE" -> v.n \notin Int32
    [] type \in {"HUGEINT", "DECIMAL38"} -> v.n \notin Int128
    [] type \in {"UHUGEINT", "UUID"} -> v.n \notin UInt128
    [] type = "DOUBLE" -> (v = NaN /\ route \in {"append", "bind", "client"})
                          \/ (v.is = "int" /\ v.n \notin Int64 /\ route = "client")
    [] type = "VARCHAR" -> NUL \in Range(v.b) /\ route \in {"append", "bind", "client"}
    [] type = "BLOB" -> route = "client" /\ v.b # <<>>
    [] OTHER -> FALSE

(* ... and on the way out: what a double does not hold exactly, or a date  *)
(* string, or a string of the time, which is never negative.               *)
LostRead(type, v) ==
  CASE type \in {"DECIMAL18", "DECIMAL38"} ->
         v.n # Rounded(v.n) \/ Ten ^ v.scale # Rounded(Ten ^ v.scale)
    [] type = "DATE" -> v.n \notin ShortDays
    [] type = "TIME" -> v.n < 0
    [] type = "TIMESTAMP" -> Size(v.n) > Safe
    [] OTHER -> type \in {"TIME_TZ", "BIGNUM", "INTERVAL"}

(* Apart from those, a value reads back as it was written.                 *)
ValuesReadBack ==
  ReadRows =>
    \A i \in DOMAIN table :
      \/ table[i][1].native = Null
      \/ Promised(subject.type, subject.value, readback[i])
      \/ LostWritten(subject.type, subject.value)
      \/ LostRead(subject.type, subject.value)

(* One date that a Date cannot hold makes the whole result unreadable, and *)
(* nothing else does (decode.ts dateString).                               *)
OnlyFarDatesThrow ==
  readback = <<Throw, Throw>> =>
    /\ subject.type = "DATE" /\ subject.value.n \notin JsDays
    /\ \E i \in DOMAIN table : table[i][1].native # Null

(* DuckDB makes of the bytes of create_bignum the number that was given    *)
(* (valuecreate.ts: big-endian magnitude and a sign).                      *)
BignumsAreExact ==
  \A i \in DOMAIN table :
    table[i][1].native.is = "bignum" => BignumOf(table[i][1].native) = subject.value.n

(* Every row reads back as it was written, but for the losses named above, *)
(* whatever the route: marshal.ts, valuecreate.ts, appender.ts,            *)
(* prepared.ts and statement.ts agree with decode.ts on how DuckDB lays    *)
(* values out, on what is NULL and on what cannot be read.                 *)
OnlyKnownLosses ==
  NullsReadBack /\ ValuesReadBack /\ OnlyFarDatesThrow /\ BignumsAreExact

(* bindings/types.ts: a TIME_TZ is "40 bits for micros, then 24 bits for   *)
(* encoded offset"; the README has it read as a string of the time.  The   *)
(* client reads all 64 bits as microseconds, so this does not hold, even   *)
(* of the times whose bits fit their word.                                 *)
TimesReadAsWritten ==
  ReadRows /\ subject.type = "TIME_TZ"
    /\ TimeTzBits(subject.value.micros, subject.value.offset) \in UInt64 =>
    \A i \in DOMAIN table :
      readback[i] = Null \/ Promised(subject.type, subject.value, readback[i])

=============================================================================
