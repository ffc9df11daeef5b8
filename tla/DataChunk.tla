------------------------------ MODULE DataChunk ------------------------------
(***************************************************************************)
(* DuckDBDataChunk and one column of it.  The chunk keeps the column's     *)
(* vector from its first use, with the row count of that moment.  The      *)
(* vector has a copy of the native data and of the validity mask; setItem  *)
(* stages in the copies, flush writes them back.  A slice is a vector over *)
(* some rows of another; of the mask and the data it shares what the kind  *)
(* of column lets it share.                                                *)
(*                                                                         *)
(* A mask is an array of words of WordBits bits: what is set past its last *)
(* word throws, what is set in the padding of the last word does not.      *)
(* Nothing awaits in this code, a call is a step.  Rows count from 1, bits *)
(* from 0.                                                                 *)
(***************************************************************************)
EXTENDS Naturals, Sequences

CONSTANTS
  Data,        \* values that are not null
  Junk,        \* what memory holds that nobody has written
  Null,        \* the value null
  None,        \* no mask, no entry of itemCache, a row the program never set
  MaxRows,     \* vector_size()
  WordBits,    \* 64 in the code
  MaxCalls     \* bound: calls that set rows or row counts, slice or reset

ASSUME ChunkAssumption ==
  /\ MaxRows \in Nat /\ WordBits \in Nat \ {0} /\ MaxCalls \in Nat
  /\ {Junk, Null, None} \cap Data = {}
  /\ Junk # Null /\ Junk # None /\ Null # None

VARIABLES
  kind,        \* how the column keeps its data, see Kinds
  created,     \* whether the program created the chunk, or libduckdb filled it
  size,        \* the chunk's row count
  nativeData,  \* the native vector, by row
  nativeBits,  \* its validity mask
  vectors,     \* the cached column vector and a slice of it, as far as made
  want,        \* history: what the program last set in a row
  through,     \* history: the rows last set through the slice
  unflushed,   \* history: the rows set since the column vector was flushed
  overwritten, \* history: the rows whose data or mask bit a slice flushed last
  changed,     \* history: the rows set since the slice was cut
  calls        \* number of calls so far

nativeVector == <<nativeData, nativeBits>>
history == <<want, through, unflushed, overwritten, changed>>
chunkVars == <<kind, created, size, nativeVector, vectors, history, calls>>

(* A typed array, whose slice copies and which drops what is set past its  *)
(* end; a DataView, which is shared and throws; strings, staged in         *)
(* itemCache and written one by one.                                       *)
Kinds == {"items", "view", "strings"}

Rows == 1 .. MaxRows

(* The bits of a mask for n items: whole words.                            *)
Bits(n) == 0 .. ((n + WordBits - 1) \div WordBits) * WordBits - 1

Masks(n) == {None} \cup [Bits(n) -> BOOLEAN]

ASSUME MaskAssumption == \A n \in 0 .. MaxRows : None \notin [Bits(n) -> BOOLEAN]

Native(i) == IF nativeBits = None \/ nativeBits[i - 1] THEN nativeData[i] ELSE Null

-----------------------------------------------------------------------------
(* DuckDBVector.create on rows 1 to n of the native vector.                *)
RawVector(n) ==
  [offset |-> 0, count |-> n,
   items  |-> [i \in 1..n |-> nativeData[i]],
   bits   |-> IF nativeBits = None THEN None ELSE [b \in Bits(n) |-> nativeBits[b]],
   shares |-> FALSE,                      \* whether the mask is the column's
   cache  |-> [i \in Rows |-> None],
   dirty  |-> {}]

(* getColumnVector, when the chunk has n rows.                             *)
WithColumn(n) ==
  IF "column" \in DOMAIN vectors THEN vectors
  ELSE [v \in {"column"} |-> RawVector(n)]

(* Whose mask and whose data a vector works on.                            *)
MaskOwner(vs, v) == IF vs[v].shares THEN "column" ELSE v

Stored(vs, v, i) ==
  IF kind = "view" THEN vs["column"].items[vs[v].offset + i] ELSE vs[v].items[i]

(* Mutant: a slice looks at the bits of the first rows.                    *)
BitFromStart(r, i) == i - 1

BitOf(r, i) == r.offset + i - 1

(* getItem.                                                                *)
Item(v, i) ==
  LET r == vectors[v]
      mask == vectors[MaskOwner(vectors, v)].bits
  IN  IF r.cache[i] # None THEN r.cache[i]
      ELSE IF mask = None THEN Stored(vectors, v, i)
      ELSE IF BitOf(r, i) \notin DOMAIN mask THEN "throws"
      ELSE IF mask[BitOf(r, i)] THEN Stored(vectors, v, i) ELSE Null

StoreItem(vs, v, i, x) ==
  CASE kind = "strings" -> [vs EXCEPT ![v].cache[i] = x]
    [] kind = "view" /\ x # Null -> [vs EXCEPT !["column"].items[vs[v].offset + i] = x]
    [] kind = "items" /\ x # Null /\ i <= vs[v].count -> [vs EXCEPT ![v].items[i] = x]
    [] OTHER -> vs

(* Mutant: the mask has no word for the items of an incomplete one.        *)
WholeWords(n) == [b \in 0 .. (n \div WordBits) * WordBits - 1 |-> TRUE]

NewMask(n) == [b \in Bits(n) |-> TRUE]

(* setItemValid: the first null makes the mask.                            *)
SetItemValid(vs, v, i, valid) ==
  LET owner == MaskOwner(vs, v)
      mask == IF vs[owner].bits = None /\ ~valid THEN NewMask(vs[owner].count)
                                                  ELSE vs[owner].bits
      bit == BitOf(vs[v], i)
      fits == mask = None \/ bit \in DOMAIN mask
  IN  [ok |-> fits,
       vs |-> [vs EXCEPT ![owner].bits =
                 IF mask = None \/ ~fits THEN mask ELSE [mask EXCEPT ![bit] = valid]]]

(* setItem: the vectors afterwards, and whether it has returned.           *)
AfterSet(vs, v, i, x) ==
  IF kind = "view" /\ x # Null /\ i > vs[v].count THEN [ok |-> FALSE, vs |-> vs]
  ELSE LET s == SetItemValid(StoreItem(vs, v, i, x), v, i, x # Null)
       IN  IF kind = "strings" /\ s.ok THEN [s EXCEPT !.vs[v].dirty = @ \cup {i}] ELSE s

(* setItem of rows 1, 2, ... of the column, up to the first that throws.   *)
AfterSetting(vs, rows) ==
  LET after[n \in 0 .. Len(rows)] ==
        IF n = 0 THEN [ok |-> TRUE, vs |-> vs]
        ELSE LET before == after[n - 1]
             IN  IF before.ok THEN AfterSet(before.vs, "column", n, rows[n]) ELSE before
  IN  after[Len(rows)]

(* The rows of the native vector whose data a flush writes.                *)
Targets(vs, v) ==
  LET r == vs[v]
  IN  IF kind = "strings" THEN {r.offset + i : i \in {j \in r.dirty \cap 1 .. r.count :
                                                        r.cache[j] # Null}}
      ELSE 1 .. r.count

(* flush: data, but for strings, go to the first rows of the native        *)
(* vector, also those of a slice; the mask goes back as a whole.           *)
Flush(vs, v) ==
  LET r == vs[v]
      owner == MaskOwner(vs, v)
      mask == vs[owner].bits
      rows == Targets(vs, v)
      rewritten == IF mask = None THEN {} ELSE {b + 1 : b \in DOMAIN mask}
      flushed == ({"data"} \X rows) \cup ({"mask"} \X rewritten)
  IN  /\ nativeData' = [i \in Rows |->
           IF i \notin rows THEN nativeData[i]
           ELSE IF kind = "strings" THEN r.cache[i - r.offset] ELSE Stored(vs, v, i)]
      /\ nativeBits' = IF mask = None THEN nativeBits
           ELSE [b \in Bits(MaxRows) |-> IF b \in DOMAIN mask THEN mask[b]
                                         ELSE nativeBits = None \/ nativeBits[b]]
      /\ vectors' = [vs EXCEPT ![v].dirty = @ \ 1 .. r.count]
      /\ overwritten' = (overwritten \ flushed) \cup
           (IF v = "column" THEN {} ELSE {"data"} \X rows) \cup
           (IF owner = "column" THEN {} ELSE {"mask"} \X rewritten)

-----------------------------------------------------------------------------
ChunkInit ==
  /\ kind \in Kinds
  /\ created \in BOOLEAN
  /\ size \in 0 .. MaxRows
  /\ nativeBits \in IF created THEN {None} ELSE Masks(MaxRows)
  /\ nativeData \in [Rows -> Data \cup {Junk}]
  /\ \A i \in Rows : nativeData[i] = Junk <=> created \/ i > size \/ Native(i) = Null
  /\ nativeBits # None => \A b \in DOMAIN nativeBits : b >= size => nativeBits[b]
  /\ vectors = <<>>
  /\ want = [i \in Rows |-> IF created \/ i > size THEN None ELSE Native(i)]
  /\ through = {} /\ unflushed = {} /\ overwritten = {} /\ changed = {}
  /\ calls = 0

Call == calls < MaxCalls /\ calls' = calls + 1

Made == DOMAIN vectors

GetColumnVector ==
  /\ "column" \notin Made
  /\ vectors' = WithColumn(size)
  /\ UNCHANGED <<kind, created, size, nativeVector, history, calls>>

(* getItem keeps the string it has read.                                   *)
GetItem(v, i) ==
  /\ v \in Made /\ i <= vectors[v].count
  /\ kind = "strings" /\ vectors[v].cache[i] = None /\ Item(v, i) # "throws"
  /\ vectors' = [vectors EXCEPT ![v].cache[i] = Item(v, i)]
  /\ UNCHANGED <<kind, created, size, nativeVector, history, calls>>

(* What the program means by setting row i of vector v, if it has one.     *)
Want(v, i, x) ==
  LET r == vectors[v].offset + i
      inside == {j \in {r} : i <= vectors[v].count}
  IN  /\ want' = [j \in Rows |-> IF j \in inside THEN x ELSE want[j]]
      /\ through' = IF v = "slice" THEN through \cup inside ELSE through \ inside
      /\ unflushed' = unflushed \cup inside
      /\ changed' = changed \cup inside

SetItem(v, i, x) ==
  /\ v \in Made /\ Call
  /\ v = "slice" => i <= vectors[v].count
  /\ vectors' = AfterSet(vectors, v, i, x).vs
  /\ Want(v, i, x)
  /\ UNCHANGED <<kind, created, size, nativeVector, overwritten>>

FlushVector(v) ==
  /\ v \in Made
  /\ Flush(vectors, v)
  /\ unflushed' = IF v = "column" THEN {} ELSE unflushed
  /\ UNCHANGED <<kind, created, size, want, through, changed, calls>>

(* setRows: the row count, then a row at a time, then, if none has thrown, *)
(* a flush; setColumns as well, if the vector has that many rows.          *)
SetRows(rows) ==
  LET vs == WithColumn(Len(rows))
      done == AfterSetting(vs, rows)
      inside == 1 .. Len(rows) \cap 1 .. vs["column"].count
  IN  /\ Call
      /\ size' = Len(rows)
      /\ want' = [i \in Rows |-> IF i \in inside THEN rows[i] ELSE want[i]]
      /\ through' = through \ inside
      /\ changed' = changed \cup inside
      /\ \/ done.ok /\ Flush(done.vs, "column") /\ unflushed' = {}
         \/ /\ ~done.ok /\ vectors' = done.vs
            /\ unflushed' = unflushed \cup inside
            /\ UNCHANGED <<nativeVector, overwritten>>
      /\ UNCHANGED <<kind, created>>

(* setColumns throws, the row count changed, when the vector has another   *)
(* number of rows than it is given.                                        *)
SetColumnsRefused(n) ==
  /\ "column" \in Made /\ vectors["column"].count # n /\ Call
  /\ size' = n
  /\ UNCHANGED <<kind, created, nativeVector, vectors, history>>

SetRowCount(n) ==
  /\ Call
  /\ size' = n
  /\ UNCHANGED <<kind, created, nativeVector, vectors, history>>

(* libduckdb forgets the mask and the number of rows, the JavaScript side  *)
(* forgets nothing.                                                        *)
Reset ==
  /\ created /\ Call
  /\ size' = 0 /\ nativeBits' = None
  /\ want' = [i \in Rows |-> None]
  /\ through' = {} /\ unflushed' = {} /\ overwritten' = {}
  /\ UNCHANGED <<kind, created, nativeData, vectors, changed>>

Slice(offset, count) ==
  LET column == vectors["column"]
      slice == [offset |-> offset, count |-> count,
                items  |-> [i \in 1 .. count |-> column.items[offset + i]],
                bits   |-> None, shares |-> column.bits # None,
                cache  |-> [i \in Rows |-> None], dirty |-> {}]
  IN  /\ Made = {"column"} /\ Call
      /\ offset + count <= column.count
      /\ vectors' = [v \in {"column", "slice"} |-> IF v = "slice" THEN slice ELSE column]
      /\ changed' = IF kind = "strings" THEN {i \in Rows : column.cache[i] # None} ELSE {}
      /\ UNCHANGED <<kind, created, size, nativeVector, want, through, unflushed, overwritten>>

ChunkNext ==
  \/ GetColumnVector
  \/ \E v \in Made, i \in Rows : GetItem(v, i)
  \/ \E v \in Made, i \in Rows, x \in Data \cup {Null} : SetItem(v, i, x)
  \/ \E v \in Made : FlushVector(v)
  \/ \E n \in 0 .. MaxRows : \E rows \in [1..n -> Data \cup {Null}] : SetRows(rows)
  \/ \E n \in 0 .. MaxRows : SetColumnsRefused(n)
  \/ \E n \in 0 .. MaxRows : SetRowCount(n)
  \/ Reset
  \/ \E offset \in 0 .. MaxRows - 1, count \in Rows : Slice(offset, count)

ChunkSpec == ChunkInit /\ [][ChunkNext]_chunkVars

-----------------------------------------------------------------------------
ChunkTypeOK ==
  /\ kind \in Kinds /\ created \in BOOLEAN /\ size \in 0 .. MaxRows
  /\ nativeData \in [Rows -> Data \cup {Junk}]
  /\ nativeBits \in Masks(MaxRows)
  /\ Made \subseteq {"column", "slice"}
  /\ \A v \in Made :
       LET r == vectors[v]
       IN  /\ r.offset + r.count \in 0 .. MaxRows
           /\ r.items \in [1 .. r.count -> Data \cup {Junk}]
           /\ r.bits \in Masks(r.count)
           /\ r.cache \in [Rows -> Data \cup {Junk, Null, None}]
           /\ r.dirty \subseteq Rows
  /\ want \in [Rows -> Data \cup {Null, None}]
  /\ through \subseteq Rows /\ unflushed \subseteq Rows /\ changed \subseteq Rows
  /\ overwritten \subseteq {"data", "mask"} \X {b + 1 : b \in Bits(MaxRows)}
  /\ calls \in 0 .. MaxCalls

(* The rows the slice writes are the column's, mask and all.               *)
Aliased == kind = "view" /\ vectors["slice"].shares

(* Whatever the row count of the chunk becomes later, setting a row inside *)
(* the column vector never fails: the column reads as it was last set, and *)
(* once flushed so does the native vector, which is what appendDataChunk   *)
(* and the caller of a scalar function get.  Rows past the vector's own    *)
(* count are lost; a slice may write a row the column does not learn of,   *)
(* and leaves in the native vector what the column must flush again.       *)
ColumnKeepsWhatWasSet ==
  "column" \in Made =>
    \A i \in 1 .. vectors["column"].count :
      want[i] = None \/ (i \in through /\ ~Aliased) \/
        /\ Item("column", i) = want[i]
        /\ \/ i \in unflushed \/ <<"data", i>> \in overwritten
           \/ <<"mask", i>> \in overwritten \/ Native(i) = want[i]

(* A slice of a DataView that had a mask is the same rows; any other slice *)
(* agrees with the column on the rows that neither of them has set since   *)
(* it was cut (strings: that the column had not even read or set before).  *)
(* A mask the slice makes itself may have no bit for its rows.             *)
SlicesAliasOrSnapshot ==
  "slice" \in Made =>
    \A i \in 1 .. vectors["slice"].count :
      LET r == vectors["slice"]
          row == r.offset + i
      IN  \/ Item("slice", i) = Item("column", row)
          \/ row \in changed /\ ~Aliased
          \/ r.bits # None /\ BitOf(r, i) \notin DOMAIN r.bits

=============================================================================
