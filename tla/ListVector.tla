----------------------------- MODULE ListVector -----------------------------
(***************************************************************************)
(* DuckDBListVector: a LIST column of one chunk.  The native vector has an *)
(* entry (offset and length) for each row and one child vector with the    *)
(* items of all rows.  JavaScript holds copies of both; setItem stages a   *)
(* list in itemCache and flush lays everything out again: a first loop     *)
(* over the rows gives each its new offset and length, the child vector is *)
(* resized, a second loop stages its items, and the copies are pushed.     *)
(*                                                                         *)
(* A slice has copies of its rows' entries, the child vector of the time   *)
(* it was made and a cache of its own; it writes through parentList, the   *)
(* vector it was cut from.                                                 *)
(*                                                                         *)
(* Nothing awaits in this code: the steps of a flush are separate actions  *)
(* so that each iteration of the loops is one, and nothing else happens    *)
(* between them.  Rows count from 1, offsets into the child from 0.  Items *)
(* are of a fixed-width type with a typed array, whose slice stops at the  *)
(* end of the array.  list_vector_set_size does not reserve memory: a      *)
(* flush that writes past the child's capacity sets overrun, and the model *)
(* stops there.                                                            *)
(***************************************************************************)
EXTENDS Naturals, Sequences

CONSTANTS
  Items,      \* the items of lists
  MaxLen,     \* bound on the length of a list
  N,          \* the rows of the chunk
  Capacity,   \* the items for which the child vector has memory
  Slices,     \* names of slices
  Null,       \* the value NULL, and no slice
  Unread      \* an undefined element of itemCache

Lists == UNION {[1..n -> Items] : n \in 0..MaxLen}

ASSUME ListAssumption ==
  /\ MaxLen \in Nat
  /\ N \in Nat \ {0}
  /\ Capacity \in Nat
  /\ Null \notin Slices
  /\ Unread # Null
  /\ {Null, Unread} \cap Lists = {}

VARIABLES
  nativeEntry,  \* the entries of the native vector
  nativeChild,  \* the items of its child vector; its length is the list size
  nativeValid,  \* its validity: false for NULL
  entryData,    \* the vector's copy of the entries
  childData,    \* the vector's copy of the child
  masked,       \* whether its validity has a mask
  valid,        \* its validity, all true while there is no mask
  itemCache,    \* lists read or staged, by row
  slices,       \* the slices, Null where none was made
  loop,         \* where the current flush is
  row,          \* the row its loop has come to
  totalLength,  \* the items of the rows its first loop has passed
  flusher,      \* the slice that called flush, if one did
  want,         \* history: the list each row should have
  staged,       \* history: the rows set since the last flush
  misread,      \* history: the rows whose items a flush read at a new offset
  overrun       \* whether a flush has written past the child's memory

native == <<nativeEntry, nativeChild, nativeValid>>
copies == <<entryData, childData, masked, valid, itemCache>>
flush == <<loop, row, totalLength, flusher>>
history == <<want, staged, misread>>
vars == <<native, copies, slices, flush, history, overrun>>

-----------------------------------------------------------------------------
Rows == 1..N
Values == Lists \cup {Null}
Loops == {"idle", "lengths", "items"}

Entries == [offset : Nat, length : 0..MaxLen]

(* A slice: its place in the vector, its copies, its cache.                *)
SliceRecords ==
  [offset : Nat, count : Nat, entry : Seq(Entries), child : Seq(Items),
   masked : BOOLEAN, cache : Seq(Values \cup {Unread}),
   outdated : SUBSET Rows, wrote : SUBSET Rows]

ASSUME SliceAssumption == Null \notin SliceRecords

(* Where the list of row i ends in the child.                              *)
End(entry, i) == IF i = 0 THEN 0 ELSE entry[i].offset + entry[i].length

(* The first k lists follow one another without gap or overlap.            *)
Contiguous(entry, k) == \A i \in 1..k : entry[i].offset = End(entry, i - 1)

Length(v) == IF v = Null THEN 0 ELSE Len(v)

(* childData.slice(offset, length).toArray().                              *)
ItemVector(child, entry) ==
  LET end == entry.offset + entry.length
  IN SubSeq(child, entry.offset + 1, IF end > Len(child) THEN Len(child) ELSE end)

(* What the native vector holds in a row.                                  *)
Native(i) ==
  IF nativeValid[i] THEN ItemVector(nativeChild, nativeEntry[i]) ELSE Null

(* getItem.                                                                *)
Item(i) ==
  IF itemCache[i] # Unread THEN itemCache[i]
  ELSE IF valid[i] THEN ItemVector(childData, entryData[i]) ELSE Null

(* A slice shares the mask of its vector if there was one to share.        *)
SliceValid(s, i) == slices[s].masked => valid[slices[s].offset + i]

SliceRows(s) == 1..slices[s].count

(* getItem of a slice.                                                     *)
SliceItem(s, i) ==
  IF slices[s].cache[i] # Unread THEN slices[s].cache[i]
  ELSE IF SliceValid(s, i) THEN ItemVector(slices[s].child, slices[s].entry[i])
  ELSE Null

Idle == loop = "idle" /\ ~overrun

Made == {s \in Slices : slices[s] # Null}

-----------------------------------------------------------------------------
(* The vector of a chunk that a query has filled, as fromRawVector copies  *)
(* it: vector_get_validity finds a mask if some row is NULL, and perhaps   *)
(* if none is.                                                             *)
Init ==
  /\ nativeEntry \in [Rows -> [offset : 0 .. N * MaxLen, length : 0..MaxLen]]
  /\ Contiguous(nativeEntry, N)
  /\ nativeChild \in [1 .. End(nativeEntry, N) -> Items]
  /\ nativeValid \in [Rows -> BOOLEAN]
  /\ \A i \in Rows : ~nativeValid[i] => nativeEntry[i].length = 0
  /\ entryData = nativeEntry
  /\ childData = nativeChild
  /\ masked \in {m \in BOOLEAN : m \/ \A i \in Rows : nativeValid[i]}
  /\ valid = nativeValid
  /\ itemCache = [i \in Rows |-> Unread]
  /\ slices = [s \in Slices |-> Null]
  /\ loop = "idle"
  /\ row = 1
  /\ totalLength = 0
  /\ flusher = Null
  /\ want = [i \in Rows |-> Native(i)]
  /\ staged = {}
  /\ misread = {}
  /\ overrun = FALSE

(* getItem caches the list it has built, but not a null.                   *)
GetItem(i) ==
  /\ Idle /\ valid[i] /\ itemCache[i] = Unread
  /\ itemCache' = [itemCache EXCEPT ![i] = Item(i)]
  /\ UNCHANGED <<native, entryData, childData, masked, valid, slices, flush,
                 history, overrun>>

(* A row that is set no longer agrees with the slices over it, but for the *)
(* slice it is set through.                                                *)
Outdate(i, through) ==
  [s \in Slices |->
     IF s \notin Made \/ s = through THEN slices[s]
     ELSE [slices[s] EXCEPT !.outdated = @ \cup {i}, !.wrote = @ \ {i}]]

(* What the program means when it sets a row.                              *)
Want(i, v) ==
  /\ want' = [want EXCEPT ![i] = v]
  /\ staged' = staged \cup {i}
  /\ misread' = misread \ {i}

(* Mutant: the mask that the first null needs is never made.               *)
StageWithoutMask(i, v) ==
  /\ itemCache' = [itemCache EXCEPT ![i] = v]
  /\ masked' = masked
  /\ valid' = [valid EXCEPT ![i] = masked => v # Null]

(* setItem of the vector itself: the first null makes the mask.            *)
Stage(i, v) ==
  /\ itemCache' = [itemCache EXCEPT ![i] = v]
  /\ masked' = (masked \/ v = Null)
  /\ valid' = [valid EXCEPT ![i] = v # Null]

SetItem(i, v) ==
  /\ Idle
  /\ Stage(i, v) /\ Want(i, v)
  /\ slices' = Outdate(i, Null)
  /\ UNCHANGED <<native, entryData, childData, flush, overrun>>

(* Mutant: the entries are copied from the first row on.                   *)
SliceFromStart(s, offset, count) ==
  /\ Idle /\ s \notin Made
  /\ offset + count <= N
  /\ slices' = [slices EXCEPT ![s] =
       [offset   |-> offset,
        count    |-> count,
        entry    |-> SubSeq(entryData, 1, count),
        child    |-> childData,
        masked   |-> masked,
        cache    |-> [i \in 1..count |-> Unread],
        outdated |-> staged \cup misread,
        wrote    |-> {}]]
  /\ UNCHANGED <<native, copies, flush, history, overrun>>

(* slice, which getItemVector calls on the child of a list of lists.       *)
Slice(s, offset, count) ==
  /\ Idle /\ s \notin Made
  /\ offset + count <= N
  /\ slices' = [slices EXCEPT ![s] =
       [offset   |-> offset,
        count    |-> count,
        entry    |-> SubSeq(entryData, offset + 1, offset + count),
        child    |-> childData,
        masked   |-> masked,
        cache    |-> [i \in 1..count |-> Unread],
        outdated |-> staged \cup misread,  \* history: rows that changed
        wrote    |-> {}]]                  \* history: of them, its own
  /\ UNCHANGED <<native, copies, flush, history, overrun>>

GetSliceItem(s, i) ==
  /\ Idle /\ s \in Made
  /\ i \in SliceRows(s) /\ slices[s].cache[i] = Unread /\ SliceValid(s, i)
  /\ slices' = [slices EXCEPT ![s].cache[i] = SliceItem(s, i)]
  /\ UNCHANGED <<native, copies, flush, history, overrun>>

(* Mutant: the slice passes its own row number to parentList.              *)
SetItemOfSliceRow(s, i, v) ==
  /\ Idle /\ s \in Made /\ i \in SliceRows(s)
  /\ LET parentRow == slices[s].offset + i
     IN /\ Stage(i, v) /\ Want(parentRow, v)
        /\ slices' = [Outdate(parentRow, s) EXCEPT
                        ![s].cache[i] = v,
                        ![s].outdated = @ \cup {parentRow},
                        ![s].wrote = @ \cup {parentRow}]
  /\ UNCHANGED <<native, entryData, childData, flush, overrun>>

(* setItem of a slice keeps the list and sets it in parentList.            *)
SetSliceItem(s, i, v) ==
  /\ Idle /\ s \in Made /\ i \in SliceRows(s)
  /\ LET parentRow == slices[s].offset + i
     IN /\ Stage(parentRow, v) /\ Want(parentRow, v)
        /\ slices' = [Outdate(parentRow, s) EXCEPT
                        ![s].cache[i] = v,
                        ![s].outdated = @ \cup {parentRow},
                        ![s].wrote = @ \cup {parentRow}]
  /\ UNCHANGED <<native, entryData, childData, flush, overrun>>

(* flush, of the vector or, through parentList, of a slice.                *)
Flush(by) ==
  /\ Idle /\ (by = Null \/ by \in Made)
  /\ loop' = "lengths"
  /\ row' = 1
  /\ totalLength' = 0
  /\ flusher' = by
  /\ UNCHANGED <<native, copies, slices, history, overrun>>

(* One iteration of the first loop.  The new offset is stored before       *)
(* getItem is called, which for a list not in the cache reads its items at *)
(* that offset in the old child.                                           *)
FlushLength ==
  /\ loop = "lengths" /\ row \in Rows
  /\ LET moved == [entryData[row] EXCEPT !.offset = totalLength]
         read == itemCache[row] = Unread /\ valid[row]
         item == IF read THEN ItemVector(childData, moved) ELSE Item(row)
     IN /\ entryData' = [entryData EXCEPT ![row] =
                           [offset |-> totalLength, length |-> Length(item)]]
        /\ itemCache' = [itemCache EXCEPT ![row] = IF read THEN item ELSE @]
        /\ totalLength' = totalLength + Length(item)
        /\ IF read /\ entryData[row].offset # totalLength
           THEN /\ misread' = misread \cup {row}
                /\ slices' = Outdate(row, Null)
           ELSE UNCHANGED <<misread, slices>>
  /\ row' = row + 1
  /\ UNCHANGED <<native, childData, masked, valid, loop, flusher, want, staged,
                 overrun>>

(* list_vector_set_size, and childData made anew: what it copies from the  *)
(* resized child is replaced item by item below.                           *)
SetSize ==
  /\ loop = "lengths" /\ row = N + 1
  /\ overrun' = (totalLength > Capacity)
  /\ loop' = "items"
  /\ row' = 1
  /\ childData' = <<>>
  /\ UNCHANGED <<native, entryData, masked, valid, itemCache, slices,
                 totalLength, flusher, history>>

(* Mutant: only lists that were set are written to the new child.          *)
OnlyStagedItems ==
  /\ loop = "items" /\ row \in Rows /\ ~overrun
  /\ childData' = IF Item(row) = Null \/ row \notin staged
                  THEN childData ELSE childData \o Item(row)
  /\ row' = row + 1
  /\ UNCHANGED <<native, entryData, masked, valid, itemCache, slices, loop,
                 totalLength, flusher, history, overrun>>

(* One iteration of the second loop: the items of a row, after those of    *)
(* the rows before.                                                        *)
FlushItems ==
  /\ loop = "items" /\ row \in Rows /\ ~overrun
  /\ childData' = IF Item(row) = Null THEN childData ELSE childData \o Item(row)
  /\ row' = row + 1
  /\ UNCHANGED <<native, entryData, masked, valid, itemCache, slices, loop,
                 totalLength, flusher, history, overrun>>

(* The child is flushed, the entries and the validity are copied; a slice  *)
(* that called forgets its cache and nothing else.                         *)
Push ==
  /\ loop = "items" /\ row = N + 1 /\ ~overrun
  /\ nativeChild' = childData
  /\ nativeEntry' = entryData
  /\ nativeValid' = IF masked THEN valid ELSE nativeValid
  /\ slices' = [s \in Slices |->
                  IF s # flusher THEN slices[s]
                  ELSE [slices[s] EXCEPT
                          !.cache = [i \in SliceRows(s) |-> Unread],
                          !.wrote = {}]]
  /\ loop' = "idle"
  /\ staged' = {}
  /\ flusher' = Null
  /\ row' = 1
  /\ totalLength' = 0
  /\ UNCHANGED <<copies, want, misread, overrun>>

Next ==
  \/ \E i \in Rows : GetItem(i)
  \/ \E i \in Rows, v \in Values : SetItem(i, v)
  \/ \E s \in Slices, offset \in 0 .. N - 1, count \in Rows : Slice(s, offset, count)
  \/ \E s \in Slices, i \in Rows : GetSliceItem(s, i)
  \/ \E s \in Slices, i \in Rows, v \in Values : SetSliceItem(s, i, v)
  \/ \E by \in Slices \cup {Null} : Flush(by)
  \/ FlushLength
  \/ SetSize
  \/ FlushItems
  \/ Push

Spec == Init /\ [][Next]_vars

-----------------------------------------------------------------------------
TypeOK ==
  /\ nativeEntry \in [Rows -> Entries]
  /\ nativeChild \in Seq(Items)
  /\ nativeValid \in [Rows -> BOOLEAN]
  /\ entryData \in [Rows -> Entries]
  /\ childData \in Seq(Items)
  /\ masked \in BOOLEAN
  /\ valid \in [Rows -> BOOLEAN]
  /\ itemCache \in [Rows -> Values \cup {Unread}]
  /\ slices \in [Slices -> SliceRecords \cup {Null}]
  /\ \A s \in Made : /\ slices[s].offset + slices[s].count \in Rows
                      /\ Len(slices[s].entry) = slices[s].count
                      /\ Len(slices[s].cache) = slices[s].count
  /\ loop \in Loops
  /\ row \in 1 .. N + 1
  /\ totalLength \in Nat
  /\ flusher \in Made \cup {Null}
  /\ want \in [Rows -> Values]
  /\ staged \subseteq Rows
  /\ misread \subseteq Rows
  /\ overrun \in BOOLEAN

(* Whatever is set, through the vector or a slice, and in whatever order   *)
(* it is read and flushed, every entry of the native vector lies inside    *)
(* the child and the lists follow one another without gap or overlap: the  *)
(* two loops of flush agree about where each list goes.                    *)
WellLaidOut ==
  Idle => Contiguous(nativeEntry, N) /\ Len(nativeChild) = End(nativeEntry, N)

(* A row that has not been set since the last flush has in the native      *)
(* vector the list last set in it, or the one the query put there, unless  *)
(* a flush read it at a new offset because it was not in the cache.        *)
PublishedUnlessMisread ==
  Idle => \A i \in Rows \ (staged \cup misread) : Native(i) = want[i]

(* getItem returns the list last set, flushed or not, through whatever     *)
(* slice it was set, with the same exception.                              *)
ReadsWhatWasSet == Idle => \A i \in Rows \ misread : Item(i) = want[i]

(* A slice is a snapshot: it differs from the vector only in rows that     *)
(* were set after it was made, or were not flushed when it was made.  A    *)
(* row it has set itself it shows until it is flushed through the slice;   *)
(* after that it shows the list from before again.                         *)
SlicesAreSnapshots ==
  Idle => \A s \in Made : \A i \in SliceRows(s) :
            LET r == slices[s].offset + i
            IN r \in slices[s].outdated \ slices[s].wrote \/ SliceItem(s, i) = want[r]

=============================================================================
