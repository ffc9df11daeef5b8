-------------------------- MODULE ListVectorProofs --------------------------
(***************************************************************************)
(* Proofs about ListVector, for any number of rows, slices and items and   *)
(* lists of any length.  The invariants of idle states follow from what    *)
(* holds at each iteration of the two loops of a flush.                    *)
(***************************************************************************)
EXTENDS ListVector, SequenceTheorems, TLAPS

Types ==
  /\ nativeEntry \in [Rows -> Entries]
  /\ nativeChild \in Seq(Items)
  /\ nativeValid \in [Rows -> BOOLEAN]
  /\ entryData \in [Rows -> Entries]
  /\ childData \in Seq(Items)
  /\ masked \in BOOLEAN
  /\ valid \in [Rows -> BOOLEAN]
  /\ itemCache \in [Rows -> Values \cup {Unread}]
  /\ want \in [Rows -> Values]
  /\ loop \in Loops
  /\ row \in 1 .. N + 1
  /\ totalLength \in Nat

(* A cached list is of a valid row, a cached null of an invalid one; while *)
(* there is no mask every row is valid on both sides.                      *)
ValidityAgrees ==
  /\ \A i \in Rows : /\ itemCache[i] = Null => ~valid[i]
                     /\ itemCache[i] \in Lists => valid[i]
  /\ ~masked => \A i \in Rows : valid[i] /\ nativeValid[i]

ReadsAgree == \A i \in Rows \ misread : Item(i) = want[i]

NativeAgrees == \A i \in Rows \ (staged \cup misread) : Native(i) = want[i]

NativeLaidOut ==
  Contiguous(nativeEntry, N) /\ Len(nativeChild) = End(nativeEntry, N)

(* The first loop has given the first k rows their lengths, and reads      *)
(* their items from now on in the cache only.                              *)
Measured(k) ==
  \A i \in 1..k : /\ itemCache[i] = Unread => ~valid[i]
                  /\ entryData[i].length = Length(Item(i))

(* The second loop has put the items of the first k rows in the child.     *)
Filled(k) ==
  \A i \in 1..k : /\ End(entryData, i) <= Len(childData)
                  /\ Item(i) # Null => ItemVector(childData, entryData[i]) = Item(i)

LengthsLoop ==
  loop = "lengths" => /\ Contiguous(entryData, row - 1)
                      /\ totalLength = End(entryData, row - 1)
                      /\ Measured(row - 1)

ItemsLoop ==
  loop = "items" => /\ Contiguous(entryData, N)
                    /\ Measured(N)
                    /\ Len(childData) = End(entryData, row - 1)
                    /\ Filled(row - 1)

IInv == /\ Types
        /\ ValidityAgrees
        /\ ReadsAgree
        /\ NativeAgrees
        /\ NativeLaidOut
        /\ LengthsLoop
        /\ ItemsLoop

-----------------------------------------------------------------------------
(* Lists are the sequences of at most MaxLen items.                        *)
LEMMA ListsAreSequences ==
  /\ \A l \in Lists : l \in Seq(Items) /\ Len(l) \in 0..MaxLen
  /\ \A l \in Seq(Items) : Len(l) <= MaxLen => l \in Lists
<1>1. ASSUME NEW l \in Lists PROVE l \in Seq(Items) /\ Len(l) \in 0..MaxLen
  <2>1. PICK n \in 0..MaxLen : l \in [1..n -> Items]
    BY DEF Lists
  <2> QED  BY <2>1, ListAssumption, SeqDef
<1>2. ASSUME NEW l \in Seq(Items), Len(l) <= MaxLen PROVE l \in Lists
  <2>1. Len(l) \in 0..MaxLen /\ l \in [1..Len(l) -> Items]
    BY <1>2, ListAssumption, LenProperties
  <2> QED  BY <2>1 DEF Lists
<1> QED  BY <1>1, <1>2

(* What ItemVector reads is a list, also when the child ends too soon.     *)
LEMMA ItemVectorIsList ==
  ASSUME NEW child \in Seq(Items), NEW entry \in Entries
  PROVE  ItemVector(child, entry) \in Lists
<1> DEFINE m == entry.offset + 1
           e == entry.offset + entry.length
           n == IF e > Len(child) THEN Len(child) ELSE e
<1>1. m \in Nat /\ m >= 1 /\ n \in Nat /\ n <= Len(child) /\ n <= e /\ Len(child) \in Nat
  BY ListAssumption, LenProperties DEF Entries
<1>2. \A i \in m..n : child[i] \in Items
  BY <1>1, ElementOfSeq
<1>3. SubSeq(child, m, n) \in Seq(Items)
      /\ Len(SubSeq(child, m, n)) = IF m <= n THEN n - m + 1 ELSE 0
  BY <1>1, <1>2, SubSeqProperties
<1>4. Len(SubSeq(child, m, n)) <= MaxLen
  BY <1>1, <1>3, ListAssumption DEF Entries
<1> QED  BY <1>3, <1>4, ListsAreSequences DEF ItemVector

(* Items written after a list do not change it.                            *)
LEMMA AppendKeeps ==
  ASSUME NEW child \in Seq(Items), NEW more \in Seq(Items), NEW entry \in Entries,
         entry.offset + entry.length <= Len(child)
  PROVE  ItemVector(child \o more, entry) = ItemVector(child, entry)
<1> DEFINE m == entry.offset + 1
           n == entry.offset + entry.length
<1>1. m \in 1 .. Len(child) + 1 /\ n \in Nat /\ n <= Len(child) /\ Len(child) \in Nat
      /\ Len(more) \in Nat
  BY ListAssumption, LenProperties DEF Entries
<1>2. Len(child \o more) = Len(child) + Len(more)
  BY ConcatProperties
<1>3. ItemVector(child \o more, entry) = SubSeq(child \o more, m, n)
  BY <1>1, <1>2 DEF ItemVector
<1>4. ItemVector(child, entry) = SubSeq(child, m, n)
  BY <1>1 DEF ItemVector
<1>5. SubSeq(child \o more, m, n) = SubSeq(child, m, n)
  <2>1. CASE n < m
    <3>1. SubSeq(child \o more, m, n) = << >> /\ SubSeq(child, m, n) = << >>
      BY <1>1, <2>1, SubSeqEmpty
    <3> QED  BY <3>1
  <2>2. CASE m <= n
    <3>1. m \in 1..Len(child) /\ n \in 1..Len(child)
      BY <1>1, <2>2
    <3> QED  BY <3>1, SubSeqOfConcat1
  <2> QED  BY <1>1, <2>1, <2>2
<1> QED  BY <1>3, <1>4, <1>5

(* Items written at the end of the child are read back.                    *)
LEMMA AppendReads ==
  ASSUME NEW child \in Seq(Items), NEW more \in Seq(Items), NEW entry \in Entries,
         entry.offset = Len(child), entry.length = Len(more)
  PROVE  ItemVector(child \o more, entry) = more
<1> DEFINE m == Len(child) + 1
           n == Len(child) + Len(more)
<1>1. Len(child) \in Nat /\ Len(more) \in Nat
  BY LenProperties
<1>2. Len(child \o more) = n
  BY ConcatProperties
<1>3. ItemVector(child \o more, entry) = SubSeq(child \o more, m, n)
  BY <1>1, <1>2 DEF ItemVector
<1>4. CASE Len(more) = 0
  <2>1. SubSeq(child \o more, m, n) = << >>
    BY <1>1, <1>4, SubSeqEmpty
  <2>2. more = << >>
    BY <1>4, EmptySeq
  <2> QED  BY <1>3, <2>1, <2>2
<1>5. CASE Len(more) > 0
  <2>1. m \in Len(child) + 1 .. Len(child) + Len(more)
        /\ n \in Len(child) + 1 .. Len(child) + Len(more)
    BY <1>1, <1>5
  <2>2. SubSeq(child \o more, m, n) = SubSeq(more, m - Len(child), n - Len(child))
    BY <2>1, SubSeqOfConcat2
  <2>3. m - Len(child) = 1 /\ n - Len(child) = Len(more)
    BY <1>1
  <2>4. SubSeq(more, 1, Len(more)) = more
    BY SubSeqFull
  <2> QED  BY <1>3, <2>2, <2>3, <2>4
<1> QED  BY <1>1, <1>4, <1>5

-----------------------------------------------------------------------------
LEMMA InitIInv == Init => IInv
<1> SUFFICES ASSUME Init PROVE IInv
  OBVIOUS
<1>1. Types
  <2>1. nativeEntry \in [Rows -> Entries]
    BY ListAssumption DEF Init, Entries
  <2>2. N \in Rows /\ End(nativeEntry, N) \in Nat
    BY <2>1, ListAssumption DEF End, Entries, Rows
  <2>3. nativeChild \in Seq(Items)
    <3>1. nativeChild \in [1 .. End(nativeEntry, N) -> Items]
      BY DEF Init
    <3>2. ASSUME NEW n \in Nat, NEW f \in [1..n -> Items] PROVE f \in Seq(Items)
      BY SMT
    <3> QED  BY <2>2, <3>1, <3>2
  <2>4. ASSUME NEW i \in Rows PROVE Native(i) \in Values
    BY <2>1, <2>3, <2>4, ItemVectorIsList DEF Native, Values
  <2>5. row \in 1 .. N + 1 /\ totalLength \in Nat
    BY ListAssumption DEF Init
  <2> QED  BY <2>1, <2>3, <2>4, <2>5 DEF Types, Init, Loops
<1>2. ValidityAgrees
  BY ListAssumption DEF ValidityAgrees, Init
<1>3. ReadsAgree
  BY DEF ReadsAgree, Init, Item, Native
<1>4. NativeAgrees
  BY DEF NativeAgrees, Init
<1>5. NativeLaidOut
  <2>1. N \in Rows /\ nativeEntry[N].offset \in Nat /\ nativeEntry[N].length \in Nat
    BY <1>1, ListAssumption DEF Types, Entries, Rows
  <2>2. End(nativeEntry, N) \in Nat
    BY <2>1, ListAssumption DEF End
  <2>3. Len(nativeChild) = End(nativeEntry, N)
    BY <2>2, <1>1, LenProperties DEF Init, Types
  <2> QED  BY <2>3 DEF NativeLaidOut, Init
<1>6. LengthsLoop /\ ItemsLoop
  BY DEF LengthsLoop, ItemsLoop, Init
<1> QED  BY <1>1, <1>2, <1>3, <1>4, <1>5, <1>6 DEF IInv

(* Setting a row, through the vector or a slice, while nothing is flushed. *)
LEMMA StageKeeps ==
  ASSUME IInv, Idle, NEW i, NEW v \in Values, Stage(i, v), Want(i, v),
         UNCHANGED <<native, entryData, childData, flush>>
  PROVE  IInv'
<1> USE DEF native, flush, Stage, Want
<1>0. Types /\ Types'
  BY DEF IInv, Types
<1>1. \A j \in Rows : /\ itemCache'[j] = IF j = i THEN v ELSE itemCache[j]
                      /\ valid'[j] = IF j = i THEN v # Null ELSE valid[j]
                      /\ want'[j] = IF j = i THEN v ELSE want[j]
  BY <1>0 DEF Types
<1>2. v # Unread /\ (v \in Lists => v # Null)
  BY ListAssumption DEF Values
<1>3. ValidityAgrees'
  <2>1. ASSUME NEW j \in Rows
        PROVE  /\ itemCache'[j] = Null => ~valid'[j]
               /\ itemCache'[j] \in Lists => valid'[j]
    <3>1. CASE j = i
      BY <3>1, <1>1, <1>2
    <3>2. CASE j # i
      BY <3>2, <1>1 DEF IInv, ValidityAgrees
    <3> QED  BY <3>1, <3>2
  <2>2. ASSUME ~masked', NEW j \in Rows PROVE valid'[j] /\ nativeValid'[j]
    <3>1. ~masked /\ v # Null
      BY <2>2
    <3>2. valid[j] /\ nativeValid[j] /\ nativeValid' = nativeValid
      BY <3>1 DEF IInv, ValidityAgrees
    <3> QED  BY <3>1, <3>2, <1>1
  <2> QED  BY <2>1, <2>2 DEF ValidityAgrees
<1>4. ReadsAgree'
  <2> SUFFICES ASSUME NEW j \in Rows, j \notin misread'
               PROVE  Item(j)' = want'[j]
    BY DEF ReadsAgree
  <2>1. CASE j = i
    BY <2>1, <1>1, <1>2 DEF Item
  <2>2. CASE j # i
    BY <2>2, <1>1 DEF Item, IInv, ReadsAgree
  <2> QED  BY <2>1, <2>2
<1>5. NativeAgrees'
  BY <1>1 DEF IInv, NativeAgrees, Native
<1>6. NativeLaidOut'
  BY DEF IInv, NativeLaidOut, Contiguous, End
<1>7. LengthsLoop' /\ ItemsLoop'
  BY DEF Idle, LengthsLoop, ItemsLoop
<1> QED  BY <1>0, <1>3, <1>4, <1>5, <1>6, <1>7 DEF IInv

(* getItem outside a flush.                                                *)
LEMMA GetItemKeeps ==
  ASSUME IInv, NEW i \in Rows, GetItem(i)
  PROVE  IInv'
<1> USE DEF native, flush, history, GetItem
<1>0. Types
  BY DEF IInv
<1>1. Item(i) = ItemVector(childData, entryData[i]) /\ Item(i) \in Lists
  BY <1>0, ItemVectorIsList DEF Item, Types
<1>2. Item(i) # Unread /\ Item(i) # Null
  BY <1>1, ListAssumption
<1>3. \A j \in Rows : itemCache'[j] = IF j = i THEN Item(i) ELSE itemCache[j]
  BY <1>0 DEF Types
<1>4. Types'
  BY <1>0, <1>1 DEF Types, Values
<1>5. ValidityAgrees'
  BY <1>1, <1>2, <1>3 DEF IInv, ValidityAgrees
<1>6. \A j \in Rows : Item(j)' = Item(j)
  BY <1>1, <1>2, <1>3 DEF Item
<1>7. ReadsAgree'
  BY <1>6 DEF IInv, ReadsAgree
<1>8. NativeAgrees' /\ NativeLaidOut'
  BY DEF IInv, NativeAgrees, NativeLaidOut, Native, Contiguous, End
<1>9. LengthsLoop' /\ ItemsLoop'
  BY DEF Idle, LengthsLoop, ItemsLoop
<1> QED  BY <1>4, <1>5, <1>7, <1>8, <1>9 DEF IInv

(* The first loop starts with no row passed.                               *)
LEMMA FlushKeeps ==
  ASSUME IInv, NEW by, Flush(by)
  PROVE  IInv'
<1> USE DEF native, copies, history, Flush
<1>1. Types'
  BY ListAssumption DEF IInv, Types, Loops
<1>2. ValidityAgrees' /\ ReadsAgree' /\ NativeAgrees' /\ NativeLaidOut'
  BY DEF IInv, ValidityAgrees, ReadsAgree, NativeAgrees, NativeLaidOut, Item,
         Native, Contiguous, End
<1>3. LengthsLoop'
  BY DEF LengthsLoop, Contiguous, Measured, End
<1>4. ItemsLoop'
  BY DEF ItemsLoop
<1> QED  BY <1>1, <1>2, <1>3, <1>4 DEF IInv

(* One iteration of the first loop: the row k gets the offset at which the *)
(* row before ends, and is read from the cache from now on.                *)
LEMMA FlushLengthKeeps ==
  ASSUME IInv, FlushLength, NEW k \in Rows, row = k
  PROVE  IInv'
<1> DEFINE moved == [entryData[k] EXCEPT !.offset = totalLength]
           read == itemCache[k] = Unread /\ valid[k]
           item == IF read THEN ItemVector(childData, moved) ELSE Item(k)
           entry == [offset |-> totalLength, length |-> Length(item)]
<1>1. Types /\ N \in Nat \ {0} /\ loop = "lengths" /\ k \in 1..N
  BY ListAssumption DEF IInv, FlushLength, Rows
<1>2. moved \in Entries
  BY <1>1 DEF Types, Entries
<1>3. read => item \in Lists /\ item # Null /\ item # Unread
  BY <1>1, <1>2, ItemVectorIsList, ListAssumption DEF Types
<1>4. ~read => item = Item(k) /\ item \in Values
  BY <1>1 DEF Item, Values, Types
<1>5. Length(item) \in 0..MaxLen
  BY <1>3, <1>4, ListsAreSequences, ListAssumption DEF Length, Values
<1>6. entry \in Entries
  BY <1>1, <1>5 DEF Entries, Types
<1>7. /\ entryData' = [entryData EXCEPT ![k] = entry]
      /\ itemCache' = [itemCache EXCEPT ![k] = IF read THEN item ELSE @]
      /\ totalLength' = totalLength + Length(item)
      /\ row' = k + 1
      /\ UNCHANGED <<native, childData, masked, valid, loop, want, staged>>
  BY DEF FlushLength
<1>8. /\ misread \subseteq misread'
      /\ read /\ entryData[k].offset # totalLength => k \in misread'
  BY DEF FlushLength
<1>9. \A j \in Rows :
         /\ entryData'[j] = IF j = k THEN entry ELSE entryData[j]
         /\ itemCache'[j] = IF j = k /\ read THEN item ELSE itemCache[j]
  BY <1>1, <1>7 DEF Types
<1>10. Types'
  <2>1. itemCache' \in [Rows -> Values \cup {Unread}]
    BY <1>1, <1>3, <1>7 DEF Types, Values
  <2>2. entryData' \in [Rows -> Entries]
    BY <1>1, <1>6, <1>7 DEF Types
  <2>3. row' \in 1 .. N + 1 /\ totalLength' \in Nat
    BY <1>1, <1>5, <1>7, ListAssumption DEF Types
  <2> QED  BY <1>1, <1>7, <2>1, <2>2, <2>3 DEF Types, native
<1>11. ValidityAgrees'
  BY <1>3, <1>7, <1>9 DEF IInv, ValidityAgrees, native
<1>12. Item(k)' = item /\ (itemCache'[k] = Unread => ~valid'[k])
  BY <1>3, <1>7, <1>9 DEF Item
<1>13. \A j \in Rows : j # k => Item(j)' = Item(j)
  BY <1>7, <1>9 DEF Item
<1>14. ReadsAgree'
  <2> SUFFICES ASSUME NEW j \in Rows, j \notin misread'
               PROVE  Item(j)' = want[j]
    BY <1>7 DEF ReadsAgree
  <2>1. Item(j) = want[j]
    BY <1>8 DEF IInv, ReadsAgree
  <2>2. CASE j # k
    BY <2>1, <2>2, <1>13
  <2>3. CASE j = k
    <3>1. read => entryData[k].offset = totalLength
      BY <2>3, <1>8
    <3>2. read => moved = entryData[k]
      BY <3>1, <1>1 DEF Types, Entries
    <3>3. item = Item(k)
      BY <3>2 DEF Item
    <3> QED  BY <2>1, <2>3, <3>3, <1>12
  <2> QED  BY <2>2, <2>3
<1>15. NativeAgrees' /\ NativeLaidOut'
  BY <1>7, <1>8 DEF IInv, NativeAgrees, NativeLaidOut, Native, Contiguous, End, native
<1>16. LengthsLoop'
  <2>1. Contiguous(entryData, k - 1) /\ totalLength = End(entryData, k - 1) /\ Measured(k - 1)
    BY <1>1 DEF IInv, LengthsLoop
  <2>2. ASSUME NEW j \in 0 .. k - 1 PROVE End(entryData', j) = End(entryData, j)
    BY <1>1, <1>9 DEF End, Rows
  <2>3. entryData'[k].offset = End(entryData', k - 1)
    BY <2>1, <2>2, <1>1, <1>9
  <2>4. Contiguous(entryData', k)
    <3> SUFFICES ASSUME NEW j \in 1..k PROVE entryData'[j].offset = End(entryData', j - 1)
      BY DEF Contiguous
    <3>1. CASE j = k
      BY <3>1, <2>3
    <3>2. CASE j # k
      <4>1. j \in 1 .. k - 1 /\ j \in Rows /\ j - 1 \in 0 .. k - 1
        BY <3>2, <1>1 DEF Rows
      <4> QED  BY <4>1, <3>2, <2>1, <2>2, <1>9 DEF Contiguous
    <3> QED  BY <3>1, <3>2
  <2>5. totalLength' = End(entryData', k)
    BY <1>1, <1>7, <1>9 DEF End
  <2>6. Measured(k)'
    <3> SUFFICES ASSUME NEW j \in 1..k
                 PROVE  /\ itemCache'[j] = Unread => ~valid'[j]
                        /\ entryData'[j].length = Length(Item(j)')
      BY DEF Measured, Length
    <3>1. CASE j = k
      BY <3>1, <1>9, <1>12
    <3>2. CASE j # k
      <4>1. j \in 1 .. k - 1 /\ j \in Rows
        BY <3>2, <1>1 DEF Rows
      <4>2. (itemCache[j] = Unread => ~valid[j]) /\ entryData[j].length = Length(Item(j))
        BY <4>1, <2>1 DEF Measured
      <4> QED  BY <4>1, <4>2, <3>2, <1>7, <1>9, <1>13
    <3> QED  BY <3>1, <3>2
  <2>7. row' - 1 = k
    BY <1>1, <1>7
  <2> QED  BY <2>4, <2>5, <2>6, <2>7 DEF LengthsLoop, Measured, Item, Length, Contiguous, End
<1>17. ItemsLoop'
  BY <1>1, <1>7 DEF ItemsLoop
<1> QED  BY <1>10, <1>11, <1>14, <1>15, <1>16, <1>17 DEF IInv

(* The first loop has passed every row: the child can be emptied, because  *)
(* no list is read from it again.                                          *)
LEMMA SetSizeKeeps ==
  ASSUME IInv, SetSize
  PROVE  IInv'
<1>1. Types /\ N \in Nat \ {0} /\ loop = "lengths" /\ row = N + 1
  BY ListAssumption DEF IInv, SetSize
<1>2. /\ loop' = "items" /\ row' = 1 /\ childData' = <<>>
      /\ UNCHANGED <<native, entryData, masked, valid, itemCache, totalLength, history>>
  BY DEF SetSize
<1>3. Types'
  BY <1>1, <1>2, EmptySeq DEF Types, Loops, native, history
<1>4. Contiguous(entryData, N) /\ Measured(N)
  <2>1. row - 1 = N
    BY <1>1
  <2> QED  BY <2>1, <1>1 DEF IInv, LengthsLoop
<1>5. \A j \in Rows : Item(j)' = Item(j)
  BY <1>2, <1>4 DEF Item, Measured, Rows
<1>6. ValidityAgrees' /\ ReadsAgree' /\ NativeAgrees' /\ NativeLaidOut'
  BY <1>2, <1>5 DEF IInv, ValidityAgrees, ReadsAgree, NativeAgrees, NativeLaidOut,
                    Native, Contiguous, End, native, history
<1>7. LengthsLoop'
  BY <1>2 DEF LengthsLoop
<1>8. ItemsLoop'
  <2>1. row' - 1 = 0
    BY <1>2
  <2>2. Contiguous(entryData, N)'
    BY <1>2, <1>4 DEF Contiguous, End
  <2>3. Measured(N)'
    <3> SUFFICES ASSUME NEW j \in 1..N
                 PROVE  /\ itemCache'[j] = Unread => ~valid'[j]
                        /\ entryData'[j].length = Length(Item(j)')
      BY DEF Measured, Length
    <3> QED  BY <1>2, <1>4, <1>5 DEF Measured, Rows
  <2>4. Len(childData') = End(entryData', row' - 1)
    BY <1>2, <2>1, EmptySeq DEF End
  <2>5. Filled(row - 1)'
    BY <2>1 DEF Filled
  <2> QED  BY <2>2, <2>3, <2>4, <2>5 DEF ItemsLoop, End
<1> QED  BY <1>3, <1>6, <1>7, <1>8 DEF IInv

(* One iteration of the second loop: the items of row k are written where  *)
(* its entry says.                                                         *)
LEMMA FlushItemsKeeps ==
  ASSUME IInv, FlushItems, NEW k \in Rows, row = k
  PROVE  IInv'
<1> DEFINE more == IF Item(k) = Null THEN <<>> ELSE Item(k)
<1>1. Types /\ N \in Nat \ {0} /\ loop = "items" /\ k \in 1..N
  BY ListAssumption DEF IInv, FlushItems, Rows
<1>2. /\ Contiguous(entryData, N) /\ Measured(N)
      /\ Len(childData) = End(entryData, k - 1) /\ Filled(k - 1)
  BY <1>1 DEF IInv, ItemsLoop
<1>3. more \in Seq(Items) /\ Len(more) = Length(Item(k)) /\ Len(more) \in Nat
  <2>1. CASE Item(k) = Null
    BY <2>1, EmptySeq DEF Length
  <2>2. CASE Item(k) # Null
    <3>1. Item(k) \in Lists
      BY <2>2, <1>1, <1>2 DEF Item, Values, Types, Measured
    <3> QED  BY <3>1, <2>2, ListsAreSequences, ListAssumption DEF Length
  <2> QED  BY <2>1, <2>2
<1>4. /\ childData' = childData \o more
      /\ row' = k + 1
      /\ UNCHANGED <<native, entryData, masked, valid, itemCache, loop, totalLength, history>>
  <2>1. childData' = childData \o more
    BY <1>1, ConcatEmptySeq DEF FlushItems, Types
  <2> QED  BY <2>1 DEF FlushItems
<1>5. childData' \in Seq(Items) /\ Len(childData') = Len(childData) + Len(more)
  BY <1>1, <1>3, <1>4, ConcatProperties DEF Types
<1>6. Types'
  BY <1>1, <1>4, <1>5 DEF Types, native, history
<1>7. \A j \in Rows : Item(j)' = Item(j)
  BY <1>2, <1>4 DEF Item, Measured, Rows
<1>8. ValidityAgrees' /\ ReadsAgree' /\ NativeAgrees' /\ NativeLaidOut'
  BY <1>4, <1>7 DEF IInv, ValidityAgrees, ReadsAgree, NativeAgrees, NativeLaidOut,
                    Native, Contiguous, End, native, history
<1>9. entryData[k] \in Entries /\ entryData[k].offset = Len(childData)
      /\ entryData[k].length = Len(more)
  BY <1>1, <1>2, <1>3 DEF Types, Contiguous, Measured
<1>10. End(entryData, k) = Len(childData')
  BY <1>1, <1>5, <1>9 DEF End
<1>11. ItemsLoop'
  <2>1. row' - 1 = k
    BY <1>1, <1>4
  <2>2. Contiguous(entryData, N)'
    BY <1>2, <1>4 DEF Contiguous, End
  <2>3. Measured(N)'
    <3> SUFFICES ASSUME NEW j \in 1..N
                 PROVE  /\ itemCache'[j] = Unread => ~valid'[j]
                        /\ entryData'[j].length = Length(Item(j)')
      BY DEF Measured, Length
    <3> QED  BY <1>2, <1>4, <1>7 DEF Measured, Rows
  <2>4. Len(childData') = End(entryData', k)
    BY <1>4, <1>10
  <2>5. Filled(k)'
    <3> SUFFICES ASSUME NEW j \in 1..k
                 PROVE  /\ End(entryData, j) <= Len(childData')
                        /\ Item(j) # Null => ItemVector(childData', entryData[j]) = Item(j)
      <4>1. \A j \in 1..k : Item(j)' = Item(j)
        BY <1>1, <1>7 DEF Rows
      <4> QED  BY <4>1, <1>4 DEF Filled, End, ItemVector
    <3>1. CASE j = k
      <4>1. End(entryData, j) <= Len(childData')
        BY <3>1, <1>5, <1>6, <1>10, LenProperties
      <4>2. ItemVector(childData', entryData[j]) = more
        BY <3>1, <1>1, <1>3, <1>4, <1>9, AppendReads DEF Types
      <4> QED  BY <3>1, <4>1, <4>2
    <3>2. CASE j # k
      <4>1. j \in 1 .. k - 1 /\ j \in 1..N /\ entryData[j] \in Entries
        BY <3>2, <1>1 DEF Types, Rows
      <4>2. /\ End(entryData, j) <= Len(childData)
            /\ Item(j) # Null => ItemVector(childData, entryData[j]) = Item(j)
        BY <4>1, <1>2 DEF Filled
      <4>3. entryData[j].offset + entryData[j].length = End(entryData, j)
        BY <4>1 DEF End
      <4>4. ItemVector(childData', entryData[j]) = ItemVector(childData, entryData[j])
        BY <4>1, <4>2, <4>3, <1>1, <1>3, <1>4, AppendKeeps DEF Types
      <4>5. End(entryData, j) \in Nat /\ Len(childData) \in Nat
        BY <4>1, <4>3, <1>1, LenProperties, ListAssumption DEF Entries, Types
      <4> QED  BY <4>2, <4>4, <4>5, <1>3, <1>5
    <3> QED  BY <3>1, <3>2
  <2> QED  BY <2>1, <2>2, <2>3, <2>4, <2>5 DEF ItemsLoop, End, Filled, Item
<1>12. LengthsLoop'
  BY <1>1, <1>4 DEF LengthsLoop
<1> QED  BY <1>6, <1>8, <1>11, <1>12 DEF IInv

(* What is pushed is what the two loops have made.                         *)
LEMMA PushKeeps ==
  ASSUME IInv, Push
  PROVE  IInv'
<1>1. Types /\ N \in Nat \ {0} /\ loop = "items" /\ row = N + 1
  BY ListAssumption DEF IInv, Push
<1>2. Contiguous(entryData, N) /\ Measured(N) /\ Len(childData) = End(entryData, N) /\ Filled(N)
  <2>1. row - 1 = N
    BY <1>1
  <2> QED  BY <2>1, <1>1 DEF IInv, ItemsLoop
<1>3. /\ nativeChild' = childData /\ nativeEntry' = entryData
      /\ nativeValid' = IF masked THEN valid ELSE nativeValid
      /\ loop' = "idle" /\ row' = 1 /\ totalLength' = 0
      /\ UNCHANGED <<copies, want, misread>>
  BY DEF Push
<1>4. \A j \in Rows : nativeValid'[j] = valid[j]
  BY <1>1, <1>3 DEF IInv, ValidityAgrees, Types
<1>5. Types'
  BY <1>1, <1>3 DEF Types, Loops, copies
<1>6. ValidityAgrees' /\ ReadsAgree'
  BY <1>3, <1>4 DEF IInv, ValidityAgrees, ReadsAgree, Item, copies
<1>7. ASSUME NEW j \in Rows PROVE Native(j)' = Item(j)
  <2>1. Native(j)' = IF valid[j] THEN ItemVector(childData, entryData[j]) ELSE Null
    BY <1>3, <1>4 DEF Native
  <2>2. CASE ~valid[j]
    <3>1. itemCache[j] = Unread \/ itemCache[j] = Null
      BY <2>2, <1>1 DEF IInv, ValidityAgrees, Types, Values
    <3> QED  BY <2>1, <2>2, <3>1 DEF Item
  <2>3. CASE valid[j]
    <3>1. Item(j) # Null
      BY <2>3, <1>2 DEF IInv, ValidityAgrees, Item, Measured, Rows
    <3> QED  BY <2>1, <2>3, <3>1, <1>2 DEF Filled, Rows
  <2> QED  BY <2>2, <2>3
<1>8. NativeAgrees'
  BY <1>3, <1>7 DEF IInv, ReadsAgree, NativeAgrees
<1>9. NativeLaidOut'
  BY <1>2, <1>3 DEF NativeLaidOut, Contiguous, End
<1>10. LengthsLoop' /\ ItemsLoop'
  BY <1>3 DEF LengthsLoop, ItemsLoop
<1> QED  BY <1>5, <1>6, <1>8, <1>9, <1>10 DEF IInv

LEMMA UnchangedKeeps ==
  ASSUME IInv, UNCHANGED <<native, copies, flush, history>>
  PROVE  IInv'
<1> USE DEF native, copies, flush, history
<1>1. Types' /\ ValidityAgrees' /\ ReadsAgree' /\ NativeAgrees' /\ NativeLaidOut'
  BY DEF IInv, Types, ValidityAgrees, ReadsAgree, NativeAgrees, NativeLaidOut,
         Item, Native, Contiguous, End
<1>2. LengthsLoop'
  BY DEF IInv, LengthsLoop, Contiguous, Measured, Item, End
<1>3. ItemsLoop'
  BY DEF IInv, ItemsLoop, Contiguous, Measured, Filled, Item, End
<1> QED  BY <1>1, <1>2, <1>3 DEF IInv

LEMMA NextKeeps == IInv /\ [Next]_vars => IInv'
<1> SUFFICES ASSUME IInv, [Next]_vars PROVE IInv'
  OBVIOUS
<1>1. ASSUME NEW i \in Rows, GetItem(i) PROVE IInv'
  BY <1>1, GetItemKeeps
<1>2. ASSUME NEW i \in Rows, NEW v \in Values, SetItem(i, v) PROVE IInv'
  <2>1. Idle /\ Stage(i, v) /\ Want(i, v) /\ UNCHANGED <<native, entryData, childData, flush>>
    BY <1>2 DEF SetItem
  <2> QED  BY <2>1, StageKeeps
<1>3. ASSUME NEW s \in Slices, NEW offset, NEW count, Slice(s, offset, count) PROVE IInv'
  <2>1. UNCHANGED <<native, copies, flush, history>>
    BY <1>3 DEF Slice
  <2> QED  BY <2>1, UnchangedKeeps
<1>4. ASSUME NEW s \in Slices, NEW i \in Rows, GetSliceItem(s, i) PROVE IInv'
  <2>1. UNCHANGED <<native, copies, flush, history>>
    BY <1>4 DEF GetSliceItem
  <2> QED  BY <2>1, UnchangedKeeps
<1>5. ASSUME NEW s \in Slices, NEW i \in Rows, NEW v \in Values, SetSliceItem(s, i, v)
      PROVE  IInv'
  <2>1. /\ Idle
        /\ Stage(slices[s].offset + i, v) /\ Want(slices[s].offset + i, v)
        /\ UNCHANGED <<native, entryData, childData, flush>>
    BY <1>5 DEF SetSliceItem
  <2> QED  BY <2>1, StageKeeps
<1>6. ASSUME NEW by, Flush(by) PROVE IInv'
  BY <1>6, FlushKeeps
<1>7. ASSUME FlushLength PROVE IInv'
  <2>1. row \in Rows
    BY <1>7 DEF FlushLength
  <2> QED  BY <2>1, <1>7, FlushLengthKeeps
<1>8. ASSUME SetSize PROVE IInv'
  BY <1>8, SetSizeKeeps
<1>9. ASSUME FlushItems PROVE IInv'
  <2>1. row \in Rows
    BY <1>9 DEF FlushItems
  <2> QED  BY <2>1, <1>9, FlushItemsKeeps
<1>10. ASSUME Push PROVE IInv'
  BY <1>10, PushKeeps
<1>11. CASE UNCHANGED vars
  BY <1>11, UnchangedKeeps DEF vars
<1> QED
  BY <1>1, <1>2, <1>3, <1>4, <1>5, <1>6, <1>7, <1>8, <1>9, <1>10, <1>11 DEF Next

LEMMA AlwaysIInv == Spec => []IInv
<1>1. Init => IInv
  BY InitIInv
<1>2. IInv /\ [Next]_vars => IInv'
  BY NextKeeps
<1> QED  BY <1>1, <1>2, PTL DEF Spec

-----------------------------------------------------------------------------
(* The slices.  They follow from what IInv says of the vector they are cut *)
(* from.                                                                   *)
WellFormed(r) ==
  /\ r \in SliceRecords
  /\ r.offset + r.count \in Rows
  /\ Len(r.entry) = r.count
  /\ Len(r.cache) = r.count

SliceTypes ==
  /\ slices \in [Slices -> SliceRecords \cup {Null}]
  /\ \A s \in Made : WellFormed(slices[s])
  /\ flusher \in Made \cup {Null}
  /\ staged \subseteq Rows
  /\ misread \subseteq Rows
  /\ overrun \in BOOLEAN

(* Between flushes the copies are those of the native vector, but for the  *)
(* validity of rows set since.                                             *)
CopiesAgree ==
  /\ loop = "idle" => childData = nativeChild /\ entryData = nativeEntry
  /\ \A i \in Rows \ staged : valid[i] = nativeValid[i]

(* What a slice shows of a row that is not in its cache.                   *)
Uncached(s, i) ==
  IF SliceValid(s, i) THEN ItemVector(slices[s].child, slices[s].entry[i]) ELSE Null

(* A slice shows what is wanted, or has an excuse; emptying its cache may  *)
(* only matter for rows it has set itself.                                 *)
Shows(s, i) ==
  LET r == slices[s].offset + i
  IN  /\ r \in slices[s].outdated \/ Uncached(s, i) = want[r]
      /\ r \in slices[s].outdated \ slices[s].wrote \/ SliceItem(s, i) = want[r]

AllShow == \A s \in Made : \A i \in SliceRows(s) : Shows(s, i)

SliceInv == SliceTypes /\ CopiesAgree /\ AllShow

LEMMA InitSliceInv == Init => SliceInv
<1> SUFFICES ASSUME Init PROVE SliceInv
  OBVIOUS
<1>1. Made = {}
  BY DEF Init, Made
<1>2. SliceTypes
  BY <1>1 DEF Init, SliceTypes
<1>3. CopiesAgree
  BY DEF Init, CopiesAgree
<1>4. AllShow
  BY <1>1 DEF AllShow
<1> QED  BY <1>2, <1>3, <1>4 DEF SliceInv

(* The rows of a slice are rows of the vector.                             *)
LEMMA SliceRowsAreRows ==
  ASSUME SliceTypes, NEW s \in Made, NEW i \in SliceRows(s)
  PROVE  slices[s].offset + i \in Rows
<1>1. slices[s].offset \in Nat /\ slices[s].count \in Nat /\ slices[s].offset + slices[s].count \in Rows
  BY DEF SliceTypes, WellFormed, SliceRecords
<1> QED  BY <1>1, ListAssumption DEF SliceRows, Rows

(* A row marked as outdated changes nothing else of a slice.               *)
Outdated(r, i) == [r EXCEPT !.outdated = @ \cup {i}, !.wrote = @ \ {i}]

LEMMA OutdatedRecord ==
  ASSUME NEW r, WellFormed(r), NEW i \in Rows
  PROVE  /\ WellFormed(Outdated(r, i))
         /\ Outdated(r, i).offset = r.offset /\ Outdated(r, i).count = r.count
         /\ Outdated(r, i).entry = r.entry /\ Outdated(r, i).child = r.child
         /\ Outdated(r, i).masked = r.masked /\ Outdated(r, i).cache = r.cache
         /\ Outdated(r, i).outdated = r.outdated \cup {i}
         /\ Outdated(r, i).wrote = r.wrote \ {i}
<1> DEFINE q == Outdated(r, i)
<1>1. /\ q.offset = r.offset /\ q.count = r.count /\ q.entry = r.entry
      /\ q.child = r.child /\ q.masked = r.masked /\ q.cache = r.cache
      /\ q.outdated = r.outdated \cup {i} /\ q.wrote = r.wrote \ {i}
  BY DEF WellFormed, SliceRecords, Outdated
<1>2. q \in SliceRecords
  BY DEF WellFormed, SliceRecords, Outdated
<1> QED  BY <1>1, <1>2 DEF WellFormed

MadeIn(all) == {s \in Slices : all[s] # Null}

LEMMA OutdateTypes ==
  ASSUME SliceTypes, NEW i \in Rows, NEW through, NEW all, all = Outdate(i, through)
  PROVE  /\ all \in [Slices -> SliceRecords \cup {Null}]
         /\ MadeIn(all) = Made
         /\ \A s \in Made : WellFormed(all[s])
<1>1. \A s \in Slices : s \notin Made \/ s = through => all[s] = slices[s]
  BY DEF Outdate
<1>2. ASSUME NEW s \in Made, s # through
      PROVE  all[s] = Outdated(slices[s], i)
  BY <1>2 DEF Outdate, Made, Outdated
<1>3. ASSUME NEW s \in Made PROVE WellFormed(all[s])
  <2>1. CASE s = through
    BY <2>1, <1>1 DEF SliceTypes, Made
  <2>2. CASE s # through
    BY <2>2, <1>2, OutdatedRecord DEF SliceTypes
  <2> QED  BY <2>1, <2>2
<1>4. \A s \in Slices \ Made : all[s] = Null
  BY <1>1 DEF Made
<1>5. \A s \in Made : all[s] \in SliceRecords /\ all[s] # Null
  BY <1>3, SliceAssumption DEF WellFormed
<1>6. Made \subseteq Slices
  BY DEF Made
<1>7. MadeIn(all) = Made
  BY <1>4, <1>5, <1>6 DEF MadeIn
<1>8. all \in [Slices -> SliceRecords \cup {Null}]
  <2>1. \A s \in Slices : all[s] \in SliceRecords \cup {Null}
    BY <1>4, <1>5
  <2>2. all = [s \in Slices |-> all[s]]
    BY DEF Outdate
  <2> QED  BY <2>1, <2>2
<1> QED  BY <1>3, <1>7, <1>8

LEMMA OutdatedTypes ==
  ASSUME SliceTypes, NEW i \in Rows, slices' = Outdate(i, Null)
  PROVE  /\ slices' \in [Slices -> SliceRecords \cup {Null}]
         /\ Made' = Made
         /\ \A s \in Made : WellFormed(slices'[s])
<1>1. /\ slices' \in [Slices -> SliceRecords \cup {Null}]
      /\ MadeIn(slices') = Made
      /\ \A s \in Made : WellFormed(slices'[s])
  BY OutdateTypes
<1>2. MadeIn(slices') = Made'
  BY DEF Made, MadeIn
<1> QED  BY <1>1, <1>2

(* A slice that is outdated in a row, and otherwise the same, still shows  *)
(* what it should if no other row has changed.                             *)
LEMMA OutdatedShows ==
  ASSUME SliceTypes, NEW i \in Rows, NEW s \in Made, WellFormed(slices[s]),
         slices'[s] = Outdated(slices[s], i),
         \A j \in Rows \ {i} : valid'[j] = valid[j] /\ want'[j] = want[j],
         NEW k \in SliceRows(s), Shows(s, k)
  PROVE  Shows(s, k)'
<1> DEFINE r == slices[s].offset + k
<1>1. r \in Rows
  BY SliceRowsAreRows
<1>2. /\ slices'[s].offset = slices[s].offset /\ slices'[s].entry = slices[s].entry
      /\ slices'[s].child = slices[s].child /\ slices'[s].masked = slices[s].masked
      /\ slices'[s].cache = slices[s].cache
      /\ slices'[s].outdated = slices[s].outdated \cup {i}
      /\ slices'[s].wrote = slices[s].wrote \ {i}
  BY OutdatedRecord
<1> HIDE DEF r
<1>3. CASE r = i
  BY <1>2, <1>3 DEF Shows, r
<1>4. CASE r # i
  <2>1. valid'[r] = valid[r] /\ want'[r] = want[r]
    BY <1>1, <1>4
  <2>2. SliceValid(s, k)' = SliceValid(s, k)
    BY <1>2, <2>1 DEF SliceValid, r
  <2>3. Uncached(s, k)' = Uncached(s, k) /\ SliceItem(s, k)' = SliceItem(s, k)
    BY <1>2, <2>2 DEF Uncached, SliceItem
  <2> QED  BY <1>2, <1>4, <2>1, <2>3 DEF Shows, r
<1> QED  BY <1>3, <1>4

(* The steps that leave the slices and what they look at alone.            *)
LEMMA SameSlices ==
  ASSUME SliceInv, UNCHANGED <<slices, valid, want>>
  PROVE  AllShow' /\ Made' = Made /\ \A s \in Made : WellFormed(slices'[s])
<1>1. Made' = Made
  BY DEF Made
<1>2. AllShow'
  <2> SUFFICES ASSUME NEW s \in Made, NEW k \in SliceRows(s) PROVE Shows(s, k)'
    BY <1>1 DEF AllShow, SliceRows
  <2>1. Shows(s, k)
    BY DEF SliceInv, AllShow
  <2> QED  BY <2>1 DEF Shows, Uncached, SliceItem, SliceValid
<1> QED  BY <1>1, <1>2 DEF SliceInv, SliceTypes

LEMMA SameSlicesKeep ==
  ASSUME SliceInv, CopiesAgree', UNCHANGED <<slices, valid, want, staged, misread, flusher>>,
         overrun' \in BOOLEAN
  PROVE  SliceInv'
<1>1. AllShow' /\ Made' = Made /\ \A s \in Made : WellFormed(slices'[s])
  BY SameSlices
<1>2. SliceTypes'
  BY <1>1 DEF SliceInv, SliceTypes
<1> QED  BY <1>1, <1>2 DEF SliceInv

LEMMA GetItemSlices ==
  ASSUME SliceInv, NEW i, GetItem(i) PROVE SliceInv'
<1>1. /\ UNCHANGED <<slices, valid, want, staged, misread, flusher, overrun>>
      /\ UNCHANGED <<nativeValid, nativeChild, nativeEntry, childData, entryData, loop>>
  BY DEF GetItem, native, flush, history
<1>2. CopiesAgree' /\ overrun' \in BOOLEAN
  BY <1>1 DEF SliceInv, CopiesAgree, SliceTypes
<1> QED  BY <1>1, <1>2, SameSlicesKeep

LEMMA FlushSlices ==
  ASSUME SliceInv, NEW by, Flush(by) PROVE SliceInv'
<1>1. /\ UNCHANGED <<slices, valid, want, staged, misread, overrun, nativeValid>>
      /\ loop' = "lengths" /\ flusher' = by /\ (by = Null \/ by \in Made)
  BY DEF Flush, native, copies, history
<1>2. CopiesAgree'
  BY <1>1 DEF SliceInv, CopiesAgree
<1>3. AllShow' /\ Made' = Made /\ \A s \in Made : WellFormed(slices'[s])
  BY <1>1, SameSlices
<1>4. SliceTypes'
  BY <1>1, <1>3 DEF SliceInv, SliceTypes
<1> QED  BY <1>2, <1>3, <1>4 DEF SliceInv

LEMMA SetSizeSlices ==
  ASSUME IInv, SliceInv, SetSize PROVE SliceInv'
<1>1. /\ UNCHANGED <<slices, valid, want, staged, misread, flusher, nativeValid>>
      /\ loop' = "items" /\ overrun' \in BOOLEAN
  BY DEF SetSize, native, history
<1>2. CopiesAgree'
  BY <1>1 DEF SliceInv, CopiesAgree
<1> QED  BY <1>1, <1>2, SameSlicesKeep

LEMMA FlushItemsSlices ==
  ASSUME SliceInv, FlushItems PROVE SliceInv'
<1>1. /\ UNCHANGED <<slices, valid, want, staged, misread, flusher, nativeValid, overrun>>
      /\ loop' = "items"
  BY DEF FlushItems, native, history
<1>2. CopiesAgree' /\ overrun' \in BOOLEAN
  BY <1>1 DEF SliceInv, CopiesAgree, SliceTypes
<1> QED  BY <1>1, <1>2, SameSlicesKeep

(* A row set through the vector is outdated in every slice.                *)
LEMMA SetItemSlices ==
  ASSUME IInv, SliceInv, NEW i \in Rows, NEW v \in Values, SetItem(i, v)
  PROVE  SliceInv'
<1>1. /\ slices' = Outdate(i, Null)
      /\ UNCHANGED <<nativeValid, nativeChild, nativeEntry, childData, entryData, loop,
                     flusher, overrun>>
      /\ staged' = staged \cup {i} /\ misread' = misread \ {i}
  BY DEF SetItem, Want, native, flush
<1>2. SliceTypes
  BY DEF SliceInv
<1>3. /\ slices' \in [Slices -> SliceRecords \cup {Null}]
      /\ Made' = Made /\ \A s \in Made : WellFormed(slices'[s])
  BY <1>1, <1>2, OutdatedTypes
<1>4. SliceTypes'
  BY <1>1, <1>2, <1>3 DEF SliceTypes
<1>5. \A j \in Rows \ {i} : valid'[j] = valid[j] /\ want'[j] = want[j]
  BY DEF SetItem, Stage, Want, IInv, Types
<1>6. CopiesAgree'
  BY <1>1, <1>5 DEF SliceInv, CopiesAgree
<1>7. AllShow'
  <2> SUFFICES ASSUME NEW s \in Made, NEW k \in SliceRows(s)' PROVE Shows(s, k)'
    BY <1>3 DEF AllShow
  <2>1. s # Null /\ slices'[s] = Outdated(slices[s], i)
    BY <1>1, ListAssumption DEF Outdate, Outdated, Made
  <2>2. WellFormed(slices[s])
    BY <1>2 DEF SliceTypes
  <2>3. k \in SliceRows(s)
    BY <2>1, <2>2, OutdatedRecord DEF SliceRows
  <2>4. Shows(s, k)
    BY <2>3 DEF SliceInv, AllShow
  <2> QED  BY <1>2, <1>5, <2>1, <2>2, <2>3, <2>4, OutdatedShows
<1> QED  BY <1>4, <1>6, <1>7 DEF SliceInv

(* A list read at a new offset is outdated in every slice, although no     *)
(* slice has changed.                                                      *)
LEMMA FlushLengthSlices ==
  ASSUME SliceInv, FlushLength PROVE SliceInv'
<1>1. /\ UNCHANGED <<nativeValid, valid, want, staged, flusher, overrun, loop>>
      /\ loop = "lengths" /\ row \in Rows
      /\ \/ misread' = misread \cup {row} /\ slices' = Outdate(row, Null)
         \/ UNCHANGED <<misread, slices>>
  BY DEF FlushLength, native
<1>2. SliceTypes
  BY DEF SliceInv
<1>3. CopiesAgree'
  BY <1>1 DEF SliceInv, CopiesAgree
<1>4. CASE UNCHANGED <<misread, slices>>
  <2>1. overrun' \in BOOLEAN
    BY <1>1, <1>2 DEF SliceTypes
  <2> QED  BY <1>1, <1>3, <1>4, <2>1, SameSlicesKeep
<1>5. CASE misread' = misread \cup {row} /\ slices' = Outdate(row, Null)
  <2>1. /\ slices' \in [Slices -> SliceRecords \cup {Null}]
        /\ Made' = Made /\ \A s \in Made : WellFormed(slices'[s])
    BY <1>1, <1>2, <1>5, OutdatedTypes
  <2>2. SliceTypes'
    BY <1>1, <1>2, <1>5, <2>1 DEF SliceTypes
  <2>3. AllShow'
    <3> SUFFICES ASSUME NEW s \in Made, NEW k \in SliceRows(s)' PROVE Shows(s, k)'
      BY <2>1 DEF AllShow
    <3>1. s # Null /\ slices'[s] = Outdated(slices[s], row)
      BY <1>5, ListAssumption DEF Outdate, Outdated, Made
    <3>2. WellFormed(slices[s])
      BY <1>2 DEF SliceTypes
    <3>3. k \in SliceRows(s)
      BY <1>1, <3>1, <3>2, OutdatedRecord DEF SliceRows
    <3>4. Shows(s, k)
      BY <3>3 DEF SliceInv, AllShow
    <3> QED  BY <1>1, <1>2, <3>1, <3>2, <3>3, <3>4, OutdatedShows
  <2> QED  BY <1>3, <2>2, <2>3 DEF SliceInv
<1> QED  BY <1>1, <1>4, <1>5

(* A new slice shows what the native vector holds, which is what is wanted *)
(* of every row that is neither staged nor misread.                        *)
LEMMA SliceSlices ==
  ASSUME IInv, SliceInv, NEW s \in Slices, NEW offset \in 0 .. N - 1, NEW count \in Rows,
         Slice(s, offset, count)
  PROVE  SliceInv'
<1> DEFINE q == [offset   |-> offset,
                 count    |-> count,
                 entry    |-> SubSeq(entryData, offset + 1, offset + count),
                 child    |-> childData,
                 masked   |-> masked,
                 cache    |-> [i \in 1..count |-> Unread],
                 outdated |-> staged \cup misread,
                 wrote    |-> {}]
<1>1. /\ slices' = [slices EXCEPT ![s] = q] /\ offset + count <= N /\ loop = "idle" /\ s \notin Made
      /\ UNCHANGED <<nativeEntry, nativeChild, nativeValid, entryData, childData, masked, valid,
                     loop, flusher, want, staged, misread, overrun>>
  BY DEF Slice, Idle, native, copies, flush, history
<1>2. Types /\ SliceTypes /\ N \in Nat \ {0} /\ count \in 1..N /\ offset \in Nat
  BY ListAssumption DEF IInv, SliceInv, Rows
<1>3. /\ q.entry \in Seq(Entries) /\ Len(q.entry) = count
      /\ \A k \in 1..count : q.entry[k] = entryData[offset + k]
  <2>1. entryData \in Seq(Entries) /\ Len(entryData) = N
    <3>1. entryData \in [1..N -> Entries]
      BY <1>2 DEF Types, Rows
    <3> QED  BY <3>1, <1>2, SeqDef, LenProperties
  <2> DEFINE m == offset + 1
             n == offset + count
  <2>2. m \in Int /\ n \in Int /\ m <= n /\ n - m + 1 = count
        /\ (\A k \in m..n : k \in 1..N) /\ (\A k \in 1..count : m + k - 1 = offset + k)
    BY <1>1, <1>2
  <2>3. \A k \in m..n : entryData[k] \in Entries
    BY <2>1, <2>2, <1>2 DEF Types, Rows
  <2>4. q.entry = SubSeq(entryData, m, n)
    OBVIOUS
  <2> HIDE DEF m, n, q
  <2>5. /\ SubSeq(entryData, m, n) \in Seq(Entries)
        /\ Len(SubSeq(entryData, m, n)) = IF m <= n THEN n - m + 1 ELSE 0
        /\ \A k \in 1 .. n - m + 1 : SubSeq(entryData, m, n)[k] = entryData[m + k - 1]
    BY <2>2, <2>3, SubSeqProperties
  <2> QED  BY <2>2, <2>4, <2>5
<1>4. q.cache \in Seq(Values \cup {Unread}) /\ Len(q.cache) = count
      /\ \A k \in 1..count : q.cache[k] = Unread
  <2>1. q.cache \in [1..count -> Values \cup {Unread}]
    OBVIOUS
  <2> QED  BY <2>1, <1>2, SeqDef, LenProperties
<1>5. /\ q.offset = offset /\ q.count = count /\ q.child = childData /\ q.masked = masked
      /\ q.outdated = staged \cup misread /\ q.wrote = {}
  OBVIOUS
<1>6. WellFormed(q)
  <2>1. childData \in Seq(Items) /\ masked \in BOOLEAN /\ q.outdated \in SUBSET Rows
    BY <1>2, <1>5 DEF Types, SliceTypes
  <2>2. q \in SliceRecords
    <3>1. /\ q.offset \in Nat /\ q.count \in Nat /\ q.child \in Seq(Items) /\ q.masked \in BOOLEAN
          /\ q.wrote \in SUBSET Rows
      BY <1>2, <1>5, <2>1
    <3> DEFINE cached == Seq(Values \cup {Unread})
    <3>2. q.cache \in cached
      BY <1>4
    <3>3. SliceRecords =
            [offset : Nat, count : Nat, entry : Seq(Entries), child : Seq(Items),
             masked : BOOLEAN, cache : cached, outdated : SUBSET Rows, wrote : SUBSET Rows]
      BY DEF SliceRecords
    <3> HIDE DEF cached
    <3>4. q = [offset |-> q.offset, count |-> q.count, entry |-> q.entry, child |-> q.child,
               masked |-> q.masked, cache |-> q.cache, outdated |-> q.outdated, wrote |-> q.wrote]
      OBVIOUS
    <3> HIDE DEF q
    <3> QED  BY <1>3, <2>1, <3>1, <3>2, <3>3, <3>4
  <2>3. offset + count \in Rows
    BY <1>1, <1>2 DEF Rows
  <2> QED  BY <1>3, <1>4, <1>5, <2>2, <2>3 DEF WellFormed
<1> HIDE DEF q
<1>7. q \in SliceRecords /\ q # Null
  BY <1>6, SliceAssumption DEF WellFormed
<1>8. slices' \in [Slices -> SliceRecords \cup {Null}] /\ slices'[s] = q
      /\ \A t \in Slices \ {s} : slices'[t] = slices[t]
  BY <1>1, <1>2, <1>7 DEF SliceTypes
<1>9. Made' = Made \cup {s}
  BY <1>7, <1>8 DEF Made
<1>10. SliceTypes'
  <2>1. \A t \in Made' : WellFormed(slices'[t])
    BY <1>1, <1>2, <1>6, <1>8, <1>9 DEF SliceTypes, Made
  <2> QED  BY <2>1, <1>1, <1>2, <1>8, <1>9 DEF SliceTypes
<1>11. CopiesAgree'
  BY <1>1 DEF SliceInv, CopiesAgree
<1>12. AllShow'
  <2>1. ASSUME NEW t \in Made, NEW k \in SliceRows(t)' PROVE Shows(t, k)'
    <3>1. slices'[t] = slices[t]
      BY <1>1, <1>8 DEF Made
    <3>2. Shows(t, k)
      BY <3>1 DEF SliceInv, AllShow, SliceRows
    <3> QED  BY <1>1, <3>1, <3>2 DEF Shows, Uncached, SliceItem, SliceValid
  <2>2. ASSUME NEW k \in SliceRows(s)' PROVE Shows(s, k)'
    <3> DEFINE r == offset + k
    <3>1. k \in 1..count
      BY <1>5, <1>8 DEF SliceRows
    <3>2. r \in Rows
      BY <1>1, <1>2, <3>1 DEF Rows
    <3>3. SliceItem(s, k)' = Uncached(s, k)'
      BY <1>4, <1>8, <3>1 DEF SliceItem, Uncached
    <3>4. ASSUME r \notin staged \cup misread PROVE Uncached(s, k)' = want[r]
      <4>1. Native(r) = want[r] /\ valid[r] = nativeValid[r]
        BY <3>2, <3>4 DEF IInv, NativeAgrees, SliceInv, CopiesAgree
      <4>2. childData = nativeChild /\ entryData = nativeEntry
        BY <1>1 DEF SliceInv, CopiesAgree
      <4>3. ~masked => valid[r]
        BY <3>2 DEF IInv, ValidityAgrees
      <4>4. SliceValid(s, k)' = nativeValid[r]
        <5>1. SliceValid(s, k)' = (masked => valid[r])
          BY <1>1, <1>5, <1>8 DEF SliceValid
        <5>2. valid[r] \in BOOLEAN /\ nativeValid[r] \in BOOLEAN /\ masked \in BOOLEAN
          BY <1>2, <3>2 DEF Types
        <5> QED  BY <4>1, <4>3, <5>1, <5>2
      <4>5. slices'[s].child = nativeChild /\ slices'[s].entry[k] = nativeEntry[r]
        BY <1>3, <1>5, <1>8, <3>1, <4>2
      <4> QED  BY <4>1, <4>4, <4>5 DEF Uncached, Native
    <3>5. want' = want /\ slices'[s].offset = offset
          /\ slices'[s].outdated = staged \cup misread /\ slices'[s].wrote = {}
      BY <1>1, <1>5, <1>8
    <3> HIDE DEF r
    <3>6. r \notin slices'[s].outdated => Uncached(s, k)' = want'[r]
      BY <3>4, <3>5
    <3>7. slices'[s].offset + k = r /\ slices'[s].outdated \ slices'[s].wrote = slices'[s].outdated
      BY <3>5 DEF r
    <3> QED  BY <3>3, <3>6, <3>7 DEF Shows
  <2> QED  BY <1>9, <2>1, <2>2 DEF AllShow
<1> QED  BY <1>10, <1>11, <1>12 DEF SliceInv

(* A slice with other entries in its cache, or other records of its rows.  *)
Recached(r, cache, outdated, wrote) ==
  [r EXCEPT !.cache = cache, !.outdated = outdated, !.wrote = wrote]

LEMMA RecachedRecord ==
  ASSUME NEW r, WellFormed(r), NEW cache \in Seq(Values \cup {Unread}), Len(cache) = r.count,
         NEW outdated \in SUBSET Rows, NEW wrote \in SUBSET Rows
  PROVE  LET q == Recached(r, cache, outdated, wrote)
         IN  /\ WellFormed(q)
             /\ q.offset = r.offset /\ q.count = r.count /\ q.entry = r.entry
             /\ q.child = r.child /\ q.masked = r.masked
             /\ q.cache = cache /\ q.outdated = outdated /\ q.wrote = wrote
<1> DEFINE q == Recached(r, cache, outdated, wrote)
           cached == Seq(Values \cup {Unread})
<1>0. cache \in cached
  OBVIOUS
<1>1. SliceRecords =
        [offset : Nat, count : Nat, entry : Seq(Entries), child : Seq(Items),
         masked : BOOLEAN, cache : cached, outdated : SUBSET Rows, wrote : SUBSET Rows]
  BY DEF SliceRecords
<1> HIDE DEF cached
<1>2. r \in SliceRecords
  BY DEF WellFormed
<1>3. /\ q.offset = r.offset /\ q.count = r.count /\ q.entry = r.entry
      /\ q.child = r.child /\ q.masked = r.masked
      /\ q.cache = cache /\ q.outdated = outdated /\ q.wrote = wrote
  BY <1>1, <1>2 DEF Recached
<1>4. q \in SliceRecords
  BY <1>0, <1>1, <1>2 DEF Recached
<1> QED  BY <1>3, <1>4 DEF WellFormed

(* Replacing the record of one slice.                                      *)
LEMMA ReplacedTypes ==
  ASSUME NEW old, old \in [Slices -> SliceRecords \cup {Null}], NEW s \in Slices, old[s] # Null,
         \A t \in Slices : old[t] # Null => WellFormed(old[t]),
         NEW q, WellFormed(q), slices' = [old EXCEPT ![s] = q]
  PROVE  /\ slices' \in [Slices -> SliceRecords \cup {Null}]
         /\ slices'[s] = q /\ \A t \in Slices \ {s} : slices'[t] = old[t]
         /\ Made' = MadeIn(old)
         /\ \A t \in Made' : WellFormed(slices'[t])
<1>1. q \in SliceRecords /\ q # Null
  BY SliceAssumption DEF WellFormed
<1>2. /\ slices' \in [Slices -> SliceRecords \cup {Null}]
      /\ slices'[s] = q /\ \A t \in Slices \ {s} : slices'[t] = old[t]
  BY <1>1
<1>3. Made' = MadeIn(old)
  BY <1>1, <1>2 DEF Made, MadeIn
<1>4. \A t \in Made' : WellFormed(slices'[t])
  BY <1>2, <1>3 DEF MadeIn
<1> QED  BY <1>2, <1>3, <1>4

(* Putting a list in a slice's cache.                                      *)
LEMMA CachePut ==
  ASSUME NEW r, WellFormed(r), NEW i \in 1 .. r.count, NEW v \in Values \cup {Unread}
  PROVE  LET cache == [r.cache EXCEPT ![i] = v]
         IN  /\ cache \in Seq(Values \cup {Unread}) /\ Len(cache) = r.count
             /\ \A k \in 1 .. r.count : cache[k] = IF k = i THEN v ELSE r.cache[k]
<1> DEFINE V == Values \cup {Unread}
<1>1. r.cache \in Seq(V) /\ Len(r.cache) = r.count /\ r.count \in Nat
  BY DEF WellFormed, SliceRecords
<1>2. v \in V
  OBVIOUS
<1> HIDE DEF V
<1>3. /\ [r.cache EXCEPT ![i] = v] \in Seq(V) /\ Len([r.cache EXCEPT ![i] = v]) = r.count
      /\ \A k \in 1 .. r.count : [r.cache EXCEPT ![i] = v][k] = IF k = i THEN v ELSE r.cache[k]
  BY <1>1, <1>2, ExceptSeq
<1> QED  BY <1>3 DEF V

(* getItem of a slice caches what the slice shows anyway.                  *)
LEMMA GetSliceItemSlices ==
  ASSUME IInv, SliceInv, NEW s, NEW i, GetSliceItem(s, i)
  PROVE  SliceInv'
<1> DEFINE r == slices[s]
           v == SliceItem(s, i)
           cache == [r.cache EXCEPT ![i] = v]
           q == Recached(r, cache, r.outdated, r.wrote)
<1>1. /\ s \in Made /\ s \in Slices /\ slices[s] # Null /\ i \in SliceRows(s)
      /\ slices[s].cache[i] = Unread /\ SliceValid(s, i)
      /\ slices' = [slices EXCEPT ![s].cache[i] = v]
      /\ UNCHANGED <<nativeEntry, nativeChild, nativeValid, entryData, childData, valid,
                     loop, flusher, want, staged, misread, overrun>>
  BY DEF GetSliceItem, Made, native, copies, flush, history
<1>2. SliceTypes /\ WellFormed(r) /\ i \in 1 .. r.count
  BY <1>1 DEF SliceInv, SliceTypes, SliceRows
<1>3. v = ItemVector(r.child, r.entry[i])
  BY <1>1 DEF SliceItem
<1>4. v \in Lists
  <2>1. r.entry \in Seq(Entries) /\ r.child \in Seq(Items) /\ Len(r.entry) = r.count
    BY <1>2 DEF WellFormed, SliceRecords
  <2>2. r.entry[i] \in Entries
    BY <1>2, <2>1, ElementOfSeq
  <2> QED  BY <1>3, <2>1, <2>2, ItemVectorIsList
<1>5. v \in Values \cup {Unread} /\ v # Unread
  BY <1>4, ListAssumption DEF Values
<1> HIDE DEF v
<1>6. /\ cache \in Seq(Values \cup {Unread}) /\ Len(cache) = r.count
      /\ \A k \in 1 .. r.count : cache[k] = IF k = i THEN v ELSE r.cache[k]
  BY <1>2, <1>5, CachePut
<1>7. r.outdated \in SUBSET Rows /\ r.wrote \in SUBSET Rows
  BY <1>2 DEF WellFormed, SliceRecords
<1> HIDE DEF cache
<1>8. /\ WellFormed(q)
      /\ q.offset = r.offset /\ q.count = r.count /\ q.entry = r.entry
      /\ q.child = r.child /\ q.masked = r.masked
      /\ q.cache = cache /\ q.outdated = r.outdated /\ q.wrote = r.wrote
  BY <1>2, <1>6, <1>7, RecachedRecord
<1>9. slices' = [slices EXCEPT ![s] = q]
  <2>1. [slices[s] EXCEPT !.cache[i] = v] = q
    BY <1>2 DEF Recached, cache, WellFormed, SliceRecords
  <2> QED  BY <1>1, <1>2, <2>1 DEF SliceTypes
<1>10. slices \in [Slices -> SliceRecords \cup {Null}] /\ \A t \in Slices : slices[t] # Null => WellFormed(slices[t])
  BY <1>2 DEF SliceTypes, Made
<1> HIDE DEF q, r
<1>11. /\ slices' \in [Slices -> SliceRecords \cup {Null}]
       /\ slices'[s] = q /\ \A t \in Slices \ {s} : slices'[t] = slices[t]
       /\ Made' = Made /\ \A t \in Made' : WellFormed(slices'[t])
  <2>1. MadeIn(slices) = Made
    BY DEF Made, MadeIn
  <2> QED  BY <1>1, <1>8, <1>9, <1>10, <2>1, ReplacedTypes
<1>12. SliceTypes'
  BY <1>1, <1>2, <1>11 DEF SliceTypes
<1>13. CopiesAgree'
  BY <1>1 DEF SliceInv, CopiesAgree
<1>14. ASSUME NEW t \in Made, NEW k \in SliceRows(t)' PROVE Shows(t, k)'
  <2>1. CASE t # s
    <3>1. slices'[t] = slices[t]
      BY <1>11, <2>1 DEF Made
    <3>2. Shows(t, k)
      BY <3>1 DEF SliceInv, AllShow, SliceRows
    <3> QED  BY <1>1, <3>1, <3>2 DEF Shows, Uncached, SliceItem, SliceValid
  <2>2. CASE t = s
    <3>1. k \in SliceRows(s) /\ k \in 1 .. r.count
      BY <1>8, <1>11, <2>2 DEF SliceRows, r
    <3>2. Shows(s, k)
      BY <1>1, <3>1 DEF SliceInv, AllShow
    <3>3. Uncached(s, k)' = Uncached(s, k)
      BY <1>1, <1>8, <1>11 DEF Uncached, SliceValid, r
    <3>4. SliceItem(s, k)' = SliceItem(s, k)
      <4>1. slices'[s].cache[k] = IF k = i THEN v ELSE slices[s].cache[k]
        BY <1>6, <1>8, <1>11, <3>1 DEF r
      <4>2. SliceValid(s, k)' = SliceValid(s, k)
            /\ slices'[s].child = slices[s].child /\ slices'[s].entry = slices[s].entry
        BY <1>1, <1>8, <1>11 DEF SliceValid, r
      <4>3. CASE k = i
        BY <1>5, <4>1, <4>3 DEF SliceItem, v
      <4>4. CASE k # i
        BY <4>1, <4>2, <4>4 DEF SliceItem
      <4> QED  BY <4>3, <4>4
    <3> QED  BY <1>1, <1>8, <1>11, <2>2, <3>2, <3>3, <3>4 DEF Shows, r
  <2> QED  BY <2>1, <2>2
<1>15. AllShow'
  BY <1>11, <1>14 DEF AllShow
<1> QED  BY <1>12, <1>13, <1>15 DEF SliceInv

(* A row set through a slice: the slice shows it, the others are outdated. *)
LEMMA SetSliceItemSlices ==
  ASSUME IInv, SliceInv, NEW s, NEW i, NEW v \in Values, SetSliceItem(s, i, v)
  PROVE  SliceInv'
<1> DEFINE r == slices[s]
           p == r.offset + i
           old == Outdate(p, s)
           cache == [r.cache EXCEPT ![i] = v]
           q == Recached(r, cache, r.outdated \cup {p}, r.wrote \cup {p})
<1>1. /\ s \in Made /\ s \in Slices /\ slices[s] # Null /\ i \in SliceRows(s)
      /\ slices' = [old EXCEPT ![s].cache[i] = v, ![s].outdated = @ \cup {p}, ![s].wrote = @ \cup {p}]
      /\ staged' = staged \cup {p} /\ misread' = misread \ {p}
      /\ Stage(p, v) /\ Want(p, v)
      /\ UNCHANGED <<nativeEntry, nativeChild, nativeValid, entryData, childData, loop,
                     flusher, overrun>>
  BY DEF SetSliceItem, Want, Made, native, flush
<1>2. SliceTypes /\ WellFormed(r) /\ i \in 1 .. r.count /\ v # Unread
  BY <1>1, ListAssumption DEF SliceInv, SliceTypes, SliceRows, Values
<1>3. p \in Rows
  BY <1>1, <1>2, SliceRowsAreRows
<1>4. /\ \A j \in Rows \ {p} : valid'[j] = valid[j] /\ want'[j] = want[j]
      /\ want'[p] = v
  BY <1>1, <1>3 DEF Stage, Want, IInv, Types
<1>5. /\ cache \in Seq(Values \cup {Unread}) /\ Len(cache) = r.count
      /\ \A k \in 1 .. r.count : cache[k] = IF k = i THEN v ELSE r.cache[k]
  BY <1>2, CachePut
<1>6. r.outdated \cup {p} \in SUBSET Rows /\ r.wrote \cup {p} \in SUBSET Rows
  BY <1>2, <1>3 DEF WellFormed, SliceRecords
<1>7. /\ old \in [Slices -> SliceRecords \cup {Null}]
      /\ MadeIn(old) = Made
      /\ \A t \in Made : WellFormed(old[t])
      /\ old[s] = r
      /\ \A t \in Made \ {s} : old[t] = Outdated(slices[t], p)
  <2>1. /\ old \in [Slices -> SliceRecords \cup {Null}]
        /\ MadeIn(old) = Made
        /\ \A t \in Made : WellFormed(old[t])
    <3> HIDE DEF p
    <3> QED  BY <1>2, <1>3, OutdateTypes
  <2>2. old[s] = r
    BY <1>1 DEF Outdate
  <2>3. \A t \in Made \ {s} : old[t] = Outdated(slices[t], p)
    BY DEF Outdate, Made, Outdated
  <2> QED  BY <2>1, <2>2, <2>3
<1> HIDE DEF old
<1>8. slices' = [old EXCEPT ![s] = q]
  <2>1. [old[s] EXCEPT !.cache[i] = v, !.outdated = @ \cup {p}, !.wrote = @ \cup {p}] = q
    BY <1>2, <1>7 DEF Recached, WellFormed, SliceRecords
  <2>2. slices' = [old EXCEPT ![s] =
          [old[s] EXCEPT !.cache[i] = v, !.outdated = @ \cup {p}, !.wrote = @ \cup {p}]]
    BY <1>1, <1>7
  <2> QED  BY <2>1, <2>2
<1> HIDE DEF cache
<1>9. /\ WellFormed(q)
      /\ q.offset = r.offset /\ q.count = r.count /\ q.entry = r.entry
      /\ q.child = r.child /\ q.masked = r.masked
      /\ q.cache = cache /\ q.outdated = r.outdated \cup {p} /\ q.wrote = r.wrote \cup {p}
  BY <1>2, <1>5, <1>6, RecachedRecord
<1> HIDE DEF q
<1>10. /\ slices' \in [Slices -> SliceRecords \cup {Null}]
       /\ slices'[s] = q /\ \A t \in Slices \ {s} : slices'[t] = old[t]
       /\ Made' = Made /\ \A t \in Made' : WellFormed(slices'[t])
  <2>1. old[s] # Null /\ \A t \in Slices : old[t] # Null => WellFormed(old[t])
    BY <1>1, <1>7 DEF MadeIn
  <2>2. old \in [Slices -> SliceRecords \cup {Null}] /\ s \in Slices /\ WellFormed(q)
    BY <1>1, <1>7, <1>9
  <2> HIDE DEF r, p
  <2>3. /\ slices' \in [Slices -> SliceRecords \cup {Null}]
        /\ slices'[s] = q /\ \A t \in Slices \ {s} : slices'[t] = old[t]
        /\ Made' = MadeIn(old) /\ \A t \in Made' : WellFormed(slices'[t])
    BY <1>8, <2>1, <2>2, ReplacedTypes
  <2> QED  BY <1>7, <2>3
<1>11. SliceTypes'
  BY <1>1, <1>2, <1>3, <1>10 DEF SliceTypes
<1>12. CopiesAgree'
  BY <1>1, <1>4 DEF SliceInv, CopiesAgree
<1>13. ASSUME NEW t \in Made, t # s, NEW k \in SliceRows(t)' PROVE Shows(t, k)'
  <2>1. slices'[t] = Outdated(slices[t], p)
    BY <1>7, <1>10, <1>13 DEF Made
  <2>2. WellFormed(slices[t])
    BY <1>2 DEF SliceTypes
  <2>3. k \in SliceRows(t)
    BY <1>3, <2>1, <2>2, OutdatedRecord DEF SliceRows
  <2>4. Shows(t, k)
    BY <2>3 DEF SliceInv, AllShow
  <2> HIDE DEF p
  <2> QED  BY <1>2, <1>3, <1>4, <2>1, <2>2, <2>3, <2>4, OutdatedShows
<1>14. ASSUME NEW k \in SliceRows(s)' PROVE Shows(s, k)'
  <2>1. k \in SliceRows(s) /\ k \in 1 .. r.count
    BY <1>9, <1>10 DEF SliceRows
  <2>2. slices'[s].cache[k] = IF k = i THEN v ELSE slices[s].cache[k]
    BY <1>5, <1>9, <1>10, <2>1
  <2>3. /\ slices'[s].offset = slices[s].offset /\ slices'[s].child = slices[s].child
        /\ slices'[s].entry = slices[s].entry /\ slices'[s].masked = slices[s].masked
        /\ slices'[s].outdated = slices[s].outdated \cup {p}
        /\ slices'[s].wrote = slices[s].wrote \cup {p}
    BY <1>9, <1>10
  <2>4. CASE k = i
    <3>1. SliceItem(s, k)' = v
      BY <1>2, <2>2, <2>4 DEF SliceItem
    <3>2. slices'[s].offset + k = p /\ p \in slices'[s].outdated
      BY <2>3, <2>4
    <3> QED  BY <1>4, <3>1, <3>2 DEF Shows
  <2>5. CASE k # i
    <3> DEFINE row_k == r.offset + k
    <3>1. row_k # p /\ row_k \in Rows
      <4>1. r.offset \in Nat /\ k \in Nat /\ i \in Nat
        BY <1>2, <2>1 DEF WellFormed, SliceRecords
      <4>2. row_k \in Rows
        BY <1>1, <1>2, <2>1, SliceRowsAreRows
      <4> QED  BY <2>5, <4>1, <4>2
    <3>2. valid'[row_k] = valid[row_k] /\ want'[row_k] = want[row_k]
      BY <1>4, <3>1
    <3>3. SliceValid(s, k)' = SliceValid(s, k)
      BY <2>3, <3>2 DEF SliceValid
    <3>4. Uncached(s, k)' = Uncached(s, k) /\ SliceItem(s, k)' = SliceItem(s, k)
      BY <2>2, <2>3, <2>5, <3>3 DEF Uncached, SliceItem
    <3>5. Shows(s, k)
      BY <1>1, <2>1 DEF SliceInv, AllShow
    <3>6. /\ row_k \in slices'[s].outdated <=> row_k \in slices[s].outdated
          /\ row_k \in slices'[s].wrote <=> row_k \in slices[s].wrote
      BY <2>3, <3>1
    <3>7. slices'[s].offset + k = row_k /\ slices[s].offset + k = row_k
      BY <2>3
    <3> HIDE DEF row_k, p, r
    <3> QED  BY <3>2, <3>4, <3>5, <3>6, <3>7 DEF Shows
  <2> QED  BY <2>4, <2>5
<1>15. AllShow'
  BY <1>10, <1>13, <1>14 DEF AllShow
<1> QED  BY <1>11, <1>12, <1>15 DEF SliceInv

(* After a flush through it a slice shows its copies again, which agree    *)
(* with the rows that were not set since they were made.                   *)
LEMMA PushSlices ==
  ASSUME IInv, SliceInv, Push
  PROVE  SliceInv'
<1>1. /\ nativeChild' = childData /\ nativeEntry' = entryData
      /\ nativeValid' = IF masked THEN valid ELSE nativeValid
      /\ slices' = [t \in Slices |->
                      IF t # flusher THEN slices[t]
                      ELSE [slices[t] EXCEPT
                              !.cache = [i \in SliceRows(t) |-> Unread],
                              !.wrote = {}]]
      /\ staged' = {} /\ flusher' = Null
      /\ UNCHANGED <<entryData, childData, masked, valid, want, misread, overrun>>
  BY DEF Push, copies
<1>2. SliceTypes /\ Types
  BY DEF SliceInv, IInv
<1>3. CopiesAgree'
  <2>1. \A j \in Rows : nativeValid'[j] = valid[j]
    BY <1>1, <1>2 DEF IInv, ValidityAgrees, Types
  <2> QED  BY <1>1, <2>1 DEF CopiesAgree
<1>4. CASE flusher = Null
  <2>1. slices' = slices
    BY <1>1, <1>2, <1>4, ListAssumption DEF SliceTypes
  <2>2. AllShow' /\ Made' = Made /\ \A t \in Made : WellFormed(slices'[t])
    BY <1>1, <2>1, SameSlices
  <2>3. SliceTypes'
    BY <1>1, <1>2, <2>1, <2>2 DEF SliceTypes
  <2> QED  BY <1>3, <2>2, <2>3 DEF SliceInv
<1>5. CASE flusher # Null
  <2> DEFINE s == flusher
             r == slices[s]
             cache == [i \in 1 .. r.count |-> Unread]
             q == Recached(r, cache, r.outdated, {})
  <2>1. s \in Made /\ s \in Slices /\ slices[s] # Null /\ WellFormed(r)
    BY <1>2, <1>5 DEF SliceTypes, Made
  <2>2. cache \in Seq(Values \cup {Unread}) /\ Len(cache) = r.count
    <3>1. r.count \in Nat
      BY <2>1 DEF WellFormed, SliceRecords
    <3>2. cache \in [1 .. r.count -> Values \cup {Unread}]
      OBVIOUS
    <3> QED  BY <3>1, <3>2, SeqDef, LenProperties
  <2>3. r.outdated \in SUBSET Rows
    BY <2>1 DEF WellFormed, SliceRecords
  <2>4. slices' = [slices EXCEPT ![s] = q]
    <3>1. [slices[s] EXCEPT !.cache = [i \in SliceRows(s) |-> Unread], !.wrote = {}] = q
      BY <2>1 DEF Recached, SliceRows, WellFormed, SliceRecords
    <3> QED  BY <1>1, <1>2, <2>1, <3>1 DEF SliceTypes
  <2> HIDE DEF cache
  <2>5. /\ WellFormed(q)
        /\ q.offset = r.offset /\ q.count = r.count /\ q.entry = r.entry
        /\ q.child = r.child /\ q.masked = r.masked
        /\ q.cache = cache /\ q.outdated = r.outdated /\ q.wrote = {}
    BY <2>1, <2>2, <2>3, RecachedRecord
  <2> HIDE DEF q
  <2>6. slices \in [Slices -> SliceRecords \cup {Null}]
        /\ \A t \in Slices : slices[t] # Null => WellFormed(slices[t])
    BY <1>2 DEF SliceTypes, Made
  <2>7. /\ slices' \in [Slices -> SliceRecords \cup {Null}]
        /\ slices'[s] = q /\ \A t \in Slices \ {s} : slices'[t] = slices[t]
        /\ Made' = Made /\ \A t \in Made' : WellFormed(slices'[t])
    <3>1. MadeIn(slices) = Made
      BY DEF Made, MadeIn
    <3> QED  BY <2>1, <2>4, <2>5, <2>6, <3>1, ReplacedTypes
  <2>8. SliceTypes'
    BY <1>1, <1>2, <2>7 DEF SliceTypes
  <2>9. ASSUME NEW t \in Made, NEW k \in SliceRows(t)' PROVE Shows(t, k)'
    <3>1. CASE t # s
      <4>1. slices'[t] = slices[t]
        BY <2>7, <3>1 DEF Made
      <4>2. Shows(t, k)
        BY <4>1 DEF SliceInv, AllShow, SliceRows
      <4> QED  BY <1>1, <4>1, <4>2 DEF Shows, Uncached, SliceItem, SliceValid
    <3>2. CASE t = s
      <4>1. k \in SliceRows(s) /\ k \in 1 .. r.count
        BY <2>5, <2>7, <3>2 DEF SliceRows
      <4>2. Shows(s, k)
        BY <2>1, <4>1 DEF SliceInv, AllShow
      <4>3. Uncached(t, k)' = Uncached(s, k)
        <5>1. /\ slices'[t].offset = slices[s].offset /\ slices'[t].entry = slices[s].entry
              /\ slices'[t].child = slices[s].child /\ slices'[t].masked = slices[s].masked
          BY <2>5, <2>7, <3>2
        <5> HIDE DEF s
        <5>2. SliceValid(t, k)' = SliceValid(s, k)
          BY <1>1, <5>1 DEF SliceValid
        <5> QED  BY <5>1, <5>2 DEF Uncached
      <4>4. SliceItem(t, k)' = Uncached(t, k)'
        BY <2>5, <2>7, <3>2, <4>1 DEF SliceItem, Uncached, cache
      <4>5. /\ slices'[t].offset = slices[s].offset /\ slices'[t].outdated = slices[s].outdated
            /\ slices'[t].wrote = {}
        BY <2>5, <2>7, <3>2
      <4> QED  BY <1>1, <4>2, <4>3, <4>4, <4>5 DEF Shows
    <3> QED  BY <3>1, <3>2
  <2>10. AllShow'
    BY <2>7, <2>9 DEF AllShow
  <2> QED  BY <1>3, <2>8, <2>10 DEF SliceInv
<1> QED  BY <1>4, <1>5

LEMMA UnchangedSlices ==
  ASSUME SliceInv, UNCHANGED vars
  PROVE  SliceInv'
<1>1. UNCHANGED <<slices, valid, want, staged, misread, flusher, overrun, nativeValid,
                  nativeChild, nativeEntry, childData, entryData, loop>>
  BY DEF vars, native, copies, flush, history
<1>2. CopiesAgree' /\ overrun' \in BOOLEAN
  BY <1>1 DEF SliceInv, CopiesAgree, SliceTypes
<1> QED  BY <1>1, <1>2, SameSlicesKeep

LEMMA NextSlices == IInv /\ SliceInv /\ [Next]_vars => SliceInv'
<1> SUFFICES ASSUME IInv, SliceInv, [Next]_vars PROVE SliceInv'
  OBVIOUS
<1>1. ASSUME NEW i \in Rows, GetItem(i) PROVE SliceInv'
  BY <1>1, GetItemSlices
<1>2. ASSUME NEW i \in Rows, NEW v \in Values, SetItem(i, v) PROVE SliceInv'
  BY <1>2, SetItemSlices
<1>3. ASSUME NEW s \in Slices, NEW offset \in 0 .. N - 1, NEW count \in Rows, Slice(s, offset, count)
      PROVE  SliceInv'
  BY <1>3, SliceSlices
<1>4. ASSUME NEW s \in Slices, NEW i \in Rows, GetSliceItem(s, i) PROVE SliceInv'
  BY <1>4, GetSliceItemSlices
<1>5. ASSUME NEW s \in Slices, NEW i \in Rows, NEW v \in Values, SetSliceItem(s, i, v)
      PROVE  SliceInv'
  BY <1>5, SetSliceItemSlices
<1>6. ASSUME NEW by, Flush(by) PROVE SliceInv'
  BY <1>6, FlushSlices
<1>7. CASE FlushLength
  BY <1>7, FlushLengthSlices
<1>8. CASE SetSize
  BY <1>8, SetSizeSlices
<1>9. CASE FlushItems
  BY <1>9, FlushItemsSlices
<1>10. CASE Push
  BY <1>10, PushSlices
<1>11. CASE UNCHANGED vars
  BY <1>11, UnchangedSlices
<1> QED
  BY <1>1, <1>2, <1>3, <1>4, <1>5, <1>6, <1>7, <1>8, <1>9, <1>10, <1>11 DEF Next

LEMMA AlwaysSliceInv == Spec => []SliceInv
<1>1. Init => SliceInv
  BY InitSliceInv
<1>2. IInv /\ SliceInv /\ [Next]_vars => SliceInv'
  BY NextSlices
<1> QED  BY <1>1, <1>2, AlwaysIInv, PTL DEF Spec

-----------------------------------------------------------------------------
(* After any sequence of reads, writes and flushes the entries of the      *)
(* native vector cover its child exactly: flush's two loops agree.         *)
THEOREM LaidOut == Spec => []WellLaidOut
<1>1. IInv => WellLaidOut
  BY DEF IInv, NativeLaidOut, WellLaidOut
<1> QED  BY <1>1, AlwaysIInv, PTL

(* A flush publishes every list as it was last set, but for those it reads *)
(* at an offset it has already replaced.                                   *)
THEOREM Published == Spec => []PublishedUnlessMisread
<1>1. IInv => PublishedUnlessMisread
  BY DEF IInv, NativeAgrees, PublishedUnlessMisread
<1> QED  BY <1>1, AlwaysIInv, PTL

(* getItem returns what was last set, with the same exception.             *)
THEOREM ReadsBack == Spec => []ReadsWhatWasSet
<1>1. IInv => ReadsWhatWasSet
  BY DEF IInv, ReadsAgree, ReadsWhatWasSet
<1> QED  BY <1>1, AlwaysIInv, PTL

(* A slice, however it was cut, shows the lists of its rows that have not  *)
(* been set since, and those it has set itself until it is flushed.        *)
THEOREM SlicesCorrect == Spec => []SlicesAreSnapshots
<1>1. SliceInv => SlicesAreSnapshots
  BY DEF SliceInv, AllShow, Shows, SlicesAreSnapshots
<1> QED  BY <1>1, AlwaysSliceInv, PTL

(* The variables keep their types.                                         *)
THEOREM TypeCorrect == Spec => []TypeOK
<1>1. IInv /\ SliceInv => TypeOK
  BY DEF IInv, Types, SliceInv, SliceTypes, WellFormed, TypeOK
<1> QED  BY <1>1, AlwaysIInv, AlwaysSliceInv, PTL
=============================================================================
