--------------------------- MODULE BulkWritesProofs ---------------------------
(***************************************************************************)
(* What marshal.ts splits it joins again, for a native word of any width.  *)
(* Rows mix only when a call threw, for any values, number of rows and     *)
(* flush size: the row DuckDB is building is in step with the row the      *)
(* program is writing, or holds a cell of a row during which a call threw; *)
(* and so do the bound parameters.  What was accepted is kept until an     *)
(* exception says otherwise, and what is stored reads back as it was       *)
(* written but for the losses that are named, type by type.                *)
(***************************************************************************)
EXTENDS BulkWrites, SequenceTheorems, WellFoundedInduction, TLAPS

(* Division and remainder by the number of values of a word.               *)
LEMMA WordDivision ==
  ASSUME NEW v \in Int
  PROVE  /\ Full \in Nat /\ Full > 0
         /\ v \div Full \in Int /\ v % Full \in UInt64
         /\ v = Full * (v \div Full) + (v % Full)
BY WordAssumption, SMT DEF Full, UInt64

(* asIntN leaves a number of the signed word as it is.                     *)
LEMMA SignedWordKept ==
  ASSUME NEW v \in Int64
  PROVE  AsIntN(v) = v
<1>1. v + Half \in 0 .. Full - 1 BY WordAssumption DEF Int64, Full
<1>2. (v + Half) % Full = v + Half BY <1>1, WordAssumption DEF Full
<1> QED BY <1>2, WordAssumption DEF AsIntN, Int64

LEMMA UnsignedWordKept ==
  ASSUME NEW v \in UInt64
  PROVE  AsUintN(v) = v
BY WordAssumption DEF AsUintN, UInt64, Full

(* Multiplying by a natural number keeps the order.                        *)
LEMMA TimesKeepsOrder ==
  ASSUME NEW n \in Nat, NEW a \in Int, NEW b \in Int, a <= b
  PROVE  n * a <= n * b
<1>1. n * (b - a) >= 0 BY SMT
<1>2. n * (b - a) = n * b - n * a BY SMT
<1> QED BY <1>1, <1>2

(* The upper word of a 128-bit number fits its word.                       *)
LEMMA SignedUpperFits ==
  ASSUME NEW v \in Int128
  PROVE  v \div Full \in Int64
<1> DEFINE q == v \div Full
           r == v % Full
<1>1. v \in Int /\ Full \in Nat /\ Half \in Nat /\ Half * Full \in Nat
  BY WordAssumption DEF Int128, Full
<1>2. q \in Int /\ r \in Int /\ 0 <= r /\ r < Full /\ v = Full * q + r
  BY <1>1, WordDivision DEF UInt64
<1>3. -(Half * Full) <= v /\ v < Half * Full
  BY <1>1 DEF Int128
<1>4. Full * (-Half) = -(Half * Full) /\ Full * Half = Half * Full
  BY <1>1
<1> HIDE DEF q, r
<1>5. -Half <= q
  <2> SUFFICES ASSUME q + 1 <= -Half PROVE FALSE
    BY <1>1, <1>2
  <2>1. Full * (q + 1) <= Full * (-Half)
    BY <1>1, <1>2, TimesKeepsOrder, q + 1 \in Int, -Half \in Int
  <2>2. Full * (q + 1) = Full * q + Full
    BY <1>1, <1>2
  <2>3. Full * q \in Int
    BY <1>1, <1>2
  <2> QED BY <2>1, <2>2, <2>3, <1>1, <1>2, <1>3, <1>4
<1>6. q < Half
  <2> SUFFICES ASSUME Half <= q PROVE FALSE
    BY <1>1, <1>2
  <2>1. Full * Half <= Full * q
    BY <1>1, <1>2, TimesKeepsOrder
  <2>2. Full * q \in Int
    BY <1>1, <1>2
  <2> QED BY <2>1, <2>2, <1>1, <1>2, <1>3, <1>4
<1> QED BY <1>1, <1>2, <1>5, <1>6 DEF Int64, q

LEMMA UnsignedUpperFits ==
  ASSUME NEW v \in UInt128
  PROVE  v \div Full \in UInt64
<1> DEFINE q == v \div Full
           r == v % Full
<1>1. v \in Int /\ Full \in Nat /\ Full * Full \in Nat
  BY WordAssumption DEF UInt128, Full
<1>2. q \in Int /\ r \in Int /\ 0 <= r /\ r < Full /\ v = Full * q + r
  BY <1>1, WordDivision DEF UInt64
<1>3. 0 <= v /\ v < Full * Full
  BY <1>1 DEF UInt128
<1> HIDE DEF q, r
<1>4. 0 <= q
  <2> SUFFICES ASSUME q + 1 <= 0 PROVE FALSE
    BY <1>1, <1>2
  <2>1. Full * (q + 1) <= Full * 0
    BY <1>1, <1>2, TimesKeepsOrder, q + 1 \in Int
  <2>2. Full * (q + 1) = Full * q + Full /\ Full * 0 = 0
    BY <1>1, <1>2
  <2>3. Full * q \in Int
    BY <1>1, <1>2
  <2> QED BY <2>1, <2>2, <2>3, <1>1, <1>2, <1>3
<1>5. q < Full
  <2> SUFFICES ASSUME Full <= q PROVE FALSE
    BY <1>1, <1>2
  <2>1. Full * Full <= Full * q
    BY <1>1, <1>2, TimesKeepsOrder
  <2>2. Full * q \in Int
    BY <1>1, <1>2
  <2> QED BY <2>1, <2>2, <1>1, <1>2, <1>3
<1> QED BY <1>1, <1>2, <1>4, <1>5 DEF UInt64, q

(* Stored as a raw word and read as a signed one, a signed word is itself. *)
LEMMA SignedWordStored ==
  ASSUME NEW u \in Int64
  PROVE  u % Full \in UInt64 /\ AsIntN(u % Full) = u
<1>1. Half \in Nat /\ Half > 0 /\ Full = 2 * Half /\ u \in Int /\ -Half <= u /\ u < Half
  BY WordAssumption DEF Full, Int64
<1>2. CASE u >= 0
  <2>1. u % Full = u BY <1>1, <1>2
  <2> QED BY <2>1, <1>1, <1>2, SignedWordKept DEF UInt64
<1>3. CASE u < 0
  <2>1. u % Full = u + Full BY <1>1, <1>3
  <2>2. (u + Full + Half) % Full = u + Half BY <1>1, <1>3
  <2> QED BY <2>1, <2>2, <1>1, <1>3 DEF AsIntN, UInt64
<1> QED BY <1>1, <1>2, <1>3

(* A HUGEINT or DECIMAL is split for the shim, stored, and read back by    *)
(* decode.ts or joined by marshal.ts: the number is the same.              *)
THEOREM HugeintsRoundTrip ==
  ASSUME NEW v \in Int128
  PROVE  /\ ReadHugeint(Words(SplitI128(v))) = v
         /\ JoinI128(SplitI128(v).lower, SplitI128(v).upper) = v
<1>1. v \in Int /\ Full \in Int
  BY WordAssumption DEF Int128, Full
<1>2. v \div Full \in Int64 /\ v = Full * (v \div Full) + (v % Full) /\ v % Full \in Int
  BY <1>1, SignedUpperFits, WordDivision DEF UInt64
<1>3. AsIntN(v \div Full) = v \div Full /\ AsIntN((v \div Full) % Full) = v \div Full
  BY <1>2, SignedWordKept, SignedWordStored
<1>4. v \div Full \in Int
  BY <1>2, WordAssumption DEF Int64
<1> DEFINE q == v \div Full
           r == v % Full
<1>5. q * Full + r = v
  <2>1. q \in Int /\ r \in Int /\ v = Full * q + r BY <1>2, <1>4
  <2> HIDE DEF q, r
  <2>2. q * Full = Full * q BY <1>1, <2>1
  <2> QED BY <1>1, <2>1, <2>2
<1> QED BY <1>3, <1>5 DEF ReadHugeint, Words, SplitI128, JoinI128, AsUintN

(* The same for UHUGEINT, read as unsigned words.                          *)
THEOREM UhugeintsRoundTrip ==
  ASSUME NEW v \in UInt128
  PROVE  /\ ReadUhugeint(Words(SplitU128(v))) = v
         /\ JoinU128(SplitU128(v).lower, SplitU128(v).upper) = v
<1>1. v \in Int /\ Full \in Int
  BY WordAssumption DEF UInt128, Full
<1>2. v \div Full \in UInt64 /\ v = Full * (v \div Full) + (v % Full) /\ v % Full \in Int
  BY <1>1, UnsignedUpperFits, WordDivision DEF UInt64
<1> DEFINE q == v \div Full
           r == v % Full
<1>3. q \in Int
  BY <1>2 DEF UInt64
<1>4. q % Full = q
  BY <1>2, UnsignedWordKept DEF AsUintN
<1>5. q * Full + r = v
  <2>1. r \in Int /\ v = Full * q + r BY <1>2
  <2> HIDE DEF q, r
  <2>2. q * Full = Full * q BY <1>1, <1>3
  <2> QED BY <1>1, <1>3, <2>1, <2>2
<1> QED BY <1>4, <1>5 DEF ReadUhugeint, Words, SplitU128, JoinU128, AsUintN

(* Flipping the sign bit twice is the word that was there.                 *)
LEMMA FlipTwice ==
  ASSUME NEW w \in UInt64
  PROVE  FlipSign(w) \in UInt64 /\ FlipSign(FlipSign(w)) = w
<1>1. Half \in Nat /\ Half > 0 /\ Full = 2 * Half /\ w \in Int /\ 0 <= w /\ w < Full
  BY WordAssumption DEF Full, UInt64
<1>2. CASE w < Half
  <2>1. (w + Half) % Full = w + Half BY <1>1, <1>2
  <2>2. (w + Half + Half) % Full = w BY <1>1, <1>2
  <2> QED BY <2>1, <2>2, <1>1, <1>2 DEF FlipSign, UInt64
<1>3. CASE w >= Half
  <2>1. (w + Half) % Full = w - Half BY <1>1, <1>3
  <2>2. (w - Half + Half) % Full = w BY <1>1, <1>3
  <2> QED BY <2>1, <2>2, <1>1, <1>3 DEF FlipSign, UInt64
<1> QED BY <1>1, <1>2, <1>3

(* Read as a signed word and cut back to its width, a word is itself.      *)
LEMMA WordReadSigned ==
  ASSUME NEW w \in UInt64
  PROVE  AsUintN(AsIntN(w)) = w
<1>1. Half \in Nat /\ Half > 0 /\ Full = 2 * Half /\ w \in Int /\ 0 <= w /\ w < Full
  BY WordAssumption DEF Full, UInt64
<1>2. CASE w < Half
  <2>1. (w + Half) % Full = w + Half BY <1>1, <1>2
  <2>2. w % Full = w BY <1>1
  <2> QED BY <2>1, <2>2, <1>1 DEF AsUintN, AsIntN
<1>3. CASE w >= Half
  <2>1. (w + Half) % Full = w - Half BY <1>1, <1>3
  <2>2. (w - Half - Half) % Full = w BY <1>1, <1>3
  <2>3. w - Half - Half = w - Full BY <1>1
  <2> QED BY <2>1, <2>2, <1>1 DEF AsUintN, AsIntN
<1> QED BY <1>1, <1>2, <1>3

(* A UUID goes to DuckDB as an unsigned number, is kept with its sign bit  *)
(* flipped, and uuidString reads the same number.                          *)
THEOREM UuidsRoundTrip ==
  ASSUME NEW v \in UInt128
  PROVE  UuidString(CreateUuid(v)) = v
<1> DEFINE q == v \div Full
           r == v % Full
<1>1. v \in Int /\ Full \in Int
  BY WordAssumption DEF UInt128, Full
<1>2. q \in UInt64 /\ v = Full * q + r /\ r \in Int
  BY <1>1, UnsignedUpperFits, WordDivision DEF UInt64
<1>3. AsUintN(q) = q
  BY <1>2, UnsignedWordKept
<1>4. FlipSign(q) \in UInt64 /\ FlipSign(FlipSign(q)) = q
  BY <1>2, FlipTwice
<1>5. FlipSign(q) % Full = FlipSign(q)
  BY <1>4, UnsignedWordKept DEF AsUintN
<1>6. CreateUuid(v).upper = FlipSign(q) /\ CreateUuid(v).lower = r
  BY <1>3, <1>5 DEF CreateUuid, SplitU128, Words, AsUintN
<1>7. UuidString(CreateUuid(v)) = q * Full + r
  BY <1>4, <1>6, WordReadSigned DEF UuidString
<1>8. q * Full = Full * q
  <2>1. q \in Int BY <1>2 DEF UInt64
  <2> HIDE DEF q
  <2> QED BY <1>1, <2>1
<1> QED BY <1>2, <1>7, <1>8

-----------------------------------------------------------------------------
(* Sequences of whatever is in them.                                       *)

IsSeq(s) == s \in Seq(Range(s))

LEMMA EmptyIsSeq == IsSeq(<<>>) /\ Len(<<>>) = 0 /\ Range(<<>>) = {}
BY DEF IsSeq, Range

LEMMA SeqShape ==
  ASSUME NEW s, IsSeq(s)
  PROVE  /\ Len(s) \in Nat /\ DOMAIN s = 1 .. Len(s)
         /\ \A x \in Range(s) : \E i \in 1 .. Len(s) : s[i] = x
         /\ \A i \in 1 .. Len(s) : s[i] \in Range(s)
BY LenProperties, Zenon DEF IsSeq, Range

LEMMA Extended ==
  ASSUME NEW s, IsSeq(s), NEW e
  PROVE  /\ IsSeq(Append(s, e))
         /\ Len(Append(s, e)) = Len(s) + 1
         /\ Append(s, e)[Len(s) + 1] = e
         /\ \A i \in 1 .. Len(s) : Append(s, e)[i] = s[i]
         /\ \A x \in Range(Append(s, e)) : x \in Range(s) \/ x = e
<1> DEFINE S == Range(s) \cup {e}
           t == Append(s, e)
<1>1. s \in Seq(S) /\ e \in S /\ Len(s) \in Nat /\ DOMAIN s = 1 .. Len(s)
  BY SeqMonotonic, LenProperties DEF IsSeq
<1>2. /\ t \in Seq(S) /\ Len(t) = Len(s) + 1 /\ t[Len(s) + 1] = e
      /\ \A i \in 1 .. Len(s) : t[i] = s[i]
  BY <1>1
<1>3. DOMAIN t = 1 .. Len(s) + 1 /\ t \in [1 .. Len(s) + 1 -> S]
  BY <1>2, LenProperties
<1>4. t \in [1 .. Len(s) + 1 -> Range(t)]
  BY <1>3 DEF Range
<1>5. t \in Seq(Range(t))
  <2>1. Len(s) + 1 \in Nat BY <1>1
  <2> HIDE DEF t
  <2> QED BY <1>4, <2>1, SeqDef
<1>6. \A x \in Range(t) : x \in Range(s) \/ x = e
  BY <1>3 DEF Range
<1> QED BY <1>2, <1>5, <1>6 DEF IsSeq

LEMMA Joined ==
  ASSUME NEW s, IsSeq(s), NEW t, IsSeq(t)
  PROVE  /\ IsSeq(s \o t)
         /\ \A x \in Range(s \o t) : x \in Range(s) \/ x \in Range(t)
<1> DEFINE S == Range(s) \cup Range(t)
           u == s \o t
<1>1. s \in Seq(S) /\ t \in Seq(S)
  BY SeqMonotonic DEF IsSeq
<1>2. u \in Seq(S)
  BY <1>1, ConcatProperties
<1>3. Len(u) \in Nat /\ DOMAIN u = 1 .. Len(u) /\ u \in [1 .. Len(u) -> S]
  BY <1>2, LenProperties
<1>4. u \in [1 .. Len(u) -> Range(u)]
  BY <1>3 DEF Range
<1>5. u \in Seq(Range(u))
  BY <1>3, <1>4, SeqDef
<1>6. Range(u) \subseteq S
  BY <1>3 DEF Range
<1> QED BY <1>5, <1>6 DEF IsSeq

-----------------------------------------------------------------------------
(* The inductive invariant, over the values of the variables.              *)

Turns == [row : Nat, next : 1 .. 3]

GoodRow(r, T) == Whole(r) \/ \E c \in Columns : r[c].row \in T

GoodRows(rows, T) == \A r \in Range(rows) : GoodRow(r, T)

CellsInStep(cells, t, T) ==
  /\ \/ \A i \in 1 .. Len(cells) : cells[i].row = t.row /\ cells[i].col = i
     \/ \E i \in 1 .. Len(cells) : cells[i].row \in T
  /\ \/ t.next = Len(cells) + 1
     \/ t.row \in T
     \/ \E i \in 1 .. Len(cells) : cells[i].row \in T

ParamsInStep(p, t, T) ==
  /\ \A i \in Columns : p[i] = Unbound \/ p[i].col = i
  /\ t.row \in T \/ \A i \in Columns : i < t.next => p[i].row = t.row
  /\ \/ p[1].row = p[2].row
     \/ \E i \in Columns : p[i].row \in T
     \/ t.next = 2 /\ p[1].row = t.row

Shapes ==
  /\ turn \in Turns
  /\ IsSeq(table) /\ IsSeq(appender.cells) /\ IsSeq(appender.rows)
  /\ Len(appender.cells) <= 2
  /\ appender = [state |-> appender.state, cells |-> appender.cells, rows |-> appender.rows]
  /\ params = [i \in Columns |-> params[i]]

InStep ==
  /\ route \in AppendRoutes => CellsInStep(appender.cells, turn, threw)
  /\ route \in BindRoutes => ParamsInStep(params, turn, threw)

StoredRowsGood == GoodRows(table, threw) /\ GoodRows(appender.rows, threw)

RowsInv == Shapes /\ InStep /\ StoredRowsGood

-----------------------------------------------------------------------------
(* What an exception, an append and a bind do to it.                       *)

AfterThrow(t, u) == u \in Turns /\ (u.row = t.row \/ u = [row |-> t.row + 1, next |-> 1])

LEMMA CellsAfterThrow ==
  ASSUME NEW cells, IsSeq(cells), NEW t \in Turns, NEW u, AfterThrow(t, u), NEW T,
         CellsInStep(cells, t, T)
  PROVE  CellsInStep(cells, u, T \cup {t.row})
<1>1. Len(cells) \in Nat
  BY SeqShape
<1>2. CASE u.row = t.row
  BY <1>2 DEF CellsInStep
<1>3. CASE u = [row |-> t.row + 1, next |-> 1]
  <2>1. CASE Len(cells) = 0
    BY <1>3, <2>1 DEF CellsInStep
  <2>2. CASE Len(cells) # 0
    <3>1. 1 \in 1 .. Len(cells) BY <1>1, <2>2
    <3>2. \E i \in 1 .. Len(cells) : cells[i].row \in T \cup {t.row}
      BY <3>1 DEF CellsInStep
    <3> QED BY <3>2 DEF CellsInStep
  <2> QED BY <2>1, <2>2
<1> QED BY <1>2, <1>3 DEF AfterThrow

LEMMA ParamsAfterThrow ==
  ASSUME NEW p, NEW t \in Turns, NEW u, AfterThrow(t, u), NEW T,
         ParamsInStep(p, t, T)
  PROVE  ParamsInStep(p, u, T \cup {t.row})
<1> USE DEF Columns
<1>1. p[1].row = p[2].row \/ \E i \in Columns : p[i].row \in T \cup {t.row}
  BY DEF ParamsInStep
<1>2. \A i \in Columns : p[i] = Unbound \/ p[i].col = i
  BY DEF ParamsInStep
<1>3. u.row \in T \cup {t.row} \/ \A i \in Columns : i < u.next => p[i].row = u.row
  <2>1. CASE u.row = t.row BY <2>1
  <2>2. CASE u = [row |-> t.row + 1, next |-> 1] BY <2>2
  <2> QED BY <2>1, <2>2 DEF AfterThrow
<1> QED BY <1>1, <1>2, <1>3 DEF ParamsInStep

LEMMA CellsAfterAppend ==
  ASSUME NEW cells, IsSeq(cells), NEW t \in Turns, t.next \in Columns, NEW T, NEW x,
         x.row = t.row, x.col = t.next, CellsInStep(cells, t, T)
  PROVE  CellsInStep(Append(cells, x), [t EXCEPT !.next = @ + 1], T)
<1> DEFINE n == Len(cells)
           new == Append(cells, x)
           u == [t EXCEPT !.next = @ + 1]
<1>1. n \in Nat /\ Len(new) = n + 1 /\ new[n + 1] = x /\ \A i \in 1 .. n : new[i] = cells[i]
  BY SeqShape, Extended
<1>2. u.row = t.row /\ u.next = t.next + 1
  BY DEF Turns
<1> HIDE DEF new, u
<1>3. CASE \E i \in 1 .. n : cells[i].row \in T
  <2>1. \E i \in 1 .. n + 1 : new[i].row \in T BY <1>1, <1>3
  <2> QED BY <1>1, <2>1 DEF CellsInStep, new, u
<1>4. CASE t.row \in T
  <2>1. n + 1 \in 1 .. n + 1 BY <1>1
  <2>2. \E i \in 1 .. n + 1 : new[i].row \in T BY <1>1, <1>4, <2>1
  <2> QED BY <1>1, <2>2 DEF CellsInStep, new, u
<1>5. CASE /\ \A i \in 1 .. n : cells[i].row = t.row /\ cells[i].col = i
           /\ t.next = n + 1
  <2>1. \A i \in 1 .. n + 1 : new[i].row = u.row /\ new[i].col = i
    BY <1>1, <1>2, <1>5
  <2>2. u.next = n + 1 + 1
    BY <1>2, <1>5
  <2> QED BY <1>1, <2>1, <2>2 DEF CellsInStep, new, u
<1> QED BY <1>3, <1>4, <1>5 DEF CellsInStep

LEMMA ParamsAfterBind ==
  ASSUME NEW p, p = [i \in Columns |-> p[i]], NEW t \in Turns, t.next \in Columns, NEW T,
         NEW x, x.row = t.row, x.col = t.next, ParamsInStep(p, t, T)
  PROVE  ParamsInStep([p EXCEPT ![t.next] = x], [t EXCEPT !.next = @ + 1], T)
<1> USE DEF Columns
<1> DEFINE q == [p EXCEPT ![t.next] = x]
           u == [t EXCEPT !.next = @ + 1]
<1>1. u.row = t.row /\ u.next = t.next + 1
  BY DEF Turns
<1>2. q[t.next] = x /\ \A i \in Columns : i # t.next => q[i] = p[i]
  <2>1. DOMAIN p = Columns OBVIOUS
  <2> QED BY <2>1
<1>3. t.next = 1 \/ t.next = 2
  OBVIOUS
<1> HIDE DEF q, u
<1>4. \A i \in Columns : q[i] = Unbound \/ q[i].col = i
  BY <1>2 DEF ParamsInStep
<1>5. CASE t.row \in T
  BY <1>1, <1>2, <1>4, <1>5 DEF ParamsInStep, q, u
<1>6. CASE t.row \notin T /\ t.next = 1
  <2>1. q[1] = x /\ u.next = 2 /\ u.row = t.row BY <1>1, <1>2, <1>6
  <2>2. \A i \in Columns : i < u.next => q[i].row = u.row BY <2>1
  <2> QED BY <1>4, <2>1, <2>2 DEF ParamsInStep, q, u
<1>7. CASE t.row \notin T /\ t.next = 2
  <2>1. q[2] = x /\ q[1] = p[1] /\ p[1].row = t.row BY <1>2, <1>7 DEF ParamsInStep
  <2>2. q[1].row = q[2].row /\ \A i \in Columns : q[i].row = u.row BY <1>1, <2>1
  <2> QED BY <1>4, <2>2 DEF ParamsInStep, q, u
<1> QED BY <1>3, <1>5, <1>6, <1>7

(* A row that is complete is good.                                         *)
LEMMA CompleteCellsGood ==
  ASSUME NEW cells, Len(cells) = 2, NEW t, NEW T, CellsInStep(cells, t, T)
  PROVE  GoodRow(cells, T)
<1>1. 1 .. Len(cells) = Columns BY DEF Columns
<1> QED BY <1>1 DEF CellsInStep, GoodRow, Whole, Columns

LEMMA CompleteParamsGood ==
  ASSUME NEW p, NEW t, t.next = 3, NEW T, ParamsInStep(p, t, T),
         \A i \in Columns : p[i] # Unbound
  PROVE  GoodRow(<<p[1], p[2]>>, T)
BY DEF ParamsInStep, GoodRow, Whole, Columns

(* More rows during which a call threw spoil nothing.                      *)
LEMMA GoodStaysGood ==
  ASSUME NEW rows, NEW T, NEW U, T \subseteq U, GoodRows(rows, T)
  PROVE  GoodRows(rows, U)
BY Zenon DEF GoodRows, GoodRow

LEMMA GoodRowsJoined ==
  ASSUME NEW s, IsSeq(s), NEW t, IsSeq(t), NEW T, GoodRows(s, T), GoodRows(t, T)
  PROVE  IsSeq(s \o t) /\ GoodRows(s \o t, T)
BY Joined, Zenon DEF GoodRows

LEMMA GoodRowsExtended ==
  ASSUME NEW s, IsSeq(s), NEW r, NEW T, GoodRows(s, T), GoodRow(r, T)
  PROVE  IsSeq(Append(s, r)) /\ GoodRows(Append(s, r), T)
BY Extended, Zenon DEF GoodRows

-----------------------------------------------------------------------------
(* The steps of the program.                                               *)

LEMMA ThrowMoves ==
  ASSUME turn \in Turns, GoOnAfterThrow
  PROVE  AfterThrow(turn, turn') /\ threw' = threw \cup {turn.row}
BY DEF GoOnAfterThrow, NextRow, AfterThrow, Turns

(* An exception after which DuckDB's row, or the parameters, are the same. *)
LEMMA ThrowKeepsInStep ==
  ASSUME RowsInv, GoOnAfterThrow, UNCHANGED <<route, params>>,
         UNCHANGED appender.cells \/ appender'.cells = <<>>
  PROVE  turn' \in Turns /\ InStep'
<1>1. AfterThrow(turn, turn') /\ threw' = threw \cup {turn.row} /\ turn' \in Turns
  BY ThrowMoves DEF RowsInv, Shapes, AfterThrow
<1>2. CASE route \in AppendRoutes /\ UNCHANGED appender.cells
  <2>1. CellsInStep(appender.cells, turn', threw')
    BY <1>1, <1>2, CellsAfterThrow, Zenon DEF RowsInv, Shapes, InStep
  <2> QED BY <1>1, <1>2, <2>1 DEF InStep, AppendRoutes, BindRoutes
<1>3. CASE route \in AppendRoutes /\ appender'.cells = <<>>
  <2>1. CellsInStep(<<>>, turn', threw')
    BY <1>1, EmptyIsSeq DEF CellsInStep, AfterThrow
  <2> QED BY <1>1, <1>3, <2>1 DEF InStep, AppendRoutes, BindRoutes
<1>4. CASE route \in BindRoutes
  <2>1. ParamsInStep(params, turn', threw')
    BY <1>1, <1>4, ParamsAfterThrow, Zenon DEF RowsInv, Shapes, InStep
  <2> QED BY <1>1, <1>4, <2>1 DEF InStep, AppendRoutes, BindRoutes
<1>5. CASE route \notin AppendRoutes \cup BindRoutes
  BY <1>1, <1>5 DEF InStep
<1> QED BY <1>2, <1>3, <1>4, <1>5

LEMMA ThrewGrows ==
  ASSUME GoOnAfterThrow \/ UNCHANGED threw
  PROVE  threw \subseteq threw'
BY DEF GoOnAfterThrow

LEMMA InitRows == ASSUME Init PROVE RowsInv
<1>1. Shapes
  BY EmptyIsSeq DEF Init, Shapes, Turns
<1>2. InStep
  <2>1. CellsInStep(<<>>, [row |-> 1, next |-> 1], {})
    BY EmptyIsSeq DEF CellsInStep
  <2>2. ParamsInStep([i \in Columns |-> Unbound], [row |-> 1, next |-> 1], {})
    BY DEF ParamsInStep, Columns
  <2> QED BY <2>1, <2>2 DEF Init, InStep
<1>3. StoredRowsGood
  BY EmptyIsSeq DEF Init, StoredRowsGood, GoodRows
<1> QED BY <1>1, <1>2, <1>3 DEF RowsInv

LEMMA AppendCellStep ==
  ASSUME RowsInv, NEW v, AppendCell(v)
  PROVE  RowsInv'
<1>1. StoredRowsGood'
  <2>1. threw \subseteq threw' /\ UNCHANGED <<table, appender.rows>>
    BY ThrewGrows DEF AppendCell, Done, RowsInv, Shapes
  <2> QED BY <2>1, GoodStaysGood DEF RowsInv, StoredRowsGood
<1>2. PICK rc \in AppendResult :
        /\ appender' = IF rc = "ok"
                         THEN [appender EXCEPT
                                 !.cells = Append(@, CellOf(turn.next, turn.row, v))]
                         ELSE appender
        /\ Done(rc, NextColumn)
  BY DEF AppendCell
<1>3. UNCHANGED <<route, params, table>> /\ turn.next \in Columns /\ route \in AppendRoutes
  BY DEF AppendCell
<1>4. CASE rc = "ok"
  <2> DEFINE x == CellOf(turn.next, turn.row, v)
             new == Append(appender.cells, x)
  <2>1. appender.state = "open" /\ Len(appender.cells) # 2
    BY <1>4 DEF AppendResult
  <2>2. x.row = turn.row /\ x.col = turn.next
    BY DEF CellOf
  <2>3. turn' = [turn EXCEPT !.next = @ + 1] /\ threw' = threw
    BY <1>2, <1>4 DEF Done, Throws, NextColumn
  <2>4. appender'.cells = new /\ appender'.rows = appender.rows
        /\ appender' = [state |-> appender'.state, cells |-> appender'.cells,
                        rows |-> appender'.rows]
    BY <1>2, <1>4 DEF RowsInv, Shapes
  <2> HIDE DEF x
  <2>5. IsSeq(new) /\ Len(new) = Len(appender.cells) + 1 /\ Len(appender.cells) \in Nat
    BY Extended, SeqShape DEF RowsInv, Shapes
  <2>6. Len(new) <= 2
    <3>1. Len(appender.cells) <= 2
      BY DEF RowsInv, Shapes
    <3> DEFINE n == Len(appender.cells)
               k == Len(new)
    <3>2. k = n + 1 /\ n \in Nat /\ n # 2 /\ n <= 2
      BY <2>1, <2>5, <3>1
    <3> HIDE DEF n, k
    <3>3. k <= 2
      BY <3>2
    <3> QED BY <3>3 DEF k
  <2>7. CellsInStep(new, turn', threw')
    <3>1. CellsInStep(appender.cells, turn, threw) /\ IsSeq(appender.cells) /\ turn \in Turns
      BY <1>3 DEF RowsInv, Shapes, InStep
    <3>2. CellsInStep(new, [turn EXCEPT !.next = @ + 1], threw)
      BY <1>3, <2>2, <3>1, CellsAfterAppend
    <3> QED BY <2>3, <3>2
  <2>8. turn' \in Turns
    BY <1>3, <2>3 DEF RowsInv, Shapes, Turns, Columns
  <2>9. Shapes'
    BY <1>3, <2>4, <2>5, <2>6, <2>8 DEF RowsInv, Shapes
  <2>10. InStep'
    BY <1>3, <2>4, <2>7 DEF InStep, AppendRoutes, BindRoutes
  <2> QED BY <1>1, <2>9, <2>10 DEF RowsInv
<1>5. CASE rc = "error"
  <2>1. GoOnAfterThrow /\ appender' = appender
    BY <1>2, <1>5 DEF Done, Throws
  <2>2. turn' \in Turns /\ InStep'
    BY <1>3, <2>1, ThrowKeepsInStep
  <2> QED BY <1>1, <1>3, <2>1, <2>2 DEF RowsInv, Shapes
<1> QED BY <1>4, <1>5 DEF AppendResult

LEMMA RefusedStep ==
  ASSUME RowsInv, RefusedByLayer
  PROVE  RowsInv'
<1>1. GoOnAfterThrow /\ UNCHANGED <<route, params, appender, table>>
  BY DEF RefusedByLayer
<1>2. turn' \in Turns /\ InStep'
  BY <1>1, ThrowKeepsInStep
<1>3. StoredRowsGood'
  BY <1>1, ThrewGrows, GoodStaysGood DEF RowsInv, StoredRowsGood
<1> QED BY <1>1, <1>2, <1>3 DEF RowsInv, Shapes

LEMMA EndRowShortStep ==
  ASSUME RowsInv, EndRowShort
  PROVE  RowsInv'
<1>1. GoOnAfterThrow /\ UNCHANGED <<route, params, appender, table>>
  BY DEF EndRowShort, Done, Throws
<1>2. turn' \in Turns /\ InStep'
  BY <1>1, ThrowKeepsInStep
<1>3. StoredRowsGood'
  BY <1>1, ThrewGrows, GoodStaysGood DEF RowsInv, StoredRowsGood
<1> QED BY <1>1, <1>2, <1>3 DEF RowsInv, Shapes

(* A new row, with nothing in DuckDB's row, is in step.                    *)
LEMMA NextRowInStep ==
  ASSUME RowsInv, route \in AppendRoutes, UNCHANGED <<route, threw>>,
         appender'.cells = <<>>,
         NextRow \/ turn' = [row |-> MaxRows + 1, next |-> 1]
         \/ (UNCHANGED turn /\ appender.cells = <<>>)
  PROVE  turn' \in Turns /\ InStep'
<1>1. turn' \in Turns
  BY BoundAssumption DEF NextRow, Turns, RowsInv, Shapes
<1>2. CellsInStep(<<>>, turn', threw')
  BY EmptyIsSeq DEF CellsInStep, NextRow, RowsInv, InStep
<1> QED BY <1>1, <1>2 DEF InStep, AppendRoutes, BindRoutes

LEMMA EndRowStep ==
  ASSUME RowsInv, EndRow
  PROVE  RowsInv'
<1> DEFINE rows == Append(appender.rows, appender.cells)
<1>1. route \in AppendRoutes /\ Len(appender.cells) = 2 /\ turn.next = 3
      /\ UNCHANGED <<route, params>>
  BY DEF EndRow
<1>2. IsSeq(rows) /\ GoodRows(rows, threw)
  <2>1. GoodRow(appender.cells, threw)
    BY <1>1, CompleteCellsGood DEF RowsInv, InStep
  <2> QED BY <2>1, GoodRowsExtended DEF RowsInv, Shapes, StoredRowsGood
<1> HIDE DEF rows
<1>3. CASE Len(rows) < FlushAt
  <2>1. /\ appender' = [appender EXCEPT !.rows = rows, !.cells = <<>>]
        /\ NextRow /\ UNCHANGED <<threw, table>>
    BY <1>3 DEF EndRow, Done, Throws, rows
  <2>2. /\ appender'.rows = rows /\ appender'.cells = <<>>
        /\ appender' = [state |-> appender'.state, cells |-> appender'.cells,
                        rows |-> appender'.rows]
    BY <2>1 DEF RowsInv, Shapes
  <2>3. turn' \in Turns /\ InStep'
    BY <1>1, <2>1, <2>2, NextRowInStep
  <2> QED BY <1>1, <1>2, <2>1, <2>2, <2>3, EmptyIsSeq DEF RowsInv, Shapes, StoredRowsGood
<1>4. CASE ~(Len(rows) < FlushAt)
  <2>1. PICK rc \in {"ok", "error"} : Flushed(rc, rows) /\ Done(rc, NextRow)
    BY <1>4 DEF EndRow, rows
  <2>2. /\ appender'.rows = <<>> /\ appender'.cells = <<>>
        /\ appender' = [state |-> appender'.state, cells |-> appender'.cells,
                        rows |-> appender'.rows]
    BY <2>1 DEF RowsInv, Shapes, Flushed
  <2>3. threw \subseteq threw'
    BY <2>1, ThrewGrows DEF Done
  <2>4. turn' \in Turns /\ InStep'
    BY <1>1, <2>1, <2>2, NextRowInStep, ThrowKeepsInStep DEF Done
  <2>5. IsSeq(table') /\ GoodRows(table', threw')
    <3>1. table' = table \/ table' = table \o rows
      BY <2>1 DEF Flushed
    <3>2. IsSeq(table) /\ GoodRows(table, threw)
      BY DEF RowsInv, Shapes, StoredRowsGood
    <3>3. IsSeq(table') /\ GoodRows(table', threw)
      BY <1>2, <3>1, <3>2, GoodRowsJoined
    <3> QED BY <2>3, <3>3, GoodStaysGood
  <2>6. GoodRows(<<>>, threw')
    BY EmptyIsSeq DEF GoodRows
  <2> QED BY <1>1, <2>2, <2>4, <2>5, <2>6, EmptyIsSeq DEF RowsInv, Shapes, StoredRowsGood
<1> QED BY <1>3, <1>4

LEMMA FlushSyncStep ==
  ASSUME RowsInv, FlushSync
  PROVE  RowsInv'
<1>1. route \in AppendRoutes /\ UNCHANGED <<route, params>>
  BY DEF FlushSync
<1>2. PICK rc \in FlushResult : Flushed(rc, appender.rows) /\ Done(rc, UNCHANGED turn)
  BY DEF FlushSync
<1>3. /\ appender'.rows = <<>> /\ appender'.cells = <<>>
      /\ appender' = [state |-> appender'.state, cells |-> appender'.cells,
                      rows |-> appender'.rows]
  BY <1>2 DEF RowsInv, Shapes, Flushed
<1>4. threw \subseteq threw'
  BY <1>2, ThrewGrows DEF Done
<1>5. turn' \in Turns /\ InStep'
  <2>1. CASE Throws(rc)
    BY <1>1, <1>2, <1>3, <2>1, ThrowKeepsInStep DEF Done
  <2>2. CASE ~Throws(rc)
    <3>1. appender.cells = <<>>
      BY <1>2, <2>2 DEF FlushResult, Throws
    <3> QED BY <1>1, <1>2, <1>3, <2>2, <3>1, NextRowInStep DEF Done
  <2> QED BY <2>1, <2>2
<1>6. IsSeq(table') /\ GoodRows(table', threw')
  <2>1. table' = table \/ table' = table \o appender.rows
    BY <1>2 DEF Flushed
  <2>2. IsSeq(table') /\ GoodRows(table', threw)
    BY <2>1, GoodRowsJoined DEF RowsInv, Shapes, StoredRowsGood
  <2> QED BY <1>4, <2>2, GoodStaysGood
<1>7. GoodRows(<<>>, threw')
  BY EmptyIsSeq DEF GoodRows
<1> QED BY <1>1, <1>3, <1>5, <1>6, <1>7, EmptyIsSeq DEF RowsInv, Shapes, StoredRowsGood

LEMMA CloseSyncStep ==
  ASSUME RowsInv, CloseSync
  PROVE  RowsInv'
<1>1. /\ route \in AppendRoutes /\ UNCHANGED <<route, params, threw>>
      /\ turn' = [row |-> MaxRows + 1, next |-> 1]
      /\ appender' = [appender EXCEPT !.rows = <<>>, !.cells = <<>>, !.state = "closed"]
      /\ table' = table \/ table' = table \o appender.rows
  BY DEF CloseSync
<1>2. /\ appender'.rows = <<>> /\ appender'.cells = <<>>
      /\ appender' = [state |-> appender'.state, cells |-> appender'.cells,
                      rows |-> appender'.rows]
  BY <1>1 DEF RowsInv, Shapes
<1>3. turn' \in Turns /\ InStep'
  BY <1>1, <1>2, NextRowInStep
<1>4. IsSeq(table') /\ GoodRows(table', threw')
  BY <1>1, GoodRowsJoined DEF RowsInv, Shapes, StoredRowsGood
<1>5. GoodRows(<<>>, threw')
  BY EmptyIsSeq DEF GoodRows
<1> QED BY <1>1, <1>2, <1>3, <1>4, <1>5, EmptyIsSeq DEF RowsInv, Shapes, StoredRowsGood

LEMMA BindCellStep ==
  ASSUME RowsInv, NEW v, BindCell(v)
  PROVE  RowsInv'
<1> DEFINE x == CellOf(turn.next, turn.row, v)
<1>1. /\ route \in BindRoutes /\ turn.next \in Columns
      /\ UNCHANGED <<route, appender, table>>
      /\ params' = [params EXCEPT ![turn.next] = Bound(@, x)]
      /\ IF x.native = Throw THEN GoOnAfterThrow ELSE NextColumn /\ UNCHANGED threw
  BY DEF BindCell
<1>2. x.row = turn.row /\ x.col = turn.next
  BY DEF CellOf
<1> HIDE DEF x
<1>3. StoredRowsGood'
  BY <1>1, ThrewGrows, GoodStaysGood DEF RowsInv, StoredRowsGood
<1>4. params = [i \in Columns |-> params[i]]
  BY DEF RowsInv, Shapes
<1>5. CASE x.native = Throw
  <2>1. params' = params
    <3>1. params' = [params EXCEPT ![turn.next] = params[turn.next]]
      BY <1>1, <1>5 DEF Bound
    <3> QED BY <1>1, <1>4, <3>1
  <2>2. turn' \in Turns /\ InStep'
    BY <1>1, <1>5, <2>1, ThrowKeepsInStep
  <2> QED BY <1>1, <1>3, <1>4, <2>1, <2>2 DEF RowsInv, Shapes
<1>6. CASE x.native # Throw
  <2>1. params' = [params EXCEPT ![turn.next] = x]
    BY <1>1, <1>6 DEF Bound
  <2>2. turn' = [turn EXCEPT !.next = @ + 1] /\ threw' = threw
    BY <1>1, <1>6 DEF NextColumn
  <2>3. ParamsInStep(params', turn', threw')
    <3>1. ParamsInStep(params, turn, threw) /\ turn \in Turns
      BY <1>1 DEF RowsInv, InStep, Shapes
    <3>2. ParamsInStep([params EXCEPT ![turn.next] = x], [turn EXCEPT !.next = @ + 1], threw)
      BY <1>1, <1>2, <1>4, <3>1, ParamsAfterBind
    <3> QED BY <2>1, <2>2, <3>2
  <2>4. turn' \in Turns
    BY <1>1, <2>2 DEF RowsInv, Shapes, Turns, Columns
  <2>5. params' = [i \in Columns |-> params'[i]]
    BY <1>4, <2>1
  <2> QED BY <1>1, <1>3, <2>3, <2>4, <2>5
          DEF RowsInv, Shapes, InStep, AppendRoutes, BindRoutes
<1> QED BY <1>5, <1>6

LEMMA ExecuteStep ==
  ASSUME RowsInv, Execute
  PROVE  RowsInv'
<1>1. route \in BindRoutes /\ turn.next = 3 /\ UNCHANGED <<route, appender, params>>
  BY DEF Execute
<1>2. PICK rc \in ExecuteResult :
        /\ table' = IF rc = "ok" THEN Append(table, <<params[1], params[2]>>) ELSE table
        /\ Done(rc, NextRow)
  BY DEF Execute
<1>3. ParamsInStep(params, turn, threw) /\ turn \in Turns
  BY <1>1 DEF RowsInv, InStep, Shapes
<1>4. CASE rc = "ok"
  <2>1. \A i \in Columns : params[i] # Unbound
    BY <1>4 DEF ExecuteResult
  <2>2. GoodRow(<<params[1], params[2]>>, threw)
    BY <1>1, <1>3, <2>1, CompleteParamsGood
  <2>3. IsSeq(table') /\ GoodRows(table', threw)
    BY <1>2, <1>4, <2>2, GoodRowsExtended DEF RowsInv, Shapes, StoredRowsGood
  <2>4. NextRow /\ UNCHANGED threw
    BY <1>2, <1>4 DEF Done, Throws
  <2>5. turn' \in Turns /\ ParamsInStep(params', turn', threw')
    BY <1>1, <1>3, <2>4 DEF ParamsInStep, NextRow, Turns, Columns
  <2> QED BY <1>1, <2>3, <2>4, <2>5
          DEF RowsInv, Shapes, InStep, StoredRowsGood, AppendRoutes, BindRoutes
<1>5. CASE rc = "error"
  <2>1. GoOnAfterThrow /\ table' = table
    BY <1>2, <1>5 DEF Done, Throws
  <2>2. turn' \in Turns /\ InStep'
    BY <1>1, <2>1, ThrowKeepsInStep
  <2>3. StoredRowsGood'
    BY <1>1, <2>1, ThrewGrows, GoodStaysGood DEF RowsInv, StoredRowsGood
  <2> QED BY <1>1, <2>1, <2>2, <2>3 DEF RowsInv, Shapes
<1> QED BY <1>4, <1>5 DEF ExecuteResult

LEMMA RowsStutter ==
  ASSUME RowsInv, UNCHANGED <<route, turn, appender, params, table, threw>>
  PROVE  RowsInv'
BY DEF RowsInv, Shapes, InStep, StoredRowsGood

LEMMA RowsStep ==
  ASSUME RowsInv, [Next]_vars
  PROVE  RowsInv'
<1>1. CASE UNCHANGED vars
  BY <1>1, RowsStutter DEF vars
<1>2. CASE ReadBack
  BY <1>2, RowsStutter DEF ReadBack
<1> QED
  BY <1>1, <1>2, AppendCellStep, RefusedStep, EndRowShortStep, EndRowStep, FlushSyncStep,
     CloseSyncStep, BindCellStep, ExecuteStep DEF Next

(* Whatever is written, by whichever route and with whatever calls         *)
(* throwing: a row of the table mixes rows of the program, or leaves its   *)
(* columns, only if a call threw during one of them.                       *)
THEOREM RowsStayWhole == Spec => []RowsAreWhole
<1>1. Init => RowsInv
  BY InitRows
<1>2. RowsInv /\ [Next]_vars => RowsInv'
  BY RowsStep
<1>3. RowsInv => RowsAreWhole
  <2> SUFFICES ASSUME RowsInv, NEW i \in DOMAIN table
               PROVE  Whole(table[i]) \/ \E c \in Columns : table[i][c].row \in threw
    BY DEF RowsAreWhole
  <2>1. table[i] \in Range(table)
    BY SeqShape DEF RowsInv, Shapes
  <2> QED BY <2>1 DEF RowsInv, StoredRowsGood, GoodRows, GoodRow
<1> QED BY <1>1, <1>2, <1>3, PTL DEF Spec

-----------------------------------------------------------------------------
(* Rows that were accepted are kept: the program has begun its row in      *)
(* DuckDB's row or in the parameters, and only an open appender buffers.   *)

Holds(rows, r) == \E i \in DOMAIN rows : \E c \in Columns : rows[i][c].row = r

Kept(r) == lost \/ r \in threw \/ Holds(table, r) \/ Holds(appender.rows, r)

Begun ==
  turn.next \in 2 .. 3 =>
    \/ turn.row \in threw
    \/ /\ route \in AppendRoutes
       /\ \E i \in 1 .. Len(appender.cells) : appender.cells[i].row = turn.row
    \/ route \in BindRoutes /\ params[1].row = turn.row

KeptInv ==
  /\ RowsInv
  /\ Begun
  /\ appender.state # "open" => appender.rows = <<>>
  /\ \A r \in acked : Kept(r)

LEMMA HoldsAppended ==
  ASSUME NEW s, IsSeq(s), NEW x, NEW r, Holds(s, r) \/ \E c \in Columns : x[c].row = r
  PROVE  Holds(Append(s, x), r)
<1> DEFINE n == Len(s)
           new == Append(s, x)
<1>1. n \in Nat /\ DOMAIN s = 1 .. n /\ IsSeq(new) /\ Len(new) = n + 1 /\ new[n + 1] = x
      /\ \A i \in 1 .. n : new[i] = s[i]
  BY SeqShape, Extended
<1>2. DOMAIN new = 1 .. n + 1
  BY <1>1, SeqShape
<1> HIDE DEF n, new
<1>3. CASE Holds(s, r)
  <2>1. PICK i \in 1 .. n : \E c \in Columns : s[i][c].row = r
    BY <1>1, <1>3 DEF Holds
  <2>2. i \in DOMAIN new /\ new[i] = s[i]
    BY <1>1, <1>2
  <2> QED BY <2>1, <2>2 DEF Holds, new
<1>4. CASE \E c \in Columns : x[c].row = r
  <2>1. n + 1 \in DOMAIN new /\ new[n + 1] = x
    BY <1>1, <1>2
  <2> QED BY <1>4, <2>1 DEF Holds, new
<1> QED BY <1>3, <1>4

LEMMA HoldsJoined ==
  ASSUME NEW s, IsSeq(s), NEW t, IsSeq(t), NEW r, Holds(s, r) \/ Holds(t, r)
  PROVE  Holds(s \o t, r)
<1> DEFINE S == Range(s) \cup Range(t)
           m == Len(s)
           n == Len(t)
           u == s \o t
<1>1. s \in Seq(S) /\ t \in Seq(S)
  BY SeqMonotonic DEF IsSeq
<1>2. m \in Nat /\ n \in Nat /\ DOMAIN s = 1 .. m /\ DOMAIN t = 1 .. n
  BY SeqShape
<1>3. /\ u \in Seq(S) /\ Len(u) = m + n
      /\ \A i \in 1 .. m + n : u[i] = IF i <= m THEN s[i] ELSE t[i - m]
  BY <1>1, ConcatProperties
<1>4. DOMAIN u = 1 .. m + n
  BY <1>3, LenProperties
<1> HIDE DEF m, n, u, S
<1>5. CASE Holds(s, r)
  <2>1. PICK i \in 1 .. m : \E c \in Columns : s[i][c].row = r
    BY <1>2, <1>5 DEF Holds
  <2>2. i \in DOMAIN u /\ u[i] = s[i]
    BY <1>2, <1>3, <1>4
  <2> QED BY <2>1, <2>2 DEF Holds, u
<1>6. CASE Holds(t, r)
  <2>1. PICK i \in 1 .. n : \E c \in Columns : t[i][c].row = r
    BY <1>2, <1>6 DEF Holds
  <2> DEFINE j == m + i
  <2>2. j \in 1 .. m + n /\ ~(j <= m) /\ j - m = i
    BY <1>2
  <2> HIDE DEF j
  <2>3. j \in DOMAIN u /\ u[j] = t[i]
    BY <1>3, <1>4, <2>2
  <2> QED BY <2>1, <2>3 DEF Holds, u
<1> QED BY <1>5, <1>6

(* A step that keeps, of what was accepted, all it does not report.        *)
LEMMA KeptStays ==
  ASSUME \A r \in acked : Kept(r), threw \subseteq threw', lost => lost', acked' \subseteq acked,
         \/ lost'
         \/ \A r \in acked : Holds(table, r) \/ Holds(appender.rows, r) =>
              Holds(table', r) \/ Holds(appender'.rows, r)
  PROVE  \A r \in acked' : Kept(r)'
BY DEF Kept

LEMMA ThrowBegins ==
  ASSUME turn \in Turns, GoOnAfterThrow
  PROVE  Begun' /\ threw \subseteq threw'
<1>1. AfterThrow(turn, turn') /\ threw' = threw \cup {turn.row}
  BY ThrowMoves
<1> QED BY <1>1 DEF AfterThrow, Begun

LEMMA NextRowBegins ==
  ASSUME NextRow
  PROVE  Begun'
BY DEF NextRow, Begun

LEMMA ShapesOfRows ==
  ASSUME RowsInv
  PROVE  /\ turn \in Turns /\ IsSeq(table) /\ IsSeq(appender.cells) /\ IsSeq(appender.rows)
         /\ appender = [state |-> appender.state, cells |-> appender.cells,
                        rows |-> appender.rows]
BY DEF RowsInv, Shapes

LEMMA AppendCellKeeps ==
  ASSUME KeptInv, RowsInv', NEW v, AppendCell(v)
  PROVE  KeptInv'
<1>1. PICK rc \in AppendResult :
        /\ appender' = IF rc = "ok"
                         THEN [appender EXCEPT
                                 !.cells = Append(@, CellOf(turn.next, turn.row, v))]
                         ELSE appender
        /\ Done(rc, NextColumn)
  BY DEF AppendCell
<1>2. /\ UNCHANGED <<route, table, acked, lost>> /\ route \in AppendRoutes
      /\ turn \in Turns /\ IsSeq(appender.cells)
  BY ShapesOfRows DEF AppendCell, KeptInv
<1>3. appender'.rows = appender.rows /\ appender'.state = appender.state
  BY <1>1, ShapesOfRows DEF KeptInv
<1>4. threw \subseteq threw'
  BY <1>1, ThrewGrows DEF Done
<1>5. \A r \in acked' : Kept(r)'
  BY <1>2, <1>3, <1>4, KeptStays DEF KeptInv
<1>6. CASE rc = "ok"
  <2> DEFINE x == CellOf(turn.next, turn.row, v)
             n == Len(appender.cells)
             new == Append(appender.cells, x)
  <2>1. appender'.cells = new /\ turn' = [turn EXCEPT !.next = @ + 1]
    BY <1>1, <1>6, ShapesOfRows DEF KeptInv, Done, Throws, NextColumn
  <2>2. x.row = turn.row /\ turn'.row = turn.row
    BY <1>2, <2>1 DEF CellOf, Turns
  <2> HIDE DEF x
  <2>3. n \in Nat /\ Len(new) = n + 1 /\ new[n + 1] = x
    BY <1>2, SeqShape, Extended
  <2>4. n + 1 \in 1 .. Len(new) /\ new[n + 1].row = turn'.row
    BY <2>2, <2>3
  <2> QED BY <1>2, <1>3, <1>5, <2>1, <2>4 DEF KeptInv, Begun
<1>7. CASE rc = "error"
  BY <1>1, <1>2, <1>3, <1>5, <1>7, ThrowBegins DEF KeptInv, Done, Throws
<1> QED BY <1>6, <1>7 DEF AppendResult

LEMMA ThrowingKeeps ==
  ASSUME KeptInv, RowsInv', GoOnAfterThrow, UNCHANGED <<appender, table, acked, lost>>
  PROVE  KeptInv'
<1>1. Begun' /\ threw \subseteq threw'
  BY ThrowBegins, ShapesOfRows DEF KeptInv
<1>2. \A r \in acked' : Kept(r)'
  BY <1>1, KeptStays DEF KeptInv
<1> QED BY <1>1, <1>2 DEF KeptInv

LEMMA EndRowKeeps ==
  ASSUME KeptInv, RowsInv', EndRow
  PROVE  KeptInv'
<1> DEFINE rows == Append(appender.rows, appender.cells)
<1>1. /\ route \in AppendRoutes /\ turn.next = 3 /\ Len(appender.cells) = 2
      /\ appender.state = "open" /\ turn \in Turns
      /\ IsSeq(table) /\ IsSeq(appender.cells) /\ IsSeq(appender.rows)
  BY ShapesOfRows DEF EndRow, KeptInv
<1>2. IsSeq(rows)
  BY <1>1, Extended
<1>3. \A r : Holds(appender.rows, r) => Holds(rows, r)
  BY <1>1, HoldsAppended
<1>4. turn.row \in threw \/ Holds(rows, turn.row)
  <2>1. turn.row \in threw \/ \E i \in 1 .. 2 : appender.cells[i].row = turn.row
    BY <1>1 DEF KeptInv, Begun, AppendRoutes, BindRoutes
  <2> QED BY <1>1, <2>1, HoldsAppended DEF Columns
<1> HIDE DEF rows
<1>5. CASE Len(rows) < FlushAt
  <2>1. /\ appender' = [appender EXCEPT !.rows = rows, !.cells = <<>>]
        /\ acked' = acked \cup {turn.row} /\ NextRow /\ UNCHANGED <<threw, table, lost>>
    BY <1>5 DEF EndRow, Done, Throws, rows
  <2>2. appender'.rows = rows /\ appender'.state = "open"
    BY <1>1, <2>1, ShapesOfRows DEF KeptInv
  <2>3. \A r \in acked' : Kept(r)'
    BY <1>3, <1>4, <2>1, <2>2 DEF KeptInv, Kept
  <2> QED BY <2>1, <2>2, <2>3, NextRowBegins DEF KeptInv
<1>6. CASE ~(Len(rows) < FlushAt)
  <2>1. PICK rc \in {"ok", "error"} :
          /\ Flushed(rc, rows) /\ Done(rc, NextRow)
          /\ acked' = IF Throws(rc) THEN acked ELSE acked \cup {turn.row}
    BY <1>6 DEF EndRow, rows
  <2>2. appender'.rows = <<>> /\ threw \subseteq threw'
    BY <2>1, ShapesOfRows, ThrewGrows DEF KeptInv, Flushed, Done
  <2>3. Begun'
    BY <1>1, <2>1, NextRowBegins, ThrowBegins DEF Done
  <2>4. \A r \in acked' : Kept(r)'
    <3>1. CASE rc = "ok"
      <4>1. table' = table \o rows /\ acked' = acked \cup {turn.row} /\ (lost => lost')
        BY <2>1, <3>1 DEF Flushed, Throws
      <4>2. \A r : Holds(table, r) \/ Holds(rows, r) => Holds(table', r)
        BY <1>1, <1>2, <4>1, HoldsJoined
      <4> QED BY <1>3, <1>4, <2>2, <4>1, <4>2 DEF KeptInv, Kept
    <3>2. CASE rc = "error"
      BY <1>1, <2>1, <3>2 DEF Flushed, Throws, Kept
    <3> QED BY <3>1, <3>2
  <2> QED BY <2>2, <2>3, <2>4 DEF KeptInv
<1> QED BY <1>5, <1>6

LEMMA FlushSyncKeeps ==
  ASSUME KeptInv, RowsInv', FlushSync
  PROVE  KeptInv'
<1>1. PICK rc \in FlushResult : Flushed(rc, appender.rows) /\ Done(rc, UNCHANGED turn)
  BY DEF FlushSync
<1>2. /\ UNCHANGED <<route, params, acked>> /\ route \in AppendRoutes
      /\ turn \in Turns /\ IsSeq(table) /\ IsSeq(appender.rows)
  BY ShapesOfRows DEF FlushSync, KeptInv
<1>3. appender'.rows = <<>> /\ threw \subseteq threw' /\ (lost => lost')
  BY <1>1, ShapesOfRows, ThrewGrows DEF KeptInv, Flushed, Done
<1>4. CASE rc = "ok"
  <2>1. appender.cells = <<>> /\ appender'.cells = <<>> /\ UNCHANGED <<turn, threw>>
    BY <1>1, <1>4, ShapesOfRows DEF KeptInv, FlushResult, Flushed, Done, Throws
  <2>2. Begun'
    BY <1>2, <2>1 DEF KeptInv, Begun
  <2>3. table' = table \o appender.rows
    BY <1>1, <1>4 DEF Flushed
  <2>4. \A r : Holds(table, r) \/ Holds(appender.rows, r) => Holds(table', r)
    BY <1>2, <2>3, HoldsJoined
  <2>5. \A r \in acked' : Kept(r)'
    BY <1>2, <1>3, <2>4, KeptStays DEF KeptInv
  <2> QED BY <1>3, <2>2, <2>5 DEF KeptInv
<1>5. CASE rc # "ok"
  <2>1. rc = "error" /\ Throws(rc) /\ table' = table
    BY <1>1, <1>5 DEF FlushResult, Throws, Flushed
  <2>2. Begun'
    BY <1>1, <1>2, <2>1, ThrowBegins DEF Done
  <2>3. \A r \in acked' : Kept(r)'
    <3>1. CASE appender.state = "open"
      BY <1>1, <2>1, <3>1 DEF Flushed, Kept
    <3>2. CASE appender.state # "open"
      <4>1. appender'.rows = appender.rows
        BY <1>3, <3>2 DEF KeptInv
      <4> QED BY <1>2, <1>3, <2>1, <4>1, KeptStays DEF KeptInv
    <3> QED BY <3>1, <3>2
  <2> QED BY <1>3, <2>2, <2>3 DEF KeptInv
<1> QED BY <1>4, <1>5

LEMMA CloseSyncKeeps ==
  ASSUME KeptInv, RowsInv', CloseSync
  PROVE  KeptInv'
<1>1. PICK rc \in FlushResult :
        /\ appender' = [appender EXCEPT !.rows = <<>>, !.cells = <<>>, !.state = "closed"]
        /\ table' = IF rc = "ok" THEN table \o appender.rows ELSE table
        /\ lost' = (lost \/ Throws(rc))
  BY DEF CloseSync
<1>2. /\ turn' = [row |-> MaxRows + 1, next |-> 1] /\ UNCHANGED <<acked, threw>>
      /\ IsSeq(table) /\ IsSeq(appender.rows) /\ appender'.rows = <<>>
  BY <1>1, ShapesOfRows DEF CloseSync, KeptInv
<1>3. Begun'
  BY <1>2 DEF Begun
<1>4. \A r \in acked' : Kept(r)'
  <2>1. CASE rc = "ok"
    <3>1. \A r : Holds(table, r) \/ Holds(appender.rows, r) => Holds(table', r)
      BY <1>1, <1>2, <2>1, HoldsJoined
    <3> QED BY <1>1, <1>2, <3>1, KeptStays DEF KeptInv
  <2>2. CASE rc # "ok"
    BY <1>1, <2>2 DEF FlushResult, Throws, Kept
  <2> QED BY <2>1, <2>2
<1> QED BY <1>2, <1>3, <1>4 DEF KeptInv

LEMMA BindCellKeeps ==
  ASSUME KeptInv, RowsInv', NEW v, BindCell(v)
  PROVE  KeptInv'
<1> DEFINE x == CellOf(turn.next, turn.row, v)
<1>1. /\ route \in BindRoutes /\ turn.next \in Columns
      /\ UNCHANGED <<route, appender, table, acked, lost>>
      /\ params' = [params EXCEPT ![turn.next] = Bound(@, x)]
      /\ IF x.native = Throw THEN GoOnAfterThrow ELSE NextColumn /\ UNCHANGED threw
  BY DEF BindCell
<1>2. x.row = turn.row /\ turn \in Turns /\ params = [i \in Columns |-> params[i]]
  BY DEF CellOf, KeptInv, RowsInv, Shapes
<1> HIDE DEF x
<1>3. threw \subseteq threw'
  BY <1>1, ThrewGrows
<1>4. \A r \in acked' : Kept(r)'
  BY <1>1, <1>3, KeptStays DEF KeptInv
<1>5. Begun'
  <2>1. CASE x.native = Throw
    BY <1>1, <1>2, <2>1, ThrowBegins
  <2>2. CASE x.native # Throw
    <3>1. /\ params' = [params EXCEPT ![turn.next] = x] /\ threw' = threw
          /\ turn' = [turn EXCEPT !.next = @ + 1]
      BY <1>1, <2>2 DEF Bound, NextColumn
    <3>2. turn'.row = turn.row
      BY <1>2, <3>1 DEF Turns
    <3>3. CASE turn.next = 1
      <4>1. params'[1] = x
        <5>1. DOMAIN params = Columns BY <1>2
        <5> QED BY <3>1, <3>3, <5>1 DEF Columns
      <4> QED BY <1>1, <1>2, <3>2, <4>1 DEF Begun
    <3>4. CASE turn.next = 2
      <4>1. params'[1] = params[1]
        <5>1. DOMAIN params = Columns BY <1>2
        <5> QED BY <3>1, <3>4, <5>1 DEF Columns
      <4>2. turn.row \in threw \/ params[1].row = turn.row
        BY <1>1, <3>4 DEF KeptInv, Begun, AppendRoutes, BindRoutes
      <4> QED BY <1>1, <3>1, <3>2, <4>1, <4>2 DEF Begun
    <3> QED BY <1>1, <3>3, <3>4 DEF Columns
  <2> QED BY <2>1, <2>2
<1> QED BY <1>1, <1>4, <1>5 DEF KeptInv

LEMMA ExecuteKeeps ==
  ASSUME KeptInv, RowsInv', Execute
  PROVE  KeptInv'
<1>1. /\ route \in BindRoutes /\ turn.next = 3 /\ UNCHANGED <<route, appender, lost>>
      /\ turn \in Turns /\ IsSeq(table)
  BY ShapesOfRows DEF Execute, KeptInv
<1>2. PICK rc \in ExecuteResult :
        /\ table' = IF rc = "ok" THEN Append(table, <<params[1], params[2]>>) ELSE table
        /\ acked' = IF Throws(rc) THEN acked ELSE acked \cup {turn.row}
        /\ Done(rc, NextRow)
  BY DEF Execute
<1>3. threw \subseteq threw'
  BY <1>2, ThrewGrows DEF Done
<1>4. CASE rc = "ok"
  <2> DEFINE x == <<params[1], params[2]>>
  <2>1. table' = Append(table, x) /\ acked' = acked \cup {turn.row} /\ NextRow
    BY <1>2, <1>4 DEF Throws, Done
  <2>2. x[1].row = params[1].row
    OBVIOUS
  <2>3. turn.row \in threw \/ \E c \in Columns : x[c].row = turn.row
    BY <1>1, <2>2 DEF KeptInv, Begun, AppendRoutes, BindRoutes, Columns
  <2> HIDE DEF x
  <2>4. \A r : Holds(table, r) => Holds(table', r)
    BY <1>1, <2>1, HoldsAppended
  <2>5. turn.row \in threw \/ Holds(table', turn.row)
    BY <1>1, <2>1, <2>3, HoldsAppended
  <2>6. \A r \in acked' : Kept(r)'
    BY <1>1, <1>3, <2>1, <2>4, <2>5 DEF KeptInv, Kept
  <2> QED BY <1>1, <2>1, <2>6, NextRowBegins DEF KeptInv
<1>5. CASE rc = "error"
  <2>1. GoOnAfterThrow /\ UNCHANGED <<table, acked>>
    BY <1>2, <1>5 DEF Done, Throws
  <2> QED BY <1>1, <2>1, ThrowingKeeps
<1> QED BY <1>4, <1>5 DEF ExecuteResult

LEMMA KeptStep ==
  ASSUME KeptInv, [Next]_vars
  PROVE  KeptInv'
<1>1. RowsInv'
  BY RowsStep DEF KeptInv
<1>2. CASE UNCHANGED vars \/ ReadBack
  <2>1. UNCHANGED <<route, turn, appender, params, table, acked, threw, lost>>
    BY <1>2 DEF vars, ReadBack
  <2> QED BY <1>1, <2>1 DEF KeptInv, Begun, Kept
<1>3. CASE RefusedByLayer \/ EndRowShort
  <2>1. GoOnAfterThrow /\ UNCHANGED <<appender, table, acked, lost>>
    BY <1>3 DEF RefusedByLayer, EndRowShort, Done, Throws
  <2> QED BY <1>1, <2>1, ThrowingKeeps
<1> QED
  BY <1>1, <1>2, <1>3, AppendCellKeeps, EndRowKeeps, FlushSyncKeeps, CloseSyncKeeps,
     BindCellKeeps, ExecuteKeeps DEF Next

(* A row that endRow or an execution accepted is in the table or in the    *)
(* appender's buffer until an exception says that buffered rows are lost,  *)
(* for any values, number of rows and flush size: no flush drops a row in  *)
(* silence.                                                                *)
THEOREM AcceptedRowsAreKept == Spec => []AckedRowsAreKept
<1>1. Init => KeptInv
  <2>1. Init => RowsInv
    BY InitRows
  <2> QED BY <2>1 DEF Init, KeptInv, Begun
<1>2. KeptInv /\ [Next]_vars => KeptInv'
  BY KeptStep
<1>3. KeptInv => AckedRowsAreKept
  BY DEF KeptInv, Kept, Holds, AckedRowsAreKept
<1> QED BY <1>1, <1>2, <1>3, PTL DEF Spec

-----------------------------------------------------------------------------
(* The bytes of a number.  LittleEndian is defined by recursion over       *)
(* numbers: it exists, since up to every m there is one function that      *)
(* satisfies its equation.                                                 *)

LEMMA LeastNumber ==
  ASSUME NEW S \in SUBSET Nat, S # {}
  PROVE  \E m \in S : \A k \in S : m <= k
<1>1. PICK R : R = OpToRel(<, Nat)
  OBVIOUS
<1>2. \A x \in Nat, y \in Nat : y < x => <<y, x>> \in R
  BY <1>1 DEF OpToRel
<1>3. IsWellFoundedOn(R, Nat)
  BY <1>1, NatLessThanWellFounded
<1>4. PICK m \in S : \A y \in S : ~(<<y, m>> \in R)
  BY <1>3, WFMin
<1>5. \A y \in S : ~(y < m)
  BY <1>2, <1>4
<1> QED
  BY <1>5

(* Quotient and remainder of a natural number.                             *)
LEMMA Division ==
  ASSUME NEW d \in Nat \ {0}, NEW n \in Nat
  PROVE  /\ n \div d \in Nat /\ n % d \in 0 .. d - 1
         /\ n = (n \div d) * d + (n % d)
<1> DEFINE q == n \div d
           r == n % d
<1>1. q \in Int /\ r \in 0 .. d - 1 /\ n = d * q + r
  BY SMT
<1> HIDE DEF q, r
<1>2. q >= 0
  <2> SUFFICES ASSUME q <= -1 PROVE FALSE
    BY <1>1
  <2>1. -1 \in Int /\ d * q <= d * (-1)
    BY <1>1, TimesKeepsOrder
  <2>2. d * (-1) = -d /\ d * q \in Int
    BY <1>1
  <2> QED BY <1>1, <2>1, <2>2
<1>3. q * d = d * q
  BY <1>1
<1> QED BY <1>1, <1>2, <1>3 DEF q, r

(* Cutting off its last byte makes a number smaller.                       *)
LEMMA ByteDivision ==
  ASSUME NEW n \in Nat \ {0}
  PROVE  /\ n \div Byte \in 0 .. n - 1 /\ n % Byte \in 0 .. Byte - 1
         /\ n = (n \div Byte) * Byte + (n % Byte)
<1> DEFINE q == n \div Byte
           r == n % Byte
<1>1. Byte \in Nat \ {0} /\ Byte > 1
  BY LimitAssumption
<1>2. q \in Nat /\ r \in 0 .. Byte - 1 /\ n = q * Byte + r
  BY <1>1, Division
<1> HIDE DEF q, r
<1>3. q < n
  <2>1. q * 2 <= q * Byte /\ q * Byte \in Int
    BY <1>1, <1>2, TimesKeepsOrder
  <2> QED BY <1>2, <2>1
<1> QED BY <1>2, <1>3 DEF q, r

(* g satisfies the equation of LittleEndian up to m.                       *)
Digits(g, m) ==
  g = [n \in 0 .. m |-> IF n = 0 THEN <<>> ELSE <<n % Byte>> \o g[n \div Byte]]

LEMMA DigitsExist ==
  ASSUME NEW n \in Nat
  PROVE  \E g : Digits(g, n)
<1> DEFINE S == {m \in Nat : ~\E g : Digits(g, m)}
<1>1. ASSUME S # {} PROVE FALSE
  <2>1. PICK m \in S : \A k \in S : m <= k
    BY <1>1, LeastNumber
  <2>2. m # 0
    <3>1. Digits([k \in 0 .. 0 |-> <<>>], 0)
      BY DEF Digits
    <3> QED BY <2>1, <3>1
  <2>3. m - 1 \in Nat /\ m - 1 \notin S
    BY <2>1, <2>2
  <2>4. PICK g : Digits(g, m - 1)
    BY <2>3
  <2> DEFINE h == [k \in 0 .. m |-> IF k = m THEN <<m % Byte>> \o g[m \div Byte] ELSE g[k]]
  <2>5. \A k \in 1 .. m : k \div Byte \in 0 .. m - 1 /\ k \div Byte # m
    <3> SUFFICES ASSUME NEW k \in 1 .. m
                 PROVE  k \div Byte \in 0 .. m - 1 /\ k \div Byte # m
      OBVIOUS
    <3>1. k \div Byte \in 0 .. k - 1
      BY ByteDivision
    <3> QED BY <3>1
  <2>6. \A k \in 1 .. m : h[k \div Byte] = g[k \div Byte]
    BY <2>5
  <2>7. h[0] = <<>>
    BY <2>2, <2>3, <2>4 DEF Digits
  <2>8. \A k \in 1 .. m : h[k] = <<k % Byte>> \o h[k \div Byte]
    <3> SUFFICES ASSUME NEW k \in 1 .. m
                 PROVE  h[k] = <<k % Byte>> \o g[k \div Byte]
      BY <2>6
    <3>1. CASE k = m
      BY <3>1
    <3>2. CASE k # m
      <4>1. k \in 0 .. m - 1 /\ k # 0 /\ k \in 0 .. m
        BY <3>2
      <4>2. g[k] = <<k % Byte>> \o g[k \div Byte]
        BY <2>4, <4>1 DEF Digits
      <4> QED BY <3>2, <4>1, <4>2
    <3> QED BY <3>1, <3>2
  <2>9. Digits(h, m)
    <3>1. \A k \in 0 .. m : h[k] = IF k = 0 THEN <<>> ELSE <<k % Byte>> \o h[k \div Byte]
      <4> SUFFICES ASSUME NEW k \in 0 .. m
                   PROVE  h[k] = IF k = 0 THEN <<>> ELSE <<k % Byte>> \o h[k \div Byte]
        OBVIOUS
      <4>1. k = 0 \/ k \in 1 .. m
        OBVIOUS
      <4> HIDE DEF h
      <4> QED BY <2>7, <2>8, <4>1
    <3>2. h = [k \in 0 .. m |-> h[k]]
      OBVIOUS
    <3> HIDE DEF h
    <3> QED BY <3>1, <3>2 DEF Digits
  <2> QED BY <2>1, <2>9
<1> QED BY <1>1

LEMMA DigitsAgree ==
  ASSUME NEW g, NEW m \in Nat, Digits(g, m), NEW h, NEW n \in Nat, Digits(h, n),
         NEW i \in Nat, i <= m, i <= n
  PROVE  g[i] = h[i]
<1> DEFINE S == {k \in Nat : k <= m /\ k <= n /\ g[k] # h[k]}
<1>1. ASSUME S # {} PROVE FALSE
  <2>1. PICK k \in S : \A j \in S : k <= j
    BY <1>1, LeastNumber
  <2>2. k \in 0 .. m /\ k \in 0 .. n
    BY <2>1
  <2>3. k # 0
    BY <2>1, <2>2 DEF Digits
  <2>4. k \div Byte \in 0 .. k - 1
    BY <2>1, <2>3, ByteDivision
  <2>5. g[k \div Byte] = h[k \div Byte]
    BY <2>1, <2>4
  <2>6. g[k] = <<k % Byte>> \o g[k \div Byte] /\ h[k] = <<k % Byte>> \o h[k \div Byte]
    BY <2>2, <2>3 DEF Digits
  <2> QED BY <2>1, <2>5, <2>6
<1> QED BY <1>1

LEMMA LittleEndianEquation ==
  /\ LittleEndian[0] = <<>>
  /\ \A n \in Nat \ {0} : LittleEndian[n] = <<n % Byte>> \o LittleEndian[n \div Byte]
<1> DEFINE At(n) == CHOOSE g : Digits(g, n)
           F == [n \in Nat |-> At(n)[n]]
<1>1. \A n \in Nat : Digits(At(n), n)
  BY DigitsExist
<1> HIDE DEF At
<1>2. F[0] = <<>>
  <2>1. 0 \in 0 .. 0 /\ Digits(At(0), 0)
    BY <1>1
  <2>2. At(0)[0] = <<>>
    BY <2>1 DEF Digits
  <2> QED BY <2>2
<1>3. ASSUME NEW n \in Nat \ {0} PROVE F[n] = <<n % Byte>> \o F[n \div Byte]
  <2>1. n \div Byte \in 0 .. n - 1
    BY ByteDivision
  <2>2. At(n)[n] = <<n % Byte>> \o At(n)[n \div Byte]
    <3>1. n \in 0 .. n
      OBVIOUS
    <3> QED BY <1>1, <3>1 DEF Digits
  <2>3. n \div Byte \in Nat /\ n \div Byte <= n
    BY <2>1
  <2>4. At(n)[n \div Byte] = At(n \div Byte)[n \div Byte]
    BY <1>1, <2>3, DigitsAgree
  <2> QED BY <2>2, <2>3, <2>4
<1>4. F = [n \in Nat |-> IF n = 0 THEN <<>> ELSE <<n % Byte>> \o F[n \div Byte]]
  <2>1. \A n \in Nat : F[n] = IF n = 0 THEN <<>> ELSE <<n % Byte>> \o F[n \div Byte]
    BY <1>2, <1>3
  <2>2. F = [n \in Nat |-> F[n]]
    OBVIOUS
  <2> HIDE DEF F
  <2> QED BY <2>1, <2>2
<1> HIDE DEF F
<1>5. LittleEndian =
        [n \in Nat |-> IF n = 0 THEN <<>> ELSE <<n % Byte>> \o LittleEndian[n \div Byte]]
  BY <1>4 DEF LittleEndian
<1> QED BY <1>5

(* The number of big-endian bytes, byte by byte.                           *)
Folding(g, bytes, n) ==
  g = [s \in SUBSET (1 .. n) |-> IF s = {} THEN 0
                                 ELSE NextByte(g[s \ {Max(s)}], bytes[Max(s)])]

LEMMA MaxOf ==
  ASSUME NEW m \in Nat, NEW s \in SUBSET (1 .. m)
  PROVE  /\ m \in s => Max(s) = m
         /\ s # {} => Max(s) \in s /\ \A x \in s : x <= Max(s)
<1>1. ASSUME m \in s PROVE Max(s) = m
  <2>1. \A y \in s : m >= y
    OBVIOUS
  <2>2. \A x \in s : (\A y \in s : x >= y) => x = m
    BY <1>1
  <2> QED BY <1>1, <2>1, <2>2 DEF Max
<1>2. ASSUME s # {} PROVE Max(s) \in s /\ \A x \in s : x <= Max(s)
  <2> DEFINE D == {d \in Nat : m - d \in s}
  <2>0. PICK e \in s : TRUE
    BY <1>2
  <2>1. D \in SUBSET Nat /\ m - e \in D
    BY <2>0
  <2>2. PICK x \in D : \A z \in D : x <= z
    BY <2>1, LeastNumber
  <2>3. \A z \in s : m - z \in D
    OBVIOUS
  <2>4. m - x \in s /\ \A z \in s : m - x >= z
    BY <2>2, <2>3
  <2> QED BY <2>4 DEF Max
<1> QED BY <1>1, <1>2

LEMMA FoldingExists ==
  ASSUME NEW bytes, NEW n \in Nat
  PROVE  \E g : Folding(g, bytes, n)
<1> DEFINE S == {m \in Nat : ~\E g : Folding(g, bytes, m)}
<1>1. ASSUME S # {} PROVE FALSE
  <2>1. PICK m \in S : \A k \in S : m <= k
    BY <1>1, LeastNumber
  <2>2. m # 0
    <3>1. Folding([s \in SUBSET (1 .. 0) |-> 0], bytes, 0)
      BY DEF Folding
    <3> QED BY <2>1, <3>1
  <2>3. PICK g : Folding(g, bytes, m - 1)
    BY <2>1, <2>2
  <2> DEFINE h == [s \in SUBSET (1 .. m) |-> IF m \in s THEN NextByte(g[s \ {m}], bytes[m])
                                             ELSE g[s]]
  <2>4. \A s \in SUBSET (1 .. m) : m \in s => Max(s) = m /\ s \ {m} \in SUBSET (1 .. m - 1)
    BY MaxOf
  <2>5. \A s \in SUBSET (1 .. m) : m \notin s => s \in SUBSET (1 .. m - 1)
    OBVIOUS
  <2>6. \A s \in SUBSET (1 .. m) : s # {} => Max(s) \in s
    BY MaxOf
  <2>7. ASSUME NEW s \in SUBSET (1 .. m), s # {}
        PROVE  h[s] = NextByte(h[s \ {Max(s)}], bytes[Max(s)])
    <3>1. CASE m \in s
      <4>1. m \notin s \ {m} /\ s \ {m} \in SUBSET (1 .. m)
        OBVIOUS
      <4>2. h[s \ {m}] = g[s \ {m}]
        BY <4>1
      <4> QED BY <2>4, <3>1, <4>2
    <3>2. CASE m \notin s
      <4>1. s \in SUBSET (1 .. m - 1) /\ s \ {Max(s)} \in SUBSET (1 .. m - 1)
        BY <2>5, <3>2
      <4>2. h[s] = g[s] /\ h[s \ {Max(s)}] = g[s \ {Max(s)}]
        BY <3>2, <4>1
      <4>3. g[s] = NextByte(g[s \ {Max(s)}], bytes[Max(s)])
        BY <2>3, <2>7, <4>1 DEF Folding
      <4> QED BY <4>2, <4>3
    <3> QED BY <3>1, <3>2
  <2>8. h[{}] = 0
    BY <2>3, <2>2 DEF Folding
  <2>9. Folding(h, bytes, m)
    BY <2>7, <2>8 DEF Folding
  <2> QED BY <2>1, <2>9
<1> QED BY <1>1

NumberOf(bytes) == FoldLeft(NextByte, 0, bytes)

LEMMA ByteByByte ==
  ASSUME NEW bytes, NEW n \in Nat, DOMAIN bytes = 1 .. n
  PROVE  \E st : /\ st[0] = 0
                 /\ \A k \in 1 .. n : st[k] = NextByte(st[k - 1], bytes[k])
                 /\ NumberOf(bytes) = st[n]
<1> DEFINE G == CHOOSE g : Folding(g, bytes, n)
<1>1. Folding(G, bytes, n)
  BY FoldingExists
<1>2. NumberOf(bytes) = G[1 .. n]
  BY DEF NumberOf, FoldLeft, MapThenFoldSet, Folding
<1> HIDE DEF G
<1>3. G[1 .. 0] = 0
  BY <1>1 DEF Folding
<1>4. ASSUME NEW k \in 1 .. n PROVE G[1 .. k] = NextByte(G[1 .. k - 1], bytes[k])
  <2>1. 1 .. k \in SUBSET (1 .. n) /\ k \in 1 .. k
    OBVIOUS
  <2>2. Max(1 .. k) = k
    BY <2>1, MaxOf
  <2>3. (1 .. k) \ {k} = 1 .. k - 1
    OBVIOUS
  <2> QED BY <1>1, <2>1, <2>2, <2>3 DEF Folding
<1> DEFINE st == [k \in 0 .. n |-> G[1 .. k]]
<1>5. st[0] = 0 /\ st[n] = G[1 .. n]
  BY <1>3
<1>6. \A k \in 1 .. n : st[k] = NextByte(st[k - 1], bytes[k])
  BY <1>4
<1> QED BY <1>2, <1>5, <1>6

(* One more byte at the end.                                               *)
LEMMA NumberExtended ==
  ASSUME NEW n \in Nat, NEW t, DOMAIN t = 1 .. n, NEW s, DOMAIN s = 1 .. n + 1,
         \A i \in 1 .. n : s[i] = t[i]
  PROVE  NumberOf(s) = NextByte(NumberOf(t), s[n + 1])
<1>1. PICK u : /\ u[0] = 0
               /\ \A k \in 1 .. n : u[k] = NextByte(u[k - 1], t[k])
               /\ NumberOf(t) = u[n]
  BY ByteByByte
<1>2. PICK v : /\ v[0] = 0
               /\ \A k \in 1 .. n + 1 : v[k] = NextByte(v[k - 1], s[k])
               /\ NumberOf(s) = v[n + 1]
  BY ByteByByte, n + 1 \in Nat
<1> DEFINE S == {k \in Nat : k <= n /\ v[k] # u[k]}
<1>3. ASSUME S # {} PROVE FALSE
  <2>1. PICK k \in S : \A j \in S : k <= j
    BY <1>3, LeastNumber
  <2>2. k # 0
    BY <1>1, <1>2, <2>1
  <2>3. k \in 1 .. n /\ k \in 1 .. n + 1 /\ k - 1 \in Nat /\ k - 1 \notin S
    BY <2>1, <2>2
  <2>4. v[k - 1] = u[k - 1]
    BY <2>3
  <2>5. u[k] = NextByte(u[k - 1], t[k]) /\ v[k] = NextByte(v[k - 1], s[k]) /\ s[k] = t[k]
    BY <1>1, <1>2, <2>3
  <2> QED BY <2>1, <2>4, <2>5
<1>4. v[n] = u[n]
  BY <1>3
<1>5. n + 1 \in 1 .. n + 1 /\ n + 1 - 1 = n
  OBVIOUS
<1>6. v[n + 1] = NextByte(v[n], s[n + 1])
  BY <1>2, <1>5
<1> QED BY <1>1, <1>2, <1>4, <1>6

(* Read from the last byte to the first, the bytes of a number are it.     *)
LEMMA BytesOfNumber ==
  ASSUME NEW n \in Nat
  PROVE  /\ LittleEndian[n] \in Seq(Nat)
         /\ NumberOf(Reverse(LittleEndian[n])) = n
         /\ n # 0 => LittleEndian[n] # <<>>
<1> DEFINE Good(k) == /\ LittleEndian[k] \in Seq(Nat)
                      /\ NumberOf(Reverse(LittleEndian[k])) = k
                      /\ k # 0 => LittleEndian[k] # <<>>
           S == {k \in Nat : ~Good(k)}
<1>1. Good(0)
  <2>1. LittleEndian[0] = <<>> /\ LittleEndian[0] \in Seq(Nat)
    BY LittleEndianEquation
  <2> DEFINE e == Reverse(<<>>)
  <2>2. DOMAIN e = 1 .. 0
    BY DEF Reverse
  <2> HIDE DEF e
  <2>3. NumberOf(e) = 0
    BY <2>2, ByteByByte
  <2> QED BY <2>1, <2>3 DEF e
<1>2. ASSUME S # {} PROVE FALSE
  <2>1. PICK k \in S : \A j \in S : k <= j
    BY <1>2, LeastNumber
  <2>2. k \in Nat \ {0}
    BY <1>1, <2>1
  <2> DEFINE q == k \div Byte
             r == k % Byte
             t == LittleEndian[q]
             s == LittleEndian[k]
             m == Len(t)
  <2>3. q \in 0 .. k - 1 /\ r \in 0 .. Byte - 1 /\ k = q * Byte + r
    BY <2>2, ByteDivision
  <2>4. q \in Nat /\ Good(q)
    BY <2>1, <2>3
  <2>5. s = <<r>> \o t
    BY <2>2, LittleEndianEquation
  <2> HIDE DEF q, r, s
  <2>6. r \in Nat
    BY <2>3, LimitAssumption
  <2>7. t \in Seq(Nat) /\ NumberOf(Reverse(t)) = q
    BY <2>4
  <2> HIDE DEF t
  <2>8. /\ s \in Seq(Nat) /\ m \in Nat /\ Len(s) = m + 1 /\ s[1] = r
        /\ \A i \in 1 .. m : s[i + 1] = t[i]
    BY <2>5, <2>6, <2>7
  <2>9. s # <<>>
    BY <2>8
  <2> DEFINE u == Reverse(s)
             v == Reverse(t)
  <2>10. DOMAIN u = 1 .. m + 1 /\ DOMAIN v = 1 .. m
    BY <2>8 DEF Reverse
  <2>11. \A i \in 1 .. m : u[i] = v[i]
    <3> SUFFICES ASSUME NEW i \in 1 .. m PROVE u[i] = v[i]
      OBVIOUS
    <3>1. i \in 1 .. Len(s) /\ i \in 1 .. Len(t) /\ Len(s) = m + 1
      BY <2>8
    <3>0. u[i] = s[(Len(s) - i) + 1] /\ v[i] = t[(Len(t) - i) + 1]
      BY <3>1 DEF Reverse
    <3>2. m - i + 1 \in 1 .. m /\ (Len(s) - i) + 1 = (m - i + 1) + 1
      BY <2>8
    <3>3. s[(m - i + 1) + 1] = t[m - i + 1]
      BY <2>8, <3>2
    <3> QED BY <3>0, <3>2, <3>3
  <2>12. u[m + 1] = r
    BY <2>8 DEF Reverse
  <2> HIDE DEF u, v, m
  <2>13. NumberOf(u) = NextByte(NumberOf(v), u[m + 1])
    BY <2>8, <2>10, <2>11, NumberExtended
  <2>14. NumberOf(u) = k
    BY <2>3, <2>7, <2>12, <2>13 DEF NextByte, v
  <2>15. s = LittleEndian[k]
    BY DEF s
  <2>16. Good(k)
    BY <2>8, <2>9, <2>14, <2>15 DEF u
  <2> HIDE DEF Good
  <2> QED BY <2>1, <2>16
<1> QED BY <1>2

(* DuckDB makes of the bytes of create_bignum the number that was given.   *)
LEMMA BignumKept ==
  ASSUME NEW v \in Int
  PROVE  CreateBignum(v).is = "bignum" /\ BignumOf(CreateBignum(v)) = v
<1> DEFINE a == IF v < 0 THEN -v ELSE v
           bytes == LittleEndian[a]
           data == Reverse(IF bytes = <<>> THEN <<0>> ELSE bytes)
<1>1. a \in Nat
  OBVIOUS
<1>2. NumberOf(data) = a
  <2>1. CASE bytes = <<>>
    <3>1. a = 0
      BY <1>1, <2>1, BytesOfNumber
    <3> DEFINE z == Reverse(<<0>>)
               e == <<>>
    <3>2. DOMAIN z = 1 .. 0 + 1 /\ z[0 + 1] = 0 /\ DOMAIN e = 1 .. 0 /\ data = z
      BY <2>1 DEF Reverse
    <3> HIDE DEF z, e
    <3>3. NumberOf(e) = 0
      BY <3>2, ByteByByte
    <3>4. NumberOf(z) = NextByte(NumberOf(e), z[0 + 1])
      <4>1. 0 \in Nat /\ \A i \in 1 .. 0 : z[i] = e[i]
        OBVIOUS
      <4> QED BY ONLY <3>2, <4>1, NumberExtended
    <3>5. NextByte(0, 0) = 0
      BY LimitAssumption DEF NextByte
    <3> QED BY <3>1, <3>2, <3>3, <3>4, <3>5
  <2>2. CASE bytes # <<>>
    BY <1>1, <2>2, BytesOfNumber
  <2> QED BY <2>1, <2>2
<1>3. CASE v < 0
  <2>1. (v < 0) = TRUE
    BY <1>3
  <2>2. CreateBignum(v) = [is |-> "bignum", negative |-> TRUE, data |-> data]
    BY <2>1, Zenon DEF CreateBignum
  <2> HIDE DEF data
  <2>3. /\ CreateBignum(v).data = data /\ CreateBignum(v).is = "bignum"
        /\ CreateBignum(v).negative
    BY <2>2
  <2>4. BignumOf(CreateBignum(v)) = -a
    BY <1>2, <2>3 DEF BignumOf, NumberOf
  <2> QED BY <1>3, <2>3, <2>4
<1>4. CASE ~(v < 0)
  <2>1. (v < 0) = FALSE
    BY <1>4
  <2>2. CreateBignum(v) = [is |-> "bignum", negative |-> FALSE, data |-> data]
    BY <2>1, Zenon DEF CreateBignum
  <2> HIDE DEF data
  <2>3. /\ CreateBignum(v).data = data /\ CreateBignum(v).is = "bignum"
        /\ ~CreateBignum(v).negative
    BY <2>2
  <2>4. BignumOf(CreateBignum(v)) = a
    BY <1>2, <2>3 DEF BignumOf, NumberOf
  <2> QED BY <1>4, <2>3, <2>4
<1> QED BY <1>3, <1>4

-----------------------------------------------------------------------------
(* Doubles and times.                                                      *)

LEMMA DivisionKeepsOrder ==
  ASSUME NEW d \in Nat \ {0}, NEW a \in Nat, NEW b \in Nat, a <= b
  PROVE  a \div d <= b \div d
<1> DEFINE p == a \div d
           q == b \div d
<1>1. /\ p \in Nat /\ q \in Nat /\ a % d \in 0 .. d - 1 /\ b % d \in 0 .. d - 1
      /\ a = p * d + (a % d) /\ b = q * d + (b % d)
  BY Division
<1> HIDE DEF p, q
<1>2. SUFFICES ASSUME q + 1 <= p PROVE FALSE
  BY <1>1 DEF p, q
<1>3. d * (q + 1) <= d * p
  BY <1>1, <1>2, TimesKeepsOrder
<1>4. d * (q + 1) = q * d + d /\ d * p = p * d /\ q * d \in Int /\ p * d \in Int
  BY <1>1
<1> QED BY <1>1, <1>3, <1>4

LEMMA QuotientIs ==
  ASSUME NEW d \in Nat \ {0}, NEW n \in Nat, NEW q \in Nat, d * q <= n, n < d * q + d
  PROVE  n \div d = q
<1> DEFINE p == n \div d
           r == n % d
<1>1. p \in Nat /\ r \in 0 .. d - 1 /\ n = p * d + r
  BY Division
<1> HIDE DEF p, r
<1>2. p * d = d * p /\ d * p \in Int /\ d * q \in Int
  BY <1>1
<1>3. CASE q + 1 <= p
  <2>1. d * (q + 1) <= d * p /\ d * (q + 1) = d * q + d
    BY <1>1, <1>3, TimesKeepsOrder
  <2> QED BY <1>1, <1>2, <2>1
<1>4. CASE p + 1 <= q
  <2>1. d * (p + 1) <= d * q /\ d * (p + 1) = d * p + d
    BY <1>1, <1>4, TimesKeepsOrder
  <2> QED BY <1>1, <1>2, <2>1
<1> QED BY <1>1, <1>3, <1>4 DEF p

(* What HalfEven rounds to is the quotient or the next number, and the     *)
(* next one only when the remainder is half the divisor or more.           *)
LEMMA HalfEvenBounds ==
  ASSUME NEW d \in Nat \ {0}, NEW n \in Nat
  PROVE  \E q \in Nat, r \in 0 .. d - 1 :
           /\ n = d * q + r
           /\ HalfEven(n, d) = q \/ (HalfEven(n, d) = q + 1 /\ d <= 2 * r)
<1> DEFINE q == n \div d
           r == n % d
<1>1. q \in Nat /\ r \in 0 .. d - 1 /\ n = q * d + r
  BY Division
<1>2. HalfEven(n, d) = IF 2 * r > d \/ (2 * r = d /\ q % 2 = 1) THEN q + 1 ELSE q
  BY DEF HalfEven
<1> HIDE DEF q, r
<1>3. n = d * q + r
  BY <1>1
<1>4. HalfEven(n, d) = q \/ (HalfEven(n, d) = q + 1 /\ d <= 2 * r)
  BY <1>1, <1>2
<1> QED BY <1>1, <1>3, <1>4

(* Truncating a quotient held to more than one binary digit gives the      *)
(* quotient of the whole numbers.                                          *)
LEMMA RoundingKeepsQuotient ==
  ASSUME NEW a \in Nat, NEW d \in Nat \ {0}, NEW p \in Nat \ {0}, d < 2 * p
  PROVE  HalfEven(a * p, d) \in Nat /\ HalfEven(a * p, d) \div p = a \div d
<1> DEFINE q == a \div d
           r == a % d
           m == HalfEven(a * p, d)
           qp == q * p
           rp == r * p
<1>1. q \in Nat /\ r \in 0 .. d - 1 /\ a = q * d + r
  BY Division
<1>2. a * p \in Nat
  OBVIOUS
<1>3. PICK Q \in Nat, R \in 0 .. d - 1 :
        a * p = d * Q + R /\ (m = Q \/ (m = Q + 1 /\ d <= 2 * R))
  BY <1>2, HalfEvenBounds
<1> HIDE DEF q, r, m
<1>4. qp \in Nat /\ rp \in Nat /\ a * p = d * qp + rp
  BY <1>1
<1>5. p * (r + 1) <= p * d /\ p * (r + 1) = rp + p
  BY <1>1, TimesKeepsOrder
<1>6. p * d = d * p /\ d * p \in Int /\ d * qp \in Int /\ d * Q \in Int
  BY <1>3, <1>4
<1> HIDE DEF qp, rp
<1>7. qp <= Q
  <2> SUFFICES ASSUME Q + 1 <= qp PROVE FALSE
    BY <1>3, <1>4
  <2>1. d * (Q + 1) <= d * qp /\ d * (Q + 1) = d * Q + d
    BY <1>3, <1>4, TimesKeepsOrder
  <2> QED BY <1>3, <1>4, <1>6, <2>1
<1>8. m < qp + p
  <2> SUFFICES ASSUME qp + p <= m PROVE FALSE
    BY <1>3, <1>4
  <2>1. d * (qp + p) <= d * m /\ d * (qp + p) = d * qp + d * p
    BY <1>3, <1>4, TimesKeepsOrder
  <2>2. CASE m = Q
    BY <1>3, <1>4, <1>5, <1>6, <2>1, <2>2
  <2>3. CASE m = Q + 1 /\ d <= 2 * R
    <3>1. d * m = d * Q + d
      BY <1>3, <2>3
    <3> QED BY <1>3, <1>4, <1>5, <1>6, <2>1, <2>3, <3>1
  <2> QED BY <1>3, <2>2, <2>3
<1>9. p * q <= m /\ m < p * q + p /\ m \in Nat
  BY <1>1, <1>3, <1>4, <1>7, <1>8 DEF qp
<1>10. m \div p = q
  BY <1>1, <1>9, QuotientIs
<1> QED BY <1>9, <1>10 DEF m, q

(* A whole number that a double holds exactly, divided by one or by Unit   *)
(* in doubles and truncated, is the quotient of the whole numbers.         *)
LEMMA QuotientKept ==
  ASSUME NEW n \in Int, Size(n) <= Safe, NEW d \in {1, Unit}
  PROVE  Truncated(Nearest(n, d)) = Signed(n, Size(n) \div d)
<1> DEFINE a == Size(n)
           P == {p \in Scales : a * p <= Safe * d}
           over == Max(P)
           m == HalfEven(a * over, d)
<1>1. /\ a \in Nat /\ d \in Nat \ {0} /\ Safe \in Nat /\ Unit \in Nat \ {0}
      /\ MaxScale \in Nat /\ d <= Unit
  BY LimitAssumption, ScaleAssumption DEF Size
<1>2. a * 1 <= Safe * d /\ a <= Safe * d /\ a * d <= Safe * d
  <2>1. Safe * 1 <= Safe * d /\ Safe * 1 = Safe /\ a * 1 = a /\ Safe * d \in Int
    BY <1>1, TimesKeepsOrder
  <2>2. d * a <= d * Safe /\ d * a = a * d /\ d * Safe = Safe * d
    BY <1>1, TimesKeepsOrder
  <2> QED BY <1>1, <2>1, <2>2
<1>3. over \in Scales /\ a * over <= Safe * d /\ \A x \in P : x <= over
  <2>1. P \in SUBSET (1 .. MaxScale) /\ 1 \in P
    BY <1>2, ScaleAssumption
  <2>2. over \in P /\ \A x \in P : x <= over
    BY <1>1, <2>1, MaxOf
  <2> HIDE DEF over
  <2> QED BY <2>2
<1>4. over \in Nat \ {0}
  <2> HIDE DEF over
  <2> QED BY <1>1, <1>3, ScaleAssumption
<1>5. Nearest(n, d) = [is |-> "double", num |-> Signed(n, m), den |-> over]
  BY <1>2 DEF Nearest
<1> HIDE DEF over
<1>6. d < 2 * over
  <2>1. CASE over >= Unit
    BY <1>1, <1>4, <2>1
  <2>2. CASE 2 * over \in Scales
    <3>1. ~(a * (2 * over) <= Safe * d)
      BY <1>3, <1>4, <2>2
    <3>2. CASE 2 * over <= d
      <4>1. a * (2 * over) <= a * d
        BY <1>1, <1>4, <3>2, TimesKeepsOrder
      <4> QED BY <1>1, <1>2, <1>4, <3>1, <4>1
    <3> QED BY <1>1, <1>4, <3>2
  <2> QED BY <1>3, <2>1, <2>2, ScaleAssumption
<1>7. m \in Nat /\ m \div over = a \div d
  BY <1>1, <1>4, <1>6, RoundingKeepsQuotient
<1> HIDE DEF a, m
<1>8. Truncated(Nearest(n, d)) = Signed(Signed(n, m), Size(Signed(n, m)) \div over)
  BY <1>5 DEF Truncated
<1>9. Size(Signed(n, m)) = m
  BY <1>7 DEF Size, Signed
<1>10. Signed(Signed(n, m), m \div over) = Signed(n, m \div over)
  <2>1. CASE m = 0
    <3>1. 0 \div over = 0
      BY <1>4, QuotientIs
    <3> QED BY <2>1, <3>1 DEF Signed
  <2>2. CASE m # 0
    BY <1>7, <2>2 DEF Signed
  <2> QED BY <2>1, <2>2
<1> QED BY <1>7, <1>8, <1>9, <1>10 DEF a

LEMMA ExactUpToSafe ==
  ASSUME NEW n \in Int, Size(n) <= Safe
  PROVE  Rounded(n) = n
<1>1. Size(n) \in Nat /\ Signed(n, Size(n)) = n
  BY DEF Size, Signed
<1>2. Size(n) \div 1 = Size(n)
  BY <1>1, QuotientIs
<1> QED BY <1>1, <1>2, QuotientKept DEF Rounded

(* A TIMESTAMP that a double holds exactly reads as a Date no further from *)
(* it than a millisecond.                                                  *)
LEMMA DateIsNear ==
  ASSUME NEW n \in Int, Size(n) <= Safe
  PROVE  TimestampDate(n).is = "int" /\ Size(n - TimestampDate(n).n * Unit) < Unit
<1> DEFINE a == Size(n)
           q == a \div Unit
           r == a % Unit
           ms == Signed(n, q)
           far == Safe \div Unit
<1>1. a \in Nat /\ Unit \in Nat \ {0} /\ Safe \in Nat
  BY LimitAssumption DEF Size
<1>2. q \in Nat /\ r \in 0 .. Unit - 1 /\ a = q * Unit + r
  BY <1>1, Division
<1>3. Truncated(Nearest(Rounded(n), Unit)) = ms
  BY ExactUpToSafe, QuotientKept
<1>4. far \in Nat /\ q <= far
  BY <1>1, Division, DivisionKeepsOrder
<1>5. -far .. far \subseteq JsMillis
  BY LimitAssumption
<1> HIDE DEF a, q, r, far
<1>6. ms \in JsMillis
  BY <1>2, <1>4, <1>5 DEF Signed
<1>7. TimestampDate(n) = Num(ms)
  BY <1>3, <1>6 DEF TimestampDate
<1>8. TimestampDate(n).is = "int" /\ TimestampDate(n).n = ms
  BY <1>7 DEF Num
<1>9. CASE n < 0
  <2>1. ms = -q /\ n = -a /\ (-q) * Unit = -(q * Unit) /\ q * Unit \in Int
    BY <1>1, <1>2, <1>9 DEF Signed, Size, a
  <2>2. n - ms * Unit = -r
    BY <1>1, <1>2, <2>1
  <2> QED BY <1>1, <1>2, <1>8, <2>2 DEF Size
<1>10. CASE ~(n < 0)
  <2>1. ms = q /\ n = a /\ q * Unit \in Int
    BY <1>1, <1>2, <1>10 DEF Signed, Size, a
  <2>2. n - ms * Unit = r
    BY <1>1, <1>2, <2>1
  <2> QED BY <1>1, <1>2, <1>8, <2>2 DEF Size
<1> QED BY <1>9, <1>10

(* The string of a time that is not negative is that time.                 *)
LEMMA TimeIsKept ==
  ASSUME NEW n \in Nat
  PROVE  IsTime(n, TimeString(n))
<1> DEFINE sec == n \div Unit
           us == n % Unit
           mins == sec \div Sixty
           s == sec % Sixty
           h == mins \div Sixty
           m == mins % Sixty
           long == Sixty * Sixty
<1>1. Unit \in Nat \ {0} /\ Sixty \in Nat \ {0}
  BY LimitAssumption
<1>2. sec \in Nat /\ us \in 0 .. Unit - 1 /\ n = sec * Unit + us
  BY <1>1, Division
<1> HIDE DEF sec, us
<1>3. mins \in Nat /\ s \in 0 .. Sixty - 1 /\ sec = mins * Sixty + s
  BY <1>1, <1>2, Division
<1> HIDE DEF mins, s
<1>4. h \in Nat /\ m \in 0 .. Sixty - 1 /\ mins = h * Sixty + m
  BY <1>1, <1>3, Division
<1> HIDE DEF h, m
<1>5. sec \div long = h
  <2> DEFINE rest == m * Sixty + s
  <2>1. sec = long * h + m * Sixty + s /\ long \in Nat \ {0} /\ long * h \in Int
    <3>1. mins * Sixty = (h * Sixty) * Sixty + m * Sixty
      BY <1>1, <1>4
    <3>2. (h * Sixty) * Sixty = long * h /\ long \in Nat \ {0} /\ long * h \in Int
      BY <1>1, <1>4
    <3> QED BY <1>1, <1>3, <1>4, <3>1, <3>2
  <2>2. Sixty * (m + 1) <= Sixty * Sixty /\ Sixty * (m + 1) = m * Sixty + Sixty
        /\ m * Sixty \in Nat
    BY <1>1, <1>4, TimesKeepsOrder
  <2> HIDE DEF long
  <2>3. long * h <= sec /\ sec < long * h + long
    BY <1>1, <1>3, <1>4, <2>1, <2>2 DEF long
  <2> QED BY <1>2, <1>4, <2>1, <2>3, QuotientIs
<1>6. TimeString(n) = [is |-> "time", us |-> us, s |-> s, m |-> m, h |-> h]
  BY <1>5 DEF TimeString, sec, us, mins, s, m, long
<1>7. /\ TimeString(n).is = "time" /\ TimeString(n).us = us /\ TimeString(n).s = s
      /\ TimeString(n).m = m /\ TimeString(n).h = h
  BY <1>6
<1> QED BY <1>2, <1>3, <1>4, <1>7 DEF IsTime

-----------------------------------------------------------------------------
(* What the client reads of the cell that a value becomes, by type.        *)

Read(t, v, c) == DecodeCell(t, DecimalScale(v), c)

ReadsAs(t, v, c) ==
  /\ c # Null
  /\ t # "INTERVAL" => Read(t, v, c) # Null
  /\ Read(t, v, c) = Throw => t = "DATE" /\ v.n \notin JsDays
  /\ Promised(t, v, Read(t, v, c)) \/ LostWritten(t, v) \/ LostRead(t, v)
  /\ c.is = "bignum" => BignumOf(c) = v.n

Routes == AppendRoutes \cup BindRoutes

(* The cell that the program's value becomes.                              *)
Written(t, v, c) ==
  /\ route \in Routes /\ (route = "client" => t \in ClientTypes)
  /\ ValueFor(t, v)
  /\ c = Encode(route, t, v) /\ c # Throw /\ c # Uncastable

LEMMA Kinds ==
  /\ Null.is = "null" /\ NaN.is = "nan" /\ Fraction.is = "fraction"
  /\ Throw.is = "throw" /\ Uncastable.is = "text"
  /\ \A n : Num(n).is = "int" /\ Num(n).n = n
  /\ \A b : Bytes(b).is = "bytes" /\ Bytes(b).b = b
  /\ \A w : Words(w).is = "words"
  /\ \A b : StringCell(b).is = "string"
BY DEF Null, NaN, Fraction, Throw, Uncastable, Num, Bytes, Words, StringCell

LEMMA DecimalKind == \A n, scale : Decimal(n, scale).is = "decimal"
BY DEF Decimal

LEMMA NearestKind == \A n, d : Nearest(n, d).is = "double"
BY DEF Nearest

(* What an integer argument of an FFI call makes of a number.              *)
LEMMA IntegerArguments ==
  ASSUME NEW v, v.n \in Int
  PROVE  /\ FfiI64(v).is = "int" /\ FfiI32(v).is = "int"
         /\ v.n \in Int64 => FfiI64(v).n = v.n
         /\ v.n \in Int32 => FfiI32(v).n = v.n
<1>1. HalfInt \in Nat \ {0}
  BY WordAssumption
<1>2. v.n \in Int32 => ((v.n + HalfInt) % (2 * HalfInt)) - HalfInt = v.n
  <2> SUFFICES ASSUME v.n \in Int32
               PROVE  ((v.n + HalfInt) % (2 * HalfInt)) - HalfInt = v.n
    OBVIOUS
  <2>1. v.n + HalfInt \in 0 .. 2 * HalfInt - 1
    BY <1>1 DEF Int32
  <2>2. (v.n + HalfInt) % (2 * HalfInt) = v.n + HalfInt
    BY <1>1, <2>1
  <2> QED BY <1>1, <2>2
<1> QED BY <1>2, Kinds, SignedWordKept DEF FfiI64, FfiI32

LEMMA NumberWritten ==
  ASSUME NEW t \in {"BOOLEAN", "DATE", "TIME", "TIMESTAMP", "INTERVAL"}, NEW v, NEW c,
         Written(t, v, c)
  PROVE  /\ v = Num(v.n) /\ v.n \in Int /\ v.is = "int" /\ DecimalScale(v) = 0
         /\ c = CASE t = "BOOLEAN" -> v [] t = "DATE" -> FfiI32(v) [] OTHER -> FfiI64(v)
<1>1. v = Num(v.n) /\ v.n \in Int
  BY DEF Written, ValueFor
<1>2. v # Null /\ v.is = "int"
  BY <1>1, Kinds
<1>3. c = CASE t = "BOOLEAN" -> v [] t = "DATE" -> FfiI32(v) [] OTHER -> FfiI64(v)
  BY <1>2 DEF Written, Routes, AppendRoutes, BindRoutes, Encode, AppendTyped, BindTyped,
     ClientBind, Direct, CreateValue, StubBinds, DirectBinds, DirectAppends, ClientTypes
<1> QED BY <1>1, <1>2, <1>3 DEF DecimalScale

LEMMA BooleanReads ==
  ASSUME NEW v, NEW c, Written("BOOLEAN", v, c)
  PROVE  ReadsAs("BOOLEAN", v, c)
<1>1. c = v /\ v.is = "int"
  BY NumberWritten
<1>2. Read("BOOLEAN", v, c) = c /\ Promised("BOOLEAN", v, c)
  BY <1>1 DEF Read, DecodeCell, Promised
<1> QED BY <1>1, <1>2, Kinds DEF ReadsAs

LEMMA DateReads ==
  ASSUME NEW v, NEW c, Written("DATE", v, c)
  PROVE  ReadsAs("DATE", v, c)
<1>1. c = FfiI32(v) /\ v.n \in Int
  BY NumberWritten
<1>2. c.is = "int" /\ (v.n \in Int32 => c.n = v.n)
  BY <1>1, IntegerArguments
<1>3. Read("DATE", v, c) = DateString(c.n)
  BY DEF Read, DecodeCell
<1>4. LostRead("DATE", v) <=> v.n \notin ShortDays
  BY DEF LostRead
<1>5. DateString(c.n) = Throw => c.n \notin JsDays
  BY Kinds DEF DateString
<1>6. DateString(c.n) # Null
  BY Kinds DEF DateString
<1>7. JsDays \subseteq Int32 /\ ShortDays \subseteq JsDays
  BY LimitAssumption DEF Int32
<1>8. v.n \in JsDays => c.n = v.n
  BY <1>2, <1>7
<1>9. v.n \in ShortDays => Promised("DATE", v, DateString(c.n))
  BY <1>7, <1>8 DEF DateString, Promised
<1> QED BY <1>2, <1>3, <1>4, <1>5, <1>6, <1>8, <1>9, Kinds DEF ReadsAs

LEMMA TimeReads ==
  ASSUME NEW v, NEW c, Written("TIME", v, c)
  PROVE  ReadsAs("TIME", v, c)
<1>1. c = FfiI64(v) /\ v.n \in Int
  BY NumberWritten
<1>2. c.is = "int" /\ (v.n \in Int64 => c.n = v.n)
  BY <1>1, IntegerArguments
<1>3. Read("TIME", v, c) = TimeString(AsIntN(c.n))
  BY DEF Read, DecodeCell
<1>4. Read("TIME", v, c).is = "time"
  BY <1>3 DEF TimeString
<1>5. /\ LostRead("TIME", v) <=> v.n < 0
      /\ LostWritten("TIME", v) <=> v.n \notin Int64
  BY DEF LostRead, LostWritten
<1>6. v.n \in Int64 /\ v.n >= 0 => Promised("TIME", v, Read("TIME", v, c))
  <2> SUFFICES ASSUME v.n \in Int64, v.n >= 0 PROVE IsTime(v.n, Read("TIME", v, c))
    BY DEF Promised
  <2>1. Read("TIME", v, c) = TimeString(v.n)
    BY <1>2, <1>3, SignedWordKept
  <2>2. v.n \in Nat
    BY <1>1
  <2> QED BY <2>1, <2>2, TimeIsKept
<1> QED BY <1>1, <1>2, <1>4, <1>5, <1>6, Kinds DEF ReadsAs

LEMMA TimestampReads ==
  ASSUME NEW v, NEW c, Written("TIMESTAMP", v, c)
  PROVE  ReadsAs("TIMESTAMP", v, c)
<1>1. c = FfiI64(v) /\ v.n \in Int
  BY NumberWritten
<1>2. c.is = "int" /\ (v.n \in Int64 => c.n = v.n)
  BY <1>1, IntegerArguments
<1>3. Read("TIMESTAMP", v, c) = TimestampDate(c.n)
  BY DEF Read, DecodeCell
<1>4. TimestampDate(c.n).is \in {"int", "invalid date"}
  BY Kinds DEF TimestampDate, InvalidDate
<1>5. /\ LostRead("TIMESTAMP", v) <=> Size(v.n) > Safe
      /\ LostWritten("TIMESTAMP", v) <=> v.n \notin Int64
  BY DEF LostRead, LostWritten
<1>6. v.n \in Int64 /\ Size(v.n) <= Safe => Promised("TIMESTAMP", v, TimestampDate(c.n))
  BY <1>1, <1>2, DateIsNear DEF Promised
<1>7. Size(v.n) <= Safe \/ Size(v.n) > Safe
  BY <1>1, LimitAssumption DEF Size
<1> QED BY <1>2, <1>3, <1>4, <1>5, <1>6, <1>7, Kinds DEF ReadsAs

LEMMA IntervalReads ==
  ASSUME NEW v, NEW c, Written("INTERVAL", v, c)
  PROVE  ReadsAs("INTERVAL", v, c)
<1>1. c = FfiI64(v) /\ v.n \in Int
  BY NumberWritten
<1>2. c.is = "int"
  BY <1>1, IntegerArguments
<1>3. Read("INTERVAL", v, c) = Null /\ LostRead("INTERVAL", v)
  BY DEF Read, DecodeCell, LostRead
<1> QED BY <1>2, <1>3, Kinds DEF ReadsAs

LEMMA TimeTzReads ==
  ASSUME NEW v, NEW c, Written("TIME_TZ", v, c)
  PROVE  ReadsAs("TIME_TZ", v, c)
<1>1. v.is = "timetz"
  BY DEF Written, ValueFor
<1>2. v # Null
  BY <1>1, Kinds
<1>3. c = Num(AsUintN(TimeTzBits(v.micros, v.offset)))
  BY <1>2 DEF Written, Routes, AppendRoutes, BindRoutes, Encode, AppendTyped, BindTyped,
     CreateValue, StubBinds, DirectBinds, DirectAppends, ClientTypes
<1>4. Read("TIME_TZ", v, c) = TimeString(AsIntN(c.n)) /\ LostRead("TIME_TZ", v)
  BY DEF Read, DecodeCell, LostRead
<1>5. Read("TIME_TZ", v, c).is = "time" /\ c.is = "int"
  BY <1>3, <1>4, Kinds DEF TimeString
<1> QED BY <1>4, <1>5, Kinds DEF ReadsAs

LEMMA BigintReads ==
  ASSUME NEW v, NEW c, Written("BIGINT", v, c)
  PROVE  ReadsAs("BIGINT", v, c)
<1>1. v = Num(v.n) /\ v.n \in Int
  BY DEF Written, ValueFor
<1>2. v # Null
  BY <1>1, Kinds
<1>3. c = Num(AsIntN(v.n))
  BY <1>2 DEF Written, Routes, AppendRoutes, BindRoutes, Encode, AppendTyped, BindTyped,
     ClientBind, Direct, CreateValue, FfiI64, StubBinds, DirectBinds, DirectAppends, ClientTypes
<1>4. Read("BIGINT", v, c) = c /\ (\A x : Promised("BIGINT", v, x) <=> x = v)
      /\ (LostWritten("BIGINT", v) <=> v.n \notin Int64)
  BY DEF Read, DecodeCell, Promised, LostWritten
<1>5. v.n \in Int64 => c = v
  BY <1>1, <1>3, SignedWordKept
<1> QED BY <1>3, <1>4, <1>5, Kinds DEF ReadsAs

(* The 128-bit types.                                                      *)
LEMMA HugeintReads ==
  ASSUME NEW v, NEW c, Written("HUGEINT", v, c)
  PROVE  ReadsAs("HUGEINT", v, c)
<1>1. v = Num(v.n) /\ v.n \in Int
  BY DEF Written, ValueFor
<1>2. v # Null
  BY <1>1, Kinds
<1>3. c = Words(SplitI128(v.n))
  BY <1>2 DEF Written, Routes, AppendRoutes, BindRoutes, Encode, AppendTyped, BindTyped,
     ClientBind, Direct, CreateValue, StubBinds, DirectBinds, DirectAppends, ClientTypes
<1>4. Read("HUGEINT", v, c) = Num(ReadHugeint(c)) /\ (\A x : Promised("HUGEINT", v, x) <=> x = v)
      /\ (LostWritten("HUGEINT", v) <=> v.n \notin Int128)
  BY DEF Read, DecodeCell, Promised, LostWritten
<1>5. v.n \in Int128 => ReadHugeint(c) = v.n
  BY <1>3, HugeintsRoundTrip
<1> QED BY <1>1, <1>3, <1>4, <1>5, Kinds DEF ReadsAs

LEMMA UhugeintReads ==
  ASSUME NEW v, NEW c, Written("UHUGEINT", v, c)
  PROVE  ReadsAs("UHUGEINT", v, c)
<1>1. v = Num(v.n) /\ v.n \in Int
  BY DEF Written, ValueFor
<1>2. v # Null
  BY <1>1, Kinds
<1>3. c = Words(SplitU128(v.n))
  BY <1>2 DEF Written, Routes, AppendRoutes, BindRoutes, Encode, AppendTyped, BindTyped,
     ClientBind, Direct, CreateValue, StubBinds, DirectBinds, DirectAppends, ClientTypes
<1>4. Read("UHUGEINT", v, c) = Num(ReadUhugeint(c)) /\ (\A x : Promised("UHUGEINT", v, x) <=> x = v)
      /\ (LostWritten("UHUGEINT", v) <=> v.n \notin UInt128)
  BY DEF Read, DecodeCell, Promised, LostWritten
<1>5. v.n \in UInt128 => ReadUhugeint(c) = v.n
  BY <1>3, UhugeintsRoundTrip
<1> QED BY <1>1, <1>3, <1>4, <1>5, Kinds DEF ReadsAs

LEMMA UuidReads ==
  ASSUME NEW v, NEW c, Written("UUID", v, c)
  PROVE  ReadsAs("UUID", v, c)
<1>1. v = Num(v.n) /\ v.n \in Int
  BY DEF Written, ValueFor
<1>2. v # Null
  BY <1>1, Kinds
<1>3. c = CreateUuid(v.n)
  BY <1>2 DEF Written, Routes, AppendRoutes, BindRoutes, Encode, AppendTyped, BindTyped,
     CreateValue, StubBinds, DirectBinds, DirectAppends, ClientTypes
<1>4. Read("UUID", v, c) = Num(UuidString(c)) /\ (\A x : Promised("UUID", v, x) <=> x = v)
      /\ (LostWritten("UUID", v) <=> v.n \notin UInt128)
  BY DEF Read, DecodeCell, Promised, LostWritten
<1>5. v.n \in UInt128 => UuidString(c) = v.n
  BY <1>3, UuidsRoundTrip
<1>6. c.is = "words"
  BY <1>3, Kinds DEF CreateUuid
<1> QED BY <1>1, <1>4, <1>5, <1>6, Kinds DEF ReadsAs

LEMMA WordInTwo ==
  ASSUME NEW n \in Int64
  PROVE  n \in Int128
<1>1. Half \in Nat /\ Full \in Nat /\ 1 <= Full /\ n \in Int /\ -Half <= n /\ n < Half
  BY WordAssumption DEF Full, Int64
<1>2. Half * 1 <= Half * Full
  BY <1>1, TimesKeepsOrder
<1>3. Half * 1 = Half /\ Half * Full \in Int
  BY <1>1
<1> DEFINE p == Half * Full
<1>4. Int128 = -p .. p - 1
  BY DEF Int128
<1> HIDE DEF p
<1>5. Half <= p /\ p \in Int
  BY <1>2, <1>3 DEF p
<1> QED BY <1>1, <1>4, <1>5

LEMMA DecimalReads ==
  ASSUME NEW t \in {"DECIMAL18", "DECIMAL38"}, NEW v, NEW c, Written(t, v, c)
  PROVE  ReadsAs(t, v, c)
<1> DEFINE power == Ten ^ v.scale
           number == IF t = "DECIMAL38" THEN ReadHugeint(c) ELSE c.n
<1>1. v = Decimal(v.n, v.scale) /\ v.n \in Int /\ (t = "DECIMAL18" => v.n \in Int64)
  BY WordAssumption DEF Written, ValueFor, Int64
<1>2. v # Null /\ v.is = "decimal"
  BY <1>1, Kinds, DecimalKind
<1>3. c = IF t = "DECIMAL38" THEN Words(SplitI128(v.n))
          ELSE Num(JoinI128(SplitI128(v.n).lower, SplitI128(v.n).upper))
  BY <1>2 DEF Written, Routes, AppendRoutes, BindRoutes, Encode, AppendTyped, BindTyped,
     CreateValue, StubBinds, DirectBinds, DirectAppends, ClientTypes
<1>4. Read(t, v, c) = Nearest(Rounded(number), Rounded(power))
  BY <1>2 DEF Read, DecodeCell, ReadDecimal, DecimalScale
<1>5. /\ LostRead(t, v) <=> v.n # Rounded(v.n) \/ power # Rounded(power)
      /\ t = "DECIMAL38" => (LostWritten(t, v) <=> v.n \notin Int128)
      /\ \A x : Promised(t, v, x) <=> x = Nearest(v.n, power)
  BY DEF Promised, LostRead, LostWritten
<1> HIDE DEF power
<1>6. t = "DECIMAL38" /\ v.n \in Int128 => number = v.n
  BY <1>3, HugeintsRoundTrip
<1>7. t = "DECIMAL18" => number = v.n
  BY <1>1, <1>3, WordInTwo, HugeintsRoundTrip, Kinds
<1> HIDE DEF number
<1>8. c.is \in {"words", "int"}
  BY <1>3, Kinds
<1>9. Read(t, v, c) = Nearest(v.n, power) \/ LostWritten(t, v) \/ LostRead(t, v)
  BY <1>4, <1>5, <1>6, <1>7
<1>10. Read(t, v, c).is = "double"
  BY <1>4, NearestKind
<1> QED BY <1>5, <1>8, <1>9, <1>10, Kinds DEF ReadsAs

LEMMA BignumReads ==
  ASSUME NEW v, NEW c, Written("BIGNUM", v, c)
  PROVE  ReadsAs("BIGNUM", v, c)
<1>1. v = Num(v.n) /\ v.n \in Int
  BY DEF Written, ValueFor
<1>2. v # Null
  BY <1>1, Kinds
<1>3. c = CreateBignum(v.n)
  BY <1>2 DEF Written, Routes, AppendRoutes, BindRoutes, Encode, AppendTyped, BindTyped,
     CreateValue, StubBinds, DirectBinds, DirectAppends, ClientTypes
<1>4. Read("BIGNUM", v, c) = [is |-> "misread"] /\ LostRead("BIGNUM", v)
  BY DEF Read, DecodeCell, LostRead
<1>5. Read("BIGNUM", v, c).is = "misread"
  BY <1>4
<1>6. c.is = "bignum" /\ BignumOf(c) = v.n
  BY <1>1, <1>3, BignumKept
<1> QED BY <1>4, <1>5, <1>6, Kinds DEF ReadsAs

LEMMA DoubleReads ==
  ASSUME NEW v, NEW c, Written("DOUBLE", v, c)
  PROVE  ReadsAs("DOUBLE", v, c)
<1>1. v \in {NaN, Fraction} \/ (v = Num(v.n) /\ v.n \in Int)
  BY DEF Written, ValueFor
<1>2. v # Null /\ v.is \in {"nan", "fraction", "int"}
  BY <1>1, Kinds
<1>3. \/ c = v
      \/ route \in {"append", "bind", "client"} /\ c = FfiF64(v)
      \/ route = "client" /\ v.is = "int" /\ c = FfiI64(v)
  BY <1>2 DEF Written, Routes, AppendRoutes, BindRoutes, Encode, AppendTyped, BindTyped,
     ClientBind, Direct, CreateValue, CreateDouble, StubBinds, DirectBinds, DirectAppends,
     ClientTypes
<1>4. /\ Read("DOUBLE", v, c) = c /\ (\A x : Promised("DOUBLE", v, x) <=> x = v)
      /\ LostWritten("DOUBLE", v) <=>
           \/ v = NaN /\ route \in {"append", "bind", "client"}
           \/ v.is = "int" /\ v.n \notin Int64 /\ route = "client"
  BY DEF Read, DecodeCell, Promised, LostWritten
<1>5. CASE c = v
  BY <1>2, <1>4, <1>5, Kinds DEF ReadsAs
<1>6. CASE route \in {"append", "bind", "client"} /\ v = NaN /\ c = FfiF64(v)
  <2>1. c = Num(0)
    BY <1>6 DEF FfiF64
  <2> QED BY <1>4, <1>6, <2>1, Kinds DEF ReadsAs
<1>7. CASE v # NaN /\ c = FfiF64(v)
  BY <1>5, <1>7 DEF FfiF64
<1>8. CASE route = "client" /\ v.is = "int" /\ c = FfiI64(v)
  <2>1. c = Num(AsIntN(v.n)) /\ v = Num(v.n)
    BY <1>1, <1>8, Kinds DEF FfiI64
  <2>2. v.n \in Int64 => c = v
    BY <2>1, SignedWordKept
  <2> QED BY <1>4, <1>8, <2>1, <2>2, Kinds DEF ReadsAs
<1> QED BY <1>3, <1>5, <1>6, <1>7, <1>8

(* Strings: short ones are read from the cell, longer ones from behind it. *)
LEMMA StringKept ==
  ASSUME NEW S, NEW b \in Seq(S)
  PROVE  ReadStringBytes(StringCell(b)) = b
<1>1. SubSeq(b, 1, Len(b)) = b /\ Len(b) \in Nat
  BY SubSeqFull
<1>2. CASE Len(b) <= Inline
  BY <1>1, <1>2 DEF ReadStringBytes, StringCell
<1>3. CASE ~(Len(b) <= Inline)
  BY <1>1, <1>3 DEF ReadStringBytes, StringCell
<1> QED BY <1>2, <1>3

LEMMA StringReads ==
  ASSUME NEW t \in {"VARCHAR", "BLOB"}, NEW v, NEW c, Written(t, v, c)
  PROVE  ReadsAs(t, v, c)
<1>1. v = Bytes(v.b) /\ v.b \in Seq(0 .. Byte - 1)
  BY DEF Written, ValueFor
<1>2. v # Null
  BY <1>1, Kinds
<1>3. \/ c = StringCell(v.b)
      \/ t = "VARCHAR" /\ route \in {"append", "bind", "client"} /\ c = StringCell(CStr(v.b))
      \/ t = "BLOB" /\ route = "client" /\ c = StringCell(ByteText(v.b))
  BY <1>2 DEF Written, Routes, AppendRoutes, BindRoutes, Encode, AppendTyped, BindTyped,
     ClientBind, Direct, CreateValue, CreateVarchar, StubBinds, DirectBinds, DirectAppends,
     ClientTypes
<1>4. /\ Read(t, v, c) = Bytes(ReadStringBytes(c)) /\ (\A x : Promised(t, v, x) <=> x = v)
      /\ t = "VARCHAR" => (LostWritten(t, v) <=>
                             NUL \in Range(v.b) /\ route \in {"append", "bind", "client"})
      /\ t = "BLOB" => (LostWritten(t, v) <=> route = "client" /\ v.b # <<>>)
  BY DEF Read, DecodeCell, Promised, LostWritten
<1>5. c.is = "string"
  BY <1>3, Kinds
<1>6. ReadStringBytes(c) = v.b \/ LostWritten(t, v)
  <2>1. CASE c = StringCell(v.b)
    BY <1>1, <2>1, StringKept
  <2>2. CASE /\ t = "VARCHAR" /\ route \in {"append", "bind", "client"}
             /\ c = StringCell(CStr(v.b))
    <3>1. CASE NUL \in Range(v.b)
      BY <1>4, <2>2, <3>1
    <3>2. CASE NUL \notin Range(v.b)
      <4>1. {i \in DOMAIN v.b : v.b[i] = NUL} = {}
        BY <3>2 DEF Range
      <4>2. CStr(v.b) = v.b
        BY <4>1 DEF CStr
      <4> QED BY <2>1, <2>2, <4>2
    <3> QED BY <3>1, <3>2
  <2>3. CASE t = "BLOB" /\ route = "client" /\ c = StringCell(ByteText(v.b))
    <3>1. CASE v.b # <<>>
      BY <1>4, <2>3, <3>1
    <3>2. CASE v.b = <<>>
      <4> DEFINE e == [i \in 1 .. 0 |->
                         IF i % 2 = 1 THEN Digit(v.b[(i + 1) \div 2]) ELSE Comma]
      <4>1. ByteText(v.b) = e
        BY <3>2 DEF ByteText
      <4>2. e = <<>>
        OBVIOUS
      <4> QED BY <2>1, <2>3, <3>2, <4>1, <4>2
    <3> QED BY <3>1, <3>2
  <2> QED BY <1>3, <2>1, <2>2, <2>3
<1> QED BY <1>1, <1>4, <1>5, <1>6, Kinds DEF ReadsAs

LEMMA ValueReads ==
  ASSUME NEW t, NEW v, NEW c, Written(t, v, c)
  PROVE  ReadsAs(t, v, c)
<1>1. t \in {"VARCHAR", "BLOB", "DOUBLE", "TIME_TZ", "DECIMAL18", "BOOLEAN", "BIGINT", "HUGEINT",
             "UHUGEINT", "DECIMAL38", "UUID", "BIGNUM", "DATE", "TIME", "TIMESTAMP", "INTERVAL"}
  BY DEF Written, ValueFor
<1> QED
  BY <1>1, BooleanReads, DateReads, TimeReads, TimestampReads, IntervalReads, TimeTzReads,
     BigintReads, HugeintReads, UhugeintReads, UuidReads, DecimalReads, BignumReads, DoubleReads,
     StringReads

-----------------------------------------------------------------------------
(* The validity mask of a column has, for every row, its bit.              *)

LEMMA ColumnDecoded ==
  ASSUME NEW n \in Nat, NEW col, col = [i \in 1 .. n |-> col[i]], NEW t, NEW k
  PROVE  /\ DOMAIN DecodeColumn(t, k, col) = 1 .. n
         /\ \A i \in 1 .. n :
              DecodeColumn(t, k, col)[i] = IF col[i] = Null THEN Null ELSE DecodeCell(t, k, col[i])
<1> DEFINE mask == MaskOf(col)
<1>1. DOMAIN col = 1 .. n
  OBVIOUS
<1>2. Len(col) = n
  <2>1. col \in [1 .. n -> Range(col)]
    BY DEF Range
  <2>2. col \in Seq(Range(col))
    BY <2>1, SeqDef
  <2> QED BY <1>1, <2>2, LenProperties
<1>3. MaskBits \in Nat \ {0}
  BY LimitAssumption
<1>4. ASSUME NEW i \in 1 .. n PROVE IsValid(mask, i - 1) <=> col[i] # Null
  <2>1. CASE Null \notin Range(col)
    <3>1. mask = NoMask
      BY <2>1 DEF MaskOf
    <3>2. col[i] # Null
      BY <1>1, <2>1 DEF Range
    <3> QED BY <3>1, <3>2 DEF IsValid
  <2>2. CASE Null \in Range(col)
    <3> DEFINE row == i - 1
               q == row \div MaskBits
               b == row % MaskBits
               last == (n - 1) \div MaskBits
    <3>1. row \in Nat /\ n - 1 \in Nat /\ row <= n - 1
      OBVIOUS
    <3>2. q \in Nat /\ b \in 0 .. MaskBits - 1 /\ row = q * MaskBits + b
      BY <1>3, <3>1, Division
    <3>3. last \in Nat /\ q <= last
      BY <1>3, <3>1, Division, DivisionKeepsOrder
    <3> DEFINE Valid(w) == {x \in 0 .. MaskBits - 1 :
                              LET j == (w - 1) * MaskBits + x + 1 IN j > n \/ col[j] # Null}
    <3>4. mask = [w \in 1 .. last + 1 |-> Valid(w)]
      BY <1>2, <2>2 DEF MaskOf
    <3> HIDE DEF q, b, last, mask, Valid
    <3>5. q + 1 \in 1 .. last + 1
      BY <3>2, <3>3
    <3>6. mask[q + 1] = Valid(q + 1)
      BY <3>4, <3>5
    <3>7. (q + 1 - 1) * MaskBits + b + 1 = i
      BY <3>1, <3>2, <1>3
    <3>8. b \in mask[q + 1] <=> (i > n \/ col[i] # Null)
      BY <3>2, <3>6, <3>7 DEF Valid
    <3>9. mask # NoMask
      <4>1. DOMAIN mask = 1 .. last + 1 /\ 1 \in 1 .. last + 1
        BY <3>3, <3>4
      <4>2. DOMAIN NoMask = {}
        BY DEF NoMask
      <4> QED BY <4>1, <4>2
    <3>10. IsValid(mask, row) <=> b \in mask[q + 1]
      BY <3>9 DEF IsValid, q, b, mask
    <3> QED BY <3>8, <3>10
  <2> QED BY <2>1, <2>2
<1>5. DecodeColumn(t, k, col) =
        [i \in 1 .. n |-> IF IsValid(mask, i - 1) THEN DecodeCell(t, k, col[i]) ELSE Null]
  BY <1>1 DEF DecodeColumn
<1> HIDE DEF mask
<1> QED BY <1>4, <1>5

-----------------------------------------------------------------------------
(* Every cell on its way to the table is the number of a row or what the   *)
(* program's value became; nothing refused or uncastable is stored.        *)

StoredCell(c) ==
  \/ c.col = 2 /\ c.native.is = "int"
  \/ c.col = 1 /\ (c.native = Null \/ Written(subject.type, subject.value, c.native))

StoredRow(r) == \A i \in Columns : StoredCell(r[i])

CellsInv ==
  /\ subject \in Subjects /\ route \in Routes
  /\ route = "client" => subject.type \in ClientTypes
  /\ \A c \in Range(appender.cells) : StoredCell(c)
  /\ \A r \in Range(appender.rows) : StoredRow(r)
  /\ \A r \in Range(table) : StoredRow(r)
  /\ \A i \in Columns :
       params[i] = Unbound \/ StoredCell(params[i]) \/ params[i].native = Uncastable

Decoded ==
  LET out == DecodeColumn(subject.type, DecimalScale(subject.value),
                         [i \in DOMAIN table |-> table[i][1].native])
  IN  IF Throw \in Range(out) THEN <<Throw, Throw>> ELSE out

ReadInv ==
  \/ readback = NotRead
  \/ (\A i \in DOMAIN table : table[i][1].col = 1) /\ readback = Decoded

LossInv == RowsInv /\ CellsInv /\ ReadInv

(* An appender takes every value.                                          *)
LEMMA AppendTakesAll ==
  ASSUME NEW t, NEW v, ValueFor(t, v), route \in AppendRoutes
  PROVE  Encode(route, t, v) # Throw /\ Encode(route, t, v) # Uncastable
<1>1. t \in {"VARCHAR", "BLOB", "DOUBLE", "TIME_TZ", "DECIMAL18", "BOOLEAN", "BIGINT", "HUGEINT",
             "UHUGEINT", "DECIMAL38", "UUID", "BIGNUM", "DATE", "TIME", "TIMESTAMP", "INTERVAL"}
  BY DEF ValueFor
<1>2. v.is \in {"bytes", "nan", "fraction", "int", "decimal", "timetz"}
  BY <1>1, Kinds, DecimalKind DEF ValueFor
<1>3. v # Null
  BY <1>2, Kinds
<1>4. CreateValue(t, v).is \in {"bytes", "nan", "fraction", "int", "decimal", "timetz",
                                "string", "words", "bignum"}
  <2>1. CASE t \in {"BOOLEAN", "DOUBLE"}
    BY <1>2, <2>1 DEF CreateValue, CreateDouble
  <2>2. CASE t \in {"BIGINT", "DATE", "TIME", "TIMESTAMP", "INTERVAL", "TIME_TZ", "DECIMAL18",
                    "VARCHAR", "BLOB", "HUGEINT", "DECIMAL38", "UHUGEINT", "UUID"}
    BY <2>2, Kinds DEF CreateValue, FfiI64, FfiI32, CreateVarchar, CreateUuid
  <2>3. CASE t = "BIGNUM"
    <3>1. v.n \in Int
      BY <2>3 DEF ValueFor
    <3>2. CreateValue(t, v) = CreateBignum(v.n)
      BY <2>3 DEF CreateValue
    <3> QED BY <3>1, <3>2, BignumKept
  <2> QED BY <1>1, <2>1, <2>2, <2>3
<1>5. \/ Encode(route, t, v) = CreateValue(t, v)
      \/ Encode(route, t, v) \in {FfiF64(v), StringCell(CStr(v.b))}
  BY <1>3 DEF Encode, AppendRoutes, AppendTyped, Direct
<1>6. FfiF64(v).is \in {"bytes", "nan", "fraction", "int", "decimal", "timetz"}
  BY <1>2, Kinds DEF FfiF64
<1> QED BY <1>4, <1>5, <1>6, Kinds

LEMMA CellStored ==
  ASSUME CellsInv, turn.next \in Columns, NEW v, v = subject.value \/ v = Null,
         NEW c, c = CellOf(turn.next, turn.row, v), c.native # Throw
  PROVE  StoredCell(c) \/ c.native = Uncastable
<1>1. c.col = turn.next
      /\ c.native = IF turn.next = 2 THEN Num(turn.row) ELSE Encode(route, subject.type, v)
  BY DEF CellOf
<1>2. CASE turn.next = 2
  BY <1>1, <1>2, Kinds DEF StoredCell
<1>3. CASE turn.next = 1 /\ v = Null
  BY <1>1, <1>3 DEF StoredCell, Encode
<1>4. CASE turn.next = 1 /\ v = subject.value
  <2>1. ValueFor(subject.type, subject.value)
    BY SubjectAssumption DEF CellsInv
  <2> QED BY <1>1, <1>4, <2>1 DEF StoredCell, Written, CellsInv
<1> QED BY <1>2, <1>3, <1>4 DEF Columns

LEMMA AppendedStored ==
  ASSUME CellsInv, route \in AppendRoutes, turn.next \in Columns,
         NEW v, v = subject.value \/ v = Null,
         NEW c, c = CellOf(turn.next, turn.row, v)
  PROVE  StoredCell(c)
<1>1. c.native = IF turn.next = 2 THEN Num(turn.row) ELSE Encode(route, subject.type, v)
  BY DEF CellOf
<1>2. ValueFor(subject.type, subject.value)
  BY SubjectAssumption DEF CellsInv
<1>3. c.native # Throw /\ c.native # Uncastable
  <2>1. CASE turn.next = 2
    BY <1>1, <2>1, Kinds
  <2>2. CASE turn.next # 2 /\ v = Null
    BY <1>1, <2>2, Kinds DEF Encode
  <2>3. CASE turn.next # 2 /\ v = subject.value
    BY <1>1, <1>2, <2>3, AppendTakesAll
  <2> QED BY <2>1, <2>2, <2>3
<1> QED BY <1>3, CellStored

(* The parts of CellsInv after a step of the same program.                 *)
LEMMA CellsStay ==
  ASSUME CellsInv, UNCHANGED <<subject, route>>,
         \A c \in Range(appender'.cells) : StoredCell(c),
         \A r \in Range(appender'.rows) : StoredRow(r),
         \A r \in Range(table') : StoredRow(r),
         \A i \in Columns :
           params'[i] = Unbound \/ StoredCell(params'[i]) \/ params'[i].native = Uncastable
  PROVE  CellsInv'
<1>1. \A c : StoredCell(c) <=>
               \/ c.col = 2 /\ c.native.is = "int"
               \/ c.col = 1 /\ (c.native = Null \/
                    /\ route' \in Routes /\ (route' = "client" => subject'.type \in ClientTypes)
                    /\ ValueFor(subject'.type, subject'.value)
                    /\ c.native = Encode(route', subject'.type, subject'.value)
                    /\ c.native # Throw /\ c.native # Uncastable)
  BY DEF StoredCell, Written
<1>2. /\ \A c \in Range(appender'.cells) : StoredCell(c)'
      /\ \A r \in Range(appender'.rows) : StoredRow(r)'
      /\ \A r \in Range(table') : StoredRow(r)'
      /\ \A i \in Columns :
           params'[i] = Unbound \/ StoredCell(params[i])' \/ params'[i].native = Uncastable
  BY <1>1 DEF StoredCell, StoredRow, Written
<1> QED BY <1>2 DEF CellsInv

LEMMA EmptyRange == \A x \in Range(<<>>) : FALSE
BY EmptyIsSeq

(* A row of stored cells; rows of the appender moved to the table.         *)
LEMMA CellsMakeARow ==
  ASSUME NEW s, IsSeq(s), Len(s) = 2, \A c \in Range(s) : StoredCell(c)
  PROVE  StoredRow(s)
<1>1. \A i \in 1 .. 2 : s[i] \in Range(s)
  BY SeqShape
<1> QED BY <1>1 DEF StoredRow, Columns

LEMMA AppendCellCells ==
  ASSUME RowsInv, CellsInv, NEW v, v = subject.value \/ v = Null, AppendCell(v)
  PROVE  CellsInv'
<1> DEFINE c == CellOf(turn.next, turn.row, v)
<1>1. PICK rc \in AppendResult :
        appender' = IF rc = "ok" THEN [appender EXCEPT !.cells = Append(@, c)] ELSE appender
  BY DEF AppendCell
<1>2. /\ UNCHANGED <<subject, route, params, table>> /\ route \in AppendRoutes
      /\ turn.next \in Columns /\ IsSeq(appender.cells)
  BY ShapesOfRows DEF AppendCell
<1>3. StoredCell(c)
  BY <1>2, AppendedStored
<1> HIDE DEF c
<1>4. /\ appender'.rows = appender.rows
      /\ appender'.cells = appender.cells \/ appender'.cells = Append(appender.cells, c)
  BY <1>1, ShapesOfRows
<1>5. \A x \in Range(appender'.cells) : x \in Range(appender.cells) \/ x = c
  BY <1>2, <1>4, Extended
<1> QED BY <1>2, <1>3, <1>4, <1>5, CellsStay DEF CellsInv

LEMMA FlushedCells ==
  ASSUME RowsInv, CellsInv, UNCHANGED <<subject, route, params>>,
         NEW rows, IsSeq(rows), \A r \in Range(rows) : StoredRow(r),
         appender'.cells = <<>> /\ appender'.rows = <<>>,
         table' = table \/ table' = table \o rows
  PROVE  CellsInv'
<1>1. \A r \in Range(table') : StoredRow(r)
  <2>1. IsSeq(table)
    BY ShapesOfRows
  <2>2. \A r \in Range(table \o rows) : r \in Range(table) \/ r \in Range(rows)
    BY <2>1, Joined
  <2> QED BY <2>2 DEF CellsInv
<1>2. /\ \A c \in Range(appender'.cells) : StoredCell(c)
      /\ \A r \in Range(appender'.rows) : StoredRow(r)
  BY EmptyRange
<1> QED BY <1>1, <1>2, CellsStay DEF CellsInv

LEMMA EndRowCells ==
  ASSUME RowsInv, CellsInv, EndRow
  PROVE  CellsInv'
<1> DEFINE rows == Append(appender.rows, appender.cells)
<1>1. /\ UNCHANGED <<subject, route, params>> /\ Len(appender.cells) = 2
      /\ IsSeq(appender.cells) /\ IsSeq(appender.rows)
  BY ShapesOfRows DEF EndRow
<1>2. StoredRow(appender.cells)
  BY <1>1, CellsMakeARow DEF CellsInv
<1>3. IsSeq(rows) /\ \A r \in Range(rows) : r \in Range(appender.rows) \/ r = appender.cells
  BY <1>1, Extended
<1> HIDE DEF rows
<1>4. \A r \in Range(rows) : StoredRow(r)
  BY <1>2, <1>3 DEF CellsInv
<1>5. CASE Len(rows) < FlushAt
  <2>1. appender' = [appender EXCEPT !.rows = rows, !.cells = <<>>] /\ table' = table
    BY <1>5 DEF EndRow, rows
  <2>2. appender'.rows = rows /\ appender'.cells = <<>>
    BY <2>1, ShapesOfRows
  <2>3. \A c \in Range(appender'.cells) : StoredCell(c)
    BY <2>2, EmptyRange
  <2> QED BY <1>1, <1>4, <2>1, <2>2, <2>3, CellsStay DEF CellsInv
<1>6. CASE ~(Len(rows) < FlushAt)
  <2>1. PICK rc \in {"ok", "error"} : Flushed(rc, rows)
    BY <1>6 DEF EndRow, rows
  <2>2. appender'.rows = <<>> /\ appender'.cells = <<>>
    BY <2>1, ShapesOfRows DEF Flushed
  <2>3. table' = table \/ table' = table \o rows
    BY <2>1 DEF Flushed
  <2> QED BY <1>1, <1>3, <1>4, <2>2, <2>3, FlushedCells
<1> QED BY <1>5, <1>6

LEMMA FlushCells ==
  ASSUME RowsInv, CellsInv, FlushSync \/ CloseSync
  PROVE  CellsInv'
<1>1. UNCHANGED <<subject, route, params>> /\ IsSeq(appender.rows)
  BY ShapesOfRows DEF FlushSync, CloseSync
<1>2. /\ appender'.rows = <<>> /\ appender'.cells = <<>>
      /\ table' = table \/ table' = table \o appender.rows
  <2>1. CASE FlushSync
    BY <2>1, ShapesOfRows DEF FlushSync, Flushed
  <2>2. CASE CloseSync
    BY <2>2, ShapesOfRows DEF CloseSync
  <2> QED BY <2>1, <2>2
<1> QED BY <1>1, <1>2, FlushedCells DEF CellsInv

LEMMA BindCellCells ==
  ASSUME RowsInv, CellsInv, NEW v, v = subject.value \/ v = Null, BindCell(v)
  PROVE  CellsInv'
<1> DEFINE c == CellOf(turn.next, turn.row, v)
<1>1. /\ UNCHANGED <<subject, route, appender, table>> /\ turn.next \in Columns
      /\ params' = [params EXCEPT ![turn.next] = Bound(@, c)]
  BY DEF BindCell
<1>2. params = [i \in Columns |-> params[i]]
  BY DEF RowsInv, Shapes
<1>3. c.native = Throw \/ StoredCell(c) \/ c.native = Uncastable
  BY <1>1, CellStored
<1> HIDE DEF c
<1>4. \A i \in Columns : params'[i] = params[i] \/ (params'[i] = c /\ c.native # Throw)
  BY <1>1, <1>2 DEF Bound
<1>5. \A i \in Columns :
        params'[i] = Unbound \/ StoredCell(params'[i]) \/ params'[i].native = Uncastable
  BY <1>3, <1>4 DEF CellsInv
<1> QED BY <1>1, <1>5, CellsStay DEF CellsInv

LEMMA ExecuteCells ==
  ASSUME RowsInv, CellsInv, Execute
  PROVE  CellsInv'
<1>1. PICK rc \in ExecuteResult :
        table' = IF rc = "ok" THEN Append(table, <<params[1], params[2]>>) ELSE table
  BY DEF Execute
<1>2. UNCHANGED <<subject, route, appender, params>> /\ IsSeq(table)
  BY ShapesOfRows DEF Execute
<1>3. CASE rc = "ok"
  <2> DEFINE x == <<params[1], params[2]>>
  <2>1. \A i \in Columns : params[i] # Unbound /\ params[i].native # Uncastable
    BY <1>1, <1>3 DEF ExecuteResult
  <2>2. x[1] = params[1] /\ x[2] = params[2]
    OBVIOUS
  <2>3. StoredRow(x)
    BY <2>1, <2>2 DEF StoredRow, CellsInv, Columns
  <2>4. table' = Append(table, x)
    BY <1>1, <1>3
  <2> HIDE DEF x
  <2>5. \A r \in Range(table') : r \in Range(table) \/ r = x
    BY <1>2, <2>4, Extended
  <2> QED BY <1>2, <2>3, <2>5, CellsStay DEF CellsInv
<1>4. CASE rc # "ok"
  BY <1>1, <1>2, <1>4, CellsStay DEF CellsInv
<1> QED BY <1>3, <1>4

LEMMA CellsStep ==
  ASSUME RowsInv, CellsInv, [Next]_vars
  PROVE  CellsInv'
<1>1. CASE UNCHANGED <<subject, route, appender, params, table>>
  BY <1>1, CellsStay DEF CellsInv
<1>2. CASE UNCHANGED vars \/ ReadBack \/ RefusedByLayer \/ EndRowShort
  BY <1>1, <1>2 DEF vars, ReadBack, RefusedByLayer, EndRowShort
<1> QED
  BY <1>2, AppendCellCells, EndRowCells, FlushCells, BindCellCells, ExecuteCells DEF Next

(* Nothing is written after reading back.                                  *)
LEMMA ReadStep ==
  ASSUME ReadInv, [Next]_vars
  PROVE  ReadInv'
<1>1. CASE UNCHANGED vars
  BY <1>1 DEF vars, ReadInv, Decoded
<1>2. CASE ReadBack
  <2>1. UNCHANGED <<subject, table>> /\ readback' = Decoded
        /\ \A i \in DOMAIN table : table[i][1].col = 1
    BY <1>2 DEF ReadBack, Decoded
  <2> QED BY <2>1 DEF ReadInv, Decoded
<1>3. CASE \E v : AppendCell(v) \/ BindCell(v)
  <2>1. readback = NotRead /\ readback' = readback
    BY <1>3 DEF AppendCell, BindCell, Writing
  <2> QED BY <2>1 DEF ReadInv
<1>4. CASE RefusedByLayer \/ EndRowShort \/ EndRow \/ FlushSync \/ CloseSync \/ Execute
  <2>1. readback = NotRead /\ readback' = readback
    BY <1>4 DEF RefusedByLayer, EndRowShort, EndRow, FlushSync, CloseSync, Execute, Writing
  <2> QED BY <2>1 DEF ReadInv
<1> QED BY <1>1, <1>2, <1>3, <1>4 DEF Next

LEMMA InitLoss ==
  ASSUME Init
  PROVE  LossInv
<1>1. RowsInv
  BY InitRows
<1>2. CellsInv
  BY EmptyRange DEF Init, CellsInv, Routes
<1>3. ReadInv
  BY DEF Init, ReadInv
<1> QED BY <1>1, <1>2, <1>3 DEF LossInv

LEMMA LossImplies ==
  ASSUME LossInv
  PROVE  OnlyKnownLosses
<1> DEFINE n == Len(table)
           t == subject.type
           v == subject.value
           col == [i \in 1 .. n |-> table[i][1].native]
           out == DecodeColumn(t, DecimalScale(v), col)
<1>1. n \in Nat /\ DOMAIN table = 1 .. n /\ \A i \in 1 .. n : StoredRow(table[i])
  BY ShapesOfRows, SeqShape DEF LossInv, CellsInv
<1>2. ASSUME NEW i \in 1 .. n, table[i][1].col = 1, table[i][1].native # Null
      PROVE  ReadsAs(t, v, table[i][1].native)
  <2>1. StoredCell(table[i][1])
    BY <1>1 DEF StoredRow, Columns
  <2>2. Written(t, v, table[i][1].native)
    BY <1>2, <2>1 DEF StoredCell
  <2> QED BY <2>2, ValueReads
<1>3. BignumsAreExact
  <2> SUFFICES ASSUME NEW i \in 1 .. n, table[i][1].native.is = "bignum"
               PROVE  BignumOf(table[i][1].native) = v.n
    BY <1>1 DEF BignumsAreExact
  <2>1. StoredCell(table[i][1])
    BY <1>1 DEF StoredRow, Columns
  <2>2. table[i][1].native # Null /\ table[i][1].native.is # "int"
    BY Kinds
  <2>3. table[i][1].col = 1
    BY <2>1, <2>2 DEF StoredCell
  <2> QED BY <1>2, <2>2, <2>3 DEF ReadsAs
<1>4. CASE readback = NotRead
  <2>1. readback # <<Throw, Throw>>
    BY <1>4 DEF NotRead
  <2> QED BY <1>3, <1>4, <2>1 DEF OnlyKnownLosses, NullsReadBack, ValuesReadBack,
        OnlyFarDatesThrow, ReadRows
<1>5. CASE readback # NotRead
  <2>1. (\A i \in 1 .. n : table[i][1].col = 1) /\ readback = Decoded
    BY <1>1, <1>5 DEF LossInv, ReadInv
  <2>2. /\ DOMAIN out = 1 .. n
        /\ \A i \in 1 .. n : out[i] = IF col[i] = Null THEN Null ELSE Read(t, v, col[i])
    <3>1. col = [i \in 1 .. n |-> col[i]]
      OBVIOUS
    <3> HIDE DEF col, n
    <3> QED BY <1>1, <3>1, ColumnDecoded DEF Read
  <2>3. \A i \in 1 .. n : col[i] = table[i][1].native
    OBVIOUS
  <2>4. readback = IF Throw \in Range(out) THEN <<Throw, Throw>> ELSE out
    BY <1>1, <2>1 DEF Decoded
  <2> HIDE DEF out, col, n
  <2>5. OnlyFarDatesThrow
    <3> SUFFICES ASSUME readback = <<Throw, Throw>>
                 PROVE  /\ t = "DATE" /\ v.n \notin JsDays
                        /\ \E i \in 1 .. n : table[i][1].native # Null
      BY <1>1 DEF OnlyFarDatesThrow
    <3>1. Throw \in Range(out)
      <4>1. CASE readback = out
        <5>1. out[1] = Throw /\ 1 \in DOMAIN out
          BY <4>1
        <5> QED BY <5>1 DEF Range
      <4> QED BY <2>4, <4>1
    <3>2. PICK i \in 1 .. n : out[i] = Throw
      BY <2>2, <3>1 DEF Range
    <3>3. table[i][1].native # Null /\ Read(t, v, table[i][1].native) = Throw
      BY <2>2, <2>3, <3>2, Kinds
    <3>4. ReadsAs(t, v, table[i][1].native)
      BY <1>2, <2>1, <3>3
    <3> QED BY <3>3, <3>4 DEF ReadsAs
  <2>6. CASE readback = <<Throw, Throw>>
    BY <1>3, <2>5, <2>6 DEF OnlyKnownLosses, NullsReadBack, ValuesReadBack, ReadRows
  <2>7. CASE readback # <<Throw, Throw>>
    <3>1. readback = out
      BY <2>4, <2>7
    <3>2. NullsReadBack
      <4> SUFFICES ASSUME t # "INTERVAL", NEW i \in 1 .. n
                   PROVE  readback[i] = Null <=> table[i][1].native = Null
        BY <1>1 DEF NullsReadBack
      <4>1. CASE table[i][1].native = Null
        BY <2>2, <2>3, <3>1, <4>1
      <4>2. CASE table[i][1].native # Null
        <5>1. ReadsAs(t, v, table[i][1].native)
          BY <1>2, <2>1, <4>2
        <5> QED BY <2>2, <2>3, <3>1, <4>2, <5>1 DEF ReadsAs
      <4> QED BY <4>1, <4>2
    <3>3. ValuesReadBack
      <4> SUFFICES ASSUME NEW i \in 1 .. n, table[i][1].native # Null
                   PROVE  Promised(t, v, readback[i]) \/ LostWritten(t, v) \/ LostRead(t, v)
        BY <1>1 DEF ValuesReadBack
      <4>1. ReadsAs(t, v, table[i][1].native)
        BY <1>2, <2>1
      <4> QED BY <2>2, <2>3, <3>1, <4>1 DEF ReadsAs
    <3> QED BY <1>3, <2>5, <3>2, <3>3 DEF OnlyKnownLosses
  <2> QED BY <2>6, <2>7
<1> QED BY <1>4, <1>5

(* Whatever the value, the route, the width of the words and the number of *)
(* rows, and whichever calls throw: every row reads back as it was         *)
(* written, but for the losses that LostWritten and LostRead name.         *)
THEOREM LossesAreKnown == Spec => []OnlyKnownLosses
<1>1. Init => LossInv
  BY InitLoss
<1>2. LossInv /\ [Next]_vars => LossInv'
  BY RowsStep, CellsStep, ReadStep DEF LossInv
<1>3. LossInv => OnlyKnownLosses
  BY LossImplies
<1> QED BY <1>1, <1>2, <1>3, PTL DEF Spec

-----------------------------------------------------------------------------
(* Types.                                                                  *)

(* The two words of a cell fit their words, whatever number was split.     *)
LEMMA WordsFit ==
  ASSUME NEW t, NEW v, NEW c, Written(t, v, c), c.is = "words"
  PROVE  c.lower \in UInt64 /\ c.upper \in UInt64
<1>1. (v = Num(v.n) \/ v = Decimal(v.n, v.scale)) /\ v.n \in Int
  <2>1. CASE t \in {"VARCHAR", "BLOB"}
    <3>1. v = Bytes(v.b)
      BY <2>1 DEF Written, ValueFor
    <3>2. v # Null /\ v # Throw
      BY <3>1, Kinds
    <3>3. c \in {StringCell(v.b), StringCell(CStr(v.b)), StringCell(ByteText(v.b))}
      BY <2>1, <3>2 DEF Written, Routes, AppendRoutes, BindRoutes, Encode, AppendTyped, BindTyped,
         ClientBind, Direct, CreateValue, CreateVarchar, StubBinds, DirectBinds, DirectAppends,
         ClientTypes
    <3> QED BY <3>3, Kinds
  <2>2. CASE t = "DOUBLE"
    <3>1. v \in {NaN, Fraction} \/ (v = Num(v.n) /\ v.n \in Int)
      BY <2>2 DEF Written, ValueFor
    <3>2. v # Null /\ v.is \in {"nan", "fraction", "int"}
      BY <3>1, Kinds
    <3>3. c \in {v, FfiF64(v), FfiI64(v)}
      BY <2>2, <3>2 DEF Written, Routes, AppendRoutes, BindRoutes, Encode, AppendTyped, BindTyped,
         ClientBind, Direct, CreateValue, CreateDouble, StubBinds, DirectBinds, DirectAppends,
         ClientTypes
    <3> QED BY <3>2, <3>3, Kinds DEF FfiF64, FfiI64
  <2>3. CASE t = "TIME_TZ"
    <3>1. v.is = "timetz"
      BY <2>3 DEF Written, ValueFor
    <3>2. v # Null
      BY <3>1, Kinds
    <3>3. c = Num(AsUintN(TimeTzBits(v.micros, v.offset)))
      BY <2>3, <3>2 DEF Written, Routes, AppendRoutes, BindRoutes, Encode, AppendTyped, BindTyped,
         CreateValue, StubBinds, DirectBinds, DirectAppends, ClientTypes
    <3> QED BY <3>3, Kinds
  <2>4. CASE t \notin {"VARCHAR", "BLOB", "DOUBLE", "TIME_TZ"}
    BY <2>4, WordAssumption DEF Written, ValueFor, Int64
  <2> QED BY <2>1, <2>2, <2>3, <2>4
<1>2. v # Null
  BY <1>1, Kinds, DecimalKind
<1> DEFINE n == v.n
<1>3. c \in {v, FfiI64(v), FfiI32(v), FfiF64(v),
             Num(JoinI128(SplitI128(n).lower, SplitI128(n).upper)),
             Words(SplitI128(n)), Words(SplitU128(n)), CreateUuid(n), CreateBignum(n),
             StringCell(v.b), StringCell(CStr(v.b)), StringCell(ByteText(v.b)),
             Num(AsUintN(TimeTzBits(v.micros, v.offset)))}
  BY <1>1, <1>2 DEF Written, ValueFor, Routes, AppendRoutes, BindRoutes, Encode, AppendTyped,
     BindTyped, ClientBind, Direct, CreateValue, CreateVarchar, CreateDouble, StubBinds,
     DirectBinds, DirectAppends, ClientTypes
<1>4. c \in {Words(SplitI128(n)), Words(SplitU128(n)), CreateUuid(n)}
  <2>1. /\ v.is \in {"int", "decimal"} /\ FfiI64(v).is = "int" /\ FfiI32(v).is = "int"
        /\ FfiF64(v).is \in {"int", "decimal"}
        /\ CreateBignum(n).is = "bignum"
    BY <1>1, Kinds, DecimalKind, BignumKept DEF FfiI64, FfiI32, FfiF64
  <2> QED BY <1>3, <2>1, Kinds
<1>5. \A w : Words(w).lower = w.lower /\ Words(w).upper = w.upper % Full
  BY DEF Words
<1>6. \A x \in Int : x % Full \in UInt64 /\ x \div Full \in Int
  BY WordDivision
<1>7. Full \in Nat \ {0} /\ Half \in Nat
  BY WordAssumption DEF Full
<1>8. \A x \in Int : AsUintN(x) \in UInt64 /\ AsIntN(x) \in Int
  <2> SUFFICES ASSUME NEW x \in Int PROVE AsUintN(x) \in UInt64 /\ AsIntN(x) \in Int
    OBVIOUS
  <2>1. x + Half \in Int
    BY <1>7
  <2> QED BY <1>6, <1>7, <2>1 DEF AsUintN, AsIntN, UInt64
<1>9. \A x \in UInt64 : x \in Int
  BY <1>7 DEF UInt64
<1>10. n \in Int
  BY <1>1
<1> HIDE DEF n
<1>11. CASE c = Words(SplitI128(n))
  <2>1. SplitI128(n).lower \in UInt64 /\ SplitI128(n).upper \in Int
    BY <1>6, <1>8, <1>10 DEF SplitI128
  <2> QED BY <1>5, <1>6, <1>11, <2>1
<1>12. SplitU128(n).lower \in UInt64 /\ SplitU128(n).upper \in Int
  BY <1>6, <1>8, <1>9, <1>10 DEF SplitU128
<1>13. CASE c = Words(SplitU128(n))
  BY <1>5, <1>6, <1>12, <1>13
<1>14. CASE c = CreateUuid(n)
  <2> DEFINE w == SplitU128(n)
             f == [w EXCEPT !.upper = FlipSign(@)]
  <2>1. f.lower = w.lower /\ f.upper = FlipSign(w.upper)
    BY DEF SplitU128
  <2>2. FlipSign(w.upper) \in Int
    BY <1>6, <1>7, <1>9, <1>12 DEF FlipSign
  <2>3. c = Words(f)
    BY <1>14 DEF CreateUuid
  <2> HIDE DEF w, f
  <2> QED BY <1>5, <1>6, <1>12, <2>1, <2>2, <2>3 DEF w
<1> QED BY <1>4, <1>11, <1>13, <1>14

LEMMA TableWordsFit ==
  ASSUME RowsInv, CellsInv
  PROVE  \A i \in DOMAIN table :
           table[i][1].native.is = "words" =>
             table[i][1].native.lower \in UInt64 /\ table[i][1].native.upper \in UInt64
<1> SUFFICES ASSUME NEW i \in DOMAIN table, table[i][1].native.is = "words"
             PROVE  /\ table[i][1].native.lower \in UInt64
                    /\ table[i][1].native.upper \in UInt64
  OBVIOUS
<1>1. StoredCell(table[i][1])
  BY ShapesOfRows, SeqShape DEF CellsInv, StoredRow, Columns
<1>2. table[i][1].native # Null
  BY Kinds
<1>3. Written(subject.type, subject.value, table[i][1].native)
  BY <1>1, <1>2 DEF StoredCell
<1> QED BY <1>3, WordsFit

BoundsInv ==
  /\ turn.row \in 1 .. MaxRows + 1 /\ turn.next \in 1 .. 3
  /\ appender.state \in {"none", "open", "invalid", "closed"}
  /\ Len(appender.rows) < FlushAt
  /\ acked \subseteq 1 .. MaxRows /\ threw \subseteq 1 .. MaxRows
  /\ lost \in BOOLEAN

LEMMA ThrowInBounds ==
  ASSUME BoundsInv, turn \in Turns, Writing, GoOnAfterThrow
  PROVE  turn'.row \in 1 .. MaxRows + 1 /\ turn'.next \in 1 .. 3 /\ threw' \subseteq 1 .. MaxRows
<1>1. turn.row \in 1 .. MaxRows
  BY BoundAssumption DEF BoundsInv, Writing
<1>2. turn' = turn \/ (turn.next < 3 /\ turn' = [turn EXCEPT !.next = @ + 1]) \/ NextRow
  BY DEF GoOnAfterThrow
<1>3. turn'.row \in 1 .. MaxRows + 1 /\ turn'.next \in 1 .. 3
  BY <1>1, <1>2, BoundAssumption DEF Turns, NextRow
<1> QED BY <1>1, <1>3 DEF GoOnAfterThrow, BoundsInv

LEMMA DoneInBounds ==
  ASSUME BoundsInv, turn \in Turns, Writing, NEW rc, Done(rc, NextRow)
  PROVE  turn'.row \in 1 .. MaxRows + 1 /\ turn'.next \in 1 .. 3 /\ threw' \subseteq 1 .. MaxRows
<1>1. turn.row \in 1 .. MaxRows
  BY BoundAssumption DEF BoundsInv, Writing
<1>2. CASE Throws(rc)
  BY <1>2, ThrowInBounds DEF Done
<1>3. CASE ~Throws(rc)
  <2>1. turn' = [row |-> turn.row + 1, next |-> 1] /\ threw' = threw
    BY <1>3 DEF Done, NextRow
  <2> QED BY <1>1, <2>1, BoundAssumption DEF BoundsInv
<1> QED BY <1>2, <1>3

LEMMA NextColumnInBounds ==
  ASSUME BoundsInv, turn \in Turns, turn.next \in Columns, NextColumn
  PROVE  turn'.row \in 1 .. MaxRows + 1 /\ turn'.next \in 1 .. 3
BY DEF BoundsInv, Turns, NextColumn, Columns

LEMMA BoundsStep ==
  ASSUME RowsInv, BoundsInv, [Next]_vars
  PROVE  BoundsInv'
<1>1. /\ turn \in Turns /\ IsSeq(appender.rows)
      /\ appender = [state |-> appender.state, cells |-> appender.cells,
                     rows |-> appender.rows]
  BY ShapesOfRows
<1>2. CASE UNCHANGED vars \/ ReadBack
  BY <1>2 DEF vars, ReadBack, BoundsInv
<1>3. CASE RefusedByLayer \/ EndRowShort
  <2>1. Writing /\ UNCHANGED <<appender, acked, lost>> /\ (GoOnAfterThrow \/ Done("error", NextRow))
    BY <1>3 DEF RefusedByLayer, EndRowShort
  <2> QED BY <1>1, <2>1, ThrowInBounds, DoneInBounds DEF BoundsInv
<1>4. ASSUME NEW v, AppendCell(v) PROVE BoundsInv'
  <2>1. PICK rc \in AppendResult :
          /\ appender' = IF rc = "ok"
                           THEN [appender EXCEPT
                                   !.cells = Append(@, CellOf(turn.next, turn.row, v))]
                           ELSE appender
          /\ Done(rc, NextColumn)
    BY <1>4 DEF AppendCell
  <2>2. Writing /\ turn.next \in Columns /\ UNCHANGED <<acked, lost>>
    BY <1>4 DEF AppendCell
  <2>3. appender'.state = appender.state /\ appender'.rows = appender.rows
    BY <1>1, <2>1
  <2>4. GoOnAfterThrow \/ (NextColumn /\ threw' = threw)
    BY <2>1 DEF Done
  <2> QED BY <1>1, <2>2, <2>3, <2>4, ThrowInBounds, NextColumnInBounds DEF BoundsInv
<1>5. ASSUME NEW v, BindCell(v) PROVE BoundsInv'
  <2>1. /\ Writing /\ turn.next \in Columns /\ UNCHANGED <<appender, acked, lost>>
        /\ GoOnAfterThrow \/ (NextColumn /\ threw' = threw)
    BY <1>5 DEF BindCell
  <2> QED BY <1>1, <2>1, ThrowInBounds, NextColumnInBounds DEF BoundsInv
<1>6. CASE Execute
  <2>1. PICK rc \in ExecuteResult :
          acked' = (IF Throws(rc) THEN acked ELSE acked \cup {turn.row}) /\ Done(rc, NextRow)
    BY <1>6 DEF Execute
  <2>2. Writing /\ UNCHANGED <<appender, lost>> /\ turn.row \in 1 .. MaxRows
    BY <1>6, BoundAssumption DEF Execute, Writing, BoundsInv
  <2> QED BY <1>1, <2>1, <2>2, DoneInBounds DEF BoundsInv
<1>7. CASE EndRow
  <2> DEFINE rows == Append(appender.rows, appender.cells)
  <2>1. Writing /\ turn.row \in 1 .. MaxRows
    BY <1>7, BoundAssumption DEF EndRow, Writing, BoundsInv
  <2> HIDE DEF rows
  <2>2. CASE Len(rows) < FlushAt
    <3>1. /\ appender' = [appender EXCEPT !.rows = rows, !.cells = <<>>]
          /\ acked' = acked \cup {turn.row} /\ Done("ok", NextRow) /\ lost' = lost
      BY <1>7, <2>2 DEF EndRow, rows
    <3>2. appender'.rows = rows /\ appender'.state = appender.state
      BY <1>1, <3>1
    <3> QED BY <1>1, <2>1, <2>2, <3>1, <3>2, DoneInBounds DEF BoundsInv
  <2>3. CASE ~(Len(rows) < FlushAt)
    <3>1. PICK rc \in {"ok", "error"} :
            /\ Flushed(rc, rows) /\ Done(rc, NextRow)
            /\ acked' = IF Throws(rc) THEN acked ELSE acked \cup {turn.row}
      BY <1>7, <2>3 DEF EndRow, rows
    <3>2. /\ appender'.rows = <<>> /\ appender'.state \in {appender.state, "invalid"}
          /\ lost' \in BOOLEAN
      BY <1>1, <3>1 DEF Flushed, BoundsInv
    <3> QED BY <1>1, <2>1, <3>1, <3>2, DoneInBounds, EmptyIsSeq, BoundAssumption DEF BoundsInv
  <2> QED BY <2>2, <2>3
<1>8. CASE FlushSync
  <2>1. PICK rc \in FlushResult : Flushed(rc, appender.rows) /\ Done(rc, UNCHANGED turn)
    BY <1>8 DEF FlushSync
  <2>2. Writing /\ acked' = acked
    BY <1>8 DEF FlushSync
  <2>3. /\ appender'.rows = <<>> /\ appender'.state \in {appender.state, "invalid"}
        /\ lost' \in BOOLEAN
    BY <1>1, <2>1 DEF Flushed, BoundsInv
  <2>4. GoOnAfterThrow \/ UNCHANGED <<turn, threw>>
    BY <2>1 DEF Done
  <2> QED BY <1>1, <2>2, <2>3, <2>4, ThrowInBounds, EmptyIsSeq, BoundAssumption DEF BoundsInv
<1>9. CASE CloseSync
  <2>1. PICK rc \in FlushResult :
          /\ appender' = [appender EXCEPT !.rows = <<>>, !.cells = <<>>, !.state = "closed"]
          /\ lost' = (lost \/ Throws(rc))
    BY <1>9 DEF CloseSync
  <2>2. appender'.rows = <<>> /\ appender'.state = "closed" /\ lost' \in BOOLEAN
    BY <1>1, <2>1
  <2>3. turn' = [row |-> MaxRows + 1, next |-> 1] /\ UNCHANGED <<acked, threw>>
    BY <1>9 DEF CloseSync
  <2> QED BY <2>2, <2>3, EmptyIsSeq, BoundAssumption DEF BoundsInv
<1> QED
  BY <1>2, <1>3, <1>4, <1>5, <1>6, <1>7, <1>8, <1>9 DEF Next

(* The variables hold values of their types, and the words of DuckDB's     *)
(* cells fit their words.                                                  *)
THEOREM TypeCorrect == Spec => []TypeOK
<1>1. Init => LossInv /\ BoundsInv
  <2> SUFFICES ASSUME Init PROVE LossInv /\ BoundsInv
    OBVIOUS
  <2>1. /\ appender.state \in {"none", "open"} /\ appender.rows = <<>> /\ lost = FALSE
        /\ turn.row = 1 /\ turn.next = 1 /\ acked = {} /\ threw = {}
    BY DEF Init
  <2>2. 1 \in 1 .. MaxRows + 1 /\ Len(<<>>) < FlushAt
    BY BoundAssumption, EmptyIsSeq
  <2>3. Len(appender.rows) < FlushAt
    BY <2>1, <2>2
  <2>4. BoundsInv
    <3>1. lost \in BOOLEAN
      BY <2>1
    <3>2. turn.row \in 1 .. MaxRows + 1 /\ turn.next \in 1 .. 3
      BY <2>1, <2>2
    <3>3. appender.state \in {"none", "open", "invalid", "closed"}
      BY <2>1
    <3>4. acked \subseteq 1 .. MaxRows /\ threw \subseteq 1 .. MaxRows
      BY <2>1
    <3> QED BY <2>3, <3>1, <3>2, <3>3, <3>4 DEF BoundsInv
  <2> QED BY <2>4, InitLoss
<1>2. LossInv /\ BoundsInv /\ [Next]_vars => LossInv' /\ BoundsInv'
  BY RowsStep, CellsStep, ReadStep, BoundsStep DEF LossInv
<1>3. LossInv /\ BoundsInv => TypeOK
  BY TableWordsFit, ShapesOfRows DEF LossInv, BoundsInv, TypeOK, CellsInv, Routes, RowsInv, Shapes
<1> QED BY <1>1, <1>2, <1>3, PTL DEF Spec
=============================================================================
