----------------------------- MODULE ValueCodecs ------------------------------
(***************************************************************************)
(* How a value of the program becomes a value of DuckDB and comes back:    *)
(* the encoders of the drop-in layer (valuecreate, appender, prepared and  *)
(* marshal.ts), the dispatch of the Bun-native client's bind, and the      *)
(* decoder of the client (decode.ts).  Widths and limits are parameters,   *)
(* so that TLC can take every value of a small word and TLAPS can reason   *)
(* about a word of any width.                                              *)
(***************************************************************************)
EXTENDS Integers, Sequences, FiniteSetsExt, SequencesExt

CONSTANTS
  Half,       \* half the number of values of a native word (2^63)
  HalfInt,    \* half the number of values of an int32 (2^31)
  Byte,       \* the number of values of a byte (256)
  Inline,     \* longest string kept in its own cell (12)
  MaskBits,   \* rows per word of a validity mask (64)
  Safe,       \* integers up to here are exact as doubles (2^53)
  Scales,     \* the powers of two that the exponent of a double reaches
  MaxScale,   \* and the largest of them
  Ten,        \* the base of a DECIMAL
  Unit,       \* microseconds per second, and per millisecond of a Date
  Sixty,      \* minutes per hour, and seconds per minute
  MonthDays,  \* days of a month
  ShortDays,  \* the days whose year has four digits in ISO form
  JsDays,     \* the days a Date can hold
  JsMillis    \* and the milliseconds

ASSUME WordAssumption == Half \in Nat \ {0} /\ HalfInt \in Nat \ {0}

ASSUME LimitAssumption ==
  /\ {Byte, MaskBits, Unit, Sixty, MonthDays, Safe, Ten} \subseteq Nat \ {0}
  /\ Byte > 1 /\ Inline \in Nat
  /\ ShortDays \subseteq JsDays /\ JsDays \subseteq -HalfInt .. HalfInt - 1
  /\ -(Safe \div Unit) .. Safe \div Unit \subseteq JsMillis

(* The powers of two, up to one that is no less than Unit.                 *)
ASSUME ScaleAssumption ==
  /\ MaxScale \in Nat /\ 1 \in Scales /\ Scales \subseteq 1 .. MaxScale
  /\ \A p \in Scales : p >= Unit \/ 2 * p \in Scales

Full == 2 * Half

Int64 == -Half .. Half - 1
UInt64 == 0 .. Full - 1
Int128 == -(Half * Full) .. Half * Full - 1
UInt128 == 0 .. Full * Full - 1
Int32 == -HalfInt .. HalfInt - 1

-----------------------------------------------------------------------------
(* Values of the program, and what decoding gives.                         *)

Null == [is |-> "null"]
NaN == [is |-> "nan"]
Fraction == [is |-> "fraction"]
Throw == [is |-> "throw"]
Uncastable == [is |-> "text"]
InvalidDate == [is |-> "invalid date"]
Num(n) == [is |-> "int", n |-> n]
Decimal(n, scale) == [is |-> "decimal", n |-> n, scale |-> scale]
Bytes(b) == [is |-> "bytes", b |-> b]
Words(w) == [is |-> "words", lower |-> w.lower, upper |-> w.upper % Full]

(* What createValue and the client's bind take for a column of the type; a *)
(* DECIMAL of up to 18 digits fits a word.                                 *)
ValueFor(type, v) ==
  CASE type \in {"VARCHAR", "BLOB"} -> v = Bytes(v.b) /\ v.b \in Seq(0 .. Byte - 1)
    [] type = "DOUBLE" -> v \in {NaN, Fraction} \/ (v = Num(v.n) /\ v.n \in Int)
    [] type = "TIME_TZ" -> v.is = "timetz"
    [] type = "DECIMAL18" -> v = Decimal(v.n, v.scale) /\ v.n \in Int64 /\ v.scale \in Nat
    [] type = "DECIMAL38" -> v = Decimal(v.n, v.scale) /\ v.n \in Int /\ v.scale \in Nat
    [] type \in {"BOOLEAN", "BIGINT", "HUGEINT", "UHUGEINT", "UUID", "BIGNUM", "DATE", "TIME",
                 "TIMESTAMP", "INTERVAL"} -> v = Num(v.n) /\ v.n \in Int
    [] OTHER -> FALSE

NUL == 0
Comma == Byte
Digit(b) == Byte + 1 + b

-----------------------------------------------------------------------------
(* 128-bit integers as two words.                                          *)

AsUintN(v) == v % Full

AsIntN(v) == ((v + Half) % Full) - Half

(* Mutant: the upper word is that of the magnitude.                        *)
SplitMagnitude(v) == [lower |-> AsUintN(v), upper |-> (IF v < 0 THEN -v ELSE v) \div Full]

SplitI128(v) == [lower |-> AsUintN(v), upper |-> AsIntN(v \div Full)]

SplitU128(v) == [lower |-> AsUintN(v), upper |-> AsUintN(v \div Full)]

JoinI128(lower, upper) == AsIntN(upper) * Full + lower

JoinU128(lower, upper) == upper * Full + lower

ReadHugeint(c) == AsIntN(c.upper) * Full + c.lower

ReadUhugeint(c) == c.upper * Full + c.lower

(* DuckDB stores a UUID as a hugeint with the sign bit flipped.            *)
FlipSign(word) == (word + Half) % Full

CreateUuid(v) == LET w == SplitU128(v) IN Words([w EXCEPT !.upper = FlipSign(@)])

UuidString(c) == FlipSign(AsUintN(AsIntN(c.upper))) * Full + c.lower

-----------------------------------------------------------------------------
(* Doubles: a whole number over a power of two, or times one.              *)

Size(v) == IF v < 0 THEN -v ELSE v

Signed(v, size) == IF v < 0 THEN -size ELSE size

(* The whole number nearest to a / b, ties to even.                        *)
HalfEven(a, b) ==
  LET q == a \div b
      r == a % b
  IN  IF 2 * r > b \/ (2 * r = b /\ q % 2 = 1) THEN q + 1 ELSE q

(* The double nearest to n / d.                                            *)
Nearest(n, d) ==
  LET a == Size(n)
      over == Max({p \in Scales : a * p <= Safe * d})
      times == Min({p \in Scales : a <= Safe * d * p})
  IN  IF a <= Safe * d
      THEN [is |-> "double", num |-> Signed(n, HalfEven(a * over, d)), den |-> over]
      ELSE [is |-> "double", num |-> Signed(n, HalfEven(a, d * times) * times), den |-> 1]

Truncated(x) == Signed(x.num, Size(x.num) \div x.den)

(* The double nearest to a whole number is one.                            *)
Rounded(v) == Truncated(Nearest(v, 1))

(* create_bignum: the bytes of the magnitude, most significant first.      *)
LittleEndian[n \in Nat] == IF n = 0 THEN <<>> ELSE <<n % Byte>> \o LittleEndian[n \div Byte]

CreateBignum(v) ==
  LET bytes == LittleEndian[IF v < 0 THEN -v ELSE v]
  IN  [is |-> "bignum", negative |-> v < 0,
       data |-> Reverse(IF bytes = <<>> THEN <<0>> ELSE bytes)]

(* The number duckdb_create_bignum makes of them.                          *)
NextByte(n, b) == n * Byte + b

BignumOf(c) ==
  LET size == FoldLeft(NextByte, 0, c.data)
  IN  IF c.negative THEN -size ELSE size

-----------------------------------------------------------------------------
(* Strings.                                                                *)

(* A cstring argument: the C side reads up to the first NUL.               *)
CStr(bytes) ==
  LET nuls == {i \in DOMAIN bytes : bytes[i] = NUL}
  IN  IF nuls = {} THEN bytes ELSE SubSeq(bytes, 1, Min(nuls) - 1)

(* duckdb_string_t: short strings in the cell, longer ones behind a        *)
(* pointer, with a prefix of them in the cell.                             *)
StringCell(bytes) ==
  [is |-> "string", len |-> Len(bytes),
   here |-> IF Len(bytes) <= Inline THEN bytes ELSE SubSeq(bytes, 1, Inline \div 2),
   there |-> IF Len(bytes) <= Inline THEN <<>> ELSE bytes]

ReadStringBytes(c) == IF c.len <= Inline THEN SubSeq(c.here, 1, c.len) ELSE c.there

(* String(value) of a Uint8Array, as the client binds it.                  *)
ByteText(b) ==
  [i \in 1 .. (IF b = <<>> THEN 0 ELSE 2 * Len(b) - 1) |->
     IF i % 2 = 1 THEN Digit(b[(i + 1) \div 2]) ELSE Comma]

-----------------------------------------------------------------------------
(* Dates and times.                                                        *)

(* toISOString().slice(0, 10): the whole date while the year has four      *)
(* digits, then no more than its month; outside a Date's range it throws.  *)
DateString(days) ==
  IF days \notin JsDays THEN Throw
  ELSE IF days \in ShortDays THEN [is |-> "date", of |-> <<days \div MonthDays, days % MonthDays>>]
  ELSE [is |-> "date", of |-> <<days \div MonthDays>>]

TimeString(micros) ==
  LET t == IF micros < 0 THEN 0 ELSE micros
      sec == t \div Unit
  IN  [is |-> "time", us |-> t % Unit, s |-> sec % Sixty, m |-> (sec \div Sixty) % Sixty,
       h |-> sec \div (Sixty * Sixty)]

(* duckdb_time_tz: the microseconds above, the encoded offset below.       *)
OffsetValues == 4

TimeTzBits(micros, offset) == micros * OffsetValues + 1 - offset

(* A Date holds whole milliseconds, and is invalid outside its range.      *)
TimestampDate(micros) ==
  LET ms == Truncated(Nearest(Rounded(micros), Unit))
  IN  IF ms \in JsMillis THEN Num(ms) ELSE InvalidDate

-----------------------------------------------------------------------------
(* Encoding.  FFI arguments: integers wrap, an f64 turns NaN into 0.       *)

FfiI64(v) == Num(AsIntN(v.n))

FfiI32(v) == Num(((v.n + HalfInt) % (2 * HalfInt)) - HalfInt)

FfiF64(v) == IF v = NaN THEN Num(0) ELSE v

CreateDouble(v) == v

CreateVarchar(b) == StringCell(b)

(* createValue and create_*: as the types' encoders share them.            *)
CreateValue(type, v) ==
  CASE type = "BOOLEAN" -> v
    [] type \in {"BIGINT", "TIME", "TIMESTAMP", "INTERVAL"} -> FfiI64(v)
    [] type = "DATE" -> FfiI32(v)
    [] type = "TIME_TZ" -> Num(AsUintN(TimeTzBits(v.micros, v.offset)))
    [] type = "DOUBLE" -> CreateDouble(v)
    [] type = "VARCHAR" -> CreateVarchar(v.b)
    [] type = "BLOB" -> StringCell(v.b)
    [] type \in {"HUGEINT", "DECIMAL38"} -> Words(SplitI128(v.n))
    [] type = "DECIMAL18" -> Num(JoinI128(SplitI128(v.n).lower, SplitI128(v.n).upper))
    [] type = "UHUGEINT" -> Words(SplitU128(v.n))
    [] type = "UUID" -> CreateUuid(v.n)
    [] type = "BIGNUM" -> CreateBignum(v.n)

(* Where appender.ts and prepared.ts have a function for the type, and     *)
(* where functions.ts has a stub; for the others the vendored classes go   *)
(* through createValue.                                                    *)
DirectAppends ==
  {"BOOLEAN", "BIGINT", "HUGEINT", "UHUGEINT", "DOUBLE", "VARCHAR", "BLOB", "DATE", "TIME",
   "TIMESTAMP", "INTERVAL"}

DirectBinds == {"BOOLEAN", "BIGINT", "DOUBLE", "VARCHAR", "BLOB"}

StubBinds ==
  {"HUGEINT", "UHUGEINT", "DECIMAL18", "DECIMAL38", "DATE", "TIME", "TIMESTAMP", "INTERVAL"}

(* append_* and bind_* differ from create_* in two arguments.              *)
Direct(type, v) ==
  CASE type = "DOUBLE" -> FfiF64(v)
    [] type = "VARCHAR" -> StringCell(CStr(v.b))
    [] OTHER -> CreateValue(type, v)

AppendTyped(type, v) ==
  IF type \in DirectAppends THEN Direct(type, v) ELSE CreateValue(type, v)

BindTyped(type, v) ==
  CASE type \in StubBinds -> Throw
    [] type \in DirectBinds -> Direct(type, v)
    [] OTHER -> CreateValue(type, v)

(* PreparedStatement.bind dispatches on the JavaScript type: a bigint that *)
(* does not fit goes as text, an integral number as an int64.  DuckDB      *)
(* casts the parameter to the column.                                      *)
ClientTypes == {"BOOLEAN", "BIGINT", "HUGEINT", "UHUGEINT", "DOUBLE", "VARCHAR", "BLOB"}

ClientBind(type, v) ==
  CASE type \in {"BIGINT", "HUGEINT", "UHUGEINT"} ->
         IF v.n \in (CASE type = "BIGINT" -> Int64 [] type = "HUGEINT" -> Int128
                       [] OTHER -> UInt128)
           THEN CreateValue(type, v) ELSE Uncastable
    [] type = "DOUBLE" -> IF v.is = "int" THEN FfiI64(v) ELSE FfiF64(v)
    [] type = "VARCHAR" -> StringCell(CStr(v.b))
    [] type = "BLOB" -> StringCell(ByteText(v.b))
    [] OTHER -> v

Encode(route, type, v) ==
  IF v = Null THEN Null
  ELSE CASE route = "append" -> AppendTyped(type, v)
         [] route = "bind" -> BindTyped(type, v)
         [] route = "client" -> ClientBind(type, v)
         [] OTHER -> CreateValue(type, v)

-----------------------------------------------------------------------------
(* Decoding.                                                               *)

(* The scale of a column is that of the values written to it.              *)
DecimalScale(v) == IF v.is = "decimal" THEN v.scale ELSE 0

ReadDecimal(type, scale, c) ==
  Nearest(Rounded(IF type = "DECIMAL38" THEN ReadHugeint(c) ELSE c.n), Rounded(Ten ^ scale))

DecodeCell(type, scale, c) ==
  CASE type \in {"BOOLEAN", "BIGINT", "DOUBLE"} -> c
    [] type = "HUGEINT" -> Num(ReadHugeint(c))
    [] type = "UHUGEINT" -> Num(ReadUhugeint(c))
    [] type \in {"VARCHAR", "BLOB"} -> Bytes(ReadStringBytes(c))
    [] type = "BIGNUM" -> [is |-> "misread"]
    [] type = "DATE" -> DateString(c.n)
    [] type = "TIMESTAMP" -> TimestampDate(c.n)
    [] type \in {"TIME", "TIME_TZ"} -> TimeString(AsIntN(c.n))
    [] type \in {"DECIMAL18", "DECIMAL38"} -> ReadDecimal(type, scale, c)
    [] type = "UUID" -> Num(UuidString(c))
    [] OTHER -> Null

(* The validity mask of a column: absent when every row is valid.          *)
NoMask == <<>>

MaskOf(col) ==
  IF Null \notin Range(col) THEN NoMask
  ELSE [w \in 1 .. (Len(col) - 1) \div MaskBits + 1 |->
          {b \in 0 .. MaskBits - 1 :
             LET i == (w - 1) * MaskBits + b + 1 IN i > Len(col) \/ col[i] # Null}]

IsValid(mask, row) == mask = NoMask \/ row % MaskBits \in mask[row \div MaskBits + 1]

DecodeColumn(type, scale, col) ==
  LET mask == MaskOf(col)
  IN  [i \in DOMAIN col |-> IF IsValid(mask, i - 1) THEN DecodeCell(type, scale, col[i]) ELSE Null]

=============================================================================
