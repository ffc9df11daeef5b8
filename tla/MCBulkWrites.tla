----------------------------- MODULE MCBulkWrites -----------------------------
(* BulkWrites for TLC: words of four bits, doubles of two, and for every   *)
(* type the values at the edges of its range, of the next narrower one and *)
(* of what a double or a Date holds.                                       *)
EXTENDS BulkWrites

MCShortDays == -3 .. 3
MCJsDays == -5 .. 5
MCJsMillis == -3 .. 3
MCScales == {2 ^ k : k \in 0 .. 10}

Strings == UNION {[1 .. n -> {NUL, 1}] : n \in 0 .. 3}

Wide == {-129, -128, -127, -17, -16, -9, -8, -1, 0, 7, 8, 15, 16, 127, 128}

Numbers(type) ==
  CASE type = "BIGINT" -> {-9, -8, -1, 0, 7, 8}
    [] type = "HUGEINT" -> Wide
    [] type = "DECIMAL38" -> {-129, -17, -8, -5, -4, -1, 0, 3, 16, 127}
    [] type = "DECIMAL18" -> {-8, -5, -4, -1, 0, 3, 7}
    [] type \in {"UHUGEINT", "UUID"} -> {0, 1, 15, 16, 127, 128, 255, 256}
    [] type = "BIGNUM" -> {-9, -3, -1, 0, 1, 2, 3, 26, 27}
    [] type = "DATE" -> {-9, -6, -5, -4, -3, 0, 3, 4, 5, 6, 13}
    [] type = "TIME" -> {-1, 0, 1, 3, 7, 8}
    [] type = "TIMESTAMP" -> {-9, -8, -5, -4, -3, 0, 3, 5, 7, 8}
    [] type = "INTERVAL" -> {0}
    [] type = "DOUBLE" -> {-9, -8, -1, 0, 7, 8}
    [] type = "BOOLEAN" -> {0, 1}

MCSubjects ==
  UNION {{[type |-> t, value |-> Num(n)] : n \in Numbers(t)} :
           t \in {"BIGINT", "HUGEINT", "UHUGEINT", "UUID", "BIGNUM", "DATE", "TIME",
                  "TIMESTAMP", "INTERVAL", "DOUBLE", "BOOLEAN"}}
  \cup UNION {{[type |-> t, value |-> Decimal(n, scale)] : n \in Numbers(t), scale \in 0 .. 2} :
                t \in {"DECIMAL18", "DECIMAL38"}}
  \cup {[type |-> "DOUBLE", value |-> NaN], [type |-> "DOUBLE", value |-> Fraction]}
  \cup {[type |-> t, value |-> Bytes(b)] : t \in {"VARCHAR", "BLOB"}, b \in Strings}
  \cup {[type |-> "TIME_TZ", value |-> [is |-> "timetz", micros |-> m, offset |-> o]] :
          m \in {0, 1, 8}, o \in -1 .. 1}
=============================================================================
