-------------------------- MODULE WindowsRun_proofs --------------------------
(***************************************************************************)
(* What holds of every run on a Windows host, whatever Sysmon is           *)
(* configured to log, however the host is changed meanwhile, and           *)
(* whichever reads fail.                                                   *)
(***************************************************************************)
EXTENDS WindowsRun, Verdicts_proofs, WellFoundedInduction, FiniteSetTheorems

-----------------------------------------------------------------------------
(* The table of auditpol.                                                  *)

NatLess == {ss \in Nat \X Nat : ss[1] < ss[2]}

\* The order by which a first row is found.
LEMMA NatLessWellFounded == IsWellFoundedOn(NatLess, Nat)
  BY NatLessThanWellFounded DEF OpToRel, NatLess

\* A set of numbers has a least one.
LEMMA LeastOf ==
  ASSUME NEW S \in SUBSET Nat, S # {}
  PROVE  \E n \in S : \A m \in S : n <= m
<1>1. PICK n \in S : \A m \in S : <<m, n>> \notin NatLess
  BY NatLessWellFounded, WFMin, Zenon
<1>2. \A m \in S : ~(m < n)
  BY <1>1 DEF NatLess
<1> QED
  BY <1>2

\* Of two numbers one is at least as large as both.
LEMMA MaxOfTwo ==
  ASSUME NEW a \in Nat, NEW b \in Nat
  PROVE  Csv!Max({a, b}) \in Nat /\ a <= Csv!Max({a, b}) /\ b <= Csv!Max({a, b})
<1>1. \E x \in {a, b} : \A y \in {a, b} : x >= y
  OBVIOUS
<1> QED
  BY <1>1 DEF Csv!Max

\* The largest number of a set that has one.
LEMMA MaxOf ==
  ASSUME NEW k \in Nat, NEW S \in SUBSET (1 .. k), S # {}
  PROVE  Csv!Max(S) \in S
<1> DEFINE T == {k - i : i \in S}
<1>1. T \in SUBSET Nat /\ T # {}
  <2>1. \A i \in S : i \in 1 .. k
    OBVIOUS
  <2>2. \A i \in 1 .. k : k - i \in Nat
    OBVIOUS
  <2> QED
    BY <2>1, <2>2
<1>2. PICK n \in T : \A m \in T : n <= m
  BY <1>1, LeastOf
<1>3. PICK i \in S : n = k - i
  OBVIOUS
<1>4. \A j \in S : i >= j
  BY <1>2, <1>3
<1> QED
  BY <1>4 DEF Csv!Max

Cells(words, s) == {s, "text", "empty", Cell[words[s]]}

Joined(u, v) == u \o v

\* Two sequences put together.
LEMMA TwoParts ==
  ASSUME NEW C, NEW u \in Seq(C), NEW v \in Seq(C)
  PROVE  /\ Joined(u, v) \in Seq(C) /\ Len(Joined(u, v)) = Len(u) + Len(v)
         /\ Len(u) \in Nat /\ Len(v) \in Nat
         /\ \A i \in 1 .. Len(u) : Joined(u, v)[i] = u[i]
         /\ \A i \in 1 .. Len(u) + Len(v) : i > Len(u) => i - Len(u) \in 1 .. Len(v) /\ Joined(u, v)[i] = v[i - Len(u)]
  BY DEF Joined

\* The parts of a row are short.
LEMMA ShortParts ==
  ASSUME NEW C, NEW x \in C
  PROVE  /\ <<x>> \in Seq(C) /\ Len(<<x>>) = 1 /\ <<x>>[1] = x
         /\ <<>> \in Seq(C) /\ Len(<<>>) = 0
  OBVIOUS

\* A row is put together from three sequences, the first of which has two elements.
PutTogether(row, u, m, l) ==
  /\ Len(row) \in Nat /\ DOMAIN row = 1 .. Len(row) /\ Len(row) = 2 + Len(m) + Len(l)
  /\ row[1] = u[1] /\ row[2] = u[2]
  /\ Len(m) >= 1 => row[3] = m[1]
  /\ \A i \in DOMAIN row : i # 1 /\ i # 2 =>
       \/ i - 2 \in 1 .. Len(m) /\ row[i] = m[i - 2]
       \/ i - 2 - Len(m) \in 1 .. Len(l) /\ row[i] = l[i - 2 - Len(m)]

\* What is where in it.
LEMMA ThreeParts ==
  ASSUME NEW C, NEW u \in Seq(C), NEW m \in Seq(C), NEW l \in Seq(C), Len(u) = 2
  PROVE  PutTogether(Joined(Joined(u, m), l), u, m, l)
<1> DEFINE um  == Joined(u, m)
           row == Joined(um, l)
<1> HIDE DEF um, row
<1>1. /\ um \in Seq(C) /\ Len(um) = 2 + Len(m) /\ Len(m) \in Nat
      /\ \A i \in 1 .. 2 : um[i] = u[i]
      /\ \A i \in 1 .. 2 + Len(m) : i > 2 => i - 2 \in 1 .. Len(m) /\ um[i] = m[i - 2]
  <2>1. um \in Seq(C) /\ Len(um) = Len(u) + Len(m) /\ Len(m) \in Nat
    BY TwoParts DEF um
  <2>2. \A i \in 1 .. Len(u) : um[i] = u[i]
    BY TwoParts DEF um
  <2>3. \A i \in 1 .. Len(u) + Len(m) : i > Len(u) => i - Len(u) \in 1 .. Len(m) /\ um[i] = m[i - Len(u)]
    BY TwoParts DEF um
  <2> QED
    BY <2>1, <2>2, <2>3
<1>2. /\ row \in Seq(C) /\ Len(row) = Len(um) + Len(l) /\ Len(l) \in Nat
      /\ \A i \in 1 .. Len(um) : row[i] = um[i]
      /\ \A i \in 1 .. Len(um) + Len(l) : i > Len(um) => i - Len(um) \in 1 .. Len(l) /\ row[i] = l[i - Len(um)]
  <2>0. um \in Seq(C)
    BY <1>1
  <2>1. row \in Seq(C) /\ Len(row) = Len(um) + Len(l) /\ Len(l) \in Nat
    BY <2>0, TwoParts DEF row
  <2>2. \A i \in 1 .. Len(um) : row[i] = um[i]
    BY <2>0, TwoParts DEF row
  <2>3. \A i \in 1 .. Len(um) + Len(l) : i > Len(um) => i - Len(um) \in 1 .. Len(l) /\ row[i] = l[i - Len(um)]
    BY <2>0, TwoParts DEF row
  <2> QED
    BY <2>1, <2>2, <2>3
<1>3. Len(row) \in Nat /\ DOMAIN row = 1 .. Len(row) /\ Len(row) = 2 + Len(m) + Len(l)
  BY <1>1, <1>2
<1>4. row[1] = u[1] /\ row[2] = u[2]
  BY <1>1, <1>2
<1>5. Len(m) >= 1 => row[3] = m[1]
  <2>1. Len(m) >= 1 => 3 \in 1 .. Len(um) /\ 3 - 2 = 1 /\ 3 > 2
    BY <1>1
  <2>2. Len(m) >= 1 => um[3] = m[3 - 2] /\ row[3] = um[3]
    BY <1>1, <1>2, <2>1
  <2> QED
    BY <2>1, <2>2
<1>6. ASSUME NEW i \in DOMAIN row, i # 1, i # 2
      PROVE  \/ i - 2 \in 1 .. Len(m) /\ row[i] = m[i - 2]
             \/ i - 2 - Len(m) \in 1 .. Len(l) /\ row[i] = l[i - 2 - Len(m)]
  <2>1. i \in 1 .. Len(row) /\ i > 2
    BY <1>3, <1>6
  <2>2. CASE i <= Len(um)
    <3>1. i \in 1 .. Len(um)
      BY <1>1, <2>1, <2>2
    <3>2. row[i] = um[i] /\ um[i] = m[i - 2] /\ i - 2 \in 1 .. Len(m)
      BY <1>1, <1>2, <2>1, <3>1
    <3> QED
      BY <3>2
  <2>3. CASE i > Len(um)
    <3>1. i - Len(um) \in 1 .. Len(l) /\ row[i] = l[i - Len(um)]
      BY <1>2, <2>1, <2>3
    <3>2. i - Len(um) = i - 2 - Len(m)
      BY <1>1, <2>1
    <3> QED
      BY <3>1, <3>2
  <2> QED
    BY <1>1, <2>1, <2>2, <2>3
<1> QED
  BY <1>1, <1>2, <1>3, <1>4, <1>5, <1>6 DEF PutTogether, um, row

RowOf(setting, last, s) == <<"text", s>> \o setting[s] \o last

Shaped(row, words, odd, s) ==
  /\ Len(row) \in Nat /\ DOMAIN row = 1 .. Len(row) /\ 2 <= Len(row)
  /\ row[1] = "text" /\ row[2] = s
  /\ s \notin odd => 3 <= Len(row) /\ row[3] = Cell[words[s]]
  /\ \A i \in DOMAIN row : i # 1 /\ i # 2 /\ (i # 3 \/ s \in odd) => row[i] \in {"empty", "text"}

Lasts == {<<>>, <<"empty">>}

\* The cells of a subcategory's row: its name is in the second, its setting in the third.
LEMMA RowShape ==
  ASSUME NEW words \in [Subcategories -> Word], NEW odd, NEW setting \in Settings(words, odd),
         NEW last \in Lasts, NEW s \in Subcategories
  PROVE  Shaped(RowOf(setting, last, s), words, odd, s)
<1> DEFINE C == Cells(words, s)
<1>1. PICK cells \in OddSettings : setting = [t \in Subcategories |-> IF t \in odd THEN cells ELSE <<Cell[words[t]]>>]
  BY DEF Settings
<1>2. s \in C /\ "text" \in C /\ "empty" \in C /\ Cell[words[s]] \in C
  BY DEF Cells
<1> HIDE DEF C
<1>3. PICK u : u = <<"text", s>>
  OBVIOUS
<1>4. u \in Seq(C) /\ Len(u) = 2 /\ u[1] = "text" /\ u[2] = s
  BY <1>2, <1>3
<1>5. PICK l : l = last
  OBVIOUS
<1>6. l \in Seq(C) /\ Len(l) \in 0 .. 1 /\ \A i \in 1 .. Len(l) : l[i] = "empty"
  <2>1. CASE l = <<>>
    BY <1>2, <2>1, ShortParts
  <2>2. CASE l = <<"empty">>
    BY <1>2, <2>2, ShortParts
  <2> QED
    BY <1>5, <2>1, <2>2 DEF Lasts
<1>7. PICK m : m = setting[s]
  OBVIOUS
<1>8. /\ s \in odd => m = <<>> \/ m = <<"empty">> \/ m = <<"text">>
      /\ s \notin odd => m = <<Cell[words[s]]>>
  BY <1>1, <1>7 DEF OddSettings
<1>9. /\ m \in Seq(C) /\ Len(m) \in 0 .. 1
      /\ s \in odd => \A i \in 1 .. Len(m) : m[i] \in {"empty", "text"}
      /\ s \notin odd => Len(m) = 1 /\ m[1] = Cell[words[s]]
  <2>1. CASE m = <<>> /\ s \in odd
    BY <1>2, <2>1, ShortParts
  <2>2. CASE m = <<"empty">> /\ s \in odd
    BY <1>2, <2>2, ShortParts
  <2>3. CASE m = <<"text">> /\ s \in odd
    BY <1>2, <2>3, ShortParts
  <2>4. CASE s \notin odd
    <3>1. PICK x \in C : x = Cell[words[s]] /\ m = <<x>>
      BY <1>2, <1>8, <2>4
    <3> QED
      BY <2>4, <3>1
  <2> QED
    BY <1>8, <2>1, <2>2, <2>3, <2>4
<1> DEFINE row == Joined(Joined(u, m), l)
<1>10. PutTogether(row, u, m, l)
  BY <1>4, <1>6, <1>9, ThreeParts
<1> HIDE DEF row
<1>11. ASSUME NEW i \in DOMAIN row, i # 1, i # 2, i # 3 \/ s \in odd
       PROVE  row[i] \in {"empty", "text"}
  BY <1>6, <1>9, <1>10, <1>11 DEF PutTogether
<1>12. /\ 2 <= Len(row) /\ row[1] = "text" /\ row[2] = s
       /\ s \notin odd => 3 <= Len(row) /\ row[3] = Cell[words[s]]
  BY <1>4, <1>6, <1>9, <1>10 DEF PutTogether
<1>13. RowOf(setting, last, s) = row
  BY <1>3, <1>5, <1>7 DEF row, Joined, RowOf
<1> QED
  BY <1>10, <1>11, <1>12, <1>13 DEF PutTogether, Shaped

Within(u, w) == \A i \in DOMAIN u : \E n \in DOMAIN w : w[n] = u[i]

\* What is in either part is in the whole.
LEMMA PartsStay ==
  ASSUME NEW C, NEW u \in Seq(C), NEW v \in Seq(C)
  PROVE  Joined(u, v) \in Seq(C) /\ Within(u, Joined(u, v)) /\ Within(v, Joined(u, v))
<1> DEFINE uv == Joined(u, v)
<1>1. /\ uv \in Seq(C) /\ Len(uv) = Len(u) + Len(v)
      /\ Len(u) \in Nat /\ Len(v) \in Nat
  BY TwoParts
<1>2. \A i \in 1 .. Len(u) : uv[i] = u[i]
  BY TwoParts
<1>3. \A i \in 1 .. Len(v) : uv[Len(u) + i] = v[i]
  BY DEF Joined
<1> HIDE DEF uv
<1>4. DOMAIN u = 1 .. Len(u) /\ DOMAIN v = 1 .. Len(v) /\ DOMAIN uv = 1 .. Len(u) + Len(v)
  BY <1>1
<1>5. \A i \in 1 .. Len(u) : i \in DOMAIN uv
  BY <1>1, <1>4
<1>6. \A i \in 1 .. Len(v) : Len(u) + i \in DOMAIN uv
  BY <1>1, <1>4
<1>7. \A i \in DOMAIN u : \E n \in DOMAIN uv : uv[n] = u[i]
  BY <1>2, <1>4, <1>5
<1>8. \A i \in DOMAIN v : \E n \in DOMAIN uv : uv[n] = v[i]
  BY <1>3, <1>4, <1>6
<1> QED
  BY <1>1, <1>7, <1>8 DEF uv, Within

\* The rows that tell of no subcategory.
OtherRows == {<<>>, <<"text", "text", "text">>, <<"text", "empty", "zero">>, <<"text", "empty", "zero", "empty">>}

Blanks  == {<<>>, <<<<>>>>}
Options == {<<>>, <<<<"text", "empty", "zero">>>>, <<<<"text", "empty", "zero", "empty">>>>}

\* A row of a table, and every subcategory's own.
Made(rows, setting, last) ==
  /\ \A n \in DOMAIN rows :
       n \in Nat /\ (rows[n] \in OtherRows \/ \E s \in Subcategories : rows[n] = RowOf(setting, last, s))
  /\ \A s \in Subcategories : \E n \in DOMAIN rows : rows[n] = RowOf(setting, last, s)

\* A table has a row for each subcategory, and other rows.
LEMMA TableShape ==
  ASSUME NEW blank \in Blanks, NEW setting, NEW last, NEW option \in Options
  PROVE  Made(Table(blank, setting, last, option), setting, last)
<1> DEFINE Lines == OtherRows \cup {RowOf(setting, last, s) : s \in Subcategories}
           head == <<<<"text", "text", "text">>>>
           body == [n \in DOMAIN Order |-> RowOf(setting, last, Order[n])]
           rows == Joined(Joined(Joined(blank, head), body), option)
<1>1. rows = Table(blank, setting, last, option)
  BY DEF Joined, Table, RowOf
<1>2. /\ <<>> \in Lines /\ <<"text", "text", "text">> \in Lines
      /\ <<"text", "empty", "zero">> \in Lines /\ <<"text", "empty", "zero", "empty">> \in Lines
      /\ \A s \in Subcategories : RowOf(setting, last, s) \in Lines
  BY DEF OtherRows
<1> HIDE DEF Lines
<1>3. /\ <<>> \in Seq(Lines) /\ <<<<>>>> \in Seq(Lines) /\ head \in Seq(Lines)
      /\ <<<<"text", "empty", "zero">>>> \in Seq(Lines) /\ <<<<"text", "empty", "zero", "empty">>>> \in Seq(Lines)
  BY <1>2
<1>4. blank \in Seq(Lines) /\ option \in Seq(Lines)
  BY <1>3, Zenon DEF Blanks, Options
<1>5. DOMAIN Order = 1 .. 3 /\ \A n \in 1 .. 3 : Order[n] \in Subcategories
  BY DEF Order, Subcategories
<1>6. body \in Seq(Lines) /\ DOMAIN body = 1 .. 3 /\ \A n \in 1 .. 3 : body[n] = RowOf(setting, last, Order[n])
  BY <1>2, <1>5
<1>7. \A s \in Subcategories : \E n \in 1 .. 3 : Order[n] = s
  BY DEF Order, Subcategories
<1> HIDE DEF head, body
<1>8. Joined(blank, head) \in Seq(Lines)
  BY <1>3, <1>4, PartsStay
<1>9. /\ Joined(Joined(blank, head), body) \in Seq(Lines)
      /\ Within(body, Joined(Joined(blank, head), body))
  BY <1>6, <1>8, PartsStay
<1>10. rows \in Seq(Lines) /\ Within(Joined(Joined(blank, head), body), rows)
  BY <1>4, <1>9, PartsStay
<1>11. Within(body, rows)
  BY <1>9, <1>10 DEF Within
<1> HIDE DEF rows
<1>12. \A s \in Subcategories : \E n \in DOMAIN rows : rows[n] = RowOf(setting, last, s)
  BY <1>6, <1>7, <1>11 DEF Within
<1>13. \A n \in DOMAIN rows : n \in Nat /\ rows[n] \in Lines
  BY <1>10
<1> QED
  BY <1>1, <1>12, <1>13 DEF Lines, Made

\* The least number of a set.
LEMMA LeastIs ==
  ASSUME NEW S \in SUBSET Nat, S # {}
  PROVE  Csv!Min(S) \in S /\ \A n \in S : Csv!Min(S) <= n
  BY LeastOf DEF Csv!Min

\* Which cells of a row the parser takes for what.
LEMMA RowCells ==
  ASSUME NEW words \in [Subcategories -> Word], NEW odd, NEW setting \in Settings(words, odd),
         NEW last \in Lasts, NEW s \in Subcategories
  PROVE  LET row == RowOf(setting, last, s)
         IN /\ Csv!GuidCells(row) = {2} /\ Csv!SettingCells(row) = IF s \in odd THEN {} ELSE {3}
            /\ row[2] = s /\ Csv!guid_index(row) = 2
            /\ s \notin odd => 3 \in DOMAIN row /\ Csv!setting_index(row) = 3 /\ row[3] = Cell[words[s]]
            /\ 3 \in DOMAIN row /\ s \in odd => row[3] \in {"empty", "text"}
            /\ Len(row) \in Nat /\ DOMAIN row = 1 .. Len(row)
<1> DEFINE row == RowOf(setting, last, s)
<1>1. /\ Len(row) \in Nat /\ DOMAIN row = 1 .. Len(row) /\ 2 <= Len(row)
      /\ row[1] = "text" /\ row[2] = s
      /\ s \notin odd => 3 <= Len(row) /\ row[3] = Cell[words[s]]
      /\ \A i \in DOMAIN row : i # 1 /\ i # 2 /\ (i # 3 \/ s \in odd) => row[i] \in {"empty", "text"}
  BY RowShape DEF Shaped
<1> HIDE DEF row
<1>2. Cell[words[s]] \in {"zero", "one", "two", "three"}
  BY DEF Cell, Word
<1>3. "text" \notin Subcategories /\ "empty" \notin Subcategories /\ {"zero", "one", "two", "three"} \cap Subcategories = {}
  BY DEF Subcategories
<1>4. Csv!_SETTING_VALUES = {"zero", "one", "two", "three"} /\ Subcategories \cap Csv!_SETTING_VALUES = {}
  BY DEF Csv!_SETTING_VALUES, Csv!_STATES, Subcategories
<1>5. Csv!GuidCells(row) = {2}
  <2>1. \A i \in DOMAIN row : i # 2 => row[i] \notin Subcategories
    BY <1>1, <1>2, <1>3
  <2> QED
    BY <1>1, <2>1 DEF Csv!GuidCells
<1>6. Csv!guid_index(row) = 2
  BY <1>5, LeastIs DEF Csv!guid_index
<1>7. Csv!SettingCells(row) = IF s \in odd THEN {} ELSE {3}
  <2>1. \A i \in DOMAIN row : i # 3 \/ s \in odd => row[i] \notin Csv!_SETTING_VALUES
    BY <1>1, <1>4
  <2>2. s \notin odd => 3 \in DOMAIN row /\ row[3] \in Csv!_SETTING_VALUES
    BY <1>1, <1>2, <1>4
  <2> QED
    BY <1>6, <2>1, <2>2 DEF Csv!SettingCells
<1>8. s \notin odd => 3 \in DOMAIN row /\ Csv!setting_index(row) = 3
  <2>1. {3} \in SUBSET (1 .. 3) /\ {3} # {} /\ 3 \in Nat
    OBVIOUS
  <2>2. Csv!Max({3}) \in {3}
    BY <2>1, MaxOf
  <2> QED
    BY <1>1, <1>7, <2>2 DEF Csv!setting_index
<1> QED
  BY <1>1, <1>5, <1>6, <1>7, <1>8 DEF row

\* Of the two columns the setting's is the last.
LEMMA TwoAndThree == Csv!Max({2, 3}) = 3
  BY MaxOfTwo, MaxOf

\* The rows that name no subcategory.
LEMMA OtherCells ==
  ASSUME NEW row \in OtherRows
  PROVE  /\ Csv!GuidCells(row) = {}
         /\ \A columns : columns.guid = 2 /\ columns.setting = 3 => ~Csv!Gate(row, columns)
<1>1. \A i \in DOMAIN row : row[i] \in {"text", "empty", "zero"}
  BY DEF OtherRows
<1>2. \A i \in DOMAIN row : row[i] \notin Subcategories
  BY <1>1 DEF Subcategories
<1>3. Len(row) \in Nat /\ DOMAIN row = 1 .. Len(row)
  BY DEF OtherRows
<1>4. ASSUME NEW columns, columns.guid = 2, columns.setting = 3, Csv!Gate(row, columns) PROVE FALSE
  <2>2. 2 \in DOMAIN row
    BY <1>3, <1>4, TwoAndThree DEF Csv!Gate, Csv!Short
  <2> QED
    BY <1>2, <1>4, <2>2 DEF Csv!Gate
<1> QED
  BY <1>2, <1>4 DEF Csv!GuidCells

\* What the parser makes of a table: of a subcategory, what its own row says.
LEMMA TableSays ==
  ASSUME NEW words \in [Subcategories -> Word], NEW odd \in Odd, NEW rows \in Tables(words, odd),
         NEW s \in Subcategories
  PROVE  /\ s \notin odd => Csv!parse_auditpol_csv(rows).states[s] = Csv!StateOf(Cell[words[s]])
         /\ s \in odd => Csv!parse_auditpol_csv(rows).states[s] \in {"absent", "unknown"}
<1>1. PICK blank \in Blanks, setting \in Settings(words, odd), last \in Lasts,
           option \in Options :
        rows = Table(blank, setting, last, option)
  BY SMT DEF Tables, Blanks, Lasts, Options
<1> DEFINE Row(t) == RowOf(setting, last, t)
<1>2. Made(rows, setting, last)
  BY <1>1, TableShape
<1>3. \A t \in Subcategories :
        /\ Csv!GuidCells(Row(t)) = {2} /\ Csv!SettingCells(Row(t)) = IF t \in odd THEN {} ELSE {3}
        /\ Row(t)[2] = t /\ Csv!guid_index(Row(t)) = 2
        /\ t \notin odd => 3 \in DOMAIN Row(t) /\ Csv!setting_index(Row(t)) = 3 /\ Row(t)[3] = Cell[words[t]]
        /\ 3 \in DOMAIN Row(t) /\ t \in odd => Row(t)[3] \in {"empty", "text"}
        /\ Len(Row(t)) \in Nat /\ DOMAIN Row(t) = 1 .. Len(Row(t))
  BY RowCells
<1>4. /\ \A n \in DOMAIN rows : n \in Nat /\ (rows[n] \in OtherRows \/ \E t \in Subcategories : rows[n] = Row(t))
      /\ \A t \in Subcategories : \E n \in DOMAIN rows : rows[n] = Row(t)
  BY <1>2 DEF Made
<1> HIDE DEF Row
<1>5. \A n \in DOMAIN rows : rows[n] \in OtherRows => Csv!GuidCells(rows[n]) = {}
  BY OtherCells
<1>6. \A n : n \in Csv!GuidRows(rows) <=> n \in DOMAIN rows /\ \E t \in Subcategories : rows[n] = Row(t)
  <2>1. \A t \in Subcategories : Csv!GuidCells(Row(t)) # {}
    BY <1>3
  <2> QED
    BY <1>4, <1>5, <2>1 DEF Csv!GuidRows
<1>7. \A n : n \in Csv!AnchorRows(rows) <=> n \in DOMAIN rows /\ \E t \in Subcategories \ odd : rows[n] = Row(t)
  <2>1. \A t \in Subcategories : Csv!SettingCells(Row(t)) # {} <=> t \notin odd
    BY <1>3
  <2>2. \A t, u \in Subcategories : Row(t) = Row(u) => t = u
    BY <1>3
  <2> QED
    BY <1>6, <2>1, <2>2 DEF Csv!AnchorRows
<1>8. Csv!AnchorRows(rows) # {} /\ Csv!AnchorRows(rows) \in SUBSET Nat
  <2>1. PICK t \in Subcategories : t \notin odd
    BY DEF Odd, Subcategories
  <2> QED
    BY <1>4, <1>7, <2>1
<1> DEFINE columns == Csv!Columns(rows)
<1>9. columns.guid = 2 /\ columns.setting = 3
  <2>1. PICK n \in Csv!AnchorRows(rows) : n = Csv!Min(Csv!AnchorRows(rows))
    BY <1>8, LeastIs
  <2>2. PICK t \in Subcategories \ odd : rows[n] = Row(t)
    BY <1>7, <2>1
  <2>3. Csv!guid_index(rows[n]) = 2 /\ Csv!setting_index(rows[n]) = 3
    BY <1>3, <2>2
  <2> QED
    BY <2>1, <2>3 DEF Csv!Columns
<1> HIDE DEF columns
<1> DEFINE found == {n \in Csv!DataRows(rows) : Csv!Gate(rows[n], columns) /\ rows[n][columns.guid] = s}
<1>10. Csv!parse_auditpol_csv(rows).states[s]
         = IF found = {} THEN "absent" ELSE Csv!StateOf(rows[Csv!Min(found)][columns.setting])
  BY <1>8 DEF Csv!parse_auditpol_csv, Csv!StateIn, columns
<1>12. \A t \in Subcategories : Csv!Gate(Row(t), columns) => 3 \in DOMAIN Row(t)
  BY <1>3, <1>9, TwoAndThree DEF Csv!Gate, Csv!Short
<1>13. ASSUME NEW n \in found PROVE rows[n] = Row(s) /\ 3 \in DOMAIN Row(s) /\ n \in Nat
  <2>1. n \in DOMAIN rows /\ Csv!Gate(rows[n], columns) /\ rows[n][2] = s
    BY <1>9 DEF Csv!DataRows
  <2>2. PICK t \in Subcategories : rows[n] = Row(t)
    BY <1>4, <1>9, <2>1, OtherCells
  <2> QED
    BY <1>3, <1>4, <1>12, <2>1, <2>2
<1>14. s \notin odd => found # {}
  <2> SUFFICES ASSUME s \notin odd PROVE found # {}
    OBVIOUS
  <2>1. PICK n \in DOMAIN rows : rows[n] = Row(s)
    BY <1>4
  <2>2. n >= Csv!Min(Csv!GuidRows(rows))
    BY <1>4, <1>6, <2>1, LeastIs
  <2>3. Csv!Gate(Row(s), columns) /\ Row(s)[columns.guid] = s
    BY <1>3, <1>9, TwoAndThree DEF Csv!Gate, Csv!Short
  <2> QED
    BY <2>1, <2>2, <2>3 DEF Csv!DataRows
<1>15. found # {} => Csv!Min(found) \in found
  BY <1>13, LeastIs
<1>16. found # {} => rows[Csv!Min(found)][columns.setting] = Row(s)[3] /\ 3 \in DOMAIN Row(s)
  BY <1>9, <1>13, <1>15
<1> HIDE DEF found
<1>17. \A c \in {"empty", "text"} : Csv!StateOf(c) = "unknown"
  BY DEF Csv!StateOf, Csv!_STATES
<1> QED
  BY <1>3, <1>10, <1>14, <1>16, <1>17

\* What a table says of a subcategory is true, unknown or nothing, and it is told of every
\* subcategory that is audited and has no odd row.
LEMMA TableIsTrue ==
  ASSUME NEW words \in [Subcategories -> Word], NEW odd \in Odd, NEW rows \in Tables(words, odd),
         NEW s \in Subcategories
  PROVE  LET state == Csv!parse_auditpol_csv(rows).states[s]
         IN /\ state \in {"absent", "unknown", words[s]}
            /\ s \in odd \/ words[s] = "none" \/ state = words[s]
<1>1. words[s] \in Word
  OBVIOUS
<1>2. Csv!StateOf(Cell[words[s]]) = IF words[s] = "none" THEN "unknown" ELSE words[s]
  BY <1>1 DEF Csv!StateOf, Csv!_STATES, Cell, Word
<1> QED
  BY <1>2, TableSays

-----------------------------------------------------------------------------
(* Types.                                                                  *)

\* An administrator leaves a host, and changes nothing of the run.
LEMMA AdministratorType ==
  ASSUME host \in Host, edits \in 0 .. MaxEdits, Administrator
  PROVE  /\ host' \in Host /\ edits' \in 0 .. MaxEdits /\ edits' # 0
         /\ UNCHANGED <<faults, pc, errors, diagnostics>>
<1>1. PICK h : Edit(h) /\ h \in Host
  <2>1. CASE SetPolicy
    <3>1. PICK s \in Subcategories, w \in Word : Edit([host EXCEPT !.policy[s] = w])
      BY <2>1 DEF SetPolicy
    <3>2. [host EXCEPT !.policy[s] = w] \in Host
      BY DEF Host
    <3> QED
      BY <3>1, <3>2
  <2>2. CASE SetCmdLine
    <3>1. [host EXCEPT !.cmdline = ~@] \in Host
      BY DEF Host
    <3> QED
      BY <2>2, <3>1 DEF SetCmdLine
  <2>3. CASE SetChannel
    <3>1. PICK c \in Channels : Edit([host EXCEPT !.channel[c] = ~@])
      BY <2>3 DEF SetChannel
    <3>2. [host EXCEPT !.channel[c] = ~@] \in Host
      BY DEF Host
    <3> QED
      BY <3>1, <3>2
  <2>4. CASE SetService
    <3>1. PICK state \in {"absent", "stopped", "running"} : Edit([host EXCEPT !.service = state])
      BY <2>4 DEF SetService
    <3>2. [host EXCEPT !.service = state] \in Host
      BY DEF Host
    <3> QED
      BY <3>1, <3>2
  <2>5. CASE Reconfigure
    <3>1. PICK c \in Configs : Edit([host EXCEPT !.config = c])
      BY <2>5 DEF Reconfigure
    <3>2. [host EXCEPT !.config = c] \in Host
      BY DEF Host
    <3> QED
      BY <3>1, <3>2
  <2> QED
    BY <2>1, <2>2, <2>3, <2>4, <2>5 DEF Administrator
<1> QED
  BY <1>1, BoundsAssumption DEF Edit

\* What the native query says is a state.
LEMMA PolicyStateType ==
  ASSUME NEW flags \in 0 .. 5
  PROVE  policy_state(flags) \in PolicyState
  BY DEF policy_state, _POLICY_STATES, PolicyState, Word

\* What is printed of a policy is that policy, where it is understood.
LEMMA PrintedIsTrue ==
  ASSUME NEW t \in Printed
  PROVE  /\ t.words \in [Subcategories -> Word]
         /\ t.parsed.states \in [Subcategories -> PolicyState]
         /\ \A s \in Subcategories :
              /\ t.parsed.states[s] \in {"absent", "unknown", t.words[s]}
              /\ s \in t.odd \/ t.words[s] = "none" \/ t.parsed.states[s] = t.words[s]
<1>0. PICK words \in [Subcategories -> Word], odd \in Odd :
        t \in {[words |-> words, odd |-> odd, parsed |-> Csv!parse_auditpol_csv(rows)] : rows \in Tables(words, odd)}
  BY DEF Printed
<1>1. PICK rows \in Tables(words, odd) :
        t = [words |-> words, odd |-> odd, parsed |-> Csv!parse_auditpol_csv(rows)]
  BY <1>0
<1>2. \A s \in Subcategories :
        /\ t.parsed.states[s] \in {"absent", "unknown", words[s]}
        /\ s \in odd \/ words[s] = "none" \/ t.parsed.states[s] = words[s]
  BY <1>1, TableIsTrue
<1>3. DOMAIN t.parsed.states = Subcategories
        /\ t.parsed.states = [s \in Subcategories |-> t.parsed.states[s]]
  BY <1>1 DEF Csv!parse_auditpol_csv
<1>4. \A s \in Subcategories : t.parsed.states[s] \in PolicyState
  BY <1>1, <1>2 DEF PolicyState
<1>5. t.parsed.states \in [Subcategories -> PolicyState]
  BY <1>3, <1>4
<1> QED
  BY <1>1, <1>2, <1>5

PolicyStages == {"query", "privilege", "requery", "auditpol"}

\* Reading the policy.
LEMMA ReadPolicyType ==
  ASSUME host \in Host, ReadPolicy,
         states \in [Subcategories -> PolicyState], privilege \in BOOLEAN, Cardinality(faults) <= MaxFaults
  PROVE  /\ UNCHANGED environment
         /\ Cardinality(faults') <= MaxFaults
         /\ states' \in [Subcategories -> PolicyState] /\ privilege' \in BOOLEAN
         /\ pc \in PolicyStages /\ pc' \in PolicyStages \cup {"registry"}
         /\ pc' = "requery" => privilege'
<1>1. CASE QuerySucceeds
  <2>1. PICK odd \in Odd, zero \in SUBSET {s \in Subcategories : host.policy[s] = "none"} :
          /\ Fault({<<"flags", s>> : s \in odd})
          /\ Answered([s \in Subcategories |->
               policy_state(IF s \in odd THEN 5 ELSE IF s \in zero THEN 0 ELSE Flags[host.policy[s]])])
    BY <1>1 DEF QuerySucceeds
  <2>2. \A s \in Subcategories : Flags[host.policy[s]] \in 0 .. 5
    BY DEF Host, Flags, Word
  <2>3. \A s \in Subcategories :
          policy_state(IF s \in odd THEN 5 ELSE IF s \in zero THEN 0 ELSE Flags[host.policy[s]]) \in PolicyState
    BY <2>2, PolicyStateType
  <2>4. states' \in [Subcategories -> PolicyState]
    BY <2>1, <2>3 DEF Answered
  <2> QED
    BY <1>1, <2>1, <2>4 DEF QuerySucceeds, Answered, Fault, PolicyStages
<1>2. CASE QueryDenied
  BY <1>2 DEF QueryDenied, FirstTry, PolicyStages, environment
<1>3. CASE QueryFails
  BY <1>3 DEF QueryFails, NativeFails, Fault, PolicyStages
<1>4. CASE EnablePrivilege
  BY <1>4 DEF EnablePrivilege, PolicyStages, environment
<1>5. CASE PrivilegeNotHeld
  BY <1>5 DEF PrivilegeNotHeld, NativeFails, Fault, PolicyStages
<1>6. CASE RunAuditpol
  <2>1. PICK table \in Printed : Fault({<<"row", s>> : s \in table.odd}) /\ Answered(table.parsed.states)
    BY <1>6 DEF RunAuditpol
  <2> QED
    BY <1>6, <2>1, PrintedIsTrue DEF RunAuditpol, Answered, Fault, PolicyStages
<1>7. CASE AuditpolFails
  BY <1>7 DEF AuditpolFails, Answered, Fault, PolicyStages, PolicyState
<1> QED
  BY <1>1, <1>2, <1>3, <1>4, <1>5, <1>6, <1>7 DEF ReadPolicy

SysmonStages == Services \cup {"locate", "ask"}
Tri          == {"unread", "yes", "no", "unknown"}

\* Collecting what is known of Sysmon.
LEMMA CollectSysmonType ==
  ASSUME CollectSysmon, installed \in Tri, running \in Tri, Cardinality(faults) <= MaxFaults,
         pc \in {"locate", "ask", "crashed"} => running = "yes"
  PROVE  /\ UNCHANGED environment
         /\ Cardinality(faults') <= MaxFaults
         /\ installed' \in Tri /\ running' \in Tri
         /\ pc \in SysmonStages /\ pc' \in SysmonStages \cup {"evaluate", "crashed"}
         /\ pc' \in {"locate", "ask", "crashed"} => running' = "yes"
         /\ dump' # dump => pc' = "evaluate" /\ running' = "yes"
<1> USE DEF SysmonStages, Services, Tri
<1>1. CASE ServiceAbsent
  BY <1>1 DEF ServiceAbsent, NotFound, NoService, Asked, AfterService
<1>2. CASE ServiceFails
  BY <1>2 DEF ServiceFails, NotFound, NoService, Asked, AfterService, Fault
<1>3. CASE ServiceFound
  BY <1>3 DEF ServiceFound, Asked, AfterFound
<1>4. CASE StatusFails
  BY <1>4 DEF StatusFails, Asked, Fault
<1>5. CASE Locate
  BY <1>5 DEF Locate, Located, sysmon
<1>6. CASE ImagePathFails
  BY <1>6 DEF ImagePathFails, Located, Fault, sysmon
<1>7. CASE ImagePathBlank
  BY <1>7 DEF ImagePathBlank, sysmon
<1>8. CASE AskConfig
  BY <1>8 DEF AskConfig, Dumped, Fault
<1>9. CASE AskFails
  BY <1>9 DEF AskFails, Fault, sysmon
<1> QED
  BY <1>1, <1>2, <1>3, <1>4, <1>5, <1>6, <1>7, <1>8, <1>9 DEF CollectSysmon

\* The verdict of a provider.
LEMMA ProviderVerdictType ==
  ASSUME NEW p, NEW channel
  PROVE  ProviderVerdict(p, channel) \in Verdict
<1>1. evaluate_windows_audit(p, states[p.of], cmdline, channel) \in Verdict
  BY DEF evaluate_windows_audit, Verdict
<1>2. SysmonGate # "none" => SysmonGate \in Verdict
  BY DEF SysmonGate, Verdict
<1>3. evaluate_event_type(dump, p.of) \in Verdict
  BY DEF evaluate_event_type, Verdict
<1> QED
  BY <1>1, <1>2, <1>3 DEF ProviderVerdict, SysmonVerdict, Verdict

ChannelState == {"unread", "on", "off", "unknown"}

\* A channel that was looked at is no longer unread.
LEMMA ChannelType ==
  ASSUME channels \in [Channels -> ChannelState], NEW c \in Channels, Channel(c),
         Cardinality(faults) <= MaxFaults
  PROVE  /\ channels' \in [Channels -> ChannelState]
         /\ channels'[c] # "unread"
         /\ \A d \in Channels : d # c \/ channels[c] # "unread" => channels'[d] = channels[d]
         /\ Cardinality(faults') <= MaxFaults
<1>1. CASE Cached(c) /\ UNCHANGED <<channels, errors, faults>>
  BY <1>1 DEF Cached
<1>2. CASE /\ ~Cached(c)
           /\ channels' = [channels EXCEPT ![c] = OnOff(host.channel[c])]
           /\ UNCHANGED <<errors, faults>>
  BY <1>2 DEF OnOff, ChannelState, Cached
<1>3. CASE /\ ~Cached(c)
           /\ channels' = [channels EXCEPT ![c] = "unknown"]
           /\ errors' = Append(errors, c)
           /\ Fault({<<"channel", c>>})
  BY <1>3 DEF ChannelState, Fault, Cached
<1> QED
  BY <1>1, <1>2, <1>3, Zenon DEF Channel

\* A round of the loop over the providers.
LEMMA EvaluateProviderType ==
  ASSUME TypeOK, EvaluateProvider
  PROVE  \E n \in DOMAIN Catalogue :
           /\ n = Len(outputs) + 1 /\ Catalogue[n].channel \in Channels
           /\ IF Consults(Catalogue[n]) THEN Channel(Catalogue[n].channel) ELSE UNCHANGED <<channels, errors, faults>>
           /\ outputs' = Append(outputs, ProviderVerdict(Catalogue[n], channels'[Catalogue[n].channel]))
           /\ outputs' \in Seq(Verdict) /\ Len(outputs') = n
           /\ channels' \in [Channels -> ChannelState]
           /\ Cardinality(faults') <= MaxFaults
<1>1. outputs \in Seq(Verdict) /\ channels \in [Channels -> ChannelState] /\ Cardinality(faults) <= MaxFaults
  BY Zenon DEF TypeOK, ChannelState
<1>2. Len(Catalogue) = 5 /\ DOMAIN Catalogue = 1 .. 5 /\ \A n \in 1 .. 5 : Catalogue[n].channel \in Channels
  BY DEF Catalogue, Audit, Sysmon, Channels
<1>3. PICK n \in DOMAIN Catalogue : n = Len(outputs) + 1
  BY <1>1, <1>2 DEF EvaluateProvider
<1>4. /\ IF Consults(Catalogue[n]) THEN Channel(Catalogue[n].channel) ELSE UNCHANGED <<channels, errors, faults>>
      /\ outputs' = Append(outputs, ProviderVerdict(Catalogue[n], channels'[Catalogue[n].channel]))
  BY <1>3 DEF EvaluateProvider
<1>5. outputs' \in Seq(Verdict) /\ Len(outputs') = n
  <2>1. PICK v \in Verdict : outputs' = Append(outputs, v)
    BY <1>4, ProviderVerdictType
  <2> QED
    BY <1>1, <1>3, <2>1
<1>6. channels' \in [Channels -> ChannelState] /\ Cardinality(faults') <= MaxFaults
  BY <1>1, <1>2, <1>4, ChannelType
<1> QED
  BY <1>2, <1>3, <1>4, <1>5, <1>6

\* The providers of a requirement are some of the catalogue's.
LEMMA ProvidersExist ==
  ASSUME NEW q \in Requirement
  PROVE  ProvidersOf(q) # {} /\ ProvidersOf(q) \subseteq DOMAIN Catalogue
  BY DEF Requirement, ProvidersOf

\* What is found for a requirement is the verdict of one of its providers, and of the best.
LEMMA FindingType ==
  ASSUME outputs \in Seq(Verdict), Len(outputs) = Len(Catalogue), NEW q \in Requirement
  PROVE  LET v == resolve_provider_disjunction([n \in ProvidersOf(q) |-> outputs[n]])
         IN /\ v \in Verdict
            /\ \E n \in ProvidersOf(q) : outputs[n] = v
            /\ v = "not_covered" => \A n \in ProvidersOf(q) : outputs[n] = "not_covered"
            /\ v = "degraded" => \A n \in ProvidersOf(q) : outputs[n] \in {"degraded", "not_covered"}
<1> DEFINE ps == [n \in ProvidersOf(q) |-> outputs[n]]
<1>1. DOMAIN Catalogue = 1 .. 5 /\ Len(Catalogue) = 5
  BY DEF Catalogue
<1>2. \A n \in DOMAIN ps : ps[n] \in Verdict /\ ps[n] = outputs[n]
  <2>1. \A n \in ProvidersOf(q) : n \in 1 .. 5
    BY <1>1, ProvidersExist
  <2>2. DOMAIN outputs = 1 .. Len(outputs) /\ \A n \in DOMAIN outputs : outputs[n] \in Verdict
    OBVIOUS
  <2>3. Len(outputs) = 5
    BY <1>1
  <2> QED
    BY <2>1, <2>2, <2>3
<1>3. DOMAIN ps = ProvidersOf(q) /\ DOMAIN ps # {}
  BY ProvidersExist
<1>4. ps # <<>>
  BY <1>3
<1> HIDE DEF ps
<1>5. PICK b \in DOMAIN ps : /\ resolve_provider_disjunction(ps) = ps[b]
                             /\ \A j \in DOMAIN ps : _PROVIDER_ORDER[ps[j]] <= _PROVIDER_ORDER[ps[b]]
  BY <1>2, <1>3, <1>4, ResolvesToTheBest
<1>6. /\ ps[b] = "not_covered" => \A j \in DOMAIN ps : ps[j] = "not_covered"
      /\ ps[b] = "degraded" => \A j \in DOMAIN ps : ps[j] \in {"degraded", "not_covered"}
  BY <1>2, <1>5 DEF _PROVIDER_ORDER, Verdict
<1>7. resolve_provider_disjunction(ps) \in Verdict
  BY <1>2, <1>5
<1> QED
  BY <1>2, <1>3, <1>5, <1>6, <1>7 DEF ps

\* Every step of the program keeps the types.
LEMMA ProgramType ==
  ASSUME TypeOK, Program
  PROVE  TypeOK'
<1>1. /\ host \in Host /\ edits \in 0 .. MaxEdits /\ Cardinality(faults) <= MaxFaults
      /\ states \in [Subcategories -> PolicyState] /\ privilege \in BOOLEAN
      /\ installed \in Tri /\ running \in Tri
      /\ channels \in [Channels -> ChannelState]
  BY Zenon DEF TypeOK, Tri, ChannelState
<1>2. CASE ReadPolicy /\ UNCHANGED <<sysmon, run>>
  <2>1. UNCHANGED <<host, edits, installed, running, dump, cmdline, channels, outputs, findings>>
    BY <1>1, <1>2, ReadPolicyType DEF environment, sysmon, run
  <2>2. /\ Cardinality(faults') <= MaxFaults
        /\ states' \in [Subcategories -> PolicyState] /\ privilege' \in BOOLEAN
        /\ pc \in PolicyStages /\ pc' \in PolicyStages \cup {"registry"}
        /\ pc' = "requery" => privilege'
    BY <1>1, <1>2, ReadPolicyType
  <2>3. pc' # "done" /\ pc # "done" /\ pc' \notin {"locate", "ask", "crashed"} /\ pc \notin {"evaluate", "done"}
    BY <2>2 DEF PolicyStages
  <2> QED
    BY <2>1, <2>2, <2>3 DEF TypeOK
<1>3. CASE CollectSysmon /\ UNCHANGED <<policy, run>>
  <2>1. pc \in {"locate", "ask", "crashed"} => running = "yes"
    BY DEF TypeOK
  <2>2. /\ UNCHANGED environment
        /\ Cardinality(faults') <= MaxFaults
        /\ installed' \in Tri /\ running' \in Tri
        /\ pc \in SysmonStages /\ pc' \in SysmonStages \cup {"evaluate", "crashed"}
        /\ pc' \in {"locate", "ask", "crashed"} => running' = "yes"
        /\ dump' # dump => pc' = "evaluate" /\ running' = "yes"
    BY <1>1, <1>3, <2>1, CollectSysmonType
  <2>3. UNCHANGED <<host, edits, states, privilege, cmdline, channels, outputs, findings>>
    BY <1>3, <2>2 DEF environment, policy, run
  <2>4. pc' # "done" /\ pc # "done" /\ pc' # "requery" /\ pc \notin {"evaluate", "done"}
    BY <2>2 DEF SysmonStages, Services
  <2>5. dump' # Unread => running' = "yes" /\ pc' \in {"evaluate", "done"}
    BY <2>2, <2>4 DEF TypeOK
  <2> QED
    BY <2>2, <2>3, <2>4, <2>5 DEF TypeOK, Tri
<1>4. CASE ReadRegistry /\ UNCHANGED <<policy, sysmon>>
  BY <1>4 DEF TypeOK, ReadRegistry, OnOff, environment, policy, sysmon
<1>5. CASE RegistryFails /\ UNCHANGED <<policy, sysmon>>
  BY <1>5 DEF TypeOK, RegistryFails, Fault, environment, policy, sysmon
<1>6. CASE EvaluateProvider /\ UNCHANGED <<policy, sysmon>>
  <2>1. PICK n \in DOMAIN Catalogue :
          /\ outputs' \in Seq(Verdict) /\ Len(outputs') = n
          /\ channels' \in [Channels -> ChannelState]
          /\ Cardinality(faults') <= MaxFaults
    BY <1>6, EvaluateProviderType
  <2>2. n <= Len(Catalogue)
    BY DEF Catalogue
  <2>3. UNCHANGED <<host, edits, pc, states, privilege, installed, running, dump, cmdline, findings>>
    BY <1>6 DEF EvaluateProvider, environment, policy, sysmon
  <2> QED
    BY <2>1, <2>2, <2>3 DEF TypeOK, ChannelState
<1>7. CASE Report /\ UNCHANGED <<policy, sysmon>>
  <2>1. outputs \in Seq(Verdict) /\ Len(outputs) = Len(Catalogue)
    BY <1>7 DEF Report, TypeOK
  <2>2. findings' \in [Requirement -> Verdict]
    BY <1>7, <2>1, FindingType DEF Report
  <2>3. /\ pc = "evaluate" /\ pc' = "done"
        /\ UNCHANGED <<host, edits, faults, states, privilege, installed, running, dump, cmdline, channels, outputs>>
    BY <1>7 DEF Report, environment, policy, sysmon
  <2> QED
    BY <2>2, <2>3 DEF TypeOK
<1> QED
  BY <1>2, <1>3, <1>4, <1>5, <1>6, <1>7 DEF Program

\* Every run starts well-typed.
LEMMA InitType ==
  Init => TypeOK
<1> SUFFICES ASSUME Init PROVE TypeOK
  OBVIOUS
<1>1. host \in Host /\ edits \in 0 .. MaxEdits /\ Cardinality(faults) <= MaxFaults /\ pc = "query"
  BY HostsAssumption, BoundsAssumption, FS_EmptySet DEF Init, InitHost
<1>2. outputs \in Seq(Verdict) /\ Len(outputs) <= Len(Catalogue)
  BY DEF Init, Catalogue
<1>3. channels \in [Channels -> ChannelState] /\ findings \in [Requirement -> {"none"}]
  BY DEF Init, ChannelState
<1> QED
  BY <1>1, <1>2, <1>3 DEF Init, InitPolicy, InitSysmon, TypeOK, PolicyState, ChannelState

\* And stays so.
LEMMA NextType ==
  TypeOK /\ [Next]_vars => TypeOK'
<1> SUFFICES ASSUME TypeOK, [Next]_vars PROVE TypeOK'
  OBVIOUS
<1>1. CASE Administrator /\ UNCHANGED <<policy, sysmon, run>>
  BY <1>1, AdministratorType DEF TypeOK, policy, sysmon, run
<1>2. CASE UNCHANGED vars
  BY <1>2 DEF vars, TypeOK
<1> QED
  BY <1>1, <1>2, ProgramType DEF Next

\* The types hold throughout, whatever the hosts and the bounds.
THEOREM TypeCorrect ==
  Spec => []TypeOK
  BY InitType, NextType, PTL DEF Spec

-----------------------------------------------------------------------------
(* The errors account for the faults.                                      *)

AfterAuditpol == Services \cup {"executable", "sysmon_c"}
FromTheStart  == {"AuditQuerySystemPolicy", "auditpol"} \cup AfterAuditpol
Source        == FromTheStart \cup Channels

\* The sources that may still fail, by the stage of the run; the channels come at the end.
Later ==
  [query |-> FromTheStart, privilege |-> FromTheStart, requery |-> FromTheStart,
   auditpol |-> {"auditpol"} \cup AfterAuditpol, registry |-> AfterAuditpol, Sysmon64 |-> AfterAuditpol,
   Sysmon |-> {"Sysmon", "executable", "sysmon_c"}, locate |-> {"executable", "sysmon_c"},
   ask |-> {"sysmon_c"}, evaluate |-> {}, crashed |-> {}, done |-> {}]

\* What the failed reads have to be listed as.
Explained == UNION {ErrorOf(f) : f \in faults}

\* No source is listed twice, since those still to come are not listed yet.
Accounted ==
  /\ pc \in DOMAIN Later
  /\ errors \in Seq(Source)
  /\ \A i, j \in DOMAIN errors : errors[i] = errors[j] => i = j
  /\ Listed \cap Later[pc] = {}
  /\ \A c \in Channels : channels[c] = "unread" => c \notin Listed
  /\ Listed \ {"executable"} = Explained

\* Reads that fail without an error.
LEMMA Harmless ==
  ASSUME NEW fs, faults' = faults \cup fs, \A f \in fs : ErrorOf(f) = {}
  PROVE  Explained' = Explained
  BY DEF Explained

\* A step without an error.
LEMMA NoError ==
  ASSUME Accounted, errors' = errors, pc' \in DOMAIN Later, Later[pc'] \subseteq Later[pc],
         \A c \in Channels : channels'[c] = "unread" => channels[c] = "unread",
         Explained' = Explained
  PROVE  Accounted'
<1>1. Listed' = Listed
  BY DEF Listed
<1> QED
  BY <1>1 DEF Accounted

\* An error that is added.
LEMMA Appended ==
  ASSUME Accounted, NEW e \in Source, errors' = Append(errors, e)
  PROVE  /\ errors' \in Seq(Source) /\ Len(errors) \in Nat
         /\ DOMAIN errors = 1 .. Len(errors) /\ DOMAIN errors' = (1 .. Len(errors)) \cup {Len(errors) + 1}
         /\ \A i \in DOMAIN errors : errors'[i] = errors[i]
         /\ errors'[Len(errors) + 1] = e
         /\ Listed' = Listed \cup {e}
<1>1. /\ errors' \in Seq(Source) /\ Len(errors) \in Nat
      /\ DOMAIN errors = 1 .. Len(errors) /\ DOMAIN errors' = 1 .. Len(errors) + 1
      /\ \A i \in DOMAIN errors : errors'[i] = errors[i]
      /\ errors'[Len(errors) + 1] = e
  BY DEF Accounted
<1>2. 1 .. Len(errors) + 1 = (1 .. Len(errors)) \cup {Len(errors) + 1}
  BY <1>1
<1>3. Listed' = Listed \cup {e}
  BY <1>1, <1>2 DEF Listed
<1> QED
  BY <1>1, <1>2, <1>3

\* A step with one.
LEMMA OneError ==
  ASSUME Accounted, NEW e \in Source, errors' = Append(errors, e), e \notin Listed,
         pc' \in DOMAIN Later, Later[pc'] \subseteq Later[pc] \ {e},
         \A c \in Channels : channels'[c] = "unread" => channels[c] = "unread" /\ c # e,
         NEW fs, faults' = faults \cup fs, UNION {ErrorOf(f) : f \in fs} = {e} \ {"executable"}
  PROVE  Accounted'
<1>1. /\ errors' \in Seq(Source) /\ Len(errors) \in Nat
      /\ DOMAIN errors = 1 .. Len(errors) /\ DOMAIN errors' = (1 .. Len(errors)) \cup {Len(errors) + 1}
      /\ \A i \in DOMAIN errors : errors'[i] = errors[i]
      /\ errors'[Len(errors) + 1] = e
      /\ Listed' = Listed \cup {e}
  BY Appended
<1>4. \A i, j \in DOMAIN errors' : errors'[i] = errors'[j] => i = j
  BY <1>1 DEF Accounted, Listed
<1>5. Explained' = Explained \cup ({e} \ {"executable"})
  BY DEF Explained
<1>6. Listed' \ {"executable"} = Explained'
  BY <1>1, <1>5 DEF Accounted
<1>7. Listed' \cap Later[pc'] = {}
  BY <1>1 DEF Accounted
<1>8. \A c \in Channels : channels'[c] = "unread" => c \notin Listed'
  BY <1>1 DEF Accounted
<1> QED
  BY <1>1, <1>4, <1>6, <1>7, <1>8 DEF Accounted

\* The stages in their order.
LEMMA LaterFacts ==
  /\ DOMAIN Later = PolicyStages \cup SysmonStages \cup {"registry", "evaluate", "crashed", "done"}
  /\ \A n \in {"query", "privilege", "requery"} : Later[n] = FromTheStart
  /\ Later["auditpol"] = {"auditpol"} \cup AfterAuditpol
  /\ Later["registry"] = AfterAuditpol /\ Later["Sysmon64"] = AfterAuditpol
  /\ Later["Sysmon"] = {"Sysmon", "executable", "sysmon_c"}
  /\ Later["locate"] = {"executable", "sysmon_c"}
  /\ Later["ask"] = {"sysmon_c"}
  /\ \A n \in {"evaluate", "crashed", "done"} : Later[n] = {}
  BY DEF Later, PolicyStages, SysmonStages, Services

\* What is still to come is not listed.
LEMMA LaterNotListed ==
  ASSUME Accounted, NEW e \in Later[pc]
  PROVE  e \notin Listed
  BY DEF Accounted

\* What each failure is listed as.
LEMMA ErrorOfFaults ==
  /\ ErrorOf(<<"native", "policy">>) = {"AuditQuerySystemPolicy"}
  /\ ErrorOf(<<"auditpol", "policy">>) = {"auditpol"}
  /\ ErrorOf(<<"sysmon_c", "config">>) = {"sysmon_c"}
  /\ \A x : /\ ErrorOf(<<"service", x>>) = {x} /\ ErrorOf(<<"channel", x>>) = {x}
            /\ ErrorOf(<<"flags", x>>) = {} /\ ErrorOf(<<"row", x>>) = {}
            /\ ErrorOf(<<"registry", x>>) = {} /\ ErrorOf(<<"image", x>>) = {}
            /\ ErrorOf(<<"drift", x>>) = {} /\ ErrorOf(<<"empty", x>>) = {}
  BY DEF ErrorOf

\* The native query fails at most once, since it is not asked again.
LEMMA NativeFailsAccounted ==
  ASSUME Accounted, NativeFails, pc \in {"query", "privilege", "requery"}, channels' = channels
  PROVE  Accounted'
<1> DEFINE e == "AuditQuerySystemPolicy"
<1>1. /\ faults' = faults \cup {<<"native", "policy">>} /\ errors' = Append(errors, e) /\ pc' = "auditpol"
  BY DEF NativeFails, Fault
<1>2. Later[pc] = FromTheStart
  BY LaterFacts
<1>3. e \in FromTheStart /\ e \in Source /\ {"auditpol"} \cup AfterAuditpol \subseteq FromTheStart \ {e}
  BY DEF FromTheStart, AfterAuditpol, Services, Source
<1>4. e \notin Listed
  BY <1>2, <1>3, LaterNotListed
<1>5. UNION {ErrorOf(f) : f \in {<<"native", "policy">>}} = {e} \ {"executable"}
  BY ErrorOfFaults
<1>6. pc' \in DOMAIN Later /\ Later[pc'] \subseteq Later[pc] \ {e}
  BY <1>1, <1>2, <1>3, LaterFacts DEF PolicyStages
<1>7. \A c \in Channels : c # e
  BY DEF Channels
<1> HIDE DEF e
<1> QED
  BY <1>1, <1>3, <1>4, <1>5, <1>6, <1>7, OneError

\* Reading the policy.
LEMMA ReadPolicyAccounted ==
  ASSUME Accounted, ReadPolicy, channels' = channels
  PROVE  Accounted'
<1> USE DEF PolicyStages
<1>1. CASE QuerySucceeds
  <2>1. PICK odd \in Odd : Fault({<<"flags", s>> : s \in odd})
    BY <1>1 DEF QuerySucceeds
  <2>2. pc \in {"query", "requery"} /\ pc' = "registry" /\ errors' = errors
    BY <1>1 DEF QuerySucceeds, Answered
  <2>3. pc' \in DOMAIN Later /\ Later[pc'] \subseteq Later[pc]
    BY <2>2, LaterFacts DEF FromTheStart
  <2>4. \A f \in {<<"flags", s>> : s \in odd} : ErrorOf(f) = {}
    BY ErrorOfFaults
  <2>5. faults' = faults \cup {<<"flags", s>> : s \in odd}
    BY <2>1 DEF Fault
  <2>6. Explained' = Explained
    BY <2>4, <2>5, Harmless
  <2> QED
    BY <2>2, <2>3, <2>6, NoError
<1>2. CASE QueryDenied \/ EnablePrivilege
  <2>1. /\ pc \in {"query", "privilege"} /\ pc' \in {"privilege", "requery"}
        /\ errors' = errors /\ faults' = faults
    BY <1>2 DEF QueryDenied, EnablePrivilege, FirstTry
  <2>2. pc' \in DOMAIN Later /\ Later[pc'] \subseteq Later[pc]
    BY <2>1, LaterFacts
  <2>3. Explained' = Explained
    BY <2>1 DEF Explained
  <2> QED
    BY <2>1, <2>2, <2>3, NoError
<1>3. CASE QueryFails \/ PrivilegeNotHeld
  BY <1>3, NativeFailsAccounted DEF QueryFails, PrivilegeNotHeld
<1>4. CASE RunAuditpol
  <2>1. PICK table \in Printed : Fault({<<"row", s>> : s \in table.odd})
    BY <1>4 DEF RunAuditpol
  <2>2. pc = "auditpol" /\ pc' = "registry" /\ errors' = errors
    BY <1>4 DEF RunAuditpol, Answered
  <2>3. pc' \in DOMAIN Later /\ Later[pc'] \subseteq Later[pc]
    BY <2>2, LaterFacts
  <2>4. \A f \in {<<"row", s>> : s \in table.odd} : ErrorOf(f) = {}
    BY ErrorOfFaults
  <2>5. faults' = faults \cup {<<"row", s>> : s \in table.odd}
    BY <2>1 DEF Fault
  <2>6. Explained' = Explained
    BY <2>4, <2>5, Harmless
  <2> QED
    BY <2>2, <2>3, <2>6, NoError
<1>5. CASE AuditpolFails
  <2>1. /\ faults' = faults \cup {<<"auditpol", "policy">>} /\ errors' = Append(errors, "auditpol")
        /\ pc = "auditpol" /\ pc' = "registry"
    BY <1>5 DEF AuditpolFails, Answered, Fault
  <2>2. /\ "auditpol" \in Source /\ "auditpol" \notin Listed
        /\ pc' \in DOMAIN Later /\ Later[pc'] \subseteq Later[pc] \ {"auditpol"}
    BY <2>1, LaterFacts, LaterNotListed DEF Source, FromTheStart, AfterAuditpol, Services
  <2>3. UNION {ErrorOf(f) : f \in {<<"auditpol", "policy">>}} = {"auditpol"} \ {"executable"}
    BY ErrorOfFaults
  <2>4. \A c \in Channels : c # "auditpol"
    BY DEF Channels
  <2> QED
    BY <2>1, <2>2, <2>3, <2>4, OneError
<1> QED
  BY <1>1, <1>2, <1>3, <1>4, <1>5 DEF ReadPolicy

\* A service is asked for once, so that it fails at most once.
LEMMA ServiceErrorAccounted ==
  ASSUME Accounted, NEW n \in Services, pc = n, faults' = faults \cup {<<"service", n>>},
         errors' = Append(errors, n), pc' \in {AfterService(n), "evaluate"}, channels' = channels
  PROVE  Accounted'
<1>1. /\ n \in Source /\ n \in Later[pc]
      /\ pc' \in DOMAIN Later /\ Later[pc'] \subseteq Later[pc] \ {n}
  BY LaterFacts DEF Source, FromTheStart, AfterAuditpol, Services, AfterService, SysmonStages
<1>2. UNION {ErrorOf(f) : f \in {<<"service", n>>}} = {n} \ {"executable"}
  BY ErrorOfFaults DEF Services
<1>3. \A c \in Channels : c # n
  BY DEF Channels, Services
<1> QED
  BY <1>1, <1>2, <1>3, LaterNotListed, OneError

\* A step of the collector that lists no error.
LEMMA SysmonWithoutError ==
  ASSUME Accounted, errors' = errors, channels' = channels, Explained' = Explained,
         \/ pc = "Sysmon64" /\ pc' \in {"Sysmon", "locate", "evaluate"}
         \/ pc = "Sysmon" /\ pc' \in {"locate", "evaluate"}
         \/ pc = "locate" /\ pc' \in {"ask", "evaluate", "crashed"}
         \/ pc = "ask" /\ pc' = "evaluate"
  PROVE  Accounted'
<1>1. pc' \in DOMAIN Later /\ Later[pc'] \subseteq Later[pc]
  BY LaterFacts DEF SysmonStages, Services, AfterAuditpol
<1> QED
  BY <1>1, NoError

\* Looking for the executable.
LEMMA LocatedAccounted ==
  ASSUME Accounted, pc = "locate", NEW found, Located(found), channels' = channels,
         NEW fs, faults' = faults \cup fs, \A f \in fs : ErrorOf(f) = {}
  PROVE  Accounted'
<1>1. CASE found
  BY <1>1, Harmless, SysmonWithoutError DEF Located
<1>2. CASE ~found
  <2>1. errors' = Append(errors, "executable") /\ pc' = "evaluate"
    BY <1>2 DEF Located
  <2>2. /\ "executable" \in Source /\ "executable" \in Later[pc]
        /\ pc' \in DOMAIN Later /\ Later[pc'] \subseteq Later[pc] \ {"executable"}
    BY <2>1, LaterFacts DEF Source, FromTheStart, AfterAuditpol
  <2>3. UNION {ErrorOf(f) : f \in fs} = {"executable"} \ {"executable"}
    OBVIOUS
  <2>4. \A c \in Channels : c # "executable"
    BY DEF Channels
  <2> QED
    BY <2>1, <2>2, <2>3, <2>4, LaterNotListed, OneError
<1> QED
  BY <1>1, <1>2

\* Collecting what is known of Sysmon.
LEMMA CollectSysmonAccounted ==
  ASSUME Accounted, CollectSysmon, channels' = channels
  PROVE  Accounted'
<1> USE DEF Services
<1>1. CASE ServiceAbsent
  <2>1. PICK n \in Services : Asked(n) /\ NotFound(n, errors) /\ UNCHANGED faults
    BY <1>1 DEF ServiceAbsent
  <2>2. errors' = errors /\ Explained' = Explained /\ pc = n /\ pc' = AfterService(n)
    BY <2>1 DEF Asked, NotFound, Explained
  <2> QED
    BY <2>2, SysmonWithoutError DEF AfterService
<1>2. CASE ServiceFails
  <2>1. PICK n \in Services : Asked(n) /\ Fault({<<"service", n>>}) /\ NotFound(n, Append(errors, n))
    BY <1>2 DEF ServiceFails
  <2> QED
    BY <2>1, ServiceErrorAccounted DEF Asked, NotFound, Fault
<1>3. CASE ServiceFound
  <2>1. errors' = errors /\ Explained' = Explained /\ pc \in Services /\ pc' \in {"locate", "evaluate"}
    BY <1>3 DEF ServiceFound, Asked, AfterFound, Explained
  <2> QED
    BY <2>1, SysmonWithoutError
<1>4. CASE StatusFails
  <2>1. PICK n \in Services : Asked(n) /\ Fault({<<"service", n>>}) /\ errors' = Append(errors, n)
    BY <1>4 DEF StatusFails
  <2> QED
    BY <1>4, <2>1, ServiceErrorAccounted DEF StatusFails, Asked, Fault
<1>5. CASE Locate
  <2>1. PICK fs \in {{}} : faults' = faults \cup fs
    BY <1>5 DEF Locate
  <2>2. \A f \in fs : ErrorOf(f) = {}
    OBVIOUS
  <2> QED
    BY <1>5, <2>1, <2>2, LocatedAccounted DEF Locate
<1>6. CASE ImagePathFails
  <2>1. faults' = faults \cup {<<"image", host.name>>} /\ \A f \in {<<"image", host.name>>} : ErrorOf(f) = {}
    BY <1>6, ErrorOfFaults DEF ImagePathFails, Fault
  <2> QED
    BY <1>6, <2>1, LocatedAccounted DEF ImagePathFails
<1>7. CASE ImagePathBlank
  <2>1. Explained' = Explained
    BY <1>7 DEF ImagePathBlank, Explained
  <2> QED
    BY <1>7, <2>1, SysmonWithoutError DEF ImagePathBlank
<1>8. CASE AskConfig
  <2>1. /\ pc = "ask" /\ pc' = "evaluate" /\ errors' = errors
    BY <1>8 DEF AskConfig, Dumped
  <2>2. PICK fs \in {{}, {<<"drift", "config">>}, {<<"empty", "config">>}} : faults' = faults \cup fs
    BY <1>8 DEF AskConfig, Fault
  <2>3. \A f \in fs : ErrorOf(f) = {}
    BY ErrorOfFaults
  <2> QED
    BY <2>1, <2>2, <2>3, Harmless, SysmonWithoutError
<1>9. CASE AskFails
  <2>1. /\ faults' = faults \cup {<<"sysmon_c", "config">>} /\ errors' = Append(errors, "sysmon_c")
        /\ pc = "ask" /\ pc' = "evaluate"
    BY <1>9 DEF AskFails, Fault
  <2>2. /\ "sysmon_c" \in Source /\ "sysmon_c" \in Later[pc]
        /\ pc' \in DOMAIN Later /\ Later[pc'] \subseteq Later[pc] \ {"sysmon_c"}
    BY <2>1, LaterFacts DEF Source, FromTheStart, AfterAuditpol
  <2>3. UNION {ErrorOf(f) : f \in {<<"sysmon_c", "config">>}} = {"sysmon_c"} \ {"executable"}
    BY ErrorOfFaults
  <2>4. \A c \in Channels : c # "sysmon_c"
    BY DEF Channels
  <2> QED
    BY <2>1, <2>2, <2>3, <2>4, LaterNotListed, OneError
<1> QED
  BY <1>1, <1>2, <1>3, <1>4, <1>5, <1>6, <1>7, <1>8, <1>9 DEF CollectSysmon

\* The registry, whose failure is no error.
LEMMA RegistryAccounted ==
  ASSUME Accounted, ReadRegistry \/ RegistryFails
  PROVE  Accounted'
<1>1. /\ pc = "registry" /\ pc' = "Sysmon64" /\ errors' = errors /\ channels' = channels
      /\ faults' = faults \/ faults' = faults \cup {<<"registry", "cmdline">>}
  BY DEF ReadRegistry, RegistryFails, Fault
<1>2. pc' \in DOMAIN Later /\ Later[pc'] \subseteq Later[pc]
  BY <1>1, LaterFacts DEF SysmonStages, Services
<1>3. \A f \in {<<"registry", "cmdline">>} : ErrorOf(f) = {}
  BY ErrorOfFaults
<1>4. Explained' = Explained
  BY <1>1, <1>3, Harmless DEF Explained
<1> QED
  BY <1>1, <1>2, <1>4, NoError

\* A provider, whose channel is asked for once.
LEMMA EvaluateProviderAccounted ==
  ASSUME TypeOK, Accounted, EvaluateProvider
  PROVE  Accounted'
<1>1. pc = "evaluate" /\ pc' = "evaluate"
  BY DEF EvaluateProvider
<1>2. PICK n \in DOMAIN Catalogue :
         /\ Catalogue[n].channel \in Channels
         /\ Channel(Catalogue[n].channel) \/ UNCHANGED <<channels, errors, faults>>
  BY EvaluateProviderType
<1>3. CASE UNCHANGED <<channels, errors, faults>>
  BY <1>1, <1>3, NoError DEF Accounted, Explained
<1>4. CASE Channel(Catalogue[n].channel)
  <2>1. PICK c \in Channels : c = Catalogue[n].channel
    BY <1>2
  <2>2. Channel(c)
    BY <1>4, <2>1
  <2>3. CASE UNCHANGED <<errors, faults>> /\ channels' = [channels EXCEPT ![c] = OnOff(host.channel[c])]
    <3>1. \A d \in Channels : channels'[d] = "unread" => channels[d] = "unread"
      BY <2>3 DEF TypeOK, OnOff
    <3>2. Explained' = Explained
      BY <2>3 DEF Explained
    <3> QED
      BY <1>1, <2>3, <3>1, <3>2, NoError DEF Accounted
  <2>4. CASE /\ ~Cached(c) /\ channels' = [channels EXCEPT ![c] = "unknown"]
             /\ errors' = Append(errors, c) /\ Fault({<<"channel", c>>})
    <3>1. \A d \in Channels : channels'[d] = "unread" => channels[d] = "unread" /\ d # c
      BY <2>4 DEF TypeOK
    <3>2. c \in Source /\ c \notin Listed /\ c # "executable"
      BY <2>4 DEF Source, Accounted, Cached, Channels
    <3>3. faults' = faults \cup {<<"channel", c>>}
      BY <2>4 DEF Fault
    <3>4. UNION {ErrorOf(f) : f \in {<<"channel", c>>}} = {c} \ {"executable"}
      BY <3>2, ErrorOfFaults
    <3>5. pc' \in DOMAIN Later /\ Later[pc'] \subseteq Later[pc] \ {c}
      BY <1>1, LaterFacts
    <3> QED
      BY <2>4, <3>1, <3>2, <3>3, <3>4, <3>5, OneError
  <2>5. CASE UNCHANGED <<channels, errors, faults>>
    BY <1>3, <2>5
  <2> QED
    BY <2>2, <2>3, <2>4, <2>5 DEF Channel
<1> QED
  BY <1>2, <1>3, <1>4

\* Nothing is listed at the start.
LEMMA InitAccounted ==
  Init => Accounted
<1> SUFFICES ASSUME Init PROVE Accounted
  OBVIOUS
<1>1. pc = "query" /\ errors = <<>> /\ faults = {}
  BY DEF Init, InitHost
<1>2. Listed = {} /\ Explained = {} /\ errors \in Seq(Source) /\ DOMAIN errors = {}
  BY <1>1 DEF Listed, Explained
<1> QED
  BY <1>1, <1>2, LaterFacts DEF Accounted, PolicyStages

\* The errors are accounted for throughout.
LEMMA NextAccounted ==
  TypeOK /\ Accounted /\ [Next]_vars => Accounted'
<1> SUFFICES ASSUME TypeOK, Accounted, [Next]_vars PROVE Accounted'
  OBVIOUS
<1>1. CASE Administrator /\ UNCHANGED <<policy, sysmon, run>>
  <2>1. UNCHANGED <<faults, pc, errors, channels>>
    BY <1>1 DEF Administrator, SetPolicy, SetCmdLine, SetChannel, SetService, Reconfigure, Edit, run
  <2> QED
    BY <2>1, NoError DEF Accounted, Explained
<1>2. CASE ReadPolicy /\ UNCHANGED <<sysmon, run>>
  BY <1>2, ReadPolicyAccounted DEF run
<1>3. CASE CollectSysmon /\ UNCHANGED <<policy, run>>
  BY <1>3, CollectSysmonAccounted DEF run
<1>4. CASE ReadRegistry \/ RegistryFails
  BY <1>4, RegistryAccounted
<1>5. CASE EvaluateProvider
  BY <1>5, EvaluateProviderAccounted
<1>6. CASE Report
  <2>1. pc = "evaluate" /\ pc' = "done" /\ UNCHANGED <<faults, errors, channels>>
    BY <1>6 DEF Report
  <2> QED
    BY <2>1, LaterFacts, NoError DEF Explained
<1>7. CASE UNCHANGED vars
  BY <1>7, NoError DEF vars, Accounted, Explained
<1> QED
  BY <1>1, <1>2, <1>3, <1>4, <1>5, <1>6, <1>7 DEF Next, Program

\* What the failures that are no errors leave behind.
Noticed ==
  /\ "registry" \in diagnostics <=> <<"registry", "cmdline">> \in faults
  /\ "executable" \in Listed =>
       ~host.on_path /\ (<<"image", host.name>> \in faults \/ host.image = "gone")
  /\ <<"image", host.name>> \in faults /\ ~host.on_path => "executable" \in Listed

\* A step that lists nothing, or something other than the executable.
OtherErrors == errors' = errors \/ \E e \in Source \ {"executable"} : errors' = Append(errors, e)

\* A step in which other reads fail, or none.
LEMMA OtherFaults ==
  ASSUME Accounted, Noticed, OtherErrors,
         host'.name = host.name, host'.image = host.image, host'.on_path = host.on_path,
         NEW fs, faults' = faults \cup fs, \A f \in fs : f[1] \notin {"image", "registry"},
         "registry" \in diagnostics' <=> "registry" \in diagnostics
  PROVE  Noticed'
<1>1. "executable" \in Listed' <=> "executable" \in Listed
  <2>1. CASE errors' = errors
    BY <2>1 DEF Listed
  <2>2. CASE errors' # errors
    <3>1. PICK e \in Source \ {"executable"} : errors' = Append(errors, e)
      BY <2>2 DEF OtherErrors
    <3>2. Listed' = Listed \cup {e}
      BY <3>1, Appended
    <3> QED
      BY <3>1, <3>2
  <2> QED
    BY <2>1, <2>2
<1>2. <<"image", host.name>>[1] = "image" /\ <<"registry", "cmdline">>[1] = "registry"
  OBVIOUS
<1>3. <<"image", host.name>> \notin fs /\ <<"registry", "cmdline">> \notin fs
  BY <1>2
<1> QED
  BY <1>1, <1>3 DEF Noticed

\* A read of that kind fails.
Fails(kind) == \E of : faults' = faults \cup {<<kind, of>>}

\* A step in which one read fails that is neither the registry's nor of the ImagePath.
LEMMA OtherFault ==
  ASSUME Accounted, Noticed, OtherErrors, host' = host, diagnostics' = diagnostics,
         NEW kind \in {"native", "auditpol", "service", "sysmon_c", "channel"}, Fails(kind)
  PROVE  Noticed'
<1>1. PICK of : faults' = faults \cup {<<kind, of>>}
  BY DEF Fails
<1> DEFINE fs == {<<kind, of>>}
<1>2. faults' = faults \cup fs /\ \A f \in fs : f[1] \notin {"image", "registry"}
  BY <1>1
<1> HIDE DEF fs
<1> QED
  BY <1>2, OtherFaults

\* Such a step in which nothing fails, and nothing is listed or diagnosed.
LEMMA NothingNoticed ==
  ASSUME Accounted, Noticed, UNCHANGED <<faults, errors, diagnostics>>,
         host'.name = host.name, host'.image = host.image, host'.on_path = host.on_path
  PROVE  Noticed'
  BY DEF Noticed, Listed

\* The sources of the errors of the policy, of the services and of the channels.
LEMMA OtherSources ==
  /\ {"AuditQuerySystemPolicy", "auditpol", "sysmon_c"} \cup Services \cup Channels \subseteq Source \ {"executable"}
  BY DEF Source, FromTheStart, AfterAuditpol, Services, Channels

\* Reading the policy.
LEMMA ReadPolicyNoticed ==
  ASSUME Accounted, Noticed, ReadPolicy
  PROVE  Noticed'
<1>1. CASE QuerySucceeds
  <2>1. PICK odd \in Odd : Fault({<<"flags", s>> : s \in odd})
    BY <1>1 DEF QuerySucceeds
  <2>2. UNCHANGED <<host, errors, diagnostics>>
    BY <1>1 DEF QuerySucceeds, environment
  <2> DEFINE fs == {<<"flags", s>> : s \in odd}
  <2>3. faults' = faults \cup fs /\ \A f \in fs : f[1] \notin {"image", "registry"}
    BY <2>1 DEF Fault
  <2> HIDE DEF fs
  <2> QED
    BY <2>2, <2>3, OtherFaults DEF OtherErrors
<1>2. CASE QueryDenied \/ EnablePrivilege
  BY <1>2, NothingNoticed DEF QueryDenied, EnablePrivilege, environment
<1>3. CASE NativeFails
  <2>1. /\ Fails("native") /\ host' = host
        /\ errors' = Append(errors, "AuditQuerySystemPolicy") /\ diagnostics' = diagnostics
    BY <1>3 DEF NativeFails, Fault, Fails, environment
  <2>2. OtherErrors
    BY <2>1, OtherSources DEF OtherErrors
  <2> QED
    BY <2>1, <2>2, OtherFault
<1>4. CASE RunAuditpol
  <2>1. PICK table \in Printed :
          /\ Fault({<<"row", s>> : s \in table.odd})
          /\ diagnostics' = diagnostics \cup {t \in {"auditpol"} : table.parsed.diagnosed}
    BY <1>4 DEF RunAuditpol
  <2>2. UNCHANGED <<host, errors>>
    BY <1>4 DEF RunAuditpol, environment
  <2> DEFINE fs == {<<"row", s>> : s \in table.odd}
             ds == {t \in {"auditpol"} : table.parsed.diagnosed}
  <2>3. faults' = faults \cup fs /\ \A f \in fs : f[1] \notin {"image", "registry"}
    BY <2>1 DEF Fault
  <2>4. "registry" \in diagnostics' <=> "registry" \in diagnostics
    BY <2>1
  <2> HIDE DEF fs, ds
  <2> QED
    BY <2>2, <2>3, <2>4, OtherFaults DEF OtherErrors
<1>5. CASE AuditpolFails
  <2>1. /\ Fails("auditpol") /\ host' = host
        /\ errors' = Append(errors, "auditpol") /\ diagnostics' = diagnostics
    BY <1>5 DEF AuditpolFails, Fault, Fails, environment
  <2>2. OtherErrors
    BY <2>1, OtherSources DEF OtherErrors
  <2> QED
    BY <2>1, <2>2, OtherFault
<1> QED
  BY <1>1, <1>2, <1>3, <1>4, <1>5 DEF ReadPolicy, QueryFails, PrivilegeNotHeld

\* The executable is listed unless PATH has it or the ImagePath names it.
LEMMA LocatedNoticed ==
  ASSUME TypeOK, Accounted, Noticed, pc = "locate", Locate \/ ImagePathFails
  PROVE  Noticed'
<1>1. "executable" \notin Listed /\ "executable" \in Source
  BY LaterFacts, LaterNotListed DEF Source, FromTheStart, AfterAuditpol
<1>2. UNCHANGED <<host, diagnostics>>
  BY DEF Locate, ImagePathFails, Located, environment
<1>3. \A found : Located(found) => Listed' = IF found THEN Listed ELSE Listed \cup {"executable"}
  <2> TAKE found
  <2>1. CASE found
    BY <2>1 DEF Located, Listed
  <2>2. CASE ~found
    BY <1>1, <2>2, Appended DEF Located
  <2> QED
    BY <2>1, <2>2
<1>4. CASE Locate
  <2>1. Listed' = IF host.image = "file" \/ host.on_path THEN Listed ELSE Listed \cup {"executable"}
    BY <1>3, <1>4 DEF Locate
  <2>2. host.image \in {"file", "gone"} /\ faults' = faults
    <3>1. host \in Host
      BY Zenon DEF TypeOK
    <3>2. host.image \in {"file", "gone", "blank"}
      BY <3>1 DEF Host
    <3> QED
      BY <1>4, <3>2 DEF Locate
  <2> QED
    BY <1>1, <1>2, <2>1, <2>2 DEF Noticed
<1>5. CASE ImagePathFails
  <2>1. Listed' = IF host.on_path THEN Listed ELSE Listed \cup {"executable"}
    BY <1>3, <1>5 DEF ImagePathFails
  <2>2. faults' = faults \cup {<<"image", host.name>>}
    BY <1>5 DEF ImagePathFails, Fault
  <2>3. <<"registry", "cmdline">> # <<"image", host.name>>
    OBVIOUS
  <2> QED
    BY <1>1, <1>2, <2>1, <2>2, <2>3 DEF Noticed
<1> QED
  BY <1>4, <1>5

\* Collecting what is known of Sysmon.
LEMMA CollectSysmonNoticed ==
  ASSUME TypeOK, Accounted, Noticed, CollectSysmon
  PROVE  Noticed'
<1>1. CASE ServiceAbsent \/ ServiceFound \/ ImagePathBlank
  BY <1>1, NothingNoticed DEF ServiceAbsent, NotFound, ServiceFound, ImagePathBlank, environment
<1>2. CASE ServiceFails \/ StatusFails
  <2>1. PICK n \in Services : Fault({<<"service", n>>}) /\ errors' = Append(errors, n)
    BY <1>2 DEF ServiceFails, StatusFails, NotFound
  <2>2. host' = host /\ diagnostics' = diagnostics
    BY <1>2 DEF ServiceFails, StatusFails, NotFound, environment
  <2>3. OtherErrors
    BY <2>1, OtherSources DEF OtherErrors
  <2>4. Fails("service")
    BY <2>1 DEF Fault, Fails
  <2> QED
    BY <2>2, <2>3, <2>4, OtherFault
<1>3. CASE Locate \/ ImagePathFails
  BY <1>3, LocatedNoticed DEF Locate, ImagePathFails
<1>4. CASE AskConfig
  <2>1. PICK d : Dumped(d)
    BY <1>4 DEF AskConfig
  <2>2. PICK fs \in {{}, {<<"drift", "config">>}, {<<"empty", "config">>}} : faults' = faults \cup fs
    BY <1>4 DEF AskConfig, Fault
  <2>3. \A f \in fs : f[1] \notin {"image", "registry"}
    BY <2>2
  <2> DEFINE ds == {t \in {"sysmon_c"} : d.determinacy = "unknown"}
  <2>4. ("registry" \in diagnostics' <=> "registry" \in diagnostics) /\ UNCHANGED <<host, errors>>
    BY <2>1 DEF Dumped, environment
  <2> HIDE DEF ds
  <2> QED
    BY <2>2, <2>3, <2>4, OtherFaults DEF OtherErrors
<1>5. CASE AskFails
  <2>1. /\ Fails("sysmon_c") /\ host' = host
        /\ errors' = Append(errors, "sysmon_c") /\ diagnostics' = diagnostics
    BY <1>5 DEF AskFails, Fault, Fails, environment
  <2>2. OtherErrors
    BY <2>1, OtherSources DEF OtherErrors
  <2> QED
    BY <2>1, <2>2, OtherFault
<1> QED
  BY <1>1, <1>2, <1>3, <1>4, <1>5 DEF CollectSysmon

\* The registry, whose failure alone leaves its diagnostic.
LEMMA RegistryNoticed ==
  ASSUME Accounted, Noticed, ReadRegistry \/ RegistryFails
  PROVE  Noticed'
<1>1. CASE ReadRegistry
  BY <1>1, NothingNoticed DEF ReadRegistry, environment
<1>2. CASE RegistryFails
  <2>1. /\ faults' = faults \cup {<<"registry", "cmdline">>} /\ diagnostics' = diagnostics \cup {"registry"}
        /\ host' = host /\ Listed' = Listed
    BY <1>2 DEF RegistryFails, Fault, environment, Listed
  <2>2. <<"registry", "cmdline">> # <<"image", host.name>>
    OBVIOUS
  <2> QED
    BY <2>1, <2>2 DEF Noticed
<1> QED
  BY <1>1, <1>2

\* A provider, whose channel may fail.
LEMMA EvaluateProviderNoticed ==
  ASSUME TypeOK, Accounted, Noticed, EvaluateProvider
  PROVE  Noticed'
<1>1. host' = host /\ diagnostics' = diagnostics
  BY DEF EvaluateProvider, environment
<1>2. PICK n \in DOMAIN Catalogue :
         /\ Catalogue[n].channel \in Channels
         /\ Channel(Catalogue[n].channel) \/ UNCHANGED <<channels, errors, faults>>
  BY EvaluateProviderType
<1>3. CASE UNCHANGED <<errors, faults>>
  BY <1>1, <1>3, NothingNoticed
<1>4. CASE ~UNCHANGED <<errors, faults>>
  <2>1. PICK c \in Channels : errors' = Append(errors, c) /\ Fault({<<"channel", c>>})
    BY <1>2, <1>4 DEF Channel
  <2>2. OtherErrors
    BY <2>1, OtherSources DEF OtherErrors
  <2>3. Fails("channel")
    BY <2>1 DEF Fault, Fails
  <2> QED
    BY <1>1, <2>2, <2>3, OtherFault
<1> QED
  BY <1>3, <1>4

\* What the failures leave behind is there throughout.
LEMMA NextNoticed ==
  TypeOK /\ Accounted /\ Noticed /\ [Next]_vars => Noticed'
<1> SUFFICES ASSUME TypeOK, Accounted, Noticed, [Next]_vars PROVE Noticed'
  OBVIOUS
<1>1. CASE Administrator
  <2>1. UNCHANGED <<faults, errors, diagnostics>>
    BY <1>1 DEF Administrator, SetPolicy, SetCmdLine, SetChannel, SetService, Reconfigure, Edit
  <2>2. host \in Host
    BY Zenon DEF TypeOK
  <2>3. host'.name = host.name /\ host'.image = host.image /\ host'.on_path = host.on_path
    BY <1>1, <2>2 DEF Administrator, SetPolicy, SetCmdLine, SetChannel, SetService, Reconfigure, Edit, Host
  <2> QED
    BY <2>1, <2>3, NothingNoticed
<1>2. CASE ReadPolicy
  BY <1>2, ReadPolicyNoticed
<1>3. CASE CollectSysmon
  BY <1>3, CollectSysmonNoticed
<1>4. CASE ReadRegistry \/ RegistryFails
  BY <1>4, RegistryNoticed
<1>5. CASE EvaluateProvider
  BY <1>5, EvaluateProviderNoticed
<1>6. CASE Report
  BY <1>6, NothingNoticed DEF Report, environment
<1>7. CASE UNCHANGED vars
  BY <1>7, NothingNoticed DEF vars
<1> QED
  BY <1>1, <1>2, <1>3, <1>4, <1>5, <1>6, <1>7 DEF Next, Program

\* The report lists each failure that raises an error once, and what the two other ones
\* leave is told apart, whatever the hosts, the edits and the faults.
THEOREM ErrorsAccountForFaultsHolds ==
  Spec => []ErrorsAccountForFaults
<1>1. Accounted /\ Noticed => ErrorsAccountForFaults
  BY DEF Accounted, Noticed, ErrorsAccountForFaults, Explained, Listed
<1>2. Init => Noticed
  BY DEF Init, InitHost, Noticed, Listed
<1> QED
  BY <1>1, <1>2, InitType, NextType, InitAccounted, NextAccounted, NextNoticed, PTL DEF Spec

-----------------------------------------------------------------------------
(* What the run says of a host that nobody touches.                        *)

PolicyTold ==
  pc \notin PolicyStages =>
    \A s \in Subcategories : states[s] \in {host.policy[s], "absent", "unknown", "unchanged"}

RegistryTold ==
  pc \notin PolicyStages \cup {"registry"} => cmdline \in {"unknown", OnOff(host.cmdline)}

ChannelsTold == \A c \in Channels : channels[c] \in {"unread", "unknown", OnOff(host.channel[c])}

\* The first service is passed over without an error only if it is not there.
ServiceTold ==
  /\ installed = "no" => host.service = "absent"
  /\ running = "yes" => host.service = "running"
  /\ running = "no" => host.service # "running"
  /\ pc = "Sysmon" /\ Here("Sysmon64") => "Sysmon64" \in Listed

DumpTold == dump \in {Unread, host.config, Drifted(host.config)}

\* A verdict is right about a provider.
Right(p, v) ==
  /\ v = "covered" => \A f \in Needs(p) : Truth(f) = "good"
  /\ v = "degraded" => \A f \in Needs(p) : Truth(f) # "bad"
  /\ v = "not_covered" => \E f \in Needs(p) : Truth(f) = "bad"

VerdictsTold == \A n \in DOMAIN outputs : Right(Catalogue[n], outputs[n])

FindingsTold ==
  pc = "done" =>
    \A q \in Requirement :
      /\ findings[q] = "covered" => \E w \in WaysOf(q) : \A f \in w : Truth(f) = "good"
      /\ findings[q] = "degraded" => \E w \in WaysOf(q) : \A f \in w : Truth(f) # "bad"
      /\ findings[q] = "not_covered" => \A w \in WaysOf(q) : \E f \in w : Truth(f) = "bad"

Told ==
  /\ PolicyTold /\ RegistryTold /\ ChannelsTold /\ ServiceTold /\ DumpTold
  /\ VerdictsTold /\ FindingsTold

\* The reads that have failed stay failed, and the program leaves the host alone.
LEMMA FaultsGrow ==
  ASSUME Program
  PROVE  UNCHANGED environment /\ faults \subseteq faults'
<1>1. CASE ReadPolicy
  BY <1>1 DEF ReadPolicy, QuerySucceeds, QueryDenied, QueryFails, EnablePrivilege, PrivilegeNotHeld,
              NativeFails, RunAuditpol, AuditpolFails, Fault, environment
<1>2. CASE CollectSysmon
  BY <1>2 DEF CollectSysmon, ServiceAbsent, ServiceFails, ServiceFound, StatusFails, NotFound, Locate,
              ImagePathFails, ImagePathBlank, Located, AskConfig, AskFails, Dumped, Fault, environment
<1>3. CASE ReadRegistry \/ RegistryFails \/ Report
  BY <1>3 DEF ReadRegistry, RegistryFails, Report, Fault, environment
<1>4. CASE EvaluateProvider
  BY <1>4 DEF EvaluateProvider, Channel, Fault, environment
<1> QED
  BY <1>1, <1>2, <1>3, <1>4 DEF Program

\* What is true of a host stays so while the host does.
LEMMA TruthStays ==
  ASSUME host' = host
  PROVE  \A f : Truth(f)' = Truth(f)
  BY DEF Truth

\* And so does what is right about it.
LEMMA RightStays ==
  ASSUME host' = host
  PROVE  \A p, v : Right(p, v)' <=> Right(p, v)
  BY TruthStays DEF Right

\* What a step that reads the policy leaves of it: the truth, nothing, or an odd word.
LEMMA ReadPolicyReads ==
  ASSUME TypeOK, ReadPolicy
  PROVE  \/ pc' \in PolicyStages /\ states' = states
         \/ /\ pc' = "registry"
            /\ \A s \in Subcategories :
                 /\ states'[s] \in {host.policy[s], "absent", "unknown", "unchanged", "unknown:5"}
                 /\ Usual' => states'[s] # "unknown:5"
<1>0. \A s \in Subcategories : host.policy[s] \in Word
  BY DEF TypeOK, Host
<1>1. CASE QuerySucceeds
  <2>1. PICK odd \in Odd, zero \in SUBSET {s \in Subcategories : host.policy[s] = "none"} :
          /\ Fault({<<"flags", s>> : s \in odd})
          /\ Answered([s \in Subcategories |->
               policy_state(IF s \in odd THEN 5 ELSE IF s \in zero THEN 0 ELSE Flags[host.policy[s]])])
    BY <1>1 DEF QuerySucceeds
  <2>2. ASSUME Usual', NEW s \in odd PROVE FALSE
    <3>1. <<"flags", s>> \in faults'
      BY <2>1 DEF Fault
    <3>2. <<"flags", s>>[1] \notin {"flags", "empty"}
      BY <2>2, <3>1 DEF Usual
    <3> QED
      BY <3>2
  <2>3. \A s \in Subcategories : policy_state(Flags[host.policy[s]]) = host.policy[s]
    BY <1>0 DEF Word, Flags, policy_state, _POLICY_STATES
  <2>4. policy_state(0) = "unchanged" /\ policy_state(5) = "unknown:5"
    BY DEF policy_state, _POLICY_STATES
  <2>5. \A s \in Subcategories :
          states'[s] \in IF s \in odd THEN {"unknown:5"} ELSE {host.policy[s], "unchanged"}
    BY <2>1, <2>3, <2>4 DEF Answered
  <2> QED
    BY <1>0, <2>1, <2>2, <2>5 DEF Answered, Word
<1>2. CASE RunAuditpol
  <2>1. PICK t \in Printed : t.words = host.policy /\ Answered(t.parsed.states)
    BY <1>2 DEF RunAuditpol
  <2> QED
    BY <1>0, <2>1, PrintedIsTrue DEF Answered, Word
<1>3. CASE AuditpolFails
  BY <1>3 DEF AuditpolFails, Answered
<1>4. CASE QueryDenied \/ QueryFails \/ EnablePrivilege \/ PrivilegeNotHeld
  BY <1>4 DEF QueryDenied, QueryFails, EnablePrivilege, PrivilegeNotHeld, NativeFails, PolicyStages
<1> QED
  BY <1>1, <1>2, <1>3, <1>4 DEF ReadPolicy

\* A step that reads the policy.
LEMMA ReadPolicyTells ==
  ASSUME TypeOK, Told, host' = host, Usual', ReadPolicy, UNCHANGED <<sysmon, run>>
  PROVE  Told'
<1>1. pc \in PolicyStages /\ pc' \in PolicyStages \cup {"registry"}
  BY ReadPolicyType DEF TypeOK, PolicyState
<1>2. RegistryTold' /\ ChannelsTold' /\ ServiceTold' /\ DumpTold' /\ FindingsTold'
  BY <1>1 DEF Told, RegistryTold, ChannelsTold, ServiceTold, DumpTold, FindingsTold, PolicyStages, sysmon, run
<1>3. VerdictsTold'
  BY RightStays DEF Told, VerdictsTold, run
<1>4. PolicyTold'
  BY ReadPolicyReads DEF PolicyTold
<1> QED
  BY <1>2, <1>3, <1>4 DEF Told

\* What is found out about Sysmon: first its service, with an error if it stays unseen.
LEMMA CollectSysmonTells ==
  ASSUME TypeOK, Accounted, Told, host' = host, Usual', CollectSysmon, UNCHANGED <<policy, run>>
  PROVE  Told'
<1>0. /\ host \in Host /\ (pc \in {"locate", "ask", "crashed"} => running = "yes")
      /\ installed \in Tri /\ running \in Tri /\ Cardinality(faults) <= MaxFaults
  BY Zenon DEF TypeOK, Tri
<1>1. pc \in SysmonStages /\ pc' \in SysmonStages \cup {"evaluate", "crashed"}
  BY <1>0, CollectSysmonType
<1>2. PolicyTold' /\ RegistryTold' /\ ChannelsTold' /\ FindingsTold'
  BY <1>1 DEF Told, PolicyTold, RegistryTold, ChannelsTold, FindingsTold, PolicyStages, SysmonStages,
              Services, policy, run
<1>3. VerdictsTold'
  BY RightStays DEF Told, VerdictsTold, run
<1>4. DumpTold'
  <2>1. CASE AskConfig
    <3>1. CASE Fault({<<"empty", "config">>})
      <4>1. <<"empty", "config">> \in faults'
        BY <3>1 DEF Fault
      <4>2. <<"empty", "config">>[1] \notin {"flags", "empty"}
        BY <4>1 DEF Usual
      <4> QED
        BY <4>2
    <3>2. CASE Dumped(host.config) \/ Dumped(Drifted(host.config))
      BY <3>2 DEF Dumped, DumpTold, Drifted
    <3> QED
      BY <2>1, <3>1, <3>2 DEF AskConfig
  <2>2. CASE dump' = dump
    BY <2>2 DEF Told, DumpTold, Drifted
  <2> QED
    BY <2>1, <2>2 DEF CollectSysmon, ServiceAbsent, ServiceFails, ServiceFound, StatusFails, NotFound, Locate,
                      ImagePathFails, ImagePathBlank, Located, AskFails, sysmon
<1>5. ServiceTold'
  <2>1. CASE ServiceAbsent \/ ServiceFails
    <3>0. PICK n \in Services : /\ Asked(n)
                               /\ \/ NotFound(n, errors) /\ ~Here(n)
                                  \/ NotFound(n, Append(errors, n))
      BY <2>1 DEF ServiceAbsent, ServiceFails
    <3>1. /\ pc = n /\ pc' = AfterService(n)
          /\ (errors' = errors /\ ~Here(n)) \/ errors' = Append(errors, n)
          /\ pc' = "evaluate" => installed' = NoService(errors') /\ running' = NoService(errors')
          /\ pc' # "evaluate" => UNCHANGED <<installed, running>>
      BY <3>0 DEF NotFound, Asked
    <3>2. errors' = errors \/ \E i \in DOMAIN errors' : errors'[i] = n
      <4>1. ASSUME errors' = Append(errors, n) PROVE \E i \in DOMAIN errors' : errors'[i] = n
        <5>1. errors \in Seq(Source) /\ n \in Source
          BY <3>1 DEF Accounted, Source, FromTheStart, AfterAuditpol
        <5>2. Len(errors) + 1 \in DOMAIN errors' /\ errors'[Len(errors) + 1] = n
          BY <4>1, <5>1
        <5> QED
          BY <5>2
      <4> QED
        BY <3>1, <4>1
    <3>3. CASE n = "Sysmon64"
      <4>1. pc' = "Sysmon" /\ UNCHANGED <<installed, running>>
        BY <3>1, <3>3 DEF AfterService
      <4>2. Here("Sysmon64")' => "Sysmon64" \in Listed'
        BY <3>1, <3>2, <3>3 DEF Here, Listed
      <4> QED
        BY <4>1, <4>2 DEF ServiceTold, Told
    <3>4. CASE n = "Sysmon"
      <4>1. /\ pc = "Sysmon" /\ pc' = "evaluate"
            /\ installed' = NoService(errors') /\ running' = NoService(errors')
        BY <3>1, <3>4 DEF AfterService
      <4>2. CASE NoService(errors') = "unknown"
        BY <4>1, <4>2 DEF ServiceTold
      <4>3. CASE NoService(errors') = "no"
        <5>1. \A i \in DOMAIN errors' : errors'[i] \notin Services
          BY <4>3 DEF NoService
        <5>2. errors' = errors /\ ~Here("Sysmon") /\ "Sysmon64" \notin Listed
          BY <3>1, <3>2, <3>4, <5>1 DEF Listed, Services
        <5>3. ~Here("Sysmon64")
          BY <4>1, <5>2 DEF Told, ServiceTold
        <5>4. host.service = "absent"
          BY <1>0, <5>2, <5>3 DEF Here, Host, Services
        <5> QED
          BY <4>1, <4>3, <5>4 DEF ServiceTold
      <4> QED
        BY <4>2, <4>3 DEF NoService
    <3> QED
      BY <3>3, <3>4 DEF Services
  <2>2. CASE ServiceFound
    BY <2>2 DEF ServiceFound, ServiceTold, AfterFound, Told
  <2>3. CASE StatusFails
    BY <2>3 DEF StatusFails, ServiceTold, Told
  <2>4. CASE UNCHANGED <<installed, running>> /\ pc' # "Sysmon"
    BY <2>4 DEF ServiceTold, Told
  <2> QED
    BY <2>1, <2>2, <2>3, <2>4 DEF CollectSysmon, Locate, ImagePathFails, ImagePathBlank, Located, AskConfig,
                                  Dumped, AskFails, sysmon
<1> QED
  BY <1>2, <1>3, <1>4, <1>5 DEF Told

\* Reading the registry.
LEMMA RegistryTells ==
  ASSUME Told, host' = host, ReadRegistry \/ RegistryFails, UNCHANGED <<policy, sysmon>>
  PROVE  Told'
<1>1. /\ pc = "registry" /\ pc' = "Sysmon64" /\ cmdline' \in {"unknown", OnOff(host.cmdline)}
      /\ UNCHANGED <<states, installed, running, dump, channels, outputs, findings>>
  BY DEF ReadRegistry, RegistryFails, policy, sysmon
<1>2. VerdictsTold'
  BY <1>1, RightStays DEF Told, VerdictsTold
<1> QED
  BY <1>1, <1>2 DEF Told, PolicyTold, RegistryTold, ChannelsTold, ServiceTold, DumpTold, FindingsTold,
                    PolicyStages, Drifted

\* What can be read of a dump in which a line was not understood is right.
LEMMA DriftedIsRight ==
  ASSUME NEW config, NEW t
  PROVE  evaluate_event_type(Drifted(config), t) \in {"indeterminate", evaluate_event_type(config, t)}
<1>1. Disabled(Drifted(config), t) <=> Disabled(config, t)
  BY DEF Disabled, Drifted
<1>2. CASE Disabled(config, t)
  BY <1>1, <1>2 DEF evaluate_event_type
<1>3. CASE ~Disabled(config, t)
  BY <1>1, <1>3 DEF evaluate_event_type, Drifted
<1> QED
  BY <1>2, <1>3

Audits  == {n \in DOMAIN Catalogue : Catalogue[n].kind # "sysmon"}
Sysmons == DOMAIN Catalogue \ Audits

\* The facts that providers need.
LEMMA NeedsFacts ==
  /\ \A n \in Audits : LET p == Catalogue[n] IN
       /\ p.of \in Subcategories /\ p.channel = "Security"
       /\ Needs(p) = {"Security", p.of} \cup (IF p.of = "ProcessCreation" THEN {"cmdline"} ELSE {})
                                       \cup (IF p.of = "FileSystem" THEN {"sacl"} ELSE {})
  /\ \A n \in Sysmons : LET p == Catalogue[n] IN
       /\ p.of \in EventTypes /\ p.channel = "Operational" /\ p.kind = "sysmon"
       /\ Needs(p) = {"Operational", p.of} \cup Services
  BY DEF Catalogue, Audit, Sysmon, Needs, Audits, Sysmons, field_gate, necessary_but_insufficient,
         Subcategories, EventTypes

\* The truth of each.
LEMMA TruthOf ==
  /\ \A c \in Channels : Truth(c) = GoodBad(host.channel[c])
  /\ \A s \in Subcategories : Truth(s) = GoodBad(host.policy[s] \in {"success", "both"})
  /\ \A n \in Services : Truth(n) = GoodBad(n = host.name => host.service = "running")
  /\ \A t \in EventTypes : Truth(t) = Logged[evaluate_event_type(host.config, t)]
  /\ Truth("cmdline") = IF host.cmdline THEN "good" ELSE "partial"
  /\ Truth("sacl") = "partial"
  BY DEF Truth, Channels, Subcategories, Services, EventTypes

\* The verdict on a provider of the audit policy.
LEMMA AuditRight ==
  ASSUME TypeOK, PolicyTold, RegistryTold, pc = "evaluate", NEW n \in Audits,
         NEW channel \in {"unknown", OnOff(host.channel["Security"])}
  PROVE  Right(Catalogue[n], ProviderVerdict(Catalogue[n], channel))
<1> DEFINE p == Catalogue[n]
           v == evaluate_windows_audit(p, states[p.of], cmdline, channel)
<1>1. ProviderVerdict(p, channel) = v
  BY DEF ProviderVerdict, Audits
<1>2. /\ p.of \in Subcategories /\ {"Security", p.of} \subseteq Needs(p)
      /\ field_gate(p) <=> "cmdline" \in Needs(p)
      /\ necessary_but_insufficient(p) <=> "sacl" \in Needs(p)
      /\ Needs(p) \subseteq {"Security", p.of, "cmdline", "sacl"}
  <2>1. p.of \in Subcategories
    BY NeedsFacts
  <2>2. Needs(p) = {"Security", p.of} \cup (IF p.of = "ProcessCreation" THEN {"cmdline"} ELSE {})
                                     \cup (IF p.of = "FileSystem" THEN {"sacl"} ELSE {})
    BY NeedsFacts
  <2> HIDE DEF p
  <2>3. {"Security", p.of} \subseteq Needs(p) /\ Needs(p) \subseteq {"Security", p.of, "cmdline", "sacl"}
    BY <2>2
  <2>4. p.of = "ProcessCreation" <=> "cmdline" \in Needs(p)
    BY <2>1, <2>2 DEF Subcategories
  <2>5. p.of = "FileSystem" <=> "sacl" \in Needs(p)
    BY <2>1, <2>2 DEF Subcategories
  <2> QED
    BY <2>1, <2>3, <2>4, <2>5 DEF field_gate, necessary_but_insufficient
<1> HIDE DEF p
<1>3. /\ Truth("Security") = GoodBad(host.channel["Security"])
      /\ Truth(p.of) = GoodBad(host.policy[p.of] \in {"success", "both"})
      /\ Truth("cmdline") = IF host.cmdline THEN "good" ELSE "partial"
      /\ Truth("sacl") = "partial"
  BY <1>2, TruthOf DEF Channels
<1>4. /\ host.channel["Security"] \in BOOLEAN /\ host.cmdline \in BOOLEAN
      /\ host.policy[p.of] \in Word
  BY <1>2 DEF TypeOK, Host, Channels
<1>5. /\ states[p.of] \in {host.policy[p.of], "absent", "unknown", "unchanged"}
      /\ cmdline \in {"unknown", OnOff(host.cmdline)}
  BY <1>2 DEF PolicyTold, RegistryTold, PolicyStages
<1>6. v = "not_covered" => Truth("Security") = "bad" \/ Truth(p.of) = "bad"
  BY <1>3, <1>4, <1>5 DEF evaluate_windows_audit, OnOff, GoodBad, Unclear, required_states, Word
<1>7. v \in {"covered", "degraded"} => Truth("Security") = "good" /\ Truth(p.of) = "good"
  BY <1>3, <1>4, <1>5 DEF evaluate_windows_audit, OnOff, GoodBad, Unclear, required_states, Word
<1>8. v = "covered" => (field_gate(p) => Truth("cmdline") = "good") /\ ~necessary_but_insufficient(p)
  BY <1>3, <1>4, <1>5 DEF evaluate_windows_audit, OnOff
<1> HIDE DEF v
<1> QED
  BY <1>1, <1>2, <1>3, <1>6, <1>7, <1>8 DEF Right, p

\* And on one of Sysmon.
LEMMA SysmonRight ==
  ASSUME TypeOK, ServiceTold, DumpTold, NEW n \in Sysmons,
         NEW channel, SysmonGate = "none" => channel \in {"unknown", OnOff(host.channel["Operational"])}
  PROVE  Right(Catalogue[n], ProviderVerdict(Catalogue[n], channel))
<1> DEFINE p == Catalogue[n]
           v == SysmonVerdict(p, channel)
<1>1. ProviderVerdict(p, channel) = v
  BY NeedsFacts DEF ProviderVerdict
<1>2. p.of \in EventTypes /\ Needs(p) = {"Operational", p.of} \cup Services
  BY NeedsFacts
<1> HIDE DEF p
<1>3. /\ Truth("Operational") = GoodBad(host.channel["Operational"])
      /\ Truth(p.of) = Logged[evaluate_event_type(host.config, p.of)]
      /\ \A s \in Services : Truth(s) = GoodBad(s = host.name => host.service = "running")
  BY <1>2, TruthOf DEF Channels
<1>4. host.channel["Operational"] \in BOOLEAN /\ host.name \in Services
  BY DEF TypeOK, Host, Channels
<1>5. dump # Unread => running = "yes"
  BY DEF TypeOK
<1>6. CASE SysmonGate = "not_covered"
  <2>1. host.service # "running"
    BY <1>6 DEF SysmonGate, ServiceTold
  <2>2. Truth(host.name) = "bad"
    BY <1>3, <1>4, <2>1 DEF GoodBad
  <2>3. v = "not_covered"
    BY <1>6 DEF SysmonVerdict
  <2> QED
    BY <1>1, <1>2, <1>4, <2>2, <2>3 DEF Right, p
<1>7. CASE SysmonGate = "indeterminate"
  BY <1>1, <1>7 DEF SysmonVerdict, Right, p
<1>8. CASE SysmonGate = "none"
  <2> DEFINE e == evaluate_event_type(host.config, p.of)
  <2>1. dump # Unread /\ host.service = "running" /\ \A s \in Services : Truth(s) = "good"
    BY <1>3, <1>5, <1>8 DEF SysmonGate, ServiceTold, GoodBad
  <2>2. evaluate_event_type(dump, p.of) \in {"indeterminate", e}
    BY <2>1, DriftedIsRight DEF DumpTold
  <2>3. Truth(p.of) = Logged[e]
    BY <1>3
  <2> HIDE DEF e
  <2>4. CASE channel = "off"
    <3>1. v = "not_covered" /\ Truth("Operational") = "bad"
      BY <1>3, <1>4, <1>8, <2>4 DEF SysmonVerdict, OnOff, GoodBad
    <3> QED
      BY <1>1, <1>2, <3>1 DEF Right, p
  <2>5. CASE channel = "unknown"
    BY <1>1, <1>8, <2>5 DEF SysmonVerdict, Right, p
  <2>6. CASE channel = "on"
    <3>1. v \in {"indeterminate", e} /\ Truth("Operational") = "good"
      BY <1>3, <1>4, <1>8, <2>2, <2>6 DEF SysmonVerdict, OnOff, GoodBad
    <3> HIDE DEF v
    <3>2. v = "covered" => Truth(p.of) = "good"
      BY <2>3, <3>1 DEF Logged
    <3>3. v = "degraded" => Truth(p.of) = "partial"
      BY <2>3, <3>1 DEF Logged
    <3>4. v = "not_covered" => Truth(p.of) = "bad"
      BY <2>3, <3>1 DEF Logged
    <3> QED
      BY <1>1, <1>2, <2>1, <3>1, <3>2, <3>3, <3>4 DEF Right, p
  <2> QED
    BY <1>8, <2>4, <2>5, <2>6 DEF OnOff
<1> QED
  BY <1>6, <1>7, <1>8 DEF SysmonGate

\* Every provider belongs to one or the other.
LEMMA EvaluateProviderTells ==
  ASSUME TypeOK, Told, host' = host, EvaluateProvider, UNCHANGED <<policy, sysmon>>
  PROVE  Told'
<1>0. /\ pc = "evaluate" /\ pc' = "evaluate"
      /\ UNCHANGED <<states, installed, running, dump, cmdline, findings>>
  BY DEF EvaluateProvider, policy, sysmon
<1>1. PICK n \in DOMAIN Catalogue :
         /\ n = Len(outputs) + 1 /\ Catalogue[n].channel \in Channels
         /\ IF Consults(Catalogue[n]) THEN Channel(Catalogue[n].channel) ELSE UNCHANGED <<channels, errors, faults>>
         /\ outputs' = Append(outputs, ProviderVerdict(Catalogue[n], channels'[Catalogue[n].channel]))
  BY EvaluateProviderType
<1> DEFINE p == Catalogue[n]
           v == ProviderVerdict(p, channels'[p.channel])
<1>2. channels \in [Channels -> ChannelState] /\ Cardinality(faults) <= MaxFaults /\ outputs \in Seq(Verdict)
  BY Zenon DEF TypeOK, ChannelState
<1>3. \A c \in Channels : channels'[c] \in {"unread", "unknown", OnOff(host.channel[c])}
  <2>1. CASE UNCHANGED channels
    BY <2>1 DEF Told, ChannelsTold
  <2>2. CASE Channel(p.channel)
    BY <1>1, <1>2, <2>2 DEF Channel, Told, ChannelsTold, ChannelState
  <2> QED
    BY <1>1, <2>1, <2>2
<1>4. Consults(p) => channels'[p.channel] # "unread"
  BY <1>1, <1>2, ChannelType
<1>5. Right(p, v)
  <2>1. CASE n \in Audits
    <3>1. p.channel = "Security" /\ Consults(p)
      BY <2>1, NeedsFacts DEF Consults, Audits, Catalogue, Audit, Sysmon
    <3>2. channels'["Security"] \in {"unknown", OnOff(host.channel["Security"])}
      BY <1>3, <1>4, <3>1 DEF Channels
    <3> QED
      BY <1>0, <2>1, <3>1, <3>2, AuditRight DEF Told
  <2>2. CASE n \in Sysmons
    <3>1. p.channel = "Operational" /\ (SysmonGate = "none" => Consults(p))
      BY <2>2, NeedsFacts DEF Consults
    <3>2. SysmonGate = "none" => channels'["Operational"] \in {"unknown", OnOff(host.channel["Operational"])}
      BY <1>3, <1>4, <3>1 DEF Channels
    <3> QED
      BY <2>2, <3>1, <3>2, SysmonRight DEF Told
  <2> QED
    BY <2>1, <2>2 DEF Sysmons
<1> HIDE DEF v
<1>6. VerdictsTold'
  <2>1. \A m \in DOMAIN outputs' : Right(Catalogue[m], outputs'[m])
    <3>1. DOMAIN outputs' = DOMAIN outputs \cup {n} /\ outputs'[n] = v
          /\ \A m \in DOMAIN outputs : outputs'[m] = outputs[m]
      BY <1>1, <1>2 DEF v
    <3> QED
      BY <1>5, <3>1 DEF Told, VerdictsTold
  <2> QED
    BY <2>1, RightStays DEF VerdictsTold
<1> QED
  BY <1>0, <1>3, <1>6 DEF Told, PolicyTold, RegistryTold, ChannelsTold, ServiceTold, DumpTold, FindingsTold, Drifted

\* The best verdict of a requirement's providers is right about the requirement.
LEMMA ReportTells ==
  ASSUME TypeOK, Told, host' = host, Report, UNCHANGED <<policy, sysmon>>
  PROVE  Told'
<1>0. /\ pc = "evaluate" /\ pc' = "done" /\ Len(outputs) = Len(Catalogue)
      /\ UNCHANGED <<states, installed, running, dump, cmdline, channels, outputs>>
  BY DEF Report, policy, sysmon
<1>1. VerdictsTold'
  BY <1>0, RightStays DEF Told, VerdictsTold
<1>2. ASSUME NEW q \in Requirement
      PROVE  /\ findings'[q] = "covered" => \E w \in WaysOf(q) : \A f \in w : Truth(f) = "good"
             /\ findings'[q] = "degraded" => \E w \in WaysOf(q) : \A f \in w : Truth(f) # "bad"
             /\ findings'[q] = "not_covered" => \A w \in WaysOf(q) : \E f \in w : Truth(f) = "bad"
  <2>1. outputs \in Seq(Verdict)
    BY DEF TypeOK
  <2>2. /\ \E n \in ProvidersOf(q) : outputs[n] = findings'[q]
        /\ findings'[q] = "not_covered" => \A n \in ProvidersOf(q) : outputs[n] = "not_covered"
    BY <1>0, <2>1, FindingType DEF Report
  <2>3. \A n \in ProvidersOf(q) : Right(Catalogue[n], outputs[n])
    BY <1>0, <2>1, ProvidersExist DEF Told, VerdictsTold
  <2> QED
    BY <2>2, <2>3 DEF Right, WaysOf
<1>3. FindingsTold'
  BY <1>2, TruthStays DEF FindingsTold
<1> QED
  BY <1>0, <1>1, <1>3 DEF Told, PolicyTold, RegistryTold, ChannelsTold, ServiceTold, DumpTold, Drifted,
                          PolicyStages

\* At the start nothing has been said.
LEMMA InitTold ==
  Init => Told
  BY DEF Init, InitHost, InitPolicy, InitSysmon, Told, PolicyTold, RegistryTold, ChannelsTold, ServiceTold,
         DumpTold, VerdictsTold, FindingsTold, PolicyStages

\* As long as nobody touches the host, all that the run has said is right.
Quiet == edits = 0 /\ Usual => Told

\* That stays so, step by step.
LEMMA NextQuiet ==
  TypeOK /\ Accounted /\ Quiet /\ [Next]_vars => Quiet'
<1> SUFFICES ASSUME TypeOK, Accounted, Quiet, [Next]_vars, edits' = 0, Usual' PROVE Told'
  BY DEF Quiet
<1>1. CASE Administrator /\ UNCHANGED <<policy, sysmon, run>>
  BY <1>1, AdministratorType DEF TypeOK
<1>2. CASE UNCHANGED vars
  <2>1. UNCHANGED <<host, edits, faults, pc, errors, states, installed, running, dump, cmdline, channels,
                    outputs, findings>>
    BY <1>2 DEF vars
  <2>2. Told
    BY <2>1 DEF Quiet, Usual
  <2>3. VerdictsTold' /\ FindingsTold'
    BY <2>1, <2>2, RightStays, TruthStays DEF Told, VerdictsTold, FindingsTold
  <2>4. PolicyTold' /\ RegistryTold' /\ ChannelsTold' /\ DumpTold'
    BY <2>1, <2>2 DEF Told, PolicyTold, RegistryTold, ChannelsTold, DumpTold, Drifted
  <2>5. ServiceTold'
    BY <2>1, <2>2 DEF Told, ServiceTold, Here, Listed
  <2> QED
    BY <2>3, <2>4, <2>5 DEF Told
<1>3. CASE Program
  <2>1. host' = host /\ Told
    BY <1>3, FaultsGrow DEF environment, Quiet, Usual
  <2> QED
    BY <1>3, <2>1, ReadPolicyTells, CollectSysmonTells, RegistryTells, EvaluateProviderTells, ReportTells
       DEF Program
<1> QED
  BY <1>1, <1>2, <1>3 DEF Next

\* The report on a host that nobody touches is right about it, whatever the host, its
\* configuration of Sysmon and the reads that fail.
THEOREM SoundOnAQuietHostHolds ==
  Spec => []SoundOnAQuietHost
<1>1. Init => Quiet
  BY InitTold DEF Quiet
<1>2. Quiet => SoundOnAQuietHost
  BY DEF Quiet, Told, FindingsTold, SoundOnAQuietHost
<1> QED
  BY <1>1, <1>2, InitType, NextType, InitAccounted, NextAccounted, NextQuiet, PTL DEF Spec

-----------------------------------------------------------------------------
(* Why a provider is INDETERMINATE.                                        *)

Unsure == {"absent", "unknown", "unchanged"}

PolicyDoubt ==
  pc \notin PolicyStages =>
    \A s \in Subcategories : states[s] \in Unsure =>
      <<"auditpol", "policy">> \in faults \/ <<"row", s>> \in faults \/ host.policy[s] = "none"

RegistryDoubt == cmdline = "unknown" => <<"registry", "cmdline">> \in faults

ChannelsDoubt == \A c \in Channels : channels[c] = "unknown" => <<"channel", c>> \in faults

\* A service is listed only if its own read failed, and an answer is missing for no other reason.
ServiceDoubt ==
  /\ \A n \in Services : n \in Listed => <<"service", n>> \in faults
  /\ "unknown" \in {installed, running} => \E n \in Services : <<"service", n>> \in faults
  /\ pc \in {"locate", "ask"} => installed = "yes" /\ running = "yes"
  /\ pc \in {"evaluate", "done"} => installed # "unread" /\ running # "unread"

NoExecutable == host.image = "gone" /\ ~host.on_path

DumpDoubt ==
  /\ pc \in {"evaluate", "done"} /\ running = "yes" /\ dump = Unread =>
       <<"image", host.name>> \in faults \/ <<"sysmon_c", "config">> \in faults \/ NoExecutable
  /\ dump.determinacy = "unknown" => <<"drift", "config">> \in faults

\* Each answer that is missing has its reason, from the read to the verdict.
Doubt ==
  edits = 0 =>
    PolicyDoubt /\ RegistryDoubt /\ ChannelsDoubt /\ ServiceDoubt /\ DumpDoubt /\ IndeterminateHasAReason

\* A reason stays one.
LEMMA ReasonsStay ==
  ASSUME host' = host, faults \subseteq faults', NEW p
  PROVE  faults \cap Reasons(p) # {} \/ Ambiguous(p) => faults' \cap Reasons(p)' # {} \/ Ambiguous(p)'
<1>1. Reasons(p)' = Reasons(p) /\ (Ambiguous(p)' <=> Ambiguous(p))
  BY DEF Reasons, Ambiguous
<1> QED
  BY <1>1

\* A step without a new verdict.
LEMMA NoVerdict ==
  ASSUME edits = 0 => IndeterminateHasAReason, edits' = edits, host' = host, faults \subseteq faults',
         outputs' = outputs
  PROVE  edits' = 0 => IndeterminateHasAReason'
<1> SUFFICES ASSUME edits' = 0, NEW n \in DOMAIN outputs', outputs'[n] = "indeterminate"
             PROVE  faults' \cap Reasons(Catalogue[n])' # {} \/ Ambiguous(Catalogue[n])'
  BY DEF IndeterminateHasAReason
<1>1. faults \cap Reasons(Catalogue[n]) # {} \/ Ambiguous(Catalogue[n])
  BY DEF IndeterminateHasAReason
<1> QED
  BY <1>1, ReasonsStay

\* An error that names no service leaves what is said of services.
LEMMA NotListed ==
  ASSUME Accounted, NEW e \in Source, errors' = Append(errors, e)
  PROVE  \A n \in Services : n \in Listed' => n = e \/ n \in Listed
  BY Appended

\* A step that reads the policy.
LEMMA ReadPolicyDoubts ==
  ASSUME TypeOK, Accounted, edits = 0, Doubt, host' = host, edits' = edits, faults \subseteq faults',
         ReadPolicy, UNCHANGED <<sysmon, run>>
  PROVE  Doubt'
<1>1. pc \in PolicyStages /\ pc' \in PolicyStages \cup {"registry"}
  BY ReadPolicyType DEF TypeOK, PolicyState
<1>2. RegistryDoubt' /\ ChannelsDoubt' /\ DumpDoubt'
  BY <1>1 DEF Doubt, RegistryDoubt, ChannelsDoubt, DumpDoubt, PolicyStages, sysmon, run
<1>3. ServiceDoubt'
  <2>1. \A n \in Services : n \in Listed' => n \in Listed
    <3>1. CASE errors' = errors
      BY <3>1 DEF Listed
    <3>2. CASE \E e \in {"AuditQuerySystemPolicy", "auditpol"} : errors' = Append(errors, e)
      BY <3>2, NotListed DEF Source, FromTheStart, Services
    <3> QED
      BY <3>1, <3>2 DEF ReadPolicy, QuerySucceeds, QueryDenied, QueryFails, EnablePrivilege, PrivilegeNotHeld,
                        NativeFails, RunAuditpol, AuditpolFails
  <2> QED
    BY <1>1, <2>1 DEF Doubt, ServiceDoubt, PolicyStages, sysmon
<1>4. PolicyDoubt'
  <2>0. \A s \in Subcategories : host.policy[s] \in Word
    BY DEF TypeOK, Host
  <2>1. CASE QuerySucceeds
    <3>1. PICK odd \in Odd, zero \in SUBSET {s \in Subcategories : host.policy[s] = "none"} :
            Answered([s \in Subcategories |->
              policy_state(IF s \in odd THEN 5 ELSE IF s \in zero THEN 0 ELSE Flags[host.policy[s]])])
      BY <2>1 DEF QuerySucceeds
    <3>2. \A s \in Subcategories : policy_state(Flags[host.policy[s]]) = host.policy[s]
      BY <2>0 DEF Word, Flags, policy_state, _POLICY_STATES
    <3>3. policy_state(5) = "unknown:5"
      BY DEF policy_state, _POLICY_STATES
    <3>4. \A s \in Subcategories : s \in zero \/ states'[s] \in {"unknown:5", host.policy[s]}
      BY <3>1, <3>2, <3>3 DEF Answered
    <3> QED
      BY <2>0, <3>4 DEF PolicyDoubt, Unsure, Word
  <2>2. CASE RunAuditpol
    <3>1. PICK t \in Printed : t.words = host.policy /\ Fault({<<"row", s>> : s \in t.odd}) /\ Answered(t.parsed.states)
      BY <2>2 DEF RunAuditpol
    <3>2. \A s \in Subcategories : s \in t.odd \/ host.policy[s] = "none" \/ states'[s] = host.policy[s]
      BY <3>1, PrintedIsTrue DEF Answered
    <3>3. \A s \in t.odd : <<"row", s>> \in faults'
      BY <3>1 DEF Fault
    <3> QED
      BY <2>0, <3>2, <3>3 DEF PolicyDoubt, Unsure, Word
  <2>3. CASE AuditpolFails
    BY <2>3 DEF AuditpolFails, Fault, PolicyDoubt
  <2>4. CASE QueryDenied \/ QueryFails \/ EnablePrivilege \/ PrivilegeNotHeld
    BY <2>4 DEF QueryDenied, QueryFails, EnablePrivilege, PrivilegeNotHeld, NativeFails, PolicyStages, PolicyDoubt
  <2> QED
    BY <2>1, <2>2, <2>3, <2>4 DEF ReadPolicy
<1>5. edits' = 0 => IndeterminateHasAReason'
  BY NoVerdict DEF Doubt, run
<1> QED
  BY <1>2, <1>3, <1>4, <1>5 DEF Doubt

\* Looking for Sysmon leaves its service unknown only if a read of a service failed.
LEMMA ServicesDoubt ==
  ASSUME TypeOK, Accounted, ServiceDoubt, host' = host, faults \subseteq faults', CollectSysmon
  PROVE  ServiceDoubt'
<1> USE DEF Services
<1>1. ASSUME NEW n \in Services, Asked(n), NotFound(n, errors'),
             \A m \in Services : m \in Listed' => <<"service", m>> \in faults'
      PROVE  ServiceDoubt'
  <2>1. NoService(errors') = "unknown" => \E m \in Services : m \in Listed'
    BY DEF NoService, Listed
  <2>2. CASE n = "Sysmon64"
    <3>1. pc' = "Sysmon" /\ UNCHANGED <<installed, running>>
      BY <1>1, <2>2 DEF NotFound, AfterService
    <3> QED
      BY <1>1, <3>1 DEF ServiceDoubt
  <2>3. CASE n = "Sysmon"
    <3>1. pc' = "evaluate" /\ installed' = NoService(errors') /\ running' = NoService(errors')
      BY <1>1, <2>3 DEF NotFound, AfterService
    <3> QED
      BY <1>1, <2>1, <3>1 DEF ServiceDoubt, NoService
  <2> QED
    BY <2>2, <2>3
<1>2. CASE ServiceAbsent
  <2>1. PICK n \in Services : Asked(n) /\ NotFound(n, errors)
    BY <1>2 DEF ServiceAbsent
  <2>2. errors' = errors /\ Listed' = Listed
    BY <2>1 DEF NotFound, Listed
  <2> QED
    BY <1>1, <2>1, <2>2 DEF ServiceDoubt
<1>3. CASE ServiceFails
  <2>1. PICK n \in Services : Asked(n) /\ Fault({<<"service", n>>}) /\ NotFound(n, Append(errors, n))
    BY <1>3 DEF ServiceFails
  <2>2. errors' = Append(errors, n) /\ n \in Source
    BY <2>1 DEF NotFound, Source, FromTheStart, AfterAuditpol
  <2>3. \A m \in Services : m \in Listed' => <<"service", m>> \in faults'
    BY <2>1, <2>2, NotListed DEF Fault, ServiceDoubt
  <2> QED
    BY <1>1, <2>1, <2>2, <2>3
<1>4. CASE ServiceFound
  <2>1. /\ installed' = "yes" /\ errors' = errors /\ running' \in {"yes", "no"}
        /\ pc' = IF running' = "yes" THEN "locate" ELSE "evaluate"
    BY <1>4 DEF ServiceFound, AfterFound
  <2> QED
    BY <2>1 DEF ServiceDoubt, Listed
<1>5. CASE StatusFails
  <2>1. PICK n \in Services : Fault({<<"service", n>>}) /\ errors' = Append(errors, n)
    BY <1>5 DEF StatusFails
  <2>2. \A m \in Services : m \in Listed' => <<"service", m>> \in faults'
    BY <2>1, NotListed DEF Fault, ServiceDoubt, Source, FromTheStart, AfterAuditpol
  <2> QED
    BY <1>5, <2>1, <2>2 DEF StatusFails, ServiceDoubt, Fault
<1>6. CASE Locate \/ ImagePathFails \/ ImagePathBlank \/ AskConfig \/ AskFails
  <2>1. /\ pc \in {"locate", "ask"} /\ pc' \in {"ask", "evaluate", "crashed"} /\ UNCHANGED <<installed, running>>
        /\ errors' = errors \/ \E e \in {"executable", "sysmon_c"} : errors' = Append(errors, e)
    BY <1>6 DEF Locate, ImagePathFails, ImagePathBlank, AskConfig, AskFails, Located, Dumped, sysmon
  <2>2. \A m \in Services : m \in Listed' => m \in Listed
    <3>1. CASE errors' = errors
      BY <3>1 DEF Listed
    <3>2. CASE \E e \in {"executable", "sysmon_c"} : errors' = Append(errors, e)
      BY <3>2, NotListed DEF Source, FromTheStart, AfterAuditpol
    <3> QED
      BY <2>1, <3>1, <3>2
  <2> QED
    BY <2>1, <2>2 DEF ServiceDoubt
<1> QED
  BY <1>2, <1>3, <1>4, <1>5, <1>6 DEF CollectSysmon

\* There is no dump of a running Sysmon only if a read failed or its executable is nowhere.
LEMMA DumpsDoubt ==
  ASSUME TypeOK, DumpDoubt, host' = host, faults \subseteq faults', CollectSysmon
  PROVE  DumpDoubt'
<1>1. CASE ServiceAbsent \/ ServiceFails \/ ServiceFound \/ StatusFails
  <2>1. dump' = dump /\ (pc' = "evaluate" => running' # "yes") /\ pc' # "done"
    BY <1>1 DEF ServiceAbsent, ServiceFails, ServiceFound, StatusFails, NotFound, NoService, AfterService, AfterFound
  <2> QED
    BY <2>1 DEF DumpDoubt
<1>2. CASE Locate
  <2>1. pc' = "evaluate" => NoExecutable
    BY <1>2 DEF Locate, Located, NoExecutable, TypeOK, Host
  <2> QED
    BY <1>2, <2>1 DEF Locate, Located, sysmon, DumpDoubt, NoExecutable
<1>3. CASE ImagePathFails
  BY <1>3 DEF ImagePathFails, Fault, Located, sysmon, DumpDoubt
<1>4. CASE ImagePathBlank
  BY <1>4 DEF ImagePathBlank, sysmon, DumpDoubt
<1>5. CASE AskConfig
  <2>1. /\ dump'.determinacy \in {"effective", "unknown"}
        /\ dump'.determinacy = "unknown" => <<"drift", "config">> \in faults'
    <3>1. host.config.determinacy = "effective"
      BY ConfigsAssumption DEF TypeOK, Host
    <3> QED
      BY <1>5, <3>1 DEF AskConfig, Dumped, Drifted, Empty, Fault
  <2>2. dump' # Unread
    BY <2>1 DEF Unread
  <2> QED
    BY <2>1, <2>2 DEF DumpDoubt
<1>6. CASE AskFails
  BY <1>6 DEF AskFails, Fault, sysmon, DumpDoubt
<1> QED
  BY <1>1, <1>2, <1>3, <1>4, <1>5, <1>6 DEF CollectSysmon

\* A step that collects what is known of Sysmon.
LEMMA CollectSysmonDoubts ==
  ASSUME TypeOK, Accounted, edits = 0, Doubt, host' = host, edits' = edits, faults \subseteq faults',
         CollectSysmon, UNCHANGED <<policy, run>>
  PROVE  Doubt'
<1>1. pc \in SysmonStages
  BY CollectSysmonType DEF TypeOK, Tri
<1>2. PolicyDoubt' /\ RegistryDoubt' /\ ChannelsDoubt'
  <2>1. pc \notin PolicyStages
    BY <1>1 DEF SysmonStages, PolicyStages, Services
  <2> QED
    BY <2>1 DEF Doubt, PolicyDoubt, RegistryDoubt, ChannelsDoubt, policy, run
<1>3. edits' = 0 => IndeterminateHasAReason'
  BY NoVerdict DEF Doubt, run
<1> QED
  BY <1>2, <1>3, ServicesDoubt, DumpsDoubt DEF Doubt

\* Reading the registry.
LEMMA RegistryDoubts ==
  ASSUME TypeOK, edits = 0, Doubt, host' = host, edits' = edits, faults \subseteq faults',
         ReadRegistry \/ RegistryFails, UNCHANGED <<policy, sysmon>>
  PROVE  Doubt'
<1>1. /\ pc = "registry" /\ pc' = "Sysmon64" /\ UNCHANGED <<errors, channels, outputs>>
      /\ cmdline' = "unknown" => <<"registry", "cmdline">> \in faults'
  BY DEF ReadRegistry, RegistryFails, Fault, OnOff
<1>2. edits' = 0 => IndeterminateHasAReason'
  BY <1>1, NoVerdict DEF Doubt
<1> QED
  BY <1>1, <1>2 DEF Doubt, PolicyDoubt, RegistryDoubt, ChannelsDoubt, ServiceDoubt, DumpDoubt, Listed,
                    PolicyStages, policy, sysmon

\* A doubt about a provider of the audit policy.
LEMMA AuditDoubts ==
  ASSUME PolicyDoubt, RegistryDoubt, pc = "evaluate", faults \subseteq faults', NEW n \in Audits,
         NEW channel, channel = "unknown" => <<"channel", "Security">> \in faults',
         ProviderVerdict(Catalogue[n], channel) = "indeterminate"
  PROVE  faults' \cap Reasons(Catalogue[n]) # {} \/ Ambiguous(Catalogue[n])
<1> DEFINE p == Catalogue[n]
<1>1. p.kind # "sysmon" /\ p.of \in Subcategories
  BY NeedsFacts DEF Audits
<1>2. /\ {<<"channel", "Security">>, <<"auditpol", "policy">>, <<"row", p.of>>} \subseteq Reasons(p)
      /\ field_gate(p) => <<"registry", "cmdline">> \in Reasons(p)
      /\ host.policy[p.of] = "none" \/ necessary_but_insufficient(p) => Ambiguous(p)
  BY <1>1 DEF Reasons, Ambiguous
<1>3. evaluate_windows_audit(p, states[p.of], cmdline, channel) = "indeterminate"
  BY <1>1 DEF ProviderVerdict
<1> HIDE DEF p
<1>4. \/ channel = "unknown" \/ states[p.of] \in Unsure
      \/ (field_gate(p) /\ cmdline = "unknown") \/ necessary_but_insufficient(p)
  BY <1>3 DEF evaluate_windows_audit, Unsure, Unclear
<1>5. states[p.of] \in Unsure =>
        <<"auditpol", "policy">> \in faults \/ <<"row", p.of>> \in faults \/ host.policy[p.of] = "none"
  BY <1>1 DEF PolicyDoubt, PolicyStages
<1>6. cmdline = "unknown" => <<"registry", "cmdline">> \in faults
  BY DEF RegistryDoubt
<1>7. faults' \cap Reasons(p) # {} \/ Ambiguous(p)
  BY <1>2, <1>4, <1>5, <1>6
<1> QED
  BY <1>7 DEF p

\* And about one of Sysmon.
LEMMA SysmonDoubts ==
  ASSUME TypeOK, ServiceDoubt, DumpDoubt, pc = "evaluate", faults \subseteq faults', NEW n \in Sysmons,
         NEW channel, channel = "unknown" => <<"channel", "Operational">> \in faults',
         ProviderVerdict(Catalogue[n], channel) = "indeterminate"
  PROVE  faults' \cap Reasons(Catalogue[n]) # {} \/ Ambiguous(Catalogue[n])
<1> DEFINE p == Catalogue[n]
<1>1. p.kind = "sysmon"
  BY NeedsFacts
<1>2. /\ \A m \in Services : <<"service", m>> \in Reasons(p)
      /\ {<<"image", host.name>>, <<"channel", "Operational">>,
          <<"sysmon_c", "config">>, <<"drift", "config">>} \subseteq Reasons(p)
      /\ NoExecutable => Ambiguous(p)
  BY <1>1 DEF Reasons, Ambiguous, NoExecutable
<1>3. SysmonVerdict(p, channel) = "indeterminate"
  BY <1>1 DEF ProviderVerdict
<1> HIDE DEF p
<1>4. installed \in Tri /\ running \in Tri /\ installed # "unread" /\ running # "unread"
  BY DEF TypeOK, Tri, ServiceDoubt
<1>5. CASE SysmonGate = "indeterminate"
  <2>1. "unknown" \in {installed, running} \/ (running = "yes" /\ dump = Unread)
    BY <1>4, <1>5 DEF SysmonGate, Tri
  <2>2. \/ \E m \in Services : <<"service", m>> \in faults
        \/ <<"image", host.name>> \in faults \/ <<"sysmon_c", "config">> \in faults \/ NoExecutable
    BY <2>1 DEF ServiceDoubt, DumpDoubt
  <2>3. faults' \cap Reasons(p) # {} \/ Ambiguous(p)
    BY <1>2, <2>2
  <2> QED
    BY <2>3 DEF p
<1>6. CASE SysmonGate = "none"
  <2>1. channel = "unknown" \/ evaluate_event_type(dump, p.of) = "indeterminate"
    BY <1>3, <1>6 DEF SysmonVerdict
  <2>2. evaluate_event_type(dump, p.of) = "indeterminate" => dump.determinacy = "unknown"
    BY DEF evaluate_event_type
  <2>3. faults' \cap Reasons(p) # {} \/ Ambiguous(p)
    BY <1>2, <2>1, <2>2 DEF DumpDoubt
  <2> QED
    BY <2>3 DEF p
<1> QED
  BY <1>3, <1>5, <1>6 DEF SysmonVerdict, SysmonGate

\* A round of the loop over the providers.
LEMMA EvaluateProviderDoubts ==
  ASSUME TypeOK, Accounted, edits = 0, Doubt, host' = host, edits' = edits, faults \subseteq faults',
         EvaluateProvider, UNCHANGED <<policy, sysmon>>
  PROVE  Doubt'
<1>0. /\ pc = "evaluate" /\ pc' = "evaluate"
      /\ UNCHANGED <<states, installed, running, dump, cmdline>>
  BY DEF EvaluateProvider, policy, sysmon
<1>1. PICK n \in DOMAIN Catalogue :
         /\ n = Len(outputs) + 1 /\ Catalogue[n].channel \in Channels
         /\ IF Consults(Catalogue[n]) THEN Channel(Catalogue[n].channel) ELSE UNCHANGED <<channels, errors, faults>>
         /\ outputs' = Append(outputs, ProviderVerdict(Catalogue[n], channels'[Catalogue[n].channel]))
  BY EvaluateProviderType
<1> DEFINE p == Catalogue[n]
           v == ProviderVerdict(p, channels'[p.channel])
<1>2. channels \in [Channels -> ChannelState] /\ outputs \in Seq(Verdict)
  BY Zenon DEF TypeOK, ChannelState
<1>3. ChannelsDoubt' /\ \A m \in Services : m \in Listed' => m \in Listed
  <2>1. CASE UNCHANGED <<channels, errors, faults>>
    BY <2>1 DEF Doubt, ChannelsDoubt, Listed
  <2>2. CASE channels' = [channels EXCEPT ![p.channel] = OnOff(host.channel[p.channel])] /\ UNCHANGED <<errors, faults>>
    BY <1>1, <1>2, <2>2 DEF Doubt, ChannelsDoubt, Listed, OnOff
  <2>3. CASE /\ channels' = [channels EXCEPT ![p.channel] = "unknown"]
             /\ errors' = Append(errors, p.channel) /\ Fault({<<"channel", p.channel>>})
    <3>1. PICK c \in Channels : c = p.channel
      BY <1>1
    <3>2. ChannelsDoubt'
      BY <1>2, <2>3, <3>1 DEF Doubt, ChannelsDoubt, Fault
    <3>3. c \in Source /\ c \notin Services
      BY DEF Source, Channels, Services
    <3> QED
      BY <2>3, <3>1, <3>2, <3>3, NotListed
  <2> QED
    BY <1>1, <2>1, <2>2, <2>3 DEF Channel
<1>4. v = "indeterminate" => faults' \cap Reasons(p) # {} \/ Ambiguous(p)
  <2>1. \A c \in Channels : channels'[c] = "unknown" => <<"channel", c>> \in faults'
    BY <1>3 DEF ChannelsDoubt
  <2>2. CASE n \in Audits
    <3>1. p.channel = "Security"
      BY <2>2, NeedsFacts
    <3> QED
      BY <1>0, <1>1, <2>1, <2>2, <3>1, AuditDoubts DEF Doubt
  <2>3. CASE n \in Sysmons
    <3>1. p.channel = "Operational"
      BY <2>3, NeedsFacts
    <3> QED
      BY <1>0, <1>1, <2>1, <2>3, <3>1, SysmonDoubts DEF Doubt
  <2> QED
    BY <2>2, <2>3 DEF Sysmons
<1> HIDE DEF v
<1>5. IndeterminateHasAReason'
  <2> SUFFICES ASSUME NEW m \in DOMAIN outputs', outputs'[m] = "indeterminate"
               PROVE  faults' \cap Reasons(Catalogue[m])' # {} \/ Ambiguous(Catalogue[m])'
    BY DEF IndeterminateHasAReason
  <2>1. DOMAIN outputs' = DOMAIN outputs \cup {n} /\ outputs'[n] = v
        /\ \A k \in DOMAIN outputs : outputs'[k] = outputs[k]
    BY <1>1, <1>2 DEF v
  <2>2. faults' \cap Reasons(Catalogue[m]) # {} \/ Ambiguous(Catalogue[m])
    BY <1>4, <2>1 DEF Doubt, IndeterminateHasAReason
  <2>3. Reasons(Catalogue[m])' = Reasons(Catalogue[m]) /\ (Ambiguous(Catalogue[m])' <=> Ambiguous(Catalogue[m]))
    BY DEF Reasons, Ambiguous
  <2> QED
    BY <2>2, <2>3
<1> QED
  BY <1>0, <1>3, <1>5 DEF Doubt, PolicyDoubt, RegistryDoubt, ServiceDoubt, DumpDoubt, NoExecutable

\* The report gives no verdict on a provider.
LEMMA ReportDoubts ==
  ASSUME edits = 0, Doubt, host' = host, edits' = edits, faults \subseteq faults', Report,
         UNCHANGED <<policy, sysmon>>
  PROVE  Doubt'
<1>1. /\ pc = "evaluate" /\ pc' = "done" /\ UNCHANGED <<errors, cmdline, channels, outputs>>
  BY DEF Report
<1>2. edits' = 0 => IndeterminateHasAReason'
  BY <1>1, NoVerdict DEF Doubt
<1> QED
  BY <1>1, <1>2 DEF Doubt, PolicyDoubt, RegistryDoubt, ChannelsDoubt, ServiceDoubt, DumpDoubt, Listed,
                    NoExecutable, PolicyStages, policy, sysmon

\* At the start there is no doubt.
LEMMA InitDoubt ==
  Init => Doubt
  BY DEF Init, InitHost, InitPolicy, InitSysmon, Doubt, PolicyDoubt, RegistryDoubt, ChannelsDoubt, ServiceDoubt,
         DumpDoubt, IndeterminateHasAReason, PolicyStages, Listed, Unread

\* Every doubt keeps its reason, and gets no other.
LEMMA NextDoubt ==
  TypeOK /\ Accounted /\ Doubt /\ [Next]_vars => Doubt'
<1> SUFFICES ASSUME TypeOK, Accounted, Doubt, [Next]_vars, edits' = 0 PROVE Doubt'
  BY DEF Doubt
<1>1. CASE Administrator /\ UNCHANGED <<policy, sysmon, run>>
  BY <1>1, AdministratorType DEF TypeOK
<1>2. CASE UNCHANGED vars
  <2>1. UNCHANGED <<host, edits, faults, pc, errors, states, installed, running, dump, cmdline, channels, outputs>>
    BY <1>2 DEF vars
  <2>2. edits' = 0 => IndeterminateHasAReason'
    BY <2>1, NoVerdict DEF Doubt
  <2> QED
    BY <2>1, <2>2 DEF Doubt, PolicyDoubt, RegistryDoubt, ChannelsDoubt, ServiceDoubt, DumpDoubt, Listed, NoExecutable
<1>3. CASE Program
  <2>1. host' = host /\ edits' = edits /\ edits = 0 /\ faults \subseteq faults'
    BY <1>3, FaultsGrow DEF environment
  <2> QED
    BY <1>3, <2>1, ReadPolicyDoubts, CollectSysmonDoubts, RegistryDoubts, EvaluateProviderDoubts, ReportDoubts
       DEF Program
<1> QED
  BY <1>1, <1>2, <1>3 DEF Next

\* On a host nobody touches a provider is INDETERMINATE only for a reason of its own, whatever
\* the host, its configuration of Sysmon and the reads that fail.
THEOREM IndeterminateHasAReasonHolds ==
  Spec => []IndeterminateHasAReason
<1>1. Doubt => IndeterminateHasAReason
  BY DEF Doubt, IndeterminateHasAReason
<1> QED
  BY <1>1, InitType, NextType, InitAccounted, NextAccounted, InitDoubt, NextDoubt, PTL DEF Spec

-----------------------------------------------------------------------------
(* The run keeps the promise of Attestation.                               *)

KnownState == A!State \cup {"unseen", "unknown"}

\* What is known of each kind of fact.
KnownFacts ==
  /\ knownBar = [f \in Facts |-> knownBar[f]]
  /\ \A c \in Channels : knownBar[c] = KnownAs(channels[c])
  /\ \A s \in Subcategories : knownBar[s] = KnownAs(states[s])
  /\ \A n \in Services : knownBar[n] = KnownService(n)
  /\ \A t \in EventTypes : knownBar[t] = KnownEvent(t)
  /\ knownBar["cmdline"] = IF cmdline = "off" THEN "partial" ELSE KnownAs(cmdline)
  /\ knownBar["sacl"] = IF cmdline = "unread" THEN "unseen" ELSE "unknown"

\* The kinds of facts.
LEMMA KindsOfFact ==
  Facts = Channels \cup Subcategories \cup Services \cup EventTypes \cup {"cmdline", "sacl"}
  BY DEF Facts, Gates

\* What is known is known so.
LEMMA KnownFactsHold == KnownFacts
<1> USE DEF knownBar, Facts, Gates
<1>1. knownBar = [f \in Facts |-> knownBar[f]]
  OBVIOUS
<1>2. \A c \in Channels : knownBar[c] = KnownAs(channels[c])
  OBVIOUS
<1>3. \A s \in Subcategories : knownBar[s] = KnownAs(states[s])
  BY DEF Subcategories, Channels
<1>4. \A n \in Services : knownBar[n] = KnownService(n)
  BY DEF Services, Subcategories, Channels
<1>5. \A t \in EventTypes : knownBar[t] = KnownEvent(t)
  BY DEF EventTypes, Services, Subcategories, Channels
<1>6. /\ knownBar["cmdline"] = IF cmdline = "off" THEN "partial" ELSE KnownAs(cmdline)
      /\ knownBar["sacl"] = IF cmdline = "unread" THEN "unseen" ELSE "unknown"
  BY DEF EventTypes, Services, Subcategories, Channels
<1> QED
  BY <1>1, <1>2, <1>3, <1>4, <1>5, <1>6 DEF KnownFacts

\* What each reading of a gate tells.
LEMMA KnownAsFacts ==
  /\ \A x \in {"on", "yes", "success", "both"} : KnownAs(x) = "good"
  /\ \A x \in {"off", "no", "none", "failure"} : KnownAs(x) = "bad"
  /\ \A x \in {"unknown", "absent", "unchanged", "unknown:5"} : KnownAs(x) = "unknown"
  /\ KnownAs("unread") = "unseen"
  /\ \A x : KnownAs(x) \in KnownState
  BY DEF KnownAs, Known, KnownState, A!State

\* What a dump, read or on the host, tells of an event type.
LEMMA LoggedType ==
  /\ \A d, t : Logged[evaluate_event_type(d, t)] \in A!State \cup {"unknown"}
  /\ \A d, t : d.determinacy # "unknown" => Logged[evaluate_event_type(d, t)] \in A!State
<1>1. \A d, t : /\ evaluate_event_type(d, t) \in {"covered", "degraded", "not_covered", "indeterminate"}
                /\ d.determinacy # "unknown" => evaluate_event_type(d, t) # "indeterminate"
  BY DEF evaluate_event_type
<1>2. /\ Logged["covered"] = "good" /\ Logged["degraded"] = "partial" /\ Logged["not_covered"] = "bad"
      /\ Logged["indeterminate"] = "unknown"
  BY DEF Logged
<1> QED
  BY <1>1, <1>2, Zenon DEF A!State

\* What is known of a fact is its state, that it cannot be known, or nothing yet.
LEMMA KnownType == knownBar \in [Facts -> KnownState]
<1>1. \A n : KnownService(n) \in KnownState
  BY KnownAsFacts DEF KnownService, KnownState, A!State, GoodBad
<1>2. \A t : KnownEvent(t) \in KnownState
  BY LoggedType DEF KnownEvent, KnownState
<1>3. \A f \in Facts : knownBar[f] \in KnownState
  BY <1>1, <1>2, KindsOfFact, KnownFactsHold, KnownAsFacts DEF KnownFacts, KnownState, A!State
<1> QED
  BY <1>3, KnownFactsHold DEF KnownFacts

\* What is true of the host, fact by fact.
truthBar == [f \in Facts |-> Truth(f)]

\* It is one of the three states.
LEMMA TruthType == TypeOK => truthBar \in [Facts -> A!State]
<1> SUFFICES ASSUME TypeOK PROVE truthBar \in [Facts -> A!State]
  OBVIOUS
<1>1. host.config.determinacy # "unknown"
  BY ConfigsAssumption DEF TypeOK, Host
<1>2. \A f \in Facts : Truth(f) \in A!State
  BY <1>1, LoggedType, KindsOfFact, TruthOf DEF GoodBad, A!State
<1> QED
  BY <1>2 DEF truthBar

\* The same of the next state.
LEMMA NextFacts ==
  /\ KnownFacts' /\ (knownBar \in [Facts -> KnownState])'
  /\ (TypeOK => truthBar \in [Facts -> A!State])'
  BY KnownFactsHold, KnownType, TruthType, PTL

\* What is no longer unread at each stage, and what is said of a service that no search
\* has found.
Informed ==
  /\ \A s \in Subcategories : pc \in PolicyStages <=> states[s] = "unread"
  /\ Usual => \A s \in Subcategories : states[s] # "unknown:5"
  /\ pc \in PolicyStages \cup {"registry"} <=> cmdline = "unread"
  /\ pc \in PolicyStages \cup {"registry"} \cup Services <=> installed = "unread"
  /\ installed = "yes" \/ running = installed
  /\ installed = "yes" => running # "unread"
  /\ installed = "no" => Listed \cap Services = {}
  /\ installed = "unknown" => Listed \cap Services # {}

\* Nothing is known at the start.
LEMMA InitInformed ==
  Init => Informed
  BY DEF Init, InitHost, InitPolicy, InitSysmon, Informed, PolicyStages, Listed

\* A step that reads the policy.
LEMMA ReadPolicyInforms ==
  ASSUME TypeOK, Accounted, Informed, faults \subseteq faults', ReadPolicy, UNCHANGED <<sysmon, run>>
  PROVE  Informed' /\ Listed' \cap Services = Listed \cap Services
<1>0. /\ host \in Host /\ privilege \in BOOLEAN /\ Cardinality(faults) <= MaxFaults
      /\ states \in [Subcategories -> PolicyState] /\ \A s \in Subcategories : host.policy[s] \in Word
  <2>1. host \in Host /\ states \in [Subcategories -> PolicyState]
    BY Zenon DEF TypeOK
  <2> QED
    BY <2>1 DEF TypeOK, Host
<1>1. pc \in PolicyStages /\ pc' \in PolicyStages \cup {"registry"}
  BY <1>0, ReadPolicyType
<1>2. Listed' \cap Services = Listed \cap Services
  <2>1. CASE errors' = errors
    BY <2>1 DEF Listed
  <2>2. ASSUME NEW e \in {"AuditQuerySystemPolicy", "auditpol"}, errors' = Append(errors, e)
        PROVE  Listed' \cap Services = Listed \cap Services
    <3>1. e \in Source /\ e \notin Services
      BY DEF Source, FromTheStart, Services
    <3> QED
      BY <2>2, <3>1, Appended
  <2> QED
    BY <2>1, <2>2 DEF ReadPolicy, QuerySucceeds, QueryDenied, QueryFails, EnablePrivilege, PrivilegeNotHeld,
                      NativeFails, RunAuditpol, AuditpolFails
<1>3. UNCHANGED <<installed, running, cmdline>> /\ (Usual' => Usual)
  BY DEF sysmon, run, Usual
<1>4. \A s \in Subcategories : /\ pc' \in PolicyStages <=> states'[s] = "unread"
                               /\ Usual' => states'[s] # "unknown:5"
  <2>1. CASE pc' \in PolicyStages /\ states' = states
    BY <1>1, <1>3, <2>1 DEF Informed
  <2>2. CASE /\ pc' = "registry"
             /\ \A s \in Subcategories :
                  /\ states'[s] \in {host.policy[s], "absent", "unknown", "unchanged", "unknown:5"}
                  /\ Usual' => states'[s] # "unknown:5"
    BY <1>0, <2>2 DEF PolicyStages, Word
  <2> QED
    BY <2>1, <2>2, ReadPolicyReads
<1>5. pc \notin Services /\ pc' \notin Services
  BY <1>1 DEF PolicyStages, Services
<1> QED
  BY <1>1, <1>2, <1>3, <1>4, <1>5 DEF Informed

\* Learned of a fact: the truth, or that it cannot be known.
Learned(f, old, new) == new = old \/ (old = "unseen" /\ new \in {Truth(f), "unknown"})

\* A search that does not find the service.
LEMMA NotFoundInforms ==
  ASSUME TypeOK, Accounted, Informed, ServiceAbsent \/ ServiceFails, faults \subseteq faults', UNCHANGED <<policy, run>>
  PROVE  Informed' /\ \A n \in Services : Learned(n, KnownService(n), KnownService(n)')
<1>0. PICK n \in Services : /\ Asked(n)
                            /\ \/ NotFound(n, errors) /\ ~Here(n)
                               \/ NotFound(n, Append(errors, n))
  BY DEF ServiceAbsent, ServiceFails
<1>1. /\ pc = n /\ pc' = AfterService(n) /\ host' = host
      /\ (errors' = errors /\ ~Here(n)) \/ errors' = Append(errors, n)
      /\ pc' = "evaluate" => installed' = NoService(errors') /\ running' = NoService(errors')
      /\ pc' # "evaluate" => UNCHANGED <<installed, running>>
      /\ UNCHANGED <<states, cmdline>>
  BY <1>0 DEF NotFound, Asked, environment, policy, run
<1>2. n \notin Listed /\ n \in Source
  BY <1>1, LaterFacts, LaterNotListed DEF Services, AfterAuditpol, Source, FromTheStart
<1>3. \/ Listed' = Listed /\ ~Here(n)
      \/ Listed' = Listed \cup {n}
  <2>1. CASE errors' = errors /\ ~Here(n)
    BY <2>1 DEF Listed
  <2>2. CASE errors' = Append(errors, n)
    BY <1>2, <2>2, Appended
  <2> QED
    BY <1>1, <2>1, <2>2
<1>4. NoService(errors') = IF Listed' \cap Services = {} THEN "no" ELSE "unknown"
  BY DEF NoService, Listed
<1>5. Usual' => Usual
  BY DEF Usual
<1>6. installed = "unread" /\ running = "unread"
  BY <1>1 DEF Informed
<1>7. \A m \in Services : /\ Truth(m) = GoodBad(m = host.name => host.service = "running")
                          /\ KnownService(m) = IF m \in Listed THEN "unseen"
                                               ELSE IF pc \in Before(m) THEN "unseen" ELSE GoodBad(m # host.name)
                          /\ installed' # "yes" =>
                               KnownService(m)' = IF m \in Listed'
                                                  THEN IF installed' = "unread" THEN "unseen" ELSE "unknown"
                                                  ELSE IF pc' \in Before(m) THEN "unseen" ELSE GoodBad(m # host.name)
  BY <1>1, <1>6, TruthOf DEF KnownService, Listed
<1>8. ~Here(n) => GoodBad(n # host.name) = Truth(n)
  BY <1>7 DEF Here, GoodBad
<1>9. CASE n = "Sysmon64"
  <2>1. pc = "Sysmon64" /\ pc' = "Sysmon" /\ UNCHANGED <<installed, running>>
    BY <1>1, <1>9 DEF AfterService
  <2>2. Informed'
    BY <1>1, <1>5, <1>6, <2>1 DEF Informed, PolicyStages, Services
  <2>3. Learned("Sysmon64", KnownService("Sysmon64"), KnownService("Sysmon64")')
    BY <1>2, <1>3, <1>6, <1>7, <1>8, <1>9, <2>1 DEF Services, Learned, Before
  <2>4. KnownService("Sysmon")' = KnownService("Sysmon")
    BY <1>2, <1>3, <1>6, <1>7, <1>9, <2>1 DEF Services, Before
  <2> QED
    BY <2>2, <2>3, <2>4 DEF Services, Learned
<1>10. CASE n = "Sysmon"
  <2>1. pc = "Sysmon" /\ pc' = "evaluate" /\ installed' = NoService(errors') /\ running' = NoService(errors')
    BY <1>1, <1>10 DEF AfterService
  <2>2. Informed'
    BY <1>1, <1>4, <1>5, <2>1 DEF Informed, PolicyStages, Services
  <2>3. Learned("Sysmon", KnownService("Sysmon"), KnownService("Sysmon")')
    BY <1>2, <1>3, <1>4, <1>7, <1>8, <1>10, <2>1 DEF Services, Learned, Before
  <2>4. Learned("Sysmon64", KnownService("Sysmon64"), KnownService("Sysmon64")')
    BY <1>3, <1>4, <1>7, <1>10, <2>1 DEF Services, Learned, Before
  <2> QED
    BY <2>2, <2>3, <2>4 DEF Services
<1> QED
  BY <1>9, <1>10 DEF Services

\* A search that does.
LEMMA FoundInforms ==
  ASSUME TypeOK, Accounted, Informed, ServiceFound \/ StatusFails, faults \subseteq faults', UNCHANGED <<policy, run>>
  PROVE  Informed' /\ \A n \in Services : Learned(n, KnownService(n), KnownService(n)')
<1>1. PICK n \in Services : Asked(n) /\ Here(n)
  BY DEF ServiceFound, StatusFails
<1>2. /\ pc = n /\ n = host.name /\ host.service # "absent" /\ host' = host
      /\ installed' = "yes" /\ running' \in {IF host.service = "running" THEN "yes" ELSE "no", "unknown"}
      /\ pc' \in {"locate", "evaluate"} /\ UNCHANGED <<states, cmdline>>
  BY <1>1 DEF ServiceFound, StatusFails, Asked, Here, AfterFound, environment, policy, run
<1>3. installed = "unread" /\ n \notin Listed
  BY <1>2, LaterFacts, LaterNotListed DEF Informed, Services, AfterAuditpol
<1>4. Usual' => Usual
  BY DEF Usual
<1>5. Informed'
  BY <1>2, <1>4 DEF Informed, PolicyStages, Services
<1>6. \A m \in Services : /\ Truth(m) = GoodBad(m = host.name => host.service = "running")
                          /\ KnownService(m) = IF m \in Listed THEN "unseen"
                                               ELSE IF pc \in Before(m) THEN "unseen" ELSE GoodBad(m # host.name)
                          /\ KnownService(m)' = IF m = host.name THEN KnownAs(running') ELSE "good"
  BY <1>2, <1>3, TruthOf DEF KnownService, Listed
<1>7. Learned(n, KnownService(n), KnownService(n)')
  BY <1>2, <1>3, <1>6, KnownAsFacts DEF Learned, Before, GoodBad, Services
<1>8. \A m \in Services : m # n => Learned(m, KnownService(m), KnownService(m)')
  BY <1>2, <1>6 DEF Learned, Before, GoodBad, Services
<1> QED
  BY <1>5, <1>7, <1>8

\* Nothing is known of an event type before the dump is asked for.
LEMMA NothingDumped ==
  /\ dump = Unread /\ ~(running = "yes" /\ pc \in {"evaluate", "done"}) => \A t : KnownEvent(t) = "unseen"
  /\ dump' = Unread /\ ~(running' = "yes" /\ pc' \in {"evaluate", "done"}) => \A t : KnownEvent(t)' = "unseen"
  BY DEF KnownEvent

\* And what is known of it is not forgotten.
LEMMA EventsStay ==
  ASSUME UNCHANGED <<dump, running>>, <<"empty", "config">> \in faults' <=> <<"empty", "config">> \in faults,
         pc \in {"evaluate", "done"} <=> pc' \in {"evaluate", "done"}
  PROVE  \A t : KnownEvent(t)' = KnownEvent(t)
  BY DEF KnownEvent

\* The search for the service tells nothing of the events.
LEMMA SearchTellsNoEvents ==
  ASSUME TypeOK, ServiceAbsent \/ ServiceFails \/ ServiceFound \/ StatusFails
  PROVE  \A t \in EventTypes : Learned(t, KnownEvent(t), KnownEvent(t)')
<1>1. pc \in Services /\ dump' = dump /\ (pc' = "evaluate" => running' # "yes") /\ pc' # "done"
  BY DEF ServiceAbsent, ServiceFails, ServiceFound, StatusFails, NotFound, NoService, AfterService, AfterFound,
         Asked, Services
<1>2. dump = Unread /\ pc \notin {"evaluate", "done"}
  BY <1>1 DEF TypeOK, Services
<1> QED
  BY <1>1, <1>2, NothingDumped DEF Learned

\* What is known of a service once it is found.
LEMMA FoundStays ==
  ASSUME installed = "yes", UNCHANGED <<host, installed, running>>
  PROVE  \A n : KnownService(n)' = KnownService(n)
  BY DEF KnownService

\* The steps after the search: they tell of the events what is true of the host, or nothing.
LEMMA AskInforms ==
  ASSUME TypeOK, Informed, faults \subseteq faults', UNCHANGED <<policy, run>>,
         Locate \/ ImagePathFails \/ ImagePathBlank \/ AskConfig \/ AskFails
  PROVE  /\ Informed'
         /\ \A n \in Services : Learned(n, KnownService(n), KnownService(n)')
         /\ \A t \in EventTypes : Learned(t, KnownEvent(t), KnownEvent(t)')
<1>1. /\ pc \in {"locate", "ask"} /\ pc' \in {"ask", "evaluate", "crashed"}
      /\ UNCHANGED <<host, installed, running, states, cmdline>>
  BY DEF Locate, ImagePathFails, ImagePathBlank, AskConfig, AskFails, Located, Dumped, environment, sysmon,
         policy, run
<1>2. running = "yes" /\ installed = "yes" /\ dump = Unread
  BY <1>1 DEF TypeOK, Informed
<1>3. Usual' => Usual
  BY DEF Usual
<1>4. Informed'
  BY <1>1, <1>2, <1>3 DEF Informed, PolicyStages, Services
<1>5. \A n \in Services : Learned(n, KnownService(n), KnownService(n)')
  BY <1>1, <1>2, FoundStays DEF Learned
<1>6. \A t : KnownEvent(t) = "unseen"
  BY <1>1, <1>2, NothingDumped
<1>7. ASSUME NEW t \in EventTypes PROVE KnownEvent(t)' \in {"unseen", "unknown", Truth(t)}
  <2>1. CASE AskConfig
    <3>1. Truth(t) = Logged[evaluate_event_type(host.config, t)] /\ host.config.determinacy = "effective"
      BY TruthOf, ConfigsAssumption DEF TypeOK, Host
    <3>2. Unread.determinacy = "unread" /\ Empty.determinacy = "effective"
          /\ Drifted(host.config).determinacy = "unknown"
      BY DEF Unread, Empty, Drifted
    <3>3. CASE dump' = host.config
      BY <3>1, <3>2, <3>3 DEF KnownEvent
    <3>4. CASE dump' = Drifted(host.config)
      <4>1. Logged[evaluate_event_type(dump', t)] \in {"unknown", Truth(t)}
        BY <3>1, <3>4, DriftedIsRight DEF Logged
      <4> QED
        BY <3>2, <3>4, <4>1 DEF KnownEvent
    <3>5. CASE dump' = Empty /\ <<"empty", "config">> \in faults'
      BY <3>2, <3>5 DEF KnownEvent
    <3> QED
      BY <2>1, <3>3, <3>4, <3>5 DEF AskConfig, Dumped, Fault
  <2>2. CASE dump' = dump
    BY <1>2, <2>2 DEF KnownEvent
  <2> QED
    BY <2>1, <2>2 DEF Locate, ImagePathFails, ImagePathBlank, AskFails, Located, sysmon
<1> QED
  BY <1>4, <1>5, <1>6, <1>7 DEF Learned

\* Reading the registry.
LEMMA RegistryInforms ==
  ASSUME TypeOK, Informed, faults \subseteq faults', ReadRegistry \/ RegistryFails, UNCHANGED <<policy, sysmon>>
  PROVE  /\ Informed'
         /\ cmdline = "unread" /\ cmdline' \in {OnOff(host.cmdline), "unknown"}
         /\ \A n \in Services : KnownService(n)' = KnownService(n)
         /\ \A t \in EventTypes : KnownEvent(t)' = KnownEvent(t)
<1>1. /\ pc = "registry" /\ pc' = "Sysmon64" /\ cmdline' \in {OnOff(host.cmdline), "unknown"}
      /\ UNCHANGED <<host, errors, states, installed, running, dump>>
  BY DEF ReadRegistry, RegistryFails, environment, policy, sysmon
<1>2. installed = "unread" /\ cmdline = "unread" /\ cmdline' # "unread"
  BY <1>1 DEF Informed, OnOff
<1>3. Usual' => Usual
  BY DEF Usual
<1>4. Listed' = Listed
  BY <1>1 DEF Listed
<1>5. Informed'
  BY <1>1, <1>2, <1>3, <1>4 DEF Informed, PolicyStages, Services
<1>6. \A n \in Services : KnownService(n)' = KnownService(n)
  BY <1>1, <1>2 DEF KnownService, Before
<1>7. \A t \in EventTypes : KnownEvent(t)' = KnownEvent(t)
  <2>1. dump = Unread
    BY <1>1 DEF TypeOK
  <2> QED
    BY <1>1, <2>1, NothingDumped
<1> QED
  BY <1>1, <1>2, <1>5, <1>6, <1>7

ChannelsLearned ==
  \A c \in Channels :
    channels'[c] = channels[c] \/ (channels[c] = "unread" /\ channels'[c] \in {OnOff(host.channel[c]), "unknown"})

\* Reading a channel behind the cache.
LEMMA ChannelInforms ==
  ASSUME TypeOK, Accounted, NEW c \in Channels, Channel(c)
  PROVE  /\ ChannelsLearned /\ Listed' \cap Services = Listed \cap Services
         /\ <<"empty", "config">> \in faults' <=> <<"empty", "config">> \in faults
<1>0. channels \in [Channels -> ChannelState]
  BY Zenon DEF TypeOK, ChannelState
<1>1. CASE UNCHANGED <<channels, errors, faults>>
  BY <1>1 DEF ChannelsLearned, Listed
<1>2. CASE /\ ~Cached(c) /\ channels' = [channels EXCEPT ![c] = OnOff(host.channel[c])]
           /\ UNCHANGED <<errors, faults>>
  BY <1>0, <1>2 DEF ChannelsLearned, Listed, Cached
<1>3. CASE /\ ~Cached(c) /\ channels' = [channels EXCEPT ![c] = "unknown"]
           /\ errors' = Append(errors, c) /\ Fault({<<"channel", c>>})
  <2>1. ChannelsLearned
    BY <1>0, <1>3 DEF ChannelsLearned, Cached
  <2>2. c \in Source /\ c \notin Services
    BY DEF Source, Channels, Services
  <2>3. Listed' \cap Services = Listed \cap Services
    BY <1>3, <2>2, Appended
  <2> QED
    BY <1>3, <2>1, <2>3 DEF Fault
<1> QED
  BY <1>1, <1>2, <1>3 DEF Channel

\* A round of the loop over the providers.
LEMMA EvaluateInforms ==
  ASSUME TypeOK, Accounted, Informed, faults \subseteq faults', EvaluateProvider, UNCHANGED <<policy, sysmon>>
  PROVE  /\ Informed' /\ ChannelsLearned
         /\ \A n \in Services : KnownService(n)' = KnownService(n)
         /\ \A t \in EventTypes : KnownEvent(t)' = KnownEvent(t)
<1>1. pc = "evaluate" /\ UNCHANGED <<host, pc, states, installed, running, dump, cmdline>>
  BY DEF EvaluateProvider, environment, policy, sysmon
<1>2. /\ ChannelsLearned /\ Listed' \cap Services = Listed \cap Services
      /\ <<"empty", "config">> \in faults' <=> <<"empty", "config">> \in faults
  <2>1. PICK n \in DOMAIN Catalogue :
          /\ Catalogue[n].channel \in Channels
          /\ IF Consults(Catalogue[n]) THEN Channel(Catalogue[n].channel) ELSE UNCHANGED <<channels, errors, faults>>
    BY EvaluateProviderType
  <2>2. CASE UNCHANGED <<channels, errors, faults>>
    BY <2>2 DEF ChannelsLearned, Listed
  <2> QED
    BY <2>1, <2>2, ChannelInforms
<1>3. Usual' => Usual
  BY DEF Usual
<1>4. Informed'
  BY <1>1, <1>2, <1>3 DEF Informed
<1>5. \A n \in Services : KnownService(n)' = KnownService(n)
  <2>1. \A n \in Services : n \in Listed' <=> n \in Listed
    BY <1>2
  <2> QED
    BY <1>1, <2>1 DEF KnownService, Listed, Before
<1> QED
  BY <1>1, <1>2, <1>4, <1>5, EventsStay

\* Publishing the report changes nothing of what is known, and neither does the host.
LEMMA KnownStays ==
  ASSUME UNCHANGED <<faults, errors, states, installed, running, dump, cmdline, channels>>, host'.name = host.name,
         pc' = pc \/ (pc = "evaluate" /\ pc' = "done")
  PROVE  knownBar' = knownBar
<1>1. \A n \in Services : KnownService(n)' = KnownService(n)
  BY DEF KnownService, Before, Services
<1>2. \A t : KnownEvent(t)' = KnownEvent(t)
  BY EventsStay
<1> QED
  BY <1>1, <1>2 DEF knownBar

\* An administrator does not rename the service.
LEMMA NameStays ==
  ASSUME TypeOK, Administrator
  PROVE  host'.name = host.name
<1>1. /\ \A s, w : [host EXCEPT !.policy[s] = w].name = host.name
      /\ \A c : [host EXCEPT !.channel[c] = ~@].name = host.name
      /\ [host EXCEPT !.cmdline = ~@].name = host.name
      /\ \A state : [host EXCEPT !.service = state].name = host.name
      /\ \A c : [host EXCEPT !.config = c].name = host.name
  BY DEF TypeOK, Host
<1>2. CASE SetPolicy
  BY <1>1, <1>2 DEF SetPolicy, Edit
<1>3. CASE SetCmdLine
  BY <1>1, <1>3 DEF SetCmdLine, Edit
<1>4. CASE SetChannel
  <2>1. PICK c \in Channels : Edit([host EXCEPT !.channel[c] = ~@])
    BY <1>4 DEF SetChannel
  <2> QED
    BY <1>1, <2>1 DEF Edit
<1>5. CASE SetService
  <2>1. PICK state \in {"absent", "stopped", "running"} : Edit([host EXCEPT !.service = state])
    BY <1>5 DEF SetService
  <2> QED
    BY <1>1, <2>1 DEF Edit
<1>6. CASE Reconfigure
  <2>1. PICK c \in Configs : Edit([host EXCEPT !.config = c])
    BY <1>6 DEF Reconfigure
  <2> QED
    BY <1>1, <2>1 DEF Edit
<1> QED
  BY <1>2, <1>3, <1>4, <1>5, <1>6 DEF Administrator

\* Between the steps of the run the host changes as it likes.
LEMMA HostIsHost ==
  ASSUME TypeOK, TypeOK', Administrator, UNCHANGED <<policy, sysmon, run>>
  PROVE  A!HostChanges
<1>1. UNCHANGED <<faults, pc, errors, states, installed, running, dump, cmdline, channels, findings>>
  BY AdministratorType DEF TypeOK, policy, sysmon, run
<1>2. knownBar' = knownBar
  BY <1>1, KnownStays, NameStays
<1>3. truthBar' \in [Facts -> A!State]
  <2>1. (truthBar \in [Facts -> A!State])'
    BY NextFacts
  <2> QED
    BY <2>1 DEF Facts, Gates, A!State
<1>4. (Usual' <=> Usual) /\ findings' = findings
  BY <1>1 DEF Usual
<1> QED
  BY <1>2, <1>3, <1>4 DEF A!HostChanges, truthBar

\* A step of the program before the report, and what it learns.
LEMMA StepIsLook ==
  ASSUME TypeOK, pc # "done", UNCHANGED <<host, findings>>, ChannelsLearned,
         \/ states' = states
         \/ \A s \in Subcategories :
              /\ states[s] = "unread"
              /\ states'[s] \in {host.policy[s], "absent", "unknown", "unchanged", "unknown:5"},
         cmdline' = cmdline \/ (cmdline = "unread" /\ cmdline' \in {OnOff(host.cmdline), "unknown"}),
         \A n \in Services : Learned(n, KnownService(n), KnownService(n)'),
         \A t \in EventTypes : Learned(t, KnownEvent(t), KnownEvent(t)')
  PROVE  A!Look /\ \A f \in Facts : Learned(f, knownBar[f], knownBar'[f])
<1>0. host.policy \in [Subcategories -> Word] /\ host.cmdline \in BOOLEAN /\ host.channel \in [Channels -> BOOLEAN]
  BY DEF TypeOK, Host
<1>1. \A c \in Channels : Learned(c, knownBar[c], knownBar'[c])
  BY <1>0, KnownFactsHold, NextFacts, KnownAsFacts, TruthOf DEF KnownFacts, ChannelsLearned, Learned, OnOff, GoodBad
<1>2. \A s \in Subcategories : Learned(s, knownBar[s], knownBar'[s])
  <2>1. \A s \in Subcategories : knownBar[s] = KnownAs(states[s]) /\ knownBar'[s] = KnownAs(states'[s])
    BY KnownFactsHold, NextFacts DEF KnownFacts
  <2>2. CASE states' = states
    BY <2>1, <2>2 DEF Learned
  <2>3. ASSUME NEW s \in Subcategories, states[s] = "unread",
               states'[s] \in {host.policy[s], "absent", "unknown", "unchanged", "unknown:5"}
        PROVE  Learned(s, knownBar[s], knownBar'[s])
    <3>1. host.policy[s] \in Word /\ Truth(s) = GoodBad(host.policy[s] \in {"success", "both"})
      BY <1>0, TruthOf
    <3>2. KnownAs(host.policy[s]) = Truth(s)
      BY <3>1, KnownAsFacts DEF Word, GoodBad
    <3> QED
      BY <2>1, <2>3, <3>2, KnownAsFacts DEF Learned
  <2> QED
    BY <2>2, <2>3
<1>3. \A f \in {"cmdline", "sacl"} : Learned(f, knownBar[f], knownBar'[f])
  BY <1>0, KnownFactsHold, NextFacts, KnownAsFacts, TruthOf DEF KnownFacts, Learned, OnOff
<1>4. \A f \in Services \cup EventTypes : Learned(f, knownBar[f], knownBar'[f])
  BY KnownFactsHold, NextFacts DEF KnownFacts
<1>5. \A f \in Facts : Learned(f, knownBar[f], knownBar'[f])
  BY <1>1, <1>2, <1>3, <1>4, KindsOfFact
<1>6. knownBar' \in [Facts -> A!State \cup {"unseen", "unknown"}]
  <2>1. (knownBar \in [Facts -> KnownState])'
    BY NextFacts
  <2> QED
    BY <2>1 DEF KnownState, Facts, Gates, A!State
<1>7. truthBar' = truthBar
  BY TruthStays DEF truthBar
<1>8. findings = A!Unpublished
  BY DEF TypeOK, A!Unpublished
<1>9. A!Learns(knownBar, knownBar', truthBar)
  BY <1>5 DEF A!Learns, Learned, truthBar
<1> QED
  BY <1>5, <1>6, <1>7, <1>8, <1>9 DEF A!Look, A!Unpublished, truthBar

\* What a verdict rests on stays known.
LEMMA BearsStays ==
  ASSUME NEW way \in SUBSET Facts, NEW v, A!Bears(knownBar, way, v),
         \A f \in Facts : Learned(f, knownBar[f], knownBar'[f])
  PROVE  A!Bears(knownBar', way, v)
  BY DEF A!Bears, Learned, A!State

\* The verdict on a provider of the audit policy is borne out by what is known.
LEMMA AuditIsBorne ==
  ASSUME TypeOK, Informed, Usual, pc = "evaluate", NEW n \in Audits, channels["Security"] # "unread"
  PROVE  A!Bears(knownBar, Needs(Catalogue[n]), ProviderVerdict(Catalogue[n], channels["Security"]))
<1> DEFINE p == Catalogue[n]
           way == Needs(p)
           channel == channels["Security"]
           v == evaluate_windows_audit(p, states[p.of], cmdline, channel)
<1>1. /\ p.kind # "sysmon" /\ p.of \in Subcategories
      /\ way = {"Security", p.of} \cup (IF p.of = "ProcessCreation" THEN {"cmdline"} ELSE {})
                                  \cup (IF p.of = "FileSystem" THEN {"sacl"} ELSE {})
      /\ field_gate(p) <=> p.of = "ProcessCreation"
      /\ necessary_but_insufficient(p) <=> p.of = "FileSystem"
  BY NeedsFacts DEF Audits, field_gate, necessary_but_insufficient
<1>2. ProviderVerdict(p, channel) = v
  BY <1>1 DEF ProviderVerdict
<1> SUFFICES A!Bears(knownBar, way, v)
  BY <1>2
<1>3. /\ knownBar["Security"] = KnownAs(channel) /\ knownBar[p.of] = KnownAs(states[p.of])
      /\ knownBar["cmdline"] = IF cmdline = "off" THEN "partial" ELSE KnownAs(cmdline)
      /\ knownBar["sacl"] = IF cmdline = "unread" THEN "unseen" ELSE "unknown"
  BY <1>1, KnownFactsHold DEF KnownFacts, Channels
<1>4. /\ channel \in {"on", "off", "unknown"} /\ cmdline \in {"on", "off", "unknown"}
      /\ states[p.of] \in Word \cup {"absent", "unknown", "unchanged"}
  BY <1>1 DEF TypeOK, Informed, PolicyStages, PolicyState, Channels
<1>5. /\ "Security" \in way /\ p.of \in way
      /\ field_gate(p) => "cmdline" \in way
      /\ necessary_but_insufficient(p) => "sacl" \in way
  BY <1>1
<1>6. p.of \in Gates /\ "Security" \in Gates /\ "cmdline" \notin Gates
  BY <1>1 DEF Gates, Channels, Subcategories, Services
<1> HIDE DEF p, way, channel
<1>7. CASE v = "not_covered"
  <2>1. channel = "off" \/ states[p.of] \in {"none", "failure"}
    BY <1>4, <1>7 DEF evaluate_windows_audit, Unclear, required_states, Word
  <2>2. \E f \in way : knownBar[f] = "bad"
    BY <1>3, <1>5, <2>1, KnownAsFacts
  <2> QED
    BY <1>7, <2>2 DEF A!Bears
<1>8. CASE v = "indeterminate"
  <2>1. \/ channel = "unknown" \/ states[p.of] \in {"absent", "unknown", "unchanged"}
        \/ (field_gate(p) /\ cmdline = "unknown") \/ necessary_but_insufficient(p)
    BY <1>8 DEF evaluate_windows_audit, Unclear
  <2>2. knownBar["sacl"] = "unknown"
    BY <1>3, <1>4
  <2>3. \E f \in way : knownBar[f] = "unknown"
    BY <1>3, <1>5, <2>1, <2>2, KnownAsFacts
  <2> QED
    BY <1>8, <2>3 DEF A!Bears
<1>9. CASE v \in {"covered", "degraded"}
  <2>1. channel = "on" /\ states[p.of] \in {"success", "both"}
    BY <1>4, <1>9 DEF evaluate_windows_audit, Unclear, required_states
  <2>2. knownBar["Security"] = "good" /\ knownBar[p.of] = "good"
    BY <1>3, <2>1, KnownAsFacts
  <2>3. CASE v = "covered"
    <3>1. ~necessary_but_insufficient(p) /\ (field_gate(p) => cmdline = "on")
      BY <1>4, <2>3 DEF evaluate_windows_audit
    <3>2. \A f \in way : knownBar[f] = "good"
      BY <1>1, <1>3, <2>2, <3>1, KnownAsFacts
    <3> QED
      BY <2>3, <3>2 DEF A!Bears
  <2>4. CASE v = "degraded"
    <3>1. field_gate(p) /\ cmdline = "off"
      BY <2>4 DEF evaluate_windows_audit
    <3>2. way = {"Security", p.of, "cmdline"} /\ knownBar["cmdline"] = "partial"
      BY <1>1, <1>3, <3>1
    <3> QED
      BY <1>6, <2>2, <2>4, <3>2 DEF A!Bears, A!State
  <2> QED
    BY <1>9, <2>3, <2>4
<1>10. v \in {"covered", "degraded", "not_covered", "indeterminate"}
  BY DEF evaluate_windows_audit
<1> QED
  BY <1>7, <1>8, <1>9, <1>10

\* And the verdict on one of Sysmon.
LEMMA SysmonIsBorne ==
  ASSUME TypeOK, Informed, Usual, pc = "evaluate", NEW n \in Sysmons,
         Consults(Catalogue[n]) => channels["Operational"] # "unread"
  PROVE  A!Bears(knownBar, Needs(Catalogue[n]), ProviderVerdict(Catalogue[n], channels["Operational"]))
<1> DEFINE p == Catalogue[n]
           way == Needs(p)
           channel == channels["Operational"]
           v == SysmonVerdict(p, channel)
<1>1. p.kind = "sysmon" /\ p.of \in EventTypes /\ way = {"Operational", p.of} \cup Services
  BY NeedsFacts
<1>2. ProviderVerdict(p, channel) = v
  BY <1>1 DEF ProviderVerdict
<1> SUFFICES A!Bears(knownBar, way, v)
  BY <1>2
<1>3. /\ knownBar["Operational"] = KnownAs(channel) /\ knownBar[p.of] = KnownEvent(p.of)
      /\ \A m \in Services : knownBar[m] = KnownService(m)
  BY <1>1, KnownFactsHold DEF KnownFacts, Channels
<1>4. /\ installed \in {"yes", "no", "unknown"} /\ running \in {"yes", "no", "unknown"}
      /\ installed = "yes" \/ running = installed
      /\ host.name \in Services /\ channel \in {"unread", "on", "off", "unknown"}
      /\ SysmonGate = "none" => channel # "unread"
  BY DEF TypeOK, Host, Informed, PolicyStages, Services, Channels, Consults
<1>5. /\ installed = "yes" => \A m \in Services : KnownService(m) = IF m = host.name THEN KnownAs(running) ELSE "good"
      /\ installed # "yes" => \A m \in Services : KnownService(m) = IF m \in Listed THEN "unknown" ELSE GoodBad(m # host.name)
  BY <1>4 DEF KnownService, Listed, Before, Services
<1>6. /\ installed = "no" => Listed \cap Services = {}
      /\ installed = "unknown" => Listed \cap Services # {}
  BY DEF Informed
<1>7. KnownEvent(p.of) = IF dump = Unread THEN IF running = "yes" THEN "unknown" ELSE "unseen"
                         ELSE Logged[evaluate_event_type(dump, p.of)]
  <2>1. <<"empty", "config">>[1] \in {"flags", "empty"}
    OBVIOUS
  <2>2. <<"empty", "config">> \notin faults
    BY <2>1 DEF Usual
  <2> QED
    BY <2>2 DEF KnownEvent
<1>8. "Operational" \in way /\ p.of \in way /\ Services \subseteq way
  BY <1>1
<1>9. p.of \notin Gates
  BY <1>1 DEF EventTypes, Gates, Channels, Subcategories, Services
<1> HIDE DEF p, way, channel
<1>10. CASE SysmonGate = "not_covered"
  <2>1. running = "no"
    BY <1>4, <1>10 DEF SysmonGate
  <2>2. KnownService(host.name) = "bad"
    BY <1>4, <1>5, <1>6, <2>1, KnownAsFacts DEF GoodBad
  <2>3. v = "not_covered"
    BY <1>10 DEF SysmonVerdict
  <2> QED
    BY <1>3, <1>4, <1>8, <2>2, <2>3 DEF A!Bears
<1>11. CASE SysmonGate = "indeterminate"
  <2>1. "unknown" \in {installed, running} \/ (running = "yes" /\ dump = Unread)
    BY <1>4, <1>11 DEF SysmonGate
  <2>2. \E f \in way : knownBar[f] = "unknown"
    <3>1. CASE running = "yes" /\ dump = Unread
      BY <1>3, <1>7, <1>8, <3>1
    <3>2. CASE installed = "unknown"
      BY <1>3, <1>5, <1>6, <1>8, <3>2
    <3>3. CASE installed = "yes" /\ running = "unknown"
      BY <1>3, <1>4, <1>5, <1>8, <3>3, KnownAsFacts
    <3> QED
      BY <1>4, <2>1, <3>1, <3>2, <3>3
  <2>3. v = "indeterminate"
    BY <1>11 DEF SysmonVerdict
  <2> QED
    BY <2>2, <2>3 DEF A!Bears
<1>12. CASE SysmonGate = "none"
  <2>1. installed = "yes" /\ running = "yes" /\ dump # Unread /\ channel \in {"on", "off", "unknown"}
    BY <1>4, <1>12 DEF SysmonGate
  <2>2. \A m \in Services : knownBar[m] = "good"
    BY <1>3, <1>5, <2>1, KnownAsFacts
  <2>3. CASE channel = "off"
    BY <1>3, <1>8, <1>12, <2>3, KnownAsFacts DEF SysmonVerdict, A!Bears
  <2>4. CASE channel = "unknown"
    BY <1>3, <1>8, <1>12, <2>4, KnownAsFacts DEF SysmonVerdict, A!Bears
  <2>5. CASE channel = "on"
    <3>1. v = evaluate_event_type(dump, p.of) /\ knownBar[p.of] = Logged[v]
      BY <1>3, <1>7, <1>12, <2>1, <2>5 DEF SysmonVerdict
    <3>2. v \in {"covered", "degraded", "not_covered", "indeterminate"}
      BY <3>1 DEF evaluate_event_type
    <3>3. knownBar["Operational"] = "good"
      BY <1>3, <2>5, KnownAsFacts
    <3> HIDE DEF v
    <3>4. \A f \in way : knownBar[f] = "good" \/ (f = p.of /\ knownBar[f] = Logged[v])
      BY <1>1, <2>2, <3>1, <3>3
    <3>5. /\ v = "covered" => \A f \in way : knownBar[f] = "good"
          /\ v = "degraded" => \A f \in way : knownBar[f] = "good" \/ (f \notin Gates /\ knownBar[f] = "partial")
          /\ v = "not_covered" => knownBar[p.of] = "bad"
          /\ v = "indeterminate" => knownBar[p.of] = "unknown"
      BY <1>9, <3>1, <3>4 DEF Logged
    <3> QED
      BY <1>8, <3>2, <3>5 DEF A!Bears, A!State
  <2> QED
    BY <2>1, <2>3, <2>4, <2>5
<1> QED
  BY <1>10, <1>11, <1>12 DEF SysmonGate

\* What the program does before the report.
Looking ==
  \/ (ReadPolicy /\ UNCHANGED <<sysmon, run>>)
  \/ (CollectSysmon /\ UNCHANGED <<policy, run>>)
  \/ ((ReadRegistry \/ RegistryFails \/ EvaluateProvider) /\ UNCHANGED <<policy, sysmon>>)

\* It learns.
LEMMA LookingIsLook ==
  ASSUME TypeOK, Accounted, Informed, Looking
  PROVE  Informed' /\ A!Look /\ \A f \in Facts : Learned(f, knownBar[f], knownBar'[f])
<1>0. UNCHANGED host /\ faults \subseteq faults'
  BY FaultsGrow DEF Looking, Program, environment
<1>1. CASE ReadPolicy /\ UNCHANGED <<sysmon, run>>
  <2>1. Informed' /\ UNCHANGED <<installed, running, dump, cmdline, channels, findings>>
    BY <1>0, <1>1, ReadPolicyInforms DEF sysmon, run
  <2>2. pc \in PolicyStages /\ pc' \in PolicyStages \cup {"registry"}
    <3>1. host \in Host /\ privilege \in BOOLEAN /\ states \in [Subcategories -> PolicyState] /\ Cardinality(faults) <= MaxFaults
      BY Zenon DEF TypeOK
    <3> QED
      BY <1>1, <3>1, ReadPolicyType
  <2>3. installed = "unread" /\ dump = Unread
    BY <2>2 DEF Informed, TypeOK, PolicyStages
  <2>4. \A n \in Services : Learned(n, KnownService(n), KnownService(n)')
    BY <2>1, <2>2, <2>3 DEF KnownService, Before, PolicyStages, Learned
  <2>5. \A t \in EventTypes : Learned(t, KnownEvent(t), KnownEvent(t)')
    BY <2>1, <2>2, <2>3, NothingDumped DEF Learned, PolicyStages
  <2>6. \/ states' = states
        \/ \A s \in Subcategories :
             /\ states[s] = "unread"
             /\ states'[s] \in {host.policy[s], "absent", "unknown", "unchanged", "unknown:5"}
    BY <1>1, <2>2, ReadPolicyReads DEF Informed
  <2>7. ChannelsLearned /\ pc # "done"
    BY <2>1, <2>2 DEF ChannelsLearned, PolicyStages
  <2> QED
    BY <1>0, <2>1, <2>4, <2>5, <2>6, <2>7, StepIsLook
<1>2. CASE CollectSysmon /\ UNCHANGED <<policy, run>>
  <2>1. UNCHANGED <<states, cmdline, channels, findings>> /\ ChannelsLearned
    BY <1>2 DEF policy, run, ChannelsLearned
  <2>2. pc # "done"
    BY <1>2, CollectSysmonType DEF TypeOK, Tri, SysmonStages, Services
  <2>3. /\ Informed'
        /\ \A n \in Services : Learned(n, KnownService(n), KnownService(n)')
        /\ \A t \in EventTypes : Learned(t, KnownEvent(t), KnownEvent(t)')
    <3>1. CASE ServiceAbsent \/ ServiceFails
      BY <1>0, <1>2, <3>1, NotFoundInforms, SearchTellsNoEvents
    <3>2. CASE ServiceFound \/ StatusFails
      BY <1>0, <1>2, <3>2, FoundInforms, SearchTellsNoEvents
    <3>3. CASE Locate \/ ImagePathFails \/ ImagePathBlank \/ AskConfig \/ AskFails
      BY <1>0, <1>2, <3>3, AskInforms
    <3> QED
      BY <1>2, <3>1, <3>2, <3>3 DEF CollectSysmon
  <2> QED
    BY <1>0, <2>1, <2>2, <2>3, StepIsLook
<1>3. CASE (ReadRegistry \/ RegistryFails) /\ UNCHANGED <<policy, sysmon>>
  <2>1. /\ Informed' /\ cmdline = "unread" /\ cmdline' \in {OnOff(host.cmdline), "unknown"}
        /\ \A n \in Services : Learned(n, KnownService(n), KnownService(n)')
        /\ \A t \in EventTypes : Learned(t, KnownEvent(t), KnownEvent(t)')
    BY <1>0, <1>3, RegistryInforms DEF Learned
  <2>2. pc # "done" /\ UNCHANGED <<states, findings>> /\ ChannelsLearned
    BY <1>3 DEF ReadRegistry, RegistryFails, ChannelsLearned, policy
  <2> QED
    BY <1>0, <2>1, <2>2, StepIsLook
<1>4. CASE EvaluateProvider /\ UNCHANGED <<policy, sysmon>>
  <2>1. /\ Informed' /\ ChannelsLearned
        /\ \A n \in Services : Learned(n, KnownService(n), KnownService(n)')
        /\ \A t \in EventTypes : Learned(t, KnownEvent(t), KnownEvent(t)')
    BY <1>0, <1>4, EvaluateInforms DEF Learned
  <2>2. pc # "done" /\ UNCHANGED <<states, cmdline, findings>>
    BY <1>4 DEF EvaluateProvider, policy
  <2> QED
    BY <1>0, <2>1, <2>2, StepIsLook
<1> QED
  BY <1>1, <1>2, <1>3, <1>4 DEF Looking

\* Every verdict so far is borne out by what is known.
Borne == Usual => \A n \in DOMAIN outputs : A!Bears(knownBar, Needs(Catalogue[n]), outputs[n])

\* And so would be that of every provider whose channel was read if it has to be.
WouldBear ==
  \A n \in DOMAIN Catalogue :
    (Consults(Catalogue[n]) => channels[Catalogue[n].channel] # "unread") =>
      A!Bears(knownBar, Needs(Catalogue[n]), ProviderVerdict(Catalogue[n], channels[Catalogue[n].channel]))

\* The verdicts are.
LEMMA VerdictsAreBorne ==
  TypeOK /\ Informed /\ Usual /\ pc = "evaluate" => WouldBear
<1> SUFFICES ASSUME TypeOK, Informed, Usual, pc = "evaluate", NEW n \in DOMAIN Catalogue,
                    Consults(Catalogue[n]) => channels[Catalogue[n].channel] # "unread"
             PROVE  A!Bears(knownBar, Needs(Catalogue[n]), ProviderVerdict(Catalogue[n], channels[Catalogue[n].channel]))
  BY DEF WouldBear
<1>1. CASE n \in Audits
  <2>1. Catalogue[n].channel = "Security" /\ Consults(Catalogue[n])
    BY <1>1, NeedsFacts DEF Consults, Audits, Catalogue, Audit, Sysmon
  <2> QED
    BY <1>1, <2>1, AuditIsBorne
<1>2. CASE n \in Sysmons
  <2>1. Catalogue[n].channel = "Operational"
    BY <1>2, NeedsFacts
  <2> QED
    BY <1>2, <2>1, SysmonIsBorne
<1> QED
  BY <1>1, <1>2 DEF Sysmons

\* The same of the next state.
LEMMA NextVerdictsAreBorne ==
  (TypeOK /\ Informed /\ Usual /\ pc = "evaluate" => WouldBear)'
  BY VerdictsAreBorne, PTL

\* What a provider needs are facts.
LEMMA NeedsAreFacts ==
  ASSUME NEW n \in DOMAIN Catalogue
  PROVE  Needs(Catalogue[n]) \in SUBSET Facts
  BY NeedsFacts, KindsOfFact DEF Sysmons, Channels

\* A step that gives no verdict takes nothing from those given.
LEMMA BorneStays ==
  ASSUME TypeOK, Borne, outputs' = outputs, faults \subseteq faults',
         \A f \in Facts : Learned(f, knownBar[f], knownBar'[f])
  PROVE  Borne'
<1>1. \A n \in DOMAIN outputs : n \in DOMAIN Catalogue
  BY DEF TypeOK, Catalogue
<1>2. Usual' => Usual
  BY DEF Usual
<1>3. \A n \in DOMAIN outputs : A!Bears(knownBar, Needs(Catalogue[n]), outputs[n]) =>
                                A!Bears(knownBar', Needs(Catalogue[n]), outputs[n])
  BY <1>1, NeedsAreFacts, BearsStays
<1> QED
  BY <1>2, <1>3 DEF Borne

\* Nor does the one that it gives.
LEMMA EvaluateIsBorne ==
  ASSUME TypeOK, TypeOK', Informed', Borne, EvaluateProvider, UNCHANGED <<policy, sysmon>>, faults \subseteq faults',
         \A f \in Facts : Learned(f, knownBar[f], knownBar'[f])
  PROVE  Borne'
<1>1. PICK n \in DOMAIN Catalogue :
        /\ n = Len(outputs) + 1 /\ Catalogue[n].channel \in Channels
        /\ IF Consults(Catalogue[n]) THEN Channel(Catalogue[n].channel) ELSE UNCHANGED <<channels, errors, faults>>
        /\ outputs' = Append(outputs, ProviderVerdict(Catalogue[n], channels'[Catalogue[n].channel]))
  BY EvaluateProviderType
<1> DEFINE p == Catalogue[n]
           v == ProviderVerdict(p, channels'[p.channel])
<1>2. channels \in [Channels -> ChannelState] /\ outputs \in Seq(Verdict) /\ Cardinality(faults) <= MaxFaults
  BY Zenon DEF TypeOK, ChannelState
<1>3. /\ DOMAIN outputs' = DOMAIN outputs \cup {n} /\ outputs'[n] = v
      /\ \A m \in DOMAIN outputs : outputs'[m] = outputs[m] /\ m \in DOMAIN Catalogue
  BY <1>1, <1>2 DEF TypeOK, Catalogue
<1>4. ASSUME Usual' PROVE A!Bears(knownBar', Needs(p), v)
  <2>1. pc' = "evaluate" /\ UNCHANGED <<states, cmdline, installed, running, dump>>
    BY DEF EvaluateProvider, policy, sysmon
  <2>2. WouldBear'
    BY <1>4, <2>1, NextVerdictsAreBorne
  <2>3. /\ \A c : ProviderVerdict(p, c)' = ProviderVerdict(p, c)
        /\ Consults(p)' <=> Consults(p)
    BY <2>1 DEF ProviderVerdict, SysmonVerdict, Consults, SysmonGate
  <2>4. Consults(p)' => channels'[p.channel] # "unread"
    BY <1>1, <1>2, <2>3, ChannelType
  <2> QED
    BY <2>2, <2>3, <2>4 DEF WouldBear
<1>5. Usual' => Usual
  BY DEF Usual
<1>6. ASSUME NEW m \in DOMAIN outputs, Usual PROVE A!Bears(knownBar', Needs(Catalogue[m]), outputs'[m])
  <2>1. m \in DOMAIN Catalogue /\ outputs'[m] = outputs[m] /\ A!Bears(knownBar, Needs(Catalogue[m]), outputs[m])
    BY <1>3, <1>6 DEF Borne
  <2> QED
    BY <2>1, NeedsAreFacts, BearsStays
<1> HIDE DEF p, v
<1> QED
  BY <1>3, <1>4, <1>5, <1>6 DEF Borne, p

\* If every provider has its verdict, so has each requirement; the best of them decides.
LEMMA BestIsJustified ==
  ASSUME TypeOK, Borne, Usual, Len(outputs) = Len(Catalogue), NEW q \in Requirement,
         NEW v, v = resolve_provider_disjunction([n \in ProvidersOf(q) |-> outputs[n]])
  PROVE  /\ \E way \in WaysOf(q) : A!Bears(knownBar, way, v)
         /\ v \in {"degraded", "not_covered"} =>
              \A way \in WaysOf(q) : A!Bears(knownBar, way, v) \/ A!Bears(knownBar, way, "not_covered")
<1>1. /\ \E n \in ProvidersOf(q) : outputs[n] = v
      /\ v = "not_covered" => \A n \in ProvidersOf(q) : outputs[n] = "not_covered"
      /\ v = "degraded" => \A n \in ProvidersOf(q) : outputs[n] \in {"degraded", "not_covered"}
  BY FindingType DEF TypeOK
<1>2. \A n \in ProvidersOf(q) : n \in DOMAIN outputs
  BY ProvidersExist DEF TypeOK, Catalogue
<1>3. \A n \in ProvidersOf(q) : A!Bears(knownBar, Needs(Catalogue[n]), outputs[n])
  BY <1>2 DEF Borne
<1>4. \A way : way \in WaysOf(q) <=> \E n \in ProvidersOf(q) : way = Needs(Catalogue[n])
  BY DEF WaysOf
<1>5. \E way \in WaysOf(q) : A!Bears(knownBar, way, v)
  <2>1. PICK n \in ProvidersOf(q) : outputs[n] = v
    BY <1>1
  <2> QED
    BY <1>3, <1>4, <2>1
<1>6. ASSUME v \in {"degraded", "not_covered"}, NEW way \in WaysOf(q)
      PROVE  A!Bears(knownBar, way, v) \/ A!Bears(knownBar, way, "not_covered")
  <2>1. PICK n \in ProvidersOf(q) : way = Needs(Catalogue[n])
    BY <1>4
  <2>2. outputs[n] \in {v, "not_covered"}
    BY <1>1, <1>6
  <2> QED
    BY <1>3, <2>1, <2>2
<1> QED
  BY <1>5, <1>6

\* The report publishes what is justified, if nothing unusual has happened.
LEMMA ReportIsPublish ==
  ASSUME TypeOK, TypeOK', Borne, Report, UNCHANGED <<policy, sysmon>>
  PROVE  [A!Next]_A!vars /\ knownBar' = knownBar
<1>1. /\ pc = "evaluate" /\ pc' = "done" /\ Len(outputs) = Len(Catalogue)
      /\ UNCHANGED <<host, faults, errors, states, installed, running, dump, cmdline, channels>>
      /\ findings' = [q \in Requirement |-> resolve_provider_disjunction([n \in ProvidersOf(q) |-> outputs[n]])]
  BY DEF Report, environment, policy, sysmon
<1>2. knownBar' = knownBar
  BY <1>1, KnownStays
<1>3. truthBar' = truthBar
  BY <1>1, TruthStays DEF truthBar
<1>4. Usual' <=> Usual
  BY <1>1 DEF Usual
<1>5. CASE Usual
  <2>1. findings = A!Unpublished
    BY <1>1 DEF TypeOK, A!Unpublished
  <2>2. findings' \in [Requirement -> A!Verdict]
    BY <1>1 DEF TypeOK, Verdict, A!Verdict
  <2>3. \A q \in Requirement :
          /\ \E way \in WaysOf(q) : A!Bears(knownBar, way, findings'[q])
          /\ findings'[q] \in {"degraded", "not_covered"} =>
               \A way \in WaysOf(q) : A!Bears(knownBar, way, findings'[q]) \/ A!Bears(knownBar, way, "not_covered")
    <3> SUFFICES ASSUME NEW q \in Requirement
                 PROVE  /\ \E way \in WaysOf(q) : A!Bears(knownBar, way, findings'[q])
                        /\ findings'[q] \in {"degraded", "not_covered"} =>
                             \A way \in WaysOf(q) :
                               A!Bears(knownBar, way, findings'[q]) \/ A!Bears(knownBar, way, "not_covered")
      OBVIOUS
    <3>1. findings'[q] = resolve_provider_disjunction([n \in ProvidersOf(q) |-> outputs[n]])
      BY <1>1
    <3> QED
      BY <1>1, <1>5, <3>1, BestIsJustified
  <2>4. A!Justified(findings', knownBar)
    BY <2>3 DEF A!Justified
  <2>5. A!Publish
    BY <1>2, <1>3, <1>4, <1>5, <2>1, <2>2, <2>4 DEF A!Publish, A!Unpublished, truthBar
  <2> QED
    BY <1>2, <2>5 DEF A!Next
<1>6. CASE ~Usual
  BY <1>2, <1>3, <1>4, <1>6 DEF A!vars, truthBar
<1> QED
  BY <1>2, <1>5, <1>6

\* Every step of a run is one of Attestation, or changes nothing that it speaks of.
LEMMA NextAttests ==
  TypeOK /\ TypeOK' /\ Accounted /\ Informed /\ Borne /\ [Next]_vars => Informed' /\ Borne' /\ [A!Next]_A!vars
<1> SUFFICES ASSUME TypeOK, TypeOK', Accounted, Informed, Borne, [Next]_vars
             PROVE  Informed' /\ Borne' /\ [A!Next]_A!vars
  OBVIOUS
<1>1. CASE Administrator /\ UNCHANGED <<policy, sysmon, run>>
  <2>1. A!HostChanges
    BY <1>1, HostIsHost
  <2>2. UNCHANGED <<faults, pc, errors, states, installed, running, cmdline, outputs>>
    BY <1>1, AdministratorType DEF TypeOK, policy, sysmon, run
  <2>3. knownBar' = knownBar
    BY <2>1 DEF A!HostChanges
  <2> QED
    BY <2>1, <2>2, <2>3, BorneStays DEF Informed, Listed, Usual, Learned, A!Next
<1>2. CASE UNCHANGED vars
  <2>1. UNCHANGED <<host, faults, pc, errors, states, installed, running, dump, cmdline, channels, outputs, findings>>
    BY <1>2 DEF vars
  <2>2. knownBar' = knownBar /\ truthBar' = truthBar /\ (Usual' <=> Usual)
    BY <2>1, KnownStays, TruthStays DEF truthBar, Usual
  <2> QED
    BY <2>1, <2>2, BorneStays DEF Informed, Listed, Usual, Learned, A!vars, truthBar
<1>3. CASE Report /\ UNCHANGED <<policy, sysmon>>
  <2>1. [A!Next]_A!vars /\ knownBar' = knownBar
    BY <1>3, ReportIsPublish
  <2>2. /\ pc = "evaluate" /\ pc' = "done"
        /\ UNCHANGED <<faults, errors, states, installed, running, cmdline, outputs>>
    BY <1>3 DEF Report, policy, sysmon
  <2>3. Informed'
    BY <2>2 DEF Informed, Listed, Usual, PolicyStages, Services
  <2> QED
    BY <2>1, <2>2, <2>3, BorneStays DEF Learned
<1>4. CASE Looking
  <2>1. Informed' /\ A!Look /\ \A f \in Facts : Learned(f, knownBar[f], knownBar'[f])
    BY <1>4, LookingIsLook
  <2>2. faults \subseteq faults'
    BY <1>4, FaultsGrow DEF Looking, Program
  <2>3. Borne'
    <3>1. CASE EvaluateProvider /\ UNCHANGED <<policy, sysmon>>
      BY <2>1, <2>2, <3>1, EvaluateIsBorne
    <3>2. CASE outputs' = outputs
      BY <2>1, <2>2, <3>2, BorneStays
    <3> QED
      BY <1>4, <3>1, <3>2 DEF Looking, ReadRegistry, RegistryFails, run
  <2> QED
    BY <2>1, <2>3 DEF A!Next
<1> QED
  BY <1>1, <1>2, <1>3, <1>4 DEF Next, Program, Looking

\* Nothing is known at the start.
LEMMA InitAttests ==
  Init => Borne /\ A!Init
<1> SUFFICES ASSUME Init PROVE Borne /\ A!Init
  OBVIOUS
<1>1. /\ pc = "query" /\ errors = <<>> /\ installed = "unread" /\ dump = Unread /\ cmdline = "unread"
      /\ \A s \in Subcategories : states[s] = "unread"
      /\ \A c \in Channels : channels[c] = "unread"
      /\ outputs = <<>> /\ findings = A!Unpublished
  BY DEF Init, InitHost, InitPolicy, InitSysmon, A!Unpublished
<1>2. \A n \in Services : KnownService(n) = "unseen"
  BY <1>1 DEF KnownService, Before
<1>3. \A t \in EventTypes : KnownEvent(t) = "unseen"
  BY <1>1, NothingDumped
<1>4. \A f \in Facts : knownBar[f] = "unseen"
  BY <1>1, <1>2, <1>3, KindsOfFact, KnownFactsHold, KnownAsFacts DEF KnownFacts
<1>5. knownBar = [f \in Facts |-> "unseen"]
  BY <1>4, KnownFactsHold DEF KnownFacts
<1>6. truthBar \in [Facts -> A!State]
  BY InitType, TruthType
<1>7. A!Init
  BY <1>1, <1>5, <1>6 DEF A!Init, A!Unpublished, truthBar
<1>8. Borne
  BY <1>1 DEF Borne
<1> QED
  BY <1>7, <1>8

\* Every run keeps the promise of Attestation: whatever the hosts, the configurations of Sysmon,
\* the changes to the host and the failures, each fact is looked at once, with the truth of that
\* moment or nothing, and the report of a usual run is borne out by what was learned.
THEOREM AttestedHolds ==
  Spec => Attested
  BY InitType, NextType, InitAccounted, NextAccounted, InitInformed, InitAttests, NextAttests, PTL
     DEF Spec, Attested, A!Spec
=============================================================================
