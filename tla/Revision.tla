------------------------------ MODULE Revision ------------------------------
(***************************************************************************)
(* PR values and the table they are kept in: prserv/__init__.py and the    *)
(* queries of prserv/db.py.  A value "1.2.3" is the sequence <<1, 2, 3>>,  *)
(* a table the set of its [checksum, value] rows for one version and       *)
(* pkgarch (rows of other packages are never compared with these).         *)
(***************************************************************************)
EXTENDS Integers, Sequences, SequencesExt, FiniteSetsExt

None == <<>>    \* no value

-----------------------------------------------------------------------------
(* The order the values are meant to have: field by field, as numbers, and *)
(* a value comes before those that extend it.                              *)

Differ(a, b) == {i \in DOMAIN a \cap DOMAIN b : a[i] # b[i]}
Lower(a, b) ==
    IF Differ(a, b) = {} THEN Len(a) < Len(b)
    ELSE LET i == Min(Differ(a, b)) IN a[i] < b[i]

-----------------------------------------------------------------------------
(* prserv/__init__.py *)

\* increase_revision
Increase(v) == [v EXCEPT ![Len(v)] = @ + 1]

\* _revision_greater_or_equal: true if one value extends the other.
GreaterOrEqual(a, b) ==
    LET d == Differ(a, b) IN d = {} \/ a[Min(d)] > b[Min(d)]

Smaller(a, b) == ~GreaterOrEqual(a, b)
Greater(a, b) == GreaterOrEqual(a, b) /\ a # b

\* Python's > on the strings: the dot comes before the digits, and numbers of
\* several digits are compared digit by digit.
MaxField == 99
Digits(n) == IF n < 10 THEN <<n>> ELSE <<n \div 10, n % 10>>
Text(v) == FoldLeft(LAMBDA text, n : text \o <<-1>> \o Digits(n), <<>>, v)
TextGreater(a, b) == Lower(Text(b), Text(a))

-----------------------------------------------------------------------------
(* prserv/db.py.  SQLite reads the rows from the index of the primary key. *)

Before(r, s) ==
    \/ r.checksum < s.checksum
    \/ r.checksum = s.checksum /\ TextGreater(s.value, r.value)
LastRow(rows) == CHOOSE s \in rows : \A r \in rows \ {s} : Before(r, s)

\* _extremum_value: the rows one after the other.
Extremum(rows, Better(_, _)) ==
    MapThenFoldSet(LAMBDA value, best :
                       IF best = None \/ Better(value, best) THEN value ELSE best,
                   None, LAMBDA r : r.value, LastRow, rows)

MaxValue(rows) == Extremum(rows, Greater)
MinValue(rows) == Extremum(rows, Smaller)

Of(rows, checksum) == {r \in rows : r.checksum = checksum}

\* Faulty variant: the newest value, whatever the mode.
FindValueMax(rows, checksum, history) == MaxValue(Of(rows, checksum))

FindValue(rows, checksum, history) ==
    IF history THEN MinValue(Of(rows, checksum)) ELSE MaxValue(Of(rows, checksum))

\* find_new_subvalue: value LIKE 'base.%'
FindNewSubvalue(rows, base) ==
    LET max == MaxValue({r \in rows : IsStrictPrefix(base, r.value)})
    IN  IF max = None THEN Append(base, 0) ELSE Increase(max)

\* Faulty variant: a new checksum shares the greatest value.
NextValueShares(rows, checksum, history) ==
    LET max == MaxValue(rows)
        value == FindValue(rows, checksum, history)
    IN  IF max = None THEN <<0>> ELSE IF value = None THEN max ELSE value

\* Faulty variant: an older value is good enough.
NextValueKeeps(rows, checksum, history) ==
    LET max == MaxValue(rows)
        value == FindValue(rows, checksum, history)
    IN  IF max = None THEN <<0>> ELSE IF value = None THEN Increase(max) ELSE value

\* _get_value.  The last comparison is one of strings.
NextValue(rows, checksum, history) ==
    LET max == MaxValue(rows)
        value == FindValue(rows, checksum, history)
    IN  CASE max = None -> <<0>>
          [] max # None /\ value = None -> Increase(max)
          [] value # None /\ ~history /\ TextGreater(max, value) -> Increase(max)
          [] OTHER -> value
=============================================================================
