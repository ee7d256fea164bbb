----------------------------- MODULE PagingProofs -----------------------------
(***************************************************************************)
(* Theorems about Paging, for any number of rows, any page size and any    *)
(* writes between two pages: type correctness, and which rows a walk       *)
(* cannot skip and cannot repeat.                                          *)
(*                                                                         *)
(* A row that is level with no other has the same place in every result of *)
(* the query: one more than its rank, the number of rows ahead of it.  The *)
(* offset of an open walk cuts the steady rows by their rank: as long as   *)
(* no row left its place the unlisted ones are at or past it, and as long  *)
(* as no row came to an earlier one the listed ones are before it.         *)
(***************************************************************************)
EXTENDS Paging, FunctionTheorems, FiniteSetTheorems, SequenceTheorems, TLAPS

(* The rows ahead of r in the query over the rows t, and how many. *)
Ahead(t, r) == {x \in Matching(t) : Before(t[x], t[r])}
Rank(t, r) == Cardinality(Ahead(t, r))

In(s, r) == \E i \in DOMAIN s : s[i] = r
Once(s, r) == \A i, j \in DOMAIN s : s[i] = r /\ s[j] = r => i = j

-----------------------------------------------------------------------------
(* The query. *)

(* The rows a listing is over. *)
Listable == IF ListsEvents THEN Event ELSE Session

LEMMA ColumnType ==
    ASSUME NEW row \in Listable
    PROVE  Column(row) \in Int
<1>1. CASE ListsEvents
    BY <1>1, MicroAssumption DEF Listable, Column, Truncate, Event
<1>2. CASE ~ListsEvents
    <2>1. OrderBy.column \in {"createTime", "updateTime"}
        BY <1>2 DEF OrderBy, applySessionOrderBy
    <2>2. QED
        BY <1>2, <2>1 DEF Listable, Column, Session
<1>3. QED
    BY <1>1, <1>2

(* Before orders rows strictly, and any two whose columns differ. *)
LEMMA BeforeOrders ==
    ASSUME NEW a \in Listable, NEW b \in Listable
    PROVE  /\ ~Before(a, a)
           /\ Before(a, b) => ~Before(b, a)
           /\ Column(a) # Column(b) => Before(a, b) \/ Before(b, a)
           /\ \A c \in Listable : Before(a, b) /\ ~Before(a, c) => Before(c, b)
BY ColumnType DEF Before

(* A matching row is one of the listing's. *)
LEMMA MatchingListable ==
    ASSUME NEW t \in [Row -> Listable \cup {NoRow}]
    PROVE  /\ \A r \in Matching(t) : r \in Row /\ t[r] \in Listable
           /\ IsFiniteSet(Matching(t))
BY FS_Subset, BoundAssumption DEF Matching, Matches

LEMMA RankType ==
    ASSUME NEW t \in [Row -> Listable \cup {NoRow}], NEW r
    PROVE  IsFiniteSet(Ahead(t, r)) /\ Rank(t, r) \in Nat
<1>1. Ahead(t, r) \in SUBSET Matching(t)
    BY DEF Ahead
<1>2. QED
    BY <1>1, MatchingListable, FS_Subset, FS_CardinalityType DEF Rank

(* A result has every matching row, and each once. *)
LEMMA ResultComplete ==
    ASSUME table \in [Row -> Listable \cup {NoRow}], NEW result \in Results
    PROVE  /\ result \in Seq(Row) /\ Len(result) \in Nat
           /\ \A i \in 1 .. Len(result) : result[i] \in Matching(table)
           /\ \A i, j \in 1 .. Len(result) : result[i] = result[j] => i = j
           /\ \A i, j \in 1 .. Len(result) :
                 i < j => ~Before(table[result[j]], table[result[i]])
           /\ \A r \in Matching(table) : \E i \in 1 .. Len(result) : result[i] = r
<1> DEFINE M == Matching(table)
           n == Cardinality(M)
<1>1. IsFiniteSet(M) /\ n \in Nat /\ M \subseteq Row
    BY MatchingListable, FS_CardinalityType
<1>2. /\ result \in [1 .. n -> M]
      /\ \A i, j \in 1 .. n :
            i < j => result[i] # result[j] /\ ~Before(table[result[j]], table[result[i]])
    BY DEF Results
<1>3. result \in Seq(Row) /\ Len(result) = n
    BY <1>1, <1>2
<1>4. result \in Injection(1 .. n, M)
    BY <1>1, <1>2 DEF Injection, IsInjective
<1>5. Cardinality(1 .. n) = n
    BY <1>1, FS_Interval
<1>6. result \in Surjection(1 .. n, M)
    BY <1>1, <1>4, <1>5, FS_Injection
<1>7. QED
    BY <1>1, <1>2, <1>3, <1>6 DEF Surjection

(* The place of a row that is level with no other. *)
LEMMA PlaceIsRank ==
    ASSUME table \in [Row -> Listable \cup {NoRow}], NEW result \in Results,
           NEW r \in Separate(table), NEW i \in 1 .. Len(result), result[i] = r
    PROVE  i = Rank(table, r) + 1
<1> DEFINE f == [j \in 1 .. i - 1 |-> result[j]]
<1>1. r \in Matching(table) /\ table[r] \in Listable
    BY MatchingListable DEF Separate
<1>2. \A j \in 1 .. Len(result) :
         j # i => result[j] \in Matching(table) \ {r} /\ table[result[j]] \in Listable
    BY ResultComplete, MatchingListable
<1>3. \A j \in 1 .. Len(result) : j < i => Before(table[result[j]], table[r])
    <2> SUFFICES ASSUME NEW j \in 1 .. Len(result), j < i
                 PROVE  Before(table[result[j]], table[r])
        OBVIOUS
    <2>1. Column(table[r]) # Column(table[result[j]])
        BY <1>2 DEF Separate
    <2>2. ~Before(table[r], table[result[j]])
        BY ResultComplete
    <2>3. QED
        BY <1>1, <1>2, <2>1, <2>2, BeforeOrders
<1>4. \A j \in 1 .. Len(result) : j >= i => ~Before(table[result[j]], table[r])
    <2> SUFFICES ASSUME NEW j \in 1 .. Len(result), j >= i
                 PROVE  ~Before(table[result[j]], table[r])
        OBVIOUS
    <2>1. CASE j = i
        BY <1>1, <2>1, BeforeOrders
    <2>2. CASE j # i
        <3>1. i < j
            BY <2>2, ResultComplete
        <3>2. QED
            BY <3>1, ResultComplete
    <2>3. QED
        BY <2>1, <2>2
<1>5. f \in Bijection(1 .. i - 1, Ahead(table, r))
    <2>1. \A j \in 1 .. i - 1 : j \in 1 .. Len(result) /\ j < i
        BY ResultComplete
    <2>2. f \in [1 .. i - 1 -> Ahead(table, r)]
        BY <1>2, <1>3, <2>1, ResultComplete DEF Ahead
    <2>3. \A j, k \in 1 .. i - 1 : f[j] = f[k] => j = k
        BY <2>1, ResultComplete
    <2>4. \A x \in Ahead(table, r) : \E j \in 1 .. i - 1 : f[j] = x
        <3> SUFFICES ASSUME NEW x \in Ahead(table, r)
                     PROVE  \E j \in 1 .. i - 1 : f[j] = x
            OBVIOUS
        <3>1. PICK j \in 1 .. Len(result) : result[j] = x
            BY ResultComplete DEF Ahead
        <3>2. j < i
            BY <1>4, <3>1, ResultComplete DEF Ahead
        <3>3. QED
            BY <3>1, <3>2
    <2>5. QED
        BY <2>2, <2>3, <2>4, Fun_IsBij
<1>6. i \in Nat \ {0} /\ i - 1 \in Int
    BY ResultComplete
<1>7. IsFiniteSet(1 .. i - 1) /\ Cardinality(1 .. i - 1) = i - 1
    <2>1. /\ IsFiniteSet(1 .. i - 1)
          /\ Cardinality(1 .. i - 1) = IF 1 > i - 1 THEN 0 ELSE (i - 1) - 1 + 1
        BY <1>6, 1 \in Int, FS_Interval, Zenon
    <2>2. QED
        BY <1>6, <2>1
<1>8. ExistsBijection(1 .. i - 1, Ahead(table, r))
    BY <1>5, Fun_ExistsBij
<1>9. Cardinality(Ahead(table, r)) = i - 1
    BY <1>7, <1>8, FS_Bijection
<1>10. QED
    BY <1>6, <1>9 DEF Rank

-----------------------------------------------------------------------------
(* A page. *)

(* A part of a sequence from its start. *)
LEMMA Prefix ==
    ASSUME NEW S, NEW s, NEW n \in Nat, \A i \in 1 .. n : s[i] \in S
    PROVE  /\ SubSeq(s, 1, n) \in Seq(S) /\ Len(SubSeq(s, 1, n)) = n
           /\ \A i \in 1 .. n : SubSeq(s, 1, n)[i] = s[i]
<1>1. /\ SubSeq(s, 1, n) \in Seq(S)
      /\ Len(SubSeq(s, 1, n)) = IF 1 <= n THEN n - 1 + 1 ELSE 0
      /\ \A i \in 1 .. n - 1 + 1 : SubSeq(s, 1, n)[i] = s[1 + i - 1]
    BY SubSeqProperties
<1>2. n - 1 + 1 = n /\ (~(1 <= n) => n = 0) /\ \A i \in 1 .. n : 1 + i - 1 = i
    OBVIOUS
<1>3. QED
    BY <1>1, <1>2, Zenon

(* The page of a query is the part of its result from the offset on, as    *)
(* far as the page size goes, and there is a token exactly if there is     *)
(* more.                                                                   *)
LEMMA PageIsWindow ==
    ASSUME NEW result \in Seq(Row), NEW size \in Nat \ {0}, NEW from \in Nat
    PROVE  LET rows == Limited(result, size + 1, from)
               page == Page(rows, size)
           IN /\ page \in Seq(Row)
              /\ \A k \in 1 .. Len(page) :
                    k <= size /\ from + k \in 1 .. Len(result) /\ page[k] = result[from + k]
              /\ \A i \in 1 .. Len(result) :
                    from < i /\ i <= from + size => i - from \in 1 .. Len(page)
              /\ Len(rows) > size <=> Len(result) > from + size
<1> DEFINE rows == Limited(result, size + 1, from)
           page == Page(rows, size)
           last == IF from + (size + 1) < Len(result) THEN from + (size + 1) ELSE Len(result)
<1>1. Len(result) \in Nat /\ last \in Int /\ last <= Len(result) /\ last <= from + size + 1
    BY LenProperties
<1>2. \A i \in from + 1 .. last : result[i] \in Row
    BY <1>1, ElementOfSeq
<1>3. /\ rows \in Seq(Row)
      /\ Len(rows) = IF from + 1 <= last THEN last - from ELSE 0
      /\ \A i \in 1 .. last - from : rows[i] = result[from + i]
    <2>1. rows = SubSeq(result, from + 1, last)
        BY DEF Limited
    <2> HIDE DEF rows, last
    <2>2. from + 1 \in Int /\ last - (from + 1) + 1 = last - from
        BY <1>1
    <2>3. /\ rows \in Seq(Row)
          /\ Len(rows) = IF from + 1 <= last THEN last - (from + 1) + 1 ELSE 0
          /\ \A i \in 1 .. last - (from + 1) + 1 : rows[i] = result[(from + 1) + i - 1]
        BY <1>1, <1>2, <2>1, <2>2, SubSeqProperties
    <2>4. \A i \in 1 .. last - from : (from + 1) + i - 1 = from + i
        BY <1>1
    <2>5. QED
        BY <2>2, <2>3, <2>4
<1>4. /\ page \in Seq(Row)
      /\ Len(page) = IF Len(rows) > size THEN size ELSE Len(rows)
      /\ \A i \in 1 .. Len(page) : page[i] = rows[i]
    <2>1. CASE Len(rows) > size
        <3>1. \A i \in 1 .. size : rows[i] \in Row
            BY <1>3, <2>1, ElementOfSeq
        <3>2. page = SubSeq(rows, 1, size)
            BY <2>1 DEF Page
        <3>3. /\ page \in Seq(Row) /\ Len(page) = size
              /\ \A i \in 1 .. size : page[i] = rows[i]
            <4> HIDE DEF rows, page
            <4>1. QED
                BY <3>1, <3>2, Prefix
        <3>4. QED
            BY <2>1, <3>3
    <2>2. CASE ~(Len(rows) > size)
        BY <1>3, <2>2 DEF Page
    <2>3. QED
        BY <2>1, <2>2
<1>5. last = IF from + size < Len(result) THEN last ELSE Len(result)
    BY <1>1
<1>6. from + size < Len(result) => last = from + size + 1
    BY <1>1
<1> HIDE DEF rows, page, last
<1>7. Len(rows) > size <=> Len(result) > from + size
    BY <1>1, <1>3, <1>5, <1>6
<1>8. \A k \in 1 .. Len(page) :
         k <= size /\ from + k \in 1 .. Len(result) /\ page[k] = result[from + k]
    BY <1>1, <1>3, <1>4
<1>9. \A i \in 1 .. Len(result) :
         from < i /\ i <= from + size => i - from \in 1 .. Len(page)
    BY <1>1, <1>3, <1>4, <1>5, <1>6
<1>10. QED
    BY <1>4, <1>7, <1>8, <1>9 DEF rows, page

LEMMA PageSizeType ==
    ASSUME NEW size \in Int
    PROVE  normalizePageSize(size) \in Nat \ {0}
BY PageSizeAssumption DEF normalizePageSize

(* What stays and what comes when a page is added to the listed rows. *)
LEMMA InConcat ==
    ASSUME NEW s \in Seq(Row), NEW t \in Seq(Row), NEW r
    PROVE  /\ s \o t \in Seq(Row)
           /\ In(s \o t, r) <=> In(s, r) \/ In(t, r)
           /\ Once(s, r) /\ Once(t, r) /\ ~(In(s, r) /\ In(t, r)) => Once(s \o t, r)
<1> DEFINE u == s \o t
<1>1. /\ u \in Seq(Row)
      /\ Len(u) = Len(s) + Len(t) /\ Len(s) \in Nat /\ Len(t) \in Nat
      /\ \A i \in 1 .. Len(s) + Len(t) :
            u[i] = IF i <= Len(s) THEN s[i] ELSE t[i - Len(s)]
    BY ConcatProperties, LenProperties
<1>2. /\ DOMAIN u = 1 .. Len(u) /\ DOMAIN s = 1 .. Len(s) /\ DOMAIN t = 1 .. Len(t)
    BY <1>1, LenProperties
<1> HIDE DEF u
<1>3. \A i \in DOMAIN s : i \in DOMAIN u /\ u[i] = s[i]
    BY <1>1, <1>2
<1>4. \A i \in DOMAIN t : Len(s) + i \in DOMAIN u /\ u[Len(s) + i] = t[i]
    BY <1>1, <1>2
<1>5. \A i \in DOMAIN u :
         \/ i \in DOMAIN s /\ u[i] = s[i]
         \/ i - Len(s) \in DOMAIN t /\ u[i] = t[i - Len(s)]
    BY <1>1, <1>2
<1>6. In(u, r) <=> In(s, r) \/ In(t, r)
    BY <1>3, <1>4, <1>5 DEF In
<1>7. Once(s, r) /\ Once(t, r) /\ ~(In(s, r) /\ In(t, r)) => Once(u, r)
    <2> SUFFICES ASSUME Once(s, r), Once(t, r), ~(In(s, r) /\ In(t, r)),
                        NEW i \in DOMAIN u, NEW j \in DOMAIN u, u[i] = r, u[j] = r
                 PROVE  i = j
        BY DEF Once
    <2>1. CASE i \in DOMAIN s /\ u[i] = s[i] /\ j \in DOMAIN s /\ u[j] = s[j]
        BY <2>1 DEF Once
    <2>2. CASE /\ i - Len(s) \in DOMAIN t /\ u[i] = t[i - Len(s)]
               /\ j - Len(s) \in DOMAIN t /\ u[j] = t[j - Len(s)]
        <3>1. i - Len(s) = j - Len(s)
            BY <2>2 DEF Once
        <3>2. QED
            BY <1>1, <1>2, <3>1
    <2>3. QED
        BY <1>5, <2>1, <2>2 DEF In
<1>8. QED
    BY <1>1, <1>6, <1>7 DEF u

(* What a call adds: the rows whose rank is between its offset and the one *)
(* of its token, each once; without a token there is no rank past that.    *)
LEMMA ListEffect ==
    ASSUME PagingTypeOK, NEW from \in Nat, NEW before \in Seq(Row), List(from, before)
    PROVE  \E size \in Nat \ {0} :
              /\ listed' \in Seq(Row)
              /\ \/ status' = "open" /\ offset' = from + size
                 \/ status' = "idle" /\ offset' = 0
              /\ \A r \in Separate(table) :
                    LET rank == Rank(table, r)
                    IN /\ In(listed', r) <=> In(before, r) \/ (from <= rank /\ rank < from + size)
                       /\ Once(before, r) /\ (In(before, r) => rank < from) => Once(listed', r)
                       /\ status' = "idle" => rank < from + size
<1> DEFINE size == normalizePageSize(request.pageSize)
<1>1. size \in Nat \ {0}
    BY PageSizeType, RequestAssumption DEF PagingTypeOK
<1>2. table \in [Row -> Listable \cup {NoRow}]
    BY DEF PagingTypeOK, Listable
<1>3. PICK result \in Results :
          LET rows == Limited(result, size + 1, from)
          IN /\ listed' = before \o Page(rows, size)
             /\ IF Len(rows) > size
                THEN status' = "open" /\ offset' = from + size
                ELSE status' = "idle" /\ offset' = 0
    BY DEF List, NextOffset
<1> DEFINE rows == Limited(result, size + 1, from)
           page == Page(rows, size)
<1> HIDE DEF size
<1>4. /\ result \in Seq(Row) /\ Len(result) \in Nat
      /\ \A i, j \in 1 .. Len(result) : result[i] = result[j] => i = j
      /\ \A r \in Matching(table) : \E i \in 1 .. Len(result) : result[i] = r
    BY <1>2, ResultComplete
<1>5. /\ page \in Seq(Row)
      /\ \A k \in 1 .. Len(page) :
            k <= size /\ from + k \in 1 .. Len(result) /\ page[k] = result[from + k]
      /\ \A i \in 1 .. Len(result) :
            from < i /\ i <= from + size => i - from \in 1 .. Len(page)
      /\ status' = "idle" => Len(result) <= from + size
      /\ \/ status' = "open" /\ offset' = from + size
         \/ status' = "idle" /\ offset' = 0
    <2>1. /\ page \in Seq(Row)
          /\ \A k \in 1 .. Len(page) :
                k <= size /\ from + k \in 1 .. Len(result) /\ page[k] = result[from + k]
          /\ \A i \in 1 .. Len(result) :
                from < i /\ i <= from + size => i - from \in 1 .. Len(page)
          /\ Len(rows) > size <=> Len(result) > from + size
        BY <1>1, <1>4, PageIsWindow
    <2>2. IF Len(rows) > size THEN status' = "open" /\ offset' = from + size
                              ELSE status' = "idle" /\ offset' = 0
        BY <1>3
    <2> HIDE DEF rows, page
    <2>3. QED
        BY <1>1, <1>4, <2>1, <2>2
<1>6. listed' = before \o page
    BY <1>3
<1> HIDE DEF page
<1>7. Len(page) \in Nat /\ DOMAIN page = 1 .. Len(page)
    BY <1>5, LenProperties
<1>8. ASSUME NEW r \in Separate(table)
      PROVE  /\ In(page, r) <=> from <= Rank(table, r) /\ Rank(table, r) < from + size
             /\ Once(page, r)
             /\ status' = "idle" => Rank(table, r) < from + size
    <2>1. PICK i \in 1 .. Len(result) : result[i] = r
        BY <1>4 DEF Separate
    <2>2. i = Rank(table, r) + 1 /\ Rank(table, r) \in Nat
        BY <1>2, <2>1, PlaceIsRank, RankType
    <2>3. \A k \in 1 .. Len(page) : page[k] = r => from + k = i
        BY <1>4, <1>5, <2>1
    <2>4. In(page, r) => from <= Rank(table, r) /\ Rank(table, r) < from + size
        BY <1>1, <1>5, <1>7, <2>2, <2>3 DEF In
    <2>5. ASSUME from <= Rank(table, r), Rank(table, r) < from + size
          PROVE  In(page, r)
        <3>1. i - from \in 1 .. Len(page)
            BY <1>1, <1>5, <2>2, <2>5
        <3>2. page[i - from] = result[from + (i - from)] /\ from + (i - from) = i
            BY <1>5, <2>2, <3>1
        <3>3. QED
            BY <1>7, <2>1, <3>1, <3>2 DEF In
    <2>6. Once(page, r)
        BY <1>7, <2>3 DEF Once
    <2>7. status' = "idle" => Rank(table, r) < from + size
        BY <1>1, <1>4, <1>5, <2>2
    <2>8. QED
        BY <2>4, <2>5, <2>6, <2>7
<1>9. \A r \in Separate(table) : Rank(table, r) \in Nat
    BY <1>2, RankType
<1>10. ASSUME NEW r \in Separate(table)
       PROVE  /\ In(listed', r) <=> \/ In(before, r)
                                    \/ from <= Rank(table, r) /\ Rank(table, r) < from + size
              /\ Once(before, r) /\ (In(before, r) => Rank(table, r) < from) => Once(listed', r)
              /\ status' = "idle" => Rank(table, r) < from + size
    <2>1. In(listed', r) <=> In(before, r) \/ In(page, r)
        BY <1>5, <1>6, InConcat
    <2>2. Once(before, r) /\ Once(page, r) /\ ~(In(before, r) /\ In(page, r)) => Once(listed', r)
        BY <1>5, <1>6, InConcat
    <2>3. QED
        BY <1>1, <1>8, <1>9, <2>1, <2>2
<1>11. listed' \in Seq(Row)
    BY <1>5, <1>6, InConcat
<1>12. QED
    BY <1>1, <1>5, <1>10, <1>11

-----------------------------------------------------------------------------
(* Types. *)

LEMMA RequestKept ==
    ASSUME [Next]_vars
    PROVE  request' = request
BY DEF Next, vars, walk, FirstPage, NextPage, CreateSession, UpdateSession, CommitUpdate,
       AppendToSession, DeleteSession, AppendEvent, DeleteEvents, Tick, Write

(* Every step of a writer that changes a row is a Write of one row, or     *)
(* removes all of them.                                                    *)
LEMMA Writes ==
    ASSUME PagingTypeOK,
           \/ \E r \in Row, name \in DisplayName : CreateSession(r, name)
           \/ \E r \in Row, t \in AppendTime : AppendToSession(r, t)
           \/ \E r \in Row, t \in EventTime : AppendEvent(r, t)
           \/ \E update \in updating : CommitUpdate(update)
           \/ \E r \in Row : DeleteSession(r)
    PROVE  \E r \in Row, row \in Listable \cup {NoRow} : Write(r, row)
<1>1. ASSUME NEW r \in Row, NEW name \in DisplayName, CreateSession(r, name)
      PROVE  \E row \in Listable \cup {NoRow} : Write(r, row)
    <2>1. PICK t \in 0 .. now :
              Write(r, [createTime |-> t, updateTime |-> t, displayName |-> name])
        BY <1>1 DEF CreateSession
    <2>2. QED
        BY <1>1, <2>1, BoundAssumption DEF CreateSession, Listable, Session, PagingTypeOK
<1>2. ASSUME NEW update \in updating, CommitUpdate(update)
      PROVE  \E r \in Row, row \in Listable \cup {NoRow} : Write(r, row)
    <2>1. ~ListsEvents /\ update.key \in Row /\ update.row \in Session
        BY DEF PagingTypeOK
    <2>2. QED
        BY <1>2, <2>1 DEF CommitUpdate, Listable
<1>3. ASSUME NEW r \in Row, NEW t \in AppendTime, AppendToSession(r, t)
      PROVE  \E row \in Listable \cup {NoRow} : Write(r, row)
    <2>1. table[r] \in Session /\ t \div Micro \in Nat
        BY <1>3, BoundAssumption, MicroAssumption DEF AppendToSession, PagingTypeOK
    <2>2. [table[r] EXCEPT !.updateTime = t \div Micro] \in Session
        BY <2>1 DEF Session
    <2>3. QED
        BY <1>3, <2>2 DEF AppendToSession, Listable
<1>4. ASSUME NEW r \in Row, NEW t \in EventTime, AppendEvent(r, t)
      PROVE  \E row \in Listable \cup {NoRow} : Write(r, row)
    BY <1>4, BoundAssumption DEF AppendEvent, Listable, Event
<1>5. ASSUME NEW r \in Row, DeleteSession(r)
      PROVE  \E row \in Listable \cup {NoRow} : Write(r, row)
    BY <1>5 DEF DeleteSession
<1>6. QED
    BY <1>1, <1>2, <1>3, <1>4, <1>5

(* An update under way has a session's key and a row made of its own. *)
LEMMA UpdatesTyped ==
    ASSUME PagingTypeOK, [Next]_vars
    PROVE  /\ updating' \subseteq [key : Row, row : Session]
           /\ ListsEvents' => updating' = {}
<1>1. ListsEvents' = ListsEvents
    BY RequestKept DEF ListsEvents
<1>2. ASSUME NEW r \in Row, NEW name \in DisplayName, UpdateSession(r, name)
      PROVE  /\ ~ListsEvents
             /\ updating' \subseteq [key : Row, row : Session]
    <2>1. now \in Nat
        BY BoundAssumption DEF PagingTypeOK
    <2>2. ~ListsEvents /\ table[r] \in Session
        BY <1>2 DEF UpdateSession, PagingTypeOK
    <2>3. [table[r] EXCEPT !.updateTime = now, !.displayName = name] \in Session
        BY <2>1, <2>2 DEF Session
    <2>4. QED
        BY <1>2, <2>2, <2>3 DEF UpdateSession, PagingTypeOK
<1>3. CASE \E update \in updating : CommitUpdate(update)
    BY <1>1, <1>3 DEF CommitUpdate, PagingTypeOK
<1>4. CASE \/ FirstPage \/ NextPage \/ DeleteEvents \/ Tick \/ UNCHANGED vars
           \/ \E r \in Row, name \in DisplayName : CreateSession(r, name)
           \/ \E r \in Row, t \in AppendTime : AppendToSession(r, t)
           \/ \E r \in Row, t \in EventTime : AppendEvent(r, t)
           \/ \E r \in Row : DeleteSession(r)
    <2>1. updating' = updating
        BY <1>4 DEF FirstPage, NextPage, DeleteEvents, Tick, vars, CreateSession,
                    AppendToSession, AppendEvent, DeleteSession
    <2>2. QED
        BY <1>1, <2>1 DEF PagingTypeOK
<1>5. QED
    BY <1>1, <1>2, <1>3, <1>4 DEF Next

(* The parts of the type invariant that a step can disturb, by step. *)
LEMMA TypeStep ==
    ASSUME PagingTypeOK, [Next]_vars
    PROVE  PagingTypeOK'
<1>1. request' = request /\ ListsEvents' = ListsEvents
    BY RequestKept DEF ListsEvents
<1>2. table \in [Row -> Listable \cup {NoRow}]
    BY DEF PagingTypeOK, Listable
<1>3. SUFFICES /\ table' \in [Row -> Listable \cup {NoRow}]
               /\ now' \in 0 .. MaxTime
               /\ status' \in {"idle", "open"}
               /\ offset' \in Nat /\ (status' = "open" <=> offset' > 0)
               /\ listed' \in Seq(Row)
               /\ steady' \subseteq Row /\ came' \in BOOLEAN /\ left' \in BOOLEAN
    BY <1>1, UpdatesTyped DEF PagingTypeOK, Listable
<1>4. Separate(table) \subseteq Row /\ <<>> \in Seq(Row)
    BY EmptySeq DEF Separate, Matching
<1>5. CASE FirstPage
    <2>1. <<>> \in Seq(Row) /\ 0 \in Nat
        BY EmptySeq
    <2>2. /\ listed' \in Seq(Row)
          /\ \E size \in Nat \ {0} :
                \/ status' = "open" /\ offset' = 0 + size
                \/ status' = "idle" /\ offset' = 0
        BY <1>5, <2>1, ListEffect DEF FirstPage
    <2>3. /\ status' \in {"idle", "open"}
          /\ offset' \in Nat /\ (status' = "open" <=> offset' > 0)
        BY <2>2
    <2>4. QED
        BY <1>2, <1>4, <1>5, <2>2, <2>3 DEF FirstPage, PagingTypeOK
<1>6. CASE NextPage
    <2>1. /\ listed' \in Seq(Row)
          /\ \E size \in Nat \ {0} :
                \/ status' = "open" /\ offset' = offset + size
                \/ status' = "idle" /\ offset' = 0
        BY <1>6, ListEffect DEF NextPage, PagingTypeOK
    <2>2. QED
        BY <1>2, <1>6, <2>1 DEF NextPage, PagingTypeOK
<1>7. ASSUME NEW r \in Row, NEW row \in Listable \cup {NoRow}, Write(r, row)
      PROVE  /\ table' \in [Row -> Listable \cup {NoRow}]
             /\ now' = now /\ UNCHANGED walk
             /\ listed' \in Seq(Row)
             /\ steady' \subseteq Row /\ came' \in BOOLEAN /\ left' \in BOOLEAN
    <2>1. CASE status = "open"
        BY <1>2, <1>7, <2>1 DEF Write, Note, PagingTypeOK
    <2>2. CASE status # "open"
        BY <1>2, <1>4, <1>7, <2>2 DEF Write, Note, Forget, PagingTypeOK
    <2>3. QED
        BY <2>1, <2>2
<1>8. CASE DeleteEvents
    BY <1>4, <1>8 DEF DeleteEvents, Forget, PagingTypeOK, walk
<1>9. CASE Tick \/ \E r \in Row, name \in DisplayName : UpdateSession(r, name)
    <2>1. /\ table' = table /\ (now' = now \/ (now < MaxTime /\ now' = now + 1))
          /\ status' = status /\ offset' = offset /\ NothingToNote
        BY <1>9 DEF Tick, UpdateSession, walk
    <2>2. now' \in 0 .. MaxTime
        BY <2>1, BoundAssumption DEF PagingTypeOK
    <2>3. QED
        BY <1>2, <1>4, <2>1, <2>2 DEF NothingToNote, Forget, history, PagingTypeOK
<1>10. CASE UNCHANGED vars
    BY <1>2, <1>10 DEF vars, PagingTypeOK
<1>11. QED
    BY <1>5, <1>6, <1>7, <1>8, <1>9, <1>10, Writes DEF Next, PagingTypeOK, walk

LEMMA PagingTypeInit ==
    ASSUME Init
    PROVE  PagingTypeOK
<1>1. <<>> \in Seq(Row)
    BY EmptySeq
<1>2. table \in [Row -> (IF ListsEvents THEN Event ELSE Session) \cup {NoRow}]
    BY DEF Init
<1>3. now \in 0 .. MaxTime
    BY BoundAssumption DEF Init
<1>4. /\ status \in {"idle", "open"}
      /\ offset \in Nat /\ (status = "open" <=> offset > 0)
    BY DEF Init
<1>5. request \in Request
    BY DEF Init
<1>6. steady \subseteq Row /\ came \in BOOLEAN /\ left \in BOOLEAN /\ listed \in Seq(Row)
    BY <1>1 DEF Init
<1>7. updating = {}
    BY DEF Init
<1>8. QED
    BY <1>2, <1>3, <1>4, <1>5, <1>6, <1>7 DEF PagingTypeOK

(* A walk's offset is positive exactly while there is more, and its pages  *)
(* are rows of the table: type correctness for any number of rows.         *)
THEOREM PagingTypeCorrect == Spec => []PagingTypeOK
<1>1. QED
    BY PagingTypeInit, TypeStep, PTL DEF Spec

-----------------------------------------------------------------------------
(* A write between two pages. *)

(* What the query says of rows u after a step is what it says now, as the  *)
(* walk keeps its request.                                                 *)
LEMMA SameQuery ==
    ASSUME request' = request
    PROVE  /\ Separate(table)' = Separate(table')
           /\ \A r : Rank(table, r)' = Rank(table', r)
BY DEF Separate, Rank, Ahead, Matching, Matches, buildEventFilter, buildSessionFilter,
       Before, Column, OrderBy, ListsEvents

(* If the row x stays in the listing when its contents change, at its      *)
(* place or an earlier one, no row ahead of another one stops being so.    *)
LEMMA WriteKeepsRank ==
    ASSUME NEW t \in [Row -> Listable \cup {NoRow}],
           NEW u \in [Row -> Listable \cup {NoRow}],
           NEW x \in Row, \A y \in Row \ {x} : u[y] = t[y],
           Matches(t[x]) => Matches(u[x]) /\ ~Before(t[x], u[x]),
           NEW r \in Matching(t), r # x
    PROVE  Rank(t, r) \in Nat /\ Rank(u, r) \in Nat /\ Rank(t, r) <= Rank(u, r)
<1>1. t[r] \in Listable /\ u[r] = t[r] /\ r \in Row
    BY MatchingListable
<1>2. ASSUME NEW y \in Ahead(t, r)
      PROVE  y \in Ahead(u, r)
    <2>1. y \in Row /\ t[y] \in Listable /\ Matches(t[y]) /\ Before(t[y], t[r])
        BY MatchingListable DEF Ahead, Matching
    <2>2. CASE y = x
        <3>1. Matches(u[x]) /\ ~Before(t[x], u[x])
            BY <2>1, <2>2
        <3>2. u[x] \in Listable
            BY <3>1 DEF Matches
        <3>3. Before(u[x], u[r])
            BY <1>1, <2>1, <2>2, <3>1, <3>2, BeforeOrders
        <3>4. QED
            BY <2>1, <2>2, <3>1, <3>3 DEF Ahead, Matching
    <2>3. CASE y # x
        BY <1>1, <2>1, <2>3 DEF Ahead, Matching
    <2>4. QED
        BY <2>2, <2>3
<1>3. Ahead(t, r) \in SUBSET Ahead(u, r)
    BY <1>2
<1>4. IsFiniteSet(Ahead(u, r)) /\ Rank(u, r) \in Nat /\ Rank(t, r) \in Nat
    BY RankType
<1>5. QED
    BY <1>3, <1>4, FS_Subset DEF Rank

-----------------------------------------------------------------------------
(* The walk. *)

(* Which rows are listed, by their rank. *)
Cut(r) ==
    /\ status = "open" /\ ~left /\ ~In(listed, r) => offset <= Rank(table, r)
    /\ status = "open" /\ ~came /\ In(listed, r) => Rank(table, r) < offset
    /\ status = "idle" /\ ~left => In(listed, r)
    /\ ~came => Once(listed, r)

WalkInv ==
    /\ PagingTypeOK
    /\ status = "open" => steady \subseteq Separate(table)
    /\ \A r \in steady : Cut(r)

(* A page keeps the cut at its token's offset. *)
LEMMA PageStep ==
    ASSUME WalkInv, FirstPage \/ NextPage
    PROVE  /\ steady' \subseteq Separate(table)
           /\ \A r \in steady' : Cut(r)'
<1>1. request' = request /\ table' = table
    BY DEF FirstPage, NextPage
<1>2. table \in [Row -> Listable \cup {NoRow}]
    BY DEF WalkInv, PagingTypeOK, Listable
<1>3. \A r : Rank(table, r)' = Rank(table, r) /\ Rank(table, r) \in Nat
    BY <1>1, <1>2, SameQuery, RankType
<1>4. CASE FirstPage
    <2>1. steady' = Separate(table) /\ came' = FALSE /\ left' = FALSE
        BY <1>4 DEF FirstPage
    <2>2. <<>> \in Seq(Row) /\ 0 \in Nat /\ List(0, <<>>)
        BY <1>4, EmptySeq DEF FirstPage
    <2>3. \A r : ~In(<<>>, r) /\ Once(<<>>, r)
        BY DEF In, Once
    <2>4. PICK size \in Nat \ {0} :
              /\ \/ status' = "open" /\ offset' = 0 + size
                 \/ status' = "idle" /\ offset' = 0
              /\ \A r \in Separate(table) :
                    /\ In(listed', r) <=> \/ In(<<>>, r)
                                          \/ 0 <= Rank(table, r) /\ Rank(table, r) < 0 + size
                    /\ Once(<<>>, r) /\ (In(<<>>, r) => Rank(table, r) < 0) => Once(listed', r)
                    /\ status' = "idle" => Rank(table, r) < 0 + size
        BY <2>2, ListEffect DEF WalkInv
    <2>5. QED
        BY <1>3, <2>1, <2>3, <2>4 DEF Cut, In, Once
<1>5. CASE NextPage
    <2>1. /\ status = "open" /\ steady' = steady /\ came' = came /\ left' = left
          /\ List(offset, listed) /\ steady \subseteq Separate(table)
          /\ offset \in Nat /\ listed \in Seq(Row)
        BY <1>5 DEF NextPage, WalkInv, PagingTypeOK
    <2>2. PICK size \in Nat \ {0} :
              /\ \/ status' = "open" /\ offset' = offset + size
                 \/ status' = "idle" /\ offset' = 0
              /\ \A r \in Separate(table) :
                    /\ In(listed', r) <=>
                          \/ In(listed, r)
                          \/ offset <= Rank(table, r) /\ Rank(table, r) < offset + size
                    /\ Once(listed, r) /\ (In(listed, r) => Rank(table, r) < offset)
                          => Once(listed', r)
                    /\ status' = "idle" => Rank(table, r) < offset + size
        BY <2>1, ListEffect DEF WalkInv
    <2>3. ASSUME NEW r \in steady
          PROVE  Cut(r)'
        <3>1. r \in Separate(table) /\ Cut(r)
            BY <2>1 DEF WalkInv
        <3>2. QED
            BY <1>3, <2>1, <2>2, <3>1 DEF Cut, In, Once
    <2>4. QED
        BY <2>1, <2>3
<1>6. QED
    BY <1>4, <1>5

(* A write to a row moves the other ones across no cut the history rules   *)
(* out.                                                                    *)
LEMMA WriteStep ==
    ASSUME WalkInv, NEW x \in Row, NEW row \in Listable \cup {NoRow}, Write(x, row),
           request' = request
    PROVE  /\ status' = "open" => steady' \subseteq Separate(table)'
           /\ \A r \in steady' : Cut(r)'
<1>1. table \in [Row -> Listable \cup {NoRow}]
    BY DEF WalkInv, PagingTypeOK, Listable
<1>2. /\ table' = [table EXCEPT ![x] = row] /\ Note(x, table[x], row)
      /\ status' = status /\ offset' = offset
    BY DEF Write, walk
<1>3. /\ table' \in [Row -> Listable \cup {NoRow}] /\ table'[x] = row
      /\ \A y \in Row \ {x} : table'[y] = table[y]
    BY <1>1, <1>2
<1>4. CASE status = "open"
    <2>1. /\ steady' = (steady \ {x}) \cap Separate(table')
          /\ came' = (came \/ (Matches(row) /\ (Matches(table[x]) => Before(row, table[x]))))
          /\ left' = (left \/ (Matches(table[x]) /\ (Matches(row) => Before(table[x], row))))
          /\ listed' = listed
        BY <1>2, <1>4 DEF Note
    <2>2. ASSUME NEW r \in steady'
          PROVE  Cut(r)'
        <3>1. r \in Matching(table) /\ r \in Matching(table') /\ r # x /\ Cut(r)
            BY <1>4, <2>1 DEF WalkInv, Separate
        <3>2. Rank(table, r)' = Rank(table', r)
            BY SameQuery
        <3>3. Rank(table, r) \in Nat /\ Rank(table', r) \in Nat
            BY <1>1, <1>3, RankType
        <3>4. ~left' => Rank(table, r) <= Rank(table', r)
            <4> SUFFICES ASSUME ~left' PROVE Rank(table, r) <= Rank(table', r)
                OBVIOUS
            <4>1. Matches(table[x]) => Matches(table'[x]) /\ ~Before(table[x], table'[x])
                BY <1>3, <2>1
            <4>2. QED
                BY <1>1, <1>3, <3>1, <4>1, WriteKeepsRank
        <3>5. ~came' => Rank(table', r) <= Rank(table, r)
            <4> SUFFICES ASSUME ~came' PROVE Rank(table', r) <= Rank(table, r)
                OBVIOUS
            <4>1. Matches(table'[x]) => Matches(table[x]) /\ ~Before(table'[x], table[x])
                BY <1>3, <2>1
            <4>2. \A y \in Row \ {x} : table[y] = table'[y]
                BY <1>3
            <4>3. QED
                BY <1>1, <1>3, <3>1, <4>1, <4>2, WriteKeepsRank
        <3>6. (~left' => ~left) /\ (~came' => ~came) /\ offset \in Nat
            BY <2>1 DEF WalkInv, PagingTypeOK
        <3>7. In(listed, r)' = In(listed, r) /\ Once(listed, r)' = Once(listed, r)
            BY <2>1 DEF In, Once
        <3>8. QED
            BY <1>2, <1>4, <3>1, <3>2, <3>3, <3>4, <3>5, <3>6, <3>7 DEF Cut
    <2>3. QED
        BY <2>1, <2>2, SameQuery
<1>5. CASE status # "open"
    BY <1>2, <1>5 DEF Note, Forget
<1>6. QED
    BY <1>4, <1>5

LEMMA WalkStep ==
    ASSUME WalkInv, [Next]_vars
    PROVE  WalkInv'
<1>1. PagingTypeOK' /\ request' = request
    BY TypeStep, RequestKept DEF WalkInv
<1>2. SUFFICES /\ status' = "open" => steady' \subseteq Separate(table)'
               /\ \A r \in steady' : Cut(r)'
    BY <1>1 DEF WalkInv
<1>3. CASE FirstPage \/ NextPage
    <2>1. table' = table
        BY <1>3 DEF FirstPage, NextPage
    <2>2. QED
        BY <1>1, <1>3, <2>1, PageStep, SameQuery
<1>4. CASE \/ \E r \in Row, name \in DisplayName : CreateSession(r, name)
           \/ \E r \in Row, t \in AppendTime : AppendToSession(r, t)
           \/ \E r \in Row, t \in EventTime : AppendEvent(r, t)
           \/ \E update \in updating : CommitUpdate(update)
           \/ \E r \in Row : DeleteSession(r)
    <2>1. PICK x \in Row, row \in Listable \cup {NoRow} : Write(x, row)
        BY <1>4, Writes DEF WalkInv
    <2>2. QED
        BY <1>1, <2>1, WriteStep
<1>5. CASE DeleteEvents
    <2>1. CASE status = "open"
        BY <1>5, <2>1 DEF DeleteEvents
    <2>2. CASE status # "open"
        BY <1>5, <2>2 DEF DeleteEvents, Forget, walk
    <2>3. QED
        BY <2>1, <2>2
<1>6. CASE Tick \/ UNCHANGED vars \/ \E r \in Row, name \in DisplayName : UpdateSession(r, name)
    <2>1. /\ UNCHANGED <<table, status, offset>>
          /\ UNCHANGED history \/ (status # "open" /\ Forget)
        BY <1>6 DEF Tick, UpdateSession, NothingToNote, vars, walk, history
    <2>2. CASE UNCHANGED history
        <3>1. \A r : Rank(table, r)' = Rank(table, r) /\ Separate(table)' = Separate(table)
            BY <1>1, <2>1, SameQuery
        <3>2. QED
            BY <2>1, <2>2, <3>1 DEF WalkInv, Cut, In, Once, history
    <2>3. CASE status # "open" /\ Forget
        BY <2>1, <2>3 DEF Forget
    <2>4. QED
        BY <2>1, <2>2, <2>3
<1>7. QED
    BY <1>3, <1>4, <1>5, <1>6 DEF Next

LEMMA WalkInvariant == Spec => []WalkInv
<1>1. Init => WalkInv
    <2>1. Init => steady = {} /\ status # "open"
        BY DEF Init
    <2>2. Init => PagingTypeOK
        BY PagingTypeInit
    <2>3. QED
        BY <2>1, <2>2 DEF WalkInv
<1>2. QED
    BY <1>1, WalkStep, PTL DEF Spec

(* A walk that no row escaped by going, or by moving to a later place, has *)
(* every row that was there throughout, for any number of rows and pages   *)
(* of any size, whatever else is created, updated or moved to the front.   *)
THEOREM SteadyRowsListed == Spec => []NothingSkipped
<1>1. WalkInv => NothingSkipped
    BY DEF WalkInv, Cut, In, NothingSkipped
<1>2. QED
    BY <1>1, WalkInvariant, PTL

(* As long as no row came to an earlier place, no row that was there       *)
(* throughout is on two pages, or twice on one.                            *)
THEOREM SteadyRowsListedOnce == Spec => []NothingRepeated
<1>1. WalkInv => NothingRepeated
    BY DEF WalkInv, Cut, Once, NothingRepeated
<1>2. QED
    BY <1>1, WalkInvariant, PTL

-----------------------------------------------------------------------------
(* The filter on the timestamp. *)

(* Truncation takes off less than a microsecond. *)
LEMMA TruncateLoses ==
    ASSUME NEW t \in Nat
    PROVE  \E ago \in 0 .. Micro - 1 : Truncate(t) = t - ago
<1>1. t % Micro \in 0 .. Micro - 1
    BY MicroAssumption
<1>2. QED
    BY <1>1 DEF Truncate

(* The filter compares the time that an event had less than a microsecond  *)
(* before its own.                                                         *)
LEMMA FilterSatisfied ==
    ASSUME PagingTypeOK, ListsEvents, request.filter # NoFilter,
           NEW r \in Row, table[r] # NoRow
    PROVE  \E ago \in 0 .. Micro - 1 : r \in Matching(table) <=> Satisfies(r, ago)
<1>1. table[r].timestamp \in Nat
    BY DEF PagingTypeOK, Event
<1>2. PICK ago \in 0 .. Micro - 1 : Truncate(table[r].timestamp) = table[r].timestamp - ago
    BY <1>1, TruncateLoses
<1>3. buildEventFilter(table[r]) <=> Satisfies(r, ago)
    BY <1>2 DEF buildEventFilter, Satisfies
<1>4. r \in Matching(table) <=> buildEventFilter(table[r])
    BY DEF Matching, Matches
<1>5. QED
    BY <1>3, <1>4

(* What a call adds to the listed rows matches, and an answer of one page  *)
(* has every row that does.                                                *)
LEMMA PageMatches ==
    ASSUME PagingTypeOK, NEW from \in Nat, NEW before \in Seq(Row), List(from, before)
    PROVE  /\ \A i \in DOMAIN listed' : i > Len(before) => listed'[i] \in Matching(table)
           /\ from = 0 /\ before = <<>> /\ status' = "idle" =>
                 \A r \in Matching(table) : \E i \in DOMAIN listed' : listed'[i] = r
<1> DEFINE size == normalizePageSize(request.pageSize)
<1>1. size \in Nat \ {0}
    BY PageSizeType, RequestAssumption DEF PagingTypeOK
<1>2. table \in [Row -> Listable \cup {NoRow}]
    BY DEF PagingTypeOK, Listable
<1>3. PICK result \in Results :
          LET rows == Limited(result, size + 1, from)
          IN /\ listed' = before \o Page(rows, size)
             /\ IF Len(rows) > size THEN status' = "open" ELSE status' = "idle"
    BY DEF List
<1> DEFINE rows == Limited(result, size + 1, from)
           page == Page(rows, size)
<1> HIDE DEF size
<1>4. /\ result \in Seq(Row) /\ Len(result) \in Nat
      /\ \A i \in 1 .. Len(result) : result[i] \in Matching(table)
      /\ \A r \in Matching(table) : \E i \in 1 .. Len(result) : result[i] = r
    BY <1>2, ResultComplete
<1>5. /\ page \in Seq(Row)
      /\ \A k \in 1 .. Len(page) :
            k <= size /\ from + k \in 1 .. Len(result) /\ page[k] = result[from + k]
      /\ \A i \in 1 .. Len(result) :
            from < i /\ i <= from + size => i - from \in 1 .. Len(page)
      /\ Len(rows) > size <=> Len(result) > from + size
    BY <1>1, <1>4, PageIsWindow
<1>6. listed' = before \o page /\ (status' = "idle" => ~(Len(rows) > size))
    BY <1>3
<1> HIDE DEF rows, page
<1>7. /\ Len(page) \in Nat /\ Len(before) \in Nat
      /\ DOMAIN listed' = 1 .. Len(before) + Len(page)
      /\ \A i \in 1 .. Len(before) + Len(page) :
            listed'[i] = IF i <= Len(before) THEN before[i] ELSE page[i - Len(before)]
    BY <1>5, <1>6, ConcatProperties, LenProperties
<1>8. ASSUME NEW i \in DOMAIN listed', i > Len(before)
      PROVE  listed'[i] \in Matching(table)
    <2>1. i - Len(before) \in 1 .. Len(page) /\ listed'[i] = page[i - Len(before)]
        BY <1>7, <1>8
    <2>2. QED
        BY <1>4, <1>5, <2>1
<1>9. ASSUME from = 0, before = <<>>, status' = "idle", NEW r \in Matching(table)
      PROVE  \E i \in DOMAIN listed' : listed'[i] = r
    <2>1. PICK i \in 1 .. Len(result) : result[i] = r
        BY <1>4
    <2>2. i \in 1 .. Len(page)
        BY <1>1, <1>4, <1>5, <1>6, <1>9
    <2>3. page[i] = r /\ Len(before) = 0
        BY <1>5, <1>9, <2>1, <2>2
    <2>4. QED
        BY <1>7, <2>2, <2>3
<1>10. QED
    BY <1>8, <1>9

(* A filter on the timestamp is off by less than a microsecond, however    *)
(* long a microsecond is: an event on a page satisfies it at some time     *)
(* that short before its own, and an answer of one page leaves out none    *)
(* that satisfies it at all of them.                                       *)
THEOREM FilterOffByLessThanAMicrosecond == Spec => FilterWithinAMicrosecond
<1>1. ASSUME PagingTypeOK, ListsEvents, request.filter # NoFilter, FirstPage \/ NextPage
      PROVE  FilterRespected
    <2> DEFINE from == IF FirstPage THEN 0 ELSE offset
               before == IF FirstPage THEN <<>> ELSE listed
    <2>1. from \in Nat /\ before \in Seq(Row)
        BY <1>1 DEF PagingTypeOK
    <2>2. List(from, before)
        BY <1>1 DEF FirstPage, NextPage
    <2>3. \A r \in Matching(table) : r \in Row /\ table[r] # NoRow
        BY DEF Matching, Matches
    <2>4. /\ \A i \in DOMAIN listed' : i > Len(before) => listed'[i] \in Matching(table)
          /\ from = 0 /\ before = <<>> /\ status' = "idle" =>
                \A r \in Matching(table) : \E i \in DOMAIN listed' : listed'[i] = r
        <3> HIDE DEF from, before
        <3>1. QED
            BY <1>1, <2>1, <2>2, PageMatches
    <2>5. listed' \in Seq(Row)
        BY <1>1, TypeStep DEF Next, PagingTypeOK
    <2>6. ASSUME NEW i \in DOMAIN listed', FirstPage \/ i > Len(listed)
          PROVE  \E ago \in 0 .. Micro - 1 : Satisfies(listed'[i], ago)
        <3>1. i > Len(before)
            BY <2>5, <2>6
        <3>2. listed'[i] \in Matching(table)
            BY <2>4, <3>1
        <3>3. QED
            BY <1>1, <2>3, <3>2, FilterSatisfied
    <2>7. ASSUME FirstPage, status' = "idle", NEW r \in Row, table[r] # NoRow,
                 \A ago \in 0 .. Micro - 1 : Satisfies(r, ago)
          PROVE  \E i \in DOMAIN listed' : listed'[i] = r
        <3>1. r \in Matching(table)
            BY <1>1, <2>7, FilterSatisfied
        <3>2. QED
            BY <2>4, <2>7, <3>1
    <2>8. QED
        BY <2>6, <2>7 DEF FilterRespected
<1>2. QED
    BY <1>1, PagingTypeCorrect, PTL DEF FilterWithinAMicrosecond

=============================================================================
