------------------------------ MODULE Queries ------------------------------
(***************************************************************************)
(* The queries of sql_adapter.c, each as what its SQL selects, and what    *)
(* the adapter makes of the answer of each kind of database.               *)
(*                                                                         *)
(* A row is a record over the columns of the table.  Averages and          *)
(* percentages are kept in twelfths, which is exact for up to four rows.   *)
(* A text is only compared: with `like', where a pattern is the set of     *)
(* texts it matches, and for sorting, where Collation lists the texts.     *)
(***************************************************************************)
EXTENDS Integers, Sequences, FiniteSets, FiniteSetsExt, Functions, Folds,
        CustomReports

CONSTANTS
  Collation,   \* host names, labels and NULL in the order the database sorts them
  DaySeconds,  \* seconds of a day
  History,     \* performance_history, days rows are kept
  PerPage      \* ITEMS_PER_PAGE

Null   == "(null)"  \* a SQL NULL
Units  == 12
Labels == {"0", "0-0.1", "0.1-0.3", "0.3-0.6", "0.6-1", "1-3", "3-10", ">10"}

ASSUME QueriesAssumption ==
  /\ Collation \in Seq(STRING) /\ Labels \cup {Null} \subseteq Range(Collation)
  /\ DaySeconds \in Nat \ {0}
  /\ History \in Nat
  /\ PerPage \in Nat \ {0}

Columns == <<"id", "dateadd", "host", "uri", "script", "cpu", "memory",
             "exc_time", "cpu_sec", "memory_mb", "bytes_read", "bytes_write">>
Averages == <<"host", "cpu", "memory", "exc_time", "bytes_read", "bytes_write">>

-----------------------------------------------------------------------------
(* Sorting.                                                                *)

Place(text) == CHOOSE k \in DOMAIN Collation : Collation[k] = text
Key(col, v) == IF col \in {"host", "uri", "script"} THEN Place(v) ELSE v

\* order by: rows with equal keys in any order, here always the same.
Ordered(S, Before(_, _)) ==
  [k \in 1..Cardinality(S) |->
     CHOOSE r \in S : Cardinality({s \in S : Before(s, r)}) = k - 1]

\* order by col asc (tp = 1) or desc.
By(S, col, id, tp) ==
  LET key(r) == <<Key(col, r[col]), Key(id, r[id])>>
      Less(a, b) == a[1] < b[1] \/ (a[1] = b[1] /\ a[2] < b[2])
  IN Ordered(S, LAMBDA r, s : IF tp = 1 THEN Less(key(r), key(s))
                                        ELSE Less(key(s), key(r)))

Total(S, col)   == MapThenSumSet(LAMBDA r : r[col], S)
Average(S, col) == (Units * Total(S, col)) \div Cardinality(S)
Most(S, col)    == Max({r[col] : r \in S})
Least(S, col)   == Min({r[col] : r \in S})

-----------------------------------------------------------------------------
(* What of the table a page is about: the period and the filters.  A page's *)
(* arguments `a' are a record of prd, prd_b, prd_e, host, script, uri, sort, *)
(* tp and page.  A number that is absent is 0, a moment too; the three      *)
(* filters are sets of at most one pattern.                                *)

Date(second) == second \div DaySeconds

\* Seeded fault: the days kept are forgotten.
PeriodUnbounded(prd) == Max({1, prd})

\* performance_get_period: the days asked for, within what is kept.
performance_get_period(prd) == Max({1, Min({prd, History})})

\* sql_adapter_get_date_period: between two moments when both are given, and
\* otherwise the last days, from midnight.
get_date_period(t, a, now) ==
  IF a.prd_b # 0 /\ a.prd_e # 0
    THEN {r \in t : a.prd_b <= r.dateadd /\ r.dateadd <= a.prd_e}
    ELSE {r \in t : Date(r.dateadd) >= Date(now) - performance_get_period(a.prd)}

\* sql_adapter_get_host_name: SQLite has none, and "%s" prints that.
adapter_get_host_name(db) == IF db.type = "sqlite" THEN "(null) text" ELSE db.host_id

\* The host a row is inserted for: SQLite's insert leaves the column out.
InsertedHostName(db) == IF db.type = "sqlite" THEN Null ELSE db.host_id

Like(text, filter) == \A pattern \in filter : text \in pattern

\* sql_adapter_get_filter
get_filter(t, a, db) ==
  {r \in t : /\ Like(r.host, a.host) /\ Like(r.script, a.script) /\ Like(r.uri, a.uri)
             /\ db.host_id # "localhost" => r.hostnm = adapter_get_host_name(db)}

Where(t, a, db, now) == get_date_period(t, a, now) \cap get_filter(t, a, db)

\* Seeded fault: page numbers count from 0.
LimitFromZero(rows, page) ==
  SubSeq(rows, page * PerPage + 1, Min({Len(rows), (page + 1) * PerPage}))

\* Seeded fault: the last row of a page is the first of the next one too.
LimitOverlapping(rows, page) ==
  LET pg_num == Max({0, page - 1})
  IN  SubSeq(rows, Max({1, pg_num * PerPage}), Min({Len(rows), (pg_num + 1) * PerPage}))

\* sql_adapter_get_limit: page numbers count from 1, a bad one is the first.
get_limit(rows, page) ==
  LET pg_num == Max({0, page - 1})
  IN  SubSeq(rows, pg_num * PerPage + 1, Min({Len(rows), (pg_num + 1) * PerPage}))

-----------------------------------------------------------------------------
(* The answer.  Every query has the same three branches.                   *)

\* The daemon writes with one handle, the pages' process reads with another
\* (Database has what happens between the threads of each).  mysql_reconnect,
\* pgsql_reconnect: when the server is away the handle is given up, but for the
\* daemon's with PgSQL.
Reconnected(db, handle) ==
  IF db.type = "sqlite" \/ db.up \/ (db.type = "pgsql" /\ handle = "write")
    THEN db ELSE [db EXCEPT ![handle] = FALSE]

\* With SQLite the rows are shown as they are stepped through, and an error
\* follows what has been shown.  The other two fetch a stored result: no rows
\* and no error without a handle, an error if the query fails, and with MySQL
\* neither when mysql_store_result, which is not looked at, has none.
Answers(rows, db) ==
  LET all  == [rows |-> rows, err |-> FALSE]
      none == [rows |-> <<>>, err |-> FALSE]
  IN CASE db.type = "sqlite" ->
            {all} \cup {[rows |-> SubSeq(rows, 1, k), err |-> TRUE] : k \in 0..Len(rows)}
       [] ~Reconnected(db, "read").read -> {none}
       [] db.type = "mysql" -> {all, none, [none EXCEPT !.err = TRUE]}
       [] OTHER             -> {all, [none EXCEPT !.err = TRUE]}

-----------------------------------------------------------------------------
(* Lists of rows.                                                          *)

\* sql_adapter_get_full_text_info
get_full_text_info(t, a, db, now) ==
  LET sort == IF a.sort \in 1..12 THEN a.sort ELSE 1
  IN Answers(get_limit(By(Where(t, a, db, now), Columns[sort], "id", a.tp), a.page), db)

\* sql_adapter_get_full_text_info_count
get_full_text_info_count(t, a, db, now) ==
  Answers(<<Cardinality(Where(t, a, db, now))>>, db)

\* Seeded fault: rows of one host that are equally high are all selected.
HostMaximaAll(W, col) == {r \in W : r[col] = Most({s \in W : s.host = r.host}, col)}

\* The rows of W in which col is the largest of the row's host, and of those
\* the ones that are joined with at most one of the same host and no larger id:
\* the first of each host.
HostMaxima(W, col) ==
  LET tops == {r \in W : r[col] = Most({s \in W : s.host = r.host}, col)}
  IN {r \in tops : Cardinality({s \in tops : s.host = r.host /\ r.id >= s.id}) <= 1}

\* The rows in which col is the largest of all.
Maxima(W, col) == {r \in W : r[col] = Most(W, col)}

\* sql_adapter_get_cpu_max_text_info, ..mem_max.., ..time_max..: no order.
get_cpu_max_text_info(t, a, db, now) ==
  Answers(By(HostMaxima(Where(t, a, db, now), "cpu"), "id", "id", 1), db)
get_mem_max_text_info(t, a, db, now) ==
  Answers(By(HostMaxima(Where(t, a, db, now), "memory"), "id", "id", 1), db)
get_time_max_text_info(t, a, db, now) ==
  Answers(By(HostMaxima(Where(t, a, db, now), "exc_time"), "id", "id", 1), db)

\* .._text_info_no_hard: order by id desc.
get_cpu_max_text_info_no_hard(t, a, db, now) ==
  Answers(By(Maxima(Where(t, a, db, now), "cpu"), "id", "id", 0), db)
get_mem_max_text_info_no_hard(t, a, db, now) ==
  Answers(By(Maxima(Where(t, a, db, now), "memory"), "id", "id", 0), db)
get_time_max_text_info_no_hard(t, a, db, now) ==
  Answers(By(Maxima(Where(t, a, db, now), "exc_time"), "id", "id", 0), db)

-----------------------------------------------------------------------------
(* Groups of rows.                                                         *)

Groups(W, f(_)) == {{s \in W : f(s) = f(r)} : r \in W}
HostOf(G)       == (CHOOSE r \in G : TRUE).host
HostGroups(W)   == Groups(W, LAMBDA r : r.host)

\* host, share of the requests in percent, requests.
HostShares(W) ==
  {[host |-> HostOf(G), prc |-> (Units * 100 * Cardinality(G)) \div Cardinality(W),
    count |-> Cardinality(G)] : G \in HostGroups(W)}

\* sql_adapter_get_host_text_info: order by 2; sort is not used.
get_host_text_info(t, a, db, now) ==
  Answers(By(HostShares(Where(t, a, db, now)), "prc", "host", a.tp), db)

\* sql_adapter_get_host_text_info_picture: order by 2 desc.
get_host_text_info_picture(t, a, db, now) ==
  Answers(By(HostShares(Where(t, a, db, now)), "prc", "host", 0), db)

HostAverages(W) ==
  {[k \in Range(Averages) |-> IF k = "host" THEN HostOf(G) ELSE Average(G, k)] :
     G \in HostGroups(W)}

\* sql_adapter_get_avg_text_info
get_avg_text_info(t, a, db, now) ==
  LET sort == IF a.sort \in 1..6 THEN a.sort ELSE 1
  IN Answers(By(HostAverages(Where(t, a, db, now)), Averages[sort], "host", a.tp), db)

\* sql_adapter_get_avg_text_info_picture: the sort is the page's own.
get_avg_text_info_picture(t, a, db, now, sort) ==
  Answers(By(HostAverages(Where(t, a, db, now)), Averages[sort], "host", 1), db)

\* sql_adapter_get_full_text_info_picture: the largest figures of each second.
get_full_text_info_picture(t, a, db, now) ==
  LET Peaks(G) == [dt |-> (CHOOSE r \in G : TRUE).dateadd, cpu |-> Most(G, "cpu"),
                   memory |-> Most(G, "memory"), bytes_read |-> Most(G, "bytes_read"),
                   bytes_write |-> Most(G, "bytes_write")]
      peaks == {Peaks(G) : G \in Groups(Where(t, a, db, now), LAMBDA r : r.dateadd)}
  IN Answers(By(peaks, "dt", "dt", 1), db)

\* The label of an execution time; times are in units of Tenth / 10000 seconds.
\* The SQL has no `else': a negative one, after the clock was set back, gets NULL.
Tenth == 10000
Label(time) ==
  CASE time = 0         -> "0"        [] time \in 1..Tenth             -> "0-0.1"
    [] time \in (Tenth + 1)..(3 * Tenth)      -> "0.1-0.3"
    [] time \in (3 * Tenth + 1)..(6 * Tenth)  -> "0.3-0.6"
    [] time \in (6 * Tenth + 1)..(10 * Tenth) -> "0.6-1"
    [] time \in (10 * Tenth + 1)..(30 * Tenth) -> "1-3"
    [] time \in (30 * Tenth + 1)..(100 * Tenth) -> "3-10"
    [] time > 100 * Tenth -> ">10"
    [] OTHER              -> Null

Range10(G, host) ==
  [host |-> host, b1 |-> Label((CHOOSE r \in G : TRUE).exc_time),
   count |-> Cardinality(G), cpu |-> <<Least(G, "cpu"), Most(G, "cpu"), Average(G, "cpu")>>,
   memory |-> <<Least(G, "memory"), Most(G, "memory"), Average(G, "memory")>>]

\* The rows with nothing but a host, which head that host's.
Heading(host) == [host |-> host, b1 |-> host, count |-> 0, cpu |-> <<>>, memory |-> <<>>]

\* Seeded fault: order by host, b1.
HostThenLabelAsc(r, s) ==
  \/ Place(r.host) < Place(s.host)
  \/ r.host = s.host /\ Place(r.b1) < Place(s.b1)
  \/ r.host = s.host /\ r.b1 = s.b1 /\ r.count < s.count

\* order by host, b1 desc.  Equal are only the heading of a host with the name of
\* a label and that label's row.
HostThenLabel(r, s) ==
  \/ Place(r.host) < Place(s.host)
  \/ r.host = s.host /\ Place(r.b1) > Place(s.b1)
  \/ r.host = s.host /\ r.b1 = s.b1 /\ r.count < s.count

\* sql_adapter_get_exec_tm
get_exec_tm(t, a, db, now) ==
  LET W == Where(t, a, db, now)
      groups == Groups(W, LAMBDA r : <<r.host, Label(r.exc_time)>>)
      rows == {Range10(G, HostOf(G)) : G \in groups} \cup {Heading(r.host) : r \in W}
  IN Answers(Ordered(rows, HostThenLabel), db)

\* sql_adapter_get_exec_tm_common: order by b1.
get_exec_tm_common(t, a, db, now) ==
  LET groups == Groups(Where(t, a, db, now), LAMBDA r : Label(r.exc_time))
      rows == {Range10(G, Null) : G \in groups}
  IN Answers(Ordered(rows, LAMBDA r, s : Place(r.b1) < Place(s.b1)), db)

\* sql_adapter_get_custom_text_info: the SQL is the administrator's, one text for
\* each database; " 1=1 " is put before the filter.  PAGINATION is not looked at.
get_custom_text_info(t, a, db, now, item) ==
  LET text == [sqlite |-> item.ssql, mysql |-> item.msql, pgsql |-> item.psql][db.type]
      rows == pasre_sql_filter(text, t, get_date_period(t, a, now), get_filter(t, a, db))
  IN IF text = <<>> THEN {[rows |-> <<>>, err |-> FALSE]}
                    ELSE Answers(By(rows, "id", "id", 1), db)
==============================================================================
