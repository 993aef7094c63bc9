------------------------------- MODULE Reports -------------------------------
(***************************************************************************)
(* The table of measured requests and the pages made of it: requests are   *)
(* measured and saved, rows that are too old are deleted, and a user opens  *)
(* the pages of reports.c and follows their links, in any order.           *)
(***************************************************************************)
EXTENDS Queries, Charts, Measure

CONSTANTS
  Samples,     \* what BEGIN and END of a request say: host, uri, script, begin, end
  Others,      \* those of requests that another server saves
  Limit,       \* performance_min_exec_time, negative for HARD
  External,    \* performance_host_filter_external, as sets of the names matched
  OwnHost,     \* server_hostname of the server the pages are asked from
  PageQueries, \* query strings of pages, pictures and listings
  Databases,   \* what the adapter may be configured for
  Files,       \* files of custom reports: sections with a name and entries
  Top, Cpus,   \* performance_top and the number of processors
  WithPage,    \* the patterns whose text contains "page"
  MaxRows,     \* bound: rows ever saved
  MaxNow       \* bound: the last second, from 1

\* A query string as the handler takes it apart: numbers, and for each filter the
\* patterns given, a pattern as the texts it matches.
Patterns == SUBSET (SUBSET STRING)
Query == [info : Int, pic : BOOLEAN, admin : BOOLEAN, prd : Int, prd_b : Int, prd_e : Int,
          host : Patterns, script : Patterns, uri : Patterns, sort : Int, tp : Int, page : Int]

\* What is read of a thread and its machine, and what a request sends.
Reading == [at : Nat, ticks : Nat, total : Nat, io : [read : Nat, write : Nat],
            total_mem : Nat, resident : Nat]
Request == [host : STRING, uri : STRING, script : STRING, begin : Reading, end : Reading,
            max_mem : [rate : Nat, mb : Nat]]

ASSUME ReportsAssumption ==
  /\ Samples \subseteq Request /\ Others \subseteq Request
  /\ \A s \in Samples \cup Others :
       s.begin.ticks <= s.end.ticks /\ s.host \in Range(Collation)
  /\ Cpus \in Nat \ {0}
  /\ PageQueries \subseteq Query
  /\ OwnHost \in STRING
  /\ MaxRows \in Nat
  /\ MaxNow \in Nat \ {0}

VARIABLES
  table,   \* rows of the table performance
  nextId,  \* the next auto_increment id
  now,     \* the database's clock, in seconds
  db,      \* the adapter: type, host_id, its handles, and whether the server is up
  items,   \* custom_reports
  file,    \* the file they were read from
  screen   \* what was last done or shown

vars == <<table, nextId, now, db, items, file, screen>>

Blank == [kind |-> "blank"]

-----------------------------------------------------------------------------
(* The files of custom reports.                                            *)

\* How a file is laid out (custom.tpl): every entry on a line, ended by ";", but
\* for the last of all.
EntryText(e) == <<NewLine, e[1], "=">> \o e[2]
EntriesText(l) ==
  FoldLeft(LAMBDA t, e : t \o (IF t = <<>> THEN <<>> ELSE <<";">>) \o EntryText(e),
           <<>>, l)
SectionText(sec) == <<"[">> \o sec.name \o <<"]">> \o EntriesText(sec.entries)
Text(f) ==
  FoldLeft(LAMBDA t, sec : t \o (IF t = <<>> THEN <<>> ELSE <<";", NewLine>>) \o SectionText(sec),
           <<>>, f)

\* What a file says: its reports, each named once, the entries of all the sections
\* with a report's name, and the values of a key, of which the last one counts.
NamesOf(f) ==
  FoldLeft(LAMBDA l, sec : IF sec.name \in Range(l) THEN l ELSE Append(l, sec.name), <<>>, f)
EntriesOf(f, n) ==
  FoldLeft(LAMBDA l, sec : IF sec.name = n THEN l \o sec.entries ELSE l, <<>>, f)
AllFor(l, key) ==
  FoldLeft(LAMBDA v, e : IF e[1] = key THEN Append(v, e[2]) ELSE v, <<>>, l)
FieldsOf(l) == FoldLeft(LAMBDA t, v : t \o Pieces(v, "|"), <<>>, AllFor(l, "header"))
SqlOf(l, key) ==
  LET values == AllFor(l, key) IN IF values = <<>> THEN <<>> ELSE pasre_sql_flds(Last(values))
SortOf(l) ==
  LET values == AllFor(l, "sort") IN IF values = <<>> THEN <<>> ELSE Last(values)

\* What a file is written with.  A name, a key and a value are of words that do not
\* end them; the fields of a report differ, and what it sorts by are numbers.
Numbers == <<<<"1">>, <<"2">>, <<"3">>>>
Sections ==
  [name : Seq(STRING \ {"[", "]", NewLine}),
   entries : Seq((STRING \ {"[", "=", NewLine}) \X Seq(STRING \ {"[", ";", NewLine}))]
WellWritten(f) ==
  /\ f \in Seq(Sections)
  /\ \A n \in Range(NamesOf(f)) :
       /\ IsInjective(FieldsOf(EntriesOf(f, n)))
       /\ Range(Pieces(SortOf(EntriesOf(f, n)), ",")) \subseteq Range(Numbers)

ASSUME FilesAssumption == \A f \in Files : WellWritten(f)

-----------------------------------------------------------------------------
(* Arguments of a page.                                                    *)

\* get_host_name: the server's own name.
get_host_name == OwnHost

\* common_report_part: what of the query string a page uses.  The user's handler
\* (q.admin, performance_user_handler) shows one host only.
common_report_part(q) ==
  [q EXCEPT !.prd  = IF @ \in 1..10 THEN @ ELSE 1,
            !.host = IF q.admin THEN {{get_host_name}} ELSE @,
            !.sort = IF @ \in 1..12 THEN @ ELSE 1,
            !.tp   = IF @ \in 0..1 THEN @ ELSE 0]

\* common_report_part_no_show does the same for a picture.
common_report_part_no_show(q) ==
  [q EXCEPT !.prd  = IF @ \in 1..10 THEN @ ELSE 1,
            !.host = IF q.admin THEN {{get_host_name}} ELSE @,
            !.sort = IF @ \in 1..12 THEN @ ELSE 1,
            !.tp   = IF @ \in 0..1 THEN @ ELSE 0]

-----------------------------------------------------------------------------
(* The pages: the answers the database may give for each.                  *)

show_max_no_graph_page(a)          == get_cpu_max_text_info(table, a, db, now)
show_max_no_graph_page_no_hard(a)  == get_cpu_max_text_info_no_hard(table, a, db, now)
show_max_mem_no_graph_page(a)      == get_mem_max_text_info(table, a, db, now)
show_max_mem_no_graph_page_no_hard(a) == get_mem_max_text_info_no_hard(table, a, db, now)
show_max_time_no_graph_page(a)     == get_time_max_text_info(table, a, db, now)
show_max_time_no_graph_page_no_hard(a) == get_time_max_text_info_no_hard(table, a, db, now)
show_host_no_graph_page(a)         == get_host_text_info(table, a, db, now)
show_host_average_no_graph_page(a) == get_avg_text_info(table, a, db, now)
show_exec_range_no_graph_page(a)   == get_exec_tm(table, a, db, now)
show_exec_range_no_graph_page_common(a) == get_exec_tm_common(table, a, db, now)
custom_report_no_graph_page(a, item) == get_custom_text_info(table, a, db, now, item)

\* performance_module_show_index_no_graph_page_no_data: no query at all.
show_index_no_graph_page_no_data == {[rows |-> <<>>, err |-> FALSE]}

\* performance_module_show_graph_page: an image, which is a request of its own.
show_graph_page == {[rows |-> <<>>, err |-> FALSE]}

\* form_page_content, the pages: what is shown under each number.  The listing
\* (0 and 100), which asks twice, is ReadRows and ReadCount below.
Page(q, a) ==
  CASE q.info = 1  -> show_max_no_graph_page(a)
    [] q.info = 2  -> show_host_no_graph_page(a)
    [] q.info = 3  -> show_max_mem_no_graph_page(a)
    [] q.info = 4  -> show_max_time_no_graph_page(a)
    [] q.info = 7  -> show_host_average_no_graph_page(a)
    [] q.info \in 8..17 -> show_graph_page
    [] q.info = 20 -> show_exec_range_no_graph_page(a)
    [] q.info = 30 -> show_max_no_graph_page_no_hard(a)
    [] q.info = 31 -> show_max_mem_no_graph_page_no_hard(a)
    [] q.info = 32 -> show_max_time_no_graph_page_no_hard(a)
    [] q.info = 33 -> show_exec_range_no_graph_page_common(a)
    [] q.info >= 500 /\ get_repot_item(items, q.info - 500) # {} ->
         custom_report_no_graph_page(a, CHOOSE i \in get_repot_item(items, q.info - 500) : TRUE)
    [] OTHER -> show_index_no_graph_page_no_data

-----------------------------------------------------------------------------
(* The pictures: a query, the figure each row adds, and what is drawn.  An  *)
(* error leaves an empty image.                                            *)

\* The figures by number, of a second and of a host.
Figures == <<"cpu", "memory", "bytes_read", "bytes_write">>

\* show_row3, show_row4_data, show_row3_data: the array the chart is made of.
show_row3(rows, number) ==
  [d \in {r.dt : r \in Range(rows)} |->
     (CHOOSE r \in Range(rows) : r.dt = d)[Figures[number + 1]]]
show_row4_data(rows, number) ==
  [k \in DOMAIN rows |-> [name |-> rows[k].host, value |-> rows[k][Figures[number + 1]]]]
show_row3_data(rows) ==
  [k \in DOMAIN rows |-> [name |-> rows[k].host, value |-> rows[k].prc]]

\* show_graph_page_cpu, ..memory, ..ioread, ..iowrite
Bars(answer, number) ==
  [what |-> Figures[number + 1], data |-> show_row3(answer.rows, number),
   drawn |-> create_bars(show_row3(answer.rows, number))]
show_graph_page_cpu(answer)     == Bars(answer, 0)
show_graph_page_memory(answer)  == Bars(answer, 1)
show_graph_page_ioread(answer)  == Bars(answer, 2)
show_graph_page_iowrite(answer) == Bars(answer, 3)

\* show_host_graph_page, show_host_average_graph_cpu, .._mem, .._ioread, .._iowrite:
\* the four averages are all asked for figure 0.
Pie(what, data) == [what |-> what, data |-> data, drawn |-> create_pie(data)]
show_host_graph_page(answer) == Pie("requests", show_row3_data(answer.rows))
show_host_average_graph_cpu(answer)     == Pie("cpu", show_row4_data(answer.rows, 0))
show_host_average_graph_mem(answer)     == Pie("memory", show_row4_data(answer.rows, 0))
show_host_average_graph_ioread(answer)  == Pie("bytes_read", show_row4_data(answer.rows, 0))
show_host_average_graph_iowrite(answer) == Pie("bytes_write", show_row4_data(answer.rows, 0))

\* form_page_content, the pictures: the query and the chart of each number.
PictureQuery(q, a) ==
  CASE q.info = 11 -> get_host_text_info_picture(table, a, db, now)
    [] q.info = 13 -> get_avg_text_info_picture(table, a, db, now, 2)
    [] q.info = 14 -> get_avg_text_info_picture(table, a, db, now, 3)
    [] q.info = 15 -> get_avg_text_info_picture(table, a, db, now, 5)
    [] q.info = 16 -> get_avg_text_info_picture(table, a, db, now, 6)
    [] OTHER       -> get_full_text_info_picture(table, a, db, now)
Picture(q, answer) ==
  CASE q.info = 9  -> show_graph_page_memory(answer)
    [] q.info = 10 -> show_graph_page_ioread(answer)
    [] q.info = 17 -> show_graph_page_iowrite(answer)
    [] q.info = 11 -> show_host_graph_page(answer)
    [] q.info = 13 -> show_host_average_graph_cpu(answer)
    [] q.info = 14 -> show_host_average_graph_mem(answer)
    [] q.info = 15 -> show_host_average_graph_ioread(answer)
    [] q.info = 16 -> show_host_average_graph_iowrite(answer)
    [] OTHER       -> show_graph_page_cpu(answer)

-----------------------------------------------------------------------------
(* The steps.                                                              *)

Init ==
  /\ table = {}
  /\ nextId = 1
  /\ now = 1
  /\ db \in {[type |-> d.type, host_id |-> d.host_id, read |-> TRUE, write |-> TRUE,
                up |-> TRUE] :
               d \in Databases}
  /\ file \in Files
  /\ items = parse_reports(Text(file), 0)
  /\ screen = Blank

\* Saving a row: sql_adapter_get_insert_table.  An insert that fails is logged.
Row(s, c, w, hostnm) ==
  [id |-> nextId, dateadd |-> now, host |-> s.host, uri |-> s.uri, script |-> s.script,
   cpu |-> w.cpu, memory |-> c.memory, exc_time |-> w.time, cpu_sec |-> w.cpu_sec,
   memory_mb |-> c.memory_mb, bytes_read |-> c.io.read, bytes_write |-> c.io.write,
   hostnm |-> hostnm]

Insert(row) == table' = table \cup {row} /\ nextId' = nextId + 1

\* A request is served, measured by the daemon and saved, or not.
Serve(s) ==
  LET c == save_counters(Top, Cpus, s.begin, s.end, s.max_mem)
      w == save_to_db(c, Limit, 100, MaxPCPU(Top, Cpus), External, s.host)
  IN /\ nextId <= MaxRows
     /\ db' = IF w.write THEN Reconnected(db, "write") ELSE db
     /\ \/ w.write /\ db'.write /\ db.up /\ Insert(Row(s, c, w, InsertedHostName(db)))
        \/ UNCHANGED <<table, nextId>>
     /\ screen' = IF screen.kind = "walk" THEN screen
                  ELSE [kind |-> "served", real |-> Real(s.end.at - s.begin.at),
                        time |-> c.time, saved |-> w.write]
     /\ UNCHANGED <<now, items, file>>

\* Another server, with its own PerformanceHostId, saves to the same database.
OtherServer(s) ==
  LET c == save_counters(Top, Cpus, s.begin, s.end, s.max_mem)
      w == save_to_db(c, NoLimit, 100, MaxPCPU(Top, Cpus), {}, s.host)
  IN /\ nextId <= MaxRows /\ db.up /\ db.type # "sqlite"
     /\ Insert(Row(s, c, w, "other"))
     /\ UNCHANGED screen
     /\ UNCHANGED <<now, db, items, file>>

\* performance_module_alarm, sql_adapter_get_delete_table: rows of days that are
\* kept no longer.
Alarm ==
  LET kept == {r \in table : Date(r.dateadd) >= Date(now) - History}
  IN /\ db' = Reconnected(db, "write")
     /\ table' = IF db'.write /\ db.up THEN kept ELSE table
     /\ <<db, table>>' # <<db, table>>
     /\ UNCHANGED screen
     /\ UNCHANGED <<nextId, now, items, file>>

Tick ==
  /\ now < MaxNow
  /\ now' = now + 1
  /\ UNCHANGED screen
  /\ UNCHANGED <<table, nextId, db, items, file>>

\* The database server goes away and comes back.
ServerFails ==
  /\ db.up /\ db.type # "sqlite"
  /\ db' = [db EXCEPT !.up = FALSE]
  /\ UNCHANGED <<table, nextId, now, items, file, screen>>
ServerReturns ==
  /\ ~db.up
  /\ db' = [db EXCEPT !.up = TRUE]
  /\ UNCHANGED <<table, nextId, now, items, file, screen>>

Listing(q) == ~q.pic /\ q.info \in {0, 100}

\* Pages without a query.
Asks(q) ==
  q.info \in {1, 2, 3, 4, 7, 20, 30, 31, 32, 33} \/ get_repot_item(items, q.info - 500) # {}

Shown(q, a, ans) == [kind |-> "page", q |-> q, a |-> a, rows |-> ans.rows, err |-> ans.err]

\* performance_module_handler and form_page_content: a page.
Open(q) ==
  LET a == common_report_part(q)
  IN /\ ~q.pic /\ ~Listing(q) /\ screen = Blank
     /\ db' = IF Asks(q) THEN Reconnected(db, "read") ELSE db
     /\ \E ans \in Page(q, a) : screen' = Shown(q, a, ans)
     /\ UNCHANGED <<table, nextId, now, items, file>>

\* A picture; an error leaves it out.
Look(q) ==
  LET a == common_report_part_no_show(q)
  IN /\ q.pic /\ screen = Blank
     /\ db' = Reconnected(db, "read")
     /\ \E ans \in PictureQuery(q, a) :
          screen' = IF ans.err THEN Shown(q, a, ans)
                    ELSE [kind |-> "picture", q |-> q, a |-> a, pic |-> Picture(q, ans)]
     /\ UNCHANGED <<table, nextId, now, items, file>>

-----------------------------------------------------------------------------
(* The listing: the rows of a page and then, in a second query, how many    *)
(* there are, which makes the links.  A walk is a user's way from the first *)
(* page to the last; it ends at a page that shows no rows or no links.      *)

Ids(rows) == {r.id : r \in Range(rows)}

\* performance_module_show_index_no_graph_page, the first query.  `start' are
\* the rows there were for the first page, `before' those of the pages before.
ReadRows(q, filters, start, before) ==
  LET a == common_report_part(q)
  IN /\ db' = Reconnected(db, "read")
     /\ \E ans \in get_full_text_info(table, a, db, now) :
          screen' = IF ans.err \/ ans.rows = <<>> THEN Shown(q, a, ans)
                    ELSE [kind |-> "walk", q |-> q, a |-> a, filters |-> filters,
                          start |-> start, before |-> before,
                          rows |-> Ids(ans.rows), links |-> 0]
     /\ UNCHANGED <<table, nextId, now, items, file>>

Filters(q) == <<q.host, q.script, q.uri>>

List(q) ==
  /\ Listing(q) /\ screen = Blank
  /\ LET all == {r.id : r \in Where(table, common_report_part(q), db, now)}
     IN ReadRows(q, Filters(q), IF q.page <= 1 THEN all ELSE {}, {})

\* show_row2: the number of pages.
show_row2(count) == CeilDiv(count, PerPage)

\* show_row2, the links: the query string without its parameter "page" and with
\* the new one.  What it takes out is the first place that reads "page": a
\* filter if one does, and then an old number stays, in front of the new one.
Link(q, page) ==
  IF \A f \in {"host", "script", "uri"} : q[f] \cap WithPage = {}
    THEN [q EXCEPT !.page = page]
    ELSE LET cut == CHOOSE f \in {"host", "script", "uri"} : q[f] \cap WithPage # {}
         IN [q EXCEPT ![cut] = {}, !.page = IF @ # 0 THEN @ ELSE page]

\* The second query.
ReadCount ==
  /\ screen.kind = "walk" /\ screen.links = 0
  /\ db' = Reconnected(db, "read")
  /\ \E ans \in get_full_text_info_count(table, screen.a, db, now) :
       screen' = IF ans.err \/ ans.rows = <<>> \/ ans.rows = <<0>> THEN Blank
                 ELSE [screen EXCEPT !.links = show_row2(ans.rows[1])]
  /\ UNCHANGED <<table, nextId, now, items, file>>

AtPage == Max({1, screen.q.page})

FollowLink ==
  /\ screen.kind = "walk" /\ screen.links > AtPage
  /\ LET q == Link(screen.q, AtPage + 1)
     IN ReadRows(q, screen.filters, screen.start, screen.before \cup screen.rows)

\* A page is made and forgotten: what is on the screen has no effect on what can
\* happen next, so nothing else happens until it is closed.  A walk goes on.
Close ==
  /\ screen # Blank
  /\ screen' = Blank
  /\ UNCHANGED <<table, nextId, now, db, items, file>>

Steps ==
  \/ \E s \in Samples : Serve(s)
  \/ \E s \in Others : OtherServer(s)
  \/ Alarm \/ Tick \/ ServerFails \/ ServerReturns
  \/ \E q \in PageQueries : Open(q) \/ Look(q) \/ List(q)
  \/ ReadCount \/ FollowLink

Next == (screen.kind \in {"blank", "walk"} /\ Steps) \/ Close

Spec == Init /\ [][Next]_vars

-----------------------------------------------------------------------------
(* Properties.                                                             *)

\* Every variable stays in its type.
TypeOK ==
  /\ \A r \in table : r.id \in 1..(nextId - 1) /\ r.dateadd \in 1..now
  /\ nextId \in 1..(MaxRows + 1)
  /\ now \in 1..MaxNow
  /\ db.read \in BOOLEAN /\ db.write \in BOOLEAN /\ db.up \in BOOLEAN
  /\ screen.kind \in {"blank", "page", "picture", "walk", "served"}

Walking(sort, tp) == screen.kind = "walk" /\ screen.a.sort = sort /\ screen.a.tp = tp

\* A user who follows the links of the listing from the first page to the last,
\* newest rows first, has seen every row that was there when he began and still
\* is, however many are saved and deleted meanwhile (show_row2, get_limit).
DescNeverSkips ==
  Walking(1, 0) /\ screen.links # 0 /\ AtPage >= screen.links =>
    screen.start \cap {r.id : r \in get_date_period(table, screen.a, now)}
      \subseteq screen.before \cup screen.rows

\* Oldest rows first he sees no row twice, if the links kept his filters, which
\* they do not when one reads "page".
AscNeverRepeats ==
  Walking(1, 1) /\ screen.filters = Filters(screen.q) => screen.rows \cap screen.before = {}

\* The daily delete takes only rows that no page by days could show any more:
\* it and get_date_period agree on what is kept.
TrimmedWereInvisible ==
  [][History > 0 =>
       \A r \in table \ table', prd \in 1..10 :
         r \notin get_date_period(table, [prd |-> prd, prd_b |-> 0, prd_e |-> 0], now)]_vars

MaximumOf(info) == CASE info \in {1, 30} -> "cpu" [] info \in {3, 31} -> "memory"
                     [] OTHER -> "exc_time"

Whole(infos) ==
  screen.kind = "page" /\ screen.q.info \in infos /\ ~screen.err /\ screen.rows # <<>>

\* The page of maxima per host has one row for each host of the period and the
\* filters, and no row of that host is above it; the page of maxima of all has
\* all the rows that none is above.
MaximaPerHost ==
  LET W == Where(table, screen.a, db, now)
      col == MaximumOf(screen.q.info)
      shown == Range(screen.rows)
  IN /\ Whole({1, 3, 4}) =>
          /\ shown \subseteq W
          /\ \A h \in {r.host : r \in W} :
               /\ Cardinality({k \in DOMAIN screen.rows : screen.rows[k].host = h}) = 1
               /\ \A r \in shown, s \in W : r.host = h /\ s.host = h => s[col] <= r[col]
     /\ Whole({30, 31, 32}) =>
          \A r \in W : r \in shown <=> \A s \in W : s[col] <= r[col]

\* On the pages of execution times every request is counted once, and the page
\* by host, which prints no host in its rows, shows each below the heading of
\* its own host, if the host sorts behind the labels and NULL.
CountedUnderOwnHost ==
  LET rows == screen.rows
      Heads(k) == rows[k].b1 = rows[k].host
      heads(k) == {j \in 1..k : Heads(j)}
  IN Whole({20, 33}) =>
       /\ FoldLeft(LAMBDA n, r : n + r.count, 0, rows) =
            Cardinality(Where(table, screen.a, db, now))
       /\ screen.q.info = 20 =>
            \A k \in DOMAIN rows :
              (\A l \in Labels \cup {Null} : Place(rows[k].host) > Place(l)) =>
                heads(k) # {} /\ rows[Max(heads(k))].host = rows[k].host

Pictured(infos) == screen.kind = "picture" /\ screen.q.info \in infos

\* Every second with a figure is in one bar, but for those of the first column,
\* and no bar is higher than the plot.
BarsShowPoints ==
  Pictured({8, 9, 10, 17}) =>
    LET data  == screen.pic.data
        drawn == screen.pic.drawn
    IN /\ \A d \in DOMAIN data :
            data[d] > 0 /\ d >= approximate_data(data)[0].to =>
              Cardinality({b \in drawn : b.from <= d /\ d < b.to}) = 1
       /\ \A b \in drawn : b.high \in 0..PlotHeight

\* The slices of a pie go round the circle once, to a degree: each begins where the
\* last one ended and is as wide as its share, the first at 0 and the last to 360 or,
\* rounded up, 361.  They come largest first, no two in one colour, and what does not
\* get one of its own is in the last.
PieIsWhole ==
  Pictured({11, 13, 14, 15, 16}) =>
    LET data == screen.pic.data
        pie  == screen.pic.drawn
    IN Sum(data) > 0 =>
         /\ Len(pie) \in 1..MaxColor
         /\ pie[1].arc[1] = 0 /\ pie[Len(pie)].arc[2] \in {360, 361}
         /\ \A k \in 1..Len(pie) :
              (pie[k].arc[2] - pie[k].arc[1]) * Sum(data) - 360 * pie[k].value
                \in -Sum(data)..Sum(data)
         /\ \A k \in 2..Len(pie) : pie[k].arc[1] = pie[k - 1].arc[2]
         /\ \A k \in 2..Len(pie) : pie[k].name # "other" => pie[k].value <= pie[k - 1].value
         /\ \A s \in Range(data), p \in Range(pie) :
              p.name # "other" /\ s.name \notin {x.name : x \in Range(pie)} => s.value <= p.value
         /\ Sum(pie) = Sum(data)

\* The measured time of a request is less than a second off.
TimesWithinASecond ==
  screen.kind = "served" =>
    screen.time - screen.real \in (1 - Second)..(Second - 1)

\* What a file describes: a report for each name, with the fields and texts of all
\* its sections, a later text in the place of an earlier one.
Describes(f) ==
  [k \in DOMAIN NamesOf(f) |->
     LET n == NamesOf(f)[k]
         l == EntriesOf(f, n)
     IN [name |-> n, id |-> k - 1, fields_list |-> FieldsOf(l),
         ssql |-> SqlOf(l, "ssql"), msql |-> SqlOf(l, "msql"), psql |-> SqlOf(l, "psql"),
         sorted |-> {j \in DOMAIN FieldsOf(l) \cap DOMAIN Numbers :
                       Numbers[j] \in Range(Pieces(SortOf(l), ","))}]]
Described == [f \in Files |-> Describes(f)]

\* The reports are those the file describes (read_custom_report, parse_reports).
ParsedAsWritten ==
  /\ Len(items) = Len(Described[file])
  /\ \A k \in DOMAIN items :
       LET i == items[k]  d == Described[file][k]
       IN /\ \A col \in DOMAIN d \ {"sorted"} : i[col] = d[col]
          /\ {j \in DOMAIN i.fields_list : is_sorted_field(i, i.fields_list[j])} = d.sorted
==============================================================================
