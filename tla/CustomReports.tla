---------------------------- MODULE CustomReports ----------------------------
(***************************************************************************)
(* custom_report.c: the file of the administrator's own reports, as the    *)
(* scanner of custom_report_parse_reports reads it.                        *)
(*                                                                         *)
(* A file is a sequence of tokens: the characters the scanner looks for    *)
(* ("[", "]", "=", ";"), those the values are split at ("|" and ","), a    *)
(* newline, and words, each of which stands for some other text.  A name   *)
(* holds no "[" and no key is empty: the scanner would read outside the    *)
(* key.                                                                    *)
(***************************************************************************)
EXTENDS Integers, Sequences, SequencesExt, Functions

NewLine == "newline"

\* Seeded fault: fields are numbered from 0.
NumberFromZero == [w \in {"1", "2", "3"} |-> CASE w = "1" -> 2 [] w = "2" -> 3 [] OTHER -> 4]

\* Words that are numbers (SORT=1,2), apr_atoi64.
Number == [w \in {"1", "2", "3"} |-> CASE w = "1" -> 1 [] w = "2" -> 2 [] OTHER -> 3]

\* custom_report_stripnlspc: no white space at either end (none is kept inside
\* a name either, as a word is never followed by a newline there).
stripnlspc(text) == FoldLeft(LAMBDA t, w : IF w = NewLine THEN t ELSE Append(t, w), <<>>, text)

\* strtok: the pieces between separators, of which several in a row are like one.
Cut(cut, w, sep) ==
  CASE w = sep  -> [cut EXCEPT !.inside = FALSE]
    [] w # sep /\ cut.inside  ->
         [cut EXCEPT !.pieces[Len(cut.pieces)] = Append(@, w)]
    [] w # sep /\ ~cut.inside -> [inside |-> TRUE, pieces |-> Append(cut.pieces, <<w>>)]
Pieces(text, sep) ==
  FoldLeft(LAMBDA cut, w : Cut(cut, w, sep), [inside |-> FALSE, pieces |-> <<>>], text).pieces

\* custom_report_pasre_sql_flds, custom_report_replace: a placeholder is the
\* name of a column or of the table.
Placeholders ==
  << <<":ITEMNUMBER:", "id">>, <<":DATEADD:", "dateadd">>, <<":FORHOST:", "host">>,
     <<":REQUESTURI:", "uri">>, <<":CALLEDSCRIPT:", "script">>, <<":CPUUSAGE:", "cpu">>,
     <<":MEMUSAGEINPRCT:", "memory">>, <<":EXECUTIONTIME:", "exc_time">>,
     <<":CPUUSAGEINSEC:", "cpu_sec">>, <<":MEMUSAGEINMB:", "memory_mb">>,
     <<":BYTESREAD:", "bytes_read">>, <<":BYTESWRITE:", "bytes_write">>,
     <<":HOSTNAME:", "hostnm">>, <<":TBL:", "performance">> >>
replace(text, what, to) == [k \in DOMAIN text |-> IF text[k] = what THEN to ELSE text[k]]
pasre_sql_flds(text) ==
  FoldLeft(LAMBDA t, p : replace(t, p[1], p[2]), text, Placeholders)

\* custom_report_pasre_sql_filter: the rows of `t' that are left when :PERIOD:
\* and :FILTER: are put in where the text has them.
pasre_sql_filter(text, t, period, filter) ==
  {r \in t : /\ ":PERIOD:" \in Range(text) => r \in period
             /\ ":FILTER:" \in Range(text) => r \in filter}

-----------------------------------------------------------------------------
(* Reading the file.                                                       *)

NoItem(name, id) ==
  [id |-> id, name |-> name, fields_list |-> <<>>, sorted_fields |-> <<>>,
   ssql |-> <<>>, msql |-> <<>>, psql |-> <<>>, pagination |-> FALSE, prp_sort |-> <<>>]

\* custom_report_parse_value: a header adds to the fields there are.
parse_value(key, value, item) ==
  CASE key = <<"header">> -> [item EXCEPT !.fields_list = @ \o Pieces(value, "|")]
    [] key = <<"ssql">> -> [item EXCEPT !.ssql = pasre_sql_flds(value)]
    [] key = <<"msql">> -> [item EXCEPT !.msql = pasre_sql_flds(value)]
    [] key = <<"psql">> -> [item EXCEPT !.psql = pasre_sql_flds(value)]
    [] key = <<"pagination">> -> [item EXCEPT !.pagination = (value = <<"yes">>)]
    [] key = <<"sort">> -> [item EXCEPT !.prp_sort = value]
    [] OTHER -> item

\* custom_report_post_prcess: the fields with the numbers given, those there
\* are (0 is not one of the numbers: the code would read before the array).
Push(item, l, number) ==
  IF Number[number] <= Len(item.fields_list)
    THEN Append(l, item.fields_list[Number[number]]) ELSE l
post_prcess(item) ==
  [item EXCEPT !.sorted_fields =
     FoldLeft(LAMBDA l, p : Push(item, l, p[1]), <<>>, Pieces(item.prp_sort, ","))]

\* `reading' is what fnd_section_name, fnd_key and fnd_val say the scanner is
\* in; `text' what it has passed of that, `sec' the number of the report.
Start == [reading |-> "nothing", text |-> <<>>, key |-> <<>>, sec |-> 0, items |-> <<>>]

\* The value that ends here goes to the report, if the text is in one.
Store(s) ==
  IF s.reading = "value" /\ s.sec # 0
    THEN [s EXCEPT !.items[s.sec] = parse_value(s.key, stripnlspc(s.text), @)]
    ELSE s

\* At "]": the report of this name, a new one if there is none.
Section(s, first) ==
  LET name  == stripnlspc(s.text)
      items == IF \E k \in DOMAIN s.items : s.items[k].name = name THEN s.items
               ELSE Append(s.items, NoItem(name, first + Len(s.items)))
  IN [s EXCEPT !.reading = "key", !.text = <<>>, !.items = items,
               !.sec = CHOOSE k \in DOMAIN items : items[k].name = name]

\* One character.  fnd_key is one less after ";" than after "]": the key is
\* then taken without its first character, which is a newline as a rule.
Scan(s, c, first) ==
  CASE c = "[" -> [s EXCEPT !.reading = "section", !.text = <<>>]
    [] c = "]" /\ s.reading = "section" -> Section(s, first)
    [] c = "=" /\ s.reading = "key" ->
         [s EXCEPT !.reading = "value", !.text = <<>>, !.key = stripnlspc(s.text)]
    [] c = "=" /\ s.reading = "next key" ->
         [s EXCEPT !.reading = "value", !.text = <<>>, !.key = stripnlspc(Tail(s.text))]
    [] c = ";" /\ s.reading \in {"nothing", "value"} ->
         [Store(s) EXCEPT !.reading = "next key", !.text = <<>>]
    [] OTHER -> [s EXCEPT !.text = Append(@, c)]

\* custom_report_parse_reports: the last value may end with the file.  Reports
\* are numbered on from those read before (global_custom_counter).
Scanned(file, first) ==
  LET after[n \in 0..Len(file)] == IF n = 0 THEN Start ELSE Scan(after[n - 1], file[n], first)
  IN after[Len(file)]
parse_reports(file, first) ==
  LET read == Store(Scanned(file, first)).items
  IN [k \in DOMAIN read |-> post_prcess(read[k])]

-----------------------------------------------------------------------------
(* Using what was read.                                                    *)

\* custom_report_get_repots_list: the entries of the menu, in any order.
get_repots_list(items) == {[report_name |-> i.name, id |-> i.id] : i \in Range(items)}

\* custom_report_get_repot_item
get_repot_item(items, id) == {i \in Range(items) : i.id = id}

\* custom_report_is_sorted_field: by the name of the field.
is_sorted_field(item, fld) == fld \in Range(item.sorted_fields)
==============================================================================
