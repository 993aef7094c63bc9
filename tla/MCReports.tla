------------------------------ MODULE MCReports ------------------------------
EXTENDS Reports

MCCollation == <<Null, "0", "0-0.1", "0.1-0.3", "0.3-0.6", "0.6-1", "1-3", "10.0.0.1",
                 "3-10", ">10", "/a", "/b", "/page", "ant.org", "bee.org">>

At(t, ticks, total, io, mem) ==
  [at |-> t, ticks |-> ticks, total |-> total, io |-> [read |-> io, write |-> 2 * io],
   total_mem |-> 200, resident |-> mem]
Quiet == [rate |-> 0, mb |-> 0]
Sample(host, uri, script, begin, end) ==
  [host |-> host, uri |-> uri, script |-> script, begin |-> begin, end |-> end, max_mem |-> Quiet]

MCSamples ==
  {Sample("ant.org", "/a", "/a", At(10, 0, 0, 0, 20), At(170, 60, 100, 2048, 40)),
   Sample("ant.org", "/page", "/a", At(30, 0, 0, 4096, 10), At(80, 20, 100, 0, 10)),
   Sample("10.0.0.1", "/b", "/b", At(90, 0, 0, 0, 60), At(1290, 10, 100, 1024, 10))}

\* The clock was set back meanwhile.
MCOthers == {Sample("bee.org", "/b", "/b", At(340, 0, 0, 0, 10), At(320, 50, 100, 0, 10))}

Ask == [info |-> 0, pic |-> FALSE, admin |-> FALSE, prd |-> 0, prd_b |-> 0, prd_e |-> 0,
        host |-> {}, script |-> {}, uri |-> {}, sort |-> 0, tp |-> 0, page |-> 0]

MCPageQueries ==
  {[Ask EXCEPT !.info = i] : i \in {0, 1, 2, 3, 4, 7, 20, 30, 31, 32, 33, 500, 600}}
    \cup {[Ask EXCEPT !.info = i, !.pic = TRUE] : i \in {8, 9, 10, 11, 13, 14, 15, 16, 17}}
    \cup {[Ask EXCEPT !.tp = 1, !.prd = 3], [Ask EXCEPT !.tp = 1, !.uri = {{"/page"}}],
          [Ask EXCEPT !.uri = {{"/page"}}, !.page = 2], [Ask EXCEPT !.info = 8],
          [Ask EXCEPT !.info = 1, !.admin = TRUE],
          [Ask EXCEPT !.info = 9, !.pic = TRUE, !.prd_b = 1, !.prd_e = 3], [Ask EXCEPT !.info = 30, !.prd_b = 1, !.prd_e = 2]}

MCDatabases == {[type |-> "sqlite", host_id |-> "localhost"],
                [type |-> "mysql", host_id |-> "web"],
                [type |-> "mysql", host_id |-> "localhost"]}
MCExternal == {{"ant.org"}, {"10.0.0.1"}}
MCLimit == -50
MCWithPage == {{"/page"}}

Sel == <<":FORHOST:", ":TBL:", ":PERIOD:">>
\* The sums of the pies that are asked for, as far as they are odd.
MCRoundsUp == {<<n, n>> : n \in {k \in 1..200 : k % 2 = 1}} \cup {<<k, 2 * k>> : k \in 1..100}

MCFiles ==
  {<<[name |-> <<"Hosts">>,
      entries |-> << <<"header", <<"Host", "|", "Count">> >>, <<"ssql", Sel>>,
                     <<"msql", Sel \o <<":FILTER:">> >>, <<"psql", Sel>>,
                     <<"sort", <<"2", ",", "3">> >>, <<"pagination", <<"yes">> >> >>],
     [name |-> <<"Scripts">>, entries |-> << <<"header", <<"Script">> >> >>],
     [name |-> <<"Hosts">>, entries |-> << <<"header", <<"Time">> >>,
                                           <<"ssql", <<":CPUUSAGE:", ":FILTER:">> >> >>]>>}
==============================================================================
