------------------------------ MODULE Measure ------------------------------
(***************************************************************************)
(* From two messages to the figures of a row: send_info.c takes the time   *)
(* and the counters, save_counters_ut subtracts them, and                  *)
(* performance_module_save_to_db decides what is written.                  *)
(*                                                                         *)
(* Moments are in hundredths of a second, the times the code computes with *)
(* in hundred-thousandths: it adds tv_usec / SEC2NANO to tv_sec, and a     *)
(* hundredth of a second is 10 000 of the one over 10^9 of the other.      *)
(***************************************************************************)
EXTENDS Integers, FiniteSets, FiniteSetsExt

Second == 100000

\* A duration in hundredths, in the units of the code's times.
Real(c) == c * 1000

\* No limit is given (performance_min_exec_time = 123456789).
NoLimit == 123456789

-----------------------------------------------------------------------------
\* Seeded fault: the hundredths are taken for seconds.
StampCoarse(t) == (t \div 100) * Second + (t % 100) * Second

\* modperformance_sendbegin_info_send_info and ..sendend..: time_start.
Stamp(t) == (t \div 100) * Second + (t % 100)

\* save_counters_ut: new->time_start - old->data.time_start.
ReqTime(begin, end) == Stamp(end) - Stamp(begin)

\* maxPCPU: one processor in Solaris mode, all of them otherwise.
MaxPCPU(top, cpus) == 100 * (IF top = 2 THEN 1 ELSE cpus)

\* CPU is a share of the machine's ticks (the default), or with
\* PerformanceUseCPUTopMode of the time, for all processors or for one; `used'
\* are the ticks of the thread and `total' those of the machine in between.
math_get_pcpu(top, cpus, used, total, time) ==
  LET own  == CASE top = 0 /\ total > 0 -> (used * 100) \div total
                [] top # 0 /\ time > 0  ->
                     (used * Second) \div (time * (IF top = 2 THEN cpus ELSE 1))
                [] OTHER -> 0
  IN  Min({own, MaxPCPU(top, cpus)})

\* Kilobytes between two readings; a counter that went back counts as nothing.
math_get_io(old, new) ==
  [k \in {"write", "read"} |-> IF new[k] > old[k] THEN (new[k] - old[k]) \div 1024
                                                  ELSE 0]

\* Percent of the memory and megabytes; no memory counts as none used (isnan,
\* isinf).
math_get_mem(total, resident) ==
  [rate |-> IF total = 0 THEN 0 ELSE (100 * resident) \div total, mb |-> resident]

\* What a row says of the request: memory is the largest of BEGIN's, of END's
\* and of what the sampler saw in between.
save_counters(top, cpus, old, new, max_mem) ==
  LET time == ReqTime(old.at, new.at)
      mem == {math_get_mem(m.total_mem, m.resident) : m \in {old, new}} \cup {max_mem}
  IN [time |-> time, io |-> math_get_io(old.io, new.io),
      memory |-> Max({m.rate : m \in mem}), memory_mb |-> Max({m.mb : m \in mem}),
      cpu |-> math_get_pcpu(top, cpus, new.ticks - old.ticks,
                            new.total - old.total, time)]

-----------------------------------------------------------------------------
\* A filter is a set of patterns, each the set of the host names it is part of.
match_hostname(allowed, host) == \E pattern \in allowed : host \in pattern

\* A request of less than `limit' hundredths of a second.
Short(time, limit) == limit # NoLimit /\ time < Real(IF limit < 0 THEN -limit ELSE limit)

\* performance_module_save_to_db: a request below the limit is not written
\* (HARD, stored as a negative limit) or written with no CPU (SOFT); below one
\* clock tick there is no CPU either.  The seconds of CPU are computed first.
\* `external' is performance_host_filter_external, {} for none.
save_to_db(c, limit, hz, most, external, host) ==
  [write   |-> /\ ~(Short(c.time, limit) /\ limit < 0)
               /\ external # {} => match_hostname(external, host),
   time    |-> c.time,
   cpu     |-> IF Short(c.time, limit) \/ c.time * hz < Second THEN 0 ELSE c.cpu,
   cpu_sec |-> (c.time * c.cpu) \div most]
==============================================================================
