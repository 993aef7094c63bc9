------------------------------- MODULE Worker -------------------------------
(***************************************************************************)
(* The threads of one httpd process, mod_performance.c: the content        *)
(* handler connects to the daemon and sends BEGIN, the log hook (or the    *)
(* output filter, PerformanceWorkMode Filter) sends END and closes.        *)
(*                                                                         *)
(* The two hooks only share a number: the descriptor, kept in the thread's *)
(* private data under `key', and again in sd_global.  Descriptors are the  *)
(* process's: a closed one is given to whoever opens next, another thread  *)
(* or the rest of httpd (client sockets, files: external).                 *)
(*                                                                         *)
(* A request may be redirected inside httpd; its handler then runs again   *)
(* in the same thread, the log hook once, at the end.  The requests that   *)
(* one log hook ends are a `chain'.  So are the subrequests its content    *)
(* makes (mod_include's): the handler does not look at r->main and takes   *)
(* them for requests, but no log hook is called for one.                   *)
(*                                                                         *)
(* That httpd cannot write a subrequest's output is left out (the filter   *)
(* then sends END at once, END to a closed number after it).               *)
(*                                                                         *)
(* The socket is non-blocking (PerformanceBlockedSocket Off, the default). *)
(***************************************************************************)
EXTENDS DaemonLife, Integers, Sequences

CONSTANTS
  Threads,
  MaxFd,       \* descriptors the process may have open
  MaxChains,   \* bound: how many requests arrive
  MaxSubs,     \* bound: how many subrequests one of them makes
  Modes,       \* values of registered_filter that are looked at
  Canonical    \* performance_use_cononical_name

ASSUME WorkerAssumption ==
  /\ MaxFd \in Nat \ {0}
  /\ MaxChains \in Nat
  /\ MaxSubs \in Nat
  /\ Modes \subseteq BOOLEAN
  /\ Canonical \in BOOLEAN

VARIABLES
  filterMode,  \* registered_filter: END from the output filter
  th,          \* per thread: where it is, its locals (reset when dead), its private data
  fds,         \* what each descriptor of the process is
  conns,       \* the connections made: [chain, kind, peer, log]
  chains       \* requests arrived so far

workerVars == <<filterMode, th, fds, conns, chains>>
vars == <<lifeVars, workerVars>>

NoSd  == 0
Free  == 0    \* in fds, where a positive number is a connection
Other == -1   \* ... and this is a client socket or a file of httpd

\* What a request's content handler does: answer, redirect as mod_rewrite's
\* redirect-handler, or fail into an ErrorDocument.  The last kind is a
\* subrequest of one that answers.
Asked == {"plain", "redirect", "error"}
Kinds == Asked \cup {"sub"}

\* daemon_proc.pid as the worker process inherited it: no restart changes it.
InheritedPid == 1

IdleThread == [pc |-> "idle", chain |-> 0, kind |-> "plain",
               selected |-> FALSE, filter |-> FALSE, subs |-> 0, tries |-> 0, sd |-> NoSd,
               key |-> NoSd, global |-> NoSd, used |-> FALSE]

Init ==
  /\ LifeInit
  /\ filterMode \in Modes
  /\ th = [t \in Threads |-> IdleThread]
  /\ fds = [d \in 1..MaxFd |-> Free]
  /\ conns = <<>> /\ chains = 0

FreeFds == {d \in 1..MaxFd : fds[d] = Free}

\* The descriptor that the next socket, open or accept returns.
Lowest(d) == d \in FreeFds /\ \A e \in FreeFds : d <= e

-----------------------------------------------------------------------------
(* performance_send_data_to, shutdown and close on whatever d is now.       *)

\* Written, it reaches the daemon if that is still the one connected to.
Sent(d, rec) ==
  IF fds[d] > 0 /\ conns[fds[d]].peer = daemon.pid
       /\ daemon.state \in {"listening", "serving"}
    THEN [conns EXCEPT ![fds[d]].log = Append(@, rec)]
    ELSE conns

Record(what, t) ==
  [what |-> what, chain |-> th[t].chain, selected |-> th[t].selected]

SendEnd(t, d) ==
  /\ conns' = Sent(d, Record("END", t))
  /\ fds' = [fds EXCEPT ![d] = Free]

SendNothing == UNCHANGED <<conns, fds>>

-----------------------------------------------------------------------------
(* Seeded faults: single steps as a plausible mistake would have them.  The *)
(* properties below are checked to fail when one replaces the real step.   *)

\* The request that redirects is monitored with canonical names too.
HandlerAlways(t, c, kind, selected) ==
  th' = [th EXCEPT ![t] = [@ EXCEPT !.chain = c, !.kind = kind,
           !.pc = IF selected THEN "connect" ELSE "content",
           !.selected = th[t].selected \/ selected,
           !.filter = selected /\ filterMode]]

\* A refused connection is always tried again.
ProbeForgetsTries(t) ==
  /\ th[t].pc = "probe"
  /\ IF daemon.pid = InheritedPid /\ daemon.state # "none"
       THEN th' = [th EXCEPT ![t] = [@ EXCEPT !.pc = "connect", !.tries = 0]]
       ELSE th' = [th EXCEPT ![t] = [@ EXCEPT !.pc = "content", !.tries = 0]]
  /\ UNCHANGED <<filterMode, fds, conns, chains>>

\* The descriptor is kept in a static variable and not per thread.
BeginShared(t) ==
  /\ th[t].pc = "begin"
  /\ th' = [u \in Threads |->
              IF u = t THEN [th[t] EXCEPT !.pc = "content", !.sd = NoSd,
                                          !.key = th[t].sd]
                       ELSE [th[u] EXCEPT !.key = th[t].sd]]
  /\ conns' = Sent(th[t].sd, Record("BEGIN", t))
  /\ UNCHANGED <<filterMode, fds, chains>>

\* The log hook does not clear the key.
LeaveKeepsKey(t) ==
  /\ th[t].pc = "log"
  /\ th' = [th EXCEPT ![t] = [@ EXCEPT !.pc = "idle", !.chain = 0, !.subs = 0,
              !.kind = "plain", !.selected = FALSE, !.used = FALSE]]
  /\ IF ~(filterMode /\ th[t].used) /\ th[t].key # NoSd
       THEN SendEnd(t, th[t].key) ELSE SendNothing
  /\ UNCHANGED <<filterMode, chains>>

-----------------------------------------------------------------------------
(* The content handler.                                                    *)

\* performance_module_handler of thread t up to connect_to_daemon, for a
\* request of chain c; `selected' is what the host, URI and script filters make
\* of it (the thread's own: whether they selected any of the chain).  With
\* canonical names the handler that redirects is left to the request it
\* redirects to.
Handler(t, c, kind, selected) ==
  LET need == selected /\ ~(Canonical /\ kind = "redirect")
  IN th' = [th EXCEPT ![t] = [@ EXCEPT !.chain = c, !.kind = kind,
              !.pc = IF need THEN "connect" ELSE "content",
              !.selected = th[t].selected \/ selected,
              !.filter = need /\ filterMode]]

\* httpd gives a request to a thread of the process, which it forked after
\* the first daemon.
Arrive(t) ==
  /\ th[t].pc = "idle" /\ chains < MaxChains /\ daemon.pid >= InheritedPid
  /\ \E kind \in Asked, selected \in BOOLEAN :
       Handler(t, chains + 1, kind, selected)
  /\ chains' = chains + 1
  /\ UNCHANGED <<filterMode, fds, conns>>

\* Outcomes of own_connect.  A full backlog is an error (EAGAIN), and so is a
\* file that is missing or not yet given to the workers' user.
Outcomes ==
  IF sock = {daemon.pid} /\ daemon.state \in {"listening", "serving"}
    THEN {"connected", "error"}
    ELSE IF sock = {} THEN {"error"} ELSE {"refused", "error"}

\* One attempt to connect with descriptor d: refused, it is made again once.
ConnectWith(t, out, d) ==
  LET connected == out = "connected"
      again     == out = "refused" /\ th[t].tries + 1 < 2
  IN
  /\ Lowest(d)
  /\ th' = [th EXCEPT ![t] = [@ EXCEPT
              !.tries = IF again THEN th[t].tries + 1 ELSE 0,
              !.sd = IF connected THEN d ELSE NoSd,
              !.pc = IF connected THEN "begin"
                     ELSE IF again THEN "probe" ELSE "content"]]
  /\ IF connected
       THEN /\ conns' = Append(conns, [chain |-> th[t].chain,
                  kind |-> th[t].kind, peer |-> daemon.pid, log |-> <<>>])
            /\ fds' = [fds EXCEPT ![d] = Len(conns) + 1]
       ELSE SendNothing

\* connect_to_daemon, one turn of the loop: socket, connect.
Connect(t) ==
  /\ th[t].pc = "connect"
  /\ IF FreeFds = {}
       THEN /\ th' = [th EXCEPT ![t] = [@ EXCEPT !.pc = "content", !.tries = 0]]
            /\ SendNothing
       ELSE \E out \in Outcomes, d \in FreeFds : ConnectWith(t, out, d)
  /\ UNCHANGED <<filterMode, chains>>

\* kill(daemon_proc.pid, 0): a dead child exists until it is reaped.
Probe(t) ==
  /\ th[t].pc = "probe"
  /\ IF daemon.pid = InheritedPid /\ daemon.state # "none"
       THEN th' = [th EXCEPT ![t].pc = "connect"]
       ELSE th' = [th EXCEPT ![t] = [@ EXCEPT !.pc = "content", !.tries = 0]]
  /\ UNCHANGED <<filterMode, fds, conns, chains>>

\* The descriptor is stored, in sd_global too, which only the output filter
\* reads, and BEGIN is sent.
Begin(t) ==
  /\ th[t].pc = "begin"
  /\ th' = [th EXCEPT ![t] = [@ EXCEPT !.pc = "content",
              !.key = th[t].sd, !.sd = NoSd,
              !.global = IF filterMode THEN th[t].sd ELSE NoSd]]
  /\ conns' = Sent(th[t].sd, Record("BEGIN", t))
  /\ UNCHANGED <<filterMode, fds, chains>>

-----------------------------------------------------------------------------
(* From the content to the end of the request.                             *)

\* ap_internal_redirect: the handler runs again for another request, which
\* does not inherit the content filters of this one.
Redirect(t) ==
  /\ th[t].pc = "content" /\ th[t].kind \in {"redirect", "error"}
  /\ \E selected \in BOOLEAN : Handler(t, th[t].chain, "plain", selected)
  /\ UNCHANGED <<filterMode, fds, conns, chains>>

\* The content includes a subrequest: the handler runs for it too, over the same
\* key.  Its own ap_modperf_out_filter comes behind httpd's that takes the end of
\* the stream off its output: it marks itself used if it is `shown' anything, and
\* sends no END.
Subrequest(t) ==
  /\ th[t].pc = "content" /\ th[t].kind \in {"plain", "sub"} /\ th[t].subs < MaxSubs
  /\ \E selected, shown \in BOOLEAN :
       th' = [th EXCEPT ![t] = [@ EXCEPT !.kind = "sub", !.subs = th[t].subs + 1,
                !.pc = IF selected THEN "connect" ELSE "content",
                !.selected = th[t].selected \/ selected,
                !.used = th[t].used \/ (selected /\ filterMode /\ shown)]]
  /\ UNCHANGED <<filterMode, fds, conns, chains>>

\* The last of the output passes ap_modperf_out_filter, if it is there.  END
\* goes to sd_global, of which only the local copy is reset.
Output(t) ==
  /\ th[t].pc = "content" /\ th[t].kind \in {"plain", "sub"}
  /\ th' = [th EXCEPT ![t] = [@ EXCEPT !.pc = "log", !.filter = FALSE,
              !.used = th[t].used \/ th[t].filter]]
  /\ IF th[t].filter /\ th[t].global # NoSd THEN SendEnd(t, th[t].global)
                                            ELSE SendNothing
  /\ UNCHANGED <<filterMode, chains>>

\* What stays in the thread when its request is over.
Done(t) == [th[t] EXCEPT !.pc = "idle", !.chain = 0, !.kind = "plain",
                             !.subs = 0, !.selected = FALSE]

\* performance_module_leave_handler.
LeaveHook(t) ==
  /\ th[t].pc = "log"
  /\ IF filterMode /\ th[t].used
     THEN /\ th' = [th EXCEPT ![t] = [Done(t) EXCEPT !.used = FALSE]]
          /\ SendNothing
     ELSE /\ th' = [th EXCEPT ![t] = [Done(t) EXCEPT !.key = NoSd]]
          /\ IF th[t].key # NoSd THEN SendEnd(t, th[t].key) ELSE SendNothing
  /\ UNCHANGED <<filterMode, chains>>

\* The rest of httpd opens and closes its own descriptors (external).
OtherOpens ==
  /\ \E d \in FreeFds : Lowest(d) /\ fds' = [fds EXCEPT ![d] = Other]
  /\ UNCHANGED <<filterMode, th, conns, chains>>

OtherCloses ==
  /\ \E d \in 1..MaxFd : fds[d] = Other /\ fds' = [fds EXCEPT ![d] = Free]
  /\ UNCHANGED <<filterMode, th, conns, chains>>

ThreadStep(t) ==
  \/ Connect(t) \/ Probe(t) \/ Begin(t)
  \/ Redirect(t) \/ Subrequest(t) \/ Output(t) \/ LeaveHook(t)

WorkerNext ==
  \/ \E t \in Threads : Arrive(t) \/ ThreadStep(t)
  \/ OtherOpens \/ OtherCloses

Next == (LifeNext /\ UNCHANGED workerVars) \/ (WorkerNext /\ UNCHANGED lifeVars)

Spec == Init /\ [][Next]_vars

-----------------------------------------------------------------------------
\* What is written to a connection, and the connection.
Records == [what: {"BEGIN", "END"}, chain: 0..MaxChains, selected: BOOLEAN]
Connection ==
  [chain: 0..MaxChains, kind: Kinds, peer: 0..MaxPid, log: Seq(Records)]

Pcs == {"idle", "connect", "probe", "begin", "content", "log"}

\* State of the worker and of the daemon's life.
TypeOK ==
  /\ LifeTypeOK
  /\ filterMode \in BOOLEAN
  /\ th \in [Threads -> [pc: Pcs, chain: 0..MaxChains, kind: Kinds,
               selected: BOOLEAN, filter: BOOLEAN, subs: 0..MaxSubs,
               tries: 0..1, sd: 0..MaxFd, key: 0..MaxFd, global: 0..MaxFd, used: BOOLEAN]]
  /\ fds \in [1..MaxFd -> {Other} \cup 0..Len(conns)]
  /\ conns \in Seq(Connection)
  /\ chains \in 0..MaxChains

\* With the log hook, the number under `key' is a descriptor the thread itself
\* opened for the request it is serving, still open: END, shutdown and close
\* hit nothing else, whoever reuses numbers (mod_performance.c:2443, 2553-2595).
KeyIsOwn ==
  ~filterMode => \A t \in Threads : th[t].key # NoSd =>
    /\ th[t].pc # "idle"
    /\ fds[th[t].key] > 0
    /\ conns[fds[th[t].key]].chain = th[t].chain

\* With the log hook, a connection carries BEGIN and then END of one request,
\* or loses the end of that to the death of the daemon
\* (mod_performance.c:2456, 2562-2588).
BeginThenEnd ==
  ~filterMode => \A c \in DOMAIN conns :
    LET log == conns[c].log IN
    /\ Len(log) <= 2
    /\ \A k \in DOMAIN log : /\ log[k].what = IF k = 1 THEN "BEGIN" ELSE "END"
                             /\ log[k].chain = conns[c].chain

\* A descriptor of the module outlives its request in two cases.  Either the
\* handler ran again for the request and connected again, over the same key: for
\* what the request was redirected to, or for a subrequest (there is no look at
\* r->main before mod_performance.c:2443).  Or, with the output filter, the log hook
\* leaves END to the filter of a subrequest, which sends none
\* (mod_performance.c:2549-2552).  With canonical names it is never that of the
\* redirect-handler (mod_performance.c:2420-2424).
LeaksOnlyIfRunAgain ==
  \A d \in 1..MaxFd : fds[d] > 0 =>
    LET c == conns[fds[d]] IN
    \/ \E t \in Threads : th[t].pc # "idle" /\ th[t].chain = c.chain
    \/ /\ Canonical => c.kind # "redirect"
       /\ \/ \E later \in (fds[d] + 1)..Len(conns) :
               /\ conns[later].chain = c.chain
               /\ c.kind \in {"redirect", "error"} \/ conns[later].kind = "sub"
          \/ filterMode /\ MaxSubs > 0 /\ c.kind # "plain"

\* The daemon is told only of requests the filters select
\* (README:87, "PerformanceHostFilter - list of the monitored hosts").
MonitoredOnly ==
  \A c \in DOMAIN conns : \A k \in DOMAIN conns[c].log :
    conns[c].log[k].selected

\* How many steps a thread is at most away from the end of its request.
Distance(t) ==
  LET r == th[t]
      here == CASE r.pc = "log" -> 1
                [] r.pc = "content" -> 2  [] r.pc = "begin" -> 3
                [] r.pc = "connect" -> 6 - 2 * r.tries  [] r.pc = "probe" -> 5
                [] OTHER -> 0
      again == (IF r.kind \in {"redirect", "error"} THEN 5 ELSE 0)
               + 5 * (MaxSubs - r.subs)
  IN IF r.pc = "idle" THEN 0 ELSE here + again

\* A thread that has a request is at most eleven steps of its own, and five for
\* each subrequest, away from the end of the log hook, and every one it makes
\* brings it nearer.
NearsItsEnd ==
  \A t \in Threads : th[t].pc # "idle" =>
    /\ Distance(t) \in 1..(11 + 5 * MaxSubs)
    /\ th'[t] # th[t] => Distance(t)' < Distance(t)

\* No request waits for the daemon: whatever daemon, parent and the other
\* threads do or leave undone, a thread that has a request can go on, and every
\* step of its own brings it nearer to the end of the log hook
\* (mod_performance.c:2190-2247, at most DEFAULT_CONNECT_ATTEMPTS turns).
ServedInBoundedSteps ==
  [][/\ NearsItsEnd
     /\ \A t \in Threads : th[t].pc # "idle" => ENABLED ThreadStep(t)]_vars
==============================================================================
