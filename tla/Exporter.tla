------------------------------ MODULE Exporter ------------------------------
(***************************************************************************)
(* The metrics exporters of one peer (src/src/peer/conn_metrics.rs).       *)
(* recv_loop (src/src/peer.rs) spawns one for each connection it serves    *)
(* and cancels it when it returns; all of them write the same gauges, which*)
(* are labelled by the peer.  Exporters are tasks of their own, so one of  *)
(* an earlier connection may still be at work.                             *)
(***************************************************************************)
EXTENDS Naturals

CONSTANTS
  MaxConn   \* bound: connections of the peer, numbered in order

ASSUME ExporterAssumption == MaxConn \in Nat \ {0}

Served == 1..MaxConn

VARIABLES
  serving,    \* the connection recv_loop serves, or 0
  last,       \* the last connection served
  closed,     \* connections with a close_reason
  cancelled,  \* connections whose CancellationToken is cancelled
  selected,   \* connection -> its selected path: "none", one with stats() ("live"), or without
  exporter,   \* connection -> where its exporter is
  gauges      \* kind of gauge -> the connection whose numbers it shows, or 0

exporterVars == <<serving, last, closed, cancelled, selected, exporter, gauges>>
loopVars     == <<serving, last, cancelled>>
connVars     == <<closed, selected>>

\* The gauges that are set together: those of update_connection, relayed, those of update_path.
Gauges  == {"connection", "relayed", "path"}
Working == {"select", "ticked", "update", "find", "stats"}

ExporterTypeOK ==
  /\ {serving, last} \subseteq 0..MaxConn /\ gauges \in [Gauges -> 0..MaxConn]
  /\ closed \subseteq Served /\ cancelled \subseteq Served
  /\ selected \in [Served -> {"none", "live", "gone"}]
  /\ exporter \in [Served -> Working \cup {"none", "stopped"}]

ExporterInit ==
  /\ serving = 0 /\ last = 0 /\ closed = {} /\ cancelled = {}
  /\ selected = [c \in Served |-> "none"]
  /\ exporter = [c \in Served |-> "none"]
  /\ gauges = [g \in Gauges |-> 0]

\* recv_loop starts on a newer connection and spawns the exporter.
SpawnExporter ==
  /\ serving = 0
  /\ \E c \in (last + 1)..MaxConn :
       /\ serving' = c /\ last' = c
       /\ exporter' = [exporter EXCEPT ![c] = "select"]
  /\ UNCHANGED <<connVars, cancelled, gauges>>

Close(c) ==
  /\ c <= last /\ c \notin closed
  /\ closed' = closed \cup {c}
  /\ UNCHANGED <<loopVars, selected, exporter, gauges>>

\* The connection selects a path or drops it (while an exporter is there to see).
PathChanges(c) ==
  /\ exporter[c] \in Working
  /\ \E s \in {"none", "live", "gone"} \ {selected[c]} : selected' = [selected EXCEPT ![c] = s]
  /\ UNCHANGED <<loopVars, closed, exporter, gauges>>

\* Mutant of RecvLoopReturns: no drop guard for the token.
RecvLoopReturnsUnguarded ==
  /\ serving # 0 /\ serving' = 0
  /\ UNCHANGED <<last, connVars, cancelled, exporter, gauges>>

\* read_datagram() fails on a closed connection, or the TUN channel is gone
\* while the connection is open; the drop guard cancels the token.
RecvLoopReturns ==
  /\ serving # 0 /\ serving' = 0
  /\ cancelled' = cancelled \cup {serving}
  /\ UNCHANGED <<last, connVars, exporter, gauges>>

\* One step of an exporter's loop, which sets the gauges of a set of kinds.
Step(c, from, kinds, to) ==
  /\ exporter[c] = from /\ exporter' = [exporter EXCEPT ![c] = to]
  /\ gauges' = [g \in Gauges |-> IF g \in kinds THEN c ELSE gauges[g]]
  /\ UNCHANGED <<loopVars, connVars>>

\* select!: the ticker's branch, or the token's.
Tick(c) == Step(c, "select", {}, "ticked")

Cancelled(c) == c \in cancelled /\ Step(c, "select", {}, "stopped")

CheckClosed(c) == Step(c, "ticked", {}, IF c \in closed THEN "stopped" ELSE "update")

UpdateConnection(c) == Step(c, "update", {"connection"}, "find")

\* Only a selected path is exported, and its numbers only if stats() still has them: the
\* path may have been dropped since it was found.
SetRelayed(c) ==
  IF selected[c] = "none" THEN Step(c, "find", {}, "select")
                          ELSE Step(c, "find", {"relayed"}, "stats")

UpdatePath(c) == Step(c, "stats", IF selected[c] = "live" THEN {"path"} ELSE {}, "select")

RunExporter(c) ==
  Tick(c) \/ Cancelled(c) \/ CheckClosed(c) \/ UpdateConnection(c) \/ SetRelayed(c) \/ UpdatePath(c)

ExporterNext ==
  \/ SpawnExporter \/ RecvLoopReturns
  \/ \E c \in Served : Close(c) \/ PathChanges(c) \/ RunExporter(c)

\* The runtime polls the exporters; the ticker ticks; select! picks among its
\* ready branches at random, so it does not pass over the token for ever.
ExporterFairness ==
  \A c \in Served : WF_exporterVars(RunExporter(c)) /\ SF_exporterVars(Cancelled(c))

ExporterSpec == ExporterInit /\ [][ExporterNext]_exporterVars /\ ExporterFairness
-----------------------------------------------------------------------------
\* The inductive invariant: an exporter still at work is that of the connection which
\* recv_loop serves, or is cancelled, and no gauge shows a connection to come.
ExporterInv ==
  /\ ExporterTypeOK
  /\ serving \in {0, last} /\ \A g \in Gauges : gauges[g] <= last
  /\ \A c \in Served : c > last => exporter[c] = "none"
  /\ \A c \in Served \ cancelled : exporter[c] \in Working => serving = c

\* If recv_loop stays on an open connection, the gauges of update_connection in the end
\* show that connection and no other: the exporters of earlier ones do not come back.  So
\* does `relayed` if a path stays selected, and so do the gauges of update_path if that
\* path keeps its stats(); without one they may show an earlier connection for ever.
GaugesFollow ==
  \A c \in Served :
    LET Stays == serving = c /\ c \notin closed IN
    /\ <>[]Stays => <>[](gauges["connection"] = c)
    /\ <>[](Stays /\ selected[c] # "none") => <>[](gauges["relayed"] = c)
    /\ <>[](Stays /\ selected[c] = "live") => <>[](gauges["path"] = c)
=============================================================================
