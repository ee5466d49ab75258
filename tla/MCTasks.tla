------------------------------- MODULE MCTasks -------------------------------
(* The tasks that main.rs and recv_loop spawn, for TLC.  The router and the *)
(* exporters share no state, so a behaviour has one of them at work and the *)
(* other finished.  Two peers, one of them configured under two names, and  *)
(* a key that is not configured.                                            *)
EXTENDS IncomingRouter, Exporter

MCNames == {"alice", "alias", "bob"}
MCKeyOf == [n \in MCNames |-> IF n = "bob" THEN "kb" ELSE "ka"]

RouterDone ==
  /\ todo = {} /\ by_peer = [k \in PublicKeys |-> None] /\ router = "returned"
  /\ arrived = << >> /\ incoming = << >> /\ listening = FALSE /\ current = None
  /\ channel = [n \in Names |-> << >>] /\ taken = [n \in Names |-> << >>]
  /\ ended = Names /\ refused = {} /\ lost = {}

ExporterDone ==
  /\ serving = 0 /\ last = MaxConn /\ closed = Served /\ cancelled = Served
  /\ exporter = [c \in Served |-> "stopped"]
  /\ selected = [c \in Served |-> "none"] /\ gauges = [g \in Gauges |-> MaxConn]

TasksInit == (RouterInit /\ ExporterDone) \/ (RouterDone /\ ExporterInit)

TasksNext ==
  \/ RouterNext /\ UNCHANGED exporterVars
  \/ ExporterNext /\ UNCHANGED routerVars

TasksSpec ==
  /\ TasksInit /\ [][TasksNext]_<<routerVars, exporterVars>>
  /\ RouterFairness /\ ExporterFairness

\* The inductive invariants of the two: no channel exceeds its capacity (dispatch() waits
\* for room), no connection vanishes, and no exporter outlives its connection uncancelled.
TasksInv == RouterInv /\ ExporterInv
=============================================================================
