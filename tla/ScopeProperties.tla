---------------------------- MODULE ScopeProperties ----------------------------
(* What the scope manager must keep true while prewarms, turns and closes are
   in flight at once.                                                        *)
EXTENDS ScopeManager

\* A turn that works: its process is being spawned, shakes hands or has its prompt, and is
\* not one the driver has let go of during the handshake.
Working(s, p) == \/ calls[s][p].turn \in {"spawning", "running"}
                 \/ calls[s][p].turn = "handshake" /\ drivers[s][p].process = "live"

\* A closed scope winds down: whatever was being spawned, shaken hands with, retried
\* or restarted when the close began, no process of it is up or coming up, and one that is
\* not gone yet is being shut down by the driver's own restart or by the close that
\* createScope asked for (closeScopeInternal, driver.close, respawn, spawnAndHandshake).
ClosedScopeWindsDown ==
  \A s \in ScopeIds : scopes[s].state = "closed" =>
    \A p \in Participants :
      \/ drivers[s][p].process = "none"
      \/ /\ drivers[s][p].process = "leaving"
         /\ calls[s][p].respawn = "shutdown" \/ calls[s][p].close["create"] = "shutting"

\* The registry and the drivers agree on what runs: a seat whose turn works does so on an
\* execution whose record is running and its own, so the turn is counted and its terminal
\* has somewhere to go; and a running record has a seat whose turn is not over (execute,
\* emitAndSweep, closeScopeInternal).
RecordsAndTurnsAgree ==
  /\ \A s \in ScopeIds, p \in Participants :
       Working(s, p) =>
         /\ entries[s][p].busy # None
         /\ executions[entries[s][p].busy] = [state |-> "running", scope |-> s, participant |-> p]
  /\ \A e \in ExecutionIds : executions[e].state = "running" =>
       LET s == executions[e].scope  p == executions[e].participant
       IN /\ entries[s][p].busy = e
          /\ calls[s][p].turn \in {"starting", "spawning", "handshake", "running"}

\* A create that is retried never leaves two scopes: one scope of a request is not yet
\* closed, and the index finds exactly that one (scopeRequestIndex).
OneScopePerRequest ==
  \A s \in ScopeIds : scopes[s].state \in {"creating", "active", "closing"} =>
    /\ index[scopes[s].request] = s
    /\ \A t \in ScopeIds \ {s} :
         scopes[t].request = scopes[s].request => scopes[t].state = "closed"

\* A scope that nobody uses any more is closed, whatever it was waiting for, unless the
\* Host ends before.
ScopesClose == \A s \in ScopeIds :
                 scopes[s].state # "unused" ~> scopes[s].state \in {"closed", "unused"}

\* An execution that was begun does not run for ever: it ends or goes with its scope.
ExecutionsEnd == \A e \in ExecutionIds :
                   executions[e].state = "running" ~> executions[e].state # "running"
===============================================================================
