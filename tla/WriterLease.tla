----------------------------- MODULE WriterLease -----------------------------
(***************************************************************************)
(* The writer lease of one branch at the grain of file operations          *)
(* (cli/src/auto/repair-lease.ts), and the processes that use it: repair   *)
(* loops with the writers they spawn, `repair stop`, fix and apply.        *)
(* RepairRun takes an acquire, an update and a release as one step each.   *)
(*                                                                         *)
(* Abstractions.  A pid is its process; one writer at most per process,    *)
(* listed under the process's name.  No caller passes `reclaim`.           *)
(***************************************************************************)
EXTENDS Naturals

CONSTANTS Repairs,    \* runs of `repair`
          Reviews,    \* runs of `review`, which fix and apply work for
          Instances,  \* commands given for one run
          None, Torn

Processes      == (Repairs \cup Reviews) \X Instances
holderRunId(p) == p[1]

VARIABLES lease,    \* the file: None, Torn between create and write, or its record
          at,       \* where each process is
          existing, \* what each has read of the file
          dead,     \* processes that were killed or are over
          writers,  \* processes whose spawned writer is alive
          settled   \* repairs whose repair.json has a businessResult

vars == <<lease, at, existing, dead, writers, settled>>

Settled(l)  == l.holderRunId \in Repairs /\ l.holderRunId \in settled
Alive(l)    == l.pid \notin dead \/ l.writerPids \cap writers # {}
Read(p, pc) == existing' = [existing EXCEPT ![p] = lease] /\ at' = [at EXCEPT ![p] = pc]
Go(p, pc)   == at' = [at EXCEPT ![p] = pc]
Write(l)    == lease' = l
Fresh(p, n) == [holderRunId |-> holderRunId(p), pid |-> p, writerPids |-> {}, epoch |-> n]

Init ==
  /\ lease = None /\ at = [p \in Processes |-> "idle"] /\ existing = [p \in Processes |-> None]
  /\ dead = {} /\ writers = {} /\ settled = {}

-----------------------------------------------------------------------------
(* acquireWriterLease.                                                     *)

\* A repair that is resumed has no result any more; then the file is read.
Acquire(p) ==
  /\ at[p] = "idle"
  /\ \/ lease = None /\ Read(p, "create")
     \/ lease = Torn /\ Read(p, "over")
     \/ lease \notin {None, Torn} /\ Read(p, "judge")
  /\ settled' = settled \ {holderRunId(p)}
  /\ UNCHANGED <<lease, dead, writers>>

\* The exclusive create, or a second look at the file of whoever came first.
Create(p) ==
  /\ at[p] = "create"
  /\ \/ lease = None /\ Write(Torn) /\ Go(p, "fill") /\ UNCHANGED existing
     \/ lease = Torn /\ Go(p, "over") /\ UNCHANGED <<lease, existing>>
     \/ lease \notin {None, Torn} /\ Read(p, "judge") /\ UNCHANGED lease
  /\ UNCHANGED <<dead, writers, settled>>

Fill(p) ==
  /\ at[p] = "fill"
  /\ Write(Fresh(p, 1)) /\ Go(p, "writing")
  /\ UNCHANGED <<existing, dead, writers, settled>>

\* takeExisting: the run's own lease, or one that is dead and settled.
Judge(p) ==
  /\ at[p] = "judge"
  /\ LET mine == existing[p].holderRunId = holderRunId(p)
     IN Go(p, IF mine \/ (~ Alive(existing[p]) /\ Settled(existing[p])) THEN "take" ELSE "over")
  /\ UNCHANGED <<lease, existing, dead, writers, settled>>

Take(p) ==
  /\ at[p] = "take"
  /\ Write(IF existing[p].holderRunId = holderRunId(p) THEN [existing[p] EXCEPT !.pid = p]
           ELSE Fresh(p, existing[p].epoch + 1))
  /\ Go(p, "writing")
  /\ UNCHANGED <<existing, dead, writers, settled>>

-----------------------------------------------------------------------------
(* The holder at work.                                                     *)

\* launchWriter: the Squad task starts the writer of a repair, then updateWriterPids.
Spawn(p) ==
  /\ at[p] = "writing" /\ holderRunId(p) \in Repairs /\ p \notin writers
  /\ writers' = writers \cup {p}
  /\ Read(p, IF lease \in {None, Torn} \/ lease.holderRunId # holderRunId(p) THEN "writing" ELSE "update")
  /\ UNCHANGED <<lease, dead, settled>>

UpdateWriterPids(p) ==
  /\ at[p] = "update"
  /\ Write([existing[p] EXCEPT !.writerPids = @ \cup {p}]) /\ Go(p, "writing")
  /\ UNCHANGED <<existing, dead, writers, settled>>

WriterEnds(p) ==
  /\ p \in writers /\ writers' = writers \ {p}
  /\ UNCHANGED <<lease, at, existing, dead, settled>>

\* The command is done with the branch; a repair records its result first (finish).
Finish(p) ==
  /\ at[p] = "writing" /\ Go(p, "release")
  /\ settled' = IF holderRunId(p) \in Repairs THEN settled \cup {holderRunId(p)} ELSE settled
  /\ UNCHANGED <<lease, existing, dead, writers>>

\* `repair stop` is a process of the same run that kills its loop and only releases.
Stop(p) ==
  LET loops == {q \in Processes \ {p} : holderRunId(q) = holderRunId(p) /\ at[q] # "idle"}
  IN /\ at[p] = "idle" /\ holderRunId(p) \in Repairs
     /\ loops \cap writers = {}
     /\ dead' = dead \cup loops
     /\ at' = [q \in Processes |-> IF q = p THEN "release" ELSE IF q \in loops THEN "over" ELSE at[q]]
     /\ settled' = settled \cup {holderRunId(p)}
     /\ UNCHANGED <<lease, existing, writers>>

\* releaseWriterLease: the lease of the run, with no live writer in it, is unlinked.
Release(p) ==
  /\ at[p] = "release"
  /\ LET mine == lease \notin {None, Torn} /\ lease.holderRunId = holderRunId(p)
     IN Read(p, IF mine /\ lease.writerPids \cap writers = {} THEN "unlink" ELSE "over")
  /\ UNCHANGED <<lease, dead, writers, settled>>

Unlink(p) ==
  /\ at[p] = "unlink"
  /\ Write(None) /\ Go(p, "over")
  /\ UNCHANGED <<existing, dead, writers, settled>>

\* The process is killed, or exits.
Die(p) ==
  /\ p \notin dead /\ at[p] # "idle"
  /\ dead' = dead \cup {p} /\ Go(p, "over")
  /\ UNCHANGED <<lease, existing, writers, settled>>

Next ==
  \E p \in Processes :
    \/ Acquire(p) \/ Create(p) \/ Fill(p) \/ Judge(p) \/ Take(p)
    \/ Spawn(p) \/ UpdateWriterPids(p) \/ WriterEnds(p)
    \/ Finish(p) \/ Stop(p) \/ Release(p) \/ Unlink(p) \/ Die(p)

Spec == Init /\ [][Next]_vars

Writes(p) == at[p] \in {"writing", "update"}

\* Two runs never write the branch at the same time (repair-lease.test.ts, "rejects a second
\* live writer on the same branch").
OneRunWrites ==
  \A p, q \in Processes : Writes(p) /\ Writes(q) => holderRunId(p) = holderRunId(q)
=============================================================================
