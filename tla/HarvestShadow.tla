--------------------------- MODULE HarvestShadow ---------------------------
(***************************************************************************)
(* The Harvest shadow (bigtop-server/src/harvest_shadow.rs): the audit of  *)
(* one snapshot request by a durable workflow that looks at a mirror of    *)
(* the server's snapshot records and ends with a verdict.                  *)
(*                                                                         *)
(* Three threads of control act on one request: the handlers of api.rs     *)
(* change the record and journal it under the server's lock and write the  *)
(* mirror after they released it; the driver thread starts the workflow,   *)
(* polls Harvest and sweeps verdicts into its table; the server is killed  *)
(* and booted again.  The audits of two requests share nothing but the     *)
(* driver's time, so there is one request here.                            *)
(*                                                                         *)
(* Harvest and SQLite are external: start_workflow, the result of an       *)
(* activity, the outcome of a workflow and a row are durable once the call *)
(* that makes them returned.                                               *)
(***************************************************************************)
EXTENDS Naturals, Sequences

CONSTANTS
    MaxPolls,   \* observations after the first; 72 in the code
    MaxErrors,  \* how many calls of Harvest, SQLite or the journal may fail
    MaxKills    \* how often the server may be killed

ASSUME ShadowAssumption == {MaxPolls, MaxErrors, MaxKills} \subseteq Nat

VARIABLES
    durable,    \* the server has a data directory
    up,         \* the server runs
    rec,        \* the snapshot record in the server's memory
    disk,       \* what a boot would make of the journal: the record, or absent
    clones,     \* copies of the record on their way from a handler to the mirror
    mirror,     \* the mirror's copy
    command,    \* a TrackCmd is in the driver's channel
    driver,     \* where the driver thread is; "off": the shadow is disabled
    exec,       \* the workflow: status and observations
    row,        \* the verdict in the request's row; "none": no row
    errors,     \* history: calls that failed
    kills,      \* history: how often the server was killed
    unjournaled,\* history: an append for the record failed
    overtaken   \* history: the mirror went from a state to an earlier one

server == <<durable, up, rec, disk>>
shadow == <<clones, mirror, command, driver>>
audit == <<exec, row>>
history == <<errors, kills, unjournaled, overtaken>>
vars == <<server, shadow, audit, history>>

Terminal == {"done", "failed"}
Present == {"requested", "inprogress"} \cup Terminal
States == {"absent"} \cup Present
Verdicts == {"agree", "stuck", "missing", "harvest_error"}

\* A server that is about to get the request, with or without its shadow
Init ==
    /\ durable \in BOOLEAN
    /\ up = TRUE
    /\ rec = "absent" /\ disk = "absent" /\ mirror = "absent"
    /\ clones = {}
    /\ command = FALSE
    /\ driver \in {"recv", "off"}
    /\ exec = [status |-> "none", obs |-> <<>>]
    /\ row = "none"
    /\ errors = 0 /\ kills = 0
    /\ unjournaled = FALSE /\ overtaken = FALSE

\* A call fails
Errs == errors < MaxErrors /\ errors' = errors + 1

-----------------------------------------------------------------------------
(* The record: state.rs, with the hooks of api.rs *)

\* The transitions of report_snapshot_result
Legal ==
    ({"requested"} \X {"inprogress", "done", "failed"})
        \cup ({"inprogress"} \X {"done", "failed"})

\* Replay of the operation that makes the record s
Replayed(s) ==
    IF durable /\ (s = "requested" \/ <<disk, s>> \in Legal) THEN s ELSE disk

\* The handler has a copy for the mirror, if there is a shadow
Hook(s) == IF driver = "off" THEN clones ELSE clones \cup {s}

\* Mutant: the mirror is told of a change whose append failed
MoveTelling(s) ==
    /\ rec' = s
    /\ clones' = Hook(s)
    /\ \/ disk' = Replayed(s) /\ UNCHANGED <<errors, unjournaled>>
       \/ durable /\ Errs /\ unjournaled' = TRUE /\ disk' \in {disk, Replayed(s)}
    /\ UNCHANGED <<durable, up, mirror, command, driver, audit, kills, overtaken>>

(***************************************************************************)
(* The record becomes s in memory, then the journal is appended to.  If    *)
(* the append fails, whether or not the operation reached the file, the    *)
(* caller gets an error and the hook is not reached.                       *)
(***************************************************************************)
Move(s) ==
    /\ rec' = s
    /\ \/ /\ disk' = Replayed(s)
          /\ clones' = Hook(s)
          /\ UNCHANGED <<errors, unjournaled>>
       \/ /\ durable
          /\ Errs
          /\ unjournaled' = TRUE
          /\ disk' \in {disk, Replayed(s)}
          /\ clones' = clones
    /\ UNCHANGED <<durable, up, mirror, command, driver, audit, kills, overtaken>>

\* request_snapshot: it makes the id up, so this happens once
RequestSnapshot ==
    /\ up
    /\ rec = "absent" /\ kills = 0
    /\ Move("requested")

\* report_snapshot_result, accepted
ReportResult(s) ==
    /\ up
    /\ <<rec, s>> \in Legal
    /\ Move(s)

(***************************************************************************)
(* mirror_snapshot, after the lock was released: the handlers of one       *)
(* record get here in any order.  The handler of the request goes on to    *)
(* notify_requested.                                                       *)
(***************************************************************************)
Mirror(s) ==
    /\ s \in clones
    /\ clones' = clones \ {s}
    /\ mirror' = s
    /\ overtaken' = (overtaken \/ <<s, mirror>> \in Legal)
    /\ command' = (command \/ s = "requested")
    /\ UNCHANGED <<server, driver, audit, errors, kills, unjournaled>>

-----------------------------------------------------------------------------
(* The driver thread *)

\* recv_timeout, then track: a request that has no row gets a workflow
Track ==
    /\ driver = "recv"
    /\ command
    /\ command' = FALSE
    /\ \/ /\ exec' = IF row = "none" THEN [status |-> "running", obs |-> <<>>] ELSE exec
          /\ driver' = IF row = "none" THEN "insert" ELSE "poll"
          /\ errors' = errors
       \/ /\ exec' = exec
          /\ driver' = "poll"
          /\ Errs
    /\ UNCHANGED <<server, clones, mirror, row, kills, unjournaled, overtaken>>

\* The row is inserted.  If that fails, the workflow runs on without a row.
Insert ==
    /\ driver = "insert"
    /\ \/ row' = "pending" /\ errors' = errors
       \/ row' = row /\ Errs
    /\ driver' = "poll"
    /\ UNCHANGED <<server, clones, mirror, command, exec, kills, unjournaled, overtaken>>

\* No command within a second
Timeout ==
    /\ driver = "recv"
    /\ ~command
    /\ driver' = "poll"
    /\ UNCHANGED <<server, clones, mirror, command, audit, history>>

\* Mutant: a record may not skip in_progress
IsLegalStepwise(a, b) == a = b \/ <<a, b>> \in Legal \ {<<"requested", "done">>}

\* is_legal_transition
IsLegalTransition(a, b) == a \in Present /\ (a = b \/ <<a, b>> \in Legal)

\* judge
Judge(obs) ==
    LET last == obs[Len(obs)]
        legal == \A i \in 1 .. Len(obs) - 1 : IsLegalTransition(obs[i], obs[i + 1])
    IN  IF \E i \in 1 .. Len(obs) : obs[i] = "absent" THEN "missing"
        ELSE IF last \in Terminal /\ legal THEN "agree"
        ELSE "stuck"

\* The workflow's loop ends with the observation s, its polls-th after the first
LoopEnds(s, polls) == s \in Terminal \cup {"absent"} \/ polls >= MaxPolls

\* The workflow's timer is due: it looks at the mirror and goes round, or ends
Observe ==
    /\ driver = "poll"
    /\ exec.status = "running"
    /\ exec' = [status |-> IF LoopEnds(mirror, Len(exec.obs)) THEN "completed" ELSE "running",
                obs |-> Append(exec.obs, mirror)]
    /\ driver' = "sweep"
    /\ UNCHANGED <<server, clones, mirror, command, row, history>>

\* Harvest gives the workflow up
ExecFails ==
    /\ driver = "poll"
    /\ exec.status = "running"
    /\ Errs
    /\ exec' = [exec EXCEPT !.status = "failed"]
    /\ driver' = "sweep"
    /\ UNCHANGED <<server, clones, mirror, command, row, kills, unjournaled, overtaken>>

\* Nothing is due
PollNothing ==
    /\ driver = "poll"
    /\ driver' = "sweep"
    /\ UNCHANGED <<server, clones, mirror, command, audit, history>>

\* poll_once fails, or the sweep does: the rest of the tick is skipped
TickFails ==
    /\ driver \in {"poll", "sweep"}
    /\ Errs
    /\ driver' = "recv"
    /\ UNCHANGED <<server, clones, mirror, command, audit, kills, unjournaled, overtaken>>

\* Mutant: a sweep looks at the workflows that made progress in this tick only
SweptIfNew == row

\* The row after a sweep: one that is pending takes the workflow's outcome
Swept ==
    CASE row = "pending" /\ exec.status = "completed" -> Judge(exec.obs)
      [] row = "pending" /\ exec.status = "failed" -> "harvest_error"
      [] OTHER -> row

Sweep ==
    /\ driver = "sweep"
    /\ row' = Swept
    /\ driver' = "recv"
    /\ UNCHANGED <<server, clones, mirror, command, exec, history>>

Drive == Track \/ Insert \/ Timeout \/ Observe \/ ExecFails \/ PollNothing \/ TickFails \/ Sweep

-----------------------------------------------------------------------------
(* Kill and boot *)

\* The server is killed, or it is stopped and compacts what it has in memory
Kill ==
    /\ up
    /\ kills < MaxKills
    /\ kills' = kills + 1
    /\ up' = FALSE
    /\ disk' \in IF durable THEN {disk, rec} ELSE {disk}
    /\ rec' = "absent" /\ mirror' = "absent" /\ clones' = {}
    /\ command' = FALSE
    /\ driver' = "off"
    /\ UNCHANGED <<durable, audit, errors, unjournaled, overtaken>>

\* Mutant: the mirror is made before the journal is replayed
SeedEmpty == "absent"

\* The records maybe_enable_shadow seeds the mirror with
Seed == disk

(***************************************************************************)
(* A boot replays the journal and opens the shadow, or goes on without it. *)
(* A workflow and a row are found as they were; nothing tracks the records *)
(* that were replayed.                                                     *)
(***************************************************************************)
Boot ==
    /\ ~up
    /\ up' = TRUE
    /\ rec' = disk
    /\ \/ driver' = "recv" /\ mirror' = Seed /\ errors' = errors
       \/ driver' = "off" /\ mirror' = "absent" /\ Errs
    /\ UNCHANGED <<durable, disk, clones, command, audit, kills, unjournaled, overtaken>>

Next ==
    \/ RequestSnapshot
    \/ \E s \in Present : ReportResult(s) \/ Mirror(s)
    \/ Drive
    \/ Kill \/ Boot

Spec == Init /\ [][Next]_vars

(***************************************************************************)
(* Fairness.  A killed server is booted again; a handler that released the *)
(* lock runs to its end, which has no await; the driver thread loops.  A   *)
(* timer that is due stays due, so a poll that keeps coming back finds it. *)
(***************************************************************************)
Fairness ==
    /\ WF_vars(Boot)
    /\ WF_vars(\E s \in Present : Mirror(s))
    /\ WF_vars(Drive)
    /\ SF_vars(Observe)

FairSpec == Spec /\ Fairness

-----------------------------------------------------------------------------
(* Properties *)

DriverStates == {"recv", "insert", "poll", "sweep", "off"}
ExecStates == {"none", "running", "completed", "failed"}

TypeOK ==
    /\ {durable, up, command, unjournaled, overtaken} \subseteq BOOLEAN
    /\ {rec, disk, mirror} \subseteq States
    /\ clones \subseteq Present
    /\ driver \in DriverStates
    /\ exec \in [status : ExecStates, obs : Seq(States)]
    /\ row \in {"none", "pending"} \cup Verdicts
    /\ errors \in Nat /\ kills \in Nat

\* s is how the record ended, as far as the server keeps records at all
EndedAs(s) == IF durable THEN disk = s ELSE rec = s \/ kills > 0

\* The same state, or one the record went to later
Before(a, b) == a = b \/ <<a, b>> \in Legal

(***************************************************************************)
(* The inductive invariant.  The first part orders the copies of a record: *)
(* the memory is ahead of every other one, and a copy that says the record *)
(* ended is true of the journal.  The second says what an audit rests on:  *)
(* the record of an audited request was journaled, and its mirror is there *)
(* whenever the driver runs.  The third is what it saw.                    *)
(***************************************************************************)
CopiesOK ==
    /\ durable /\ up => disk = "absent" \/ Before(disk, rec)
    /\ ~durable => disk = "absent"
    /\ ~up => driver = "off" /\ kills > 0
    /\ ~durable /\ kills > 0 => rec = "absent"
    /\ driver = "off" => clones = {} /\ mirror = "absent" /\ ~command
    /\ \A s \in (clones \cup {mirror}) \ {"absent"} :
          /\ Before(s, rec)
          /\ durable /\ s \in Terminal => disk \in {s, "absent"}

AuditOK ==
    /\ durable /\ (exec.status # "none" \/ command \/ "requested" \in clones)
          => disk # "absent"
    /\ (exec.status # "none" \/ command) /\ driver # "off" /\ (durable \/ kills = 0)
          => mirror # "absent"
    /\ exec.status = "completed" => exec.obs # <<>>
    /\ row \in {"agree", "missing"} => exec.status = "completed" /\ row = Judge(exec.obs)

SightOK ==
    \A i \in 1 .. Len(exec.obs) :
        /\ exec.obs[i] = "absent" => ~durable /\ kills > 0
        /\ exec.obs[i] \in Terminal => EndedAs(exec.obs[i])

\* With every append and every mirror write in order, the mirror is up to date
\* but for what is on its way, and what was seen is never ahead of it
InOrder == ~unjournaled /\ ~overtaken /\ (durable \/ kills = 0)

OrderOK ==
    InOrder =>
        /\ durable /\ up => disk = rec
        /\ driver # "off" => rec \in clones \cup {mirror}
        /\ \A i \in 1 .. Len(exec.obs) - 1 : IsLegalTransition(exec.obs[i], exec.obs[i + 1])
        /\ exec.obs # <<>> =>
              /\ driver # "off" => Before(exec.obs[Len(exec.obs)], mirror)
              /\ durable => Before(exec.obs[Len(exec.obs)], disk)

IInv == TypeOK /\ CopiesOK /\ AuditOK /\ SightOK /\ OrderOK

(***************************************************************************)
(* An audit that agrees is right for good: the last state it saw is a      *)
(* terminal one, it is in the journal, and neither a failed append nor a   *)
(* kill and replay makes the record anything else.                         *)
(***************************************************************************)
AgreeIsRight ==
    row = "agree" =>
        /\ exec.obs # <<>>
        /\ exec.obs[Len(exec.obs)] \in Terminal
        /\ EndedAs(exec.obs[Len(exec.obs)])

(***************************************************************************)
(* A record is found missing only by a server that keeps none: with a data *)
(* directory no kill, wherever it falls, makes an audited record vanish.   *)
(***************************************************************************)
MissingExcused == row = "missing" => ~durable /\ kills > 0

(***************************************************************************)
(* An audit ends with "stuck" only when the record has not ended, or its   *)
(* end is still on its way to the mirror, unless an append failed or a     *)
(* mirror write was overtaken by a later one.                              *)
(***************************************************************************)
JudgedStuck ==
    exec.status = "running" /\ exec'.status = "completed" /\ Judge(exec'.obs) = "stuck"

StuckExcused ==
    [][JudgedStuck => \/ rec \notin Terminal \/ rec \in clones
                      \/ unjournaled \/ overtaken]_vars

(***************************************************************************)
(* A row does not stay pending: after kills between any two of its steps,  *)
(* and after failed ticks, its audit ends and a sweep records how.         *)
(***************************************************************************)
PendingIsJudged == row = "pending" ~> (row # "pending" \/ (up /\ driver = "off"))
=============================================================================
