------------------------- MODULE HarvestShadowProofs -------------------------
(***************************************************************************)
(* What a verdict of the shadow is worth, for any deadline and any number  *)
(* of failures and kills: IInv is inductive, and the properties of the     *)
(* verdicts follow from it.                                                *)
(*                                                                         *)
(* The steps are taken apart by what they touch: the record, the mirror,   *)
(* the audit, or the whole process.                                        *)
(***************************************************************************)
EXTENDS HarvestShadow, TLAPS

LEMMA InitIInv == Init => IInv
<1> SUFFICES ASSUME Init PROVE IInv
  OBVIOUS
<1>1. /\ exec.obs = <<>> /\ Len(exec.obs) = 0 /\ exec.status = "none"
      /\ exec \in [status : ExecStates, obs : Seq(States)]
  BY DEF Init, ExecStates
<1>2. TypeOK
  BY <1>1 DEF Init, TypeOK, States, DriverStates
<1>3. CopiesOK /\ AuditOK
  BY <1>1 DEF Init, CopiesOK, AuditOK
<1>4. SightOK /\ OrderOK
  BY <1>1 DEF Init, SightOK, OrderOK
<1> QED
  BY <1>2, <1>3, <1>4 DEF IInv

\* Replay of an operation on a record that is behind it, or lost
LEMMA ReplayedSpec ==
    ASSUME NEW s \in Present, TypeOK
    PROVE  /\ Replayed(s) \in {disk, s}
           /\ durable /\ (s = "requested" \/ <<disk, s>> \in Legal) => Replayed(s) = s
           /\ ~durable => Replayed(s) = disk
           /\ disk # "absent" => Replayed(s) # "absent"
  BY DEF Replayed, Present, Terminal

(***************************************************************************)
(* A change of the record, in memory and in the journal.  What an audit    *)
(* saw as the end of a record stays its end: an ended record has no legal  *)
(* successor.                                                              *)
(***************************************************************************)
LEMMA MoveIInv ==
    ASSUME IInv, up, NEW s \in Present, Move(s),
           \/ rec = "absent" /\ s = "requested" /\ kills = 0
           \/ <<rec, s>> \in Legal
    PROVE  IInv'
<1> USE DEF Present, Terminal, States, Legal, Before
<1>1. TypeOK /\ CopiesOK /\ AuditOK /\ SightOK /\ OrderOK
  BY DEF IInv
<1>2. /\ rec' = s /\ disk' \in {disk, Replayed(s)}
      /\ UNCHANGED <<durable, up, mirror, command, driver, exec, row, kills, overtaken>>
      /\ clones' \in {clones, clones \cup {s}}
      /\ unjournaled' \in {unjournaled, TRUE}
      /\ (unjournaled => unjournaled') /\ unjournaled' \in BOOLEAN /\ errors' \in Nat
  <2>1. CASE clones' = Hook(s) /\ disk' = Replayed(s) /\ UNCHANGED <<errors, unjournaled>>
    BY <1>1, <2>1 DEF Move, Hook, audit, TypeOK
  <2>2. CASE /\ Errs /\ unjournaled' = TRUE /\ disk' \in {disk, Replayed(s)}
             /\ clones' = clones
    <3>1. errors' \in Nat
      BY <1>1, <2>2 DEF Errs, TypeOK
    <3> QED
      BY <1>1, <2>2, <3>1 DEF Move, audit, TypeOK
  <2> QED
    BY <2>1, <2>2 DEF Move
<1>3. /\ ~unjournaled' => /\ disk' = Replayed(s)
                          /\ driver # "off" => clones' = clones \cup {s}
      /\ clones' # clones => disk' = Replayed(s) /\ driver # "off"
  BY <1>1 DEF Move, Hook, TypeOK
<1>4. TypeOK'
  BY <1>1, <1>2, ReplayedSpec DEF TypeOK
<1>5. rec \notin Terminal /\ disk \notin Terminal
  BY <1>1, ReplayedSpec DEF CopiesOK, TypeOK
<1>6. CopiesOK'
  <2>1. disk' = "absent" \/ Before(disk', s) \/ ~durable
    BY <1>1, <1>2, ReplayedSpec DEF CopiesOK, TypeOK
  <2>2. ~durable => disk' = "absent"
    BY <1>1, <1>2, ReplayedSpec DEF CopiesOK, TypeOK
  <2>3. ASSUME NEW c \in clones' \cup {mirror'}, c # "absent"
        PROVE  /\ Before(c, rec')
               /\ durable' /\ c \in Terminal => disk' \in {c, "absent"}
    <3>1. CASE c \in clones \cup {mirror}
      BY <1>1, <1>2, <1>5, <2>3, <3>1 DEF CopiesOK, TypeOK
    <3>2. CASE c = s /\ clones' # clones
      BY <1>1, <1>2, <1>3, <1>5, <3>2, ReplayedSpec DEF CopiesOK, TypeOK
    <3> QED
      BY <1>2, <2>3, <3>1, <3>2
  <2>4. ~durable /\ kills > 0 => rec' = "absent"
    BY <1>1 DEF CopiesOK
  <2>5. driver = "off" => clones' = {}
    BY <1>1, <1>2, <1>3, ReplayedSpec DEF CopiesOK, Move, Hook
  <2> QED
    BY <1>1, <1>2, <2>1, <2>2, <2>3, <2>4, <2>5 DEF CopiesOK
<1>7. AuditOK'
  <2>1. "requested" \in clones' /\ durable => disk' # "absent"
    BY <1>1, <1>2, <1>3, ReplayedSpec DEF AuditOK, TypeOK
  <2> QED
    BY <1>1, <1>2, <2>1, ReplayedSpec DEF AuditOK, Judge, IsLegalTransition
<1>8. SightOK'
  BY <1>1, <1>2, <1>5 DEF SightOK, EndedAs, TypeOK
<1>9. OrderOK'
  <2> SUFFICES ASSUME InOrder' PROVE OrderOK'
    BY DEF OrderOK
  <2>1. InOrder /\ ~unjournaled'
    BY <1>2 DEF InOrder
  <2>2. durable => disk' = s
    BY <1>1, <1>2, <1>3, <2>1, ReplayedSpec DEF OrderOK, TypeOK, CopiesOK
  <2>3. exec.obs # <<>> /\ durable => Before(exec.obs[Len(exec.obs)], s)
    <3>1. durable => disk = rec
      BY <1>1, <2>1 DEF OrderOK
    <3>2. exec.obs # <<>> /\ durable => Before(exec.obs[Len(exec.obs)], rec)
      BY <1>1, <2>1, <3>1 DEF OrderOK
    <3>3. exec.obs # <<>> => exec.obs[Len(exec.obs)] \in States
      BY <1>1 DEF TypeOK
    <3>4. exec.obs # <<>> /\ durable => exec.obs[Len(exec.obs)] # "absent"
      BY <1>1 DEF TypeOK, SightOK
    <3> QED
      BY <3>2, <3>3, <3>4
  <2> QED
    BY <1>1, <1>2, <1>3, <2>1, <2>2, <2>3 DEF OrderOK, IsLegalTransition
<1> QED
  BY <1>4, <1>6, <1>7, <1>8, <1>9 DEF IInv

\* A copy reaches the mirror
LEMMA MirrorIInv ==
    ASSUME IInv, NEW s \in Present, Mirror(s)
    PROVE  IInv'
<1> USE DEF Present, Terminal, States, Legal, Before
<1>1. TypeOK /\ CopiesOK /\ AuditOK /\ SightOK /\ OrderOK
  BY DEF IInv
<1>2. /\ s \in clones /\ clones' = clones \ {s} /\ mirror' = s
      /\ overtaken' = (overtaken \/ <<s, mirror>> \in Legal)
      /\ command' = (command \/ s = "requested")
      /\ UNCHANGED <<durable, up, rec, disk, driver, exec, row, errors, kills, unjournaled>>
  BY DEF Mirror, server, audit
<1>3. TypeOK'
  BY <1>1, <1>2 DEF TypeOK
<1>4. CopiesOK'
  BY <1>1, <1>2 DEF CopiesOK
<1>5. AuditOK'
  BY <1>1, <1>2 DEF AuditOK, Judge, IsLegalTransition
<1>6. SightOK'
  BY <1>1, <1>2 DEF SightOK, EndedAs
<1>7. OrderOK'
  <2> SUFFICES ASSUME InOrder' PROVE OrderOK'
    BY DEF OrderOK
  <2>1. InOrder /\ <<s, mirror>> \notin Legal
    BY <1>2 DEF InOrder
  <2>2. driver # "off" /\ Before(s, rec) /\ (mirror # "absent" => Before(mirror, rec))
    BY <1>1, <1>2 DEF CopiesOK
  <2>3. rec = s \/ rec \in clones'
    <3>1. rec = mirror \/ rec \in clones
      BY <1>1, <2>1, <2>2 DEF OrderOK
    <3> QED
      BY <1>2, <2>1, <2>2, <3>1
  <2>4. mirror = "absent" \/ Before(mirror, s)
    <3>1. mirror \in States /\ rec \in States
      BY <1>1 DEF TypeOK
    <3> QED
      BY <2>1, <2>2, <3>1
  <2>5. exec.obs # <<>> => Before(exec.obs[Len(exec.obs)], s)
    <3>1. exec.obs # <<>> => Before(exec.obs[Len(exec.obs)], mirror)
      BY <1>1, <2>1, <2>2 DEF OrderOK
    <3>2. exec.obs # <<>> => mirror # "absent"
      BY <1>1, <2>1, <2>2, <3>1 DEF AuditOK, SightOK, InOrder, TypeOK
    <3> QED
      BY <2>4, <3>1, <3>2
  <2> QED
    BY <1>1, <1>2, <2>1, <2>2, <2>3, <2>5 DEF OrderOK, IsLegalTransition
<1> QED
  BY <1>3, <1>4, <1>5, <1>6, <1>7 DEF IInv

(***************************************************************************)
(* The driver.  Only a poll that finds the timer due adds to what was      *)
(* seen, and what it adds is the mirror's copy.                            *)
(***************************************************************************)
LEMMA ObserveIInv ==
    ASSUME IInv, Observe
    PROVE  IInv'
<1> USE DEF Present, Terminal, States, Legal, Before
<1>1. TypeOK /\ CopiesOK /\ AuditOK /\ SightOK /\ OrderOK
  BY DEF IInv
<1> DEFINE obs == exec.obs
           last == Len(obs) + 1
<1>2. /\ driver = "poll" /\ exec.status = "running" /\ driver' = "sweep"
      /\ exec'.status \in {"running", "completed"}
      /\ exec'.obs = Append(obs, mirror)
      /\ exec' \in [status : ExecStates, obs : Seq(States)]
      /\ UNCHANGED <<durable, up, rec, disk, clones, mirror, command, row,
                     errors, kills, unjournaled, overtaken>>
  BY <1>1 DEF Observe, server, history, TypeOK, ExecStates
<1>3. /\ Len(exec'.obs) = last /\ last \in Nat \ {0} /\ exec'.obs # <<>>
      /\ exec'.obs[last] = mirror
      /\ \A i \in 1 .. Len(obs) : exec'.obs[i] = obs[i]
  BY <1>1, <1>2 DEF TypeOK
<1>4. up
  BY <1>1, <1>2 DEF CopiesOK
<1>5. TypeOK'
  BY <1>1, <1>2 DEF TypeOK, DriverStates
<1>6. CopiesOK'
  BY <1>1, <1>2 DEF CopiesOK
<1>7. AuditOK'
  BY <1>1, <1>2, <1>3 DEF AuditOK
<1>8. SightOK'
  <2>1. mirror = "absent" => ~durable /\ kills > 0
    BY <1>1, <1>2 DEF AuditOK, TypeOK
  <2>2. mirror \in Terminal => EndedAs(mirror)
    <3> SUFFICES ASSUME mirror \in Terminal PROVE EndedAs(mirror)
      OBVIOUS
    <3>1. Before(mirror, rec) /\ (durable => disk \in {mirror, "absent"})
      BY <1>1 DEF CopiesOK
    <3>2. durable => disk # "absent"
      BY <1>1, <1>2 DEF AuditOK
    <3> QED
      BY <3>1, <3>2 DEF EndedAs
  <2>3. ASSUME NEW i \in 1 .. last
        PROVE  /\ exec'.obs[i] = "absent" => ~durable /\ kills > 0
               /\ exec'.obs[i] \in Terminal => EndedAs(exec'.obs[i])
    <3>1. CASE i = last
      BY <1>3, <2>1, <2>2, <3>1
    <3>2. CASE i \in 1 .. Len(obs)
      BY <1>1, <1>3, <3>2 DEF SightOK
    <3> QED
      BY <1>1, <3>1, <3>2 DEF TypeOK
  <2> QED
    BY <1>2, <1>3, <2>3 DEF SightOK, EndedAs
<1>9. OrderOK'
  <2> SUFFICES ASSUME InOrder' PROVE OrderOK'
    BY DEF OrderOK
  <2>1. InOrder
    BY <1>2 DEF InOrder
  <2>2. mirror # "absent" /\ Before(mirror, rec)
    BY <1>1, <1>2, <2>1 DEF AuditOK, CopiesOK, InOrder
  <2>3. durable => Before(mirror, disk)
    BY <1>1, <1>4, <2>1, <2>2 DEF OrderOK
  <2>4. obs # <<>> => Before(obs[Len(obs)], mirror) /\ obs[Len(obs)] # "absent"
    BY <1>1, <1>2, <2>1 DEF OrderOK, SightOK, InOrder, TypeOK
  <2>5. \A i \in 1 .. last - 1 : IsLegalTransition(exec'.obs[i], exec'.obs[i + 1])
    <3> SUFFICES ASSUME NEW i \in 1 .. last - 1
                 PROVE  IsLegalTransition(exec'.obs[i], exec'.obs[i + 1])
      OBVIOUS
    <3>1. CASE i = last - 1
      <4>1. obs # <<>> /\ i = Len(obs) /\ obs[i] \in States
        BY <1>1, <3>1 DEF TypeOK
      <4> QED
        BY <1>3, <2>4, <3>1, <4>1 DEF IsLegalTransition
    <3>2. CASE i \in 1 .. Len(obs) - 1
      <4>1. i \in 1 .. Len(obs) /\ i + 1 \in 1 .. Len(obs)
        BY <1>1, <3>2 DEF TypeOK
      <4> QED
        BY <1>1, <1>3, <2>1, <3>2, <4>1 DEF OrderOK
    <3> QED
      BY <1>1, <3>1, <3>2 DEF TypeOK
  <2> QED
    BY <1>1, <1>2, <1>3, <2>1, <2>3, <2>5 DEF OrderOK
<1> QED
  BY <1>5, <1>6, <1>7, <1>8, <1>9 DEF IInv

\* The driver's other steps
LEMMA DriveIInv ==
    ASSUME IInv, Drive
    PROVE  IInv'
<1> USE DEF IInv, TypeOK, CopiesOK, AuditOK, SightOK, OrderOK, InOrder, EndedAs,
            DriverStates, ExecStates, Errs, server, audit, history
<1>1. CASE Track
  <2>1. CASE exec' = exec
    <3>1. driver' \in {"poll", "insert"} /\ errors' \in Nat
      BY <1>1, <2>1 DEF Track
    <3> QED
      BY <1>1, <2>1, <3>1 DEF Track, Judge, IsLegalTransition
  <2>2. CASE exec' # exec
    <3>1. /\ row = "none" /\ driver' = "insert" /\ errors' = errors
          /\ exec' = [status |-> "running", obs |-> <<>>]
      BY <1>1, <2>2 DEF Track
    <3>2. exec'.status = "running" /\ exec'.obs = <<>> /\ Len(exec'.obs) = 0
      BY <3>1
    <3>3. exec' \in [status : ExecStates, obs : Seq(States)]
      BY <3>1
    <3>4. TypeOK'
      BY <1>1, <3>1, <3>3 DEF Track
    <3>5. CopiesOK' /\ AuditOK'
      BY <1>1, <3>1, <3>2 DEF Track
    <3>6. SightOK' /\ OrderOK'
      BY <1>1, <3>1, <3>2 DEF Track
    <3> QED
      BY <3>4, <3>5, <3>6
  <2> QED
    BY <2>1, <2>2
<1>2. CASE Insert
  BY <1>2 DEF Insert
<1>3. CASE Timeout
  BY <1>3 DEF Timeout, Judge, IsLegalTransition
<1>4. CASE Observe
  BY <1>4, ObserveIInv
<1>5. CASE ExecFails
  BY <1>5 DEF ExecFails, Judge, IsLegalTransition
<1>6. CASE PollNothing
  BY <1>6 DEF PollNothing, Judge, IsLegalTransition
<1>7. CASE TickFails
  BY <1>7 DEF TickFails, Judge, IsLegalTransition
<1>8. CASE Sweep
  <2>1. \/ row' = row
        \/ row' = "harvest_error"
        \/ exec.status = "completed" /\ row' = Judge(exec.obs)
    BY <1>8 DEF Sweep, Swept
  <2>2. Judge(exec.obs) \in Verdicts
    BY DEF Judge, Verdicts
  <2>3. row' \in {"none", "pending"} \cup Verdicts
    BY <2>1, <2>2 DEF Verdicts
  <2>4. row' \in {"agree", "missing"} => exec.status = "completed" /\ row' = Judge(exec.obs)
    BY <2>1
  <2> HIDE DEF Verdicts
  <2>5. driver = "sweep" /\ driver' = "recv"
        /\ UNCHANGED <<durable, up, rec, disk, clones, mirror, command, exec, errors, kills,
                       unjournaled, overtaken>>
    BY <1>8 DEF Sweep
  <2>6. TypeOK'
    BY <2>3, <2>5
  <2>7. CopiesOK' /\ AuditOK'
    BY <2>4, <2>5
  <2>8. SightOK' /\ OrderOK'
    BY <2>5
  <2> QED
    BY <2>6, <2>7, <2>8
<1> QED
  BY <1>1, <1>2, <1>3, <1>4, <1>5, <1>6, <1>7, <1>8 DEF Drive

\* Kill and boot: the process is gone, then has what the journal has
LEMMA KillIInv ==
    ASSUME IInv, Kill
    PROVE  IInv'
<1> USE DEF Present, Terminal, States, Legal, Before
<1>1. TypeOK /\ CopiesOK /\ AuditOK /\ SightOK /\ OrderOK /\ up
  BY DEF IInv, Kill
<1>2. /\ up' = FALSE /\ disk' \in {disk, rec} /\ (~durable => disk' = disk)
      /\ rec' = "absent" /\ mirror' = "absent" /\ clones' = {} /\ command' = FALSE
      /\ driver' = "off" /\ kills' = kills + 1
      /\ UNCHANGED <<durable, exec, row, errors, unjournaled, overtaken>>
  BY DEF Kill, audit
<1>3. durable /\ disk # "absent" => disk' # "absent" /\ Before(disk, disk')
  BY <1>1, <1>2 DEF CopiesOK, TypeOK
<1>4. TypeOK'
  <2>1. disk' \in States /\ kills' \in Nat
    BY <1>1, <1>2 DEF TypeOK
  <2> QED
    BY <1>1, <1>2, <2>1 DEF TypeOK, DriverStates
<1>5. CopiesOK'
  <2>1. kills' > 0 /\ (~durable => disk' = "absent")
    BY <1>1, <1>2 DEF CopiesOK, TypeOK
  <2> QED
    BY <1>2, <2>1 DEF CopiesOK
<1>6. AuditOK'
  BY <1>1, <1>2, <1>3 DEF AuditOK, Judge, IsLegalTransition
<1>7. SightOK'
  BY <1>1, <1>2, <1>3 DEF SightOK, EndedAs, TypeOK
<1>8. OrderOK'
  <2> SUFFICES ASSUME InOrder' PROVE OrderOK'
    BY DEF OrderOK
  <2>1. InOrder /\ durable
    BY <1>1, <1>2 DEF InOrder, TypeOK
  <2> QED
    BY <1>1, <1>2, <2>1 DEF OrderOK, IsLegalTransition
<1> QED
  BY <1>4, <1>5, <1>6, <1>7, <1>8 DEF IInv

LEMMA BootIInv ==
    ASSUME IInv, Boot
    PROVE  IInv'
<1> USE DEF Present, Terminal, States, Legal, Before
<1>1. TypeOK /\ CopiesOK /\ AuditOK /\ SightOK /\ OrderOK /\ ~up
  BY DEF IInv, Boot
<1>2. /\ up' = TRUE /\ rec' = disk /\ errors' \in Nat
      /\ driver' \in {"recv", "off"}
      /\ mirror' = IF driver' = "off" THEN "absent" ELSE disk
      /\ UNCHANGED <<durable, disk, clones, command, exec, row, kills, unjournaled, overtaken>>
  BY <1>1 DEF Boot, Seed, Errs, audit, TypeOK
<1>3. clones = {} /\ ~command /\ (~durable => disk = "absent")
  BY <1>1 DEF CopiesOK
<1>4. TypeOK'
  BY <1>1, <1>2 DEF TypeOK, DriverStates
<1>5. CopiesOK'
  BY <1>1, <1>2, <1>3 DEF CopiesOK
<1>6. AuditOK'
  <2>1. exec.status # "none" /\ ~durable => kills # 0
    BY <1>1 DEF AuditOK, CopiesOK
  <2> QED
    BY <1>1, <1>2, <1>3, <2>1 DEF AuditOK, Judge, IsLegalTransition
<1>7. SightOK'
  BY <1>1, <1>2, <1>3 DEF SightOK, EndedAs, CopiesOK
<1>8. OrderOK'
  <2> SUFFICES ASSUME InOrder' PROVE OrderOK'
    BY DEF OrderOK
  <2>1. InOrder /\ durable
    BY <1>1, <1>2 DEF InOrder, CopiesOK, TypeOK
  <2> QED
    BY <1>1, <1>2, <1>3, <2>1 DEF OrderOK
<1> QED
  BY <1>4, <1>5, <1>6, <1>7, <1>8 DEF IInv

(***************************************************************************)
(* IInv is an invariant, whatever the deadline, the failures and the kills.*)
(***************************************************************************)
THEOREM IInvHolds == Spec => []IInv
<1>1. ASSUME IInv, [Next]_vars PROVE IInv'
  <2>1. CASE RequestSnapshot
    BY <1>1, <2>1, MoveIInv DEF RequestSnapshot, Present
  <2>2. ASSUME NEW s \in Present, ReportResult(s) PROVE IInv'
    BY <1>1, <2>2, MoveIInv DEF ReportResult
  <2>3. ASSUME NEW s \in Present, Mirror(s) PROVE IInv'
    BY <1>1, <2>3, MirrorIInv
  <2>4. CASE Drive
    BY <1>1, <2>4, DriveIInv
  <2>5. CASE Kill
    BY <1>1, <2>5, KillIInv
  <2>6. CASE Boot
    BY <1>1, <2>6, BootIInv
  <2>7. CASE UNCHANGED vars
    BY <1>1, <2>7
       DEF vars, server, shadow, audit, history, IInv, TypeOK, CopiesOK, AuditOK, SightOK,
           OrderOK, InOrder, EndedAs, Judge, IsLegalTransition
  <2> QED
    BY <1>1, <2>1, <2>2, <2>3, <2>4, <2>5, <2>6, <2>7 DEF Next
<1> QED
  BY <1>1, InitIInv, PTL DEF Spec

(***************************************************************************)
(* "agree" is true of the journal, now and after every boot.               *)
(***************************************************************************)
THEOREM AgreesRightly == Spec => []AgreeIsRight
<1>1. ASSUME IInv PROVE AgreeIsRight
  <2> SUFFICES ASSUME row = "agree" PROVE AgreeIsRight
    BY DEF AgreeIsRight
  <2> DEFINE last == exec.obs[Len(exec.obs)]
  <2>1. exec.obs # <<>> /\ Judge(exec.obs) = "agree" /\ exec.obs \in Seq(States)
    BY <1>1 DEF IInv, AuditOK, TypeOK
  <2>2. last \in Terminal
    BY <2>1 DEF Judge
  <2>3. Len(exec.obs) \in 1 .. Len(exec.obs)
    BY <2>1
  <2> QED
    BY <1>1, <2>1, <2>2, <2>3 DEF IInv, SightOK, AgreeIsRight
<1> QED
  BY <1>1, IInvHolds, PTL

(***************************************************************************)
(* No audit of a server with a data directory finds its record missing.    *)
(***************************************************************************)
THEOREM MissesRightly == Spec => []MissingExcused
<1>1. ASSUME IInv PROVE MissingExcused
  <2> SUFFICES ASSUME row = "missing" PROVE MissingExcused
    BY DEF MissingExcused
  <2>1. \E i \in 1 .. Len(exec.obs) : exec.obs[i] = "absent"
    BY <1>1 DEF IInv, AuditOK, Judge
  <2> QED
    BY <1>1, <2>1 DEF IInv, SightOK, MissingExcused
<1> QED
  BY <1>1, IInvHolds, PTL

(***************************************************************************)
(* "stuck" is not said of a request whose end the mirror has, unless an    *)
(* append failed or a mirror write was overtaken.                          *)
(***************************************************************************)
THEOREM StuckRightly == Spec => StuckExcused
<1>1. ASSUME IInv, [Next]_vars
      PROVE  [JudgedStuck => \/ rec \notin Terminal \/ rec \in clones
                             \/ unjournaled \/ overtaken]_vars
  <2> SUFFICES ASSUME JudgedStuck, rec \in Terminal, rec \notin clones,
                      ~unjournaled, ~overtaken
               PROVE  FALSE
    OBVIOUS
  <2>1. Observe
    <3>1. exec.status = "running" /\ exec'.status = "completed"
      BY DEF JudgedStuck
    <3>2. exec' # exec
      BY <3>1
    <3>3. ~ (Track \/ ExecFails)
      <4>1. exec \in [status : ExecStates, obs : Seq(States)]
        BY <1>1 DEF IInv, TypeOK
      <4>2. ~ Track
        BY <3>1, <3>2 DEF Track
      <4>3. ~ ExecFails
        BY <3>1, <4>1 DEF ExecFails
      <4> QED
        BY <4>2, <4>3
    <3>4. ~ (Insert \/ Timeout \/ PollNothing \/ TickFails \/ Sweep \/ Kill \/ Boot)
      BY <3>2 DEF Insert, Timeout, PollNothing, TickFails, Sweep, Kill, Boot, audit
    <3>5. ~ RequestSnapshot /\ ~ (\E s \in Present : ReportResult(s) \/ Mirror(s))
      BY <3>2 DEF RequestSnapshot, ReportResult, Move, Mirror, audit
    <3>6. ~ UNCHANGED vars
      BY <3>2 DEF vars, audit
    <3> QED
      BY <1>1, <3>3, <3>4, <3>5, <3>6 DEF Next, Drive
  <2>2. IInv'
    BY <1>1, <2>1, ObserveIInv
  <2>3. exec'.obs = Append(exec.obs, mirror) /\ exec.obs \in Seq(States) /\ driver # "off"
        /\ UNCHANGED <<durable, kills, unjournaled, overtaken>>
    BY <1>1, <2>1 DEF Observe, server, history, IInv, TypeOK
  <2>4. \A i \in 1 .. Len(exec'.obs) : exec'.obs[i] # "absent"
    BY DEF JudgedStuck, Judge
  <2>5. Len(exec'.obs) \in 1 .. Len(exec'.obs) /\ exec'.obs[Len(exec'.obs)] = mirror
    BY <1>1, <2>3 DEF IInv, TypeOK
  <2>6. mirror # "absent"
    BY <2>4, <2>5
  <2>7. durable \/ kills = 0
    <3>1. Before(mirror, rec) /\ (~durable /\ kills > 0 => rec = "absent")
      BY <1>1, <2>6 DEF IInv, CopiesOK
    <3>2. rec # "absent" /\ kills \in Nat
      BY <1>1 DEF IInv, TypeOK, Terminal
    <3> QED
      BY <3>1, <3>2
  <2>8. mirror = rec
    BY <1>1, <2>3, <2>7 DEF IInv, OrderOK, InOrder
  <2>9. \A i \in 1 .. Len(exec'.obs) - 1 : IsLegalTransition(exec'.obs[i], exec'.obs[i + 1])
    BY <2>2, <2>3, <2>7 DEF IInv, OrderOK, InOrder
  <2> QED
    BY <2>4, <2>5, <2>8, <2>9 DEF JudgedStuck, Judge
<1> QED
  BY <1>1, IInvHolds, PTL DEF Spec, StuckExcused
=============================================================================
