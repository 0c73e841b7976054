------------------------- MODULE SessionRepo_proofs -------------------------
(***************************************************************************)
(* Proofs about SessionRepo, for any sets of sessions, clients and         *)
(* sweepers and any bound.                                                 *)
(***************************************************************************)
EXTENDS SessionRepo, TLAPS

(* The states of the FSM are not NoSession: a row with a state exists.     *)
LEMMA StatesExist ==
    /\ FSM!NoSession \notin FSM!State
    /\ FSM!Open \subseteq FSM!State
    /\ {"Active", "WaitingForHuman", "Completed", "Expired"} = FSM!State
  BY DEF FSM!NoSession, FSM!State, FSM!Open

(* What a successful or a failed Transition leaves in the table: the other *)
(* rows are untouched, and the row itself moved only if its version was    *)
(* the caller's.                                                           *)
LEMMA TransitionStep ==
    ASSUME TypeOK, NEW h \in Snapshot, NEW to \in FSM!State,
           NEW result, Transition(h, to, result)
    PROVE  /\ row' \in [Sessions -> Row]
           /\ \A s \in Sessions :
                \/ row'[s] = row[s]
                \/ /\ s = h.id
                   /\ row[s].version = h.version
                   /\ FSM!Allowed(h.state, to)
                   /\ row'[s] = [state |-> to, version |-> row[s].version + 1]
  <1>1. h.id \in Sessions
    BY DEF Snapshot
  <1>2. CASE UNCHANGED row
    BY <1>2 DEF TypeOK
  <1>3. CASE /\ FSM!Allowed(h.state, to)
             /\ VersionMatches(h)
             /\ UpdateRow(h, to)
    <2>1. row[h.id].version \in Nat
      BY <1>1 DEF TypeOK, Row
    <2>2. [state |-> to, version |-> row[h.id].version + 1] \in Row
      BY <2>1 DEF Row
    <2>3. QED
      BY <1>1, <1>3, <2>2 DEF TypeOK, UpdateRow, VersionMatches
  <1>4. QED
    BY <1>2, <1>3 DEF Transition

-----------------------------------------------------------------------------
(* A snapshot taken of an existing row is a Snapshot, and trails it.       *)
LEMMA SnapshotFacts ==
    ASSUME TypeOK, NEW s \in Sessions, row[s].state # FSM!NoSession
    PROVE  /\ SnapshotOf(s) \in Snapshot
           /\ SnapshotOf(s).id = s
           /\ SnapshotOf(s).version = row[s].version
           /\ SnapshotOf(s).state = row[s].state
           /\ row[s].version \in Nat
  BY DEF TypeOK, Row, Snapshot, SnapshotOf

LEMMA ListExpiredFacts ==
    ASSUME TypeOK
    PROVE  /\ ListExpired \subseteq Snapshot
           /\ \A h \in ListExpired : /\ h.id \in overdue
                                     /\ h = SnapshotOf(h.id)
  <1> SUFFICES ASSUME NEW h \in ListExpired
               PROVE  h \in Snapshot /\ h.id \in overdue /\ h = SnapshotOf(h.id)
    OBVIOUS
  <1>1. PICK s \in overdue : row[s].state \in FSM!Open /\ h = SnapshotOf(s)
    BY DEF ListExpired
  <1>2. s \in Sessions /\ row[s].state # FSM!NoSession
    BY <1>1, StatesExist DEF TypeOK
  <1>3. QED
    BY <1>1, <1>2, SnapshotFacts

-----------------------------------------------------------------------------
(* Every variable keeps its type.                                          *)
THEOREM TypeCorrect == Spec => []TypeOK
  <1>1. Init => TypeOK
    BY DEF Init, TypeOK, Row, Status
  <1>2. TypeOK /\ [Next]_vars => TypeOK'
    <2> SUFFICES ASSUME TypeOK, [Next]_vars
                 PROVE  TypeOK'
      OBVIOUS
    <2>1. ASSUME NEW s \in Sessions, Create(s)
          PROVE  TypeOK'
      BY <2>1, StatesExist DEF Create, TypeOK, Row
    <2>2. ASSUME NEW s \in Sessions, PassExpiry(s)
          PROVE  TypeOK'
      BY <2>2 DEF PassExpiry, TypeOK
    <2>3. ASSUME NEW c \in Clients, NEW s \in Sessions, GetByID(c, s)
          PROVE  TypeOK'
      BY <2>3, SnapshotFacts DEF GetByID, TypeOK, Callers
    <2>4. ASSUME NEW c \in Clients, NEW to \in ClientTargets,
                 CallTransition(c, to)
          PROVE  TypeOK'
      <3>1. PICK h \in held[c], result \in {"ok", "conflict", "invalid"} :
                 /\ Transition(h, to, result)
                 /\ held' = [held EXCEPT ![c] = {}]
                 /\ UNCHANGED <<overdue, listed, status>>
        BY <2>4 DEF CallTransition
      <3>2. h \in Snapshot /\ to \in FSM!State
        BY DEF TypeOK, Callers, ClientTargets
      <3>3. row' \in [Sessions -> Row]
        BY <3>1, <3>2, TransitionStep
      <3>4. QED
        BY <3>1, <3>3 DEF TypeOK, Callers
    <2>5. ASSUME NEW c \in Clients, Drop(c)
          PROVE  TypeOK'
      BY <2>5 DEF Drop, TypeOK, Callers
    <2>6. ASSUME NEW w \in Sweepers, StartSweep(w)
          PROVE  TypeOK'
      BY <2>6, ListExpiredFacts DEF StartSweep, TypeOK, Callers, Status
    <2>7. ASSUME NEW w \in Sweepers, SweepOne(w)
          PROVE  TypeOK'
      <3>1. PICK h \in held[w], result \in {"ok", "conflict", "invalid"} :
                 /\ Transition(h, "Expired", result)
                 /\ IF result = "invalid"
                      THEN EndWork(w)
                      ELSE /\ held' = [held EXCEPT ![w] = @ \ {h}]
                           /\ UNCHANGED <<listed, status>>
        BY <2>7 DEF SweepOne
      <3>2. h \in Snapshot /\ "Expired" \in FSM!State
        BY StatesExist DEF TypeOK, Callers
      <3>3. row' \in [Sessions -> Row]
        BY <3>1, <3>2, TransitionStep
      <3>4. QED
        BY <2>7, <3>1, <3>3 DEF SweepOne, EndWork, TypeOK, Callers, Status
    <2>8. ASSUME NEW w \in Sweepers, EndSweep(w)
          PROVE  TypeOK'
      BY <2>8 DEF EndSweep, TypeOK, Callers, Status
    <2>9. ASSUME NEW w \in Sweepers, CrashSweep(w)
          PROVE  TypeOK'
      BY <2>9 DEF CrashSweep, EndWork, TypeOK, Callers, Status
    <2>10. CASE UNCHANGED vars
      BY <2>10 DEF vars, TypeOK
    <2>11. QED
      BY <2>1, <2>2, <2>3, <2>4, <2>5, <2>6, <2>7, <2>8, <2>9, <2>10
         DEF Next, Sweep
  <1>3. QED
    BY <1>1, <1>2, PTL DEF Spec

-----------------------------------------------------------------------------
(***************************************************************************)
(* The inductive invariant.  What a step does to the table is one fact,    *)
(* stated once; what it does to the snapshots is then a matter of which    *)
(* set they were in before.                                                *)
(***************************************************************************)
Created(s)  == /\ row[s].state = FSM!NoSession
               /\ row'[s] = [state |-> "Active", version |-> 1]
Moved(s)    == /\ row[s].state \in FSM!State
               /\ row'[s].state \in FSM!State
               /\ FSM!Allowed(row[s].state, row'[s].state)
               /\ row'[s].version = row[s].version + 1
               /\ row'[s].state = "Expired" => s \in overdue

(* A row stays, is created, or moves along the table from its own state.   *)
LEMMA RowStep ==
    ASSUME IInv, [Next]_vars, NEW s \in Sessions
    PROVE  row'[s] = row[s] \/ Created(s) \/ Moved(s)
  <1> USE DEF IInv
  <1>1. ASSUME NEW h \in Snapshot, NEW to \in FSM!State, NEW result,
               NEW c \in Callers, h \in held[c], Transition(h, to, result),
               to = "Expired" => h.id \in overdue
        PROVE  row'[s] = row[s] \/ Moved(s)
    <2>1. \/ row'[s] = row[s]
          \/ /\ s = h.id
             /\ row[s].version = h.version
             /\ FSM!Allowed(h.state, to)
             /\ row'[s] = [state |-> to, version |-> row[s].version + 1]
      BY <1>1, TransitionStep
    <2>2. s = h.id /\ row[s].version = h.version => h.state = row[s].state
      BY <1>1 DEF SnapshotsTrail
    <2>3. h.state \in FSM!State
      BY DEF Snapshot
    <2>4. QED
      BY <1>1, <2>1, <2>2, <2>3 DEF Moved
  <1>2. ASSUME NEW t \in Sessions, Create(t)
        PROVE  row'[s] = row[s] \/ Created(s)
    BY <1>2 DEF Create, Created, TypeOK
  <1>3. ASSUME NEW c \in Clients, NEW to \in ClientTargets,
               CallTransition(c, to)
        PROVE  row'[s] = row[s] \/ Moved(s)
    <2>1. PICK h \in held[c], result \in {"ok", "conflict", "invalid"} :
               Transition(h, to, result)
      BY <1>3 DEF CallTransition
    <2>2. h \in Snapshot /\ to \in FSM!State /\ to # "Expired" /\ c \in Callers
      BY DEF TypeOK, Callers, ClientTargets
    <2>3. QED
      BY <2>1, <2>2, <1>1
  <1>4. ASSUME NEW w \in Sweepers, SweepOne(w)
        PROVE  row'[s] = row[s] \/ Moved(s)
    <2>1. PICK h \in held[w], result \in {"ok", "conflict", "invalid"} :
               Transition(h, "Expired", result)
      BY <1>4 DEF SweepOne
    <2>2. h \in Snapshot /\ "Expired" \in FSM!State /\ w \in Callers
      BY StatesExist DEF TypeOK, Callers
    <2>3. h.id \in overdue
      BY DEF SweepsOverdueOnly
    <2>4. QED
      BY <2>1, <2>2, <2>3, <1>1
  <1>5. QED
    BY <1>2, <1>3, <1>4
       DEF Next, Sweep, vars, PassExpiry, GetByID, Drop, StartSweep, EndSweep,
           CrashSweep

(* So a row's version never falls, and a row at the same version is the    *)
(* same row.                                                               *)
LEMMA VersionsGrow ==
    ASSUME IInv, [Next]_vars, NEW s \in Sessions
    PROVE  /\ row[s].version \in Nat
           /\ row'[s].version \in Nat
           /\ row[s].version <= row'[s].version
           /\ row'[s].version = row[s].version => row'[s] = row[s]
  <1>1. row[s].version \in Nat
    BY DEF IInv, TypeOK, Row
  <1>2. row[s].state = FSM!NoSession => row[s].version = 0
    BY DEF IInv, UncreatedIsZero
  <1>3. QED
    BY <1>1, <1>2, RowStep DEF Created, Moved

(* A snapshot held after a step was held before it, or was just taken.     *)
LEMMA HeldStep ==
    ASSUME IInv, [Next]_vars, NEW c \in Callers, NEW h \in held'[c]
    PROVE  \/ h \in held[c]
           \/ /\ h \in Snapshot
              /\ h = SnapshotOf(h.id)
              /\ UNCHANGED row
              /\ c \in Sweepers => h.id \in overdue /\ UNCHANGED overdue
  <1> USE DEF IInv
  <1>1. ASSUME NEW d \in Clients, NEW s \in Sessions, GetByID(d, s)
        PROVE  h \in held[c] \/ (/\ h \in Snapshot /\ h = SnapshotOf(h.id)
                                 /\ UNCHANGED row /\ c \notin Sweepers)
    BY <1>1, SnapshotFacts, RepoAssumption DEF GetByID, TypeOK, Callers
  <1>2. ASSUME NEW w \in Sweepers, StartSweep(w)
        PROVE  h \in held[c] \/ (/\ h \in Snapshot /\ h = SnapshotOf(h.id)
                                 /\ UNCHANGED row
                                 /\ h.id \in overdue /\ UNCHANGED overdue)
    BY <1>2, ListExpiredFacts DEF StartSweep, TypeOK, Callers
  <1>3. ASSUME NEW w \in Sweepers, SweepOne(w)
        PROVE  h \in held[c]
    BY <1>3 DEF SweepOne, EndWork, TypeOK, Callers
  <1>4. ASSUME NEW d \in Clients, NEW to \in ClientTargets,
               CallTransition(d, to)
        PROVE  h \in held[c]
    BY <1>4 DEF CallTransition, TypeOK, Callers
  <1>5. ASSUME NEW d \in Clients, Drop(d)
        PROVE  h \in held[c]
    BY <1>5 DEF Drop, TypeOK, Callers
  <1>6. ASSUME NEW w \in Sweepers, CrashSweep(w)
        PROVE  h \in held[c]
    BY <1>6 DEF CrashSweep, EndWork, TypeOK, Callers
  <1>7. QED
    BY <1>1, <1>2, <1>3, <1>4, <1>5, <1>6
       DEF Next, Sweep, vars, Create, PassExpiry, EndSweep

-----------------------------------------------------------------------------
(* The conjuncts of the invariant, one lemma each.                         *)
LEMMA TrailStep ==
    ASSUME IInv, [Next]_vars PROVE SnapshotsTrail'
  <1> SUFFICES ASSUME NEW c \in Callers, NEW h \in held'[c]
               PROVE  /\ h.version <= row'[h.id].version
                      /\ h.version = row'[h.id].version
                           => h.state = row'[h.id].state
    BY DEF SnapshotsTrail
  <1>1. CASE h \in held[c]
    <2>1. h \in Snapshot
      BY <1>1 DEF IInv, TypeOK
    <2>2. h.id \in Sessions /\ h.version \in Nat
      BY <2>1 DEF Snapshot
    <2>3. /\ h.version <= row[h.id].version
          /\ h.version = row[h.id].version => h.state = row[h.id].state
      BY <1>1 DEF IInv, SnapshotsTrail
    <2>4. QED
      BY <2>2, <2>3, VersionsGrow
  <1>2. CASE /\ h \in Snapshot
             /\ h = SnapshotOf(h.id)
             /\ UNCHANGED row
    <2>1. h.id \in Sessions /\ h.version \in Nat
      BY <1>2 DEF Snapshot
    <2>2. h.version = row[h.id].version /\ h.state = row[h.id].state
      BY <1>2 DEF SnapshotOf
    <2>3. QED
      BY <1>2, <2>1, <2>2
  <1>3. QED
    BY <1>1, <1>2, HeldStep

LEMMA OverdueStep ==
    ASSUME IInv, [Next]_vars PROVE overdue \subseteq overdue'
  BY DEF Next, Sweep, vars, Create, PassExpiry, GetByID, CallTransition, Drop,
         StartSweep, SweepOne, EndSweep, CrashSweep

LEMMA ExpiredStep ==
    ASSUME IInv, [Next]_vars PROVE ExpiredIsOverdue'
  <1> SUFFICES ASSUME NEW s \in Sessions, row'[s].state = "Expired"
               PROVE  s \in overdue'
    BY DEF ExpiredIsOverdue
  <1>1. row[s].state = "Expired" => s \in overdue
    BY DEF IInv, ExpiredIsOverdue
  <1>2. QED
    BY <1>1, RowStep, OverdueStep DEF Created, Moved

LEMMA UncreatedStep ==
    ASSUME IInv, [Next]_vars PROVE UncreatedIsZero'
  <1> SUFFICES ASSUME NEW s \in Sessions, row'[s].state = FSM!NoSession
               PROVE  row'[s].version = 0
    BY DEF UncreatedIsZero
  <1>1. ~Created(s) /\ ~Moved(s)
    BY StatesExist DEF Created, Moved
  <1>2. QED
    BY <1>1, RowStep DEF IInv, UncreatedIsZero

LEMMA SweepsOverdueStep ==
    ASSUME IInv, [Next]_vars PROVE SweepsOverdueOnly'
  <1> SUFFICES ASSUME NEW w \in Sweepers, NEW h \in held'[w]
               PROVE  h.id \in overdue'
    BY DEF SweepsOverdueOnly
  <1>1. h \in held[w] => h.id \in overdue
    BY DEF IInv, SweepsOverdueOnly
  <1>2. QED
    BY <1>1, HeldStep, OverdueStep DEF Callers

(* Taking a snapshot off the list leaves the row past it: the transition   *)
(* moved the row, or found it moved.                                       *)
LEMMA TakenOff ==
    ASSUME IInv, NEW w \in Sweepers, NEW h \in held[w], NEW result,
           Transition(h, "Expired", result), result # "invalid"
    PROVE  h.version < row'[h.id].version
  <1>1. h \in Snapshot /\ "Expired" \in FSM!State
    BY StatesExist DEF IInv, TypeOK, Callers
  <1>2. h.id \in Sessions /\ h.version \in Nat
    BY <1>1 DEF Snapshot
  <1>3. row[h.id].version \in Nat /\ h.version <= row[h.id].version
    BY <1>2 DEF IInv, TypeOK, Row, SnapshotsTrail, Callers
  <1>4. CASE UNCHANGED row /\ ~VersionMatches(h)
    BY <1>2, <1>3, <1>4 DEF VersionMatches
  <1>5. CASE UpdateRow(h, "Expired")
    BY <1>2, <1>3, <1>5 DEF UpdateRow, IInv, TypeOK
  <1>6. QED
    BY <1>4, <1>5 DEF Transition

LEMMA ThoroughStep ==
    ASSUME IInv, [Next]_vars PROVE SweepIsThorough'
  <1> SUFFICES ASSUME NEW w \in Sweepers, status'[w] \in {"running", "ok"},
                      NEW h \in listed'[w] \ held'[w]
               PROVE  h.version < row'[h.id].version
    BY DEF SweepIsThorough
  <1> USE DEF IInv
  <1>1. CASE /\ status[w] \in {"running", "ok"}
             /\ h \in listed[w] \ held[w]
    <2>1. h \in Snapshot
      BY <1>1 DEF TypeOK
    <2>2. h.id \in Sessions /\ h.version \in Nat
      BY <2>1 DEF Snapshot
    <2>3. h.version < row[h.id].version
      BY <1>1 DEF SweepIsThorough
    <2>4. QED
      BY <2>2, <2>3, VersionsGrow
  <1>2. CASE ~( /\ status[w] \in {"running", "ok"}
                /\ h \in listed[w] \ held[w] )
    <2>1. ASSUME NEW v \in Sweepers, StartSweep(v)
          PROVE  FALSE
      BY <1>2, <2>1 DEF StartSweep, TypeOK, Callers
    <2>2. ASSUME NEW v \in Sweepers, EndSweep(v)
          PROVE  FALSE
      BY <1>2, <2>2 DEF EndSweep, TypeOK, Callers
    <2>3. ASSUME NEW v \in Sweepers, CrashSweep(v)
          PROVE  FALSE
      BY <1>2, <2>3 DEF CrashSweep, EndWork, TypeOK, Callers
    <2>4. ASSUME NEW c \in Clients,
                 \/ \E s \in Sessions : GetByID(c, s)
                 \/ \E to \in ClientTargets : CallTransition(c, to)
                 \/ Drop(c)
          PROVE  FALSE
      <3>1. c # w
        BY RepoAssumption
      <3>2. held'[w] = held[w] /\ status'[w] = status[w] /\ listed' = listed
        BY <2>4, <3>1 DEF GetByID, CallTransition, Drop, TypeOK, Callers
      <3>3. QED
        BY <1>2, <3>2
    <2>5. ASSUME NEW v \in Sweepers, SweepOne(v)
          PROVE  h.version < row'[h.id].version
      <3>1. PICK g \in held[v], result \in {"ok", "conflict", "invalid"} :
                 /\ Transition(g, "Expired", result)
                 /\ IF result = "invalid"
                      THEN EndWork(v)
                      ELSE /\ held' = [held EXCEPT ![v] = @ \ {g}]
                           /\ UNCHANGED <<listed, status>>
        BY <2>5 DEF SweepOne
      <3>2. v = w /\ result # "invalid" /\ h = g
        BY <1>2, <2>5, <3>1 DEF SweepOne, EndWork, TypeOK, Callers
      <3>3. QED
        BY <3>1, <3>2, TakenOff
    <2>6. CASE \/ \E s \in Sessions : Create(s) \/ PassExpiry(s)
               \/ UNCHANGED vars
      BY <1>2, <2>6 DEF Create, PassExpiry, vars
    <2>7. QED
      BY <2>1, <2>2, <2>3, <2>4, <2>5, <2>6 DEF Next, Sweep
  <1>3. QED
    BY <1>1, <1>2

-----------------------------------------------------------------------------
(* The inductive invariant holds of every behaviour.                       *)
THEOREM Invariance == Spec => []IInv
  <1>1. Init => IInv
    <2> SUFFICES ASSUME Init PROVE IInv
      OBVIOUS
    <2>1. TypeOK
      BY DEF Init, TypeOK, Row, Status
    <2>2. QED
      BY <2>1 DEF Init, IInv, SnapshotsTrail, SweepIsThorough, ExpiredIsOverdue,
                  UncreatedIsZero, SweepsOverdueOnly, Callers, FSM!NoSession
  <1>2. IInv /\ [Next]_vars /\ TypeOK' => IInv'
    BY TrailStep, ExpiredStep, UncreatedStep, SweepsOverdueStep, ThoroughStep
       DEF IInv
  <1>3. QED
    BY <1>1, <1>2, TypeCorrect, PTL DEF Spec

(* A snapshot at its row's version shows its row's state: optimistic       *)
(* locking on a loaded copy is sound.                                      *)
THEOREM SnapshotsTrailAlways == Spec => []SnapshotsTrail
  BY Invariance, PTL DEF IInv

(* A sweep that returns nil left no session it listed as it found it.      *)
THEOREM SweepsAreThorough == Spec => []SweepIsThorough
  BY Invariance, PTL DEF IInv

(* Only sessions past their expires_at are ever Expired.                   *)
THEOREM ExpiredOnlyOverdue == Spec => []ExpiredIsOverdue
  BY Invariance, PTL DEF IInv

-----------------------------------------------------------------------------
(* A step writes at most one row.                                          *)
LEMMA OneRowAtATime ==
    ASSUME IInv, [Next]_vars, row' # row
    PROVE  \E s \in Sessions, r \in Row : row' = [row EXCEPT ![s] = r]
  <1> USE DEF IInv
  <1>1. ASSUME NEW h \in Snapshot, NEW to \in FSM!State, NEW result,
               Transition(h, to, result)
        PROVE  \E s \in Sessions, r \in Row : row' = [row EXCEPT ![s] = r]
    <2>1. h.id \in Sessions
      BY DEF Snapshot
    <2>2. UpdateRow(h, to)
      BY <1>1 DEF Transition
    <2>3. [state |-> to, version |-> row[h.id].version + 1] \in Row
      BY <2>1 DEF TypeOK, Row
    <2>4. QED
      BY <2>1, <2>2, <2>3 DEF UpdateRow
  <1>2. ASSUME NEW s \in Sessions, Create(s)
        PROVE  \E t \in Sessions, r \in Row : row' = [row EXCEPT ![t] = r]
    <2>1. [state |-> "Active", version |-> 1] \in Row
      BY StatesExist DEF Row
    <2>2. QED
      BY <1>2, <2>1 DEF Create
  <1>3. ASSUME NEW c \in Clients, NEW to \in ClientTargets,
               CallTransition(c, to)
        PROVE  \E s \in Sessions, r \in Row : row' = [row EXCEPT ![s] = r]
    <2>1. PICK h \in held[c], result \in {"ok", "conflict", "invalid"} :
               Transition(h, to, result)
      BY <1>3 DEF CallTransition
    <2>2. h \in Snapshot /\ to \in FSM!State
      BY DEF TypeOK, Callers, ClientTargets
    <2>3. QED
      BY <2>1, <2>2, <1>1
  <1>4. ASSUME NEW w \in Sweepers, SweepOne(w)
        PROVE  \E s \in Sessions, r \in Row : row' = [row EXCEPT ![s] = r]
    <2>1. PICK h \in held[w], result \in {"ok", "conflict", "invalid"} :
               Transition(h, "Expired", result)
      BY <1>4 DEF SweepOne
    <2>2. h \in Snapshot /\ "Expired" \in FSM!State
      BY StatesExist DEF TypeOK, Callers
    <2>3. QED
      BY <2>1, <2>2, <1>1
  <1>5. QED
    BY <1>2, <1>3, <1>4
       DEF Next, Sweep, vars, PassExpiry, GetByID, Drop, StartSweep, EndSweep,
           CrashSweep

(* The repository implements the abstract FSM: a step that writes a row is *)
(* a step of that session from its real state, any other step a stutter.   *)
THEOREM RepoImplementsFSM == Spec => ImplementsFSM
  <1> DEFINE abs == [s \in Sessions |-> row[s].state]
  <1>1. Init => FSM!Init
    BY DEF Init, FSM!Init
  <1>2. ASSUME IInv, [Next]_vars
        PROVE  [FSM!Next]_abs
    <2>1. CASE row' = row
      BY <2>1
    <2>2. CASE row' # row
      <3>1. PICK s \in Sessions, r \in Row : row' = [row EXCEPT ![s] = r]
        BY <1>2, <2>2, OneRowAtATime
      <3>2. row \in [Sessions -> Row]
        BY <1>2 DEF IInv, TypeOK
      <3>3. abs' = [abs EXCEPT ![s] = row'[s].state]
        BY <3>1, <3>2
      <3>4. CASE row'[s] = row[s]
        BY <3>1, <3>2, <3>4, <2>2
      <3>5. CASE Created(s)
        <4>1. abs[s] = FSM!NoSession /\ abs' = [abs EXCEPT ![s] = "Active"]
          BY <3>3, <3>5 DEF Created
        <4>2. FSM!Begin(s)
          BY <4>1 DEF FSM!Begin
        <4>3. QED
          BY <4>2 DEF FSM!Next
      <3>6. CASE Moved(s)
        <4>1. PICK to \in FSM!State : to = row'[s].state
          BY <3>6 DEF Moved
        <4>2. FSM!Allowed(abs[s], to) /\ abs' = [abs EXCEPT ![s] = to]
          BY <3>3, <3>6, <4>1 DEF Moved
        <4>3. FSM!Move(s, to)
          BY <4>2 DEF FSM!Move
        <4>4. QED
          BY <4>3 DEF FSM!Next
      <3>7. QED
        BY <1>2, <3>4, <3>5, <3>6, RowStep
    <2>3. QED
      BY <2>1, <2>2
  <1>3. QED
    BY <1>1, <1>2, Invariance, PTL DEF Spec, ImplementsFSM, FSM!Spec
=============================================================================
