--------------------------- MODULE D1StoreProofs ---------------------------
(***************************************************************************)
(* What the table that dispatchers share over D1 does, for every number of *)
(* dispatchers, jobs, attempts, claims and faults: each row goes through   *)
(* the life of JobLifecycle, failures are charged once, and live leases    *)
(* exclude each other.                                                     *)
(***************************************************************************)
EXTENDS D1Store, FiniteSetTheorems, TLAPS

Row == [status : Statuses, retryCount : Nat, owner : Workers \cup {NoOne},
        expires : Nat, claims : 0 .. MaxClaims]

\* What the refinement needs of the rows: a row that is not there has no
\* attempts, for the next enqueue starts from none.
RowsTyped ==
  /\ rows \in [Jobs -> Row]
  /\ loop \in [Workers -> [job : Jobs \cup {NoJob}, at : {"idle", "select", "update"}, now : Nat]]
  /\ \A w \in Workers : loop[w].at # "idle" => loop[w].job \in Jobs
  /\ now \in Nat
  /\ \A j \in Jobs : rows[j].status = "absent" => rows[j].retryCount = 0

\* What a step may do to the table.
RowsMove ==
  \/ UNCHANGED rows
  \/ \E j \in Jobs : \E row \in Row :
       /\ rows' = [rows EXCEPT ![j] = row]
       /\ \/ /\ rows[j].status = "absent" /\ row.status = "queued" /\ row.retryCount = 0
          \/ /\ rows[j].status \in {"queued", "leased"} /\ row.status = "leased"
             /\ row.retryCount = rows[j].retryCount
          \/ /\ rows[j].status = "leased" /\ row.status = "done"
             /\ row.retryCount = rows[j].retryCount
          \/ /\ rows[j].status = "leased" /\ row.retryCount = rows[j].retryCount + 1
             /\ row.status = IF row.retryCount >= RetryMax[j] THEN "failed" ELSE "queued"
          \/ /\ rows[j].status \in {"queued", "leased"} /\ row.status = "cancelled"
             /\ row.retryCount = rows[j].retryCount
          \/ /\ rows[j].status = "done" /\ row.status = "absent" /\ row.retryCount = 0
  \/ \E S \in SUBSET Jobs :
       /\ \A j \in S : rows[j].status = "leased"
       /\ rows' \in [Jobs -> Row]
       /\ \A j \in Jobs : /\ rows'[j].retryCount = rows[j].retryCount
                          /\ rows'[j].status = IF j \in S THEN "queued" ELSE rows[j].status

LEMMA NoRowTyped == NoRow \in Row
BY D1StoreAssumption DEF NoRow, Row, Statuses

LEMMA EnqueueMoves ==
  ASSUME RowsTyped, NEW w \in Workers, NEW j \in Jobs, Enqueue(w, j)
  PROVE  RowsMove
<1> DEFINE row == [NoRow EXCEPT !.status = "queued"]
<1>1. row \in Row /\ row.status = "queued" /\ row.retryCount = 0
  BY NoRowTyped DEF Row, Statuses, NoRow
<1>2. rows[j].status = "absent" /\ rows' = [rows EXCEPT ![j] = row]
  BY DEF Enqueue, SetRow
<1> HIDE DEF row
<1> QED
  BY <1>1, <1>2 DEF RowsMove

\* The UPDATE of a claim, whoever asked for it.
LEMMA ClaimMoves ==
  ASSUME RowsTyped, NEW w \in Workers, NEW j \in Jobs, NEW t \in Nat,
         StillClaimable(j, t), rows[j].claims < MaxClaims, SetRow(j, Leased(j, w, t))
  PROVE  RowsMove
<1> DEFINE row == Leased(j, w, t)
<1>1. rows[j] \in Row /\ t + LeaseMs \in Nat /\ rows[j].claims + 1 \in 0 .. MaxClaims
  BY D1StoreAssumption DEF RowsTyped, Row
<1>2. row \in Row /\ row.status = "leased" /\ row.retryCount = rows[j].retryCount
  BY <1>1 DEF Leased, Row, Statuses
<1>3. rows[j].status \in {"queued", "leased"} /\ rows' = [rows EXCEPT ![j] = row]
  BY DEF StillClaimable, Claimable, SetRow
<1> HIDE DEF row
<1> QED
  BY <1>2, <1>3 DEF RowsMove

LEMMA AckMoves ==
  ASSUME RowsTyped, NEW r \in Runs, AckRow(r)
  PROVE  RowsMove
<1> DEFINE row == [rows[r[1]] EXCEPT !.status = "done"]
<1>1. r[1] \in Jobs /\ rows[r[1]] \in Row
  BY DEF Runs, RowsTyped
<1>2. row \in Row /\ row.status = "done" /\ row.retryCount = rows[r[1]].retryCount
  BY <1>1 DEF Row, Statuses
<1>3. UNCHANGED rows \/ (rows[r[1]].status = "leased" /\ rows' = [rows EXCEPT ![r[1]] = row])
  BY DEF AckRow, Held, SetRow
<1> HIDE DEF row
<1> QED
  BY <1>1, <1>2, <1>3 DEF RowsMove

LEMMA FailMoves ==
  ASSUME RowsTyped, NEW r \in Runs, FailRow(r)
  PROVE  RowsMove
<1> DEFINE j == r[1]
           row == [rows[j] EXCEPT !.status = IF Spent(j) THEN "failed" ELSE "queued",
                                  !.retryCount = @ + 1, !.owner = NoOne, !.expires = 0]
<1>1. j \in Jobs /\ rows[j] \in Row /\ rows[j].retryCount + 1 \in Nat
  BY DEF Runs, RowsTyped, Row
<1>2. /\ row \in Row /\ row.retryCount = rows[j].retryCount + 1
      /\ row.status = IF row.retryCount >= RetryMax[j] THEN "failed" ELSE "queued"
  BY <1>1 DEF Row, Statuses, Spent
<1>3. UNCHANGED rows \/ (rows[j].status = "leased" /\ rows' = [rows EXCEPT ![j] = row])
  BY DEF FailRow, Held, SetRow
<1> HIDE DEF row
<1> QED
  BY <1>1, <1>2, <1>3 DEF RowsMove

LEMMA EndMoves ==
  ASSUME RowsTyped, NEW j \in Jobs, Cancel(j) \/ Sweep(j)
  PROVE  RowsMove
<1>1. rows[j] \in Row
  BY DEF RowsTyped
<1>2. CASE Cancel(j)
  <2> DEFINE row == [rows[j] EXCEPT !.status = "cancelled"]
  <2>1. row \in Row /\ row.status = "cancelled" /\ row.retryCount = rows[j].retryCount
    BY <1>1 DEF Row, Statuses
  <2>2. rows[j].status \in {"queued", "leased"} /\ rows' = [rows EXCEPT ![j] = row]
    BY <1>2 DEF Cancel, SetRow
  <2> HIDE DEF row
  <2> QED
    BY <2>1, <2>2 DEF RowsMove
<1>3. CASE Sweep(j)
  <2> DEFINE row == [NoRow EXCEPT !.claims = rows[j].claims]
  <2>1. row \in Row /\ row.status = "absent" /\ row.retryCount = 0
    BY <1>1, NoRowTyped DEF Row, NoRow
  <2>2. rows[j].status = "done" /\ rows' = [rows EXCEPT ![j] = row]
    BY <1>3 DEF Sweep, SetRow
  <2> HIDE DEF row
  <2> QED
    BY <2>1, <2>2 DEF RowsMove
<1> QED
  BY <1>2, <1>3

\* A row whose lease is given back.
LEMMA ReturnedRow ==
  ASSUME RowsTyped, NEW j \in Jobs
  PROVE  /\ Returned(j) \in Row /\ Returned(j).status = "queued"
         /\ Returned(j).retryCount = rows[j].retryCount
<1>1. rows[j] \in Row
  BY DEF RowsTyped
<1> QED
  BY <1>1 DEF Row, Statuses, Returned

LEMMA ReclaimMoves ==
  ASSUME RowsTyped, Reclaim
  PROVE  RowsMove
<1> DEFINE S == {j \in Jobs : Lapsed(j)}
<1>1. rows' = [j \in Jobs |-> IF Lapsed(j) THEN Returned(j) ELSE rows[j]]
  BY DEF Reclaim
<1>2. \A j \in Jobs : /\ rows[j] \in Row /\ Returned(j) \in Row
                       /\ Returned(j).status = "queued"
                       /\ Returned(j).retryCount = rows[j].retryCount
  BY ReturnedRow DEF RowsTyped
<1>3. \A j \in S : rows[j].status = "leased"
  BY DEF Lapsed
<1>4. \A j \in Jobs : /\ rows'[j] \in Row /\ rows'[j].retryCount = rows[j].retryCount
                       /\ rows'[j].status = IF j \in S THEN "queued" ELSE rows[j].status
  BY <1>1, <1>2
<1>5. rows' \in [Jobs -> Row]
  BY <1>1, <1>2
<1> QED
  BY <1>3, <1>4, <1>5 DEF RowsMove

LEMMA NextMoves == ASSUME RowsTyped, [Next]_vars PROVE RowsMove
<1>1. ASSUME NEW w \in Workers, ClaimUpdates(w) \/ ClaimRejects(w) PROVE RowsMove
  <2>1. CASE UNCHANGED rows
    BY <2>1 DEF RowsMove
  <2>2. CASE loop[w].at = "update" /\ ~ UNCHANGED rows
    <3> DEFINE j == loop[w].job
               t == loop[w].now
    <3>1. j \in Jobs /\ t \in Nat
      BY <2>2 DEF RowsTyped
    <3>2. StillClaimable(j, t) /\ rows[j].claims < MaxClaims /\ SetRow(j, Leased(j, w, t))
      BY <1>1, <2>2 DEF ClaimUpdates, ClaimRejects
    <3> QED
      BY <3>1, <3>2, ClaimMoves
  <2> QED
    BY <1>1, <2>1, <2>2 DEF ClaimUpdates, ClaimRejects
<1>2. ASSUME NEW w \in Workers, Step(w) \/ Rebuild(w) \/ Crash(w) PROVE RowsMove
  BY <1>1, <1>2 DEF Step, Take, ClaimSelects, Rebuild, Crash, RowsMove
<1>3. ASSUME NEW r \in Runs, RunStep(r) \/ AckRejects(r) \/ FailRejects(r) PROVE RowsMove
  BY <1>3, AckMoves, FailMoves
     DEF RunStep, RunEnds, Ack, Fail, FailAnswers, AckRejects, FailRejects, RowsMove
<1>4. CASE Tick \/ UNCHANGED vars
  BY <1>4 DEF Tick, vars, RowsMove
<1> QED
  BY <1>1, <1>2, <1>3, <1>4, EnqueueMoves, EndMoves, ReclaimMoves DEF Next

LEMMA RowsTypedNext == ASSUME RowsTyped, [Next]_vars PROVE RowsTyped'
<1>1. rows' \in [Jobs -> Row] /\ \A j \in Jobs : rows'[j].status = "absent" => rows'[j].retryCount = 0
  <2>1. CASE UNCHANGED rows
    BY <2>1 DEF RowsTyped
  <2>2. ASSUME NEW j \in Jobs, NEW row \in Row, rows' = [rows EXCEPT ![j] = row],
               row.status = "absent" => row.retryCount = 0
        PROVE  rows' \in [Jobs -> Row] /\ \A i \in Jobs : rows'[i].status = "absent" => rows'[i].retryCount = 0
    BY <2>2 DEF RowsTyped
  <2>3. CASE \E S \in SUBSET Jobs :
               /\ rows' \in [Jobs -> Row]
               /\ \A j \in Jobs : /\ rows'[j].retryCount = rows[j].retryCount
                                  /\ rows'[j].status = IF j \in S THEN "queued" ELSE rows[j].status
    BY <2>3 DEF RowsTyped
  <2> QED
    BY NextMoves, <2>1, <2>2, <2>3 DEF RowsMove
<1>2. now' \in Nat
  <2>1. UNCHANGED now \/ now' = now + 1
    BY DEF Next, Tick, vars, Enqueue, Step, Take, ClaimSelects, ClaimUpdates, ClaimRejects, Reclaim, Rebuild,
           Crash, RunStep, RunEnds, Ack, Fail, FailAnswers, AckRejects, FailRejects, Cancel, Sweep
  <2> QED
    BY <2>1 DEF RowsTyped
<1>3. /\ loop' \in [Workers -> [job : Jobs \cup {NoJob}, at : {"idle", "select", "update"}, now : Nat]]
      /\ \A w \in Workers : loop'[w].at # "idle" => loop'[w].job \in Jobs
  <2> DEFINE Claims == [job : Jobs \cup {NoJob}, at : {"idle", "select", "update"}, now : Nat]
             Fine(f) == f \in [Workers -> Claims] /\ \A v \in Workers : f[v].at # "idle" => f[v].job \in Jobs
  <2>1. ASSUME NEW w \in Workers, NEW x \in Claims, x.at # "idle" => x.job \in Jobs,
               loop' = [loop EXCEPT ![w] = x]
        PROVE  Fine(loop')
    BY <2>1 DEF RowsTyped
  <2>2. Idle \in Claims /\ Idle.at = "idle"
    BY DEF Idle
  <2>3. ASSUME NEW w \in Workers, NEW j \in Jobs, Take(w, j)
        PROVE  Fine(loop')
    <3>1. [job |-> j, at |-> "select", now |-> now] \in Claims
      BY DEF RowsTyped
    <3> QED
      BY <2>1, <2>3, <3>1 DEF Take
  <2>4. ASSUME NEW w \in Workers, ClaimSelects(w)
        PROVE  Fine(loop')
    <3>1. loop[w] \in Claims /\ loop[w].job \in Jobs
      BY <2>4 DEF ClaimSelects, RowsTyped
    <3>2. [loop[w] EXCEPT !.at = "update"] \in Claims /\ [loop[w] EXCEPT !.at = "update"].job \in Jobs
      BY <3>1
    <3>3. loop' = [loop EXCEPT ![w] = Idle] \/ loop' = [loop EXCEPT ![w] = [loop[w] EXCEPT !.at = "update"]]
      BY <2>4 DEF ClaimSelects, RowsTyped
    <3> QED
      BY <2>1, <2>2, <3>2, <3>3
  <2>5. ASSUME NEW w \in Workers, loop' = [loop EXCEPT ![w] = Idle]
        PROVE  Fine(loop')
    BY <2>1, <2>2, <2>5
  <2>6. ASSUME UNCHANGED loop PROVE Fine(loop')
    BY <2>6 DEF RowsTyped
  <2> HIDE DEF Claims
  <2>7. \/ UNCHANGED loop
        \/ \E w \in Workers : \E j \in Jobs : Take(w, j)
        \/ \E w \in Workers : ClaimSelects(w)
        \/ \E w \in Workers : loop' = [loop EXCEPT ![w] = Idle]
    BY DEF Next, Tick, vars, Enqueue, Step, ClaimUpdates, ClaimRejects, Reclaim, Rebuild, Crash,
           RunStep, RunEnds, Ack, Fail, FailAnswers, AckRejects, FailRejects, Cancel, Sweep
  <2>8. Fine(loop')
    BY <2>3, <2>4, <2>5, <2>6, <2>7
  <2> QED
    BY <2>8 DEF Claims
<1> QED
  BY <1>1, <1>2, <1>3 DEF RowsTyped

-----------------------------------------------------------------------------
(* The refinement.                                                          *)

LEMMA LifeStep ==
  ASSUME RowsTyped, RowsMove
  PROVE  [Lifecycle!LifeNext]_(Lifecycle!lifeVars)
<1> DEFINE S == [j \in Jobs |-> rows[j].status]
           A == [j \in Jobs |-> rows[j].retryCount]
           Moves == [Lifecycle!LifeNext]_(Lifecycle!lifeVars)
<1>1. ASSUME rows' = rows PROVE Moves
  BY <1>1 DEF Lifecycle!lifeVars
<1>2. ASSUME NEW j \in Jobs, NEW row \in Row, rows' = [rows EXCEPT ![j] = row],
             NEW s, row.status = s, row.retryCount = rows[j].retryCount
      PROVE  S' = [S EXCEPT ![j] = s] /\ A' = A
  <2>1. \A i \in Jobs : rows'[i] = IF i = j THEN row ELSE rows[i]
    BY <1>2 DEF RowsTyped
  <2>2. \A i \in Jobs : /\ rows'[i].status = IF i = j THEN s ELSE rows[i].status
                        /\ rows'[i].retryCount = rows[i].retryCount
    BY <1>2, <2>1
  <2> QED
    BY <2>2
<1>3. ASSUME NEW j \in Jobs, NEW row \in Row, rows' = [rows EXCEPT ![j] = row],
             rows[j].status = "absent" /\ row.status = "queued" /\ row.retryCount = 0
      PROVE  Moves
  <2>1. row.retryCount = rows[j].retryCount
    BY <1>3 DEF RowsTyped
  <2>2. S' = [S EXCEPT ![j] = "queued"] /\ A' = A
    BY <1>2, <1>3, <2>1
  <2> QED
    BY <1>3, <2>2 DEF Lifecycle!LifeNext, Lifecycle!Submit, Lifecycle!Move
<1>4. ASSUME NEW j \in Jobs, NEW row \in Row, rows' = [rows EXCEPT ![j] = row],
             rows[j].status \in {"queued", "leased"} /\ row.status = "leased",
             row.retryCount = rows[j].retryCount
      PROVE  Moves
  <2>1. S' = [S EXCEPT ![j] = "leased"] /\ A' = A
    BY <1>2, <1>4
  <2>2. CASE rows[j].status = "queued"
    BY <2>1, <2>2 DEF Lifecycle!LifeNext, Lifecycle!Lease, Lifecycle!Move
  <2>3. CASE rows[j].status = "leased"
    <3>1. [S EXCEPT ![j] = "leased"] = S
      BY <2>3
    <3> QED
      BY <2>1, <3>1 DEF Lifecycle!lifeVars
  <2> QED
    BY <1>4, <2>2, <2>3
<1>5. ASSUME NEW j \in Jobs, NEW row \in Row, rows' = [rows EXCEPT ![j] = row],
             rows[j].status = "leased" /\ row.status = "done",
             row.retryCount = rows[j].retryCount
      PROVE  Moves
  <2>1. S' = [S EXCEPT ![j] = "done"] /\ A' = A
    BY <1>2, <1>5
  <2> QED
    BY <1>5, <2>1 DEF Lifecycle!LifeNext, Lifecycle!Complete, Lifecycle!Move
<1>6. ASSUME NEW j \in Jobs, NEW row \in Row, rows' = [rows EXCEPT ![j] = row],
             rows[j].status = "leased" /\ row.retryCount = rows[j].retryCount + 1,
             row.status = IF row.retryCount >= RetryMax[j] THEN "failed" ELSE "queued"
      PROVE  Moves
  <2>1. rows[j].retryCount \in Nat /\ RetryMax[j] \in Nat
    BY D1StoreAssumption DEF RowsTyped, Row
  <2>2. ASSUME NEW s, NEW n, row.status = s, n = rows[j].retryCount + 1
        PROVE  S' = [S EXCEPT ![j] = s] /\ A' = [A EXCEPT ![j] = n]
    <3>1. row.retryCount = n
      BY <1>6, <2>2
    <3>2. \A i \in Jobs : rows'[i] = IF i = j THEN row ELSE rows[i]
      BY <1>6 DEF RowsTyped
    <3> QED
      BY <2>2, <3>1, <3>2
  <2>3. S[j] = "leased" /\ A[j] = rows[j].retryCount
    BY <1>6
  <2>4. CASE A[j] + 1 >= RetryMax[j]
    <3>1. row.status = "failed"
      BY <1>6, <2>3, <2>4
    <3>2. S' = [S EXCEPT ![j] = "failed"] /\ A' = [A EXCEPT ![j] = A[j] + 1]
      BY <2>2, <2>3, <3>1
    <3>3. Lifecycle!GiveUp(j)
      BY <2>3, <2>4, <3>2 DEF Lifecycle!GiveUp, Lifecycle!Move
    <3> QED
      BY <3>3 DEF Lifecycle!LifeNext
  <2>5. CASE A[j] + 1 < RetryMax[j]
    <3>1. row.status = "queued"
      BY <1>6, <2>1, <2>3, <2>5
    <3>2. S' = [S EXCEPT ![j] = "queued"] /\ A' = [A EXCEPT ![j] = A[j] + 1]
      BY <2>2, <2>3, <3>1
    <3>3. Lifecycle!Retry(j)
      BY <2>3, <2>5, <3>2 DEF Lifecycle!Retry, Lifecycle!Move
    <3> QED
      BY <3>3 DEF Lifecycle!LifeNext
  <2> QED
    BY <2>1, <2>3, <2>4, <2>5
<1>7. ASSUME NEW j \in Jobs, NEW row \in Row, rows' = [rows EXCEPT ![j] = row],
             rows[j].status \in {"queued", "leased"} /\ row.status = "cancelled",
             row.retryCount = rows[j].retryCount
      PROVE  Moves
  <2>1. S' = [S EXCEPT ![j] = "cancelled"] /\ A' = A
    BY <1>2, <1>7
  <2> QED
    BY <1>7, <2>1 DEF Lifecycle!LifeNext, Lifecycle!CancelOne, Lifecycle!Move
<1>8. ASSUME NEW j \in Jobs, NEW row \in Row, rows' = [rows EXCEPT ![j] = row],
             rows[j].status = "done" /\ row.status = "absent" /\ row.retryCount = 0
      PROVE  Moves
  <2>1. ASSUME NEW s, NEW n, s = "absent", n = 0
        PROVE  S' = [S EXCEPT ![j] = s] /\ A' = [A EXCEPT ![j] = n]
    <3>1. row.status = s /\ row.retryCount = n
      BY <1>8, <2>1
    <3>2. \A i \in Jobs : rows'[i] = IF i = j THEN row ELSE rows[i]
      BY <1>8 DEF RowsTyped
    <3> QED
      BY <3>1, <3>2
  <2>2. /\ S' = [i \in Jobs |-> IF i \in {j} THEN "absent" ELSE S[i]]
        /\ A' = [i \in Jobs |-> IF i \in {j} THEN 0 ELSE A[i]]
    BY <2>1
  <2>3. Lifecycle!Forget({j})
    BY <1>8, <2>2 DEF Lifecycle!Forget
  <2> QED
    BY <2>3 DEF Lifecycle!LifeNext
<1>9. ASSUME NEW T \in SUBSET Jobs, \A j \in T : rows[j].status = "leased",
             \A j \in Jobs : /\ rows'[j].retryCount = rows[j].retryCount
                             /\ rows'[j].status = IF j \in T THEN "queued" ELSE rows[j].status
      PROVE  Moves
  <2>1. S' = [j \in Jobs |-> IF j \in T THEN "queued" ELSE S[j]] /\ A' = A
    BY <1>9
  <2>2. Lifecycle!Release(T)
    BY <1>9, <2>1 DEF Lifecycle!Release
  <2> QED
    BY <2>2 DEF Lifecycle!LifeNext
<1> HIDE DEF Moves
<1>10. Moves
  BY <1>1, <1>3, <1>4, <1>5, <1>6, <1>7, <1>8, <1>9 DEF RowsMove
<1> QED
  BY <1>10 DEF Moves

\* However the statements of the dispatchers interleave, are rejected or are
\* executed without an answer, each row lives the life of JobLifecycle
\* (scheduler/stores/d1.ts).
THEOREM SharedTableRefines == Spec => ImplementsLifecycle
<1>1. Init => RowsTyped /\ Lifecycle!LifeInit
  <2> SUFFICES ASSUME Init PROVE RowsTyped /\ Lifecycle!LifeInit
    OBVIOUS
  <2>1. RowsTyped
    BY NoRowTyped DEF Init, RowsTyped, Idle, NoRow
  <2>2. Lifecycle!LifeInit
    BY DEF Init, NoRow, Lifecycle!LifeInit
  <2> QED
    BY <2>1, <2>2
<1>2. RowsTyped /\ [Next]_vars => RowsTyped' /\ [Lifecycle!LifeNext]_(Lifecycle!lifeVars)
  BY RowsTypedNext, NextMoves, LifeStep
<1>3. Spec => Lifecycle!LifeSpec
  BY <1>1, <1>2, PTL DEF Spec, Lifecycle!LifeSpec
<1> QED
  BY <1>3 DEF ImplementsLifecycle

-----------------------------------------------------------------------------
(* The runs.                                                                *)

\* What the properties of the runs need of their shape.
RunsTyped ==
  /\ runs \in [Runs -> [by : Workers \cup {NoOne}, phase : Phases, lease : Nat]]
  /\ failures \in [Jobs -> Nat]

LEMMA RunsTypedNext ==
  ASSUME RowsTyped, RunsTyped, [Next]_vars PROVE RunsTyped'
<1> DEFINE Record == [by : Workers \cup {NoOne}, phase : Phases, lease : Nat]
<1>1. NoRun \in Record
  BY DEF NoRun, Phases
<1>2. ASSUME NEW r \in Runs, NEW p \in Phases, SetPhase(r, p) PROVE runs' \in [Runs -> Record]
  BY <1>2 DEF SetPhase, RunsTyped
<1>3. ASSUME NEW r \in Runs, EndRun(r) PROVE runs' \in [Runs -> Record]
  BY <1>1, <1>3 DEF EndRun, RunsTyped
<1>4. ASSUME NEW r \in Runs, failures' = [failures EXCEPT ![r[1]] = @ + 1]
      PROVE  failures' \in [Jobs -> Nat]
  BY <1>4 DEF RunsTyped, Runs
<1>5. ASSUME NEW w \in Workers, ClaimUpdates(w) PROVE RunsTyped'
  <2> DEFINE j == loop[w].job
             n == [by |-> w, phase |-> "running", lease |-> loop[w].now + LeaseMs]
  <2>1. n \in Record
    BY D1StoreAssumption DEF RowsTyped, Phases
  <2>2. runs' = runs \/ runs' = [runs EXCEPT ![<<j, rows[j].claims + 1>>] = n]
    BY <1>5 DEF ClaimUpdates
  <2>3. runs' \in [Runs -> Record]
    BY <2>1, <2>2 DEF RunsTyped
  <2> QED
    BY <1>5, <2>3 DEF ClaimUpdates, RunsTyped
<1>6. ASSUME NEW w \in Workers, Crash(w) PROVE RunsTyped'
  BY <1>1, <1>6 DEF Crash, RunsTyped
<1>7. "acking" \in Phases /\ "failing" \in Phases /\ "asking" \in Phases
  BY DEF Phases
<1>8. ASSUME NEW r \in Runs, RunStep(r) \/ AckRejects(r) \/ FailRejects(r) PROVE RunsTyped'
  <2>1. runs' \in [Runs -> Record]
    BY <1>2, <1>3, <1>7, <1>8
       DEF RunStep, RunEnds, Ack, Fail, FailAnswers, AckRejects, FailRejects
  <2>2. failures' \in [Jobs -> Nat]
    <3>1. failures' = failures \/ failures' = [failures EXCEPT ![r[1]] = @ + 1]
      BY <1>8 DEF RunStep, RunEnds, Ack, Fail, FailAnswers, AckRejects, FailRejects
    <3> QED
      BY <1>4, <3>1 DEF RunsTyped
  <2> QED
    BY <2>1, <2>2 DEF RunsTyped
<1>9. \/ UNCHANGED <<runs, failures>>
      \/ \E w \in Workers : ClaimUpdates(w) \/ Crash(w)
      \/ \E r \in Runs : RunStep(r) \/ AckRejects(r) \/ FailRejects(r)
  BY DEF Next, Tick, vars, Enqueue, Step, Take, ClaimSelects, ClaimRejects, Reclaim, Rebuild, Cancel, Sweep
<1> QED
  BY <1>5, <1>6, <1>8, <1>9 DEF RunsTyped

LEMMA TypedAlways == Spec => [](RowsTyped /\ RunsTyped)
<1>1. Init => RowsTyped /\ RunsTyped
  <2> SUFFICES ASSUME Init PROVE RowsTyped /\ RunsTyped
    OBVIOUS
  <2>1. RowsTyped
    BY NoRowTyped DEF Init, RowsTyped, Idle, NoRow
  <2>2. RunsTyped
    BY DEF Init, RunsTyped, NoRun, Phases
  <2> QED
    BY <2>1, <2>2
<1>2. RowsTyped /\ RunsTyped /\ [Next]_vars => (RowsTyped /\ RunsTyped)'
  BY RowsTypedNext, RunsTypedNext
<1> QED
  BY <1>1, <1>2, PTL DEF Spec

-----------------------------------------------------------------------------
(* Failures are charged once.                                               *)

\* The runs of j whose failure was counted but is not in the row yet.
Failing(rs, j) == {r \in Runs : r[1] = j /\ rs[r].phase = "failing"}

\* RetriesAreCharged is inductive once the failures on their way are counted
\* too: each may still be charged, once.
Charged ==
  \A j \in Jobs :
    /\ rows[j].retryCount + Cardinality(Failing(runs, j)) <= failures[j]
    /\ Active(j) /\ rows[j].retryCount > 0 => rows[j].retryCount < RetryMax[j]

LEMMA FailingFinite ==
  ASSUME NEW rs, NEW j
  PROVE  IsFiniteSet(Failing(rs, j)) /\ Cardinality(Failing(rs, j)) \in Nat
<1>1. IsFiniteSet(1 .. MaxClaims)
  BY D1StoreAssumption, FS_Interval
<1>2. IsFiniteSet(Runs)
  BY <1>1, D1StoreAssumption, FS_Product DEF Runs
<1>3. IsFiniteSet(Failing(rs, j))
  BY <1>2, FS_Subset DEF Failing
<1> QED
  BY <1>3, FS_CardinalityType

\* No attempt past the last, from what the statements do to a row.
LEMMA ActiveNext ==
  ASSUME RowsTyped, Charged, RowsMove, NEW j \in Jobs,
         Active(j)', rows'[j].retryCount > 0
  PROVE  rows'[j].retryCount < RetryMax[j]
<1>1. rows \in [Jobs -> Row] /\ RetryMax[j] \in Nat
  BY D1StoreAssumption DEF RowsTyped
<1>2. CASE UNCHANGED rows
  BY <1>2 DEF Charged, Active
<1>3. ASSUME NEW k \in Jobs, NEW row \in Row, rows' = [rows EXCEPT ![k] = row], k # j
      PROVE  rows'[j].retryCount < RetryMax[j]
  BY <1>1, <1>3 DEF Charged, Active
<1>4. ASSUME NEW row \in Row, rows' = [rows EXCEPT ![j] = row],
             \/ /\ rows[j].status = "absent" /\ row.status = "queued" /\ row.retryCount = 0
             \/ /\ rows[j].status \in {"queued", "leased"} /\ row.status = "leased"
                /\ row.retryCount = rows[j].retryCount
             \/ /\ rows[j].status = "leased" /\ row.status = "done"
                /\ row.retryCount = rows[j].retryCount
             \/ /\ rows[j].status = "leased" /\ row.retryCount = rows[j].retryCount + 1
                /\ row.status = IF row.retryCount >= RetryMax[j] THEN "failed" ELSE "queued"
             \/ /\ rows[j].status \in {"queued", "leased"} /\ row.status = "cancelled"
                /\ row.retryCount = rows[j].retryCount
             \/ /\ rows[j].status = "done" /\ row.status = "absent" /\ row.retryCount = 0
      PROVE  rows'[j].retryCount < RetryMax[j]
  <2>1. rows'[j] = row /\ row.retryCount \in Nat
    BY <1>1, <1>4 DEF Row
  <2> QED
    BY <1>1, <1>4, <2>1 DEF Charged, Active
<1>5. ASSUME NEW S \in SUBSET Jobs, \A k \in S : rows[k].status = "leased",
             rows'[j].retryCount = rows[j].retryCount,
             rows'[j].status = IF j \in S THEN "queued" ELSE rows[j].status
      PROVE  rows'[j].retryCount < RetryMax[j]
  BY <1>5 DEF Charged, Active
<1> QED
  BY <1>2, <1>3, <1>4, <1>5 DEF RowsMove

\* Steps of anybody but a run that failed.
LEMMA ChargedQuiet ==
  ASSUME RowsTyped, RowsTyped', RunsTyped, Charged,
         \A j \in Jobs : rows'[j].retryCount <= rows[j].retryCount,
         \A r \in Runs : runs'[r].phase = "failing" => runs[r].phase = "failing",
         failures' = failures, NEW j \in Jobs
  PROVE  rows'[j].retryCount + Cardinality(Failing(runs', j)) <= failures'[j]
<1>1. Failing(runs', j) \subseteq Failing(runs, j)
  BY DEF Failing
<1>2. Cardinality(Failing(runs', j)) <= Cardinality(Failing(runs, j))
  BY <1>1, FailingFinite, FS_Subset
<1>3. /\ rows[j].retryCount \in Nat /\ rows'[j].retryCount \in Nat /\ failures[j] \in Nat
      /\ Cardinality(Failing(runs', j)) \in Nat /\ Cardinality(Failing(runs, j)) \in Nat
  BY FailingFinite DEF RowsTyped, RunsTyped, Row
<1> QED
  BY <1>2, <1>3 DEF Charged

\* A run fails: its failure is counted, and on its way.
LEMMA ChargedCount ==
  ASSUME RowsTyped, RunsTyped, Charged, NEW r \in Runs,
         SetPhase(r, "failing"), failures' = [failures EXCEPT ![r[1]] = @ + 1],
         \A k \in Jobs : rows'[k].retryCount = rows[k].retryCount, NEW j \in Jobs
  PROVE  rows'[j].retryCount + Cardinality(Failing(runs', j)) <= failures'[j]
<1>1. /\ rows[j].retryCount \in Nat /\ failures[j] \in Nat
      /\ Cardinality(Failing(runs', j)) \in Nat /\ Cardinality(Failing(runs, j)) \in Nat
      /\ IsFiniteSet(Failing(runs, j))
  BY FailingFinite DEF RowsTyped, RunsTyped, Row
<1>2. CASE r[1] = j
  <2>1. Failing(runs', j) \subseteq Failing(runs, j) \cup {r}
    BY DEF Failing, SetPhase, RunsTyped
  <2>2. /\ IsFiniteSet(Failing(runs, j) \cup {r})
        /\ Cardinality(Failing(runs, j) \cup {r}) <= Cardinality(Failing(runs, j)) + 1
        /\ Cardinality(Failing(runs, j) \cup {r}) \in Nat
    <3>1. /\ IsFiniteSet(Failing(runs, j) \cup {r})
          /\ Cardinality(Failing(runs, j) \cup {r}) =
               IF r \in Failing(runs, j) THEN Cardinality(Failing(runs, j))
               ELSE Cardinality(Failing(runs, j)) + 1
      BY <1>1, FS_AddElement
    <3> QED
      BY <1>1, <3>1
  <2>3. Cardinality(Failing(runs', j)) <= Cardinality(Failing(runs, j) \cup {r})
    BY <2>1, <2>2, FS_Subset
  <2>4. failures'[j] = failures[j] + 1
    BY <1>2 DEF RunsTyped
  <2> QED
    BY <1>1, <2>2, <2>3, <2>4 DEF Charged
<1>3. CASE r[1] # j
  <2>1. Failing(runs', j) = Failing(runs, j) /\ failures'[j] = failures[j]
    BY <1>3 DEF Failing, SetPhase, RunsTyped
  <2> QED
    BY <2>1 DEF Charged
<1> QED
  BY <1>2, <1>3

\* The row is charged, and the run is no longer on its way.
LEMMA ChargedFail ==
  ASSUME RowsTyped, RunsTyped, Charged, NEW r \in Runs, runs[r].phase = "failing",
         FailRow(r) \/ UNCHANGED rows, SetPhase(r, "asking") \/ EndRun(r),
         failures' = failures, NEW j \in Jobs
  PROVE  rows'[j].retryCount + Cardinality(Failing(runs', j)) <= failures'[j]
<1>1. /\ rows[j].retryCount \in Nat /\ failures[j] \in Nat
      /\ Cardinality(Failing(runs', j)) \in Nat /\ Cardinality(Failing(runs, j)) \in Nat
      /\ IsFiniteSet(Failing(runs, j))
  BY FailingFinite DEF RowsTyped, RunsTyped, Row
<1>2. CASE r[1] = j
  <2>1. Failing(runs', j) = Failing(runs, j) \ {r} /\ r \in Failing(runs, j)
    BY <1>2 DEF Failing, SetPhase, EndRun, NoRun, RunsTyped
  <2>2. Cardinality(Failing(runs', j)) = Cardinality(Failing(runs, j)) - 1
    BY <1>1, <2>1, FS_RemoveElement
  <2>3. rows'[j].retryCount = rows[j].retryCount \/ rows'[j].retryCount = rows[j].retryCount + 1
    BY <1>2 DEF FailRow, SetRow, RowsTyped, Row
  <2> QED
    BY <1>1, <2>2, <2>3 DEF Charged
<1>3. CASE r[1] # j
  <2>1. Failing(runs', j) = Failing(runs, j)
    BY <1>3 DEF Failing, SetPhase, EndRun, RunsTyped
  <2>2. rows'[j] = rows[j]
    BY <1>3 DEF FailRow, SetRow, RowsTyped
  <2> QED
    BY <2>1, <2>2 DEF Charged
<1> QED
  BY <1>2, <1>3

LEMMA ChargedNext ==
  ASSUME RowsTyped, RunsTyped, Charged, [Next]_vars PROVE Charged'
<1>1. RowsMove /\ RowsTyped' /\ RunsTyped'
  BY NextMoves, RowsTypedNext, RunsTypedNext
<1>2. rows \in [Jobs -> Row] /\ \A j \in Jobs : rows[j].retryCount \in Nat
  BY DEF RowsTyped, Row
<1> DEFINE Paid == \A j \in Jobs : rows'[j].retryCount + Cardinality(Failing(runs', j)) <= failures'[j]
           Cheaper == \A j \in Jobs : rows'[j].retryCount <= rows[j].retryCount
           Fewer == /\ \A r \in Runs : runs'[r].phase = "failing" => runs[r].phase = "failing"
                    /\ failures' = failures
<1>3. Cheaper /\ Fewer => Paid
  BY <1>1, ChargedQuiet
<1>4. ASSUME NEW w \in Workers, NEW j \in Jobs, Enqueue(w, j) PROVE Paid
  <2>1. rows' = [rows EXCEPT ![j] = [NoRow EXCEPT !.status = "queued"]]
        /\ [NoRow EXCEPT !.status = "queued"].retryCount = 0
    BY <1>4 DEF Enqueue, SetRow, NoRow
  <2>2. Cheaper
    BY <1>2, <2>1
  <2>3. Fewer
    BY <1>4 DEF Enqueue
  <2> QED
    BY <1>3, <2>2, <2>3
<1>5. ASSUME NEW w \in Workers, ClaimUpdates(w) \/ ClaimRejects(w) PROVE Paid
  <2> DEFINE j == loop[w].job
             n == [by |-> w, phase |-> "running", lease |-> loop[w].now + LeaseMs]
             row == Leased(j, w, loop[w].now)
  <2>1. row.retryCount = rows[j].retryCount \/ j \notin Jobs
    BY <1>2 DEF Leased, Row
  <2>2. UNCHANGED rows \/ rows' = [rows EXCEPT ![j] = row]
    BY <1>5 DEF ClaimUpdates, ClaimRejects, SetRow
  <2>3. runs' = runs \/ runs' = [runs EXCEPT ![<<j, rows[j].claims + 1>>] = n]
    BY <1>5 DEF ClaimUpdates, ClaimRejects
  <2>4. failures' = failures
    BY <1>5 DEF ClaimUpdates, ClaimRejects
  <2> HIDE DEF row, j
  <2>5. Cheaper
    BY <1>2, <2>1, <2>2
  <2>6. Fewer
    BY <2>3, <2>4 DEF RunsTyped
  <2> QED
    BY <1>3, <2>5, <2>6
<1>6. ASSUME Reclaim PROVE Paid
  <2>1. Cheaper
    <3>1. \A j \in Jobs : rows'[j] = IF Lapsed(j) THEN Returned(j) ELSE rows[j]
      BY <1>6 DEF Reclaim
    <3>2. \A j \in Jobs : rows'[j].retryCount = rows[j].retryCount
      BY <3>1, ReturnedRow
    <3> QED
      BY <1>2, <3>2
  <2>2. Fewer
    BY <1>6 DEF Reclaim
  <2> QED
    BY <1>3, <2>1, <2>2
<1>7. ASSUME NEW w \in Workers,
             Crash(w) \/ Rebuild(w) \/ ClaimSelects(w) \/ \E j \in Jobs : Take(w, j)
      PROVE  Paid
  <2>1. Cheaper
    BY <1>2, <1>7 DEF Crash, Rebuild, ClaimSelects, Take
  <2>2. Fewer
    BY <1>7 DEF Crash, Rebuild, ClaimSelects, Take, NoRun
  <2> QED
    BY <1>3, <2>1, <2>2
<1>8. ASSUME NEW j \in Jobs, Cancel(j) \/ Sweep(j) PROVE Paid
  <2>1. Cheaper
    <3>1. CASE Cancel(j)
      BY <1>2, <3>1 DEF Cancel, SetRow, Row
    <3>2. CASE Sweep(j)
      <4>1. rows' = [rows EXCEPT ![j] = [NoRow EXCEPT !.claims = rows[j].claims]]
            /\ [NoRow EXCEPT !.claims = rows[j].claims].retryCount = 0
        BY <3>2 DEF Sweep, SetRow, NoRow
      <4> QED
        BY <1>2, <4>1
    <3> QED
      BY <1>8, <3>1, <3>2
  <2>2. Fewer
    BY <1>8 DEF Cancel, Sweep
  <2> QED
    BY <1>3, <2>1, <2>2
<1>9. ASSUME Tick \/ UNCHANGED vars PROVE Paid
  <2>1. Cheaper /\ Fewer
    BY <1>2, <1>9 DEF Tick, vars
  <2> QED
    BY <1>3, <2>1
<1>10. ASSUME NEW r \in Runs, RunStep(r) \/ AckRejects(r) \/ FailRejects(r) PROVE Paid
  <2>1. AckRow(r) => \A j \in Jobs : rows'[j].retryCount = rows[j].retryCount
    BY <1>2 DEF AckRow, SetRow, Row
  <2>2. CASE RunEnds(r) /\ SetPhase(r, "failing") /\ failures' = [failures EXCEPT ![r[1]] = @ + 1]
    BY <2>2, ChargedCount DEF RunEnds
  <2>3. CASE RunEnds(r) /\ SetPhase(r, "acking") /\ UNCHANGED failures
    <3>1. Cheaper
      BY <1>2, <2>3 DEF RunEnds
    <3>2. Fewer
      BY <2>3 DEF SetPhase, RunsTyped
    <3> QED
      BY <1>3, <3>1, <3>2
  <2>4. CASE AckRejects(r)
    BY <2>1, <2>4, ChargedCount DEF AckRejects
  <2>5. CASE Ack(r)
    <3>1. Cheaper
      BY <1>2, <2>1, <2>5 DEF Ack
    <3>2. Fewer
      BY <2>5 DEF Ack, EndRun, NoRun, RunsTyped
    <3> QED
      BY <1>3, <3>1, <3>2
  <2>6. CASE Fail(r)
    BY <2>6, ChargedFail DEF Fail
  <2>7. CASE FailRejects(r) /\ runs[r].phase = "failing"
    BY <2>7, ChargedFail DEF FailRejects
  <2>8. CASE FailAnswers(r) \/ (FailRejects(r) /\ runs[r].phase # "failing")
    <3>1. Cheaper
      BY <1>2, <2>8 DEF FailAnswers, FailRejects
    <3>2. Fewer
      BY <2>8 DEF FailAnswers, FailRejects, EndRun, NoRun, RunsTyped
    <3> QED
      BY <1>3, <3>1, <3>2
  <2> QED
    BY <1>10, <2>2, <2>3, <2>4, <2>5, <2>6, <2>7, <2>8 DEF RunStep, RunEnds
<1> HIDE DEF Paid
<1>11. Paid
  BY <1>4, <1>5, <1>6, <1>7, <1>8, <1>9, <1>10 DEF Next, Step
<1> QED
  BY <1>1, <1>11, ActiveNext DEF Charged, Paid

\* A failure is charged to retry_count at most once, whether its UPDATE or the
\* ack before it was rejected, executed or both, and a row whose attempts are
\* spent is never queued or leased again.
THEOREM ChargedOnce == Spec => []RetriesAreCharged
<1>1. Init => Charged
  <2> SUFFICES ASSUME Init PROVE Charged
    OBVIOUS
  <2>1. \A j \in Jobs : Failing(runs, j) = {} /\ rows[j].retryCount = 0 /\ failures[j] = 0
                        /\ rows[j].status = "absent"
    BY DEF Init, NoRow, NoRun, Failing
  <2> QED
    BY <2>1, FS_EmptySet DEF Charged, Active
<1>2. RowsTyped /\ RunsTyped /\ Charged /\ [Next]_vars => Charged'
  BY ChargedNext
<1>3. RowsTyped /\ RunsTyped /\ Charged => RetriesAreCharged
  <2> SUFFICES ASSUME RowsTyped, RunsTyped, Charged, NEW j \in Jobs
               PROVE  /\ rows[j].retryCount <= failures[j]
                      /\ Active(j) /\ rows[j].retryCount > 0 => rows[j].retryCount < RetryMax[j]
    BY DEF RetriesAreCharged
  <2>1. /\ rows[j].retryCount \in Nat /\ failures[j] \in Nat
        /\ Cardinality(Failing(runs, j)) \in Nat
    BY FailingFinite DEF RowsTyped, RunsTyped, Row
  <2> QED
    BY <2>1 DEF Charged
<1> QED
  BY <1>1, <1>2, <1>3, TypedAlways, PTL DEF Spec

-----------------------------------------------------------------------------
(* Live leases exclude each other.                                          *)

\* A claim compares with a clock that has been, so a lease it finds expired
\* is expired.
ClocksBehind == \A w \in Workers : loop[w].at # "idle" => loop[w].now <= now

\* LiveLeasesAreExclusive is inductive together with: a run is numbered by a
\* claim that was made, and the row of a live run, unless it was usurped, is
\* settled or still under the lease the run started with.
Exclusive ==
  /\ \A r \in Runs : runs[r].phase # "none" => r[2] <= rows[r[1]].claims
  /\ \A r \in Runs :
       Live(r) /\ r[1] \notin usurped =>
         /\ rows[r[1]].status # "queued"
         /\ rows[r[1]].status = "leased"
              => rows[r[1]].claims = r[2] /\ rows[r[1]].expires = runs[r].lease
  /\ LiveLeasesAreExclusive

LEMMA ClocksBehindNext ==
  ASSUME RowsTyped, ClocksBehind, [Next]_vars PROVE ClocksBehind'
<1>1. now \in Nat /\ (now' = now \/ now' = now + 1)
  BY DEF RowsTyped, Next, Tick, vars, Enqueue, Step, Take, ClaimSelects, ClaimUpdates,
     ClaimRejects, Reclaim, Rebuild, Crash, RunStep, RunEnds, Ack, Fail, FailAnswers, AckRejects,
     FailRejects, Cancel, Sweep
<1>2. ASSUME NEW w \in Workers, loop'[w].at # "idle"
      PROVE  loop'[w].now = now \/ (loop[w].at # "idle" /\ loop'[w].now = loop[w].now)
  <2>1. ASSUME NEW v \in Workers, NEW j \in Jobs, Take(v, j)
        PROVE  loop'[w].now = now \/ (loop[w].at # "idle" /\ loop'[w].now = loop[w].now)
    BY <1>2, <2>1 DEF Take, RowsTyped
  <2>2. ASSUME NEW v \in Workers, ClaimSelects(v)
        PROVE  loop[w].at # "idle" /\ loop'[w].now = loop[w].now
    BY <1>2, <2>2 DEF ClaimSelects, Idle, RowsTyped
  <2>3. ASSUME NEW v \in Workers, loop' = [loop EXCEPT ![v] = Idle]
        PROVE  loop'[w] = loop[w]
    BY <1>2, <2>3 DEF Idle, RowsTyped
  <2>4. \/ UNCHANGED loop
        \/ \E v \in Workers : \E j \in Jobs : Take(v, j)
        \/ \E v \in Workers : ClaimSelects(v)
        \/ \E v \in Workers : loop' = [loop EXCEPT ![v] = Idle]
    BY DEF Next, Tick, vars, Enqueue, Step, ClaimUpdates, ClaimRejects, Reclaim, Rebuild, Crash,
           RunStep, RunEnds, Ack, Fail, FailAnswers, AckRejects, FailRejects, Cancel, Sweep
  <2> QED
    BY <1>2, <2>1, <2>2, <2>3, <2>4
<1>3. \A w \in Workers : loop[w].now \in Nat
  BY DEF RowsTyped
<1> QED
  BY <1>1, <1>2, <1>3 DEF ClocksBehind

\* No run of j is live, or the job was usurped.
Free(j) == j \in usurped \/ \A r \in Runs : r[1] = j => ~ Live(r)

\* Steps that start no run.  A row may become queued or leased again, or
\* change its lease, only when no run of its job is live.
LEMMA ExclusiveQuiet ==
  ASSUME RowsTyped, RowsTyped', RunsTyped, Exclusive,
         now <= now', usurped \subseteq usurped',
         \A r \in Runs : \/ runs'[r] = runs[r]
                         \/ /\ runs'[r].phase # "running"
                            /\ runs[r].phase = "none" => runs'[r].phase = "none",
         \A j \in Jobs : /\ rows[j].claims <= rows'[j].claims
                         /\ \/ rows'[j] = rows[j]
                            \/ rows'[j].status \notin {"queued", "leased"}
                            \/ Free(j) \/ j \in usurped'
  PROVE  Exclusive'
<1>1. \A r \in Runs : r[1] \in Jobs /\ r[2] \in Nat
  BY DEF Runs
<1>2. /\ now \in Nat /\ now' \in Nat /\ \A r \in Runs : runs[r].lease \in Nat
      /\ \A j \in Jobs : rows[j].claims \in Nat /\ rows'[j].claims \in Nat
  BY DEF RowsTyped, RunsTyped, Row
<1>3. ASSUME NEW r \in Runs, Live(r)' PROVE Live(r) /\ runs'[r] = runs[r]
  BY <1>2, <1>3 DEF Live
<1>4. ASSUME NEW r \in Runs, runs'[r].phase # "none" PROVE r[2] <= rows'[r[1]].claims
  <2>1. runs[r].phase # "none"
    BY <1>4
  <2>2. r[2] <= rows[r[1]].claims /\ rows[r[1]].claims <= rows'[r[1]].claims
    BY <1>1, <2>1 DEF Exclusive
  <2> QED
    BY <1>1, <1>2, <2>2
<1>5. ASSUME NEW r \in Runs, Live(r)', r[1] \notin usurped'
      PROVE  /\ rows'[r[1]].status # "queued"
             /\ rows'[r[1]].status = "leased"
                  => rows'[r[1]].claims = r[2] /\ rows'[r[1]].expires = runs'[r].lease
  <2>1. Live(r) /\ runs'[r] = runs[r] /\ r[1] \notin usurped /\ ~ Free(r[1])
    BY <1>3, <1>5 DEF Free
  <2>2. rows'[r[1]] = rows[r[1]] \/ rows'[r[1]].status \notin {"queued", "leased"}
    BY <1>1, <1>5, <2>1
  <2> QED
    BY <2>1, <2>2 DEF Exclusive
<1>6. LiveLeasesAreExclusive'
  BY <1>3 DEF Exclusive, LiveLeasesAreExclusive
<1> QED
  BY <1>4, <1>5, <1>6 DEF Exclusive

\* What a claim may take, no live run holds.
LEMMA ClaimableFree ==
  ASSUME RowsTyped, RunsTyped, ClocksBehind, Exclusive,
         NEW w \in Workers, loop[w].at = "update",
         StillClaimable(loop[w].job, loop[w].now)
  PROVE  loop[w].job \in Jobs /\ Free(loop[w].job)
<1> DEFINE j == loop[w].job
           t == loop[w].now
<1>1. j \in Jobs /\ t \in Nat /\ t <= now /\ now \in Nat /\ rows[j].expires \in Nat
  BY DEF RowsTyped, ClocksBehind, Row
<1>2. rows[j].status = "queued" \/ (rows[j].status = "leased" /\ rows[j].expires < t)
  BY DEF StillClaimable, Claimable
<1> HIDE DEF j, t
<1>3. ASSUME NEW r \in Runs, r[1] = j, Live(r), j \notin usurped PROVE FALSE
  <2>1. rows[j].status = "leased" /\ rows[j].expires = runs[r].lease
    BY <1>2, <1>3 DEF Exclusive
  <2>2. runs[r].lease >= now
    BY <1>3 DEF Live
  <2> QED
    BY <1>1, <1>2, <2>1, <2>2
<1> QED
  BY <1>1, <1>3 DEF Free, j

LEMMA ExclusiveClaim ==
  ASSUME RowsTyped, RowsTyped', RunsTyped, ClocksBehind, Exclusive,
         NEW w \in Workers, ClaimUpdates(w), StillClaimable(loop[w].job, loop[w].now)
  PROVE  Exclusive'
<1>1. PICK j \in Jobs : j = loop[w].job /\ Free(j)
  BY ClaimableFree DEF ClaimUpdates
<1>2. PICK t \in Nat : t = loop[w].now
  BY DEF RowsTyped
<1>3. PICK c \in Nat : c = rows[j].claims
  BY DEF RowsTyped, Row
<1> DEFINE n == <<j, c + 1>>
<1>4. /\ rows[j].claims < MaxClaims
      /\ rows' = [rows EXCEPT ![j] = Leased(j, w, t)]
      /\ runs' = [runs EXCEPT ![n] = [by |-> w, phase |-> "running", lease |-> t + LeaseMs]]
      /\ now' = now /\ usurped' = usurped
  BY <1>1, <1>2, <1>3 DEF ClaimUpdates, SetRow
<1>5. n \in Runs /\ n[1] = j /\ n[2] = c + 1
  BY <1>3, <1>4, D1StoreAssumption DEF Runs
<1>6. /\ rows'[j].status = "leased" /\ rows'[j].claims = c + 1
      /\ rows'[j].expires = t + LeaseMs
      /\ \A k \in Jobs : k # j => rows'[k] = rows[k]
  BY <1>3, <1>4 DEF Leased, RowsTyped, Row
<1>7. /\ \A r \in Runs : r # n => runs'[r] = runs[r]
      /\ runs'[n].lease = t + LeaseMs
  BY <1>4, <1>5 DEF RunsTyped
<1> HIDE DEF n
<1>8. \A r \in Runs : r[1] \in Jobs /\ r[2] \in Nat
  BY DEF Runs
<1>9. ASSUME NEW r \in Runs, r # n, Live(r)' PROVE Live(r) /\ (r[1] = j => j \in usurped)
  BY <1>1, <1>4, <1>7, <1>9 DEF Live, Free
<1>10. ASSUME NEW r \in Runs, runs'[r].phase # "none" PROVE r[2] <= rows'[r[1]].claims
  <2>1. CASE r = n
    BY <1>3, <1>5, <1>6, <2>1
  <2>2. CASE r # n /\ r[1] = j
    <3>1. r[2] <= c
      BY <1>3, <1>7, <1>10, <2>2 DEF Exclusive
    <3> QED
      BY <1>3, <1>6, <1>8, <2>2, <3>1
  <2>3. CASE r[1] # j
    BY <1>5, <1>6, <1>7, <1>8, <1>10, <2>3 DEF Exclusive
  <2> QED
    BY <2>1, <2>2, <2>3
<1>11. ASSUME NEW r \in Runs, Live(r)', r[1] \notin usurped'
      PROVE  /\ rows'[r[1]].status # "queued"
             /\ rows'[r[1]].status = "leased"
                  => rows'[r[1]].claims = r[2] /\ rows'[r[1]].expires = runs'[r].lease
  <2>1. CASE r = n
    BY <1>5, <1>6, <1>7, <2>1
  <2>2. CASE r # n
    <3>1. Live(r) /\ r[1] # j /\ runs'[r] = runs[r] /\ rows'[r[1]] = rows[r[1]]
      BY <1>4, <1>6, <1>7, <1>8, <1>9, <1>11, <2>2
    <3> QED
      BY <1>4, <1>11, <3>1 DEF Exclusive
  <2> QED
    BY <2>1, <2>2
<1>12. LiveLeasesAreExclusive'
  <2> SUFFICES ASSUME NEW r \in Runs, NEW s \in Runs, Live(r)', Live(s)', r[1] = s[1], r # s
               PROVE  r[1] \in usurped'
    BY DEF LiveLeasesAreExclusive
  <2>1. CASE r = n \/ s = n
    BY <1>4, <1>5, <1>9, <2>1
  <2>2. CASE r # n /\ s # n
    BY <1>4, <1>9, <2>2 DEF Exclusive, LiveLeasesAreExclusive
  <2> QED
    BY <2>1, <2>2
<1> QED
  BY <1>10, <1>11, <1>12 DEF Exclusive

\* What steps that start no run do to the runs and to the table.
QuietRuns == \A r \in Runs : \/ runs'[r] = runs[r]
                             \/ /\ runs'[r].phase # "running"
                                /\ runs[r].phase = "none" => runs'[r].phase = "none"
QuietRows == \A j \in Jobs : /\ rows[j].claims <= rows'[j].claims
                             /\ \/ rows'[j] = rows[j]
                                \/ rows'[j].status \notin {"queued", "leased"}
                                \/ Free(j) \/ j \in usurped'

\* A failure hands the row back: its own, or one that it usurps.
LEMMA FailQuiet ==
  ASSUME RowsTyped, RunsTyped, Exclusive, NEW r \in Runs, runs[r].phase = "failing",
         FailRow(r), usurped' = IF Usurps(r) THEN usurped \cup {r[1]} ELSE usurped
  PROVE  QuietRows
<1>1. PICK j \in Jobs : j = r[1]
  BY DEF Runs
<1>2. \A k \in Jobs : rows[k].claims \in Nat
  BY DEF RowsTyped, Row
<1>3. /\ rows'[j].claims = rows[j].claims
      /\ \A k \in Jobs : k # j => rows'[k] = rows[k]
  <2> DEFINE row == [rows[j] EXCEPT !.status = IF Spent(j) THEN "failed" ELSE "queued",
                                    !.retryCount = @ + 1, !.owner = NoOne, !.expires = 0]
  <2>1. rows \in [Jobs -> Row] /\ row.claims = rows[j].claims
    BY DEF RowsTyped, Row
  <2>2. UNCHANGED rows \/ rows' = [rows EXCEPT ![j] = row]
    BY <1>1 DEF FailRow, SetRow
  <2> HIDE DEF row
  <2> QED
    BY <2>1, <2>2
<1>4. ASSUME rows'[j] # rows[j], j \notin usurped' PROVE Free(j)
  <2>1. rows[j].status = "leased" /\ rows[j].claims = r[2] /\ j \notin usurped
    BY <1>1, <1>4 DEF FailRow, Held, Usurps, RowsTyped
  <2>2. ASSUME NEW s \in Runs, s[1] = j, Live(s) PROVE FALSE
    <3>1. s[2] = r[2]
      BY <2>1, <2>2 DEF Exclusive
    <3>2. s = r
      BY <1>1, <2>2, <3>1 DEF Runs
    <3> QED
      BY <2>2, <3>2 DEF Live
  <2> QED
    BY <2>2 DEF Free
<1> QED
  BY <1>2, <1>3, <1>4 DEF QuietRows

LEMMA ReclaimQuiet ==
  ASSUME RowsTyped, RunsTyped, Exclusive, Reclaim
  PROVE  QuietRows
<1>1. \A j \in Jobs : rows'[j] = IF Lapsed(j) THEN Returned(j) ELSE rows[j]
  BY DEF Reclaim
<1>2. \A j \in Jobs : rows'[j].claims = rows[j].claims /\ rows[j].claims \in Nat
  <2> SUFFICES ASSUME NEW j \in Jobs
               PROVE  rows'[j].claims = rows[j].claims /\ rows[j].claims \in Nat
    OBVIOUS
  <2>1. rows[j] \in Row
    BY DEF RowsTyped
  <2>2. Returned(j).claims = rows[j].claims /\ rows[j].claims \in Nat
    BY <2>1 DEF Row, Returned
  <2>3. rows'[j] = Returned(j) \/ rows'[j] = rows[j]
    BY <1>1
  <2> QED
    BY <2>2, <2>3
<1>3. ASSUME NEW j \in Jobs, Lapsed(j) PROVE Free(j)
  <2> SUFFICES ASSUME j \notin usurped, NEW r \in Runs, r[1] = j, Live(r) PROVE FALSE
    BY DEF Free
  <2>1. rows[j].expires = runs[r].lease
    BY <1>3 DEF Exclusive, Lapsed
  <2>2. rows[j].expires < now /\ runs[r].lease >= now
    BY <1>3 DEF Lapsed, Live
  <2> QED
    BY <2>1, <2>2 DEF RowsTyped, RunsTyped
<1>4. \A j \in Jobs : Lapsed(j) \/ rows'[j] = rows[j]
  BY <1>1
<1> QED
  BY <1>2, <1>3, <1>4 DEF QuietRows

LEMMA EnqueueQuiet ==
  ASSUME RowsTyped, RunsTyped, Exclusive, NEW w \in Workers, NEW j \in Jobs, Enqueue(w, j)
  PROVE  QuietRows
<1>1. Free(j)
  <2> SUFFICES ASSUME NEW r \in Runs, r[1] = j, Live(r) PROVE FALSE
    BY DEF Free
  <2>1. r[2] <= 0
    BY DEF Exclusive, Live, Enqueue
  <2> QED
    BY <2>1, D1StoreAssumption DEF Runs
<1>2. rows'[j].claims = rows[j].claims /\ \A k \in Jobs : k # j => rows'[k] = rows[k]
  BY DEF Enqueue, SetRow, NoRow, RowsTyped
<1>3. \A k \in Jobs : rows[k].claims \in Nat
  BY DEF RowsTyped, Row
<1> QED
  BY <1>1, <1>2, <1>3 DEF QuietRows

\* An UPDATE of a claim that leased the row although its answer was lost.
LEMMA RejectedQuiet ==
  ASSUME RowsTyped, RunsTyped, ClocksBehind, Exclusive, NEW w \in Workers, ClaimRejects(w)
  PROVE  QuietRows
<1>1. \A k \in Jobs : rows[k].claims \in Nat
  BY DEF RowsTyped, Row
<1>2. CASE UNCHANGED rows
  BY <1>1, <1>2 DEF QuietRows
<1>3. CASE ~ UNCHANGED rows
  <2>1. /\ loop[w].at = "update" /\ StillClaimable(loop[w].job, loop[w].now)
        /\ SetRow(loop[w].job, Leased(loop[w].job, w, loop[w].now))
    BY <1>3 DEF ClaimRejects
  <2>2. PICK j \in Jobs : j = loop[w].job /\ Free(j)
    BY <2>1, ClaimableFree
  <2>3. /\ rows'[j].claims = rows[j].claims + 1
        /\ \A k \in Jobs : k # j => rows'[k] = rows[k]
    BY <2>1, <2>2 DEF SetRow, Leased, RowsTyped, Row
  <2> QED
    BY <1>1, <2>2, <2>3 DEF QuietRows
<1> QED
  BY <1>2, <1>3

LEMMA ExclusiveNext ==
  ASSUME RowsTyped, RunsTyped, ClocksBehind, Exclusive, [Next]_vars
  PROVE  Exclusive'
<1>1. RowsTyped' /\ now \in Nat /\ \A k \in Jobs : rows[k].claims \in Nat
  BY RowsTypedNext DEF RowsTyped, Row
<1>2. ASSUME QuietRuns, QuietRows, now' = now \/ now' = now + 1, usurped \subseteq usurped'
      PROVE  Exclusive'
  BY <1>1, <1>2, ExclusiveQuiet DEF QuietRuns, QuietRows
<1>3. UNCHANGED rows => QuietRows
  BY <1>1 DEF QuietRows
<1>4. UNCHANGED runs => QuietRuns
  BY DEF QuietRuns
<1>5. ASSUME NEW w \in Workers, ClaimUpdates(w) PROVE Exclusive'
  <2>1. CASE StillClaimable(loop[w].job, loop[w].now)
    BY <1>1, <1>5, <2>1, ExclusiveClaim
  <2>2. CASE ~ StillClaimable(loop[w].job, loop[w].now)
    BY <1>2, <1>3, <1>4, <1>5, <2>2 DEF ClaimUpdates
  <2> QED
    BY <2>1, <2>2
<1>6. ASSUME NEW w \in Workers, NEW j \in Jobs, Enqueue(w, j) PROVE Exclusive'
  BY <1>2, <1>4, <1>6, EnqueueQuiet DEF Enqueue
<1>7. ASSUME NEW w \in Workers, ClaimRejects(w) PROVE Exclusive'
  BY <1>2, <1>4, <1>7, RejectedQuiet DEF ClaimRejects
<1>8. ASSUME Reclaim PROVE Exclusive'
  BY <1>2, <1>4, <1>8, ReclaimQuiet DEF Reclaim
<1>9. ASSUME NEW w \in Workers, Crash(w) PROVE Exclusive'
  <2>1. QuietRuns
    BY <1>9 DEF Crash, QuietRuns, NoRun
  <2> QED
    BY <1>2, <1>3, <1>9, <2>1 DEF Crash
<1>10. ASSUME NEW w \in Workers,
              ClaimSelects(w) \/ Rebuild(w) \/ \E j \in Jobs : Take(w, j)
       PROVE  Exclusive'
  BY <1>2, <1>3, <1>4, <1>10 DEF ClaimSelects, Rebuild, Take
<1>11. ASSUME NEW j \in Jobs, Cancel(j) \/ Sweep(j) PROVE Exclusive'
  <2>1. CASE Cancel(j)
    <3>1. /\ rows'[j].status = "cancelled" /\ rows'[j].claims = rows[j].claims
          /\ \A k \in Jobs : k # j => rows'[k] = rows[k]
      BY <2>1 DEF Cancel, SetRow, RowsTyped, Row
    <3> QED
      BY <1>1, <1>2, <1>4, <2>1, <3>1 DEF Cancel, QuietRows
  <2>2. CASE Sweep(j)
    <3>1. /\ rows'[j].status = "absent" /\ rows'[j].claims = rows[j].claims
          /\ \A k \in Jobs : k # j => rows'[k] = rows[k]
      BY <2>2 DEF Sweep, SetRow, NoRow, RowsTyped, Row
    <3> QED
      BY <1>1, <1>2, <1>4, <2>2, <3>1 DEF Sweep, QuietRows
  <2> QED
    BY <1>11, <2>1, <2>2
<1>12. ASSUME Tick \/ UNCHANGED vars PROVE Exclusive'
  BY <1>2, <1>3, <1>4, <1>12 DEF Tick, vars
<1>13. ASSUME NEW r \in Runs, RunStep(r) \/ AckRejects(r) \/ FailRejects(r) PROVE Exclusive'
  <2>1. AckRow(r) => QuietRows
    <3>1. r[1] \in Jobs
      BY DEF Runs
    <3>2. AckRow(r) => \/ UNCHANGED rows
                       \/ /\ rows'[r[1]].status = "done"
                          /\ rows'[r[1]].claims = rows[r[1]].claims
                          /\ \A k \in Jobs : k # r[1] => rows'[k] = rows[k]
      BY <3>1 DEF AckRow, SetRow, RowsTyped, Row
    <3> QED
      BY <1>1, <1>3, <3>2 DEF QuietRows
  <2>2. ASSUME NEW p \in Phases, p # "running", runs[r].phase # "none", SetPhase(r, p)
        PROVE  QuietRuns
    BY <2>2 DEF SetPhase, QuietRuns, RunsTyped
  <2>3. EndRun(r) => QuietRuns
    BY DEF EndRun, QuietRuns, NoRun, RunsTyped
  <2>4. CASE RunEnds(r)
    BY <1>2, <1>3, <2>2, <2>4 DEF RunEnds, Phases
  <2>5. CASE Ack(r)
    BY <1>2, <2>1, <2>3, <2>5 DEF Ack
  <2>6. CASE AckRejects(r)
    BY <1>2, <1>3, <2>1, <2>2, <2>6 DEF AckRejects, Phases
  <2>7. CASE Fail(r)
    <3>1. QuietRows /\ QuietRuns
      BY <2>2, <2>7, FailQuiet DEF Fail, Phases
    <3> QED
      BY <1>2, <2>7, <3>1 DEF Fail
  <2>8. CASE FailAnswers(r)
    BY <1>2, <1>3, <2>3, <2>8 DEF FailAnswers
  <2>9. CASE FailRejects(r)
    <3>1. QuietRuns
      BY <2>3, <2>9 DEF FailRejects
    <3>2. QuietRows
      BY <1>3, <2>9, FailQuiet DEF FailRejects
    <3> QED
      BY <1>2, <2>9, <3>1, <3>2 DEF FailRejects
  <2> QED
    BY <1>13, <2>4, <2>5, <2>6, <2>7, <2>8, <2>9 DEF RunStep
<1> QED
  BY <1>5, <1>6, <1>7, <1>8, <1>9, <1>10, <1>11, <1>12, <1>13 DEF Next, Step

\* However the statements of the dispatchers interleave, reject or are lost,
\* two live leases of one job are held only after an older run of the lease's
\* owner gave the newer one away.
THEOREM LeasesExclusive == Spec => []LiveLeasesAreExclusive
<1>1. Init => Exclusive /\ ClocksBehind
  <2> SUFFICES ASSUME Init PROVE Exclusive /\ ClocksBehind
    OBVIOUS
  <2>1. (\A r \in Runs : runs[r].phase = "none") /\ \A w \in Workers : loop[w].at = "idle"
    BY DEF Init, NoRun, Idle
  <2>2. \A r \in Runs : ~ Live(r)
    BY <2>1 DEF Live
  <2> QED
    BY <2>1, <2>2 DEF Exclusive, LiveLeasesAreExclusive, ClocksBehind
<1>2. RowsTyped /\ RunsTyped /\ ClocksBehind /\ Exclusive /\ [Next]_vars
        => Exclusive' /\ ClocksBehind'
  BY ExclusiveNext, ClocksBehindNext
<1>3. Exclusive => LiveLeasesAreExclusive
  BY DEF Exclusive
<1> QED
  BY <1>1, <1>2, <1>3, TypedAlways, PTL DEF Spec
=============================================================================
