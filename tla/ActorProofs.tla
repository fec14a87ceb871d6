----------------------------- MODULE ActorProofs -----------------------------
(***************************************************************************)
(* What the storage of an actor keeps and forgets, for every number of     *)
(* handles, submits and retries, and every sequence of crashes and closes. *)
(***************************************************************************)
EXTENDS Actor, SequenceTheorems, TLAPS

Entries == [state : States, flag : BOOLEAN]

LEMMA FreshTyped == Fresh \in States /\ NotRun \in RunRecords /\ Empty \in Entries
BY DEF Fresh, NotRun, Empty, States, RunRecords, Entries

LEMMA SeedTyped == ASSUME NEW h \in Handles PROVE Seed(h) \in States
BY DEF Seed, States

LEMMA StoredTyped == ASSUME TypeOK PROVE Stored \in Entries
<1>1. log \in Seq(Entries) /\ Len(log) \in Nat /\ Len(log) # 0
  BY DEF TypeOK, Entries
<1> QED
  BY <1>1 DEF Stored, Last

\* What reads see after the three ways of writing.
LEMMA StoredAfter ==
  ASSUME TypeOK
  PROVE  /\ \A e \in Entries : log' = Append(log, e) => log' \in Seq(Entries) /\ log' # <<>> /\ Stored' = e
         /\ \A d, e \in Entries : log' = log \o <<d, e>> => log' \in Seq(Entries) /\ log' # <<>> /\ Stored' = e
         /\ \A e \in Entries : log' = <<e>> => log' \in Seq(Entries) /\ log' # <<>> /\ Stored' = e
<1>1. log \in Seq(Entries) /\ Len(log) \in Nat
  BY DEF TypeOK, Entries
<1>2. ASSUME NEW e \in Entries, log' = Append(log, e)
      PROVE  log' \in Seq(Entries) /\ log' # <<>> /\ Stored' = e
  BY <1>1, <1>2 DEF Stored, Last
<1>3. ASSUME NEW d \in Entries, NEW e \in Entries, log' = log \o <<d, e>>
      PROVE  log' \in Seq(Entries) /\ log' # <<>> /\ Stored' = e
  <2>1. <<d, e>> \in Seq(Entries) /\ Len(<<d, e>>) = 2
    OBVIOUS
  <2>2. Len(log') = Len(log) + 2 /\ log'[Len(log) + 2] = e
    BY <1>1, <1>3, <2>1
  <2> QED
    BY <1>1, <1>3, <2>1, <2>2 DEF Stored, Last
<1>4. ASSUME NEW e \in Entries, log' = <<e>>
      PROVE  log' \in Seq(Entries) /\ log' # <<>> /\ Stored' = e
  BY <1>4 DEF Stored, Last
<1> QED
  BY <1>2, <1>3, <1>4

LEMMA RunsAre ==
  /\ \A s \in Submits : \A n \in 0 .. Retries[s] : <<s, n>> \in Runs
  /\ \A r \in Runs : r[1] \in Submits /\ r[2] \in 0 .. Retries[r[1]] /\ r = <<r[1], r[2]>>
BY DEF Runs

-----------------------------------------------------------------------------
(* Types, with what they need: a retry has an attempt left, an attempt is   *)
(* made once, and only what returned has written.                          *)

RetriesLeft == \A s \in Submits : at[s] = "backoff" => attempt[s] < Retries[s]

AttemptsInOrder ==
  \A s \in Submits : \A n \in 0 .. Retries[s] :
    at[s] \in {"idle", "ensuring", "ensured"} \/ n > attempt[s] => run[<<s, n>>] = NotRun

OnlyOkWrote == \A r \in Runs : run[r].at # "ok" => run[r].wroteAt = 0

Shape == TypeOK /\ RetriesLeft /\ AttemptsInOrder /\ OnlyOkWrote

LEMMA ShapeInit == Init => Shape
<1> SUFFICES ASSUME Init PROVE Shape
  OBVIOUS
<1>1. log \in Seq(Entries) /\ log # <<>>
  BY FreshTyped DEF Init
<1>2. TypeOK
  BY <1>1, FreshTyped, ActorAssumption DEF Init, TypeOK, Entries, NotRun
<1> QED
  BY <1>2, RunsAre DEF Init, Shape, RetriesLeft, AttemptsInOrder, OnlyOkWrote, NotRun

\* No run reads or writes: requests at most are sent or lost.
NothingDone ==
  \A r \in Runs :
    \/ run'[r] = run[r]
    \/ /\ run[r].at \in {"none", "sent"} /\ run'[r].at \in {"sent", "dead"}
       /\ run'[r].readAt = run[r].readAt /\ run'[r].wroteAt = run[r].wroteAt

LEMMA SendShape ==
  ASSUME Shape, NEW s \in Submits, NEW n \in 0 .. Retries[s],
         at[s] \in {"idle", "ensured"} \/ n > attempt[s],
         at[s] \notin {"idle", "ensured"} => n = attempt[s] + 1,
         at[s] \in {"idle", "ensured"} => n = 0,
         Send(s, n)
  PROVE  /\ run' \in [Runs -> RunRecords]
         /\ NothingDone /\ \A q \in Runs : run'[q].readAt <= version /\ run'[q].wroteAt <= version
         /\ at' \in [Submits -> {"idle", "ensuring", "ensured", "racing", "backoff", "done"}]
         /\ attempt' \in [Submits -> Nat] /\ \A q \in Submits : attempt'[q] <= Retries[q]
         /\ RetriesLeft' /\ AttemptsInOrder' /\ OnlyOkWrote'
<1> USE DEF Shape
<1>1. <<s, n>> \in Runs /\ n \in Nat /\ Retries[s] \in Nat
  BY RunsAre, ActorAssumption
<1>2. run[<<s, n>>] = NotRun
  BY DEF AttemptsInOrder
<1>3. run' = [run EXCEPT ![<<s, n>>] = [NotRun EXCEPT !.at = "sent"]]
  BY <1>1, <1>2 DEF Send, TypeOK
<1>4. [NotRun EXCEPT !.at = "sent"] \in RunRecords
  BY FreshTyped DEF RunRecords, NotRun
<1>5. run' \in [Runs -> RunRecords]
  BY <1>3, <1>4 DEF TypeOK
<1>6. /\ at' = [at EXCEPT ![s] = "racing"] /\ attempt' = [attempt EXCEPT ![s] = n]
      /\ at \in [Submits -> {"idle", "ensuring", "ensured", "racing", "backoff", "done"}]
      /\ attempt \in [Submits -> Nat]
      /\ \A q \in Submits : attempt[q] <= Retries[q] /\ attempt[q] \in Nat /\ Retries[q] \in Nat
  BY ActorAssumption DEF Send, TypeOK
<1>7. AttemptsInOrder'
  <2> SUFFICES ASSUME NEW q \in Submits, NEW k \in 0 .. Retries[q],
                      at'[q] \in {"idle", "ensuring", "ensured"} \/ k > attempt'[q]
               PROVE  run'[<<q, k>>] = NotRun
    BY DEF AttemptsInOrder
  <2>1. CASE q = s
    <3>1. k > n
      BY <2>1, <1>6
    <3>2. k > attempt[s] \/ at[s] \in {"idle", "ensuring", "ensured"}
      BY <3>1, <1>1, <1>6, <2>1
    <3>3. run[<<q, k>>] = NotRun /\ <<q, k>> # <<s, n>> /\ <<q, k>> \in Runs
      BY <3>1, <3>2, <2>1, <1>1, RunsAre DEF AttemptsInOrder
    <3> QED
      BY <3>3, <1>3 DEF TypeOK
  <2>2. CASE q # s
    <3>1. run[<<q, k>>] = NotRun /\ <<q, k>> # <<s, n>> /\ <<q, k>> \in Runs
      BY <2>2, <1>6, RunsAre DEF AttemptsInOrder
    <3> QED
      BY <3>1, <1>3 DEF TypeOK
  <2> QED
    BY <2>1, <2>2
<1>8. /\ NotRun.at = "none" /\ NotRun.readAt = 0 /\ NotRun.wroteAt = 0
      /\ [NotRun EXCEPT !.at = "sent"] = [at |-> "sent", read |-> Fresh, readAt |-> 0, wroteAt |-> 0]
  BY DEF NotRun
<1>9. \A q \in Runs :
        \/ run'[q] = run[q]
        \/ /\ run[q] = NotRun
           /\ run'[q].at = "sent" /\ run'[q].readAt = 0 /\ run'[q].wroteAt = 0
  <2> DEFINE x == [NotRun EXCEPT !.at = "sent"]
  <2>1. run' = [run EXCEPT ![<<s, n>>] = x] /\ run \in [Runs -> RunRecords]
    BY <1>3 DEF TypeOK
  <2>2. x.at = "sent" /\ x.readAt = 0 /\ x.wroteAt = 0
    BY <1>8
  <2> HIDE DEF x
  <2>3. \A q \in Runs : run'[q] = IF q = <<s, n>> THEN x ELSE run[q]
    BY <2>1
  <2> QED
    BY <1>2, <2>2, <2>3
<1>10. /\ OnlyOkWrote' /\ NothingDone
       /\ \A q \in Runs : run'[q].readAt <= version /\ run'[q].wroteAt <= version
  BY <1>8, <1>9 DEF OnlyOkWrote, NothingDone, TypeOK
<1>11. RetriesLeft'
  BY <1>6 DEF RetriesLeft
<1> QED
  BY <1>5, <1>6, <1>7, <1>10, <1>11

LEMMA ShapeHandle ==
  ASSUME Shape, NEW s \in Submits,
         \/ Submit(s) \/ EnsureReturns(s) \/ EnsureFails(s) \/ AnswerArrives(s)
         \/ BackoffEnds(s) \/ TimeoutFires(s)
  PROVE  Shape'
<1> USE DEF Shape
<1>0. Retries[s] \in Nat /\ attempt[s] \in Nat
  BY ActorAssumption DEF TypeOK
<1>1. CASE Submit(s)
  <2>1. CASE known[HandleOf[s]]
    <3>1. Send(s, 0) /\ at[s] = "idle" /\ 0 \in 0 .. Retries[s]
      BY <1>0, <1>1, <2>1 DEF Submit
    <3> HIDE DEF Shape
    <3>2. /\ run' \in [Runs -> RunRecords]
          /\ \A q \in Runs : run'[q].readAt <= version /\ run'[q].wroteAt <= version
          /\ at' \in [Submits -> {"idle", "ensuring", "ensured", "racing", "backoff", "done"}]
          /\ attempt' \in [Submits -> Nat] /\ \A q \in Submits : attempt'[q] <= Retries[q]
          /\ RetriesLeft' /\ AttemptsInOrder' /\ OnlyOkWrote'
      BY <3>1, SendShape
    <3> QED
      BY <1>1, <3>2 DEF Submit, bounds, Shape, TypeOK
  <2>2. CASE ~ known[HandleOf[s]]
    <3>1. /\ at[s] = "idle" /\ at' = [at EXCEPT ![s] = "ensuring"]
          /\ UNCHANGED <<log, run, version, known, attempt, outcome, closing, closes, crashes, cuts>>
      BY <1>1, <2>2 DEF Submit, bounds
    <3>2. TypeOK'
      BY <3>1 DEF TypeOK
    <3> QED
      BY <3>1, <3>2 DEF TypeOK, RetriesLeft, AttemptsInOrder, OnlyOkWrote
  <2> QED
    BY <2>1, <2>2
<1>2. CASE EnsureReturns(s)
  <2>1. Send(s, 0) /\ at[s] = "ensured" /\ 0 \in 0 .. Retries[s]
    BY <1>0, <1>2 DEF EnsureReturns
  <2> HIDE DEF Shape
  <2>2. /\ run' \in [Runs -> RunRecords]
        /\ \A q \in Runs : run'[q].readAt <= version /\ run'[q].wroteAt <= version
        /\ at' \in [Submits -> {"idle", "ensuring", "ensured", "racing", "backoff", "done"}]
        /\ attempt' \in [Submits -> Nat] /\ \A q \in Submits : attempt'[q] <= Retries[q]
        /\ RetriesLeft' /\ AttemptsInOrder' /\ OnlyOkWrote'
    BY <2>1, SendShape
  <2> QED
    BY <1>2, <2>2 DEF EnsureReturns, bounds, Shape, TypeOK
<1>3. CASE BackoffEnds(s)
  <2>1. /\ Send(s, attempt[s] + 1) /\ at[s] = "backoff"
        /\ attempt[s] + 1 \in 0 .. Retries[s] /\ attempt[s] + 1 > attempt[s]
    BY <1>0, <1>3 DEF BackoffEnds, RetriesLeft
  <2> HIDE DEF Shape
  <2>2. /\ run' \in [Runs -> RunRecords]
        /\ \A q \in Runs : run'[q].readAt <= version /\ run'[q].wroteAt <= version
        /\ at' \in [Submits -> {"idle", "ensuring", "ensured", "racing", "backoff", "done"}]
        /\ attempt' \in [Submits -> Nat] /\ \A q \in Submits : attempt'[q] <= Retries[q]
        /\ RetriesLeft' /\ AttemptsInOrder' /\ OnlyOkWrote'
    BY <2>1, SendShape
  <2> QED
    BY <1>3, <2>2 DEF BackoffEnds, bounds, Shape, TypeOK
<1>4. CASE EnsureFails(s)
  <2>1. known' \in [Handles -> BOOLEAN]
    BY <1>4 DEF EnsureFails, TypeOK
  <2>2. UNCHANGED <<log, run, version, attempt, closing, closes, crashes>>
    BY <1>4 DEF EnsureFails, object
  <2>3. cuts' = cuts + 1 /\ Settle(s, "failed")
    BY <1>4 DEF EnsureFails
  <2>4. TypeOK'
    BY <2>1, <2>2, <2>3 DEF Settle, TypeOK
  <2> QED
    BY <2>2, <2>3, <2>4 DEF Settle, TypeOK, RetriesLeft, AttemptsInOrder, OnlyOkWrote
<1>5. CASE AnswerArrives(s)
  BY <1>5 DEF AnswerArrives, Settle, object, bounds, TypeOK, RetriesLeft, AttemptsInOrder, OnlyOkWrote
<1>6. CASE TimeoutFires(s)
  BY <1>6 DEF TimeoutFires, Settle, object, TypeOK, RetriesLeft, AttemptsInOrder, OnlyOkWrote
<1> QED
  BY <1>1, <1>2, <1>3, <1>4, <1>5, <1>6

\* What the call of submit made may be marked dead by CallFails.
LEMMA MarkedDead ==
  ASSUME Shape, NEW r \in Runs, run[r].at = "sent", run' = [run EXCEPT ![r].at = "dead"]
  PROVE  /\ run' \in [Runs -> RunRecords]
         /\ \A q \in Runs : q # r => run'[q] = run[q]
         /\ run'[r].at = "dead" /\ run'[r].readAt = run[r].readAt
         /\ run'[r].wroteAt = run[r].wroteAt /\ run'[r].read = run[r].read
BY DEF Shape, TypeOK, RunRecords

LEMMA ShapeCallFails ==
  ASSUME Shape, NEW s \in Submits, CallFails(s)
  PROVE  Shape'
<1> USE DEF Shape
<1>1. Current(s) \in Runs /\ attempt[s] \in 0 .. Retries[s]
  BY RunsAre, ActorAssumption DEF Current, TypeOK
<1>2. /\ run' \in [Runs -> RunRecords]
      /\ \A q \in Runs : run'[q] = run[q] \/ (q = Current(s) /\ run'[q].at = "dead" /\ run[q].at = "sent")
      /\ \A q \in Runs : run'[q].readAt = run[q].readAt /\ run'[q].wroteAt = run[q].wroteAt
  <2>1. CASE UNCHANGED run
    BY <2>1 DEF TypeOK
  <2>2. CASE run[Current(s)].at = "sent" /\ run' = [run EXCEPT ![Current(s)].at = "dead"]
    <3> HIDE DEF Shape
    <3> QED
      BY <1>1, <2>2, MarkedDead
  <2> QED
    BY <2>1, <2>2 DEF CallFails
<1>3. /\ cuts' \in Nat /\ at' \in [Submits -> {"idle", "ensuring", "ensured", "racing", "backoff", "done"}]
      /\ outcome' \in [Submits -> {"none", "ok", "thrown", "failed", "timeout"}]
      /\ RetriesLeft'
  <2>1. cuts' \in Nat
    BY DEF CallFails, TypeOK
  <2>2. CASE /\ attempt[s] < Retries[s] /\ UNCHANGED <<attempt, outcome>>
             /\ at' = [at EXCEPT ![s] = "backoff"]
    BY <2>1, <2>2 DEF TypeOK, RetriesLeft
  <2>3. CASE Settle(s, "failed") /\ UNCHANGED attempt
    BY <2>1, <2>3 DEF Settle, TypeOK, RetriesLeft
  <2> QED
    BY <2>2, <2>3 DEF CallFails
<1>4. AttemptsInOrder'
  <2> SUFFICES ASSUME NEW q \in Submits, NEW k \in 0 .. Retries[q],
                      at'[q] \in {"idle", "ensuring", "ensured"} \/ k > attempt'[q]
               PROVE  run'[<<q, k>>] = NotRun
    BY DEF AttemptsInOrder
  <2>1. at[q] \in {"idle", "ensuring", "ensured"} \/ k > attempt[q]
    BY DEF CallFails, Settle, TypeOK
  <2>2. <<q, k>> \in Runs /\ run[<<q, k>>] = NotRun
    BY <2>1, RunsAre DEF AttemptsInOrder
  <2> QED
    BY <2>2, <1>2 DEF NotRun
<1>5. OnlyOkWrote'
  BY <1>2 DEF OnlyOkWrote
<1> QED
  BY <1>2, <1>3, <1>4, <1>5 DEF CallFails, TypeOK

LEMMA ShapeClosing ==
  ASSUME Shape, NEW h \in Handles, Close(h) \/ CloseReturns(h) \/ CloseFails(h)
  PROVE  Shape'
<1> USE DEF Shape
<1>1. CASE Close(h)
  BY <1>1 DEF Close, object, client, bounds, TypeOK, RetriesLeft, AttemptsInOrder, OnlyOkWrote
<1>2. CASE CloseReturns(h)
  BY <1>2 DEF CloseReturns, object, bounds, TypeOK, RetriesLeft, AttemptsInOrder, OnlyOkWrote
<1>3. CASE CloseFails(h)
  BY <1>3 DEF CloseFails, object, client, TypeOK, RetriesLeft, AttemptsInOrder, OnlyOkWrote
<1> QED
  BY <1>1, <1>2, <1>3

LEMMA ShapeSeeds ==
  ASSUME Shape, NEW s \in Submits, ActorEnsureInitialized(s)
  PROVE  Shape'
<1> USE DEF Shape
<1>1. log' \in Seq(Entries) /\ log' # <<>> /\ version' \in Nat /\ version' >= version
  <2>1. CASE Stored.flag
    BY <2>1 DEF ActorEnsureInitialized, TypeOK, Entries
  <2>2. CASE ~ Stored.flag
    <3>1. HandleOf[s] \in Handles
      BY ActorAssumption
    <3>2. /\ [Stored EXCEPT !.state = Seed(HandleOf[s])] \in Entries
          /\ [state |-> Seed(HandleOf[s]), flag |-> TRUE] \in Entries
      BY <3>1, SeedTyped, StoredTyped DEF Entries
    <3>3. /\ log' = log \o <<[Stored EXCEPT !.state = Seed(HandleOf[s])],
                               [state |-> Seed(HandleOf[s]), flag |-> TRUE]>>
          /\ version' = version + 1
      BY <2>2 DEF ActorEnsureInitialized, Seeding
    <3>4. log' \in Seq(Entries) /\ log' # <<>>
      BY <3>2, <3>3, StoredAfter
    <3> QED
      BY <3>3, <3>4 DEF TypeOK
  <2> QED
    BY <2>1, <2>2
<1>2. UNCHANGED <<run, known, attempt, outcome, closing, closes, crashes, cuts>>
  BY DEF ActorEnsureInitialized, bounds
<1>3. at[s] = "ensuring" /\ at' = [at EXCEPT ![s] = "ensured"]
  BY DEF ActorEnsureInitialized
<1>4. TypeOK'
  BY <1>1, <1>2, <1>3 DEF TypeOK, Entries, RunRecords
<1> QED
  BY <1>2, <1>3, <1>4 DEF TypeOK, RetriesLeft, AttemptsInOrder, OnlyOkWrote

\* A step that changes one run, which was no NotRun and stays none.
LEMMA ShapeOneRun ==
  ASSUME Shape, NEW r \in Runs, NEW x \in RunRecords,
         run[r].at \notin {"none"}, x.at = "ok" \/ x.wroteAt = 0,
         run' = [run EXCEPT ![r] = x], UNCHANGED <<at, attempt>>
  PROVE  /\ run' \in [Runs -> RunRecords] /\ OnlyOkWrote' /\ AttemptsInOrder' /\ RetriesLeft'
         /\ run'[r] = x /\ \A q \in Runs : q # r => run'[q] = run[q]
<1> USE DEF Shape
<1>1. run' \in [Runs -> RunRecords] /\ run'[r] = x /\ \A q \in Runs : q # r => run'[q] = run[q]
  BY DEF TypeOK
<1>2. run[r] # NotRun
  BY DEF NotRun
<1> QED
  BY <1>1, <1>2, RunsAre DEF OnlyOkWrote, AttemptsInOrder, RetriesLeft

\* The records a run goes through.
Read(state, v) == [at |-> "running", read |-> state, readAt |-> v, wroteAt |-> 0]

Wrote(x, v) == [at |-> "ok", read |-> Fresh, readAt |-> x.readAt, wroteAt |-> v]

Ended(phase) == [at |-> phase, read |-> Fresh, readAt |-> 0, wroteAt |-> 0]

LEMMA RecordsTyped ==
  /\ \A state \in States : \A v \in Nat : Read(state, v) \in RunRecords
  /\ \A x \in RunRecords : \A v \in Nat : Wrote(x, v) \in RunRecords
  /\ Ended("thrown") \in RunRecords /\ Ended("dead") \in RunRecords
BY FreshTyped DEF Read, Wrote, Ended, RunRecords

LEMMA EndedIs == [NotRun EXCEPT !.at = "thrown"] = Ended("thrown")
                 /\ [NotRun EXCEPT !.at = "dead"] = Ended("dead")
BY DEF NotRun, Ended

LEMMA ReadStep ==
  ASSUME Shape, NEW r \in Runs, ActorSubmitReads(r)
  PROVE  /\ run[r].at = "sent" /\ run' = [run EXCEPT ![r] = Read(Stored.state, version)]
         /\ Read(Stored.state, version) \in RunRecords /\ Stored.state \in States
BY StoredTyped, RecordsTyped DEF ActorSubmitReads, Read, Shape, TypeOK, Entries

LEMMA WriteStep ==
  ASSUME Shape, NEW r \in Runs, ActorSubmitWrites(r)
  PROVE  /\ run[r].at = "running" /\ run' = [run EXCEPT ![r] = Wrote(run[r], version')]
         /\ Wrote(run[r], version') \in RunRecords /\ version' = version + 1 /\ version \in Nat
         /\ log' \in Seq(Entries) /\ log' # <<>>
         /\ Stored'.flag = Stored.flag
         /\ Stored'.state.applied = run[r].read.applied \cup {r}
         /\ Stored'.state.seed = run[r].read.seed
         /\ Stored'.state \in States
<1> USE DEF Shape
<1>1. version' = version + 1 /\ version \in Nat /\ run[r] \in RunRecords
  BY DEF ActorSubmitWrites, TypeOK
<1>2. Wrote(run[r], version') \in RunRecords
  BY <1>1, RecordsTyped
<1>3. run' = [run EXCEPT ![r] = Wrote(run[r], version')]
  BY DEF ActorSubmitWrites, Wrote, TypeOK, RunRecords
<1>4. /\ Applied(run[r].read, r) \in States
      /\ Applied(run[r].read, r).applied = run[r].read.applied \cup {r}
      /\ Applied(run[r].read, r).seed = run[r].read.seed
  BY <1>1 DEF Applied, RunRecords, States
<1> DEFINE e == [Stored EXCEPT !.state = Applied(run[r].read, r)]
<1>5. /\ e \in Entries /\ e.flag = Stored.flag
      /\ e.state = Applied(run[r].read, r)
  BY <1>4, StoredTyped DEF Entries
<1>6. log' = Append(log, e)
  BY DEF ActorSubmitWrites
<1> HIDE DEF e
<1>7. log' \in Seq(Entries) /\ log' # <<>> /\ Stored' = e
  BY <1>5, <1>6, StoredAfter
<1> QED
  BY <1>1, <1>2, <1>3, <1>4, <1>5, <1>7 DEF ActorSubmitWrites

LEMMA ThrowStep ==
  ASSUME Shape, NEW r \in Runs, ActorSubmitThrows(r)
  PROVE  run[r].at = "running" /\ run' = [run EXCEPT ![r] = Ended("thrown")]
BY EndedIs DEF ActorSubmitThrows

LEMMA ShapeRun ==
  ASSUME Shape, NEW r \in Runs,
         ActorSubmitReads(r) \/ ActorSubmitWrites(r) \/ ActorSubmitThrows(r)
  PROVE  Shape'
<1>1. CASE ActorSubmitReads(r)
  <2> DEFINE x == Read(Stored.state, version)
  <2>1. /\ x \in RunRecords /\ run[r].at \notin {"none"} /\ x.wroteAt = 0 /\ x.readAt = version
        /\ run' = [run EXCEPT ![r] = x]
    BY <1>1, ReadStep DEF Read
  <2>2. UNCHANGED <<log, version, known, at, attempt, outcome, closing, closes, crashes, cuts>>
    BY <1>1 DEF ActorSubmitReads, client, bounds
  <2> HIDE DEF x
  <2>3. /\ run' \in [Runs -> RunRecords] /\ OnlyOkWrote' /\ AttemptsInOrder' /\ RetriesLeft'
        /\ run'[r] = x /\ \A q \in Runs : q # r => run'[q] = run[q]
    BY <2>1, <2>2, ShapeOneRun
  <2> QED
    BY <2>1, <2>2, <2>3 DEF Shape, TypeOK
<1>2. CASE ActorSubmitWrites(r)
  <2> DEFINE x == Wrote(run[r], version')
  <2>1. /\ x \in RunRecords /\ run[r].at \notin {"none"} /\ x.at = "ok"
        /\ x.wroteAt = version' /\ x.readAt = run[r].readAt
        /\ run' = [run EXCEPT ![r] = x]
    BY <1>2, WriteStep DEF Wrote
  <2>2. UNCHANGED <<known, at, attempt, outcome, closing, closes, crashes, cuts>>
    BY <1>2 DEF ActorSubmitWrites, client, bounds
  <2>3. version' = version + 1 /\ version \in Nat /\ log' \in Seq(Entries) /\ log' # <<>>
    BY <1>2, WriteStep
  <2> HIDE DEF x
  <2>4. /\ run' \in [Runs -> RunRecords] /\ OnlyOkWrote' /\ AttemptsInOrder' /\ RetriesLeft'
        /\ run'[r] = x /\ \A q \in Runs : q # r => run'[q] = run[q]
    BY <2>1, <2>2, ShapeOneRun
  <2>5. \A q \in Runs : run'[q].readAt <= version' /\ run'[q].wroteAt <= version'
    BY <2>1, <2>3, <2>4 DEF Shape, TypeOK, RunRecords
  <2> QED
    BY <2>2, <2>3, <2>4, <2>5 DEF Shape, TypeOK, Entries
<1>3. CASE ActorSubmitThrows(r)
  <2> DEFINE x == Ended("thrown")
  <2>1. /\ x \in RunRecords /\ run[r].at \notin {"none"} /\ x.wroteAt = 0 /\ x.readAt = 0
        /\ run' = [run EXCEPT ![r] = x]
    BY <1>3, ThrowStep, RecordsTyped DEF Ended
  <2>2. UNCHANGED <<log, version, known, at, attempt, outcome, closing, closes, crashes, cuts>>
    BY <1>3 DEF ActorSubmitThrows, client, bounds
  <2> HIDE DEF x
  <2>3. /\ run' \in [Runs -> RunRecords] /\ OnlyOkWrote' /\ AttemptsInOrder' /\ RetriesLeft'
        /\ run'[r] = x /\ \A q \in Runs : q # r => run'[q] = run[q]
    BY <2>1, <2>2, ShapeOneRun
  <2> QED
    BY <2>1, <2>2, <2>3 DEF Shape, TypeOK
<1> QED
  BY <1>1, <1>2, <1>3

LEMMA ShapeActorClose ==
  ASSUME Shape, NEW h \in Handles, ActorClose(h)
  PROVE  Shape' /\ Stored' = Empty
<1> USE DEF Shape
<1>1. log' \in Seq(Entries) /\ log' # <<>> /\ Stored' = Empty
  BY FreshTyped, StoredAfter DEF ActorClose, Closed
<1>2. version' = version + 1 /\ version \in Nat /\ closes \in Seq([by : Handles, version : Nat])
  BY DEF ActorClose, TypeOK
<1>3. closes' = Append(closes, [by |-> h, version |-> version'])
  BY DEF ActorClose
<1>4. closes' \in Seq([by : Handles, version : Nat])
  BY <1>2, <1>3
<1>5. UNCHANGED <<run, known, at, attempt, outcome, crashes, cuts>>
      /\ closing' = [closing EXCEPT ![h] = "closed"]
  BY DEF ActorClose, client
<1>6. \A r \in Runs : run'[r].readAt <= version' /\ run'[r].wroteAt <= version'
  BY <1>2, <1>5 DEF TypeOK, RunRecords
<1> QED
  BY <1>1, <1>2, <1>4, <1>5, <1>6 DEF TypeOK, Entries, RetriesLeft, AttemptsInOrder, OnlyOkWrote

LEMMA CrashStep ==
  ASSUME Shape, Crash
  PROVE  /\ \E i \in DOMAIN log : log' = <<log[i]>> /\ log[i] \in Entries /\ Stored' = log[i]
         /\ log' \in Seq(Entries) /\ log' # <<>>
         /\ run' \in [Runs -> RunRecords]
         /\ \A r \in Runs : run'[r] = IF run[r].at = "running" THEN Ended("dead") ELSE run[r]
<1> USE DEF Shape
<1>1. PICK i \in DOMAIN log : log' = <<log[i]>>
  BY DEF Crash
<1>2. log[i] \in Entries
  <2>1. log \in Seq(Entries)
    BY DEF TypeOK, Entries
  <2> QED
    BY <2>1
<1>3. log' \in Seq(Entries) /\ log' # <<>> /\ Stored' = log[i]
  BY <1>1, <1>2, StoredAfter
<1>4. run' = [r \in Runs |-> IF run[r].at = "running" THEN Ended("dead") ELSE run[r]]
  BY EndedIs DEF Crash
<1> QED
  BY <1>1, <1>2, <1>3, <1>4, RecordsTyped DEF TypeOK

LEMMA ShapeCrash ==
  ASSUME Shape, Crash
  PROVE  Shape'
<1> USE DEF Shape
<1>1. /\ log' \in Seq(Entries) /\ log' # <<>> /\ run' \in [Runs -> RunRecords]
      /\ \A r \in Runs : run'[r] = IF run[r].at = "running" THEN Ended("dead") ELSE run[r]
  BY CrashStep
<1>2. UNCHANGED <<version, known, at, attempt, outcome, closing, closes, cuts>> /\ crashes' = crashes + 1
  BY DEF Crash, client
<1>3. \A r \in Runs : run'[r].readAt <= version' /\ run'[r].wroteAt <= version'
  BY <1>1, <1>2 DEF TypeOK, RunRecords, Ended
<1>4. \A r \in Runs : run[r] = NotRun => run'[r] = NotRun
  BY <1>1 DEF NotRun
<1>5. OnlyOkWrote'
  BY <1>1 DEF OnlyOkWrote, Ended
<1> QED
  BY <1>1, <1>2, <1>3, <1>4, <1>5, RunsAre DEF TypeOK, Entries, RetriesLeft, AttemptsInOrder

LEMMA ShapeNext == ASSUME Shape, [Next]_vars PROVE Shape'
<1>1. CASE \E s \in Submits :
         \/ Submit(s) \/ EnsureReturns(s) \/ EnsureFails(s) \/ AnswerArrives(s)
         \/ BackoffEnds(s) \/ TimeoutFires(s)
  BY <1>1, ShapeHandle
<1>2. CASE \E s \in Submits : CallFails(s)
  BY <1>2, ShapeCallFails
<1>3. CASE \E s \in Submits : ActorEnsureInitialized(s)
  BY <1>3, ShapeSeeds
<1>4. CASE \E h \in Handles : Close(h) \/ CloseReturns(h) \/ CloseFails(h)
  BY <1>4, ShapeClosing
<1>5. CASE \E h \in Handles : ActorClose(h)
  BY <1>5, ShapeActorClose
<1>6. CASE \E r \in Runs : ActorSubmitReads(r) \/ ActorSubmitWrites(r) \/ ActorSubmitThrows(r)
  BY <1>6, ShapeRun
<1>7. CASE Crash
  BY <1>7, ShapeCrash
<1>8. CASE UNCHANGED vars
  BY <1>8 DEF vars, object, client, bounds, Shape, TypeOK, RetriesLeft, AttemptsInOrder, OnlyOkWrote
<1> QED
  BY <1>1, <1>2, <1>3, <1>4, <1>5, <1>6, <1>7, <1>8 DEF Next

\* Types, for every number of handles, submits, retries, closes and crashes.
THEOREM TypeCorrect == Spec => []TypeOK
<1>1. Shape /\ [Next]_vars => Shape'
  BY ShapeNext
<1>2. Shape => TypeOK
  BY DEF Shape
<1> QED
  BY ShapeInit, <1>1, <1>2, PTL DEF Spec
-----------------------------------------------------------------------------
(* What was written stays written: the steps, as far as the two histories   *)
(* below see them.                                                          *)

\* Runs change, but none starts, writes, or had written.
NoneRuns ==
  \A r \in Runs :
    \/ run'[r] = run[r]
    \/ run[r].wroteAt = 0 /\ run'[r].wroteAt = 0 /\ run'[r].at \notin {"running", "ok"}

Requests(s) ==
  \/ Submit(s) \/ EnsureReturns(s) \/ EnsureFails(s) \/ AnswerArrives(s)
  \/ CallFails(s) \/ BackoffEnds(s) \/ TimeoutFires(s)

LEMMA NothingDoneRuns == ASSUME Shape, NothingDone PROVE NoneRuns
BY DEF Shape, OnlyOkWrote, NothingDone, NoneRuns

LEMMA RequestsRunNothing ==
  ASSUME Shape, NEW s \in Submits, Requests(s)
  PROVE  NoneRuns /\ UNCHANGED <<log, version, closing, closes, crashes>>
<1>0. Retries[s] \in Nat /\ attempt[s] \in Nat
  BY ActorAssumption DEF Shape, TypeOK
<1>1. UNCHANGED <<log, version, closing, closes, crashes>>
  BY DEF Requests, Submit, EnsureReturns, EnsureFails, AnswerArrives, CallFails, BackoffEnds,
         TimeoutFires, object, bounds
<1>2. CASE UNCHANGED run
  BY <1>1, <1>2 DEF NoneRuns
<1>3. CASE Submit(s) /\ ~ UNCHANGED run
  <2>1. Send(s, 0) /\ at[s] = "idle" /\ 0 \in 0 .. Retries[s]
    BY <1>0, <1>3 DEF Submit
  <2> QED
    BY <1>1, <2>1, SendShape, NothingDoneRuns
<1>4. CASE EnsureReturns(s)
  <2>1. Send(s, 0) /\ at[s] = "ensured" /\ 0 \in 0 .. Retries[s]
    BY <1>0, <1>4 DEF EnsureReturns
  <2> QED
    BY <1>1, <2>1, SendShape, NothingDoneRuns
<1>5. CASE BackoffEnds(s)
  <2>1. /\ Send(s, attempt[s] + 1) /\ at[s] = "backoff"
        /\ attempt[s] + 1 \in 0 .. Retries[s] /\ attempt[s] + 1 > attempt[s]
    BY <1>0, <1>5 DEF BackoffEnds, RetriesLeft, Shape
  <2> QED
    BY <1>1, <2>1, SendShape, NothingDoneRuns
<1>6. CASE CallFails(s) /\ ~ UNCHANGED run
  <2>1. Current(s) \in Runs
    BY RunsAre, ActorAssumption DEF Current, Shape, TypeOK
  <2>2. run[Current(s)].at = "sent" /\ run' = [run EXCEPT ![Current(s)].at = "dead"]
    BY <1>6 DEF CallFails
  <2>3. /\ \A q \in Runs : q # Current(s) => run'[q] = run[q]
        /\ run'[Current(s)].at = "dead" /\ run'[Current(s)].wroteAt = run[Current(s)].wroteAt
    BY <2>1, <2>2, MarkedDead
  <2>4. run[Current(s)].wroteAt = 0
    BY <2>1, <2>2 DEF Shape, OnlyOkWrote
  <2> QED
    BY <1>1, <2>3, <2>4 DEF NoneRuns
<1> QED
  BY <1>2, <1>3, <1>4, <1>5, <1>6
     DEF Requests, EnsureFails, AnswerArrives, TimeoutFires, object

LEMMA ThrowRunsNothing ==
  ASSUME Shape, NEW r \in Runs, ActorSubmitThrows(r)
  PROVE  NoneRuns /\ UNCHANGED <<log, version, closing, closes, crashes>>
<1>1. run[r].at = "running" /\ run' = [run EXCEPT ![r] = Ended("thrown")]
  BY ThrowStep
<1>2. run[r].wroteAt = 0 /\ Ended("thrown").wroteAt = 0 /\ Ended("thrown").at = "thrown"
  BY <1>1 DEF Shape, OnlyOkWrote, Ended
<1>3. UNCHANGED <<log, version, closing, closes, crashes>>
  BY DEF ActorSubmitThrows, bounds
<1>4. \A q \in Runs : run'[q] = IF q = r THEN Ended("thrown") ELSE run[q]
  BY <1>1 DEF Shape, TypeOK
<1> QED
  BY <1>2, <1>3, <1>4 DEF NoneRuns

LEMMA CloserRunsNothing ==
  ASSUME NEW h \in Handles, Close(h) \/ CloseReturns(h) \/ CloseFails(h)
  PROVE  NoneRuns /\ UNCHANGED <<log, version, closes, crashes>>
BY DEF Close, CloseReturns, CloseFails, NoneRuns, object, bounds

\* Only a crash and a deletion end the quiet.
LEMMA EventsLast ==
  ASSUME Shape, [Next]_vars
  PROVE  \/ Crash \/ \E h \in Handles : ActorClose(h)
         \/ UNCHANGED <<crashes, closes>>
<1>1. CASE \E s \in Submits : Requests(s)
  BY <1>1, RequestsRunNothing
<1>2. CASE \E s \in Submits : ActorEnsureInitialized(s)
  BY <1>2 DEF ActorEnsureInitialized, bounds
<1>3. CASE \E h \in Handles : Close(h) \/ CloseReturns(h) \/ CloseFails(h)
  BY <1>3, CloserRunsNothing
<1>4. CASE \E r \in Runs : ActorSubmitReads(r) \/ ActorSubmitWrites(r) \/ ActorSubmitThrows(r)
  BY <1>4 DEF ActorSubmitReads, ActorSubmitWrites, ActorSubmitThrows, bounds
<1>5. CASE UNCHANGED vars
  BY <1>5 DEF vars, bounds
<1> QED
  BY <1>1, <1>2, <1>3, <1>4, <1>5 DEF Next, Requests

\* A write that came between a read and a write goes on doing so.
LEMMA OverlapsLast ==
  ASSUME Shape, NEW t \in Runs, NEW v \in Nat, Overlaps(t, v),
         run'[t] = run[t] \/ run[t].wroteAt = 0
  PROVE  Overlaps(t, v)'
BY DEF Overlaps, Shape, TypeOK, RunRecords
-----------------------------------------------------------------------------
(* What close deleted stays deleted.                                        *)

\* A change older than deletion v is in a state only if some run was under
\* way when v happened ...
KeptOnlyBy(state, v) ==
  \A r \in state.applied : run[r].wroteAt < v => \E t \in Runs : Overlaps(t, v)

\* ... wherever on the disk the state is, and in what a run has read since.
DeletedStays(v) ==
  /\ v <= version
  /\ \A i \in DOMAIN log : KeptOnlyBy(log[i].state, v)
  /\ \A t \in Runs : run[t].at = "running" /\ run[t].readAt >= v => KeptOnlyBy(run[t].read, v)

ClosesLast == \A i \in DOMAIN closes : DeletedStays(closes[i].version)

LEMMA StateKeeps ==
  ASSUME Shape, NEW state \in States, NEW v \in Nat, KeptOnlyBy(state, v),
         \A r \in Runs : run'[r] = run[r] \/ (run[r].wroteAt = 0 /\ run'[r].wroteAt \in Nat)
  PROVE  \A r \in state.applied : run'[r].wroteAt < v => \E t \in Runs : Overlaps(t, v)'
<1> SUFFICES ASSUME NEW r \in state.applied, run'[r].wroteAt < v
             PROVE  \E t \in Runs : Overlaps(t, v)'
  OBVIOUS
<1>1. r \in Runs
  BY DEF States
<1>2. run[r].wroteAt < v
  BY <1>1 DEF Shape, TypeOK, RunRecords
<1>3. PICK t \in Runs : Overlaps(t, v)
  BY <1>2 DEF KeptOnlyBy
<1>4. Overlaps(t, v)'
  BY <1>3, OverlapsLast
<1> QED
  BY <1>4

LEMMA EntryStates ==
  ASSUME Shape
  PROVE  /\ \A i \in DOMAIN log : log[i] \in Entries /\ log[i].state \in States
         /\ \A i \in DOMAIN closes : closes[i].version \in Nat
         /\ \A r \in Runs : run[r].read \in States
         /\ Stored = log[Len(log)] /\ Len(log) \in DOMAIN log
<1>1. log \in Seq(Entries) /\ log # <<>>
  BY DEF Shape, TypeOK, Entries
<1>2. \A i \in DOMAIN log : log[i] \in Entries
  BY <1>1
<1>3. \A i \in DOMAIN closes : closes[i] \in [by : Handles, version : Nat]
  <2> DEFINE R == [by : Handles, version : Nat]
  <2>1. closes \in Seq(R)
    BY DEF Shape, TypeOK
  <2> HIDE DEF R
  <2>2. \A i \in DOMAIN closes : closes[i] \in R
    BY <2>1
  <2> QED
    BY <2>2 DEF R
<1>4. Len(log) \in DOMAIN log
  <2>1. DOMAIN log = 1 .. Len(log) /\ Len(log) \in Nat /\ Len(log) # 0
    BY <1>1
  <2> QED
    BY <2>1
<1>5. \A r \in Runs : run[r].read \in States
  BY DEF Shape, TypeOK, RunRecords
<1> QED
  BY <1>2, <1>3, <1>4, <1>5 DEF Stored, Last, Entries

\* Steps after which no run has newly read, and nothing new is stored.
LEMMA DeletedByNoneRuns ==
  ASSUME Shape, NEW v \in Nat, DeletedStays(v), NoneRuns, version' >= version, version' \in Nat,
         \A j \in DOMAIN log' : log'[j].state.applied = {} \/ \E i \in DOMAIN log : log'[j] = log[i]
  PROVE  DeletedStays(v)'
<1>1. \A r \in Runs : run'[r] = run[r] \/ (run[r].wroteAt = 0 /\ run'[r].wroteAt \in Nat)
  BY DEF NoneRuns
<1>2. ASSUME NEW j \in DOMAIN log' PROVE KeptOnlyBy(log[j].state, v)'
  <2>1. CASE log'[j].state.applied = {}
    BY <2>1 DEF KeptOnlyBy
  <2>2. CASE \E i \in DOMAIN log : log'[j] = log[i]
    <3>1. PICK i \in DOMAIN log : log'[j] = log[i]
      BY <2>2
    <3>2. log[i].state \in States /\ KeptOnlyBy(log[i].state, v)
      BY EntryStates DEF DeletedStays
    <3> QED
      BY <1>1, <3>1, <3>2, StateKeeps DEF KeptOnlyBy
  <2> QED
    BY <1>2, <2>1, <2>2
<1>3. ASSUME NEW t \in Runs, run'[t].at = "running", run'[t].readAt >= v
      PROVE  KeptOnlyBy(run[t].read, v)'
  <2>1. run'[t] = run[t]
    BY <1>3 DEF NoneRuns
  <2>2. run[t].read \in States /\ KeptOnlyBy(run[t].read, v)
    BY <1>3, <2>1, EntryStates DEF DeletedStays
  <2> QED
    BY <1>1, <2>1, <2>2, StateKeeps DEF KeptOnlyBy
<1>4. v <= version'
  BY DEF DeletedStays, Shape, TypeOK
<1> QED
  BY <1>2, <1>3, <1>4 DEF DeletedStays

LEMMA DeletedByRead ==
  ASSUME Shape, NEW v \in Nat, DeletedStays(v), NEW r \in Runs, ActorSubmitReads(r)
  PROVE  DeletedStays(v)'
<1> DEFINE x == Read(Stored.state, version)
<1>1. /\ run[r].at = "sent" /\ run' = [run EXCEPT ![r] = x]
      /\ x.read = Stored.state /\ x.wroteAt = 0
  BY ReadStep DEF Read
<1> HIDE DEF x
<1>2. \A q \in Runs : run'[q] = IF q = r THEN x ELSE run[q]
  BY <1>1 DEF Shape, TypeOK
<1>3. \A q \in Runs : run'[q] = run[q] \/ (run[q].wroteAt = 0 /\ run'[q].wroteAt \in Nat)
  BY <1>1, <1>2 DEF Shape, OnlyOkWrote
<1>4. UNCHANGED <<log, version>>
  BY DEF ActorSubmitReads
<1>5. ASSUME NEW i \in DOMAIN log' PROVE KeptOnlyBy(log[i].state, v)'
  <2>1. log[i].state \in States /\ KeptOnlyBy(log[i].state, v)
    BY <1>4, <1>5, EntryStates DEF DeletedStays
  <2> QED
    BY <1>3, <1>4, <2>1, StateKeeps DEF KeptOnlyBy
<1>6. ASSUME NEW t \in Runs, run'[t].at = "running", run'[t].readAt >= v
      PROVE  KeptOnlyBy(run[t].read, v)'
  <2>1. CASE t = r
    <3>1. run'[t].read = Stored.state /\ Stored.state \in States /\ KeptOnlyBy(Stored.state, v)
      BY <1>1, <1>2, <2>1, EntryStates DEF DeletedStays
    <3> QED
      BY <1>3, <3>1, StateKeeps DEF KeptOnlyBy
  <2>2. CASE t # r
    <3>1. run'[t] = run[t] /\ run[t].read \in States /\ KeptOnlyBy(run[t].read, v)
      BY <1>2, <1>6, <2>2, EntryStates DEF DeletedStays
    <3> QED
      BY <1>3, <3>1, StateKeeps DEF KeptOnlyBy
  <2> QED
    BY <2>1, <2>2
<1> QED
  BY <1>4, <1>5, <1>6 DEF DeletedStays
LEMMA DeletedByWrite ==
  ASSUME Shape, NEW v \in Nat, DeletedStays(v), NEW r \in Runs, ActorSubmitWrites(r)
  PROVE  DeletedStays(v)'
<1> DEFINE x == Wrote(run[r], version')
           e == [Stored EXCEPT !.state = Applied(run[r].read, r)]
<1>1. /\ run[r].at = "running" /\ run' = [run EXCEPT ![r] = x]
      /\ version' = version + 1 /\ version \in Nat
      /\ x.wroteAt = version' /\ x.readAt = run[r].readAt /\ x.at = "ok"
  BY WriteStep DEF Wrote
<1>2. log' = Append(log, e) /\ log \in Seq(Entries) /\ e.state.applied = run[r].read.applied \cup {r}
  <2>1. run[r].read \in States /\ Stored \in Entries
    BY EntryStates
  <2>2. Applied(run[r].read, r).applied = run[r].read.applied \cup {r}
    BY <2>1 DEF Applied, States
  <2> QED
    BY <2>1, <2>2 DEF ActorSubmitWrites, Shape, TypeOK, Entries
<1> HIDE DEF x, e
<1>3. \A q \in Runs : run'[q] = IF q = r THEN x ELSE run[q]
  BY <1>1 DEF Shape, TypeOK
<1>4. run[r].wroteAt = 0
  BY <1>1 DEF Shape, OnlyOkWrote
<1>5. \A q \in Runs : run'[q] = run[q] \/ (run[q].wroteAt = 0 /\ run'[q].wroteAt \in Nat)
  BY <1>1, <1>3, <1>4
<1>6. v <= version
  BY DEF DeletedStays
<1>7. \A q \in e.state.applied : run'[q].wroteAt < v => \E t \in Runs : Overlaps(t, v)'
  <2> SUFFICES ASSUME NEW q \in e.state.applied, run'[q].wroteAt < v
               PROVE  \E t \in Runs : Overlaps(t, v)'
    OBVIOUS
  <2>1. q \in run[r].read.applied
    <3>1. run'[r].wroteAt = version + 1
      BY <1>1, <1>3
    <3>2. q # r
      BY <3>1, <1>1, <1>6
    <3> QED
      BY <1>2, <3>2
  <2>2. CASE run[r].readAt >= v
    <3>1. run[r].read \in States /\ KeptOnlyBy(run[r].read, v)
      BY <1>1, <2>2, EntryStates DEF DeletedStays
    <3> QED
      BY <1>5, <2>1, <3>1, StateKeeps
  <2>3. CASE ~ run[r].readAt >= v
    <3>1. run'[r].readAt < v /\ v < run'[r].wroteAt
      BY <1>1, <1>3, <1>6, <2>3 DEF Shape, TypeOK, RunRecords
    <3> QED
      BY <3>1 DEF Overlaps
  <2> QED
    BY <2>2, <2>3
<1>8. ASSUME NEW i \in DOMAIN log' PROVE KeptOnlyBy(log[i].state, v)'
  <2>1. CASE i \in DOMAIN log
    <3>1. log'[i] = log[i] /\ log[i].state \in States /\ KeptOnlyBy(log[i].state, v)
      BY <1>2, <2>1, EntryStates DEF DeletedStays
    <3> QED
      BY <1>5, <3>1, StateKeeps DEF KeptOnlyBy
  <2>2. CASE i \notin DOMAIN log
    <3>1. log'[i] = e
      BY <1>2, <1>8, <2>2
    <3> QED
      BY <1>7, <3>1 DEF KeptOnlyBy
  <2> QED
    BY <2>1, <2>2
<1>9. ASSUME NEW t \in Runs, run'[t].at = "running", run'[t].readAt >= v
      PROVE  KeptOnlyBy(run[t].read, v)'
  <2>1. run'[t] = run[t] /\ run[t].read \in States /\ KeptOnlyBy(run[t].read, v)
    BY <1>1, <1>3, <1>9, EntryStates DEF DeletedStays
  <2> QED
    BY <1>5, <2>1, StateKeeps DEF KeptOnlyBy
<1> QED
  BY <1>1, <1>6, <1>8, <1>9 DEF DeletedStays

LEMMA DeletedBySeeds ==
  ASSUME Shape, NEW v \in Nat, DeletedStays(v), NEW s \in Submits, ActorEnsureInitialized(s)
  PROVE  DeletedStays(v)'
<1>1. NoneRuns
  BY DEF ActorEnsureInitialized, NoneRuns
<1>2. CASE Stored.flag
  <2>1. UNCHANGED <<log, version>>
    BY <1>2 DEF ActorEnsureInitialized
  <2>2. version' >= version /\ version' \in Nat
    BY <2>1 DEF Shape, TypeOK
  <2>3. \A j \in DOMAIN log' : \E k \in DOMAIN log : log'[j] = log[k]
    BY <2>1
  <2> QED
    BY <1>1, <2>2, <2>3, DeletedByNoneRuns
<1>3. CASE ~ Stored.flag
  <2> DEFINE d == [Stored EXCEPT !.state = Seed(HandleOf[s])]
             e == [state |-> Seed(HandleOf[s]), flag |-> TRUE]
  <2>1. HandleOf[s] \in Handles
    BY ActorAssumption
  <2>2. /\ d \in Entries /\ e \in Entries
        /\ d.state.applied = {} /\ e.state.applied = {}
    BY <2>1, SeedTyped, EntryStates DEF Entries, Seed
  <2>3. log' = log \o <<d, e>> /\ version' = version + 1 /\ log \in Seq(Entries)
    BY <1>3 DEF ActorEnsureInitialized, Seeding, Shape, TypeOK, Entries
  <2> HIDE DEF d, e
  <2>4. ASSUME NEW j \in DOMAIN log'
        PROVE  log'[j].state.applied = {} \/ \E i \in DOMAIN log : log'[j] = log[i]
    <3>1. /\ <<d, e>> \in Seq(Entries) /\ Len(<<d, e>>) = 2
          /\ <<d, e>>[1] = d /\ <<d, e>>[2] = e
      BY <2>2
    <3>2. j \in 1 .. (Len(log) + 2) /\ Len(log) \in Nat
      BY <2>3, <2>4, <3>1
    <3>3. CASE j <= Len(log)
      BY <2>3, <3>1, <3>2, <3>3
    <3>4. CASE j = Len(log) + 1
      <4>1. log'[j] = d
        BY <2>3, <3>1, <3>2, <3>4
      <4> QED
        BY <2>2, <4>1
    <3>5. CASE j = Len(log) + 2
      <4>1. log'[j] = e
        BY <2>3, <3>1, <3>2, <3>5
      <4> QED
        BY <2>2, <4>1
    <3> QED
      BY <3>2, <3>3, <3>4, <3>5
  <2>5. version' >= version /\ version' \in Nat
    BY <2>3 DEF Shape, TypeOK
  <2> QED
    BY <1>1, <2>4, <2>5, DeletedByNoneRuns
<1> QED
  BY <1>2, <1>3

LEMMA DeletedByCrash ==
  ASSUME Shape, NEW v \in Nat, DeletedStays(v), Crash
  PROVE  DeletedStays(v)'
<1>1. /\ \A r \in Runs : run'[r] = IF run[r].at = "running" THEN Ended("dead") ELSE run[r]
      /\ Ended("dead").at = "dead" /\ Ended("dead").wroteAt = 0
  BY CrashStep DEF Ended
<1>2. NoneRuns
  BY <1>1 DEF NoneRuns, Shape, OnlyOkWrote
<1>3. PICK i \in DOMAIN log : log' = <<log[i]>>
  BY DEF Crash
<1>4. \A j \in DOMAIN log' : log'[j] = log[i]
  BY <1>3
<1>5. version' = version /\ version \in Nat
  BY DEF Crash, Shape, TypeOK
<1>6. \A j \in DOMAIN log' : \E k \in DOMAIN log : log'[j] = log[k]
  BY <1>4
<1> QED
  BY <1>2, <1>5, <1>6, DeletedByNoneRuns

\* The deletion itself: nothing is stored, and what runs has read before it.
LEMMA DeletedByClose ==
  ASSUME Shape, NEW h \in Handles, ActorClose(h), ClosesLast
  PROVE  ClosesLast'
<1>1. /\ log' = <<Empty>> /\ version' = version + 1 /\ version \in Nat /\ UNCHANGED run
      /\ closes' = Append(closes, [by |-> h, version |-> version + 1])
      /\ closes \in Seq([by : Handles, version : Nat])
  BY DEF ActorClose, Closed, Shape, TypeOK
<1>2. \A j \in DOMAIN log' : log'[j].state.applied = {}
  BY <1>1 DEF Empty, Fresh
<1>3. ASSUME NEW i \in DOMAIN closes' PROVE DeletedStays(closes[i].version)'
  <2>1. CASE i \in DOMAIN closes
    <3>1. closes'[i] = closes[i] /\ closes[i].version \in Nat /\ DeletedStays(closes[i].version)
      BY <1>1, <2>1, EntryStates DEF ClosesLast
    <3>2. NoneRuns
      BY <1>1 DEF NoneRuns
    <3>3. DeletedStays(closes[i].version)' <=> \A v \in {closes[i].version} : DeletedStays(v)'
      BY <3>1 DEF DeletedStays, KeptOnlyBy, Overlaps
    <3> QED
      BY <1>1, <1>2, <3>1, <3>2, <3>3, DeletedByNoneRuns
  <2>2. CASE i \notin DOMAIN closes
    <3>1. closes'[i].version = version + 1
      BY <1>1, <1>3, <2>2
    <3>2. \A t \in Runs : run'[t].readAt < version + 1
      BY <1>1 DEF Shape, TypeOK, RunRecords
    <3> QED
      BY <1>1, <1>2, <3>1, <3>2 DEF DeletedStays, KeptOnlyBy, Shape, TypeOK, RunRecords
  <2> QED
    BY <2>1, <2>2
<1> QED
  BY <1>3 DEF ClosesLast
LEMMA ClosesLastNext == ASSUME Shape, ClosesLast, [Next]_vars PROVE ClosesLast'
<1> SUFFICES ASSUME ~ \E h \in Handles : ActorClose(h)
             PROVE  ClosesLast'
  BY DeletedByClose
<1>1. UNCHANGED closes
  BY EventsLast DEF Crash
<1> SUFFICES ASSUME NEW v \in Nat, DeletedStays(v)
             PROVE  DeletedStays(v)'
  <2> SUFFICES ASSUME NEW i \in DOMAIN closes PROVE DeletedStays(closes[i].version)'
    BY <1>1 DEF ClosesLast
  <2>1. closes[i].version \in Nat /\ DeletedStays(closes[i].version)
    BY EntryStates DEF ClosesLast
  <2>2. DeletedStays(closes[i].version)' <=> \A v \in {closes[i].version} : DeletedStays(v)'
    BY <1>1 DEF DeletedStays, KeptOnlyBy, Overlaps
  <2> QED
    BY <2>1, <2>2
<1>2. CASE NoneRuns /\ UNCHANGED <<log, version>>
  <2>1. version' >= version /\ version' \in Nat
    BY <1>2 DEF Shape, TypeOK
  <2>2. \A j \in DOMAIN log' : \E i \in DOMAIN log : log'[j] = log[i]
    BY <1>2
  <2> QED
    BY <1>2, <2>1, <2>2, DeletedByNoneRuns
<1>3. CASE \E s \in Submits : Requests(s)
  BY <1>2, <1>3, RequestsRunNothing
<1>4. CASE \E s \in Submits : ActorEnsureInitialized(s)
  BY <1>4, DeletedBySeeds
<1>5. CASE \E h \in Handles : Close(h) \/ CloseReturns(h) \/ CloseFails(h)
  BY <1>2, <1>5, CloserRunsNothing
<1>6. CASE \E r \in Runs : ActorSubmitReads(r)
  BY <1>6, DeletedByRead
<1>7. CASE \E r \in Runs : ActorSubmitWrites(r)
  BY <1>7, DeletedByWrite
<1>8. CASE \E r \in Runs : ActorSubmitThrows(r)
  BY <1>2, <1>8, ThrowRunsNothing
<1>9. CASE Crash
  BY <1>9, DeletedByCrash
<1>10. CASE UNCHANGED vars
  BY <1>2, <1>10 DEF vars, object, NoneRuns
<1> QED
  BY <1>3, <1>4, <1>5, <1>6, <1>7, <1>8, <1>9, <1>10 DEF Next, Requests

\* What close deleted comes back only through a run that was under way then,
\* for every number of handles, submits, closes and crashes (coordinator.ts
\* actorClose).
THEOREM ClosedStays == Spec => []ClosedStateStaysClosed
<1>1. Init => Shape /\ ClosesLast
  BY ShapeInit DEF Init, ClosesLast
<1>2. Shape /\ ClosesLast /\ [Next]_vars => (Shape /\ ClosesLast)'
  BY ShapeNext, ClosesLastNext
<1>3. Shape /\ ClosesLast => ClosedStateStaysClosed
  BY EntryStates DEF ClosesLast, DeletedStays, KeptOnlyBy, ClosedStateStaysClosed
<1> QED
  BY <1>1, <1>2, <1>3, PTL DEF Spec
-----------------------------------------------------------------------------
(* Updates that are lost without a crash or a close.                        *)

Quiet == crashes = 0 /\ closes = <<>>

Untouched ==
  /\ \A h \in Handles : ~ known[h]
  /\ \A s \in Submits : at[s] \in {"idle", "ensuring", "done"}
  /\ \A r \in Runs : run[r].at = "none" /\ run[r].wroteAt = 0

\* What was written is in the state, or a run wrote over it that had not
\* seen it.
KeptOrOverlapped(state) ==
  \A r \in Runs : run[r].wroteAt > 0 =>
    r \in state.applied \/ \E t \in Runs : Overlaps(t, run[r].wroteAt)

\* So it is for a run, as far as it was written before the run read.
SeenOrOverlapped(t) ==
  \A r \in Runs : run[r].wroteAt > 0 =>
    \/ r \in run[t].read.applied
    \/ run[t].readAt < run[r].wroteAt
    \/ \E u \in Runs : Overlaps(u, run[r].wroteAt)

UpdatesLast ==
  Quiet =>
    /\ Stored.flag \/ Untouched
    /\ KeptOrOverlapped(Stored.state)
    /\ \A t \in Runs : run[t].at = "running" => SeenOrOverlapped(t)

LEMMA UntouchedRequests ==
  ASSUME Shape, Untouched,
         \/ \E s \in Submits : Requests(s)
         \/ \E h \in Handles : Close(h) \/ CloseReturns(h) \/ CloseFails(h)
         \/ UNCHANGED vars
  PROVE  Untouched'
<1>1. CASE \E s \in Submits : Requests(s)
  <2>1. PICK s \in Submits : Requests(s)
    BY <1>1
  <2>2. HandleOf[s] \in Handles /\ at[s] \in {"idle", "ensuring", "done"} /\ ~ known[HandleOf[s]]
    BY ActorAssumption DEF Untouched
  <2>3. Submit(s) \/ EnsureFails(s)
    BY <2>1, <2>2 DEF Requests, EnsureReturns, AnswerArrives, CallFails, BackoffEnds, TimeoutFires
  <2>4. UNCHANGED <<run, known>> /\ (at' = [at EXCEPT ![s] = "ensuring"] \/ at' = [at EXCEPT ![s] = "done"])
    BY <2>2, <2>3 DEF Submit, EnsureFails, Settle, object
  <2> QED
    BY <2>4 DEF Untouched, Shape, TypeOK
<1>2. CASE \E h \in Handles : Close(h) \/ CloseReturns(h) \/ CloseFails(h)
  BY <1>2 DEF Close, CloseReturns, CloseFails, object, client, Untouched, Shape, TypeOK
<1>3. CASE UNCHANGED vars
  BY <1>3 DEF vars, object, client, Untouched
<1> QED
  BY <1>1, <1>2, <1>3

LEMMA UpdatesByNoneRuns ==
  ASSUME Shape, KeptOrOverlapped(Stored.state), UNCHANGED log, NoneRuns,
         \A t \in Runs : run[t].at = "running" => SeenOrOverlapped(t)
  PROVE  /\ KeptOrOverlapped(Stored.state)'
         /\ \A t \in Runs : run'[t].at = "running" => SeenOrOverlapped(t)'
<1>1. \A r \in Runs : run'[r].wroteAt = run[r].wroteAt
  BY DEF NoneRuns
<1>2. \A r \in Runs : run[r].wroteAt \in Nat
  BY DEF Shape, TypeOK, RunRecords
<1>3. ASSUME NEW r \in Runs, NEW t \in Runs, Overlaps(t, run[r].wroteAt)
      PROVE  Overlaps(t, run[r].wroteAt)'
  <2>1. run[t].wroteAt # 0
    BY <1>2, <1>3 DEF Overlaps
  <2>2. run'[t] = run[t]
    BY <2>1 DEF NoneRuns
  <2> QED
    BY <1>1, <1>3, <2>2 DEF Overlaps
<1>4. KeptOrOverlapped(Stored.state)'
  <2> SUFFICES ASSUME NEW r \in Runs, run'[r].wroteAt > 0
               PROVE  r \in Stored'.state.applied \/ \E t \in Runs : Overlaps(t, run[r].wroteAt)'
    BY DEF KeptOrOverlapped
  <2>1. Stored' = Stored /\ run[r].wroteAt > 0
    BY <1>1 DEF Stored
  <2> QED
    BY <1>3, <2>1 DEF KeptOrOverlapped
<1>5. ASSUME NEW t \in Runs, run'[t].at = "running" PROVE SeenOrOverlapped(t)'
  <2> SUFFICES ASSUME NEW r \in Runs, run'[r].wroteAt > 0
               PROVE  \/ r \in run'[t].read.applied
                      \/ run'[t].readAt < run'[r].wroteAt
                      \/ \E u \in Runs : Overlaps(u, run[r].wroteAt)'
    BY DEF SeenOrOverlapped
  <2>1. run'[t] = run[t] /\ SeenOrOverlapped(t) /\ run[r].wroteAt > 0
    BY <1>1, <1>5 DEF NoneRuns
  <2> QED
    BY <1>1, <1>3, <2>1 DEF SeenOrOverlapped
<1> QED
  BY <1>4, <1>5
LEMMA UpdatesByWrite ==
  ASSUME Shape, NEW r \in Runs, ActorSubmitWrites(r),
         \A t \in Runs : run[t].at = "running" => SeenOrOverlapped(t)
  PROVE  /\ KeptOrOverlapped(Stored.state)'
         /\ \A t \in Runs : run'[t].at = "running" => SeenOrOverlapped(t)'
<1> DEFINE x == Wrote(run[r], version')
<1>1. /\ run[r].at = "running" /\ run' = [run EXCEPT ![r] = x]
      /\ version' = version + 1 /\ version \in Nat
      /\ x.wroteAt = version + 1 /\ x.readAt = run[r].readAt /\ x.at = "ok"
      /\ Stored'.state.applied = run[r].read.applied \cup {r}
  BY WriteStep DEF Wrote
<1> HIDE DEF x
<1>2. \A q \in Runs : run'[q] = IF q = r THEN x ELSE run[q]
  BY <1>1 DEF Shape, TypeOK
<1>3. run[r].wroteAt = 0
  BY <1>1 DEF Shape, OnlyOkWrote
<1>4. \A q \in Runs : /\ run[q].wroteAt \in Nat /\ run[q].readAt \in Nat
                       /\ run[q].wroteAt <= version /\ run[q].readAt <= version
  BY DEF Shape, TypeOK, RunRecords
<1>5. ASSUME NEW q \in Runs, NEW t \in Runs, q # r, Overlaps(t, run[q].wroteAt)
      PROVE  Overlaps(t, run[q].wroteAt)'
  <2>1. t # r
    BY <1>3, <1>4, <1>5 DEF Overlaps
  <2> QED
    BY <1>2, <1>5, <2>1 DEF Overlaps
<1>6. KeptOrOverlapped(Stored.state)'
  <2> SUFFICES ASSUME NEW q \in Runs, run'[q].wroteAt > 0, q # r
               PROVE  q \in Stored'.state.applied \/ \E t \in Runs : Overlaps(t, run[q].wroteAt)'
    BY <1>1 DEF KeptOrOverlapped
  <2>1. run'[q] = run[q] /\ run[q].wroteAt > 0 /\ SeenOrOverlapped(r)
    BY <1>1, <1>2
  <2>2. CASE q \in run[r].read.applied
    BY <1>1, <2>2
  <2>3. CASE run[r].readAt < run[q].wroteAt
    <3>1. run'[r].readAt < run'[q].wroteAt /\ run'[q].wroteAt < run'[r].wroteAt
      BY <1>1, <1>2, <1>4, <2>1, <2>3
    <3> QED
      BY <3>1 DEF Overlaps
  <2>4. CASE \E u \in Runs : Overlaps(u, run[q].wroteAt)
    BY <1>5, <2>4
  <2> QED
    BY <2>1, <2>2, <2>3, <2>4 DEF SeenOrOverlapped
<1>7. ASSUME NEW t \in Runs, run'[t].at = "running" PROVE SeenOrOverlapped(t)'
  <2>1. run'[t] = run[t] /\ SeenOrOverlapped(t)
    BY <1>1, <1>2, <1>7
  <2> SUFFICES ASSUME NEW q \in Runs, run'[q].wroteAt > 0
               PROVE  \/ q \in run'[t].read.applied
                      \/ run'[t].readAt < run'[q].wroteAt
                      \/ \E u \in Runs : Overlaps(u, run[q].wroteAt)'
    BY DEF SeenOrOverlapped
  <2>2. CASE q = r
    BY <1>1, <1>2, <1>4, <2>1, <2>2
  <2>3. CASE q # r
    BY <1>2, <1>5, <2>1, <2>3 DEF SeenOrOverlapped
  <2> QED
    BY <2>2, <2>3
<1> QED
  BY <1>6, <1>7

LEMMA UpdatesByRead ==
  ASSUME Shape, NEW r \in Runs, ActorSubmitReads(r), KeptOrOverlapped(Stored.state),
         \A t \in Runs : run[t].at = "running" => SeenOrOverlapped(t)
  PROVE  /\ KeptOrOverlapped(Stored.state)'
         /\ \A t \in Runs : run'[t].at = "running" => SeenOrOverlapped(t)'
<1> DEFINE x == Read(Stored.state, version)
<1>1. /\ run[r].at = "sent" /\ run' = [run EXCEPT ![r] = x]
      /\ x.read = Stored.state /\ x.wroteAt = 0
  BY ReadStep DEF Read
<1> HIDE DEF x
<1>2. \A q \in Runs : run'[q] = IF q = r THEN x ELSE run[q]
  BY <1>1 DEF Shape, TypeOK
<1>3. run[r].wroteAt = 0 /\ \A q \in Runs : run'[q].wroteAt = run[q].wroteAt /\ run[q].wroteAt \in Nat
  BY <1>1, <1>2 DEF Shape, OnlyOkWrote, TypeOK, RunRecords
<1>4. ASSUME NEW q \in Runs, NEW t \in Runs, Overlaps(t, run[q].wroteAt)
      PROVE  Overlaps(t, run[q].wroteAt)'
  <2>1. t # r
    BY <1>3, <1>4 DEF Overlaps
  <2> QED
    BY <1>2, <1>3, <1>4, <2>1 DEF Overlaps
<1>5. Stored' = Stored
  BY DEF ActorSubmitReads, Stored
<1>6. ASSUME NEW q \in Runs, run'[q].wroteAt > 0
      PROVE  q \in Stored.state.applied \/ \E t \in Runs : Overlaps(t, run[q].wroteAt)'
  BY <1>3, <1>4, <1>6 DEF KeptOrOverlapped
<1>7. KeptOrOverlapped(Stored.state)'
  BY <1>5, <1>6 DEF KeptOrOverlapped
<1>8. ASSUME NEW t \in Runs, run'[t].at = "running" PROVE SeenOrOverlapped(t)'
  <2> SUFFICES ASSUME NEW q \in Runs, run'[q].wroteAt > 0
               PROVE  \/ q \in run'[t].read.applied
                      \/ run'[t].readAt < run'[q].wroteAt
                      \/ \E u \in Runs : Overlaps(u, run[q].wroteAt)'
    BY DEF SeenOrOverlapped
  <2>1. CASE t = r
    BY <1>1, <1>2, <1>6, <2>1
  <2>2. CASE t # r
    <3>1. run'[t] = run[t] /\ SeenOrOverlapped(t)
      BY <1>2, <1>8, <2>2
    <3> QED
      BY <1>3, <1>4, <3>1 DEF SeenOrOverlapped
  <2> QED
    BY <2>1, <2>2
<1> QED
  BY <1>7, <1>8
LEMMA UpdatesBySeeds ==
  ASSUME Shape, NEW s \in Submits, ActorEnsureInitialized(s), UpdatesLast, Quiet
  PROVE  UpdatesLast'
<1>1. UNCHANGED run /\ NoneRuns
  BY DEF ActorEnsureInitialized, NoneRuns
<1>2. CASE Stored.flag
  <2>1. UNCHANGED log /\ Stored'.flag
    BY <1>2 DEF ActorEnsureInitialized, Stored
  <2> QED
    BY <1>1, <2>1, UpdatesByNoneRuns DEF UpdatesLast
<1>3. CASE ~ Stored.flag
  <2> DEFINE d == [Stored EXCEPT !.state = Seed(HandleOf[s])]
             e == [state |-> Seed(HandleOf[s]), flag |-> TRUE]
  <2>1. HandleOf[s] \in Handles
    BY ActorAssumption
  <2>2. d \in Entries /\ e \in Entries /\ e.flag
    BY <2>1, SeedTyped, EntryStates DEF Entries
  <2>3. log' = log \o <<d, e>>
    BY <1>3 DEF ActorEnsureInitialized, Seeding
  <2> HIDE DEF d, e
  <2>4. Stored' = e
    BY <2>2, <2>3, StoredAfter DEF Shape
  <2>5. \A r \in Runs : run'[r].at = "none" /\ run'[r].wroteAt = 0
    BY <1>1, <1>3 DEF UpdatesLast, Untouched
  <2> QED
    BY <2>2, <2>4, <2>5 DEF UpdatesLast, KeptOrOverlapped
<1> QED
  BY <1>2, <1>3

LEMMA UpdatesLastNext == ASSUME Shape, UpdatesLast, [Next]_vars PROVE UpdatesLast'
<1>1. CASE Crash
  <2>1. crashes' = crashes + 1 /\ crashes \in Nat
    BY <1>1 DEF Crash, Shape, TypeOK
  <2> QED
    BY <2>1 DEF UpdatesLast, Quiet
<1>2. CASE \E h \in Handles : ActorClose(h)
  <2>1. PICK h \in Handles : closes' = Append(closes, [by |-> h, version |-> version'])
    BY <1>2 DEF ActorClose
  <2>2. closes' # <<>>
    <3>1. closes \in Seq([by : Handles, version : Nat])
      BY DEF Shape, TypeOK
    <3>2. Len(closes') = Len(closes) + 1 /\ Len(closes) \in Nat
      BY <2>1, <3>1
    <3> QED
      BY <3>2
  <2> QED
    BY <2>2 DEF UpdatesLast, Quiet
<1>3. CASE UNCHANGED <<crashes, closes>> /\ ~ Crash /\ ~ \E h \in Handles : ActorClose(h)
  <2> SUFFICES ASSUME Quiet PROVE UpdatesLast'
    BY <1>3 DEF UpdatesLast, Quiet
  <2>0. /\ Stored.flag \/ Untouched
        /\ KeptOrOverlapped(Stored.state)
        /\ \A t \in Runs : run[t].at = "running" => SeenOrOverlapped(t)
    BY DEF UpdatesLast
  <2>1. CASE \/ \E s \in Submits : Requests(s)
             \/ \E h \in Handles : Close(h) \/ CloseReturns(h) \/ CloseFails(h)
             \/ UNCHANGED vars
    <3>1. NoneRuns /\ UNCHANGED log
      BY <2>1, RequestsRunNothing, CloserRunsNothing DEF vars, object, NoneRuns
    <3>2. Stored'.flag \/ Untouched'
      BY <2>0, <2>1, <3>1, UntouchedRequests DEF Stored
    <3> QED
      BY <2>0, <3>1, <3>2, UpdatesByNoneRuns DEF UpdatesLast
  <2>2. CASE \E s \in Submits : ActorEnsureInitialized(s)
    BY <2>2, UpdatesBySeeds
  <2>3. CASE \E r \in Runs : ActorSubmitReads(r)
    <3>1. Stored.flag
      BY <2>0, <2>3 DEF ActorSubmitReads, Untouched
    <3>2. Stored' = Stored
      BY <2>3 DEF ActorSubmitReads, Stored
    <3> QED
      BY <2>0, <2>3, <3>1, <3>2, UpdatesByRead DEF UpdatesLast
  <2>4. CASE \E r \in Runs : ActorSubmitWrites(r)
    <3>1. Stored.flag
      BY <2>0, <2>4 DEF ActorSubmitWrites, Untouched
    <3>2. Stored'.flag
      BY <2>4, <3>1, WriteStep
    <3> QED
      BY <2>0, <2>4, <3>2, UpdatesByWrite DEF UpdatesLast
  <2>5. CASE \E r \in Runs : ActorSubmitThrows(r)
    <3>1. Stored.flag
      BY <2>0, <2>5 DEF ActorSubmitThrows, Untouched
    <3>2. NoneRuns /\ UNCHANGED log
      BY <2>5, ThrowRunsNothing
    <3> QED
      BY <2>0, <3>1, <3>2, UpdatesByNoneRuns DEF UpdatesLast, Stored
  <2> QED
    BY <1>3, <2>1, <2>2, <2>3, <2>4, <2>5 DEF Next, Requests
<1> QED
  BY <1>1, <1>2, <1>3, EventsLast

\* Without a crash or a close, a change that was written is lost only to a run
\* that read before it and wrote after it, for every number of handles, submits
\* and retries (coordinator.ts actorEnsureInitialized, actorSubmit).
THEOREM OnlyOverlapsLose == Spec => []UpdatesLostOnlyToOverlap
<1>1. Init => Shape /\ UpdatesLast
  <2> SUFFICES ASSUME Init PROVE Shape /\ UpdatesLast
    OBVIOUS
  <2>1. \A r \in Runs : run[r].at = "none" /\ run[r].wroteAt = 0
    BY DEF Init, NotRun
  <2>2. Untouched
    BY <2>1 DEF Init, Untouched
  <2> QED
    BY <2>1, <2>2, ShapeInit DEF UpdatesLast, KeptOrOverlapped
<1>2. Shape /\ UpdatesLast /\ [Next]_vars => (Shape /\ UpdatesLast)'
  BY ShapeNext, UpdatesLastNext
<1>3. Shape /\ UpdatesLast => UpdatesLostOnlyToOverlap
  BY DEF UpdatesLast, Quiet, KeptOrOverlapped, UpdatesLostOnlyToOverlap
<1> QED
  BY <1>1, <1>2, <1>3, PTL DEF Spec
-----------------------------------------------------------------------------
(* The flag follows the state it stands for.                                *)

\* What a step adds to the log.
LEMMA LogGrows ==
  ASSUME Shape, [Next]_vars
  PROVE  \/ UNCHANGED log
         \/ \E e \in Entries : log' = <<e>>
         \/ \E e \in Entries : log' = Append(log, e) /\ e.flag = Stored.flag
         \/ \E h \in Handles : ~ Stored.flag /\ log' = log \o Seeding(h)
<1>1. CASE \E s \in Submits : Requests(s)
  BY <1>1, RequestsRunNothing
<1>2. CASE \E s \in Submits : ActorEnsureInitialized(s)
  BY <1>2, ActorAssumption DEF ActorEnsureInitialized
<1>3. CASE \E h \in Handles : Close(h) \/ CloseReturns(h) \/ CloseFails(h)
  BY <1>3, CloserRunsNothing
<1>4. CASE \E h \in Handles : ActorClose(h)
  BY <1>4, FreshTyped DEF ActorClose, Closed
<1>5. CASE \E r \in Runs : ActorSubmitReads(r) \/ ActorSubmitThrows(r)
  BY <1>5 DEF ActorSubmitReads, ActorSubmitThrows
<1>6. CASE \E r \in Runs : ActorSubmitWrites(r)
  <2>1. PICK r \in Runs : ActorSubmitWrites(r)
    BY <1>6
  <2> DEFINE e == [Stored EXCEPT !.state = Applied(run[r].read, r)]
  <2>2. run[r].read \in States /\ Stored \in Entries
    BY EntryStates
  <2>3. e \in Entries /\ e.flag = Stored.flag
    BY <2>2 DEF Applied, States, Entries
  <2>4. log' = Append(log, e)
    BY <2>1 DEF ActorSubmitWrites
  <2> QED
    BY <2>3, <2>4
<1>7. CASE Crash
  BY <1>7, CrashStep
<1>8. CASE UNCHANGED vars
  BY <1>8 DEF vars, object
<1> QED
  BY <1>1, <1>2, <1>3, <1>4, <1>5, <1>6, <1>7, <1>8 DEF Next, Requests

LEMMA FlagFollowsNext == ASSUME Shape, FlagFollowsSeed, [Next]_vars PROVE FlagFollowsSeed'
<1>0. log \in Seq(Entries) /\ Len(log) \in Nat /\ Stored = log[Len(log)] /\ Len(log) \in DOMAIN log
  BY EntryStates DEF Shape, TypeOK, Entries
<1>1. CASE UNCHANGED log
  BY <1>1 DEF FlagFollowsSeed
<1>2. CASE \E e \in Entries : log' = <<e>>
  <2>1. DOMAIN log' = {1}
    BY <1>2
  <2> QED
    BY <2>1 DEF FlagFollowsSeed
<1>3. CASE \E e \in Entries : log' = Append(log, e) /\ e.flag = Stored.flag
  <2>1. PICK e \in Entries : log' = Append(log, e) /\ e.flag = Stored.flag
    BY <1>3
  <2> SUFFICES ASSUME NEW i \in DOMAIN log' \ {1}, log'[i].flag, ~ log'[i - 1].flag
               PROVE  log'[i].state.seed # "none"
    BY DEF FlagFollowsSeed
  <2>2. i \in 2 .. (Len(log) + 1)
    BY <1>0, <2>1
  <2>3. CASE i \in 2 .. Len(log)
    <3>1. log'[i] = log[i] /\ log'[i - 1] = log[i - 1] /\ i \in DOMAIN log \ {1}
      BY <1>0, <2>1, <2>3
    <3> QED
      BY <3>1 DEF FlagFollowsSeed
  <2>4. CASE i = Len(log) + 1
    <3>1. log'[i] = e /\ log'[i - 1] = log[Len(log)]
      BY <1>0, <2>1, <2>2, <2>4
    <3> QED
      BY <1>0, <2>1, <3>1
  <2> QED
    BY <1>0, <2>2, <2>3, <2>4
<1>4. CASE \E h \in Handles : ~ Stored.flag /\ log' = log \o Seeding(h)
  <2>1. PICK h \in Handles : ~ Stored.flag /\ log' = log \o Seeding(h)
    BY <1>4
  <2> DEFINE d == [Stored EXCEPT !.state = Seed(h)]
             e == [state |-> Seed(h), flag |-> TRUE]
  <2>2. d \in Entries /\ e \in Entries /\ ~ d.flag /\ e.state.seed # "none"
    BY <2>1, ActorAssumption, SeedTyped, StoredTyped DEF Shape, Entries, Seed
  <2>3. log' = log \o <<d, e>>
    BY <2>1 DEF Seeding
  <2> HIDE DEF d, e
  <2>4. /\ <<d, e>> \in Seq(Entries) /\ Len(<<d, e>>) = 2
        /\ <<d, e>>[1] = d /\ <<d, e>>[2] = e
    BY <2>2
  <2> SUFFICES ASSUME NEW i \in DOMAIN log' \ {1}, log'[i].flag, ~ log'[i - 1].flag
               PROVE  log'[i].state.seed # "none"
    BY DEF FlagFollowsSeed
  <2>5. i \in 2 .. (Len(log) + 2)
    BY <1>0, <2>3, <2>4
  <2>6. CASE i \in 2 .. Len(log)
    <3>1. log'[i] = log[i] /\ log'[i - 1] = log[i - 1] /\ i \in DOMAIN log \ {1}
      BY <1>0, <2>3, <2>4, <2>6
    <3> QED
      BY <3>1 DEF FlagFollowsSeed
  <2>7. CASE i = Len(log) + 1
    <3>1. log'[i] = d
      BY <1>0, <2>3, <2>4, <2>7
    <3> QED
      BY <2>2, <3>1
  <2>8. CASE i = Len(log) + 2
    <3>1. log'[i] = e
      BY <1>0, <2>3, <2>4, <2>8
    <3> QED
      BY <2>2, <3>1
  <2> QED
    BY <1>0, <2>5, <2>6, <2>7, <2>8
<1> QED
  BY <1>1, <1>2, <1>3, <1>4, LogGrows

\* Wherever a crash cuts the unconfirmed writes off, no disk is marked as
\* initialized before it has a seeded state, for every number of handles,
\* submits, closes and crashes (coordinator.ts actorEnsureInitialized).
THEOREM SeedBeforeFlag == Spec => []FlagFollowsSeed
<1>1. Init => Shape /\ FlagFollowsSeed
  BY ShapeInit DEF Init, FlagFollowsSeed
<1>2. Shape /\ FlagFollowsSeed /\ [Next]_vars => (Shape /\ FlagFollowsSeed)'
  BY ShapeNext, FlagFollowsNext
<1> QED
  BY <1>1, <1>2, PTL DEF Spec
-----------------------------------------------------------------------------
(* What a submit is told of its run.                                        *)

AllOk(state) == \A r \in state.applied : run[r].at = "ok"

\* Only runs that ended well have changed a state, and a submit that has been
\* answered has its own run's answer.
AnswersLast ==
  /\ \A i \in DOMAIN log : AllOk(log[i].state)
  /\ \A t \in Runs : run[t].at = "running" => AllOk(run[t].read)
  /\ \A r \in Runs : run[r].at = "ok" => run[r].wroteAt > 0
  /\ \A s \in Submits : outcome[s] \in {"ok", "thrown"} =>
       at[s] = "done" /\ run[Current(s)].at = outcome[s]

\* A run that ended is not touched again.
EndedStay == \A r \in Runs : run[r].at \in {"ok", "thrown"} => run'[r] = run[r]

\* Nothing starts to run and nothing ends well.
NothingNew ==
  \A r \in Runs : run'[r] = run[r] \/ run'[r].at \notin {"running", "ok"}

LEMMA RequestsEndNothing ==
  ASSUME Shape, NEW s \in Submits, Requests(s)
  PROVE  EndedStay /\ NothingNew
<1>0. Retries[s] \in Nat /\ attempt[s] \in Nat
  BY ActorAssumption DEF Shape, TypeOK
<1>1. CASE UNCHANGED run
  BY <1>1 DEF EndedStay, NothingNew
<1>2. CASE NothingDone
  BY <1>2 DEF NothingDone, EndedStay, NothingNew
<1>3. CASE Submit(s) /\ ~ UNCHANGED run
  <2>1. Send(s, 0) /\ at[s] = "idle" /\ 0 \in 0 .. Retries[s]
    BY <1>0, <1>3 DEF Submit
  <2> QED
    BY <1>2, <2>1, SendShape
<1>4. CASE EnsureReturns(s)
  <2>1. Send(s, 0) /\ at[s] = "ensured" /\ 0 \in 0 .. Retries[s]
    BY <1>0, <1>4 DEF EnsureReturns
  <2> QED
    BY <1>2, <2>1, SendShape
<1>5. CASE BackoffEnds(s)
  <2>1. /\ Send(s, attempt[s] + 1) /\ at[s] = "backoff"
        /\ attempt[s] + 1 \in 0 .. Retries[s] /\ attempt[s] + 1 > attempt[s]
    BY <1>0, <1>5 DEF BackoffEnds, RetriesLeft, Shape
  <2> QED
    BY <1>2, <2>1, SendShape
<1>6. CASE CallFails(s) /\ ~ UNCHANGED run
  <2>1. Current(s) \in Runs
    BY RunsAre, ActorAssumption DEF Current, Shape, TypeOK
  <2>2. run[Current(s)].at = "sent" /\ run' = [run EXCEPT ![Current(s)].at = "dead"]
    BY <1>6 DEF CallFails
  <2>3. (\A q \in Runs : q # Current(s) => run'[q] = run[q]) /\ run'[Current(s)].at = "dead"
    BY <2>1, <2>2, MarkedDead
  <2> QED
    BY <2>2, <2>3 DEF EndedStay, NothingNew
<1> QED
  BY <1>1, <1>3, <1>4, <1>5, <1>6
     DEF Requests, EnsureFails, AnswerArrives, TimeoutFires, object

\* The outcome of a submit, as requests and answers set it.
LEMMA OutcomesLast ==
  ASSUME Shape, AnswersLast, [Next]_vars, EndedStay
  PROVE  \A s \in Submits : outcome'[s] \in {"ok", "thrown"} =>
           at'[s] = "done" /\ run'[Current(s)'].at = outcome'[s]
<1> SUFFICES ASSUME NEW s \in Submits, outcome'[s] \in {"ok", "thrown"}
             PROVE  at'[s] = "done" /\ run'[<<s, attempt'[s]>>].at = outcome'[s]
  BY DEF Current
<1>0. /\ at \in [Submits -> {"idle", "ensuring", "ensured", "racing", "backoff", "done"}]
      /\ attempt \in [Submits -> Nat] /\ outcome \in [Submits -> {"none", "ok", "thrown", "failed", "timeout"}]
      /\ <<s, attempt[s]>> \in Runs
  BY RunsAre, ActorAssumption DEF Shape, TypeOK
<1>1. CASE outcome'[s] = outcome[s]
  <2>1. at[s] = "done" /\ run[<<s, attempt[s]>>].at = outcome[s]
    BY <1>1 DEF AnswersLast, Current
  <2>2. run'[<<s, attempt[s]>>] = run[<<s, attempt[s]>>]
    BY <1>0, <1>1, <2>1 DEF EndedStay
  <2>3. at'[s] = at[s] /\ attempt'[s] = attempt[s]
    <3>1. CASE \E q \in Submits : Requests(q)
      BY <1>0, <2>1, <3>1
         DEF Requests, Submit, EnsureReturns, EnsureFails, AnswerArrives, CallFails, BackoffEnds,
             TimeoutFires, Send, Settle
    <3>2. CASE \E q \in Submits : ActorEnsureInitialized(q)
      BY <1>0, <2>1, <3>2 DEF ActorEnsureInitialized
    <3>3. CASE UNCHANGED client
      BY <3>3 DEF client
    <3>4. CASE \E h \in Handles : CloseReturns(h)
      BY <3>4 DEF CloseReturns
    <3> QED
      BY <3>1, <3>2, <3>3, <3>4
         DEF Next, Requests, Close, CloseFails, ActorClose, ActorSubmitReads, ActorSubmitWrites,
             ActorSubmitThrows, Crash, vars
  <2> QED
    BY <1>1, <2>1, <2>2, <2>3
<1>2. CASE outcome'[s] # outcome[s]
  <2>1. PICK q \in Submits : EnsureFails(q) \/ AnswerArrives(q) \/ CallFails(q) \/ TimeoutFires(q)
    BY <1>2 DEF Next, Submit, EnsureReturns, BackoffEnds, ActorEnsureInitialized, Close, CloseReturns,
         CloseFails, ActorClose, ActorSubmitReads, ActorSubmitWrites, ActorSubmitThrows, Crash,
         client, vars
  <2>2. CASE AnswerArrives(q)
    BY <1>0, <1>2, <2>2 DEF AnswerArrives, Settle, Current, object
  <2>3. CASE EnsureFails(q) \/ CallFails(q) \/ TimeoutFires(q)
    BY <1>0, <1>2, <2>3 DEF EnsureFails, CallFails, TimeoutFires, Settle
  <2> QED
    BY <2>1, <2>2, <2>3
<1> QED
  BY <1>1, <1>2

LEMMA AllOkStays ==
  ASSUME EndedStay, NEW state \in States, AllOk(state)
  PROVE  \A r \in state.applied : run'[r].at = "ok"
<1>1. \A r \in state.applied : r \in Runs
  BY DEF States
<1> QED
  BY <1>1 DEF AllOk, EndedStay

\* Steps after which every entry is an old one or has nothing applied.
LEMMA AnswersByNothingNew ==
  ASSUME Shape, AnswersLast, EndedStay, NothingNew,
         \A j \in DOMAIN log' : log'[j].state.applied = {} \/ \E i \in DOMAIN log : log'[j] = log[i]
  PROVE  /\ \A j \in DOMAIN log' : \A r \in log'[j].state.applied : run'[r].at = "ok"
         /\ \A t \in Runs : run'[t].at = "running" => \A r \in run'[t].read.applied : run'[r].at = "ok"
         /\ \A r \in Runs : run'[r].at = "ok" => run'[r].wroteAt > 0
<1>1. ASSUME NEW j \in DOMAIN log' PROVE \A r \in log'[j].state.applied : run'[r].at = "ok"
  <2>1. CASE log'[j].state.applied = {}
    BY <2>1
  <2>2. CASE \E i \in DOMAIN log : log'[j] = log[i]
    <3>1. PICK i \in DOMAIN log : log'[j] = log[i]
      BY <2>2
    <3>2. log[i].state \in States /\ AllOk(log[i].state)
      BY EntryStates DEF AnswersLast
    <3> QED
      BY <3>1, <3>2, AllOkStays
  <2> QED
    BY <1>1, <2>1, <2>2
<1>2. ASSUME NEW t \in Runs, run'[t].at = "running" PROVE \A r \in run'[t].read.applied : run'[r].at = "ok"
  <2>1. run'[t] = run[t] /\ run[t].read \in States /\ AllOk(run[t].read)
    BY <1>2, EntryStates DEF NothingNew, AnswersLast
  <2> QED
    BY <2>1, AllOkStays
<1>3. \A r \in Runs : run'[r].at = "ok" => run'[r].wroteAt > 0
  BY DEF NothingNew, AnswersLast
<1> QED
  BY <1>1, <1>2, <1>3

LEMMA AnswersByRead ==
  ASSUME Shape, AnswersLast, NEW r \in Runs, ActorSubmitReads(r)
  PROVE  /\ EndedStay
         /\ \A j \in DOMAIN log' : \A q \in log'[j].state.applied : run'[q].at = "ok"
         /\ \A t \in Runs : run'[t].at = "running" => \A q \in run'[t].read.applied : run'[q].at = "ok"
         /\ \A q \in Runs : run'[q].at = "ok" => run'[q].wroteAt > 0
<1> DEFINE x == Read(Stored.state, version)
<1>1. /\ run[r].at = "sent" /\ run' = [run EXCEPT ![r] = x]
      /\ x.read = Stored.state /\ x.at = "running"
  BY ReadStep DEF Read
<1> HIDE DEF x
<1>2. \A q \in Runs : run'[q] = IF q = r THEN x ELSE run[q]
  BY <1>1 DEF Shape, TypeOK
<1>3. EndedStay /\ UNCHANGED log
  BY <1>1, <1>2 DEF EndedStay, ActorSubmitReads
<1>4. ASSUME NEW j \in DOMAIN log' PROVE \A q \in log'[j].state.applied : run'[q].at = "ok"
  <2>1. log[j].state \in States /\ AllOk(log[j].state) /\ log'[j] = log[j]
    BY <1>3, <1>4, EntryStates DEF AnswersLast
  <2> QED
    BY <1>3, <2>1, AllOkStays
<1>5. ASSUME NEW t \in Runs, run'[t].at = "running"
      PROVE  \A q \in run'[t].read.applied : run'[q].at = "ok"
  <2>1. run'[t].read \in States /\ AllOk(run'[t].read)
    BY <1>1, <1>2, <1>5, EntryStates DEF AnswersLast
  <2> QED
    BY <1>3, <2>1, AllOkStays
<1>6. \A q \in Runs : run'[q].at = "ok" => run'[q].wroteAt > 0
  BY <1>1, <1>2 DEF AnswersLast
<1> QED
  BY <1>3, <1>4, <1>5, <1>6

LEMMA AnswersByWrite ==
  ASSUME Shape, AnswersLast, NEW r \in Runs, ActorSubmitWrites(r)
  PROVE  /\ EndedStay
         /\ \A j \in DOMAIN log' : \A q \in log'[j].state.applied : run'[q].at = "ok"
         /\ \A t \in Runs : run'[t].at = "running" => \A q \in run'[t].read.applied : run'[q].at = "ok"
         /\ \A q \in Runs : run'[q].at = "ok" => run'[q].wroteAt > 0
<1> DEFINE x == Wrote(run[r], version')
           e == [Stored EXCEPT !.state = Applied(run[r].read, r)]
<1>1. /\ run[r].at = "running" /\ run' = [run EXCEPT ![r] = x]
      /\ x.wroteAt = version + 1 /\ version \in Nat /\ x.at = "ok"
  BY WriteStep DEF Wrote
<1>2. log' = Append(log, e) /\ log \in Seq(Entries) /\ e.state.applied = run[r].read.applied \cup {r}
  <2>1. run[r].read \in States /\ Stored \in Entries
    BY EntryStates
  <2>2. Applied(run[r].read, r).applied = run[r].read.applied \cup {r}
    BY <2>1 DEF Applied, States
  <2> QED
    BY <2>1, <2>2 DEF ActorSubmitWrites, Shape, TypeOK, Entries
<1> HIDE DEF x, e
<1>3. \A q \in Runs : run'[q] = IF q = r THEN x ELSE run[q]
  BY <1>1 DEF Shape, TypeOK
<1>4. EndedStay
  BY <1>1, <1>3 DEF EndedStay
<1>5. \A q \in run[r].read.applied : run'[q].at = "ok"
  <2>1. run[r].read \in States /\ AllOk(run[r].read)
    BY <1>1, EntryStates DEF AnswersLast
  <2> QED
    BY <1>4, <2>1, AllOkStays
<1>6. ASSUME NEW j \in DOMAIN log' PROVE \A q \in log'[j].state.applied : run'[q].at = "ok"
  <2>1. CASE j \in DOMAIN log
    <3>1. log'[j] = log[j] /\ log[j].state \in States /\ AllOk(log[j].state)
      BY <1>2, <2>1, EntryStates DEF AnswersLast
    <3> QED
      BY <1>4, <3>1, AllOkStays
  <2>2. CASE j \notin DOMAIN log
    <3>1. log'[j] = e
      BY <1>2, <1>6, <2>2
    <3>2. run'[r].at = "ok"
      BY <1>1, <1>3
    <3> QED
      BY <1>2, <1>5, <3>1, <3>2
  <2> QED
    BY <2>1, <2>2
<1>7. ASSUME NEW t \in Runs, run'[t].at = "running"
      PROVE  \A q \in run'[t].read.applied : run'[q].at = "ok"
  <2>1. run'[t] = run[t] /\ run[t].read \in States /\ AllOk(run[t].read)
    BY <1>1, <1>3, <1>7, EntryStates DEF AnswersLast
  <2> QED
    BY <1>4, <2>1, AllOkStays
<1>8. \A q \in Runs : run'[q].at = "ok" => run'[q].wroteAt > 0
  BY <1>1, <1>3 DEF AnswersLast
<1> QED
  BY <1>4, <1>6, <1>7, <1>8

\* Steps of the object that end nothing well.
LEMMA ObjectEndsNothing ==
  ASSUME Shape,
         \/ \E s \in Submits : ActorEnsureInitialized(s)
         \/ \E h \in Handles : Close(h) \/ CloseReturns(h) \/ CloseFails(h) \/ ActorClose(h)
         \/ \E r \in Runs : ActorSubmitThrows(r)
         \/ Crash \/ UNCHANGED vars
  PROVE  EndedStay /\ NothingNew
<1>1. CASE UNCHANGED run
  BY <1>1 DEF EndedStay, NothingNew
<1>2. CASE \E r \in Runs : ActorSubmitThrows(r)
  <2>1. PICK r \in Runs : run[r].at = "running" /\ run' = [run EXCEPT ![r] = Ended("thrown")]
    BY <1>2, ThrowStep
  <2>2. \A q \in Runs : run'[q] = IF q = r THEN Ended("thrown") ELSE run[q]
    BY <2>1 DEF Shape, TypeOK
  <2> QED
    BY <2>1, <2>2 DEF EndedStay, NothingNew, Ended
<1>3. CASE Crash
  <2>1. \A r \in Runs : run'[r] = IF run[r].at = "running" THEN Ended("dead") ELSE run[r]
    BY <1>3, CrashStep
  <2> QED
    BY <2>1 DEF EndedStay, NothingNew, Ended
<1>4. CASE \E h \in Handles : Close(h) \/ CloseReturns(h) \/ CloseFails(h) \/ ActorClose(h)
  BY <1>1, <1>4 DEF Close, CloseReturns, CloseFails, ActorClose, object
<1>5. CASE \E s \in Submits : ActorEnsureInitialized(s)
  BY <1>1, <1>5 DEF ActorEnsureInitialized
<1>6. CASE UNCHANGED vars
  BY <1>1, <1>6 DEF vars, object
<1> QED
  BY <1>2, <1>3, <1>4, <1>5, <1>6

\* What is stored after a step that writes no run's changes.
LEMMA OldOrEmpty ==
  ASSUME Shape, [Next]_vars, ~ \E r \in Runs : ActorSubmitWrites(r)
  PROVE  \A j \in DOMAIN log' : log'[j].state.applied = {} \/ \E i \in DOMAIN log : log'[j] = log[i]
<1>1. CASE UNCHANGED log
  BY <1>1
<1>2. CASE \E s \in Submits : ActorEnsureInitialized(s) /\ ~ UNCHANGED log
  <2>1. PICK s \in Submits : ActorEnsureInitialized(s) /\ ~ UNCHANGED log
    BY <1>2
  <2> DEFINE d == [Stored EXCEPT !.state = Seed(HandleOf[s])]
             e == [state |-> Seed(HandleOf[s]), flag |-> TRUE]
  <2>2. HandleOf[s] \in Handles
    BY ActorAssumption
  <2>3. /\ d \in Entries /\ e \in Entries
        /\ d.state.applied = {} /\ e.state.applied = {}
    BY <2>2, SeedTyped, EntryStates DEF Entries, Seed
  <2>4. log' = log \o <<d, e>> /\ log \in Seq(Entries)
    BY <2>1 DEF ActorEnsureInitialized, Seeding, Shape, TypeOK, Entries
  <2> HIDE DEF d, e
  <2> SUFFICES ASSUME NEW j \in DOMAIN log'
               PROVE  log'[j].state.applied = {} \/ \E i \in DOMAIN log : log'[j] = log[i]
    OBVIOUS
  <2>5. /\ <<d, e>> \in Seq(Entries) /\ Len(<<d, e>>) = 2
        /\ <<d, e>>[1] = d /\ <<d, e>>[2] = e
    BY <2>3
  <2>6. j \in 1 .. (Len(log) + 2) /\ Len(log) \in Nat
    BY <2>4, <2>5
  <2>7. CASE j <= Len(log)
    BY <2>4, <2>5, <2>6, <2>7
  <2>8. CASE j = Len(log) + 1
    <3>1. log'[j] = d
      BY <2>4, <2>5, <2>6, <2>8
    <3> QED
      BY <2>3, <3>1
  <2>9. CASE j = Len(log) + 2
    <3>1. log'[j] = e
      BY <2>4, <2>5, <2>6, <2>9
    <3> QED
      BY <2>3, <3>1
  <2> QED
    BY <2>6, <2>7, <2>8, <2>9
<1>3. CASE \E h \in Handles : ActorClose(h)
  <2>1. log' = <<Empty>> /\ Empty.state.applied = {}
    BY <1>3 DEF ActorClose, Closed, Empty, Fresh
  <2> QED
    BY <2>1
<1>4. CASE Crash
  <2>1. PICK i \in DOMAIN log : log' = <<log[i]>>
    BY <1>4 DEF Crash
  <2> QED
    BY <2>1
<1>5. CASE \E s \in Submits : Requests(s)
  BY <1>1, <1>5, RequestsRunNothing
<1>6. CASE \E h \in Handles : Close(h) \/ CloseReturns(h) \/ CloseFails(h)
  BY <1>1, <1>6, CloserRunsNothing
<1>7. CASE \E r \in Runs : ActorSubmitReads(r) \/ ActorSubmitThrows(r)
  BY <1>1, <1>7 DEF ActorSubmitReads, ActorSubmitThrows
<1>8. CASE UNCHANGED vars
  BY <1>1, <1>8 DEF vars, object
<1> QED
  BY <1>1, <1>2, <1>3, <1>4, <1>5, <1>6, <1>7, <1>8 DEF Next, Requests

LEMMA AnswersLastNext == ASSUME Shape, AnswersLast, [Next]_vars PROVE AnswersLast'
<1> DEFINE RunsKept ==
             /\ \A j \in DOMAIN log' : \A r \in log'[j].state.applied : run'[r].at = "ok"
             /\ \A t \in Runs : run'[t].at = "running" =>
                  \A r \in run'[t].read.applied : run'[r].at = "ok"
             /\ \A r \in Runs : run'[r].at = "ok" => run'[r].wroteAt > 0
<1>1. ASSUME EndedStay, NothingNew, ~ \E r \in Runs : ActorSubmitWrites(r)
      PROVE  RunsKept
  <2>1. \A j \in DOMAIN log' : log'[j].state.applied = {} \/ \E i \in DOMAIN log : log'[j] = log[i]
    BY <1>1, OldOrEmpty
  <2> QED
    BY <1>1, <2>1, AnswersByNothingNew
<1>2. EndedStay /\ RunsKept
  <2>1. CASE \E r \in Runs : ActorSubmitReads(r)
    BY <2>1, AnswersByRead
  <2>2. CASE \E r \in Runs : ActorSubmitWrites(r)
    BY <2>2, AnswersByWrite
  <2> HIDE DEF RunsKept
  <2>3. CASE (\E s \in Submits : Requests(s)) /\ ~ \E r \in Runs : ActorSubmitWrites(r)
    <3>1. EndedStay /\ NothingNew
      BY <2>3, RequestsEndNothing
    <3> QED
      BY <1>1, <2>3, <3>1
  <2>4. CASE /\ \/ \E s \in Submits : ActorEnsureInitialized(s)
                \/ \E h \in Handles : Close(h) \/ CloseReturns(h) \/ CloseFails(h) \/ ActorClose(h)
                \/ \E r \in Runs : ActorSubmitThrows(r)
                \/ Crash \/ UNCHANGED vars
             /\ ~ \E r \in Runs : ActorSubmitWrites(r)
    <3>1. EndedStay /\ NothingNew
      BY <2>4, ObjectEndsNothing
    <3> QED
      BY <1>1, <2>4, <3>1
  <2> QED
    BY <2>1, <2>2, <2>3, <2>4 DEF Next, Requests
<1>3. \A s \in Submits : outcome'[s] \in {"ok", "thrown"} =>
        at'[s] = "done" /\ run'[Current(s)'].at = outcome'[s]
  BY <1>2, OutcomesLast
<1> QED
  BY <1>2, <1>3 DEF AnswersLast, AllOk

\* A submit reported as done was written by the attempt that was answered, and
\* of one whose function is reported to have thrown the storage has nothing but
\* the changes of earlier attempts, whatever retries, crashes, closes and late
\* answers came between, for every number of handles and submits
\* (coordinator.ts actorSubmit).
THEOREM AnswersTrue == Spec => []AnswersAreTrue
<1>1. Init => Shape /\ AnswersLast
  <2> SUFFICES ASSUME Init PROVE Shape /\ AnswersLast
    OBVIOUS
  <2>1. \A i \in DOMAIN log : log[i].state.applied = {}
    BY DEF Init, Empty, Fresh
  <2> QED
    BY <2>1, ShapeInit DEF Init, AnswersLast, AllOk, NotRun
<1>2. Shape /\ AnswersLast /\ [Next]_vars => (Shape /\ AnswersLast)'
  BY ShapeNext, AnswersLastNext
<1>3. Shape /\ AnswersLast => AnswersAreTrue
  <2> SUFFICES ASSUME Shape, AnswersLast PROVE AnswersAreTrue
    OBVIOUS
  <2>1. \A s \in Submits : /\ Current(s) \in Runs /\ attempt[s] \in Nat
                           /\ Current(s) = <<s, attempt[s]>>
    BY RunsAre, ActorAssumption DEF Current, Shape, TypeOK
  <2>2. ASSUME NEW s \in Submits, outcome[s] = "thrown",
               NEW i \in DOMAIN log, NEW n \in 0 .. Retries[s],
               <<s, n>> \in log[i].state.applied
        PROVE  n < attempt[s]
    <3>1. run[<<s, n>>].at = "ok" /\ run[Current(s)].at = "thrown"
      BY <2>1, <2>2 DEF AnswersLast, AllOk
    <3>2. ~ n > attempt[s]
      BY <3>1 DEF Shape, AttemptsInOrder, NotRun
    <3>3. n # attempt[s]
      BY <2>1, <3>1
    <3> QED
      BY <2>1, <3>2, <3>3
  <2>3. \A s \in Submits : outcome[s] = "ok" => run[Current(s)].wroteAt > 0
    BY <2>1 DEF AnswersLast, AllOk
  <2> QED
    BY <2>2, <2>3 DEF AnswersAreTrue
<1> QED
  BY <1>1, <1>2, <1>3, PTL DEF Spec

-----------------------------------------------------------------------------
(* A closed handle starts over.                                             *)

\* Without crashes and cuts every call goes on: no request is lost, and none
\* waits to be retried.
NeverCut ==
  crashes = 0 /\ cuts = 0 =>
    (\A r \in Runs : run[r].at # "dead") /\ (\A s \in Submits : at[s] # "backoff")

\* What keeps the state grown from the initialState of h, the only handle in
\* use: who takes it for seeded is right, and close waits for the others.
Regrown(h) ==
  /\ Stored.flag => Stored.state.seed = h
  /\ known[h] /\ closing[h] # "closed" => Stored.state.seed = h
  /\ \A s \in Submits : at[s] = "ensured" => Stored.state.seed = h
  /\ \A r \in Runs : run[r].at \in {"sent", "running"} => Stored.state.seed = h
  /\ \A r \in Runs : run[r].at = "running" => run[r].read.seed = h
  /\ closing[h] # "idle" => ~ UnderWay(h)

Regrows ==
  crashes = 0 /\ cuts = 0 => \A h \in Orderly : OnlyUsed(h) => Regrown(h)

\* The steps that are left.
LEMMA UncutSteps ==
  ASSUME Shape, NeverCut, [Next]_vars, crashes' = 0, cuts' = 0
  PROVE  /\ crashes = 0 /\ cuts = 0
         /\ \/ \E s \in Submits : \/ Submit(s) \/ ActorEnsureInitialized(s)
                                  \/ EnsureReturns(s) \/ AnswerArrives(s)
            \/ \E h \in Handles : Close(h) \/ ActorClose(h) \/ CloseReturns(h)
            \/ \E r \in Runs : ActorSubmitReads(r) \/ ActorSubmitWrites(r) \/ ActorSubmitThrows(r)
            \/ UNCHANGED vars
<1>1. crashes \in Nat /\ cuts \in Nat
  BY DEF Shape, TypeOK
<1>2. \A s \in Submits : Current(s) \in Runs
  BY RunsAre, ActorAssumption DEF Current, Shape, TypeOK
<1>3. crashes = 0 /\ cuts = 0
  <2>1. UNCHANGED cuts \/ cuts' = cuts + 1
    <3>1. CASE \E s \in Submits : Requests(s) \/ ActorEnsureInitialized(s)
      BY <3>1 DEF Requests, Submit, ActorEnsureInitialized, EnsureReturns, EnsureFails,
         AnswerArrives, CallFails, BackoffEnds, TimeoutFires, bounds
    <3>2. CASE \E h \in Handles : Close(h) \/ ActorClose(h) \/ CloseReturns(h) \/ CloseFails(h)
      BY <3>2 DEF Close, ActorClose, CloseReturns, CloseFails, bounds
    <3>3. CASE \E r \in Runs : ActorSubmitReads(r) \/ ActorSubmitWrites(r) \/ ActorSubmitThrows(r)
      BY <3>3 DEF ActorSubmitReads, ActorSubmitWrites, ActorSubmitThrows, bounds
    <3>4. CASE Crash \/ UNCHANGED vars
      BY <3>4 DEF Crash, vars, bounds
    <3> QED
      BY <3>1, <3>2, <3>3, <3>4 DEF Next, Requests
  <2>2. UNCHANGED crashes \/ crashes' = crashes + 1
    BY EventsLast DEF Crash, ActorClose
  <2> QED
    BY <1>1, <2>1, <2>2
<1>4. ASSUME NEW s \in Submits,
             EnsureFails(s) \/ CallFails(s) \/ BackoffEnds(s) \/ TimeoutFires(s)
      PROVE  FALSE
  BY <1>2, <1>3, <1>4 DEF EnsureFails, CallFails, BackoffEnds, TimeoutFires, NeverCut
<1>5. ASSUME NEW h \in Handles, CloseFails(h) PROVE FALSE
  BY <1>3, <1>5 DEF CloseFails
<1>6. ~ Crash
  BY <1>3 DEF Crash
<1> QED
  BY <1>3, <1>4, <1>5, <1>6 DEF Next

LEMMA NeverCutNext == ASSUME Shape, NeverCut, [Next]_vars PROVE NeverCut'
<1> SUFFICES ASSUME crashes' = 0, cuts' = 0
             PROVE  (\A r \in Runs : run'[r].at # "dead") /\ \A s \in Submits : at'[s] # "backoff"
  BY DEF NeverCut
<1>1. (\A r \in Runs : run[r].at # "dead") /\ \A s \in Submits : at[s] # "backoff"
  BY UncutSteps DEF NeverCut
<1>2. ASSUME NEW s \in Submits, NEW n \in Nat, Send(s, n)
      PROVE  (\A r \in Runs : run'[r].at # "dead") /\ \A q \in Submits : at'[q] # "backoff"
  BY <1>1, <1>2 DEF Send, Shape, TypeOK, RunRecords
<1>3. CASE \E s \in Submits : Submit(s) \/ EnsureReturns(s)
  <2>1. PICK s \in Submits : Submit(s) \/ EnsureReturns(s)
    BY <1>3
  <2>2. Send(s, 0) \/ (at' = [at EXCEPT ![s] = "ensuring"] /\ run' = run)
    BY <2>1 DEF Submit, EnsureReturns
  <2>3. CASE Send(s, 0)
    BY <1>2, <2>3
  <2>4. CASE at' = [at EXCEPT ![s] = "ensuring"] /\ run' = run
    BY <1>1, <2>4 DEF Shape, TypeOK
  <2> QED
    BY <2>2, <2>3, <2>4
<1>4. CASE \E s \in Submits : ActorEnsureInitialized(s) \/ AnswerArrives(s)
  <2>1. PICK s \in Submits : ActorEnsureInitialized(s) \/ AnswerArrives(s)
    BY <1>4
  <2>2. run' = run /\ \E p \in {"ensured", "done"} : at' = [at EXCEPT ![s] = p]
    BY <2>1 DEF ActorEnsureInitialized, AnswerArrives, Settle, object
  <2> QED
    BY <1>1, <2>2 DEF Shape, TypeOK
<1>5. CASE \E h \in Handles : Close(h) \/ ActorClose(h) \/ CloseReturns(h)
  BY <1>1, <1>5 DEF Close, ActorClose, CloseReturns, object, client
<1>6. CASE \E r \in Runs : ActorSubmitReads(r) \/ ActorSubmitWrites(r) \/ ActorSubmitThrows(r)
  <2> PICK r \in Runs : ActorSubmitReads(r) \/ ActorSubmitWrites(r) \/ ActorSubmitThrows(r)
    BY <1>6
  <2>1. UNCHANGED at
    BY DEF ActorSubmitReads, ActorSubmitWrites, ActorSubmitThrows, client
  <2>2. PICK x \in {Read(Stored.state, version), Wrote(run[r], version'), Ended("thrown")} :
          run' = [run EXCEPT ![r] = x]
    BY ReadStep, WriteStep, ThrowStep
  <2>3. x.at # "dead"
    BY DEF Read, Wrote, Ended
  <2> QED
    BY <1>1, <2>1, <2>2, <2>3 DEF Shape, TypeOK
<1>7. CASE UNCHANGED vars
  BY <1>1, <1>7 DEF vars, object, client
<1> QED
  BY <1>3, <1>4, <1>5, <1>6, <1>7, UncutSteps

\* A handle that alone is used was so before.
LEMMA OnlyUsedBefore ==
  ASSUME Shape, NeverCut, [Next]_vars, crashes' = 0, cuts' = 0,
         NEW h \in Handles, OnlyUsed(h)'
  PROVE  OnlyUsed(h)
<1>1. \A s \in Submits : at[s] # "idle" => at'[s] # "idle"
  <2>1. CASE \E s \in Submits : \/ Submit(s) \/ ActorEnsureInitialized(s)
                                \/ EnsureReturns(s) \/ AnswerArrives(s)
    BY <2>1 DEF Submit, ActorEnsureInitialized, EnsureReturns, AnswerArrives, Send, Settle, Shape, TypeOK
  <2>2. CASE \E g \in Handles : Close(g) \/ ActorClose(g) \/ CloseReturns(g)
    BY <2>2 DEF Close, ActorClose, CloseReturns, client
  <2>3. CASE \E r \in Runs : ActorSubmitReads(r) \/ ActorSubmitWrites(r) \/ ActorSubmitThrows(r)
    BY <2>3 DEF ActorSubmitReads, ActorSubmitWrites, ActorSubmitThrows, client
  <2> QED
    BY <2>1, <2>2, <2>3, UncutSteps DEF vars, client
<1>2. \A i \in DOMAIN closes : i \in DOMAIN closes' /\ closes'[i] = closes[i]
  <2>1. CASE UNCHANGED closes
    BY <2>1
  <2>2. CASE \E g \in Handles : ActorClose(g)
    <3>1. PICK g \in Handles : closes' = Append(closes, [by |-> g, version |-> version'])
      BY <2>2 DEF ActorClose
    <3>2. closes \in Seq([by : Handles, version : Nat])
      BY DEF Shape, TypeOK
    <3> QED
      BY <3>1, <3>2
  <2> QED
    BY <2>1, <2>2, EventsLast, UncutSteps DEF Crash
<1> QED
  BY <1>1, <1>2 DEF OnlyUsed

\* What is under way is under way for the handle in use, which is not closing.
LEMMA InUse ==
  ASSUME Shape, NEW h \in Handles, OnlyUsed(h), Regrown(h)
  PROVE  /\ \A s \in Submits : at[s] \notin {"idle", "done"} => closing[h] = "idle" /\ HandleOf[s] = h
         /\ \A r \in Runs : run[r].at \in {"sent", "running"} =>
              closing[h] = "idle" /\ HandleOf[r[1]] = h
<1>1. ASSUME NEW r \in Runs, run[r].at \in {"sent", "running"} PROVE HandleOf[r[1]] = h
  <2>1. at[r[1]] # "idle"
    BY <1>1, RunsAre DEF Shape, AttemptsInOrder, NotRun
  <2> QED
    BY <2>1, RunsAre DEF OnlyUsed
<1> QED
  BY <1>1 DEF OnlyUsed, Regrown, UnderWay

\* A step between closes.
LEMMA RegrownStays ==
  ASSUME NEW h \in Handles, Regrown(h), closing[h] = "idle", UNCHANGED closing,
         Stored' = Stored \/ Stored'.state.seed = h,
         known'[h] => known[h] \/ Stored'.state.seed = h,
         \A s \in Submits : at'[s] = "ensured" => at[s] = "ensured" \/ Stored'.state.seed = h,
         \A r \in Runs : \/ run'[r] = run[r]
                         \/ run'[r].at \notin {"sent", "running"}
                         \/ /\ Stored'.state.seed = h
                            /\ run'[r].at = "running" => run'[r].read.seed = h
  PROVE  Regrown(h)'
BY DEF Regrown

LEMMA RegrownRequest ==
  ASSUME Shape, NEW h \in Orderly, OnlyUsed(h), OnlyUsed(h)', Regrown(h), NEW s \in Submits,
         Submit(s) \/ EnsureReturns(s) \/ AnswerArrives(s)
  PROVE  Regrown(h)'
<1>1. h \in Handles /\ HandleOf[s] = h /\ Retries[s] \in Nat /\ 0 \in 0 .. Retries[s]
  BY ActorAssumption DEF OnlyUsed, Shape, TypeOK, Submit, EnsureReturns, AnswerArrives, Send, Settle
<1>2. closing[h] = "idle" /\ UNCHANGED <<closing, log>> /\ Stored' = Stored
  BY <1>1, InUse DEF Submit, EnsureReturns, AnswerArrives, Stored, object
<1>3. CASE Submit(s) /\ ~ known[h]
  BY <1>1, <1>2, <1>3, RegrownStays DEF Submit, Shape, TypeOK
<1>4. CASE (Submit(s) /\ known[h]) \/ EnsureReturns(s)
  <2>1. Stored.state.seed = h
    BY <1>1, <1>2, <1>4 DEF EnsureReturns, Regrown
  <2>2. Send(s, 0) /\ at[s] \in {"idle", "ensured"}
    BY <1>1, <1>4 DEF Submit, EnsureReturns
  <2>3. NothingDone
    BY <1>1, <2>2, SendShape
  <2>4. \A r \in Runs : run'[r] = run[r] \/ run'[r].at \in {"sent", "dead"}
    BY <2>3 DEF NothingDone
  <2>5. \A q \in Submits : at'[q] = "ensured" => at[q] = "ensured"
    BY <2>2 DEF Send, Shape, TypeOK
  <2> QED
    BY <1>1, <1>2, <2>1, <2>4, <2>5, RegrownStays
<1>5. CASE AnswerArrives(s)
  <2>1. UNCHANGED <<run, known>> /\ \A q \in Submits : at'[q] = "ensured" => at[q] = "ensured"
    BY <1>5 DEF AnswerArrives, object, Settle, Shape, TypeOK
  <2> QED
    BY <1>1, <1>2, <2>1, RegrownStays
<1> QED
  BY <1>3, <1>4, <1>5

LEMMA RegrownSeeds ==
  ASSUME Shape, NEW h \in Orderly, OnlyUsed(h), Regrown(h), NEW s \in Submits,
         ActorEnsureInitialized(s)
  PROVE  Regrown(h)'
<1>1. h \in Handles /\ HandleOf[s] = h /\ closing[h] = "idle"
  BY ActorAssumption, InUse DEF ActorEnsureInitialized
<1>2. UNCHANGED <<run, known, closing>>
  BY DEF ActorEnsureInitialized
<1>3. Stored'.state.seed = h
  <2>1. CASE Stored.flag
    BY <2>1 DEF ActorEnsureInitialized, Stored, Regrown
  <2>2. CASE ~ Stored.flag
    <3> DEFINE d == [Stored EXCEPT !.state = Seed(h)]
               e == [state |-> Seed(h), flag |-> TRUE]
    <3>1. d \in Entries /\ e \in Entries /\ e.state.seed = h
      <4>1. Seed(h) \in States /\ Seed(h).seed = h /\ Stored \in Entries
        BY <1>1, SeedTyped, StoredTyped DEF Seed, Shape
      <4> QED
        BY <4>1 DEF Entries
    <3>2. log' = log \o <<d, e>>
      BY <1>1, <2>2 DEF ActorEnsureInitialized, Seeding
    <3> HIDE DEF d, e
    <3>3. TypeOK
      BY DEF Shape
    <3>4. Stored' = e
      BY <3>1, <3>2, <3>3, StoredAfter
    <3> QED
      BY <3>1, <3>4
  <2> QED
    BY <2>1, <2>2
<1> QED
  BY <1>1, <1>2, <1>3, RegrownStays

LEMMA RegrownRun ==
  ASSUME Shape, NEW h \in Orderly, OnlyUsed(h), Regrown(h), NEW r \in Runs,
         ActorSubmitReads(r) \/ ActorSubmitWrites(r) \/ ActorSubmitThrows(r)
  PROVE  Regrown(h)'
<1>1. h \in Handles /\ UNCHANGED <<known, at, closing>>
  BY ActorAssumption DEF ActorSubmitReads, ActorSubmitWrites, ActorSubmitThrows, client
<1>2. closing[h] = "idle" /\ Stored.state.seed = h
  BY <1>1, InUse DEF ActorSubmitReads, ActorSubmitWrites, ActorSubmitThrows, Regrown
<1>3. run \in [Runs -> RunRecords]
  BY DEF Shape, TypeOK
<1>4. CASE ActorSubmitReads(r)
  <2>1. run' = [run EXCEPT ![r] = Read(Stored.state, version)] /\ Stored' = Stored
    BY <1>4, ReadStep DEF ActorSubmitReads, Stored
  <2>2. Read(Stored.state, version).read.seed = h
    BY <1>2 DEF Read
  <2> QED
    BY <1>1, <1>2, <1>3, <2>1, <2>2, RegrownStays
<1>5. CASE ActorSubmitWrites(r)
  <2>1. /\ run' = [run EXCEPT ![r] = Wrote(run[r], version')]
        /\ Stored'.state.seed = run[r].read.seed /\ run[r].at = "running"
    BY <1>5, WriteStep
  <2>2. Stored'.state.seed = h /\ Wrote(run[r], version').at = "ok"
    BY <2>1 DEF Regrown, Wrote
  <2> QED
    BY <1>1, <1>2, <1>3, <2>1, <2>2, RegrownStays
<1>6. CASE ActorSubmitThrows(r)
  <2>1. run' = [run EXCEPT ![r] = Ended("thrown")] /\ Stored' = Stored
    BY <1>6, ThrowStep DEF ActorSubmitThrows, Stored
  <2>2. Ended("thrown").at = "thrown"
    BY DEF Ended
  <2> QED
    BY <1>1, <1>2, <1>3, <2>1, <2>2, RegrownStays
<1> QED
  BY <1>4, <1>5, <1>6

LEMMA RegrownCloses ==
  ASSUME Shape, NEW h \in Orderly, OnlyUsed(h), OnlyUsed(h)', Regrown(h), NEW g \in Handles,
         Close(g) \/ ActorClose(g) \/ CloseReturns(g)
  PROVE  Regrown(h)'
<1>1. /\ UNCHANGED <<run, at>> /\ UnderWay(h)' = UnderWay(h) /\ h \in Handles
      /\ closing \in [Handles -> {"idle", "sent", "closed"}] /\ known \in [Handles -> BOOLEAN]
  BY ActorAssumption DEF Close, ActorClose, CloseReturns, object, client, UnderWay, Shape, TypeOK
<1>2. CASE Close(g)
  <2>1. UNCHANGED <<log, known>> /\ closing[g] = "idle" /\ closing' = [closing EXCEPT ![g] = "sent"]
        /\ (g \in Orderly => ~ UnderWay(g))
    BY <1>2 DEF Close, object, client
  <2> QED
    BY <1>1, <2>1 DEF Regrown, Stored
<1>3. CASE CloseReturns(g)
  <2>1. /\ UNCHANGED log /\ closing' = [closing EXCEPT ![g] = "idle"]
        /\ known' = [known EXCEPT ![g] = FALSE]
    BY <1>3 DEF CloseReturns, object
  <2> QED
    BY <1>1, <2>1 DEF Regrown, Stored
<1>4. CASE ActorClose(g)
  <2>1. /\ closing[g] = "sent" /\ closing' = [closing EXCEPT ![g] = "closed"]
        /\ log' = <<Empty>> /\ UNCHANGED known
        /\ closes' = Append(closes, [by |-> g, version |-> version'])
    BY <1>4 DEF ActorClose, Closed, client
  <2>2. g = h
    <3>1. closes \in Seq([by : Handles, version : Nat]) /\ version' \in Nat
      BY <1>4 DEF ActorClose, Shape, TypeOK
    <3>2. Len(closes) + 1 \in DOMAIN closes' /\ closes'[Len(closes) + 1].by = g
      BY <2>1, <3>1
    <3> QED
      BY <3>2 DEF OnlyUsed
  <2>3. Stored' = Empty /\ Empty.flag = FALSE
    BY <2>1 DEF Stored, Last, Empty
  <2>4. /\ \A s \in Submits : at[s] # "ensured"
        /\ \A r \in Runs : run[r].at \notin {"sent", "running"}
    BY <1>1, <2>1, <2>2, InUse
  <2>5. closing'[h] = "closed" /\ ~ UnderWay(h)
    BY <1>1, <2>1, <2>2 DEF Regrown
  <2> QED
    BY <1>1, <2>3, <2>4, <2>5 DEF Regrown
<1> QED
  BY <1>2, <1>3, <1>4

LEMMA RegrowsNext == ASSUME Shape, NeverCut, Regrows, [Next]_vars PROVE Regrows'
<1> SUFFICES ASSUME crashes' = 0, cuts' = 0, NEW h \in Orderly, OnlyUsed(h)' PROVE Regrown(h)'
  BY DEF Regrows
<1>1. h \in Handles
  BY ActorAssumption
<1>2. OnlyUsed(h)
  BY <1>1, OnlyUsedBefore
<1>3. Regrown(h)
  BY <1>2, UncutSteps DEF Regrows
<1>4. UNCHANGED vars => Regrown(h)'
  BY <1>3 DEF vars, object, client, Regrown, Stored, UnderWay
<1> QED
  BY <1>2, <1>3, <1>4, UncutSteps, RegrownRequest, RegrownSeeds, RegrownRun, RegrownCloses

\* While nothing crashes and no call is cut off, the functions of the one
\* handle in use run on a state grown from its initialState, before and after
\* each of its closes, for every number of submits, retries and closes.
THEOREM ClosingRestarts == Spec => []ClosingHandleRestarts
<1>1. Init => Shape /\ NeverCut /\ Regrows
  <2> SUFFICES ASSUME Init PROVE Shape /\ NeverCut /\ Regrows
    OBVIOUS
  <2>1. NeverCut
    BY DEF Init, NeverCut, NotRun
  <2>2. \A h \in Orderly : Regrown(h)
    BY ActorAssumption DEF Init, Regrown, NotRun, Stored, Last, Empty
  <2> QED
    BY <2>1, <2>2, ShapeInit DEF Regrows
<1>2. Shape /\ NeverCut /\ Regrows /\ [Next]_vars => (Shape /\ NeverCut /\ Regrows)'
  BY ShapeNext, NeverCutNext, RegrowsNext
<1>3. Regrows => ClosingHandleRestarts
  BY DEF Regrows, ClosingHandleRestarts, Regrown
<1> QED
  BY <1>1, <1>2, <1>3, PTL DEF Spec
=============================================================================
