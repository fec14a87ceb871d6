----------------------------- MODULE ReadyQueue -----------------------------
(***************************************************************************)
(* The ready set of the dispatcher (scheduler/dispatcher.ts): the fields   *)
(* #ready, a Map from tenant to a FIFO of jobs, and #tenantOrder, the      *)
(* cyclic order in which tenants are served.  A tenant that has no entry   *)
(* in the Map has the empty FIFO here.                                     *)
(***************************************************************************)
EXTENDS PersistedJob, Integers, Sequences, SequencesExt

Queue == [ready: [Tenants -> Seq(Jobs)], order: Seq(Tenants)]

EmptyQueue == [ready |-> [t \in Tenants |-> <<>>], order |-> <<>>]

JobsOf(S, t) == {j \in S : TenantOf[j] = t}

InReady(q, j) == \E i \in DOMAIN q.ready[TenantOf[j]] :
                    q.ready[TenantOf[j]][i] = j

HasReady(q) == \E t \in Tenants : q.ready[t] # <<>>

TotalReady(q) == SumFunction([t \in Tenants |-> Len(q.ready[t])])

\* Array.indexOf of an element that is present.
IndexOf(s, x) ==
  CHOOSE i \in DOMAIN s : s[i] = x /\ \A k \in DOMAIN s : s[k] = x => i <= k

-----------------------------------------------------------------------------

\* Wrong: lists the tenant once per job.
EnqueueReadyTwice(q, j) ==
  [ready |-> [q.ready EXCEPT ![TenantOf[j]] = Append(@, j)],
   order |-> Append(q.order, TenantOf[j])]

EnqueueReady(q, j) ==
  LET t == TenantOf[j]
  IN [ready |-> [q.ready EXCEPT ![t] = Append(@, j)],
      order |-> IF q.ready[t] = <<>> THEN Append(q.order, t) ELSE q.order]

RemoveTenant(q, t) ==
  [ready |-> [q.ready EXCEPT ![t] = <<>>],
   order |-> IF \E i \in DOMAIN q.order : q.order[i] = t
             THEN RemoveAt(q.order, IndexOf(q.order, t)) ELSE q.order]

\* Drops the first entry for j, and its tenant when that was its last job.
DropFromReady(q, j) ==
  LET t    == TenantOf[j]
      left == RemoveAt(q.ready[t], IndexOf(q.ready[t], j))
  IN IF ~ InReady(q, j) THEN q
     ELSE IF left = <<>> THEN RemoveTenant(q, t)
     ELSE [q EXCEPT !.ready[t] = left]

\* The entry of the order that one turn of #takeNextReady stops at: the first
\* tenant of `open`, the tenants that are below their in-flight cap.
IsNextSlot(q, open, i) ==
  /\ i \in DOMAIN q.order
  /\ q.order[i] \in open
  /\ \A k \in 1 .. (i - 1) : q.order[k] \notin open

JobAt(q, i) == Head(q.ready[q.order[i]])

\* Wrong: the tenant served keeps its place.
TakeAtNoRotation(q, i) ==
  LET t    == q.order[i]
      left == Tail(q.ready[t])
  IN [ready |-> [q.ready EXCEPT ![t] = left],
      order |-> IF left = <<>> THEN RemoveAt(q.order, i) ELSE q.order]

\* The tenants looked at go to the back in their order, the one served last;
\* a tenant whose last job was taken leaves the order.
TakeAt(q, i) ==
  LET t    == q.order[i]
      left == Tail(q.ready[t])
      back == IF left = <<>> THEN i - 1 ELSE i
  IN [ready |-> [q.ready EXCEPT ![t] = left],
      order |-> SubSeq(q.order, i + 1, Len(q.order)) \o SubSeq(q.order, 1, back)]

\* The tenants whose first ready job is one of S.
Fresh(q, S) == {t \in Tenants : q.ready[t] = <<>> /\ JobsOf(S, t) # {}}

\* The orders in which the jobs of S may be pushed to the FIFOs.
Pushes(S) == {p \in [Tenants -> UNION {SetToSeqs(JobsOf(S, t)) : t \in Tenants}] :
                \A t \in Tenants : p[t] \in SetToSeqs(JobsOf(S, t))}

Pushed(q, p, o) == [ready |-> [t \in Tenants |-> q.ready[t] \o p[t]],
                    order |-> q.order \o o]

\* The queues that pushing every job of S may produce.  The rows come in the
\* order of created_at, which the model does not keep: any order is possible.
PushAll(q, S) ==
  {Pushed(q, p, o) : p \in Pushes(S), o \in SetToSeqs(Fresh(q, S))}

-----------------------------------------------------------------------------

\* #tenantOrder lists exactly the tenants with a job ready, each once.  The
\* Map and the array are maintained separately by five methods; were they to
\* disagree, a tenant would be served twice per turn or never again.
WellFormed(q) ==
  /\ \A i, k \in DOMAIN q.order : q.order[i] = q.order[k] => i = k
  /\ \A t \in Tenants : q.ready[t] # <<>> <=> \E i \in DOMAIN q.order : q.order[i] = t
=============================================================================
