---------------------------- MODULE TreeDispatch ----------------------------
(***************************************************************************)
(* One CfpCoordinator.runMany: the coordinator cuts the items into slices  *)
(* by the plan of module Topology and calls leaf workers or                *)
(* sub-coordinators, which cut and call in turn (coordinator.ts,           *)
(* sub-coordinator.ts, worker-do.ts, transient.ts).  Every call is retried *)
(* by its caller when it was cut off by a platform reset, and also when an *)
(* answer that did arrive reports such a reset for one of the items: then  *)
(* the whole slice is run again.                                           *)
(*                                                                         *)
(* A running coordinator is named by its path: the calls that lead to it   *)
(* from the root, each a pair of child index and attempt.  A call that was *)
(* cut off leaves its callee running, and a sub-coordinator that nobody    *)
(* waits for any more goes on calling leaves.                              *)
(***************************************************************************)
EXTENDS Topology, FiniteSets, Functions

CONSTANTS
  Requests,     \* the requests considered: what selectTopology reads, the
                \* items whose function throws (throwing) and those that throw
                \* an error whose message matches the transient patterns
                \* (lookalike), and two bounds: maxFaults, the resets of leaves
                \* and calls, and window, how many earlier calls of the same
                \* coordinator an answer may overtake
  MaxRetries,   \* MAX_TRANSIENT_RETRIES
  MaxDispatch   \* bound: larger requests are planned but not run

ASSUME TreeAssumption ==
  /\ \A r \in Requests :
       /\ r.topology \in {"auto", "in-do", "hybrid", "tree"}
       /\ {r.size, r.branchingFactor, r.maxFanOut, r.treeThreshold,
           r.maxFaults, r.window} \subseteq Nat
       /\ r.throwing \cap r.lookalike = {}
  /\ {MaxRetries, MaxDispatch} \subseteq Nat

VARIABLES
  req,      \* the request
  plan,     \* its plan, or NoPlan
  status,   \* "new", "planned", "running", "done" or "rejected"
  coord,    \* path -> the children a coordinator calls and where each stands
  starts,   \* how often each item was started on a leaf
  faults,   \* resets so far
  result    \* what runMany resolved with

vars == <<req, plan, status, coord, starts, faults, result>>

Items == 1 .. req.size

NoPlan == [topology |-> "none", sizes |-> <<>>, below |-> <<>>, depth |-> 0]

Root == <<>>

Map(s, Op(_)) == [i \in DOMAIN s |-> Op(s[i])]

-----------------------------------------------------------------------------
\* What a coordinator calls.  A child is a leaf worker ("leaf"), a
\* sub-coordinator ("sub"), or a runner of its own ("here").

Child(kind, slice, sizes, depth) ==
  [kind |-> kind, items |-> slice.items, base |-> slice.base,
   sizes |-> sizes, depth |-> depth]

RootChildren ==
  LET slices == Slices([k \in Items |-> k], plan.sizes, 0)
      child(i) == CASE plan.topology = "in-do"  -> Child("here", slices[i], <<>>, 0)
                    [] plan.topology = "hybrid" -> Child("leaf", slices[i], <<>>, 0)
                    [] plan.topology = "tree"   ->
                         Child("sub", slices[i], plan.below[i], plan.depth - 1)
  IN [i \in DOMAIN slices |-> child(i)]

\* Wrong: the slots start again at 0 in every sub-coordinator.
SubChildrenLocalSlots(c) ==
  LET slices == Slices(c.items, c.sizes, 0)
      leaves(s) == [k \in DOMAIN s.items |->
                      Child("leaf", [items |-> <<s.items[k]>>, base |-> s.base + k - 1], <<>>, 0)]
      sub(s) == Child("sub", s, BalancedFill(Len(s.items), req.branchingFactor), c.depth - 1)
  IN IF c.depth <= 1 THEN Concatenation(Map(slices, leaves)) ELSE Map(slices, sub)

\* At depth 1 and below one leaf per item, whatever the plan's widths.
SubChildren(c) ==
  LET slices == Slices(c.items, c.sizes, c.base)
      leaves(s) == [k \in DOMAIN s.items |->
                      Child("leaf", [items |-> <<s.items[k]>>, base |-> s.base + k - 1], <<>>, 0)]
      sub(s) == Child("sub", s, BalancedFill(Len(s.items), req.branchingFactor), c.depth - 1)
  IN IF c.depth <= 1 THEN Concatenation(Map(slices, leaves)) ELSE Map(slices, sub)

\* A call of a sub-coordinator is "sent" until its handler starts; calls of
\* leaves and runners are "out" from the start.  An empty slice is not called.
Cell(c, attempt) ==
  [phase |-> IF c.items = <<>> THEN "done" ELSE IF c.kind = "sub" THEN "sent" ELSE "out",
   attempt |-> attempt, got |-> <<>>]

Opened(children) == [children |-> children, cells |-> Map(children, LAMBDA c : Cell(c, 0))]

\* The items that the calls of leaves and runners just made start.
StartedBy(children) ==
  UNION {Range(children[i].items) : i \in {k \in DOMAIN children : children[k].kind # "sub"}}

StartOf(S) == [k \in Items |-> starts[k] + (IF k \in S THEN 1 ELSE 0)]

-----------------------------------------------------------------------------
\* The result of one item: the item it was computed from, the slot it ran at,
\* and "ok", "user", "transient" or "fatal".  When the whole call failed, the
\* error stands for every item of the slice.
Res(k, slot, out) == [of |-> k, slot |-> slot, out |-> out]

AllFailed(c, out) == [k \in DOMAIN c.items |-> Res(c.items[k], c.base + k - 1, out)]

\* Wrong: any failure has the slice run again.
HasFailure(results) == \E k \in DOMAIN results : results[k].out # "ok"

\* hasTransientRunFailure looks at the message, not at who threw it.
HasTransient(results) == \E k \in DOMAIN results : results[k].out = "transient"

\* Wrong: the last attempt's transient failure is retried too.
DecidedOneMore(c, cell, results) ==
  IF c.kind # "here" /\ HasTransient(results) /\ cell.attempt <= MaxRetries
  THEN [cell EXCEPT !.phase = "backoff"]
  ELSE [cell EXCEPT !.phase = "done", !.got = results]

\* The retry decision of a caller whose call ended with `results`.
Decided(c, cell, results) ==
  IF c.kind # "here" /\ HasTransient(results) /\ cell.attempt < MaxRetries
  THEN [cell EXCEPT !.phase = "backoff"]
  ELSE [cell EXCEPT !.phase = "done", !.got = results]

\* Wrong: waits for the slices that failed for good.
AllSucceeded(p) ==
  \A i \in DOMAIN coord[p].cells :
    /\ coord[p].cells[i].phase = "done"
    /\ \A k \in DOMAIN coord[p].cells[i].got : coord[p].cells[i].got[k].out # "fatal"

AllDone(p) == \A i \in DOMAIN coord[p].cells : coord[p].cells[i].phase = "done"

\* Wrong: a slice that failed as a whole is left out.
MergedWithoutFailed(p) ==
  Concatenation(Map(coord[p].cells,
    LAMBDA cell : IF \A k \in DOMAIN cell.got : cell.got[k].out = "fatal" THEN <<>> ELSE cell.got))

\* Promise.all keeps the order of the children; so does the concatenation.
Merged(p) == Concatenation(Map(coord[p].cells, LAMBDA cell : cell.got))

-----------------------------------------------------------------------------

Init ==
  /\ req \in Requests
  /\ plan = NoPlan
  /\ status = "new"
  /\ coord = [p \in {} |-> Opened(<<>>)]
  /\ starts = [k \in Items |-> 0]
  /\ faults = 0
  /\ result = <<>>

RunManyEmpty ==
  /\ status = "new" /\ req.size = 0
  /\ status' = "done"
  /\ UNCHANGED <<req, plan, coord, starts, faults, result>>

RunManyRefused ==
  /\ status = "new" /\ req.size > 0 /\ Refused(req)
  /\ status' = "rejected"
  /\ UNCHANGED <<req, plan, coord, starts, faults, result>>

SelectPlan ==
  /\ status = "new" /\ req.size > 0 /\ ~ Refused(req)
  /\ plan' \in Plans(req)
  /\ status' = "planned"
  /\ UNCHANGED <<req, coord, starts, faults, result>>

Dispatch ==
  /\ status = "planned" /\ req.size <= MaxDispatch
  /\ status' = "running"
  /\ coord' = [p \in {Root} |-> Opened(RootChildren)]
  /\ starts' = StartOf(StartedBy(RootChildren))
  /\ UNCHANGED <<req, plan, faults, result>>

\* The calls that a coordinator made before its i-th and still waits for.
Before(p, i) == {j \in 1 .. (i - 1) : coord[p].cells[j].phase # "done"}

\* The bound on reordering, at the i-th call of p and at those that led to p.
InWindow(p, i) ==
  /\ Cardinality(Before(p, i)) <= req.window
  /\ \A n \in DOMAIN p :
       LET q == SubSeq(p, 1, n - 1)
       IN q \in DOMAIN coord => Cardinality(Before(q, p[n][1])) <= req.window

\* The handler of a sub-coordinator starts.
Arrive(p, i) ==
  LET c == coord[p].children[i]
      cell == coord[p].cells[i]
      callee == Append(p, <<i, cell.attempt>>)
  IN /\ cell.phase = "sent" /\ InWindow(p, i)
     /\ \E children \in {SubChildren(c)} :
          /\ coord' = [q \in DOMAIN coord \cup {callee} |->
               IF q = callee THEN Opened(children)
               ELSE IF q = p THEN [coord[p] EXCEPT !.cells[i].phase = "out"] ELSE coord[q]]
          /\ starts' = StartOf(StartedBy(children))
     /\ UNCHANGED <<req, plan, status, faults, result>>

\* The outcomes of running an item: a reset may strike any of them.
Outcomes(k) == IF k \in req.lookalike THEN {"transient"}
               ELSE IF k \in req.throwing THEN {"user", "transient"} ELSE {"ok", "transient"}

Resets(c, outs) == Cardinality({k \in DOMAIN outs : outs[k] = "transient"
                                                  /\ c.items[k] \notin req.lookalike})

\* A leaf worker (or the coordinator's own runner) returns its batch.
LeafReturns(p, i) ==
  LET c == coord[p].children[i]
      cell == coord[p].cells[i]
  IN /\ c.kind # "sub" /\ cell.phase = "out" /\ InWindow(p, i)
     /\ \E outs \in {o \in [DOMAIN c.items -> {"ok", "user", "transient"}] :
                       \A k \in DOMAIN o : o[k] \in Outcomes(c.items[k])} :
          /\ faults' = faults + Resets(c, outs) /\ faults' <= req.maxFaults
          /\ coord' = [coord EXCEPT ![p].cells[i] = Decided(c, cell,
                          [k \in DOMAIN outs |-> Res(c.items[k], c.base + k - 1, outs[k])])]
     /\ UNCHANGED <<req, plan, status, starts, result>>

\* A sub-coordinator has all its answers and returns them in plan order.
SubReturns(p, i) ==
  LET c == coord[p].children[i]
      cell == coord[p].cells[i]
      callee == Append(p, <<i, cell.attempt>>)
  IN /\ c.kind = "sub" /\ cell.phase = "out" /\ AllDone(callee)
     /\ \E results \in {Merged(callee)} :
          coord' = Restrict([coord EXCEPT ![p].cells[i] = Decided(c, cell, results)],
                            DOMAIN coord \ {callee})
     /\ UNCHANGED <<req, plan, status, starts, faults, result>>

\* A call rejects: the callee, if it was reached, runs on unobserved.
CallFails(p, i, out) ==
  LET c == coord[p].children[i]
      cell == coord[p].cells[i]
  IN /\ c.kind # "here" /\ cell.phase \in {"sent", "out"}
     /\ faults < req.maxFaults
     /\ faults' = faults + 1
     /\ coord' = [coord EXCEPT ![p].cells[i] = Decided(c, cell, AllFailed(c, out))]
     /\ UNCHANGED <<req, plan, status, starts, result>>

\* transientBackoff is over.
Again(p, i) ==
  LET c == coord[p].children[i]
      cell == coord[p].cells[i]
  IN /\ cell.phase = "backoff"
     /\ coord' = [coord EXCEPT ![p].cells[i] = Cell(c, cell.attempt + 1)]
     /\ starts' = StartOf(StartedBy(<<c>>))
     /\ UNCHANGED <<req, plan, status, faults, result>>

Finish ==
  /\ status = "running" /\ AllDone(Root)
  /\ status' = "done"
  /\ result' = Merged(Root)
  /\ coord' = [p \in DOMAIN coord \ {Root} |-> coord[p]]
  /\ UNCHANGED <<req, plan, starts, faults>>

Step(p, i) ==
  \/ Arrive(p, i)
  \/ LeafReturns(p, i)
  \/ SubReturns(p, i)
  \/ Again(p, i)
  \/ \E out \in {"transient", "fatal"} : CallFails(p, i, out)

Next ==
  \/ RunManyEmpty
  \/ RunManyRefused
  \/ SelectPlan
  \/ Dispatch
  \/ \E p \in DOMAIN coord : \E i \in DOMAIN coord[p].cells : Step(p, i)
  \/ Finish

Spec == Init /\ [][Next]_vars

\* The event loop runs continuations and backoff timers, calls reach their
\* callee or fail, and a leaf that neither hangs nor is reset returns (the
\* runtime limits its time).
Runs == \E p \in DOMAIN coord : \E i \in DOMAIN coord[p].cells :
          Arrive(p, i) \/ LeafReturns(p, i) \/ SubReturns(p, i) \/ Again(p, i)

FairSpec == Spec /\ WF_vars(Dispatch) /\ WF_vars(Runs) /\ WF_vars(Finish)

-----------------------------------------------------------------------------

Outs == {"ok", "user", "transient", "fatal"}

\* Types; a running coordinator has a cell for each child.
TypeOK ==
  /\ req \in Requests
  /\ status \in {"new", "planned", "running", "done", "rejected"}
  /\ plan.topology \in {"none", "in-do", "hybrid", "tree"}
  /\ starts \in [Items -> Nat]
  /\ faults \in 0 .. req.maxFaults
  /\ \A p \in DOMAIN coord :
       /\ DOMAIN coord[p].cells = DOMAIN coord[p].children
       /\ \A i \in DOMAIN coord[p].cells :
            /\ coord[p].cells[i].phase \in {"sent", "out", "backoff", "done"}
            /\ coord[p].cells[i].attempt \in 0 .. MaxRetries
            /\ \A k \in DOMAIN coord[p].cells[i].got : coord[p].cells[i].got[k].out \in Outs

All == [k \in Items |-> k]

Cut(children) == Concatenation(Map(children, LAMBDA c : c.items))

\* No item is lost or doubled where work is cut up: the plan's slices, the
\* sizes it gives the tier below, and the slices each sub-coordinator makes of
\* what it was sent, put together, are what was cut.  The plan's depth, its
\* widths and Array.slice must agree on that; an item outside every slice
\* would silently have no result (selector.ts buildTreePlan caps a slice at
\* maxFanOut, which loses items as soon as the depth is one too small).  And on
\* every tier an item keeps as its slot its index in the caller's list
\* (protocol.ts taskSlotBase): two items at one slot would share an isolate.
NoItemDropped ==
  /\ status = "planned" =>
       /\ Cut(RootChildren) = All
       /\ \A i \in DOMAIN plan.below : Total(plan.below[i]) = plan.sizes[i]
  /\ \A p \in DOMAIN coord : \A i \in DOMAIN coord[p].cells :
       LET callee == Append(p, <<i, coord[p].cells[i].attempt>>)
       IN callee \in DOMAIN coord => Cut(coord[callee].children) = coord[p].children[i].items
  /\ \A p \in DOMAIN coord : \A i \in DOMAIN coord[p].children :
       LET c == coord[p].children[i]
       IN c.items # <<>> => c.base = c.items[1] - 1

\* runMany's answer has one result for each item, at the item's index, and the
\* result is that item's own: a success is never made up, an error the
\* function threw is reported as such, and nothing fails for no reason.
ResultsBelongToItems ==
  status = "done" =>
    /\ Len(result) = req.size
    /\ \A k \in DOMAIN result :
         /\ result[k].of = k
         /\ result[k].out = "ok" => k \notin req.throwing \cup req.lookalike
         /\ result[k].out = "user" => k \in req.throwing
         /\ faults = 0 => (result[k].out = "transient" <=> k \in req.lookalike)
         /\ faults = 0 => result[k].out # "fatal"

\* The tiers of retries above an item.
Tiers == CASE plan.topology = "in-do"  -> 0
           [] plan.topology = "hybrid" -> 1
           [] plan.topology = "tree"   -> IF plan.depth < 2 THEN 2 ELSE plan.depth
           [] plan.topology = "none"   -> 0

\* The combinations of attempts above an item.
Attempts == [1 .. Tiers -> 0 .. MaxRetries]

\* Without a reset nothing runs twice: an item's own error has neither it nor
\* its neighbours in the slice run again (transient.ts: "only clearly-transient
\* platform errors retry").  Otherwise retries multiply along the tiers and not
\* beyond: an item runs at most once for every combination of attempts above
\* it, callees that were given up included, and exactly that often when it
\* always fails with what looks like a reset.
RetriesAreBounded ==
  /\ TypeOK
  /\ faults = 0 /\ req.lookalike \cap Items = {} =>
       \A k \in Items : starts[k] <= 1 /\ (status = "done" => starts[k] = 1)
  /\ \A k \in Items :
       /\ starts[k] <= Cardinality(Attempts)
       /\ status = "done" /\ faults = 0 /\ k \in req.lookalike => starts[k] = Cardinality(Attempts)

\* runMany answers, whatever is reset (no slice, backoff or merge is waited for
\* that does not come).
RunManySettles == status = "running" ~> status = "done"
=============================================================================
