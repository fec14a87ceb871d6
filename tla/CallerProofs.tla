---------------------------- MODULE CallerProofs ----------------------------
(***************************************************************************)
(* What a caller can rely on: what a cancel reaches and what it does not,  *)
(* for every set of tokens, calls, streams and slots (module CancelPath),  *)
(* and that what the scheduler's client is told is so, for every set of    *)
(* jobs and of attempts (module SchedulerClient).                          *)
(***************************************************************************)
EXTENDS CancelPath, SchedulerClient, TLAPS

TokenTypes ==
  /\ token \in [Tokens -> {"none", "live", "cancelled"}]
  /\ children \in [Tokens -> SUBSET Tokens]
  /\ mirrors \subseteq Tokens
  /\ linked \subseteq Tokens \X Tokens

-----------------------------------------------------------------------------
(* The tree of tokens.                                                      *)

LEMMA BelowIsClosed ==
  ASSUME TokenTypes, NEW t \in Tokens
  PROVE  t \in Below(t) /\ \A p \in Below(t) : children[p] \subseteq Below(t)
<1>1. t \in Below(t)
  BY DEF Below
<1>2. ASSUME NEW p \in Below(t), NEW q \in children[p] PROVE q \in Below(t)
  <2>1. p \in Tokens /\ q \in Tokens
    BY <1>2 DEF Below, TokenTypes
  <2> SUFFICES ASSUME NEW S \in SUBSET Tokens, t \in S, \A r \in S : children[r] \subseteq S
               PROVE  q \in S
    BY <2>1 DEF Below
  <2>2. p \in S
    BY DEF Below
  <2> QED
    BY <1>2, <2>2
<1> QED
  BY <1>1, <1>2

\* A child that was not let go is cancelled with its parent, or still known to
\* the parent that is to cancel it.
TreeCovered ==
  \A l \in linked :
    /\ token[l[1]] # "none" /\ token[l[2]] # "none"
    /\ token[l[1]] = "cancelled" => token[l[2]] = "cancelled"
    /\ token[l[1]] = "live" => l[2] \in children[l[1]] \/ token[l[2]] = "cancelled"

LEMMA CancelAllCovers ==
  ASSUME TokenTypes, TreeCovered, NEW ts \in SUBSET Tokens, CancelAll(ts), UNCHANGED linked
  PROVE  /\ token' \in [Tokens -> {"none", "live", "cancelled"}]
         /\ children' \in [Tokens -> SUBSET Tokens]
         /\ TreeCovered'
         /\ \A t \in Tokens : token[t] = "cancelled" => token'[t] = "cancelled"
<1> DEFINE hit == {t \in UNION {Below(s) : s \in ts} : token[t] = "live"}
<1>1. /\ token' = [t \in Tokens |-> IF t \in hit THEN "cancelled" ELSE token[t]]
      /\ children' = [t \in Tokens |-> IF t \in hit THEN {} ELSE children[t] \ hit]
  BY DEF CancelAll
<1>2. \A t \in hit : token[t] = "live"
  OBVIOUS
<1>3. ASSUME NEW p \in hit, NEW q \in children[p], token[q] = "live" PROVE q \in hit
  <2>1. PICK s \in ts : p \in Below(s)
    BY <1>3
  <2>2. q \in Below(s)
    BY <2>1, <1>3, BelowIsClosed
  <2> QED
    BY <1>3, <2>2
<1> HIDE DEF hit
<1>4. /\ token' \in [Tokens -> {"none", "live", "cancelled"}]
      /\ children' \in [Tokens -> SUBSET Tokens]
      /\ \A t \in Tokens : token[t] = "cancelled" => token'[t] = "cancelled"
  BY <1>1 DEF TokenTypes
<1>5. ASSUME NEW p \in Tokens, NEW q \in Tokens, <<p, q>> \in linked
      PROVE  /\ token'[p] # "none" /\ token'[q] # "none"
             /\ token'[p] = "cancelled" => token'[q] = "cancelled"
             /\ token'[p] = "live" => q \in children'[p] \/ token'[q] = "cancelled"
  <2>1. /\ token[p] \in {"live", "cancelled"} /\ token[q] \in {"live", "cancelled"}
        /\ token[p] = "cancelled" => token[q] = "cancelled"
        /\ token[p] = "live" => q \in children[p] \/ token[q] = "cancelled"
    BY <1>5 DEF TreeCovered, TokenTypes
  <2>2. CASE p \in hit
    BY <1>1, <1>2, <1>3, <2>1, <2>2
  <2>3. CASE p \notin hit
    BY <1>1, <2>1, <2>3
  <2> QED
    BY <2>2, <2>3
<1>6. TreeCovered'
  <2> SUFFICES ASSUME NEW l \in linked
               PROVE  /\ token'[l[1]] # "none" /\ token'[l[2]] # "none"
                      /\ token'[l[1]] = "cancelled" => token'[l[2]] = "cancelled"
                      /\ token'[l[1]] = "live" => l[2] \in children'[l[1]] \/ token'[l[2]] = "cancelled"
    BY DEF TreeCovered
  <2>1. l[1] \in Tokens /\ l[2] \in Tokens /\ <<l[1], l[2]>> \in linked
    BY DEF TokenTypes
  <2> QED
    BY <1>5, <2>1
<1> QED
  BY <1>4, <1>6

LEMMA TokenStepCovers ==
  ASSUME TokenTypes, TreeCovered, TokenNext
  PROVE  /\ TokenTypes' /\ TreeCovered'
         /\ \A t \in Tokens : token[t] = "cancelled" => token'[t] = "cancelled"
<1>1. CASE SignalAborts
  <2>1. CancelAll(mirrors) /\ UNCHANGED linked /\ mirrors' = {} /\ mirrors \in SUBSET Tokens
    BY <1>1 DEF SignalAborts, TokenTypes
  <2> QED
    BY <2>1, CancelAllCovers DEF TokenTypes
<1>2. ASSUME NEW t \in Tokens, Cancel(t) \/ DueFires(t)
      PROVE  /\ TokenTypes' /\ TreeCovered'
             /\ \A r \in Tokens : token[r] = "cancelled" => token'[r] = "cancelled"
  <2>1. CancelAll({t}) /\ UNCHANGED <<linked, mirrors>> /\ {t} \in SUBSET Tokens
    BY <1>2 DEF Cancel, DueFires
  <2> QED
    BY <2>1, CancelAllCovers DEF TokenTypes
<1>3. ASSUME NEW t \in Tokens, New(t) \/ FromAbortSignal(t) \/ WithTimeout(t)
      PROVE  /\ TokenTypes' /\ TreeCovered'
             /\ \A r \in Tokens : token[r] = "cancelled" => token'[r] = "cancelled"
  <2>1. /\ token[t] = "none" /\ token' = [token EXCEPT ![t] = "live"]
        /\ UNCHANGED <<children, linked>> /\ mirrors' \in SUBSET Tokens
    BY <1>3 DEF New, FromAbortSignal, WithTimeout, TokenTypes
  <2> QED
    BY <2>1 DEF TokenTypes, TreeCovered
<1>4. ASSUME NEW t \in Tokens, Dispose(t)
      PROVE  /\ TokenTypes' /\ TreeCovered'
             /\ \A r \in Tokens : token[r] = "cancelled" => token'[r] = "cancelled"
  BY <1>4 DEF Dispose, TokenTypes, TreeCovered
<1>5. ASSUME NEW p \in Tokens, NEW t \in Tokens, Child(p, t)
      PROVE  /\ TokenTypes' /\ TreeCovered'
             /\ \A r \in Tokens : token[r] = "cancelled" => token'[r] = "cancelled"
  <2>1. /\ token[p] \in {"live", "cancelled"} /\ token[t] = "none" /\ p # t
        /\ token' = [token EXCEPT ![t] = token[p]]
        /\ linked' = linked \cup {<<p, t>>} /\ UNCHANGED mirrors
    BY <1>5 DEF Child, TokenTypes
  <2>2. CASE token[p] = "cancelled"
    <3>1. UNCHANGED children
      BY <1>5, <2>2 DEF Child
    <3> QED
      BY <2>1, <2>2, <3>1 DEF TokenTypes, TreeCovered
  <2>3. CASE token[p] = "live"
    <3>1. children' = [children EXCEPT ![p] = @ \cup {t}]
      BY <1>5, <2>3 DEF Child
    <3> QED
      BY <2>1, <2>3, <3>1 DEF TokenTypes, TreeCovered
  <2> QED
    BY <2>1, <2>2, <2>3
<1> QED
  BY <1>1, <1>2, <1>3, <1>4, <1>5 DEF TokenNext

Covered == TokenTypes /\ TreeCovered

LEMMA CoveredNext ==
  ASSUME Covered, [Next]_vars
  PROVE  Covered' /\ \A t \in Tokens : token[t] = "cancelled" => token'[t] = "cancelled"
<1>1. CASE TokenStep
  BY <1>1, TokenStepCovers DEF Covered, TokenStep
<1>2. CASE UNCHANGED tokenVars
  BY <1>2 DEF Covered, TokenTypes, TreeCovered, tokenVars
<1> QED
  BY <1>1, <1>2
     DEF Next, vars, StartCall, EndCall, Resend, Fork, Pump, RunStarts, Hear, RunEnds, Reset, Evict

\* No child of a cancelled token stays live, for every number of tokens and
\* every order of cancels, timers, children, disposals and the outside signal
\* (api/cancel.ts cancel and child).
THEOREM ChildrenAreCancelled == Spec => []CancelCoversTree
<1>1. Init => Covered
  BY DEF Init, TokenInit, Covered, TokenTypes, TreeCovered
<1>2. Covered /\ [Next]_vars => Covered'
  BY CoveredNext
<1>3. Covered => CancelCoversTree
  BY DEF Covered, TreeCovered, CancelCoversTree
<1> QED
  BY <1>1, <1>2, <1>3, PTL DEF Spec
-----------------------------------------------------------------------------
(* The streams.                                                             *)

PathTypes ==
  /\ stream \in [Streams -> {"none", "open", "chunk", "closed"}]
  /\ hears \in [Leaves -> Streams \cup {NoStream}]
  /\ isolate \in [Slots -> Streams \cup {NoStream, NotLoaded}]
  /\ tripped \subseteq Leaves

\* A chunk is on no stream but those of calls whose token is cancelled ...
ChunksAreCancels ==
  \A s \in Streams : stream[s] = "chunk" => token[TokenOf[CallOf[s]]] = "cancelled"

\* ... a run reads the stream it brought or none, since the run that loaded
\* the isolate has locked the one in its env ...
HearsItsOwn == \A l \in Leaves : hears[l] \in {l, NoStream}

EnvIsLocked == \A k \in Slots : isolate[k] \in Streams => isolate[k] \in locked

\* ... so it aborts for a cancel of its own call.
NoneStray == PathTypes /\ ChunksAreCancels /\ HearsItsOwn /\ EnvIsLocked /\ NoStrayAbort

LEMMA OwnStreams == \A c \in Calls : Own(c) \in Streams /\ CallOf[Own(c)] = c
<1> SUFFICES ASSUME NEW c \in Calls PROVE Own(c) \in Streams /\ CallOf[Own(c)] = c
  OBVIOUS
<1>1. \E s \in Streams : CallOf[s] = c /\ Up[s] = NoStream
  BY CancelPathAssumption
<1> QED
  BY <1>1 DEF Own

LEMMA StreamsTyped ==
  /\ \A s \in Streams : CallOf[s] \in Calls /\ TokenOf[CallOf[s]] \in Tokens
  /\ \A c \in Calls : TokenOf[c] \in Tokens
  /\ \A s \in Streams : \A d \in Down(s) : d \in Streams /\ CallOf[d] = CallOf[s]
  /\ Leaves \subseteq Streams
BY CancelPathAssumption DEF Down, Leaves

\* Nothing is heard: a step of the writers.
LEMMA WritersStray ==
  ASSUME NoneStray, stream' \in [Streams -> {"none", "open", "chunk", "closed"}],
         \A t \in Tokens : token[t] = "cancelled" => token'[t] = "cancelled",
         \A s \in Streams : stream'[s] = "chunk" =>
           stream[s] = "chunk" \/ token'[TokenOf[CallOf[s]]] = "cancelled",
         locked \subseteq locked',
         UNCHANGED <<hears, tripped, isolate>>
  PROVE  NoneStray'
<1>1. ChunksAreCancels'
  BY StreamsTyped DEF NoneStray, ChunksAreCancels
<1>2. EnvIsLocked'
  BY DEF NoneStray, EnvIsLocked
<1>3. NoStrayAbort'
  BY StreamsTyped DEF NoneStray, PathTypes, NoStrayAbort
<1> QED
  BY <1>1, <1>2, <1>3 DEF NoneStray, PathTypes, HearsItsOwn

LEMMA NoneStrayNext ==
  ASSUME Covered, NoneStray, [Next]_vars
  PROVE  NoneStray'
<1>0. \A t \in Tokens : token[t] = "cancelled" => token'[t] = "cancelled"
  BY CoveredNext
<1>1. CASE TokenStep
  <2>1. UNCHANGED <<locked, hears, tripped, isolate>>
    BY <1>1 DEF TokenStep
  <2>2. /\ stream' \in [Streams -> {"none", "open", "chunk", "closed"}]
        /\ \A s \in Streams : stream'[s] = "chunk" =>
             stream[s] = "chunk" \/ token'[TokenOf[CallOf[s]]] = "cancelled"
    BY <1>1, OwnStreams DEF TokenStep, WriteChunks, Settle, NoneStray, PathTypes
  <2> QED
    BY <1>0, <2>1, <2>2, WritersStray
<1>2. ASSUME NEW c \in Calls, StartCall(c) \/ EndCall(c) \/ Resend(c)
      PROVE  NoneStray'
  <2>1. UNCHANGED <<locked, hears, tripped, isolate>>
    BY <1>2 DEF StartCall, EndCall, Resend
  <2>2. /\ stream' \in [Streams -> {"none", "open", "chunk", "closed"}]
        /\ \A s \in Streams : stream'[s] = "chunk" => stream[s] = "chunk"
    BY <1>2, OwnStreams DEF StartCall, EndCall, Resend, Settle, NoneStray, PathTypes
  <2> QED
    BY <1>0, <2>1, <2>2, WritersStray
<1>3. ASSUME NEW s \in Inner, Fork(s) PROVE NoneStray'
  <2>1. locked \subseteq locked' /\ UNCHANGED <<hears, tripped, isolate>>
    BY <1>3 DEF Fork
  <2>2. /\ stream' \in [Streams -> {"none", "open", "chunk", "closed"}]
        /\ \A d \in Streams : stream'[d] = "chunk" => stream[d] = "chunk"
    BY <1>3 DEF Fork, NoneStray, PathTypes
  <2> QED
    BY <1>0, <2>1, <2>2, WritersStray
<1>4. ASSUME NEW s \in Inner, Pump(s) PROVE NoneStray'
  <2>1. UNCHANGED <<tokenVars, locked, hears, tripped, isolate>> /\ s \in Streams
    BY <1>4 DEF Pump, Inner
  <2>2. /\ stream[s] \in {"none", "open", "chunk", "closed"}
        /\ stream' = [d \in Streams |-> IF d \in Down(s) /\ stream[d] = "open" THEN stream[s]
                                        ELSE stream[d]]
    BY <1>4, <2>1 DEF Pump, Settle, NoneStray, PathTypes
  <2>3. \A d \in Streams : stream'[d] = "chunk" =>
          stream[d] = "chunk" \/ token'[TokenOf[CallOf[d]]] = "cancelled"
    BY <2>1, <2>2, StreamsTyped DEF NoneStray, ChunksAreCancels, tokenVars
  <2>4. stream' \in [Streams -> {"none", "open", "chunk", "closed"}]
    BY <2>2 DEF NoneStray, PathTypes
  <2> QED
    BY <1>0, <2>1, <2>3, <2>4, WritersStray
<1>5. ASSUME NEW l \in Leaves, RunStarts(l) PROVE NoneStray'
  <2> DEFINE e == Env(l)
  <2>1. l \in Streams /\ SlotOf[l] \in Slots
    BY StreamsTyped, CancelPathAssumption
  <2>2. \/ e \in {l, NoStream}
        \/ e \in Streams /\ e \in locked
    BY <2>1, CancelPathAssumption DEF Env, Offered, NoneStray, PathTypes, EnvIsLocked
  <2>3. Listens(e) \in {l, NoStream}
    BY <2>2 DEF Listens
  <2>4. /\ hears' = [hears EXCEPT ![l] = Listens(e)]
        /\ locked' = locked \cup ({e} \ {NoStream})
        /\ tripped' = tripped \ {l}
        /\ isolate' = isolate \/ isolate' = [isolate EXCEPT ![SlotOf[l]] = e]
        /\ UNCHANGED <<tokenVars, stream>>
    BY <1>5 DEF RunStarts
  <2> HIDE DEF e
  <2>5. PathTypes' /\ HearsItsOwn'
    BY <2>1, <2>2, <2>3, <2>4 DEF NoneStray, PathTypes, HearsItsOwn
  <2>6. EnvIsLocked'
    BY <2>1, <2>4, CancelPathAssumption DEF NoneStray, PathTypes, EnvIsLocked
  <2>7. ChunksAreCancels' /\ NoStrayAbort'
    BY <2>4 DEF NoneStray, ChunksAreCancels, NoStrayAbort, tokenVars
  <2> QED
    BY <2>4, <2>5, <2>6, <2>7 DEF NoneStray
<1>6. ASSUME NEW l \in Leaves, Hear(l) PROVE NoneStray'
  <2>1. /\ hears[l] = l /\ l \in Streams
        /\ hears' = [hears EXCEPT ![l] = NoStream]
        /\ tripped' = IF stream[l] = "chunk" THEN tripped \cup {l} ELSE tripped
        /\ UNCHANGED <<tokenVars, stream, locked, isolate>>
    BY <1>6, StreamsTyped DEF Hear, NoneStray, HearsItsOwn
  <2>2. NoStrayAbort'
    BY <2>1 DEF NoneStray, ChunksAreCancels, NoStrayAbort, tokenVars
  <2>3. PathTypes' /\ HearsItsOwn' /\ EnvIsLocked' /\ ChunksAreCancels'
    BY <2>1 DEF NoneStray, PathTypes, HearsItsOwn, EnvIsLocked, ChunksAreCancels, tokenVars
  <2> QED
    BY <2>1, <2>2, <2>3 DEF NoneStray
<1>7. ASSUME NEW l \in Leaves, RunEnds(l) \/ Reset(l) PROVE NoneStray'
  BY <1>0, <1>7, WritersStray DEF RunEnds, Reset, NoneStray, PathTypes
<1>8. ASSUME NEW k \in Slots, Evict(k) PROVE NoneStray'
  <2>1. /\ isolate' = [isolate EXCEPT ![k] = NotLoaded]
        /\ UNCHANGED <<tokenVars, stream, locked, hears, tripped>>
    BY <1>8 DEF Evict
  <2>2. EnvIsLocked' /\ PathTypes'
    BY <2>1, CancelPathAssumption DEF NoneStray, PathTypes, EnvIsLocked
  <2> QED
    BY <2>1, <2>2 DEF NoneStray, HearsItsOwn, ChunksAreCancels, NoStrayAbort, tokenVars
<1>9. CASE UNCHANGED vars
  BY <1>0, <1>9, WritersStray DEF vars, pathVars, NoneStray, PathTypes
<1> QED
  BY <1>1, <1>2, <1>3, <1>4, <1>5, <1>6, <1>7, <1>8, <1>9 DEF Next

\* A function's signal aborts for a cancel of its own call only, whatever calls
\* share its isolate and however often requests are resent, leaves reset and
\* isolates unloaded (loader/codegen.ts and runner.ts, cancel-stream.ts).
THEOREM SignalsAreTheirOwn == Spec => []NoStrayAbort
<1> DEFINE Inv == Covered /\ NoneStray
<1>1. Init => Inv
  <2> SUFFICES ASSUME Init PROVE Inv
    OBVIOUS
  <2>1. Covered
    BY DEF Init, TokenInit, Covered, TokenTypes, TreeCovered
  <2>2. NoneStray
    BY CancelPathAssumption
       DEF Init, NoneStray, PathTypes, ChunksAreCancels, HearsItsOwn, EnvIsLocked, NoStrayAbort
  <2> QED
    BY <2>1, <2>2
<1>2. Inv /\ [Next]_vars => Inv'
  BY CoveredNext, NoneStrayNext
<1>3. Inv => NoStrayAbort
  BY DEF NoneStray
<1> QED
  BY <1>1, <1>2, <1>3, PTL DEF Spec

-----------------------------------------------------------------------------
(* The scheduler's client.                                                  *)

Stati == {"absent", "queued", "leased", "done", "failed", "cancelled"}

\* The call of the job has this result, or the answer that becomes it.
Heard(j, word, result) == reader[j] = result \/ (reader[j] = "answered" /\ answer[j] = word)

\* What is known of a job, by the object's rows and by what a call has heard.
Known(j) ==
  /\ status[j] = "done" => j \in completed
  /\ j \in handle /\ status[j] = "absent" => j \in expired \cup repeats
  /\ reader[j] # "idle" => j \in handle
  /\ reader[j] = "answered" => answer[j] # "none"
  /\ Heard(j, "done", "value") => j \in completed
  /\ Heard(j, "cancelled", "cancelled") => status[j] = "cancelled"
  /\ Heard(j, "failed", "error") => status[j] = "failed" \/ j \in expired \cup repeats

\* A job has a row, or a repeat none, by its enqueue() call only.
CalledOnce ==
  \A j \in Jobs : status[j] # "absent" \/ j \in repeats => enqueuer[j] \in {"returned", "failed"}

\* ResultIsTrue is inductive together with: an answer under way is as good as
\* a result, a handle's row goes only when it had expired, a call enqueues once,
\* and a flight that landed has brought the limits.
Truthful ==
  /\ ClientTypeOK
  /\ JobsSeeConfig
  /\ KeysDeduplicate
  /\ CalledOnce
  /\ flight = "set" => config # "defaults"
  /\ \A j \in Jobs : Known(j)

-----------------------------------------------------------------------------
(* The object.                                                              *)

\* What any step of the object does to its rows.
RowsLive ==
  /\ status' \in [Jobs -> Stati] /\ attempts' \in [Jobs -> Nat]
  /\ \A j \in Jobs : /\ status[j] \in {"failed", "cancelled"} => status'[j] = status[j]
                     /\ status[j] = "absent" <=> status'[j] = "absent"
                     /\ status'[j] = "done" => status[j] = "done"

LEMMA MoveLives ==
  ASSUME ClientTypeOK, NEW j \in Jobs,
         NEW from \in SUBSET {"queued", "leased"}, NEW to \in Stati \ {"absent", "done"},
         Move(j, from, to), attempts' \in [Jobs -> Nat]
  PROVE  RowsLive
BY DEF ClientTypeOK, Move, RowsLive, Stati

LEMMA LifeLives == ASSUME ClientTypeOK, LifeStep PROVE RowsLive
<1>1. ASSUME NEW j \in Jobs, attempts' = attempts \/ attempts' = [attempts EXCEPT ![j] = attempts[j] + 1]
                             \/ attempts' = [attempts EXCEPT ![j] = RetryMax[j]]
      PROVE  attempts' \in [Jobs -> Nat]
  BY <1>1, SchedulerClientAssumption DEF ClientTypeOK
<1>2. ASSUME NEW j \in Jobs, Lease(j) PROVE RowsLive
  <2>1. Move(j, {"queued"}, "leased") /\ attempts' = attempts
    BY <1>2 DEF Lease
  <2> QED
    BY <1>1, <2>1, MoveLives DEF Stati
<1>3. ASSUME NEW j \in Jobs, Retry(j) PROVE RowsLive
  <2>1. Move(j, {"leased"}, "queued") /\ attempts' = [attempts EXCEPT ![j] = attempts[j] + 1]
    BY <1>3 DEF Retry
  <2> QED
    BY <1>1, <2>1, MoveLives DEF Stati
<1>4. ASSUME NEW j \in Jobs, GiveUp(j) PROVE RowsLive
  <2>1. Move(j, {"leased"}, "failed") /\ attempts' = [attempts EXCEPT ![j] = attempts[j] + 1]
    BY <1>4 DEF GiveUp
  <2> QED
    BY <1>1, <2>1, MoveLives DEF Stati
<1>5. ASSUME NEW j \in Jobs, Expire(j) PROVE RowsLive
  <2>1. Move(j, {"queued"}, "failed") /\ attempts' = [attempts EXCEPT ![j] = RetryMax[j]]
    BY <1>5 DEF Expire
  <2> QED
    BY <1>1, <2>1, MoveLives DEF Stati
<1>6. ASSUME NEW S \in SUBSET Jobs, Release(S) PROVE RowsLive
  BY <1>6 DEF Release, ClientTypeOK, RowsLive, Stati
<1> QED
  BY <1>2, <1>3, <1>4, <1>5, <1>6 DEF LifeStep

\* What keeps what is known of a job whose calls a step leaves alone.
LEMMA KnownKept ==
  ASSUME Truthful, NEW j \in Jobs,
         reader'[j] = reader[j], answer'[j] = answer[j],
         completed \subseteq completed', expired \subseteq expired', handle \subseteq handle',
         repeats \subseteq repeats',
         status[j] \in {"failed", "cancelled"} => status'[j] = status[j],
         status'[j] = "done" => j \in completed',
         j \in handle' /\ status'[j] = "absent" => j \in expired' \cup repeats'
  PROVE  Known(j)'
BY DEF Truthful, Known, Heard

\* What keeps the keys of the jobs in order where nothing is enqueued: rows only
\* go away, and only when they had expired.
LEMMA KeysKept ==
  ASSUME Truthful, UNCHANGED repeats, expired \subseteq expired',
         \A j \in Jobs : /\ status[j] = "absent" => status'[j] = "absent"
                         /\ status'[j] = "absent" => status[j] = "absent" \/ j \in expired
                         /\ enqueuer[j] \in {"returned", "failed"} => enqueuer'[j] = enqueuer[j]
  PROVE  KeysDeduplicate' /\ CalledOnce'
<1> USE DEF Truthful, Matching
<1>1. CalledOnce'
  BY DEF CalledOnce
<1>2. ASSUME NEW j \in Jobs, NEW k \in Matching(j) PROVE "absent" \in {status'[j], status'[k]}
  BY <1>2 DEF KeysDeduplicate
<1>3. ASSUME NEW j \in repeats PROVE status'[j] = "absent" /\ \E k \in Matching(j) : status'[k] # "absent" \/ Gone(k)'
  <2>1. j \in Jobs /\ status[j] = "absent"
    BY <1>3 DEF KeysDeduplicate, ClientTypeOK
  <2>2. PICK k \in Matching(j) : status[k] # "absent" \/ Gone(k)
    BY <1>3 DEF KeysDeduplicate
  <2> QED
    BY <2>1, <2>2 DEF Gone
<1> QED
  BY <1>1, <1>2, <1>3 DEF KeysDeduplicate

\* Steps of the object leave the calls alone.
LEMMA ObjectKeeps ==
  ASSUME Truthful, ObjectStep
  PROVE  Truthful'
<1> USE DEF Truthful
<1>1. UNCHANGED <<handle, reader, answer, drainer, overdue, flight, enqueuer>>
  BY DEF ObjectStep, LifeStep, Sweep, Restart, Done, TtlPasses, setup, caller
<1>2. CASE LifeStep
  <2>1. RowsLive /\ UNCHANGED <<expired, config, completed, repeats>>
    BY <1>2, LifeLives DEF LifeStep, setup, history
  <2>2. ClientTypeOK'
    BY <1>1, <2>1 DEF ClientTypeOK, RowsLive, Stati
  <2>3. JobsSeeConfig' /\ (flight = "set" => config # "defaults")'
    BY <1>1, <2>1 DEF JobsSeeConfig, RowsLive
  <2>4. \A j \in Jobs : Known(j)'
    BY <1>1, <2>1, KnownKept DEF RowsLive, Known
  <2>5. KeysDeduplicate' /\ CalledOnce'
    BY <1>1, <2>1, KeysKept DEF RowsLive
  <2> QED
    BY <2>2, <2>3, <2>4, <2>5
<1>3. ASSUME NEW i \in Jobs, Done(i) PROVE Truthful'
  <2>1. /\ status[i] = "leased" /\ status' = [status EXCEPT ![i] = "done"]
        /\ completed' = completed \cup {i}
        /\ UNCHANGED <<attempts, expired, config, repeats>>
    BY <1>3 DEF Done, Complete, Move, setup
  <2>2. ClientTypeOK'
    BY <1>1, <2>1 DEF ClientTypeOK
  <2>3. JobsSeeConfig' /\ (flight = "set" => config # "defaults")'
    BY <1>1, <2>1 DEF JobsSeeConfig, ClientTypeOK
  <2>4. ASSUME NEW j \in Jobs PROVE Known(j)'
    <3>1. status'[j] = IF j = i THEN "done" ELSE status[j]
      BY <2>1 DEF ClientTypeOK
    <3> QED
      BY <1>1, <2>1, <3>1, KnownKept DEF Known
  <2>5. KeysDeduplicate' /\ CalledOnce'
    <3>1. \A j \in Jobs : status'[j] = IF j = i THEN "done" ELSE status[j]
      BY <2>1 DEF ClientTypeOK
    <3> QED
      BY <1>1, <2>1, <3>1, KeysKept
  <2> QED
    BY <2>2, <2>3, <2>4, <2>5
<1>4. ASSUME NEW i \in Jobs, TtlPasses(i) PROVE Truthful'
  <2>1. expired' = expired \cup {i} /\ UNCHANGED <<status, attempts, config, completed, repeats>>
    BY <1>4 DEF TtlPasses, lifeVars, setup, history
  <2>2. ClientTypeOK' /\ JobsSeeConfig' /\ (flight = "set" => config # "defaults")'
    BY <1>1, <2>1 DEF ClientTypeOK, JobsSeeConfig
  <2>3. \A j \in Jobs : Known(j)'
    BY <1>1, <2>1, KnownKept DEF Known
  <2>4. KeysDeduplicate' /\ CalledOnce'
    BY <1>1, <2>1, KeysKept
  <2> QED
    BY <2>2, <2>3, <2>4
<1>5. CASE Restart
  <2>1. config' = "lost" /\ UNCHANGED <<status, attempts, expired, completed, repeats>>
    BY <1>5 DEF Restart, lifeVars, history
  <2>2. ClientTypeOK' /\ JobsSeeConfig' /\ (flight = "set" => config # "defaults")'
    BY <1>1, <2>1 DEF ClientTypeOK, JobsSeeConfig
  <2>3. \A j \in Jobs : Known(j)'
    BY <1>1, <2>1, KnownKept DEF Known
  <2>4. KeysDeduplicate' /\ CalledOnce'
    BY <1>1, <2>1, KeysKept
  <2> QED
    BY <2>2, <2>3, <2>4
<1>6. CASE Sweep
  <2>1. UNCHANGED <<expired, config, completed, repeats>>
    BY <1>6 DEF Sweep, setup, history
  <2>2. PICK S \in SUBSET expired : Forget(S)
    BY <1>6 DEF Sweep
  <2>3. \A j \in Jobs : status'[j] = status[j] \/ (status[j] = "done" /\ status'[j] = "absent" /\ j \in expired)
    BY <2>2 DEF Forget, ClientTypeOK
  <2>4. ClientTypeOK'
    BY <1>1, <2>1, <2>2 DEF Forget, ClientTypeOK
  <2>5. JobsSeeConfig' /\ (flight = "set" => config # "defaults")'
    BY <1>1, <2>1, <2>3 DEF JobsSeeConfig
  <2>6. \A j \in Jobs : Known(j)'
    BY <1>1, <2>1, <2>3, KnownKept DEF Known
  <2>7. KeysDeduplicate' /\ CalledOnce'
    BY <1>1, <2>1, <2>3, KeysKept
  <2> QED
    BY <2>4, <2>5, <2>6, <2>7
<1> QED
  BY <1>2, <1>3, <1>4, <1>5, <1>6 DEF ObjectStep

-----------------------------------------------------------------------------
(* The calls.                                                               *)

\* enqueue, drain, configure: no result is told.
LEMMA SetupKeeps ==
  ASSUME Truthful,
         \/ \E j \in Jobs : EnqueueCalled(j) \/ EnqueueSends(j) \/ GiveUpPasses(j)
         \/ ConfigureArrives \/ DrainCalled \/ DrainStep
  PROVE  Truthful'
<1> USE DEF Truthful
<1>1. UNCHANGED <<status, attempts, expired, handle, reader, answer, completed, repeats>>
  BY DEF EnqueueCalled, EnqueueSends, GiveUpPasses, ConfigureArrives, DrainCalled, DrainStep,
         DrainSends, DrainAnswered, DrainWakes, lifeVars, caller, history
<1>2. \A j \in Jobs : Known(j)'
  BY <1>1, KnownKept DEF Known
<1>3. /\ flight' \in {"none", "sent", "set", "rejected"} /\ config' \in {"defaults", "ours", "lost"}
      /\ config # "defaults" => config' # "defaults"
      /\ flight' = "set" => config' # "defaults"
      /\ overdue' \subseteq Jobs
  BY DEF EnqueueCalled, EnqueueSends, GiveUpPasses, ConfigureArrives, DrainCalled, DrainStep,
         DrainSends, DrainAnswered, DrainWakes, SharedFlight, setup, caller, ClientTypeOK
<1>4. drainer' \in {"idle", "waiting", "failed", "asking", "sleeping", "returned"}
  BY DEF EnqueueCalled, EnqueueSends, GiveUpPasses, ConfigureArrives, DrainCalled, DrainStep,
         DrainSends, DrainAnswered, DrainWakes, AfterFlight, caller, ClientTypeOK
<1>5. /\ enqueuer' \in [Jobs -> {"idle", "waiting", "sent", "returned", "failed"}]
      /\ \A j \in Jobs : /\ enqueuer'[j] = "sent" => enqueuer[j] = "sent" \/ flight = "set"
                         /\ enqueuer[j] \in {"returned", "failed"} => enqueuer'[j] = enqueuer[j]
  <2>1. CASE UNCHANGED enqueuer
    BY <2>1 DEF ClientTypeOK
  <2>2. ASSUME NEW i \in Jobs, EnqueueCalled(i) \/ EnqueueSends(i)
        PROVE  /\ enqueuer' \in [Jobs -> {"idle", "waiting", "sent", "returned", "failed"}]
               /\ \A j \in Jobs : /\ enqueuer'[j] = "sent" => enqueuer[j] = "sent" \/ flight = "set"
                                  /\ enqueuer[j] \in {"returned", "failed"} => enqueuer'[j] = enqueuer[j]
    BY <2>2 DEF EnqueueCalled, EnqueueSends, Enqueuer, AfterFlight, FlightSettled, ClientTypeOK
  <2> QED
    BY <2>1, <2>2 DEF GiveUpPasses, ConfigureArrives, DrainCalled, DrainStep, DrainSends,
                      DrainAnswered, DrainWakes, setup
<1>6. ClientTypeOK'
  BY <1>1, <1>3, <1>4, <1>5 DEF ClientTypeOK
<1>7. JobsSeeConfig'
  BY <1>1, <1>3, <1>5 DEF JobsSeeConfig
<1>8. KeysDeduplicate' /\ CalledOnce'
  BY <1>1, <1>5, KeysKept
<1> QED
  BY <1>2, <1>3, <1>6, <1>7, <1>8

\* enqueue is answered, and cancel.
LEMMA EnqueueKeeps ==
  ASSUME Truthful, NEW i \in Jobs, Enqueue(i) \/ CancelHandle(i)
  PROVE  Truthful'
<1> USE DEF Truthful
<1>1. /\ UNCHANGED <<expired, reader, answer, drainer, overdue, flight, config, completed>>
      /\ UNCHANGED attempts /\ handle \subseteq handle' /\ handle' \subseteq handle \cup {i}
  BY DEF Enqueue, Accept, CancelHandle, Submit, CancelOne, lifeVars, caller, setup, history
<1>2. \/ UNCHANGED <<status, handle, repeats>>
      \/ enqueuer[i] = "sent" /\ KeyTaken(i) /\ repeats' = repeats \cup {i} /\ UNCHANGED status
      \/ /\ enqueuer[i] = "sent" /\ ~KeyTaken(i) /\ status' = [status EXCEPT ![i] = "queued"]
         /\ UNCHANGED repeats
      \/ /\ UNCHANGED <<handle, repeats>> /\ status' = [status EXCEPT ![i] = "cancelled"]
         /\ status[i] \in {"queued", "leased"}
  BY DEF Enqueue, Accept, CancelHandle, Submit, CancelOne, Move, lifeVars, caller, history
<1>3. /\ enqueuer' \in [Jobs -> {"idle", "waiting", "sent", "returned", "failed"}]
      /\ \A j \in Jobs : /\ enqueuer'[j] = "sent" => enqueuer[j] = "sent"
                         /\ enqueuer[j] \in {"returned", "failed"} => enqueuer'[j] = enqueuer[j]
      /\ enqueuer[i] = "sent" => enqueuer'[i] \in {"returned", "failed"}
  BY DEF Enqueue, CancelHandle, CancelOne, Move, Enqueuer, setup, ClientTypeOK, CalledOnce
<1>4. enqueuer[i] = "sent" => status[i] = "absent" /\ i \notin repeats
  BY DEF CalledOnce
<1>5. \A j \in Jobs : \/ status'[j] = status[j]
                      \/ j = i /\ status'[j] = "queued" /\ enqueuer[j] = "sent"
                      \/ j = i /\ status[j] \in {"queued", "leased"} /\ status'[j] = "cancelled"
  BY <1>2 DEF ClientTypeOK
<1>6. ClientTypeOK'
  BY <1>1, <1>2, <1>3 DEF ClientTypeOK
<1>7. JobsSeeConfig' /\ (flight = "set" => config # "defaults")'
  BY <1>1, <1>3, <1>5 DEF JobsSeeConfig
<1>8. ASSUME NEW j \in Jobs PROVE Known(j)'
  <2>1. j \in handle' /\ status'[j] = "absent" => j \in expired \cup repeats'
    <3>1. status \in [Jobs -> Stati] /\ (j \in handle /\ status[j] = "absent" => j \in expired \cup repeats)
      BY DEF ClientTypeOK, Stati, Known
    <3> QED
      BY <1>1, <1>2, <1>5, <3>1
  <2>2. repeats \subseteq repeats' /\ (status[j] \in {"failed", "cancelled"} => status'[j] = status[j])
    BY <1>2, <1>4, <1>5
  <2> QED
    BY <1>1, <1>5, <2>1, <2>2, KnownKept DEF Known
<1>9. CalledOnce'
  BY <1>2, <1>3, <1>5 DEF CalledOnce
<1>10. KeysDeduplicate'
  <2>1. CASE UNCHANGED status /\ KeyTaken(i) /\ enqueuer[i] = "sent" /\ repeats' = repeats \cup {i}
    <3>1. PICK k \in Matching(i) : status[k] # "absent"
      BY <2>1 DEF KeyTaken
    <3> QED
      BY <1>1, <1>4, <2>1, <3>1 DEF KeysDeduplicate, Gone
  <2>2. CASE enqueuer[i] = "sent" /\ ~KeyTaken(i) /\ status' = [status EXCEPT ![i] = "queued"] /\ UNCHANGED repeats
    <3>1. \A j \in Jobs : status'[j] = IF j = i THEN "queued" ELSE status[j]
      BY <2>2 DEF ClientTypeOK
    <3>2. \A k \in Matching(i) : status[k] = "absent" /\ k # i /\ k \in Jobs
      BY <2>2 DEF KeyTaken, Matching
    <3>3. ASSUME NEW j \in Jobs, NEW k \in Matching(j) PROVE "absent" \in {status'[j], status'[k]}
      <4>1. k \in Jobs /\ k # j /\ (k = i => j \in Matching(i))
        BY <3>3 DEF Matching
      <4> QED
        BY <3>1, <3>2, <3>3, <4>1 DEF KeysDeduplicate
    <3>4. ASSUME NEW j \in repeats
          PROVE  status'[j] = "absent" /\ \E k \in Matching(j) : status'[k] # "absent" \/ Gone(k)'
      <4>1. PICK k \in Matching(j) : status[k] # "absent" \/ Gone(k)
        BY <3>4 DEF KeysDeduplicate
      <4>2. k \in Jobs /\ j \in Jobs /\ j # i /\ status[j] = "absent"
        BY <1>4, <2>2, <3>4 DEF Matching, KeysDeduplicate, ClientTypeOK
      <4> QED
        BY <1>1, <3>1, <4>1, <4>2 DEF Gone
    <3> QED
      BY <2>2, <3>3, <3>4 DEF KeysDeduplicate
  <2>3. CASE UNCHANGED repeats /\ (UNCHANGED status \/ (/\ status' = [status EXCEPT ![i] = "cancelled"]
                                                        /\ status[i] \in {"queued", "leased"}))
    <3>1. \A j \in Jobs : status'[j] = "absent" <=> status[j] = "absent"
      BY <2>3 DEF ClientTypeOK
    <3> QED
      BY <1>1, <1>3, <2>3, <3>1, KeysKept
  <2> QED
    BY <1>2, <2>1, <2>2, <2>3
<1> QED
  BY <1>6, <1>7, <1>8, <1>9, <1>10

LEMMA OutcomeTells ==
  ASSUME NEW word \in {"pending", "done", "cancelled", "failed", "expired"}
  PROVE  /\ Outcome(word) \in {"value", "cancelled", "error", "ResultExpiredError", "sleeping"}
         /\ Outcome(word) = "value" => word = "done"
         /\ Outcome(word) = "cancelled" => word = "cancelled"
         /\ Outcome(word) = "error" => word = "failed"
<1>1. /\ Outcome("done") = "value" /\ Outcome("cancelled") = "cancelled"
      /\ Outcome("failed") = "error" /\ Outcome("expired") = "ResultExpiredError"
      /\ Outcome("pending") = "sleeping"
  BY Zenon DEF Outcome
<1> QED
  BY <1>1

\* result: what the object read is what the call hears.
LEMMA ResultKeeps ==
  ASSUME Truthful, NEW i \in Jobs, ResultCalled(i) \/ ResultStep(i)
  PROVE  Truthful'
<1> USE DEF Truthful
<1>1. /\ UNCHANGED <<status, attempts, expired, handle, drainer, overdue, flight, config, enqueuer>>
      /\ UNCHANGED <<completed, repeats>>
  BY DEF ResultCalled, ResultStep, Ask, Answered, Receive, lifeVars, setup, history
<1>2. Read(i) \in {"pending", "done", "cancelled", "failed", "expired"}
  BY DEF Read, ClientTypeOK
<1>3. /\ reader' = [reader EXCEPT ![i] = reader'[i]] /\ reader'[i] \in ReaderState
      /\ answer' = [answer EXCEPT ![i] = answer'[i]] /\ answer'[i] \in Answer
  <2>1. CASE ResultCalled(i) \/ Ask(i)
    BY <2>1 DEF ResultCalled, Ask, Reader, ReaderState, Answer, Returned, ClientTypeOK
  <2>2. CASE Answered(i)
    BY <1>2, <2>2 DEF Answered, Reader, ReaderState, Answer, ClientTypeOK
  <2>3. CASE Receive(i)
    <3>1. answer[i] \in {"pending", "done", "cancelled", "failed", "expired"}
      BY <2>3 DEF Receive, Known, Answer, ClientTypeOK
    <3> QED
      BY <2>3, <3>1, OutcomeTells DEF Receive, Reader, ReaderState, Answer, Returned, ClientTypeOK
  <2> QED
    BY <2>1, <2>2, <2>3 DEF ResultStep
<1>4. ClientTypeOK' /\ JobsSeeConfig' /\ (flight = "set" => config # "defaults")'
  BY <1>1, <1>3 DEF ClientTypeOK, JobsSeeConfig
<1>5. ASSUME NEW j \in Jobs, j # i PROVE Known(j)'
  <2>1. reader'[j] = reader[j] /\ answer'[j] = answer[j]
    BY <1>3, <1>5 DEF ClientTypeOK
  <2> QED
    BY <1>1, <2>1, KnownKept DEF Known
<1>6. Known(i)'
  <2>1. CASE ResultCalled(i) \/ Ask(i)
    BY <1>1, <2>1 DEF ResultCalled, Ask, Reader, Known, Heard, ClientTypeOK
  <2>2. CASE Answered(i)
    <3>1. reader'[i] = "answered" /\ answer'[i] = Read(i) /\ i \in handle
      BY <2>2 DEF Answered, Reader, Known, ClientTypeOK
    <3>2. /\ Read(i) = "done" => status[i] = "done"
          /\ Read(i) = "cancelled" => status[i] = "cancelled"
          /\ Read(i) = "failed" => status[i] \in {"absent", "failed"}
      BY DEF Read, ClientTypeOK
    <3> QED
      BY <1>1, <1>2, <3>1, <3>2 DEF Known, Heard
  <2>3. CASE Receive(i)
    <3>1. reader[i] = "answered" /\ reader'[i] \in {Outcome(answer[i]), "rejected"}
      BY <2>3 DEF Receive, Reader, ClientTypeOK
    <3>2. answer[i] \in {"pending", "done", "cancelled", "failed", "expired"}
      BY <3>1 DEF Known, Answer, ClientTypeOK
    <3>3. reader'[i] \notin {"idle", "answered"}
      BY <3>1, <3>2, OutcomeTells
    <3> QED
      BY <1>1, <3>1, <3>2, <3>3, OutcomeTells DEF Known, Heard
  <2> QED
    BY <2>1, <2>2, <2>3 DEF ResultStep
<1>7. KeysDeduplicate' /\ CalledOnce'
  BY <1>1, KeysKept
<1> QED
  BY <1>4, <1>5, <1>6, <1>7

-----------------------------------------------------------------------------

LEMMA TruthfulNext == ASSUME Truthful, [ClientNext]_clientVars PROVE Truthful'
<1>1. CASE UNCHANGED clientVars
  <2>1. UNCHANGED <<status, attempts, expired, handle, reader, answer, drainer, overdue,
                    flight, config, enqueuer, completed, repeats>>
    BY <1>1 DEF clientVars, lifeVars, caller, setup, history
  <2>2. Truthful => KeysDeduplicate' /\ CalledOnce'
    BY <2>1, KeysKept
  <2> QED
    BY <2>1, <2>2 DEF Truthful, ClientTypeOK, JobsSeeConfig, Known, Heard
<1> QED
  BY <1>1, ObjectKeeps, SetupKeeps, EnqueueKeeps, ResultKeeps DEF ClientNext, CallerStep, EnqueueStep

\* For every set of jobs and keys: what result() reports is so, and a handle is
\* of a job that the object accepted under the limits of the options, or of a
\* repeat under a key that was taken (api/scheduler.ts 151-251).
THEOREM ResultsAreTrue == ClientSpec => []ResultIsTrue
<1>1. ClientInit => Truthful
  BY DEF ClientInit, LifeInit, Truthful, ClientTypeOK, JobsSeeConfig, KeysDeduplicate, CalledOnce,
         Matching, Known, Heard, ReaderState, Answer
<1>2. Truthful /\ [ClientNext]_clientVars => Truthful'
  BY TruthfulNext
<1>3. Truthful => ResultIsTrue
  BY DEF Truthful, Known, Heard, Gone, ResultIsTrue, ClientTypeOK
<1> QED
  BY <1>1, <1>2, <1>3, PTL DEF ClientSpec
=============================================================================
