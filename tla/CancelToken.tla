---------------------------- MODULE CancelToken ----------------------------
(***************************************************************************)
(* CancelToken (api/cancel.ts): a tree of tokens, each with an AbortSignal *)
(* of its own.  A token is made bare, as the child of another, with a      *)
(* timeout, or as the mirror of an AbortSignal that somebody else owns.    *)
(* A cancel is one synchronous step: the token, its subscribers, and the   *)
(* tokens below it.  Reasons are left out.                                 *)
(***************************************************************************)
EXTENDS Naturals, FiniteSets

CONSTANTS
  Tokens,
  BareTokens, ChildTokens, TimerTokens, MirrorTokens   \* how each may be made

VARIABLES
  token,      \* "none", "live" or "cancelled"
  children,   \* #children of each token
  mirrors,    \* the tokens that listen to the outside AbortSignal
  due,        \* the tokens a timer or a queued microtask will cancel
  aborted,    \* whether the outside AbortSignal has fired
  linked      \* history: who was made by child() of whom, until a dispose

tokenVars == <<token, children, mirrors, due, aborted, linked>>

TokenInit ==
  /\ token = [t \in Tokens |-> "none"]
  /\ children = [t \in Tokens |-> {}]
  /\ mirrors = {}
  /\ due = {}
  /\ aborted = FALSE
  /\ linked = {}

\* Wrong: forgets the tokens below.
OnlyItself(t) == {t}

\* The tokens that a cancel of t reaches: the least set that has t and the
\* children of its members.
Below(t) ==
  {s \in Tokens : \A S \in SUBSET Tokens :
                    t \in S /\ (\A p \in S : children[p] \subseteq S) => s \in S}

-----------------------------------------------------------------------------
(* cancel: each token of the subtree aborts, clears its timer and its       *)
(* #children, and leaves the set of the parent it was cancelled below.      *)
CancelAll(ts) ==
  LET hit == {t \in UNION {Below(s) : s \in ts} : token[t] = "live"} IN
  /\ token' = [t \in Tokens |-> IF t \in hit THEN "cancelled" ELSE token[t]]
  /\ children' = [t \in Tokens |-> IF t \in hit THEN {} ELSE children[t] \ hit]

\* token.cancel().
Cancel(t) ==
  /\ token[t] = "live"
  /\ CancelAll({t})
  /\ due' = due \ Below(t)
  /\ UNCHANGED <<mirrors, aborted, linked>>

\* new CancelToken().
New(t) ==
  /\ t \in BareTokens /\ token[t] = "none"
  /\ token' = [token EXCEPT ![t] = "live"]
  /\ UNCHANGED <<children, mirrors, due, aborted, linked>>

\* Wrong: a child of a cancelled token is linked to it like any other.
ChildLinksAnyway(p, t) ==
  /\ t \in ChildTokens /\ token[p] # "none" /\ token[t] = "none"
  /\ token' = [token EXCEPT ![t] = "live"]
  /\ children' = [children EXCEPT ![p] = @ \cup {t}]
  /\ linked' = linked \cup {<<p, t>>}
  /\ UNCHANGED <<mirrors, due, aborted>>

\* parent.child(): a child of a cancelled token is cancelled at once.
Child(p, t) ==
  /\ t \in ChildTokens /\ token[p] # "none" /\ token[t] = "none"
  /\ token' = [token EXCEPT ![t] = token[p]]
  /\ children' = IF token[p] = "cancelled" THEN children
                 ELSE [children EXCEPT ![p] = @ \cup {t}]
  /\ linked' = linked \cup {<<p, t>>}
  /\ UNCHANGED <<mirrors, due, aborted>>

\* CancelToken.fromAbortSignal: a signal that has fired already cancels in a
\* microtask, so that subscribers can attach first.
FromAbortSignal(t) ==
  /\ t \in MirrorTokens /\ token[t] = "none"
  /\ token' = [token EXCEPT ![t] = "live"]
  /\ IF aborted THEN due' = due \cup {t} /\ UNCHANGED mirrors
                ELSE mirrors' = mirrors \cup {t} /\ UNCHANGED due
  /\ UNCHANGED <<children, aborted, linked>>

\* CancelToken.withTimeout with ms > 0; with ms <= 0 it is New and Cancel.
WithTimeout(t) ==
  /\ t \in TimerTokens /\ token[t] = "none"
  /\ token' = [token EXCEPT ![t] = "live"]
  /\ due' = due \cup {t}
  /\ UNCHANGED <<children, mirrors, aborted, linked>>

\* The outside AbortSignal fires: every listener cancels its token.
SignalAborts ==
  /\ ~aborted
  /\ aborted' = TRUE
  /\ mirrors' = {}
  /\ CancelAll(mirrors)
  /\ due' = due \ UNION {Below(t) : t \in mirrors}
  /\ UNCHANGED linked

\* The timer or the microtask of t.
DueFires(t) ==
  /\ t \in due
  /\ CancelAll({t})
  /\ due' = due \ Below(t)
  /\ UNCHANGED <<mirrors, aborted, linked>>

\* await using: the token stops listening and forgets its children; it does
\* not cancel, and a timer or a queued microtask stays.
Dispose(t) ==
  /\ token[t] # "none"
  /\ t \in mirrors \/ children[t] # {}
  /\ mirrors' = mirrors \ {t}
  /\ children' = [children EXCEPT ![t] = {}]
  /\ linked' = {l \in linked : l[1] # t}
  /\ UNCHANGED <<token, due, aborted>>

TokenNext ==
  \/ SignalAborts
  \/ \E t \in Tokens :
       \/ Cancel(t) \/ New(t) \/ FromAbortSignal(t) \/ WithTimeout(t)
       \/ DueFires(t) \/ Dispose(t)
       \/ \E p \in Tokens : Child(p, t)
=============================================================================
