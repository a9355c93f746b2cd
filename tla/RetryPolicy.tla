----------------------------- MODULE RetryPolicy -----------------------------
(***************************************************************************)
(* How long a failed message stays hidden: SetRetryAfter (retry_poilcy.go) of  *)
(* the handlers of one process, which share the policy.  The first of them     *)
(* that comes so far puts the policy into order, under a sync.Once; then each   *)
(* computes its own Retry-After from the receive count of its message.        *)
(*                                                                         *)
(* Abstractions.  Times are whole seconds and the factor is a whole number; each *)
(* may be negative, as nothing looks at them when they are decoded (hcl.go).    *)
(* A random number is one of the fractions 0, 1/Fractions, ... below 1: the     *)
(* generator is shared without a lock, and nothing is assumed of what it gives. *)
(* The receive count is there and is a number, as SQS has it; SetRetryAfter     *)
(* takes 1 for what is none.                                                *)
(***************************************************************************)
EXTENDS Integers

CONSTANTS
  Handlers,
  Policies,    \* the retry_policy blocks that are looked at
  NoPolicy,    \* there is no such block
  Fractions,   \* how many random numbers are looked at
  NoHeader     \* no Retry-After is set: the queue's own timeout applies

RetryPolicies == [interval : Int, jitter : Int, max : Int, factor : Int]

ASSUME PoliciesAssumption ==
  /\ Policies \subseteq RetryPolicies
  /\ NoPolicy \notin RetryPolicies
  /\ Fractions \in Nat \ {0}
  /\ NoHeader \notin Int

VARIABLES
  written,  \* the policy of the file
  policy,   \* app.retryPolicy
  once,     \* rp.once has run
  waits     \* handler -> the last Retry-After

retryVars == <<written, policy, once, waits>>

RetryTypeOK ==
  /\ written \in Policies \cup {NoPolicy}
  /\ policy \in RetryPolicies \cup {NoPolicy}
  /\ once \in BOOLEAN
  /\ waits \in [Handlers -> Int \cup {NoHeader}]

RetryInit ==
  /\ written \in Policies \cup {NoPolicy}
  /\ policy = written
  /\ once = FALSE
  /\ waits = [h \in Handlers |-> NoHeader]

Least(a, b) == IF a < b THEN a ELSE b

\* Mutant: without a factor the interval stays the same.
PutInOrderConstant(p) ==
  [p EXCEPT !.factor = IF @ = 0 THEN 1 ELSE @, !.interval = Least(@, p.max)]

\* The function that the Once runs.
PutInOrder(p) ==
  [p EXCEPT !.factor = IF @ = 0 THEN 2 ELSE @, !.interval = Least(@, p.max)]

\* math.Pow of whole numbers.
Power(base, n) ==
  LET power[k \in Nat] == IF k = 0 THEN 1 ELSE base * power[k - 1] IN power[n]

\* int() of a fraction cuts towards zero.
Truncated(n, d) == IF n >= 0 THEN n \div d ELSE -((-n) \div d)

\* The seconds for a receive count and the random number f / Fractions.
RetryAfter(p, count, f) ==
  LET s == p.interval * Power(p.factor, count - 1)
  IN IF s > p.max THEN Truncated(p.max * Fractions - f * p.jitter, Fractions)
                  ELSE Truncated(s * Fractions + f * p.jitter, Fractions)

HasPolicy == policy # NoPolicy /\ policy.interval >= 0

\* Nothing is set without a policy, or if its interval is negative.
NoRetryAfter(h) ==
  /\ ~ HasPolicy
  /\ waits' = [waits EXCEPT ![h] = NoHeader]
  /\ UNCHANGED <<written, policy, once>>

\* once.Do: the first one works, the others wait until it has.  Whether there is an
\* interval was seen before.
Once ==
  /\ once' = TRUE
  /\ policy' = IF once THEN policy ELSE PutInOrder(policy)
  /\ UNCHANGED <<written, waits>>

\* The rest of SetRetryAfter.
Wait(h, count) ==
  /\ \E f \in 0 .. Fractions - 1 :
       waits' = [waits EXCEPT ![h] = RetryAfter(policy, count, f)]
  /\ UNCHANGED <<written, policy, once>>

-----------------------------------------------------------------------------
(* Properties.                                                              *)

\* What the policy of the file asks for: the interval, that is no more than the
\* maximum, times the factor for every earlier delivery.
Asked(p, count) ==
  Least(p.interval, p.max) * Power(IF p.factor = 0 THEN 2 ELSE p.factor, count - 1)

Between(a, b, w) == (a <= w /\ w <= b) \/ (b <= w /\ w <= a)

\* The bounds of one answer: the jitter comes on top of what is asked for, or, if that
\* is more than the maximum, is taken from the maximum.
InBounds(p, count, w) ==
  IF Asked(p, count) > p.max THEN Between(p.max - p.jitter, p.max, w)
  ELSE Between(Asked(p, count), Asked(p, count) + p.jitter, w)

=============================================================================
