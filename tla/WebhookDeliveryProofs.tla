----------------------- MODULE WebhookDeliveryProofs -----------------------
(***************************************************************************)
(* Proofs about WebhookDelivery, for any webhooks, instances and receive     *)
(* counts.  Whether an alert is lost hinges on which workers run: the theorem *)
(* assumes what Run guarantees for the modes "http" and "worker".            *)
(***************************************************************************)
EXTENDS WebhookDelivery, TLAPS

\* No instance that serves and works at once runs with a configuration in error.
OnlyCompleteWorkers ==
  \A i \in Instances :
    ModeOf[i] = "all" => ErrorHandling = "return" \/ Configs \subseteq {"sound"}

\* A message is processed by a worker that was given a sound configuration.
WorkersAreSound ==
  \A i \in Instances :
    /\ Works(i) => config[i] = "sound"
    /\ job[i] # Nothing => Works(i)

\* The copies of a webhook are numbered by its POSTs, and one was sent if the
\* server said 200.
PostsAreBounded == \A w \in Webhooks : posts[w] <= MaxPosts[w]
AcceptedWasSent ==
  \A w \in accepted : \E m \in Messages : Webhook(m) = w /\ status[m] # "unsent"

Inv == TypeOK /\ WorkersAreSound /\ PostsAreBounded /\ AcceptedWasSent /\ DeletedIsDone

-----------------------------------------------------------------------------
(* Messages are pairs of a webhook and a number.                            *)
LEMMA MessageOf ==
  /\ \A m \in Messages : Webhook(m) \in Webhooks
  /\ \A w \in Webhooks : \A k \in 1 .. MaxPosts[w] :
       <<w, k>> \in Messages /\ Webhook(<<w, k>>) = w
  BY DEF Messages, Webhook

(* A worker only deletes what it may: the effect of Delete on one message.  *)
LEMMA DeleteEffect ==
  ASSUME NEW i \in Instances, job[i] \in Messages, TypeOK, Delete(i)
  PROVE  /\ status' \in [Messages -> Kept \cup {"unsent", "deleted"}]
         /\ \A m \in Messages : m # job[i] => status'[m] = status[m]
         /\ status'[job[i]] \in {status[job[i]], "deleted"}
         /\ receives' = receives
  BY DEF Delete, TypeOK, Kept

(* The initial state satisfies the invariant.                               *)
LEMMA InitInv == Init => Inv
  BY ConstantsAssumption, MessageOf
  DEF Init, Inv, TypeOK, Kept, WorkersAreSound, Works, PostsAreBounded, AcceptedWasSent,
      DeletedIsDone

(* Types are kept by every step.                                            *)
LEMMA TypeStep == TypeOK /\ PostsAreBounded /\ [Next]_vars => TypeOK'
<1> SUFFICES ASSUME TypeOK, PostsAreBounded, [Next]_vars PROVE TypeOK'
    OBVIOUS
<1> USE ConstantsAssumption
<1>1. ASSUME NEW i \in Instances, NEW c \in Configs, Start(i, c) PROVE TypeOK'
  BY <1>1 DEF TypeOK, Start, serverVars, queueVars
<1>2. ASSUME NEW i \in Instances, Stop(i) PROVE TypeOK'
  BY <1>2 DEF TypeOK, Stop, serverVars, queueVars
<1>3. ASSUME NEW i \in Instances, NEW w \in Webhooks, Post(i, w) PROVE TypeOK'
  <2>1. posts'[w] \in 1 .. MaxPosts[w] /\ posts' \in [Webhooks -> Nat]
    BY <1>3 DEF TypeOK, Post
  <2>2. <<w, posts'[w]>> \in Messages
    BY <2>1, MessageOf
  <2>3. status' \in [Messages -> Kept \cup {"unsent", "deleted"}]
    BY <1>3, <2>2 DEF TypeOK, Post, Kept
  <2> QED BY <1>3, <2>1, <2>3 DEF TypeOK, Post
<1>4. ASSUME NEW i \in Instances, NEW m \in Messages, Receive(i, m) PROVE TypeOK'
  BY <1>4 DEF TypeOK, Receive, serverVars, Kept
<1>5. ASSUME NEW i \in Instances, WorkerStep(i) PROVE TypeOK'
  <2>1. job[i] \in Messages /\ Webhook(job[i]) \in Webhooks
    BY <1>5, MessageOf DEF TypeOK, WorkerStep, Processing, Reject, Ignore, ExecutionFails,
                           ExecutionSucceeds
  <2>2. CASE Reject(i) \/ ExecutionFails(i)
    BY <2>2 DEF TypeOK, Reject, ExecutionFails, Answered, serverVars, queueVars
  <2>3. CASE Ignore(i) \/ ExecutionSucceeds(i)
    <3>1. Delete(i) /\ Answered(i) /\ reported' \subseteq Webhooks
      BY <2>1, <2>3 DEF TypeOK, Ignore, ExecutionSucceeds
    <3> QED BY <2>1, <3>1, DeleteEffect DEF TypeOK, Answered, serverVars
  <2> QED BY <1>5, <2>2, <2>3 DEF WorkerStep
<1>6. ASSUME NEW m \in Messages, Expire(m) \/ DeadLetter(m) PROVE TypeOK'
  BY <1>6 DEF TypeOK, Expire, DeadLetter, serverVars, Kept
<1>7. CASE Idle \/ UNCHANGED vars
  BY <1>7 DEF Idle, vars, TypeOK
<1> QED BY <1>1, <1>2, <1>3, <1>4, <1>5, <1>6, <1>7 DEF Next

(* Run starts a worker only with a sound configuration, and only a worker     *)
(* receives.                                                                *)
LEMMA WorkersStep ==
  ASSUME OnlyCompleteWorkers, TypeOK, WorkersAreSound, [Next]_vars
  PROVE  WorkersAreSound'
<1> USE ConstantsAssumption DEF WorkersAreSound, Works
<1>1. ASSUME NEW i \in Instances, NEW c \in Configs, Start(i, c) PROVE WorkersAreSound'
  BY <1>1 DEF TypeOK, Start, MayRun, WorkerIsReady, OnlyCompleteWorkers
<1>2. ASSUME NEW i \in Instances, Stop(i) PROVE WorkersAreSound'
  BY <1>2 DEF TypeOK, Stop
<1>3. ASSUME NEW i \in Instances, NEW m \in Messages, Receive(i, m) PROVE WorkersAreSound'
  BY <1>3 DEF TypeOK, Receive
<1>4. ASSUME NEW i \in Instances, WorkerStep(i) PROVE WorkersAreSound'
  BY <1>4 DEF TypeOK, WorkerStep, Reject, Ignore, ExecutionFails, ExecutionSucceeds, Answered
<1>5. ASSUME NEW i \in Instances, NEW w \in Webhooks, Post(i, w) PROVE WorkersAreSound'
  BY <1>5 DEF Post
<1>6. ASSUME NEW m \in Messages, Expire(m) \/ DeadLetter(m) PROVE WorkersAreSound'
  BY <1>6 DEF Expire, DeadLetter
<1>7. CASE Idle \/ UNCHANGED vars
  BY <1>7 DEF Idle, vars
<1> QED BY <1>1, <1>2, <1>3, <1>4, <1>5, <1>6, <1>7 DEF Next

-----------------------------------------------------------------------------
(* What happens to a message that is in the queue, deleted, or reported.    *)

\* A message never returns to "unsent", and what was reported stays so.
Onward ==
  /\ \A m \in Messages : status[m] # "unsent" => status'[m] # "unsent"
  /\ reported \subseteq reported'
  /\ posts' = posts /\ accepted' = accepted

(* Post counts one more POST, within the bound.                              *)
LEMMA PostCounts ==
  ASSUME TypeOK, PostsAreBounded, NEW i \in Instances, NEW w \in Webhooks, Post(i, w)
  PROVE  PostsAreBounded' /\ posts'[w] \in 1 .. MaxPosts[w]
<1>1. /\ posts \in [Webhooks -> Nat] /\ MaxPosts \in [Webhooks -> Nat]
      /\ posts[w] < MaxPosts[w] /\ posts' = [posts EXCEPT ![w] = @ + 1]
  BY ConstantsAssumption DEF TypeOK, Post
<1>2. \A v \in Webhooks : posts'[v] = IF v = w THEN posts[v] + 1 ELSE posts[v]
  BY <1>1
<1> QED BY <1>1, <1>2 DEF PostsAreBounded

(* Post, the one step that accepts, keeps the invariant.                    *)
LEMMA PostStep ==
  ASSUME Inv, NEW i \in Instances, NEW w \in Webhooks, Post(i, w)
  PROVE  PostsAreBounded' /\ AcceptedWasSent' /\ DeletedIsDone'
<1> USE ConstantsAssumption DEF Inv
<1> DEFINE n == <<w, posts'[w]>>
<1>1. posts'[w] \in 1 .. MaxPosts[w] /\ PostsAreBounded'
  BY PostCounts
<1>2. n \in Messages /\ Webhook(n) = w
  BY <1>1, MessageOf
<1>3. \A m \in Messages : status'[m] = status[m] \/ status'[m] = "visible"
  BY <1>2 DEF TypeOK, Post
<1>4. AcceptedWasSent'
  <2>1. CASE accepted' = accepted
    BY <1>3, <2>1 DEF AcceptedWasSent
  <2>2. CASE accepted' = accepted \cup {w} /\ status'[n] = "visible"
    BY <1>2, <1>3, <2>2 DEF AcceptedWasSent
  <2> QED BY <1>2, <2>1, <2>2 DEF TypeOK, Post
<1>5. DeletedIsDone'
  BY <1>3 DEF DeletedIsDone, Post
<1> QED BY <1>1, <1>4, <1>5

(* An answer of a sound worker keeps it: what it deletes was reported or is   *)
(* no alert.                                                                *)
LEMMA AnswerStep ==
  ASSUME Inv, NEW i \in Instances, WorkerStep(i)
  PROVE  Onward /\ DeletedIsDone'
<1> DEFINE w == Webhook(job[i])
<1>1. job[i] \in Messages
  BY DEF Inv, TypeOK, WorkerStep, Processing, Reject, Ignore, ExecutionFails, ExecutionSucceeds
<1>2. CASE Reject(i) \/ ExecutionFails(i)
  BY <1>2 DEF Inv, Reject, ExecutionFails, Answered, serverVars, queueVars, Onward, DeletedIsDone
<1>3. CASE Ignore(i) \/ ExecutionSucceeds(i)
  <2>1. /\ \A m \in Messages : m # job[i] => status'[m] = status[m]
        /\ status'[job[i]] \in {status[job[i]], "deleted"}
    BY <1>1, <1>3, DeleteEffect DEF Inv, Ignore, ExecutionSucceeds
  <2>2. w \in reported' \/ KindOf[w] = "other"
    <3>1. CASE Ignore(i)
      BY <3>1 DEF Ignore, Processing
    <3>2. CASE ExecutionSucceeds(i)
      <4>1. config[i] = "sound"
        BY <3>2 DEF Inv, WorkersAreSound, ExecutionSucceeds, Processing
      <4> QED BY <3>2, <4>1 DEF ExecutionSucceeds, WorkerIsReady
    <3> QED BY <1>3, <3>1, <3>2
  <2>3. posts' = posts /\ accepted' = accepted /\ reported \subseteq reported'
    BY <1>3 DEF Ignore, ExecutionSucceeds, Answered, serverVars
  <2>4. Onward
    BY <2>1, <2>3 DEF Onward
  <2> QED BY <2>1, <2>2, <2>3, <2>4 DEF Inv, DeletedIsDone
<1> QED BY <1>2, <1>3 DEF WorkerStep

(* The other steps neither accept nor delete.                               *)
LEMMA OtherStep ==
  ASSUME Inv,
         \/ \E i \in Instances :
              \/ \E c \in Configs : Start(i, c)
              \/ Stop(i)
              \/ \E m \in Messages : Receive(i, m)
         \/ \E m \in Messages : Expire(m) \/ DeadLetter(m)
         \/ Idle
         \/ UNCHANGED vars
  PROVE  Onward /\ DeletedIsDone'
<1> SUFFICES ASSUME \/ status' = status
                    \/ \E m \in Messages, s \in Kept :
                         status' = [status EXCEPT ![m] = s],
                    UNCHANGED <<posts, accepted, reported>>
             PROVE  Onward /\ DeletedIsDone'
  BY DEF Start, Stop, Receive, Expire, DeadLetter, Idle, vars, serverVars, queueVars, Kept
<1> QED BY DEF Inv, TypeOK, Onward, DeletedIsDone, Kept

(* Every step satisfies the invariant.                                      *)
LEMMA NextInv ==
  ASSUME OnlyCompleteWorkers, Inv, [Next]_vars
  PROVE  Inv'
<1>1. TypeOK' /\ WorkersAreSound'
  BY TypeStep, WorkersStep DEF Inv
<1>2. ASSUME Onward, DeletedIsDone' PROVE Inv'
  <2>1. PostsAreBounded' /\ AcceptedWasSent'
    BY <1>2 DEF Inv, Onward, PostsAreBounded, AcceptedWasSent
  <2> QED BY <1>1, <1>2, <2>1 DEF Inv
<1>3. ASSUME NEW i \in Instances, NEW w \in Webhooks, Post(i, w) PROVE Inv'
  BY <1>1, <1>3, PostStep DEF Inv
<1>4. ASSUME NEW i \in Instances, WorkerStep(i) PROVE Inv'
  BY <1>2, <1>4, AnswerStep
<1>5. ASSUME \/ \E i \in Instances :
                  \/ \E c \in Configs : Start(i, c)
                  \/ Stop(i)
                  \/ \E m \in Messages : Receive(i, m)
             \/ \E m \in Messages : Expire(m) \/ DeadLetter(m)
             \/ Idle
             \/ UNCHANGED vars
      PROVE  Inv'
  BY <1>2, <1>5, OtherStep
<1> QED BY <1>3, <1>4, <1>5 DEF Next

-----------------------------------------------------------------------------
(* Theorems.                                                                *)

\* The types hold whatever the instances are and run with.
THEOREM Typing == Spec => []TypeOK
<1>1. Init => TypeOK /\ PostsAreBounded
  BY InitInv DEF Inv
<1>2. TypeOK /\ PostsAreBounded /\ [Next]_vars => (TypeOK /\ PostsAreBounded)'
  <2> SUFFICES ASSUME TypeOK, PostsAreBounded, [Next]_vars PROVE PostsAreBounded'
    BY TypeStep
  <2>1. ASSUME NEW i \in Instances, NEW w \in Webhooks, Post(i, w) PROVE PostsAreBounded'
    BY <2>1, PostCounts
  <2>2. CASE UNCHANGED posts
    BY <2>2 DEF PostsAreBounded
  <2>3. ASSUME NEW i \in Instances,
               \/ \E c \in Configs : Start(i, c)
               \/ Stop(i)
               \/ \E m \in Messages : Receive(i, m)
               \/ WorkerStep(i)
        PROVE  UNCHANGED posts
    BY <2>3 DEF Start, Stop, Receive, WorkerStep, Reject, Ignore, ExecutionFails,
                ExecutionSucceeds, Answered, serverVars
  <2>4. ASSUME NEW m \in Messages, Expire(m) \/ DeadLetter(m) PROVE UNCHANGED posts
    BY <2>4 DEF Expire, DeadLetter, serverVars
  <2>5. CASE Idle \/ UNCHANGED vars
    BY <2>2, <2>5 DEF Idle, vars
  <2> QED BY <2>1, <2>2, <2>3, <2>4, <2>5 DEF Next
<1> QED BY <1>1, <1>2, PTL DEF Spec

(* The inductive invariant holds in every state, given the workers that Run   *)
(* admits in the modes "http" and "worker".                                 *)
THEOREM Invariance ==
  ASSUME OnlyCompleteWorkers PROVE Spec => []Inv
<1>1. Init => Inv
  BY InitInv
<1>2. Inv /\ [Next]_vars => Inv'
  BY NextInv
<1> QED BY <1>1, <1>2, PTL DEF Spec

\* A worker's 200 is final: what it deletes was reported in full or is no alert.
THEOREM DeletionIsDeserved ==
  ASSUME OnlyCompleteWorkers PROVE Spec => []DeletedIsDone
<1>1. Inv => DeletedIsDone
  BY DEF Inv
<1> QED BY <1>1, Invariance, PTL

\* No webhook that the server accepted is lost, for any number of webhooks,
\* copies, workers and receives.
THEOREM AcceptedIsNotLost ==
  ASSUME OnlyCompleteWorkers PROVE Spec => []NothingIsLost
<1>1. Inv => NothingIsLost
  <2> SUFFICES ASSUME Inv, NEW w \in accepted
               PROVE  \/ w \in reported
                      \/ \E m \in Messages : Webhook(m) = w /\ status[m] \in Kept
                      \/ KindOf[w] = "other"
    BY DEF NothingIsLost
  <2>1. PICK m \in Messages : Webhook(m) = w /\ status[m] # "unsent"
    BY DEF Inv, AcceptedWasSent
  <2>2. CASE status[m] = "deleted"
    BY <2>1, <2>2 DEF Inv, DeletedIsDone
  <2>3. CASE status[m] \in Kept
    BY <2>1, <2>3
  <2> QED BY <2>1, <2>2, <2>3 DEF Inv, TypeOK
<1> QED BY <1>1, Invariance, PTL

=============================================================================
