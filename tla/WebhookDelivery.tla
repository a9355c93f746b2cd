-------------------------- MODULE WebhookDelivery --------------------------
(***************************************************************************)
(* The way of a webhook from the HTTP server through the SQS queue to an     *)
(* execution of the rules, and the start of the processes that serve it      *)
(* (cli.go RunCLI, run.go Run, app.go ServeHTTP).                            *)
(*                                                                         *)
(* The server puts every POST into the queue and answers.  The queue hands   *)
(* a message to one worker at a time, hides it meanwhile, shows it again      *)
(* when the visibility timeout (or the Retry-After that the worker asked for) *)
(* is over, whether the worker has finished or not, and moves it to the dead *)
(* letters when it was received MaxReceive times.  A 200 of the worker        *)
(* deletes it.  An instance may die at any moment.                          *)
(*                                                                         *)
(* Abstractions.  A configuration is sound, or partial: an error after the   *)
(* prepalert block, so that some of the providers, queries and rules are      *)
(* missing, or unusable: the prepalert block itself was not decoded.  What    *)
(* one execution does is the subject of RuleExecution: here it returns nil    *)
(* or an error.  The length of a retry interval is left to RetryPolicy.       *)
(***************************************************************************)
EXTENDS Naturals

CONSTANTS
  Webhooks,
  KindOf,         \* webhook -> "alert", "other" (a test webhook) or "garbage"
  MaxPosts,       \* webhook -> how often Mackerel may post it
  Instances,      \* processes that run prepalert
  ModeOf,         \* instance -> RunOptions.Mode
  Configs,        \* the configurations that may be deployed
  ErrorHandling,  \* CLI.ErrorHandling
  MaxReceive,     \* maxReceiveCount of the queue
  Down,
  Nothing

ASSUME ConstantsAssumption ==
  /\ KindOf \in [Webhooks -> {"alert", "other", "garbage"}]
  /\ MaxPosts \in [Webhooks -> Nat]
  /\ ModeOf \in [Instances -> {"all", "http", "worker"}]
  /\ Configs \subseteq {"sound", "partial", "unusable"}
  /\ ErrorHandling \in {"continue", "return"}
  /\ MaxReceive \in Nat \ {0}
  /\ Down \notin Configs \cup Instances

\* The k-th copy of a webhook in the queue.
Messages == UNION {{w} \X (1 .. MaxPosts[w]) : w \in Webhooks}

ASSUME NothingAssumption == Nothing \notin Messages

Webhook(m) == m[1]

VARIABLES
  config,    \* instance -> the configuration it runs with, Down if it does not
  posts,     \* webhook -> POSTs so far
  accepted,  \* webhooks that were answered with 200
  status,    \* message -> where it is
  receives,  \* message -> ApproximateReceiveCount
  job,       \* instance -> the message its worker is processing
  reported   \* webhooks whose matching rules were all executed and flushed

vars == <<config, posts, accepted, status, receives, job, reported>>

queueVars == <<status, receives>>
serverVars == <<posts, accepted>>

\* Where a message is while somebody may still look after it.
Kept == {"visible", "hidden", "dead"}

TypeOK ==
  /\ config \in [Instances -> Configs \cup {Down}]
  /\ posts \in [Webhooks -> Nat]
  /\ accepted \subseteq Webhooks
  /\ status \in [Messages -> Kept \cup {"unsent", "deleted"}]
  /\ receives \in [Messages -> 0 .. MaxReceive]
  /\ job \in [Instances -> Messages \cup {Nothing}]
  /\ reported \subseteq Webhooks

Init ==
  /\ config = [i \in Instances |-> Down]
  /\ posts = [w \in Webhooks |-> 0]
  /\ accepted = {}
  /\ status = [m \in Messages |-> "unsent"]
  /\ receives = [m \in Messages |-> 0]
  /\ job = [i \in Instances |-> Nothing]
  /\ reported = {}

-----------------------------------------------------------------------------
(* Instances.                                                               *)

WebhookServerIsReady(c) == c # "unusable"

\* Mutant: the worker is ready if there are errors.
WorkerIsReadyOnError(c) == c # "sound"

WorkerIsReady(c) == c = "sound"

\* Mutant: a worker is started whatever it was configured with.
MayRunAnyway(i, c) ==
  /\ ErrorHandling = "return" => c = "sound"
  /\ ModeOf[i] # "worker" => WebhookServerIsReady(c)

\* RunCLI goes on with a configuration it could not load, if it is told to; Run
\* then refuses what the mode needs and is not ready.
MayRun(i, c) ==
  /\ ErrorHandling = "return" => c = "sound"
  /\ ModeOf[i] = "worker" => WorkerIsReady(c)
  /\ ModeOf[i] # "worker" => WebhookServerIsReady(c)

Start(i, c) ==
  /\ config[i] = Down
  /\ MayRun(i, c)
  /\ config' = [config EXCEPT ![i] = c]
  /\ UNCHANGED <<serverVars, queueVars, job, reported>>

\* An instance is stopped or dies.
Stop(i) ==
  /\ config[i] # Down
  /\ config' = [config EXCEPT ![i] = Down]
  /\ job' = [job EXCEPT ![i] = Nothing]
  /\ UNCHANGED <<serverVars, queueVars, reported>>

Serves(i) == config[i] # Down /\ ModeOf[i] # "worker"
Works(i) == config[i] # Down /\ ModeOf[i] # "http"

-----------------------------------------------------------------------------
(* The webhook server.                                                      *)

\* Mutant: the answer does not depend on SendToWorker.
PostAlwaysOk(i, w) ==
  /\ Serves(i)
  /\ posts[w] < MaxPosts[w]
  /\ posts' = [posts EXCEPT ![w] = @ + 1]
  /\ accepted' = accepted \cup {w}
  /\ \/ status' = [status EXCEPT ![<<w, posts'[w]>>] = "visible"]
     \/ UNCHANGED status
  /\ UNCHANGED <<config, receives, job, reported>>

\* serveHTTPAsWebhookServer.  The message is in the queue and the answer is 200;
\* or SendToWorker fails, maybe after the queue took the message, and it is 500.
\* A request that is refused before that leaves nothing behind.
Post(i, w) ==
  /\ Serves(i)
  /\ posts[w] < MaxPosts[w]
  /\ posts' = [posts EXCEPT ![w] = @ + 1]
  /\ \/ /\ status' = [status EXCEPT ![<<w, posts'[w]>>] = "visible"]
        /\ accepted' \in {accepted, accepted \cup {w}}
     \/ UNCHANGED <<status, accepted>>
  /\ UNCHANGED <<config, receives, job, reported>>

-----------------------------------------------------------------------------
(* The queue.                                                               *)

\* Mutant: the count is compared before it is raised.
ReceiveOnceMore(i, m) ==
  /\ Works(i)
  /\ job[i] = Nothing
  /\ status[m] = "visible"
  /\ receives[m] <= MaxReceive
  /\ job' = [job EXCEPT ![i] = m]
  /\ status' = [status EXCEPT ![m] = "hidden"]
  /\ receives' = [receives EXCEPT ![m] = @ + 1]
  /\ UNCHANGED <<config, serverVars, reported>>

Receive(i, m) ==
  /\ Works(i)
  /\ job[i] = Nothing
  /\ status[m] = "visible"
  /\ receives[m] < MaxReceive
  /\ job' = [job EXCEPT ![i] = m]
  /\ status' = [status EXCEPT ![m] = "hidden"]
  /\ receives' = [receives EXCEPT ![m] = @ + 1]
  /\ UNCHANGED <<config, serverVars, reported>>

\* The message shows again; a worker may still be busy with it.
Expire(m) ==
  /\ status[m] = "hidden"
  /\ status' = [status EXCEPT ![m] = "visible"]
  /\ UNCHANGED <<config, serverVars, receives, job, reported>>

DeadLetter(m) ==
  /\ status[m] = "visible"
  /\ receives[m] = MaxReceive
  /\ status' = [status EXCEPT ![m] = "dead"]
  /\ UNCHANGED <<config, serverVars, receives, job, reported>>

\* The worker of i answered 200.  The deletion may fail, and with a receipt that
\* is not the latest it may have no effect.
Delete(i) ==
  LET m == job[i]
      gone == IF status[m] = "dead" THEN status ELSE [status EXCEPT ![m] = "deleted"]
  IN /\ status' \in {status, gone}
     /\ UNCHANGED receives

-----------------------------------------------------------------------------
(* serveHTTPAsWorker.                                                       *)

Processing(i, kind) ==
  /\ job[i] # Nothing
  /\ KindOf[Webhook(job[i])] = kind

Answered(i) ==
  /\ job' = [job EXCEPT ![i] = Nothing]
  /\ UNCHANGED <<config, serverVars>>

\* Mutant: a body that does not parse is answered with 200.
RejectPolitely(i) ==
  /\ Processing(i, "garbage")
  /\ Answered(i)
  /\ Delete(i)
  /\ UNCHANGED reported

\* The body does not parse: 400 and Retry-After.
Reject(i) ==
  /\ Processing(i, "garbage")
  /\ Answered(i)
  /\ UNCHANGED <<queueVars, reported>>

\* There is no alert in it: 200.
Ignore(i) ==
  /\ Processing(i, "other")
  /\ Answered(i)
  /\ Delete(i)
  /\ UNCHANGED reported

\* Mutant: the failure is answered with 200, as if a retry were of no use.
ExecutionFailsOk(i) ==
  /\ Processing(i, "alert")
  /\ Answered(i)
  /\ Delete(i)
  /\ UNCHANGED reported

\* ExecuteRules returns an error: 500 and Retry-After.
ExecutionFails(i) ==
  /\ Processing(i, "alert")
  /\ Answered(i)
  /\ UNCHANGED <<queueVars, reported>>

\* ExecuteRules returns nil: 200.  With the rules that could be loaded it does
\* so too, and then those that are missing were not executed.
ExecutionSucceeds(i) ==
  /\ Processing(i, "alert")
  /\ LET all == reported \cup {Webhook(job[i])}
     IN reported' \in (IF WorkerIsReady(config[i]) THEN {all} ELSE {reported, all})
  /\ Answered(i)
  /\ Delete(i)

WorkerStep(i) == Reject(i) \/ Ignore(i) \/ ExecutionFails(i) \/ ExecutionSucceeds(i)

Idle ==
  /\ \A m \in Messages : status[m] \in {"unsent", "deleted", "dead"}
  /\ UNCHANGED vars

Next ==
  \/ \E i \in Instances :
       \/ \E c \in Configs : Start(i, c)
       \/ Stop(i)
       \/ \E w \in Webhooks : Post(i, w)
       \/ \E m \in Messages : Receive(i, m)
       \/ WorkerStep(i)
  \/ \E m \in Messages : Expire(m) \/ DeadLetter(m)
  \/ Idle

\* A sound configuration is deployed in the end, a busy worker answers, and the
\* queue neither forgets nor starves a message.
Fairness ==
  /\ \A i \in Instances : WF_vars(Start(i, "sound")) /\ WF_vars(WorkerStep(i))
  /\ \A m \in Messages :
       /\ SF_vars(\E i \in Instances : Receive(i, m))
       /\ WF_vars(Expire(m))
       /\ WF_vars(DeadLetter(m))

Spec == Init /\ [][Next]_vars

FairSpec == Spec /\ Fairness

-----------------------------------------------------------------------------
(* Properties.                                                              *)

\* What the server took over with a 200 is not lost: its rules were executed in
\* full, or it was no alert and needs none, or a copy is in the queue or among
\* the dead letters; however often it was received, by workers that failed, died
\* or took longer than the queue waited.
NothingIsLost ==
  \A w \in accepted :
    \/ w \in reported
    \/ \E m \in Messages : Webhook(m) = w /\ status[m] \in Kept
    \/ KindOf[w] = "other"

\* A message leaves the queue for good only after a worker dealt with it: what
\* it could not parse is never deleted, and an alert only when reported.
DeletedIsDone ==
  \A m \in Messages : status[m] = "deleted" =>
    \/ Webhook(m) \in reported
    \/ KindOf[Webhook(m)] = "other"

\* A webhook that was accepted is reported, set aside as no alert, or given up.
AcceptedSettles ==
  \A w \in Webhooks :
    w \in accepted ~>
      \/ w \in reported
      \/ \E m \in Messages : Webhook(m) = w /\ status[m] \in {"dead", "deleted"}

=============================================================================
