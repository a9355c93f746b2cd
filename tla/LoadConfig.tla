----------------------------- MODULE LoadConfig -----------------------------
(***************************************************************************)
(* The life of one prepalert process around its configuration: LoadConfig    *)
(* and the decoders it calls (hcl.go, rule.go, provider/provider.go), the     *)
(* plugins that the decoding starts (plugin/public.go), what RunCLI, Run and  *)
(* Exec do with a configuration that has errors (cli.go, run.go, exec.go),    *)
(* and Close (app.go).                                                       *)
(*                                                                         *)
(* A file is abstracted to where it is wrong: to a set of places.  Decoding  *)
(* reports some of them in diags, looks past others, and leaves behind what  *)
(* could be decoded.  A plugin may refuse to start, die, or refuse a          *)
(* provider; such a failure is reported at the place of the block, too.        *)
(*                                                                         *)
(* Abstractions.  HCL syntax, schemas and expressions: a block is right or   *)
(* wrong.  The order of the rules by priority, and their names.  Closing      *)
(* database connections of the built-in providers.                           *)
(***************************************************************************)
EXTENDS Naturals, Sequences

CONSTANTS
  Plugins,         \* the attributes of the plugins block
  ProviderBlocks,  \* the names of the provider blocks, in the order of the file
  TypeOf,          \* provider name -> its type
  TakenTypes,      \* types that are registered by main or reserved
  Queries,
  ProviderOf,      \* query -> the provider it names
  Rules,
  Files            \* the files that are looked at, as sets of places

Providers == {ProviderBlocks[i] : i \in DOMAIN ProviderBlocks}

Sections == {"file", "prepalert", "repeated", "version", "queue", "plugins",
             "auth", "retry", "backend", "content"}

\* Where a file can be wrong.  "rule" is a rule body that does not fit its
\* schema (no "when", say), "action" an error further inside of it.
Places ==
  (Sections \X {"block"}) \cup ({"plugin"} \X Plugins) \cup ({"provider"} \X Providers)
    \cup ({"query"} \X Queries) \cup ({"rule", "action"} \X Rules)

ASSUME ConstantsAssumption ==
  /\ ProviderBlocks \in Seq(Providers)
  /\ TypeOf \in [Providers -> Plugins \cup TakenTypes]
  /\ ProviderOf \in [Queries -> Providers]
  /\ Files \subseteq SUBSET Places

VARIABLES
  faults,     \* where the file is wrong
  hasAuth,    \* there is an auth block
  cli,        \* the command line: cmd, mode, errorHandling
  pc,         \* where RunCLI is
  diags,      \* where LoadConfig has reported an error
  queueName,  \* app.queueName was decoded
  webhookServerPrepared, workerPrepared,
  toLoad,     \* plugins that were not tried yet
  proc,       \* plugin -> its process
  rpcClient,  \* plugin -> Client.rpcClient is set
  registry,   \* provider.providerFactories: the types that can be created
  cleanupFuncs,  \* the plugins whose Close was registered, in order
  cleaned,    \* how many of them Close has called
  next,       \* the provider block whose turn it is
  providers, queries,  \* what could be created
  rules       \* rule -> what of it was decoded

fileVars == <<faults, hasAuth, cli>>
flagVars == <<queueName, webhookServerPrepared, workerPrepared>>
pluginVars == <<toLoad, proc, rpcClient, registry, cleanupFuncs>>
decodedVars == <<next, providers, queries, rules>>
vars == <<fileVars, pc, diags, flagVars, pluginVars, cleaned, decodedVars>>

CommandLines ==
  [cmd : {"run"}, mode : {"all", "http", "worker"}, errorHandling : {"continue", "return"}]
    \cup [cmd : {"exec", "validate"}, mode : {"all"}, errorHandling : {"continue", "return"}]

Loading == {"parse", "attributes", "plugins", "auth", "retry", "content",
            "providers", "queries", "rules", "finish"}
Ended == {"gaveUp", "closed", "panicked"}

TypeOK ==
  /\ faults \in SUBSET Places
  /\ hasAuth \in BOOLEAN
  /\ cli \in CommandLines
  /\ pc \in Loading \cup {"loaded", "running", "closing"} \cup Ended
  /\ diags \in SUBSET Places
  /\ queueName \in BOOLEAN
  /\ webhookServerPrepared \in BOOLEAN
  /\ workerPrepared \in BOOLEAN
  /\ toLoad \in SUBSET Plugins
  /\ proc \in [Plugins -> {"none", "running", "dead"}]
  /\ rpcClient \in [Plugins -> BOOLEAN]
  /\ registry \in SUBSET (Plugins \cup TakenTypes)
  /\ cleanupFuncs \in Seq(Plugins)
  /\ cleaned \in 0 .. Len(cleanupFuncs)
  /\ next \in 1 .. Len(ProviderBlocks) + 1
  /\ providers \in SUBSET Providers
  /\ queries \in SUBSET Queries
  /\ rules \in [Rules -> {"unread", "blind", "crippled", "whole"}]

Bad(section) == <<section, "block">> \in faults

\* The reports of the sections that are wrong.
Wrong(sections) == faults \cap (sections \X {"block"})

Init ==
  /\ faults \in Files
  /\ hasAuth \in BOOLEAN
  /\ Bad("auth") => hasAuth
  /\ cli \in CommandLines
  /\ pc = "parse"
  /\ diags = {}
  /\ queueName = FALSE
  /\ webhookServerPrepared = FALSE
  /\ workerPrepared = FALSE
  /\ toLoad = {}
  /\ proc = [p \in Plugins |-> "none"]
  /\ rpcClient = [p \in Plugins |-> FALSE]
  /\ registry = TakenTypes
  /\ cleanupFuncs = << >>
  /\ cleaned = 0
  /\ next = 1
  /\ providers = {}
  /\ queries = {}
  /\ rules = [r \in Rules |-> "unread"]

-----------------------------------------------------------------------------
(* The prepalert block.                                                     *)

\* hclutil.Parse, DecodeLocals, and exactly one prepalert block; nothing is
\* decoded if one of them fails.
Parse ==
  /\ pc = "parse"
  /\ diags' = Wrong({"file"})
  /\ pc' = IF Bad("file") THEN "finish" ELSE "attributes"
  /\ UNCHANGED <<fileVars, flagVars, pluginVars, cleaned, decodedVars>>

\* decodePrepalertBlock up to line 200.  What RestrictBlock says of repeated
\* blocks is dropped.  The server counts as prepared as soon as there is a
\* sqs_queue_name, whether it could be decoded or not.
DecodeAttributes ==
  LET bad == IF Bad("prepalert") THEN Wrong({"prepalert"}) ELSE Wrong({"version", "queue"})
  IN /\ pc = "attributes"
     /\ diags' = diags \cup bad
     /\ queueName' = (~Bad("prepalert") /\ ~Bad("queue"))
     /\ webhookServerPrepared' = ~Bad("prepalert")
     /\ pc' = IF bad = {} THEN "plugins" ELSE "content"
     /\ toLoad' = IF bad = {} /\ ~Bad("plugins") THEN Plugins ELSE {}
     /\ UNCHANGED <<fileVars, workerPrepared, proc, rpcClient, registry, cleanupFuncs, cleaned, decodedVars>>

\* Mutant: the cleanup is kept only of a plugin that could be loaded.
StartPluginForgetful(p, state, connected) ==
  /\ proc' = [proc EXCEPT ![p] = state]
  /\ rpcClient' = [rpcClient EXCEPT ![p] = connected]
  /\ cleanupFuncs' = IF connected THEN Append(cleanupFuncs, p) ELSE cleanupFuncs

\* NewRemoteProviderFactory returns the client's Close with an error, too, and
\* LoadPlugin keeps it.
StartPlugin(p, state, connected) ==
  /\ proc' = [proc EXCEPT ![p] = state]
  /\ rpcClient' = [rpcClient EXCEPT ![p] = connected]
  /\ cleanupFuncs' = Append(cleanupFuncs, p)

ReportPlugin(p) == diags' = diags \cup {<<"plugin", p>>}

\* The attribute has no value, or not that of a plugin.
SkipPlugin(p) ==
  /\ <<"plugin", p>> \in faults
  /\ ReportPlugin(p)
  /\ UNCHANGED <<proc, rpcClient, registry, cleanupFuncs>>

\* Client.init fails: there is no process, or one that does not answer.
FailPlugin(p) ==
  /\ <<"plugin", p>> \notin faults
  /\ \E state \in {"running", "dead"} : StartPlugin(p, state, FALSE)
  /\ ReportPlugin(p)
  /\ UNCHANGED registry

\* The client cannot dispense a provider, or its type is taken.
RefusePlugin(p) ==
  /\ <<"plugin", p>> \notin faults
  /\ StartPlugin(p, "running", TRUE)
  /\ ReportPlugin(p)
  /\ UNCHANGED registry

RegisterPlugin(p) ==
  /\ <<"plugin", p>> \notin faults
  /\ p \notin registry
  /\ StartPlugin(p, "running", TRUE)
  /\ registry' = registry \cup {p}
  /\ UNCHANGED diags

\* One round of the loop over the attributes of the plugins block, which a Go
\* map holds.
LoadPlugin(p) ==
  /\ pc = "plugins"
  /\ p \in toLoad
  /\ toLoad' = toLoad \ {p}
  /\ SkipPlugin(p) \/ FailPlugin(p) \/ RefusePlugin(p) \/ RegisterPlugin(p)
  /\ UNCHANGED <<fileVars, pc, flagVars, cleaned, decodedVars>>

EndPlugins ==
  /\ pc = "plugins"
  /\ toLoad = {}
  /\ diags' = diags \cup Wrong({"plugins"})
  /\ pc' = "auth"
  /\ UNCHANGED <<fileVars, flagVars, pluginVars, cleaned, decodedVars>>

\* Mutant: an auth block that is wrong is reported, and the server prepared.
DecodeAuthOnly ==
  /\ pc = "auth"
  /\ diags' = diags \cup Wrong({"auth"})
  /\ pc' = "retry"
  /\ UNCHANGED <<fileVars, flagVars, pluginVars, cleaned, decodedVars>>

\* With an auth block every error so far, one of a plugin too, unprepares the
\* server.
DecodeAuth ==
  /\ pc = "auth"
  /\ diags' = diags \cup Wrong({"auth"})
  /\ webhookServerPrepared' = (webhookServerPrepared /\ (hasAuth => diags' = {}))
  /\ pc' = "retry"
  /\ UNCHANGED <<fileVars, queueName, workerPrepared, pluginVars, cleaned, decodedVars>>

DecodeRetryAndBackend ==
  /\ pc = "retry"
  /\ diags' = diags \cup Wrong({"retry", "backend"})
  /\ pc' = "content"
  /\ UNCHANGED <<fileVars, flagVars, pluginVars, cleaned, decodedVars>>

-----------------------------------------------------------------------------
(* The blocks beside it.                                                    *)

\* Mutant: only the errors of this step stop the decoding.
DecodeContentAnyway ==
  /\ pc = "content"
  /\ diags' = Wrong({"content"})
  /\ pc' = IF diags' = {} THEN "providers" ELSE "finish"
  /\ UNCHANGED <<fileVars, flagVars, pluginVars, cleaned, decodedVars>>

\* DecodeBody, lines 109 to 123: any error so far ends it.
DecodeContent ==
  /\ pc = "content"
  /\ diags' = diags \cup Wrong({"content"})
  /\ pc' = IF diags' = {} THEN "providers" ELSE "finish"
  /\ UNCHANGED <<fileVars, flagVars, pluginVars, cleaned, decodedVars>>

\* provider.NewProvider has a factory for the type, and its process answers.
Creatable(n) ==
  /\ TypeOf[n] \in registry
  /\ TypeOf[n] \in Plugins => proc[TypeOf[n]] = "running"

ReportProvider(n) == diags' = diags \cup {<<"provider", n>>} /\ UNCHANGED providers

\* The attributes cannot be read.
RejectProvider(n) == <<"provider", n>> \in faults /\ ReportProvider(n)

\* After a block that failed the others are read, but no longer created.
SkipProvider(n) == <<"provider", n>> \notin faults /\ diags # {} /\ UNCHANGED <<diags, providers>>

\* There is no such type, or the factory refuses the parameters.
RefuseProvider(n) == <<"provider", n>> \notin faults /\ diags = {} /\ ReportProvider(n)

CreateProvider(n) ==
  /\ <<"provider", n>> \notin faults
  /\ diags = {}
  /\ Creatable(n)
  /\ providers' = providers \cup {n}
  /\ UNCHANGED diags

\* One round of the loop in decodeProviderBlocks.  Its own diags are empty if
\* and only if those of LoadConfig are: there were none before it.
DecodeProvider ==
  /\ pc = "providers"
  /\ next <= Len(ProviderBlocks)
  /\ LET n == ProviderBlocks[next]
     IN RejectProvider(n) \/ SkipProvider(n) \/ RefuseProvider(n) \/ CreateProvider(n)
  /\ next' = next + 1
  /\ UNCHANGED <<fileVars, pc, flagVars, pluginVars, cleaned, queries, rules>>

EndProviders ==
  /\ pc = "providers"
  /\ next = Len(ProviderBlocks) + 1
  /\ pc' = "queries"
  /\ UNCHANGED <<fileVars, diags, flagVars, pluginVars, cleaned, decodedVars>>

\* decodeQueryBlocks.
DecodeQueries ==
  /\ pc = "queries"
  /\ queries' = {q \in Queries : <<"query", q>> \notin faults /\ ProviderOf[q] \in providers}
  /\ diags' = diags \cup ({"query"} \X (Queries \ queries'))
  /\ pc' = "rules"
  /\ UNCHANGED <<fileVars, flagVars, pluginVars, cleaned, next, providers, rules>>

\* Rule.DecodeBody.  A body that does not fit the schema is reported and leaves
\* no "when"; of all errors further inside, the actions' too, it returns nil.
Decoded(r) ==
  CASE <<"rule", r>> \in faults -> "blind"
    [] <<"rule", r>> \notin faults /\ <<"action", r>> \in faults -> "crippled"
    [] OTHER -> "whole"

\* Mutant: a rule that does not fit the schema is not reported either.
DecodeRulesQuietly ==
  /\ pc = "rules"
  /\ rules' = [r \in Rules |-> Decoded(r)]
  /\ pc' = "finish"
  /\ UNCHANGED <<fileVars, diags, flagVars, pluginVars, cleaned, next, providers, queries>>

\* decodeRuleBlocks.  Every rule joins app.rules, whatever was reported of it.
DecodeRules ==
  /\ pc = "rules"
  /\ rules' = [r \in Rules |-> Decoded(r)]
  /\ diags' = diags \cup (faults \cap ({"rule"} \X Rules))
  /\ pc' = "finish"
  /\ UNCHANGED <<fileVars, flagVars, pluginVars, cleaned, next, providers, queries>>

FinishLoad ==
  /\ pc = "finish"
  /\ workerPrepared' = (diags = {})
  /\ pc' = "loaded"
  /\ UNCHANGED <<fileVars, diags, queueName, webhookServerPrepared, pluginVars, cleaned, decodedVars>>

-----------------------------------------------------------------------------
(* RunCLI.                                                                  *)

\* LoadConfig returned an error, and that is the end: without Close.
GivesUp == diags # {} /\ (cli.errorHandling = "return" \/ cli.cmd = "validate")

GiveUp ==
  /\ pc = "loaded"
  /\ GivesUp
  /\ pc' = "gaveUp"
  /\ UNCHANGED <<fileVars, diags, flagVars, pluginVars, cleaned, decodedVars>>

\* Mutant: Run does not ask whether the worker is ready.
IsReadyOrNot ==
  CASE cli.cmd = "validate" -> FALSE
    [] cli.cmd = "exec" -> workerPrepared
    [] cli.cmd = "run" -> cli.mode = "worker" \/ webhookServerPrepared

\* What Run and Exec ask for before they work.
IsReady ==
  CASE cli.cmd = "validate" -> FALSE
    [] cli.cmd = "exec" -> workerPrepared
    [] cli.cmd = "run" -> IF cli.mode = "worker" THEN workerPrepared ELSE webhookServerPrepared

RunCommand ==
  /\ pc = "loaded"
  /\ ~GivesUp
  /\ pc' = IF IsReady THEN "running" ELSE "closing"
  /\ UNCHANGED <<fileVars, diags, flagVars, pluginVars, cleaned, decodedVars>>

\* Run and Exec return.
StopCommand ==
  /\ pc = "running"
  /\ pc' = "closing"
  /\ UNCHANGED <<fileVars, diags, flagVars, pluginVars, cleaned, decodedVars>>

\* Mutant: Close returns at the first cleanup that has an error.
CleanupUntilError ==
  LET p == cleanupFuncs[cleaned + 1]
  IN /\ pc = "closing"
     /\ cleaned < Len(cleanupFuncs)
     /\ cleaned' = IF proc[p] = "dead" THEN Len(cleanupFuncs) ELSE cleaned + 1
     /\ proc' = [proc EXCEPT ![p] = "dead"]
     /\ pc' = IF rpcClient[p] THEN pc ELSE "panicked"
     /\ UNCHANGED <<fileVars, diags, flagVars, toLoad, rpcClient, registry, cleanupFuncs, decodedVars>>

\* Mutant: every other cleanup is skipped, as if the slice shrank meanwhile.
CleanupEveryOther ==
  LET p == cleanupFuncs[cleaned + 1]
  IN /\ pc = "closing"
     /\ cleaned < Len(cleanupFuncs)
     /\ cleaned' = cleaned + 2
     /\ proc' = [proc EXCEPT ![p] = "dead"]
     /\ pc' = IF rpcClient[p] THEN pc ELSE "panicked"
     /\ UNCHANGED <<fileVars, diags, flagVars, toLoad, rpcClient, registry, cleanupFuncs, decodedVars>>

\* The next cleanup: Client.Close kills the process and closes the connection.
\* If there is none it panics, and no further cleanup is called.
Cleanup ==
  LET p == cleanupFuncs[cleaned + 1]
  IN /\ pc = "closing"
     /\ cleaned < Len(cleanupFuncs)
     /\ cleaned' = cleaned + 1
     /\ proc' = [proc EXCEPT ![p] = "dead"]
     /\ pc' = IF rpcClient[p] THEN pc ELSE "panicked"
     /\ UNCHANGED <<fileVars, diags, flagVars, toLoad, rpcClient, registry, cleanupFuncs, decodedVars>>

EndClose ==
  /\ pc = "closing"
  /\ cleaned = Len(cleanupFuncs)
  /\ pc' = "closed"
  /\ UNCHANGED <<fileVars, diags, flagVars, pluginVars, cleaned, decodedVars>>

\* The process of a plugin ends by itself.
PluginDies(p) ==
  /\ pc \notin Ended
  /\ proc[p] = "running"
  /\ proc' = [proc EXCEPT ![p] = "dead"]
  /\ UNCHANGED <<fileVars, pc, diags, flagVars, toLoad, rpcClient, registry, cleanupFuncs, cleaned, decodedVars>>

Load ==
  \/ Parse \/ DecodeAttributes \/ EndPlugins \/ DecodeAuth \/ DecodeRetryAndBackend
  \/ DecodeContent \/ DecodeProvider \/ EndProviders \/ DecodeQueries \/ DecodeRules \/ FinishLoad

Command == GiveUp \/ RunCommand \/ StopCommand \/ Cleanup \/ EndClose

Next ==
  \/ Load
  \/ Command
  \/ \E p \in Plugins : LoadPlugin(p) \/ PluginDies(p)

Spec == Init /\ [][Next]_vars

-----------------------------------------------------------------------------
(* What a loaded configuration is good for.                                 *)

\* A worker is prepared only if the queue has a name, every plugin is registered,
\* every provider and query exists and every rule can be matched: no error in
\* one of the decoders is lost on the way to LoadConfig (hcl.go:56).
ReadyIsWhole ==
  workerPrepared =>
    /\ queueName
    /\ Plugins \subseteq registry
    /\ providers = Providers
    /\ queries = Queries
    /\ \A r \in Rules : rules[r] \in {"crippled", "whole"}

\* Places that the code reads and says nothing about: hcl.go:162, rule.go:154.
Overlooked == {<<"repeated", "block">>} \cup ({"action"} \X Rules)

\* A file that is wrong anywhere else does not get a worker, whatever was
\* skipped after the first error, and however the plugins behave; so the two
\* lines are all that lets errors by.
WrongIsNoticed == workerPrepared => faults \subseteq Overlooked

\* Of what runs without a warning - a worker, or an exec - the rules all have a
\* "when", and the queries they may need exist: Match has no nil to call.
RunningIsWhole ==
  pc = "running" /\ (cli.cmd = "exec" \/ cli.mode = "worker") =>
    /\ queries = Queries
    /\ \A r \in Rules : rules[r] \in {"crippled", "whole"}

\* Once the attributes are decoded, an auth block is what keeps a server from being
\* prepared in part: if there is one and the server runs, then it was decoded, the
\* queue is known and every plugin loaded (hcl.go:255).  An error in the attributes
\* ends the decoding before that, and the server stays prepared (hcl.go:195-200).
GuardedServerIsSound ==
  /\ pc = "running"
  /\ cli.cmd = "run" /\ cli.mode # "worker"
  /\ hasAuth
  /\ ~Bad("version") /\ ~Bad("queue")
  => queueName /\ ~Bad("auth") /\ Plugins \subseteq registry

\* As long as Close has not got to it, a plugin that runs is in cleanupFuncs,
\* whether it could be used or not (hcl.go:481).
PluginsCanBeKilled ==
  \A p \in Plugins : proc[p] = "running" =>
    \E i \in DOMAIN cleanupFuncs : cleanupFuncs[i] = p /\ cleaned < i

\* A command that comes back from Close leaves no process of a plugin behind,
\* also if some of them died before, or did not load.
ClosedLeavesNoPlugin == pc = "closed" => \A p \in Plugins : proc[p] # "running"
=============================================================================
