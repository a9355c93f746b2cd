-------------------------- MODULE LoadConfigProofs --------------------------
(***************************************************************************)
(* Theorems about LoadConfig, for all plugins, blocks and files.             *)
(*                                                                         *)
(* That a prepared worker is whole follows from what an empty diags says at    *)
(* each stage of the decoding (Clean); that no plugin is left from where a     *)
(* running plugin is in cleanupFuncs (PluginsCanBeKilled).                    *)
(***************************************************************************)
EXTENDS LoadConfig, TLAPS

\* The stages up to which something has not been decoded.
BeforeAttributes == {"parse", "attributes"}
BeforeAuth == BeforeAttributes \cup {"plugins", "auth"}
BeforeContent == BeforeAuth \cup {"retry", "content"}

\* What is known of plugin p once it was tried without an error.
Loaded(p) == p \in registry /\ <<"plugin", p>> \notin faults

\* As long as nothing was reported, what was decoded is there, and right.
CleanPrepalert ==
  diags = {} =>
    /\ pc # "parse" => ~Bad("file")
    /\ pc \notin BeforeAttributes => ~Bad("prepalert") /\ ~Bad("version") /\ ~Bad("queue") /\ queueName
    /\ pc = "plugins" /\ ~Bad("plugins") => \A p \in Plugins \ toLoad : Loaded(p)
    /\ pc \notin BeforeAttributes \cup {"plugins"} => ~Bad("plugins") /\ \A p \in Plugins : Loaded(p)
    /\ pc \notin BeforeAuth => ~Bad("auth")
    /\ pc \notin BeforeAuth \cup {"retry"} => ~Bad("retry") /\ ~Bad("backend")
    /\ pc \notin BeforeContent => ~Bad("content")

FirstBlock == pc \in BeforeContent => next = 1

CleanBlocks ==
  diags = {} =>
    /\ pc = "providers" =>
         \A i \in 1 .. next - 1 : ProviderBlocks[i] \in providers /\ <<"provider", ProviderBlocks[i]>> \notin faults
    /\ pc \notin BeforeContent \cup {"providers"} =>
         providers = Providers /\ \A n \in Providers : <<"provider", n>> \notin faults
    /\ pc \notin BeforeContent \cup {"providers", "queries"} =>
         queries = Queries /\ \A q \in Queries : <<"query", q>> \notin faults
    /\ pc \notin BeforeContent \cup {"providers", "queries", "rules"} =>
         \A r \in Rules : <<"rule", r>> \notin faults /\ rules[r] \in {"crippled", "whole"}

\* The flags, and what is running, are what the load left.
Gates ==
  /\ workerPrepared => diags = {} /\ pc \notin Loading
  /\ pc = "running" => IsReady
  /\ pc \in BeforeAttributes => ~webhookServerPrepared
  /\ webhookServerPrepared /\ hasAuth /\ pc \notin BeforeAuth /\ ~Bad("version") /\ ~Bad("queue") =>
       queueName /\ ~Bad("auth") /\ Plugins \subseteq registry

\* Close is the last thing that happens.
Closing ==
  /\ pc \notin {"closing"} \cup Ended => cleaned = 0
  /\ pc = "closed" => cleaned = Len(cleanupFuncs)
  /\ PluginsCanBeKilled

IInv == TypeOK /\ CleanPrepalert /\ FirstBlock /\ CleanBlocks /\ Gates /\ Closing

-----------------------------------------------------------------------------
(* Typing.                                                                  *)

\* The initial values are in their types.
LEMMA TypeInit == Init => TypeOK
<1> SUFFICES ASSUME Init PROVE TypeOK
  OBVIOUS
<1>1. next \in 1 .. Len(ProviderBlocks) + 1
  BY ConstantsAssumption DEF Init
<1>2. cleanupFuncs \in Seq(Plugins) /\ cleaned \in 0 .. Len(cleanupFuncs)
  BY DEF Init
<1>3. faults \in SUBSET Places
  BY ConstantsAssumption DEF Init
<1> QED
  BY <1>1, <1>2, <1>3 DEF Init, TypeOK, Loading

\* Every step keeps them there.
LEMMA TypeStep == TypeOK /\ [Next]_vars => TypeOK'
<1> SUFFICES ASSUME TypeOK, [Next]_vars PROVE TypeOK'
  OBVIOUS
<1> USE ConstantsAssumption DEF TypeOK, Loading, Ended
<1>1. CASE Parse \/ EndPlugins \/ DecodeAuth \/ DecodeRetryAndBackend \/ DecodeContent
  BY <1>1 DEF Parse, EndPlugins, DecodeAuth, DecodeRetryAndBackend, DecodeContent,
              Wrong, fileVars, flagVars, pluginVars, decodedVars
<1>2. CASE DecodeAttributes
  BY <1>2 DEF DecodeAttributes, Wrong, fileVars, decodedVars
<1>3. CASE DecodeProvider
  <2>1. next \in 1 .. Len(ProviderBlocks) /\ ProviderBlocks[next] \in Providers
    BY <1>3 DEF DecodeProvider, Providers
  <2>2. <<"provider", ProviderBlocks[next]>> \in Places
    BY <2>1 DEF Places
  <2>3. diags' \in SUBSET Places /\ providers' \in SUBSET Providers
    <3> DEFINE n == ProviderBlocks[next]
    <3>1. RejectProvider(n) \/ SkipProvider(n) \/ RefuseProvider(n) \/ CreateProvider(n)
      BY <1>3 DEF DecodeProvider
    <3> QED
      BY <2>1, <2>2, <3>1
      DEF RejectProvider, SkipProvider, RefuseProvider, CreateProvider, ReportProvider
  <2>4. next' \in 1 .. Len(ProviderBlocks) + 1
    BY <1>3, <2>1 DEF DecodeProvider
  <2> QED
    BY <1>3, <2>3, <2>4 DEF DecodeProvider, fileVars, flagVars, pluginVars
<1>4. CASE EndProviders
  BY <1>4 DEF EndProviders, fileVars, flagVars, pluginVars, decodedVars
<1>5. CASE DecodeQueries
  BY <1>5 DEF DecodeQueries, Places, fileVars, flagVars, pluginVars
<1>6. CASE DecodeRules
  <2>1. rules' \in [Rules -> {"unread", "blind", "crippled", "whole"}]
    BY <1>6 DEF DecodeRules, Decoded
  <2> QED
    BY <1>6, <2>1 DEF DecodeRules, fileVars, flagVars, pluginVars
<1>7. CASE FinishLoad
  BY <1>7 DEF FinishLoad, fileVars, pluginVars, decodedVars
<1>8. CASE GiveUp \/ RunCommand \/ StopCommand \/ EndClose
  BY <1>8 DEF GiveUp, RunCommand, StopCommand, EndClose, fileVars, flagVars, pluginVars, decodedVars
<1>9. CASE Cleanup
  BY <1>9 DEF Cleanup, fileVars, flagVars, decodedVars
<1>10. ASSUME NEW p \in Plugins, LoadPlugin(p) PROVE TypeOK'
  <2>1. <<"plugin", p>> \in Places
    BY DEF Places
  <2> DEFINE Typed == /\ proc' \in [Plugins -> {"none", "running", "dead"}]
                      /\ rpcClient' \in [Plugins -> BOOLEAN]
                      /\ cleanupFuncs' \in Seq(Plugins)
                      /\ Len(cleanupFuncs) <= Len(cleanupFuncs')
  <2>2. Typed
    <3>1. ASSUME NEW state \in {"running", "dead"}, NEW connected \in BOOLEAN,
                 StartPlugin(p, state, connected)
          PROVE  Typed
      BY <3>1 DEF StartPlugin
    <3>2. CASE SkipPlugin(p)
      BY <3>2 DEF SkipPlugin
    <3>3. CASE FailPlugin(p)
      BY <3>1, <3>3 DEF FailPlugin
    <3>4. CASE RefusePlugin(p) \/ RegisterPlugin(p)
      BY <3>1, <3>4 DEF RefusePlugin, RegisterPlugin
    <3> QED
      BY <1>10, <3>2, <3>3, <3>4 DEF LoadPlugin
  <2>3. registry' \in SUBSET (Plugins \cup TakenTypes) /\ diags' \in SUBSET Places
    BY <1>10, <2>1 DEF LoadPlugin, SkipPlugin, FailPlugin, RefusePlugin, RegisterPlugin, ReportPlugin
  <2> QED
    BY <1>10, <2>2, <2>3 DEF LoadPlugin, fileVars, flagVars, decodedVars
<1>11. ASSUME NEW p \in Plugins, PluginDies(p) PROVE TypeOK'
  BY <1>11 DEF PluginDies, fileVars, flagVars, decodedVars
<1>12. CASE UNCHANGED vars
  BY <1>12 DEF vars, fileVars, flagVars, pluginVars, decodedVars
<1> QED
  BY <1>1, <1>2, <1>3, <1>4, <1>5, <1>6, <1>7, <1>8, <1>9, <1>10, <1>11, <1>12 DEF Next, Load, Command

\* Every variable stays in its type.
THEOREM Typing == Spec => []TypeOK
  BY TypeInit, TypeStep, PTL DEF Spec

-----------------------------------------------------------------------------
(* The invariant.                                                           *)

\* If none of some sections is reported, none of them is wrong.
LEMMA NothingWrong ==
  ASSUME NEW S, Wrong(S) = {}
  PROVE  \A s \in S : ~Bad(s)
  BY DEF Wrong, Bad

LEMMA InitInv == Init => IInv
<1> SUFFICES ASSUME Init PROVE IInv
  OBVIOUS
<1>1. TypeOK
  BY TypeInit
<1>2. CleanPrepalert /\ FirstBlock /\ CleanBlocks
  BY DEF Init, CleanPrepalert, FirstBlock, CleanBlocks, BeforeAttributes, BeforeAuth, BeforeContent
<1>3. Gates
  BY DEF Init, Gates, BeforeAttributes, BeforeAuth, Loading
<1>4. Closing
  BY DEF Init, Closing, Ended, PluginsCanBeKilled
<1> QED
  BY <1>1, <1>2, <1>3, <1>4 DEF IInv

\* What of the decoded blocks no step of Close, no command and no death of a
\* plugin touches.
Kept == <<fileVars, diags, flagVars, registry, toLoad, decodedVars>>

\* Which steps leave all of that alone, and where they lead.
LEMMA AfterLoad ==
  ASSUME [Next]_vars, ~Load, \A p \in Plugins : ~LoadPlugin(p)
  PROVE  /\ UNCHANGED Kept
         /\ pc' = pc \/ (pc \notin Loading /\ pc' \notin Loading)
<1> USE DEF Kept, Loading, fileVars, flagVars, pluginVars, decodedVars
<1>1. CASE Command
  BY <1>1 DEF Command, GiveUp, RunCommand, StopCommand, Cleanup, EndClose
<1>2. CASE \E p \in Plugins : PluginDies(p)
  BY <1>2 DEF PluginDies
<1>3. CASE UNCHANGED vars
  BY <1>3 DEF vars
<1> QED
  BY <1>1, <1>2, <1>3 DEF Next

LEMMA CleanPrepalertStep == TypeOK /\ CleanPrepalert /\ [Next]_vars => CleanPrepalert'
<1> SUFFICES ASSUME TypeOK, CleanPrepalert, [Next]_vars, diags' = {} PROVE CleanPrepalert'
  BY DEF CleanPrepalert
<1> USE DEF CleanPrepalert, BeforeAttributes, BeforeAuth, BeforeContent, fileVars, flagVars, pluginVars, decodedVars
<1>1. CASE Parse
  BY <1>1, NothingWrong DEF Parse, Bad
<1>2. CASE DecodeAttributes
  BY <1>2, NothingWrong DEF DecodeAttributes, Bad
<1>3. CASE EndPlugins
  BY <1>3, NothingWrong DEF EndPlugins, Bad, Loaded
<1>4. CASE DecodeAuth
  BY <1>4, NothingWrong DEF DecodeAuth, Bad, Loaded
<1>5. CASE DecodeRetryAndBackend
  BY <1>5, NothingWrong DEF DecodeRetryAndBackend, Bad, Loaded
<1>6. CASE DecodeContent
  BY <1>6, NothingWrong DEF DecodeContent, Bad, Loaded
<1>7. CASE DecodeProvider
  BY <1>7 DEF DecodeProvider, RejectProvider, SkipProvider, RefuseProvider, CreateProvider,
              ReportProvider, Bad, Loaded
<1>8. CASE EndProviders \/ DecodeQueries \/ DecodeRules \/ FinishLoad
  BY <1>8 DEF EndProviders, DecodeQueries, DecodeRules, FinishLoad, Bad, Loaded
<1>9. ASSUME NEW p \in Plugins, LoadPlugin(p) PROVE CleanPrepalert'
  <2>1. RegisterPlugin(p)
    BY <1>9 DEF LoadPlugin, SkipPlugin, FailPlugin, RefusePlugin, ReportPlugin
  <2> QED
    BY <1>9, <2>1 DEF LoadPlugin, RegisterPlugin, Bad, Loaded
<1>10. CASE ~Load /\ \A p \in Plugins : ~LoadPlugin(p)
  BY <1>10, AfterLoad DEF Kept, Loading, Bad, Loaded
<1> QED
  BY <1>1, <1>2, <1>3, <1>4, <1>5, <1>6, <1>7, <1>8, <1>9, <1>10 DEF Load

LEMMA FirstBlockStep == FirstBlock /\ [Next]_vars => FirstBlock'
<1> SUFFICES ASSUME FirstBlock, [Next]_vars PROVE FirstBlock'
  OBVIOUS
<1> USE DEF FirstBlock, BeforeAttributes, BeforeAuth, BeforeContent, fileVars, flagVars, pluginVars, decodedVars
<1>1. CASE Load
  BY <1>1 DEF Load, Parse, DecodeAttributes, EndPlugins, DecodeAuth, DecodeRetryAndBackend,
              DecodeContent, DecodeProvider, EndProviders, DecodeQueries, DecodeRules, FinishLoad
<1>2. ASSUME NEW p \in Plugins, LoadPlugin(p) PROVE FirstBlock'
  BY <1>2 DEF LoadPlugin
<1>3. CASE ~Load /\ \A p \in Plugins : ~LoadPlugin(p)
  BY <1>3, AfterLoad DEF Kept, Loading
<1> QED
  BY <1>1, <1>2, <1>3

LEMMA CleanBlocksStep == TypeOK /\ FirstBlock /\ CleanBlocks /\ [Next]_vars => CleanBlocks'
<1> SUFFICES ASSUME TypeOK, FirstBlock, CleanBlocks, [Next]_vars, diags' = {} PROVE CleanBlocks'
  BY DEF CleanBlocks
<1> USE DEF CleanBlocks, BeforeAttributes, BeforeAuth, BeforeContent, fileVars, flagVars, pluginVars, decodedVars
<1>1. CASE Parse \/ DecodeAttributes \/ EndPlugins \/ DecodeAuth \/ DecodeRetryAndBackend
  <2>1. CASE Parse
    <3>1. pc' = "attributes"
      BY <2>1, NothingWrong DEF Parse
    <3> QED
      BY <3>1
  <2>2. CASE DecodeAttributes \/ EndPlugins \/ DecodeAuth \/ DecodeRetryAndBackend
    BY <2>2 DEF DecodeAttributes, EndPlugins, DecodeAuth, DecodeRetryAndBackend
  <2> QED
    BY <1>1, <2>1, <2>2
<1>2. CASE DecodeContent
  <2>1. pc' = "providers" /\ next' = 1
    BY <1>2 DEF DecodeContent, FirstBlock
  <2> QED
    BY <2>1
<1>3. CASE DecodeProvider
  <2> DEFINE n == ProviderBlocks[next]
  <2>1. CreateProvider(n)
    BY <1>3 DEF DecodeProvider, RejectProvider, SkipProvider, RefuseProvider, ReportProvider
  <2>2. diags = {} /\ providers' = providers \cup {n} /\ <<"provider", n>> \notin faults
    BY <2>1 DEF CreateProvider
  <2>3. next \in Nat /\ next' = next + 1 /\ pc = "providers" /\ pc' = pc /\ faults' = faults
    BY <1>3 DEF DecodeProvider, TypeOK
  <2>4. ASSUME NEW i \in 1 .. next' - 1
        PROVE  ProviderBlocks[i] \in providers' /\ <<"provider", ProviderBlocks[i]>> \notin faults'
    <3>1. i \in 1 .. next - 1 \/ i = next
      BY <2>3
    <3> QED
      BY <2>2, <2>3, <3>1
  <2> QED
    BY <2>3, <2>4
<1>4. CASE EndProviders
  <2>1. /\ pc = "providers" /\ pc' = "queries" /\ diags = {} /\ next = Len(ProviderBlocks) + 1
        /\ providers' = providers /\ faults' = faults
    BY <1>4 DEF EndProviders
  <2>2. DOMAIN ProviderBlocks = 1 .. next - 1
    BY <2>1, ConstantsAssumption
  <2>3. \A n \in Providers : n \in providers /\ <<"provider", n>> \notin faults
    BY <2>1, <2>2 DEF Providers
  <2>4. providers \in SUBSET Providers
    BY DEF TypeOK
  <2> QED
    BY <2>1, <2>3, <2>4
<1>5. CASE DecodeQueries
  <2>1. /\ pc = "queries" /\ pc' = "rules" /\ diags = {} /\ faults' = faults /\ providers' = providers
        /\ {"query"} \X (Queries \ queries') = {}
    BY <1>5 DEF DecodeQueries
  <2>2. \A q \in Queries : q \in queries'
    <3>1. \A q \in Queries \ queries' : <<"query", q>> \in {"query"} \X (Queries \ queries')
      OBVIOUS
    <3> QED
      BY <2>1, <3>1
  <2>3. queries' = {q \in Queries : <<"query", q>> \notin faults /\ ProviderOf[q] \in providers}
    BY <1>5 DEF DecodeQueries
  <2> QED
    BY <2>1, <2>2, <2>3
<1>6. CASE DecodeRules
  <2>1. /\ pc = "rules" /\ pc' = "finish" /\ diags = {} /\ faults' = faults
        /\ providers' = providers /\ queries' = queries
        /\ faults \cap ({"rule"} \X Rules) = {}
    BY <1>6 DEF DecodeRules
  <2>2. \A r \in Rules : <<"rule", r>> \notin faults
    <3>1. \A r \in Rules : <<"rule", r>> \in {"rule"} \X Rules
      OBVIOUS
    <3> QED
      BY <2>1, <3>1
  <2>3. \A r \in Rules : rules'[r] \in {"crippled", "whole"}
    BY <1>6, <2>2 DEF DecodeRules, Decoded
  <2> QED
    BY <2>1, <2>2, <2>3
<1>7. CASE FinishLoad
  BY <1>7 DEF FinishLoad
<1>8. ASSUME NEW p \in Plugins, LoadPlugin(p) PROVE CleanBlocks'
  BY <1>8 DEF LoadPlugin
<1>9. CASE ~Load /\ \A p \in Plugins : ~LoadPlugin(p)
  <2>1. UNCHANGED <<faults, diags, next, providers, queries, rules>>
    BY <1>9, AfterLoad DEF Kept
  <2>2. pc' = pc \/ (pc \notin Loading /\ pc' \notin Loading)
    BY <1>9, AfterLoad
  <2> QED
    BY <2>1, <2>2 DEF Loading
<1> QED
  BY <1>1, <1>2, <1>3, <1>4, <1>5, <1>6, <1>7, <1>8, <1>9 DEF Load

LEMMA GatesStep == TypeOK /\ CleanPrepalert /\ Gates /\ [Next]_vars => Gates'
<1> SUFFICES ASSUME TypeOK, CleanPrepalert, Gates, [Next]_vars PROVE Gates'
  OBVIOUS
<1> USE DEF Gates, BeforeAttributes, BeforeAuth, Loading, IsReady, Bad
<1>1. CASE Parse \/ EndPlugins
  <2>1. /\ UNCHANGED <<fileVars, flagVars, registry>>
        /\ \/ pc = "parse" /\ pc' \in {"attributes", "finish"}
           \/ pc = "plugins" /\ pc' = "auth"
    BY <1>1 DEF Parse, EndPlugins, pluginVars
  <2> QED
    BY <2>1 DEF fileVars, flagVars
<1>2. CASE DecodeAttributes
  <2>1. /\ UNCHANGED <<fileVars, workerPrepared, registry>>
        /\ pc = "attributes" /\ pc' \in {"plugins", "content"}
        /\ webhookServerPrepared' = ~Bad("prepalert")
    BY <1>2 DEF DecodeAttributes
  <2>2. ASSUME pc' = "content", ~Bad("prepalert") PROVE Bad("version") \/ Bad("queue")
    <3>1. PICK f \in faults : f \in {"version", "queue"} \X {"block"}
      BY <1>2, <2>2 DEF DecodeAttributes, Wrong
    <3>2. f = <<"version", "block">> \/ f = <<"queue", "block">>
      BY <3>1
    <3> QED
      BY <3>2 DEF Bad
  <2> QED
    BY <2>1, <2>2 DEF fileVars
<1>3. CASE DecodeAuth
  <2>1. UNCHANGED <<fileVars, queueName, workerPrepared, registry>> /\ pc = "auth" /\ pc' = "retry"
    BY <1>3 DEF DecodeAuth, pluginVars
  <2>2. ASSUME webhookServerPrepared', hasAuth
        PROVE  queueName /\ ~Bad("auth") /\ Plugins \subseteq registry
    <3>1. diags' = {} /\ diags = {} /\ ~Bad("auth")
      BY <1>3, <2>2, NothingWrong DEF DecodeAuth
    <3> QED
      BY <2>1, <3>1 DEF CleanPrepalert, Loaded
  <2> QED
    BY <2>1, <2>2 DEF fileVars
<1>4. CASE \/ DecodeRetryAndBackend \/ DecodeContent \/ DecodeProvider
           \/ EndProviders \/ DecodeQueries \/ DecodeRules
  <2>1. /\ UNCHANGED <<fileVars, flagVars, registry>>
        /\ pc \in Loading \ BeforeAuth /\ pc' \in Loading \ BeforeAuth
    BY <1>4 DEF DecodeRetryAndBackend, DecodeContent, DecodeProvider, EndProviders, DecodeQueries,
                DecodeRules, pluginVars
  <2> QED
    BY <2>1 DEF fileVars, flagVars
<1>5. CASE FinishLoad
  BY <1>5 DEF FinishLoad, fileVars, pluginVars
<1>6. ASSUME NEW p \in Plugins, LoadPlugin(p) PROVE Gates'
  BY <1>6 DEF LoadPlugin, fileVars, flagVars
<1>7. CASE Command
  <2>1. UNCHANGED <<fileVars, diags, flagVars, registry>> /\ pc \notin Loading /\ pc' \notin Loading
    BY <1>7 DEF Command, GiveUp, RunCommand, StopCommand, Cleanup, EndClose, pluginVars
  <2>2. pc' = "running" => IsReady
    BY <1>7 DEF Command, GiveUp, RunCommand, StopCommand, Cleanup, EndClose
  <2> QED
    BY <2>1, <2>2 DEF fileVars, flagVars
<1>8. ASSUME NEW p \in Plugins, PluginDies(p) PROVE Gates'
  BY <1>8 DEF PluginDies, fileVars, flagVars
<1>9. CASE UNCHANGED vars
  BY <1>9 DEF vars, fileVars, flagVars, pluginVars
<1> QED
  BY <1>1, <1>2, <1>3, <1>4, <1>5, <1>6, <1>7, <1>8, <1>9 DEF Next, Load

LEMMA ClosingStep == TypeOK /\ Closing /\ [Next]_vars => Closing'
<1> SUFFICES ASSUME TypeOK, Closing, [Next]_vars PROVE Closing'
  OBVIOUS
<1> USE DEF Closing, PluginsCanBeKilled, Ended
<1>1. CASE Load
  <2>1. UNCHANGED <<cleaned, proc, cleanupFuncs>> /\ pc \in Loading /\ pc' \in Loading \cup {"loaded"}
    BY <1>1 DEF Load, Parse, DecodeAttributes, EndPlugins, DecodeAuth, DecodeRetryAndBackend,
                DecodeContent, DecodeProvider, EndProviders, DecodeQueries, DecodeRules, FinishLoad,
                pluginVars, Loading
  <2> QED
    BY <2>1 DEF Loading
<1>2. ASSUME NEW p \in Plugins, LoadPlugin(p) PROVE Closing'
  <2>1. pc = "plugins" /\ pc' = pc /\ cleaned = 0 /\ cleaned' = 0
    BY <1>2 DEF LoadPlugin
  <2>2. CASE SkipPlugin(p)
    BY <2>1, <2>2 DEF SkipPlugin
  <2>3. ASSUME NEW state, NEW connected, StartPlugin(p, state, connected) PROVE Closing'
    <3>1. /\ cleanupFuncs' = Append(cleanupFuncs, p)
          /\ \A q \in Plugins : q # p => proc'[q] = proc[q]
      BY <2>3 DEF StartPlugin, TypeOK
    <3>2. /\ Len(cleanupFuncs) \in Nat
          /\ DOMAIN cleanupFuncs = 1 .. Len(cleanupFuncs)
          /\ DOMAIN cleanupFuncs' = 1 .. Len(cleanupFuncs) + 1
          /\ cleanupFuncs'[Len(cleanupFuncs) + 1] = p
          /\ \A i \in 1 .. Len(cleanupFuncs) : cleanupFuncs'[i] = cleanupFuncs[i]
      BY <3>1 DEF TypeOK
    <3>3. ASSUME NEW q \in Plugins, proc'[q] = "running"
          PROVE  \E i \in DOMAIN cleanupFuncs' : cleanupFuncs'[i] = q /\ cleaned' < i
      <4>1. CASE q = p
        BY <2>1, <3>2, <4>1
      <4>2. CASE q # p
        <5>1. PICK i \in DOMAIN cleanupFuncs : cleanupFuncs[i] = q /\ cleaned < i
          BY <3>1, <3>3, <4>2
        <5> QED
          BY <2>1, <3>2, <5>1
      <4> QED
        BY <4>1, <4>2
    <3> QED
      BY <2>1, <3>3
  <2> QED
    BY <1>2, <2>2, <2>3 DEF LoadPlugin, FailPlugin, RefusePlugin, RegisterPlugin
<1>3. CASE GiveUp \/ RunCommand \/ StopCommand \/ EndClose
  BY <1>3 DEF GiveUp, RunCommand, StopCommand, EndClose, pluginVars
<1>4. CASE Cleanup
  <2> DEFINE p == cleanupFuncs[cleaned + 1]
  <2>1. /\ pc = "closing" /\ pc' \in {"closing", "panicked"}
        /\ cleaned < Len(cleanupFuncs) /\ cleaned' = cleaned + 1 /\ cleaned \in Nat
        /\ cleanupFuncs' = cleanupFuncs
        /\ proc' = [proc EXCEPT ![p] = "dead"]
    BY <1>4 DEF Cleanup, TypeOK
  <2>2. p \in Plugins /\ DOMAIN cleanupFuncs = 1 .. Len(cleanupFuncs) /\ Len(cleanupFuncs) \in Nat
    BY <2>1 DEF TypeOK
  <2>3. ASSUME NEW q \in Plugins, proc'[q] = "running"
        PROVE  \E i \in DOMAIN cleanupFuncs : cleanupFuncs[i] = q /\ cleaned + 1 < i
    <3>1. q # p /\ proc[q] = "running"
      BY <2>1, <2>2, <2>3 DEF TypeOK
    <3>2. PICK i \in DOMAIN cleanupFuncs : cleanupFuncs[i] = q /\ cleaned < i
      BY <3>1
    <3>3. i # cleaned + 1
      BY <3>1, <3>2
    <3> QED
      BY <2>1, <2>2, <3>2, <3>3
  <2> QED
    BY <2>1, <2>3
<1>5. ASSUME NEW p \in Plugins, PluginDies(p) PROVE Closing'
  <2>1. UNCHANGED <<pc, cleaned, cleanupFuncs>> /\ \A q \in Plugins : proc'[q] = "running" => proc[q] = "running"
    BY <1>5 DEF PluginDies, TypeOK
  <2> QED
    BY <2>1
<1>6. CASE UNCHANGED vars
  BY <1>6 DEF vars, pluginVars
<1> QED
  BY <1>1, <1>2, <1>3, <1>4, <1>5, <1>6 DEF Next, Command

\* The invariant is inductive.
THEOREM Invariance == Spec => []IInv
<1>1. IInv /\ [Next]_vars => IInv'
  BY TypeStep, CleanPrepalertStep, FirstBlockStep, CleanBlocksStep, GatesStep, ClosingStep DEF IInv
<1> QED
  BY <1>1, InitInv, PTL DEF Spec

-----------------------------------------------------------------------------
(* What follows.                                                            *)

\* A prepared worker has everything the file asks for (hcl.go:56).
THEOREM PreparedWorkerIsWhole == Spec => []ReadyIsWhole
<1>1. IInv => ReadyIsWhole
  <2> SUFFICES ASSUME IInv, workerPrepared
               PROVE  /\ queueName
                      /\ Plugins \subseteq registry
                      /\ providers = Providers
                      /\ queries = Queries
                      /\ \A r \in Rules : rules[r] \in {"crippled", "whole"}
    BY DEF ReadyIsWhole
  <2>1. diags = {} /\ pc \notin Loading
    BY DEF IInv, Gates
  <2>2. queueName /\ \A p \in Plugins : p \in registry
    BY <2>1 DEF IInv, CleanPrepalert, Loading, BeforeAttributes, Loaded
  <2>3. providers = Providers /\ queries = Queries /\ \A r \in Rules : rules[r] \in {"crippled", "whole"}
    BY <2>1 DEF IInv, CleanBlocks, Loading, BeforeAttributes, BeforeAuth, BeforeContent
  <2> QED
    BY <2>2, <2>3
<1> QED
  BY <1>1, Invariance, PTL

\* Nothing wrong but what is overlooked gets by LoadConfig.
THEOREM NothingElseGetsBy == Spec => []WrongIsNoticed
<1>1. IInv => WrongIsNoticed
  <2> SUFFICES ASSUME IInv, workerPrepared, NEW f \in faults PROVE f \in Overlooked
    BY DEF WrongIsNoticed
  <2>1. diags = {} /\ pc \notin Loading
    BY DEF IInv, Gates
  <2>2. \A s \in Sections \ {"repeated"} : <<s, "block">> \notin faults
    BY <2>1 DEF IInv, CleanPrepalert, Loading, BeforeAttributes, BeforeAuth, BeforeContent, Sections, Bad
  <2>3. \A p \in Plugins : <<"plugin", p>> \notin faults
    BY <2>1 DEF IInv, CleanPrepalert, Loading, BeforeAttributes, Loaded
  <2>4. /\ \A n \in Providers : <<"provider", n>> \notin faults
        /\ \A q \in Queries : <<"query", q>> \notin faults
        /\ \A r \in Rules : <<"rule", r>> \notin faults
    BY <2>1 DEF IInv, CleanBlocks, Loading, BeforeAttributes, BeforeAuth, BeforeContent
  <2>5. f \in Places
    BY DEF IInv, TypeOK
  <2>6. CASE f \in Sections \X {"block"}
    BY <2>2, <2>6 DEF Overlooked
  <2>7. CASE f \in {"action"} \X Rules
    BY <2>7 DEF Overlooked
  <2>8. CASE f \in {"rule"} \X Rules
    BY <2>4, <2>8
  <2>9. CASE f \in ({"plugin"} \X Plugins) \cup ({"provider"} \X Providers) \cup ({"query"} \X Queries)
    BY <2>3, <2>4, <2>9
  <2> QED
    BY <2>5, <2>6, <2>7, <2>8, <2>9 DEF Places
<1> QED
  BY <1>1, Invariance, PTL

\* A worker or an exec that runs has all rules and queries (run.go:36, exec.go:13).
THEOREM RunningWorkerIsWhole == Spec => []RunningIsWhole
<1>1. IInv /\ ReadyIsWhole => RunningIsWhole
  BY DEF IInv, TypeOK, CommandLines, Gates, IsReady, ReadyIsWhole, RunningIsWhole
<1> QED
  BY <1>1, Invariance, PreparedWorkerIsWhole, PTL

\* A server with an auth block serves only what was decoded without an error.
THEOREM GuardedServer == Spec => []GuardedServerIsSound
<1>1. IInv => GuardedServerIsSound
  BY DEF IInv, TypeOK, CommandLines, Gates, IsReady, BeforeAuth, BeforeAttributes, GuardedServerIsSound
<1> QED
  BY <1>1, Invariance, PTL

\* A plugin that runs can be killed (hcl.go:481).
THEOREM PluginsAreKept == Spec => []PluginsCanBeKilled
<1>1. IInv => PluginsCanBeKilled
  BY DEF IInv, Closing
<1> QED
  BY <1>1, Invariance, PTL

\* After Close no plugin runs (app.go:71).
THEOREM CloseKillsPlugins == Spec => []ClosedLeavesNoPlugin
<1>1. IInv => ClosedLeavesNoPlugin
  <2> SUFFICES ASSUME IInv, pc = "closed", NEW p \in Plugins, proc[p] = "running" PROVE FALSE
    BY DEF ClosedLeavesNoPlugin
  <2>1. PICK i \in DOMAIN cleanupFuncs : cleaned < i
    BY DEF IInv, Closing, PluginsCanBeKilled
  <2> QED
    BY <2>1 DEF IInv, Closing, TypeOK
<1> QED
  BY <1>1, Invariance, PTL
=============================================================================
