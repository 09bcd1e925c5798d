------------------------------ MODULE ApiServices ------------------------------
(***************************************************************************)
(* The services of the API beside documents, chat and agents: start-up and *)
(* shutdown, admission of a request, the chat panel's sessions, model      *)
(* downloads, the OpenAI-compatible proxy, tool discovery and the deep     *)
(* agent with the tool server.  They share no state once configure() has   *)
(* handed out the services, so a behaviour is the life of one of them.     *)
(***************************************************************************)
EXTENDS Integers, Sequences

CONSTANTS Configurable,
          Client, Group, Rpm, Ticks, Horizon,
          Handler, MaxSessions,
          Task, Key, Path, PathOf, Size,
          Line, MaxLines,
          Agent, Schemas,
          Caller, Call, ToolOf, Thread,
          Restarts

VARIABLES service,
          phase, settings, fields, resources, injected, wired, closing,
          now, bucket, answer, since, admitted,
          sessions, active, created, waiting,
          status, task, part, dest, data, catalogue, restarts, tainted,
          call,
          cache, ask,
          services, job, points, open, request, approved, crashes

start     == <<phase, settings, fields, resources, injected, wired, closing>>
limiter   == <<now, bucket, answer, since, admitted>>
panel     == <<sessions, active, created, waiting>>
downloads == <<status, task, part, dest, data, catalogue, restarts, tainted>>
schemas   == <<cache, ask>>
deep      == <<services, job, points, open, request, approved, crashes>>
vars == <<service, start, limiter, panel, downloads, call, schemas, deep>>

Start    == INSTANCE Lifespan WITH open <- resources
Limiter  == INSTANCE Admission
Panel    == INSTANCE ChatSessions
Download == INSTANCE ModelDownload
Proxy    == INSTANCE CompletionProxy
Tools    == INSTANCE ToolSchemas
Deep     == INSTANCE DeepOrchestrator WITH restarts <- crashes

ASSUME ServiceAssumption ==
    /\ Limiter!AdmissionAssumption /\ Panel!SessionAssumption
    /\ Download!DownloadAssumption /\ Proxy!ProxyAssumption
    /\ Tools!SchemaAssumption /\ Deep!ToolAssumption

Service == {"start", "limiter", "panel", "downloads", "proxy", "schemas", "deep"}

Init == /\ service \in Service
        /\ Start!Init /\ Limiter!Init /\ Panel!Init /\ Download!Init
        /\ Proxy!Init /\ Tools!Init /\ Deep!Init
        /\ service # "start" => settings = Start!Optional
        /\ service # "deep" => services = Deep!Services

RunStart     == Start!Next /\ UNCHANGED <<limiter, panel, downloads, call, schemas, deep>>
RunLimiter   == Limiter!Next /\ UNCHANGED <<start, panel, downloads, call, schemas, deep>>
RunPanel     == Panel!Next /\ UNCHANGED <<start, limiter, downloads, call, schemas, deep>>
RunDownloads == Download!Next /\ UNCHANGED <<start, limiter, panel, call, schemas, deep>>
RunProxy     == Proxy!Next /\ UNCHANGED <<start, limiter, panel, downloads, schemas, deep>>
RunSchemas   == Tools!Next /\ UNCHANGED <<start, limiter, panel, downloads, call, deep>>
RunDeep      == Deep!Next /\ UNCHANGED <<start, limiter, panel, downloads, call, schemas>>

Next ==
    /\ UNCHANGED service
    /\ \/ service = "start" /\ RunStart
       \/ service = "limiter" /\ RunLimiter
       \/ service = "panel" /\ RunPanel
       \/ service = "downloads" /\ RunDownloads
       \/ service = "proxy" /\ RunProxy
       \/ service = "schemas" /\ RunSchemas
       \/ service = "deep" /\ RunDeep

Spec == Init /\ [][Next]_vars

FairSpec == Spec /\ Download!Fairness /\ Tools!Fairness /\ Deep!Fairness
-----------------------------------------------------------------------------
(***************************************************************************)
(* What each service promises, stated where it is modelled.                *)
(***************************************************************************)
\* Every variable of every service has its type.
TypeOK == /\ Start!TypeOK /\ Limiter!TypeOK /\ Panel!TypeOK /\ Download!TypeOK
          /\ Proxy!TypeOK /\ Tools!TypeOK /\ Deep!TypeOK

\* No request meets a service whose store, database or provider is not open, and
\* the database is closed last (lifespan).
ServicesBacked == Start!ServicesBacked

\* No window of time lets more than burst and refill through (the rate limiter).
WithinBudget == Limiter!WithinBudget

\* There is an active session exactly if there is a session (the chat panel).
ActiveExists == Panel!ActiveExists

\* A model file under its final name is whole (the downloader).
PublishedIsWhole == Download!PublishedIsWhole

\* A stream is handed on line by line, as the one accepted attempt sends it
\* (the OpenAI-compatible API).
StreamIsRelayed == Proxy!StreamIsRelayed

\* A failed refresh leaves nobody without the tools known before (discovery).
KnownToolsStay == Tools!KnownToolsStay

\* A request of the deep agent stores at most what its client approved, once.
StoredOnApproval == Deep!StoredOnApproval

\* Whatever fails, a download settles, whoever asks for the tools is answered,
\* and a request to the deep agent returns.
ServicesSettle ==
    Download!DownloadsSettle /\ Tools!AskersAnswered /\ Deep!RequestsReturn
=============================================================================
