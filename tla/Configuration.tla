--------------------------- MODULE Configuration ----------------------------
(* The environment's settings, what the start of a process makes of them,  *)
(* and the registry of providers the API seeds.                            *)
(*                                                                         *)
(* Settings are read once, when a process starts: the environment may      *)
(* change under a running process, and the API and the worker may run on   *)
(* different settings.  A setting is a flag or a choice; what is compared  *)
(* with a range or a fixed name is one flag, and the amounts and limits of *)
(* a provider are one choice.                                              *)
EXTENDS FiniteSets, Sequences, Integers

CONSTANTS
    CBases,        \* settings a deployment starts from
    CMaxChanges    \* changes of the environment

Flags ==
    {"trendFixture", "editFixture", "visionFixture", "mediaFixture", "analyticsFixture",
     "external", "paid", "kill", "bundle", "mediaExternal", "mediaPaid", "comfyui",
     "audioExternal", "publish", "publishExternal", "publishGate", "publishCredential",
     "analyticsExternal", "bridge", "webhookExternal", "assemblyaiLive", "openaiKey",
     "storageKeys", "cleanup", "notifications", "humanApproval", "humanApi", "outOfRange"}

\* "Production" is a spelling only some of the rules take for production.
SettingChoices ==
    [env |-> {"development", "ci", "production", "Production"},
     asr |-> {"fixture", "contract", "openai", "assemblyai"},
     signals |-> {"fixture", "ffmpeg"},
     vision |-> {"fixture", "contract", "openai"},
     stock |-> {"fixture", "contract"},
     image |-> {"fixture", "contract", "comfyui"},
     video |-> {"fixture", "contract", "comfyui"},
     audio |-> {"espeak", "contract", "openai"},
     tts |-> {"espeak", "openai"},
     scanner |-> {"disabled", "fixture", "clamd"},
     storage |-> {"local", "s3"},
     webhook |-> {"disabled", "fixture", "http"},
     limits |-> {"none", "vision", "asr"},
     gate |-> {"openai-vision", "openai-transcription", "assemblyai-transcription"}]

\* Settings have a value of each choice.
ASSUME ConfigurationConstants ==
    \A s \in CBases :
        /\ DOMAIN s = {"on"} \cup DOMAIN SettingChoices
        /\ \A c \in DOMAIN SettingChoices : s[c] \in SettingChoices[c]

Off == [on |-> {}]

VARIABLES
    cEnv,        \* the settings in the environment: flags "on" and one value per choice
    cApi,        \* the settings the API runs on, or Off
    cWorker,     \* the settings the worker runs on, or Off
    cRegistry,   \* the enabled rows of the provider registry
    cChanges

cVars == <<cEnv, cApi, cWorker, cRegistry, cChanges>>

CInit ==
    /\ cEnv \in CBases
    /\ cApi = Off /\ cWorker = Off /\ cRegistry = {} /\ cChanges = 0

-----------------------------------------------------------------------------
(* The rules of Settings.enforce_v2_safety_boundary.                       *)

All(s, flags) == flags \subseteq s.on
Nowhere(s, flags) == flags \cap s.on = {}
Implies(s, pairs) == \A p \in pairs : p[1] \in s.on => p[2] \in s.on
IsProduction(s) == s.env \in {"production", "Production"}

PublishingRules(s) ==
    LET gates == {"publish", "publishExternal", "publishGate"}
    IN  /\ "humanApproval" \in s.on
        /\ IsProduction(s) => "humanApi" \in s.on
        /\ All(s, gates) \/ Nowhere(s, gates)
        /\ "publish" \in s.on => "publishCredential" \in s.on /\ s.env # "ci"

WebhookRules(s) ==
    /\ "analyticsExternal" \notin s.on
    /\ s.webhook # "disabled" => "bridge" \in s.on
    /\ "webhookExternal" \in s.on <=> s.webhook = "http"
    /\ s.env = "ci" => "webhookExternal" \notin s.on
    /\ IsProduction(s) => s.webhook # "fixture"

\* The fixtures are refused under one spelling of production only.
FixtureRules(s) ==
    s.env = "production" =>
        Nowhere(s, {"trendFixture", "editFixture", "visionFixture", "mediaFixture",
                    "analyticsFixture"})

\* Mutant: a fixture may be selected without its flag.
SpeechRulesUnflagged(s) ==
    s.asr = "assemblyai" => All(s, {"assemblyaiLive", "external", "paid", "bundle"})
SpeechRules(s) ==
    /\ s.asr = "fixture" => "editFixture" \in s.on
    /\ s.asr = "assemblyai" => All(s, {"assemblyaiLive", "external", "paid", "bundle"})
    /\ s.signals = "fixture" => "editFixture" \in s.on
    /\ s.vision = "fixture" => "visionFixture" \in s.on

MediaRules(s) ==
    /\ "fixture" \in {s.stock, s.image, s.video} => "mediaFixture" \in s.on
    /\ "comfyui" \in {s.image, s.video} => "comfyui" \in s.on
    /\ Implies(s, {<<"mediaPaid", "mediaExternal">>, <<"comfyui", "mediaExternal">>})
    /\ s.audio = "openai" <=> "audioExternal" \in s.on

StorageRules(s) ==
    /\ IsProduction(s) => s.scanner # "fixture"
    /\ s.storage = "s3" => "storageKeys" \in s.on
    /\ s.env = "production" => s.storage # "local"

OperationRules(s) ==
    /\ s.limits # "none" => "bundle" \in s.on
    /\ Nowhere(s, {"cleanup", "notifications", "outOfRange"})
    /\ Implies(s, {<<"paid", "external">>}
                  \cup ({"mediaExternal", "audioExternal", "publishExternal",
                         "analyticsExternal", "webhookExternal", "comfyui"} \X {"external"}))

\* The paid adapters a verified gate may open.
PaidAdapters(s) ==
    (IF s.vision = "openai" THEN {"openai-vision"} ELSE {}) \cup
    (CASE s.asr = "openai" -> {"openai-transcription"}
       [] s.asr = "assemblyai" -> {"assemblyai-transcription"}
       [] OTHER -> {})

\* Mutant: an external call needs no verified bundle.
GateRulesUnverified(s) ==
    /\ "external" \in s.on => "paid" \in s.on /\ Cardinality(PaidAdapters(s)) = 1
    /\ "kill" \notin s.on => "external" \in s.on

\* The limits of vision are in the code; those of speech are the gate's, which
\* is loaded from the bundle.
GateRules(s) ==
    /\ "bundle" \in s.on =>
          /\ Cardinality(PaidAdapters(s)) = 1
          /\ IF s.vision = "openai"
             THEN s.limits = "vision"
             ELSE s.limits = "asr" /\ s.gate \in PaidAdapters(s)
    /\ "external" \in s.on =>
          All(s, {"bundle", "paid"}) /\ Cardinality(PaidAdapters(s)) = 1
    /\ "kill" \notin s.on => "external" \in s.on

Accepts(s) ==
    /\ PublishingRules(s) /\ WebhookRules(s) /\ FixtureRules(s) /\ SpeechRules(s)
    /\ MediaRules(s) /\ StorageRules(s) /\ OperationRules(s) /\ GateRules(s)

-----------------------------------------------------------------------------
(* What a process wires, and which of its adapters may call out.           *)

Fixtures(selected) == {c \in DOMAIN selected : selected[c] = "fixture"}

\* Fixture adapters in the services of a process; both build the media bundle.
ApiFixtures(s) ==
    Fixtures([asr |-> s.asr, signals |-> s.signals, vision |-> s.vision, scanner |-> s.scanner,
              stock |-> s.stock, image |-> s.image, video |-> s.video])
    \cup (s.on \cap {"trendFixture", "analyticsFixture"})
WorkerFixtures(s) ==
    Fixtures([stock |-> s.stock, image |-> s.image, video |-> s.video, webhook |-> s.webhook])
    \cup (s.on \cap {"analyticsFixture"})

Unlocked(s) == All(s, {"external", "paid"}) /\ "kill" \notin s.on

\* The policy of the API's controller, whose gate is in the bundle, and that of a
\* service made without a controller.
PolicyOf(s) ==
    [gate |-> IF "bundle" \in s.on THEN {s.gate} ELSE {},
     on |-> s.on \cap {"external", "paid", "kill"}]
FailClosed == [gate |-> {}, on |-> {"kill"}]

\* The preflight of a call made for the gate's scope.  AssemblyAI's credential
\* resolves to nothing in the API.
Allows(policy, provider) == provider \in policy.gate /\ Unlocked(policy)
HasCredential(s, provider) == provider # "assemblyai-transcription" /\ "openaiKey" \in s.on
ApiCalls(s) == {p \in PaidAdapters(s) : Allows(PolicyOf(s), p) /\ HasCredential(s, p)}

\* Narration of the vertical short, and of a production render.
PipelineVoice(s) ==
    IF s.tts = "openai" /\ "openaiKey" \in s.on /\ Unlocked(s) THEN {"openai-tts"} ELSE {}
RenderVoice(s) == IF s.audio = "openai" THEN {"openai-audio"} ELSE {}

\* The worker's media service is made without a controller.
MediaCalls(s) == {m \in {s.image, s.video} : m = "comfyui" /\ Allows(FailClosed, m)}
WebhookCalls(s) == IF s.webhook = "http" /\ "bridge" \in s.on THEN {"webhook"} ELSE {}
WorkerCalls(s) == PipelineVoice(s) \cup RenderVoice(s) \cup MediaCalls(s) \cup WebhookCalls(s)

\* The narration of renders is made when the worker starts, which fails with it.
WorkerStarts(s) == s.audio = "openai" => Unlocked(s) /\ "openaiKey" \in s.on

-----------------------------------------------------------------------------
(* The registry.                                                           *)

SelectedRows(s) ==
    {r \in {<<"fixture-transcription", s.asr>>, <<"fixture-media-signals", s.signals>>,
            <<"fixture-vision", s.vision>>, <<"fixture-stock", s.stock>>,
            <<"fixture-image-generation", s.image>>,
            <<"fixture-video-generation", s.video>>} : r[2] = "fixture"}

EnabledRows(s) ==
    {r[1] : r \in SelectedRows(s)}
    \cup {"deterministic-content", "remotion", "internal-media", "mock-publishing", s.storage}
    \cup (IF s.tts = "espeak" THEN {"espeak"}
          ELSE IF "openaiKey" \in s.on THEN {"openai-tts"} ELSE {})
    \cup (IF s.signals = "ffmpeg" THEN {"ffmpeg-media-signals"} ELSE {})
    \cup (IF s.image = "comfyui" /\ "comfyui" \in s.on THEN {"comfyui-image"} ELSE {})
    \cup (IF s.video = "comfyui" /\ "comfyui" \in s.on THEN {"comfyui-video"} ELSE {})
    \cup (IF "trendFixture" \in s.on THEN {"fixture-trends"} ELSE {})
    \cup (IF "analyticsFixture" \in s.on THEN {"fixture-analytics"} ELSE {})

\* Every row but the other storage's is defined again, enabled or not.
\* Mutant: rows that exist are left as they are.
SeededOnce(s) == EnabledRows(s) \cup cRegistry
Undefined(s) == {"local", "s3"} \ {s.storage}
Seeded(s) == EnabledRows(s) \cup (cRegistry \cap Undefined(s))

ExternalRows == {"openai-tts", "comfyui-image", "comfyui-video", "s3"}
FixtureRows == {"fixture-transcription", "fixture-media-signals", "fixture-vision",
                "fixture-stock", "fixture-image-generation", "fixture-video-generation",
                "fixture-trends", "fixture-analytics", "mock-publishing"}
NeedsRights == {"espeak", "openai-tts", "fixture-stock", "comfyui-image", "comfyui-video",
                "internal-media"}

\* What the safety snapshot calls eligible for production.
Eligible(s) ==
    {r \in cRegistry \ FixtureRows :
        /\ r \in ExternalRows => "external" \in s.on /\ "kill" \notin s.on
        /\ r \in NeedsRights => "bundle" \in s.on}

-----------------------------------------------------------------------------
(* Deployment.                                                             *)

Configure ==
    /\ cChanges < CMaxChanges
    /\ cChanges' = cChanges + 1
    /\ \/ \E f \in Flags :
             cEnv' = [cEnv EXCEPT !.on = IF f \in @ THEN @ \ {f} ELSE @ \cup {f}]
       \/ \E c \in DOMAIN SettingChoices : \E v \in SettingChoices[c] \ {cEnv[c]} :
             cEnv' = [cEnv EXCEPT ![c] = v]
    /\ UNCHANGED <<cApi, cWorker, cRegistry>>

\* Settings the rules refuse keep the process down.
StartApi ==
    /\ cApi' = IF Accepts(cEnv) THEN cEnv ELSE Off
    /\ cRegistry' = IF Accepts(cEnv) THEN Seeded(cEnv) ELSE cRegistry
    /\ UNCHANGED <<cEnv, cWorker, cChanges>>

StartWorker ==
    /\ cWorker' = IF Accepts(cEnv) /\ WorkerStarts(cEnv) THEN cEnv ELSE Off
    /\ UNCHANGED <<cEnv, cApi, cRegistry, cChanges>>

CNext == Configure \/ StartApi \/ StartWorker

CSpec == CInit /\ [][CNext]_cVars

-----------------------------------------------------------------------------
(* Properties.                                                             *)

\* Whatever settings a process was accepted with: what calls out was opened by
\* the verified bundle; the API calls the gate's provider within its limits and no
\* other, and neither publishing nor a media workflow is called.
CallsAreGated ==
    /\ cApi # Off =>
          \A p \in ApiCalls(cApi) :
              p = cApi.gate /\ cApi.limits = (IF p = "openai-vision" THEN "vision" ELSE "asr")
    /\ cWorker # Off =>
          /\ WorkerCalls(cWorker) # {} => All(cWorker, {"bundle", "external", "paid"})
          /\ WorkerCalls(cWorker) \cap {"openai-tts", "openai-audio"} # {} =>
                "kill" \notin cWorker.on
          /\ "comfyui" \notin WorkerCalls(cWorker)

\* Production wires no deterministic fixture, in neither process.
FixturesStayOut ==
    /\ cApi # Off /\ cApi.env = "production" => ApiFixtures(cApi) = {}
    /\ cWorker # Off /\ cWorker.env = "production" => WorkerFixtures(cWorker) = {}

\* The registry shows what the API started with last, but for the row of a storage
\* that is no longer used, and calls the pipeline's voice eligible exactly when
\* those settings let the pipeline use it.
RegistryIsCurrent ==
    cApi # Off =>
        /\ cRegistry \ {"local", "s3"} = EnabledRows(cApi) \ {"local", "s3"}
        /\ cApi.storage \in cRegistry
        /\ "openai-tts" \in Eligible(cApi) <=> PipelineVoice(cApi) # {}

WiringIsGated == CallsAreGated /\ FixturesStayOut /\ RegistryIsCurrent
=============================================================================
