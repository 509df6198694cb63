---------------------------- MODULE ConfigFiles ----------------------------
(***************************************************************************)
(* The configuration: two files read into sections, filled with defaults,   *)
(* validated and assembled (config/loader.go and section_*.go); a poller    *)
(* and an informer that replace the snapshot when a file changes            *)
(* (config/store); and the settings of the database laid over it            *)
(* (config/settings.go, workspace/settings.go).                             *)
(* A section keeps one field for each way the code treats a number.         *)
(***************************************************************************)
EXTENDS Integers, Sequences

CONSTANTS
  Unset,          (* a pointer field that is not written                      *)
  ConfigDocs,     (* contents of config.yaml the files may get                *)
  SecretDocs,     (* contents of secret.yaml: [parses, password]              *)
  Settings,       (* contents of the settings table                           *)
  EnvPassword,    (* the password of the environment, "" if there is none     *)
  ConfigEdits,    (* bound: edits of files and settings                       *)
  ConfigFaults    (* bound: reads that fail, and restarts                     *)

Number == Int \cup {Unset}
ASSUME ConfigAssumption ==
  /\ {ConfigEdits, ConfigFaults} \subseteq Nat
  /\ \A doc \in ConfigDocs :
       /\ doc.pipeline \in [batch : Number, linger : Number]
       /\ doc.assets \in [batch : Number, lease : Number, keep : Number]
       /\ doc.mcp \in [on : BOOLEAN, rounds : Int, retry : Int, breaker : Int,
                       servers : Seq([name : STRING, complete : BOOLEAN])]
  /\ \A o \in Settings :
       {o.pipeline.batch, o.pipeline.linger, o.assets.batch, o.assets.lease, o.assets.keep} \subseteq Number

VARIABLES
  cfConfig, cfSecret, cfStamp,   (* the two files; writes so far              *)
  cfSettings,                    (* the settings table                        *)
  cfAt,                          (* the process: off, starting, up, reading   *)
  cfHalf,                        (* config.yaml as a load read it             *)
  cfSnapshot, cfRaw,             (* Store.current; settingsOverlay.raw        *)
  cfPrint, cfSignal,             (* the poller: fingerprint; the channel      *)
  cfEdits, cfFaults,
  cfMissed, cfFailed             (* ghosts: a change before the first
                                    fingerprint; the last load failed to read *)

cfFiles == <<cfConfig, cfSecret, cfStamp, cfSettings>>
cfMem   == <<cfHalf, cfSnapshot, cfRaw>>
cfWatch == <<cfPrint, cfSignal>>
cfVars  == <<cfFiles, cfAt, cfMem, cfWatch, cfEdits, cfFaults, cfMissed, cfFailed>>

-----------------------------------------------------------------------------
(* The sections: defaults first, then the check *)

Or(v, d)       == IF v = Unset THEN d ELSE v
Positive(v, d) == IF v <= 0 THEN d ELSE v      \* a plain number: not written is 0
NonZero(v, d)  == IF v = 0 THEN d ELSE v       \* negative numbers mean "off"
Distinct(list) == \A i, j \in DOMAIN list : list[i] = list[j] => i = j
WellFormed(id) == id \notin {"", "*", "?"}

ImValid(s) ==
  LET ids == [i \in DOMAIN s.accounts |-> s.accounts[i].id] IN
  /\ Distinct(ids) /\ \A i \in DOMAIN ids : WellFormed(ids[i])
  /\ \A i \in DOMAIN ids : s.base \/ s.accounts[i].base

BotFilled(s) == [s EXCEPT !.agent = Or(@, TRUE), !.cooldown = Or(@, 90)]
BotValid(s) ==
  /\ Distinct(s.allow) /\ \A i \in DOMAIN s.allow : s.allow[i] = "*" \/ WellFormed(s.allow[i])
  /\ Distinct(s.record) /\ \A i \in DOMAIN s.record : WellFormed(s.record[i])
  /\ s.cooldown >= 0

RuntimeFilled(s) ==
  LET send == Positive(s.send, 20) IN
  [s EXCEPT !.send = send, !.cache = Positive(@, 31 * send), !.interval = Or(@, 800)]
RuntimeValid(s) == s.timeout > 0 /\ s.send > 0 /\ s.cache > 0 /\ s.delay >= 0 /\ s.interval >= 0

LlmFilled(s) ==
  [s EXCEPT !.tokens = Positive(@, 50000), !.breaker = NonZero(@, 5), !.sentences = Or(@, 5)]
LlmValid(s) == s.known /\ s.tokens > 0 /\ s.rate >= 0 /\ s.breaker >= -1 /\ s.sentences >= 0

(* entries without a name or an address, and second ones of a name, are left out *)
Accepted(servers) ==
  LET leftOut(s, kept) == s.name = "" \/ ~ s.complete \/ \E i \in DOMAIN kept : kept[i].name = s.name
      kept[n \in 0..Len(servers)] ==
        IF n = 0 THEN <<>>
        ELSE IF leftOut(servers[n], kept[n - 1]) THEN kept[n - 1] ELSE Append(kept[n - 1], servers[n])
  IN kept[Len(servers)]

McpFilled(s) ==
  [s EXCEPT !.rounds = Positive(@, 5), !.retry = NonZero(@, 60), !.breaker = NonZero(@, 5),
            !.servers = IF s.on THEN Accepted(@) ELSE <<>>]
McpValid(s) == (s.on => s.rounds > 0) /\ s.breaker >= -1

(* batch stands for the sizes and numbers of workers, linger for times and retries *)
PipelineFilled(s) == [s EXCEPT !.batch = Or(@, 20), !.linger = Or(@, 20)]
PipelineValid(s)  == s.batch > 0 /\ s.linger >= 0

AssetsFilled(s) == [s EXCEPT !.batch = Or(@, 20), !.lease = Or(@, 600), !.keep = Or(@, 30)]
AssetsValid(s)  == s.batch > 0 /\ s.lease > 0 /\ s.keep >= 0

(* the environment comes before the file *)
Password(secret) == IF EnvPassword # "" THEN EnvPassword ELSE secret.password

Assembled(doc, secret) ==
  [im |-> doc.im, bot |-> BotFilled(doc.bot), runtime |-> RuntimeFilled(doc.runtime),
   llm |-> LlmFilled(doc.llm), mcp |-> McpFilled(doc.mcp),
   pipeline |-> PipelineFilled(doc.pipeline), assets |-> AssetsFilled(doc.assets),
   password |-> Password(secret)]

(* what no section can see alone: the panel needs a login *)
LoginThere(c) == c.runtime.web > 0 => c.runtime.user # "" /\ c.password # ""

SectionsValid(c) ==
  /\ ImValid(c.im) /\ BotValid(c.bot) /\ RuntimeValid(c.runtime) /\ LlmValid(c.llm)
  /\ McpValid(c.mcp) /\ PipelineValid(c.pipeline) /\ AssetsValid(c.assets)

Loads(doc, secret) ==
  doc.parses /\ secret.parses /\ LET c == Assembled(doc, secret) IN SectionsValid(c) /\ LoginThere(c)

(* the settings of the database: a number out of its range leaves the file's *)
AtLeast(v, least, old) == IF v # Unset /\ v >= least THEN v ELSE old

PipelineOver(p, o) == [p EXCEPT !.batch = AtLeast(o.batch, 1, @), !.linger = AtLeast(o.linger, 0, @)]

(* mutant: the lease as the other times *)
AssetsOverZero(a, o) ==
  [a EXCEPT !.batch = AtLeast(o.batch, 1, @), !.lease = AtLeast(o.lease, 0, @), !.keep = AtLeast(o.keep, 0, @)]
AssetsOver(a, o) ==
  [a EXCEPT !.batch = AtLeast(o.batch, 1, @), !.lease = AtLeast(o.lease, 1, @), !.keep = AtLeast(o.keep, 0, @)]

ApplyRuntimeSettings(base, raw) ==
  [base EXCEPT !.pipeline = PipelineOver(@, raw.pipeline), !.assets = AssetsOver(@, raw.assets)]

(* settingsOverlay.Snapshot: settings that do not parse are passed over as a whole *)
Snapshot == IF cfRaw.parses THEN ApplyRuntimeSettings(cfSnapshot, cfRaw) ELSE cfSnapshot

-----------------------------------------------------------------------------
NoFile    == [parses |-> FALSE]
NoSetting == [parses |-> TRUE, pipeline |-> [batch |-> Unset, linger |-> Unset],
              assets |-> [batch |-> Unset, lease |-> Unset, keep |-> Unset]]

ConfigInit ==
  /\ cfConfig \in ConfigDocs /\ cfSecret \in SecretDocs /\ cfStamp = 0 /\ cfSettings = NoSetting
  /\ cfAt = "off" /\ cfHalf = NoFile /\ cfSnapshot = NoFile /\ cfRaw = NoSetting
  /\ cfPrint = -1 /\ cfSignal = FALSE /\ cfEdits = 0 /\ cfFaults = 0
  /\ cfMissed = FALSE /\ cfFailed = FALSE

ConfigEdit == cfEdits < ConfigEdits /\ cfEdits' = cfEdits + 1
ConfigFault == cfFaults < ConfigFaults /\ cfFaults' = cfFaults + 1

EditConfigFile ==
  /\ ConfigEdit /\ cfConfig' \in ConfigDocs \ {cfConfig} /\ cfStamp' = cfStamp + 1
  /\ cfMissed' = (cfMissed \/ (cfAt # "off" /\ cfPrint = -1))
  /\ UNCHANGED <<cfSecret, cfSettings, cfAt, cfMem, cfWatch, cfFaults, cfFailed>>

EditSecretFile ==
  /\ ConfigEdit /\ cfSecret' \in SecretDocs \ {cfSecret} /\ cfStamp' = cfStamp + 1
  /\ cfMissed' = (cfMissed \/ (cfAt \in {"up", "reading"} /\ cfPrint = -1))
  /\ UNCHANGED <<cfConfig, cfSettings, cfAt, cfMem, cfWatch, cfFaults, cfFailed>>

SaveSetting ==
  /\ ConfigEdit /\ cfSettings' \in Settings \ {cfSettings}
  /\ UNCHANGED <<cfConfig, cfSecret, cfStamp, cfAt, cfMem, cfWatch, cfFaults, cfMissed, cfFailed>>

(* Load reads config.yaml first and secret.yaml later *)
StartLoad ==
  /\ cfAt = "off" /\ cfAt' = "starting" /\ cfHalf' = cfConfig
  /\ UNCHANGED <<cfFiles, cfSnapshot, cfRaw, cfWatch, cfEdits, cfFaults, cfMissed, cfFailed>>

(* a configuration that does not load ends the start; the settings are read once *)
Started ==
  /\ cfAt = "starting" /\ cfHalf' = NoFile
  /\ IF Loads(cfHalf, cfSecret)
     THEN /\ cfAt' = "up" /\ cfSnapshot' = Assembled(cfHalf, cfSecret) /\ cfRaw' = cfSettings
     ELSE cfAt' = "off" /\ UNCHANGED <<cfSnapshot, cfRaw>>
  /\ UNCHANGED <<cfFiles, cfWatch, cfEdits, cfFaults, cfMissed, cfFailed>>

Stop ==
  /\ cfAt \in {"up", "reading"} /\ ConfigFault /\ cfAt' = "off"
  /\ cfHalf' = NoFile /\ cfSnapshot' = NoFile /\ cfRaw' = NoSetting
  /\ cfPrint' = -1 /\ cfSignal' = FALSE /\ cfMissed' = FALSE /\ cfFailed' = FALSE
  /\ UNCHANGED <<cfFiles, cfEdits>>

(* FilePoller.Changed: the first fingerprint is taken when the goroutine runs *)
FirstPrint ==
  /\ cfAt \in {"up", "reading"} /\ cfPrint = -1 /\ cfPrint' = cfStamp
  /\ UNCHANGED <<cfFiles, cfAt, cfMem, cfSignal, cfEdits, cfFaults, cfMissed, cfFailed>>

PollFiles ==
  /\ cfPrint \notin {-1, cfStamp} /\ cfPrint' = cfStamp /\ cfSignal' = TRUE
  /\ UNCHANGED <<cfFiles, cfAt, cfMem, cfEdits, cfFaults, cfMissed, cfFailed>>

(* Informer.Run takes the signal and reload reads; a file that cannot be read is an error,
   and the snapshot stays *)
Reload ==
  /\ cfAt = "up" /\ cfSignal /\ cfSignal' = FALSE
  /\ \/ cfAt' = "reading" /\ cfHalf' = cfConfig /\ UNCHANGED <<cfFaults, cfFailed>>
     \/ ConfigFault /\ cfFailed' = TRUE /\ UNCHANGED <<cfAt, cfHalf>>
  /\ UNCHANGED <<cfFiles, cfSnapshot, cfRaw, cfPrint, cfEdits, cfMissed>>

Replace ==
  /\ cfAt = "reading" /\ cfAt' = "up" /\ cfHalf' = NoFile /\ cfFailed' = FALSE
  /\ cfSnapshot' = IF Loads(cfHalf, cfSecret) THEN Assembled(cfHalf, cfSecret) ELSE cfSnapshot
  /\ UNCHANGED <<cfFiles, cfRaw, cfWatch, cfEdits, cfFaults, cfMissed>>

(* every 30 seconds; a read that fails leaves what there was *)
RefreshSettings ==
  /\ cfAt \in {"up", "reading"} /\ cfRaw # cfSettings /\ cfRaw' = cfSettings
  /\ UNCHANGED <<cfFiles, cfAt, cfHalf, cfSnapshot, cfWatch, cfEdits, cfFaults, cfMissed, cfFailed>>

-----------------------------------------------------------------------------
ConfigRuns == Started \/ Reload \/ Replace
ConfigNext ==
  \/ EditConfigFile \/ EditSecretFile \/ SaveSetting \/ StartLoad \/ Stop
  \/ FirstPrint \/ PollFiles \/ RefreshSettings \/ ConfigRuns

ConfigFair ==
  WF_cfVars(ConfigRuns) /\ WF_cfVars(FirstPrint) /\ WF_cfVars(PollFiles) /\ WF_cfVars(RefreshSettings)
ConfigSpec == ConfigInit /\ [][ConfigNext]_cfVars /\ ConfigFair

-----------------------------------------------------------------------------
(* The variables stay in their sets. *)
ConfigTypeOK ==
  /\ cfConfig \in ConfigDocs /\ cfSecret \in SecretDocs /\ cfSettings \in Settings \cup {NoSetting}
  /\ cfAt \in {"off", "starting", "up", "reading"} /\ cfHalf \in ConfigDocs \cup {NoFile}
  /\ cfPrint \in -1..cfStamp /\ cfEdits \in 0..ConfigEdits /\ cfFaults \in 0..ConfigFaults

(* Whatever is written into the files and into the settings, and in whatever order they are read,
   the configuration a running program gets keeps it working: workers and batches that are not
   empty, a lease that ends, a model call that has time, a ring with room, a panel with a login,
   tool services that can be told apart. *)
SnapshotWorks ==
  cfAt \in {"up", "reading"} =>
    LET c == Snapshot IN
    /\ c.pipeline.batch > 0 /\ c.pipeline.linger >= 0
    /\ c.assets.batch > 0 /\ c.assets.lease > 0 /\ c.assets.keep >= 0
    /\ c.runtime.timeout > 0 /\ c.runtime.send > 0 /\ c.runtime.cache > 0 /\ c.llm.tokens > 0
    /\ c.runtime.web > 0 => c.password # ""
    /\ Distinct([i \in DOMAIN c.mcp.servers |-> c.mcp.servers[i].name])

(* Once files and settings rest, a running program works by them if they load; except when a
   file changed before the first fingerprint, or the last read failed. *)
SnapshotCurrent ==
  \/ cfAt = "off" \/ cfMissed \/ cfFailed \/ ~ Loads(cfConfig, cfSecret)
  \/ cfSnapshot = Assembled(cfConfig, cfSecret) /\ cfRaw = cfSettings
=============================================================================
