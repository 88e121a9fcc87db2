----------------------------- MODULE AgentConfig -----------------------------
(***************************************************************************)
(* agentengine.ConfigManager of an agent: the current model configuration, *)
(* replaced by the control plane's injections and by a watcher that polls  *)
(* an optional file.  A configuration is its base URL, of which only its   *)
(* kind matters, and its model; "" is a field left out.                    *)
(***************************************************************************)
CONSTANTS
    Models,          \* model names
    Updates,         \* the configurations somebody injects or writes to the file
    NoFile           \* there is no file, or nothing that parses

Bases == {"mock", "real"}
Config == [base : Bases \cup {""}, model : Models \cup {"", "mock-gpt-4o"}]

ASSUME UpdatesAssumption == Updates \subseteq Config /\ NoFile \notin Config

VARIABLES
    cfg,             \* ConfigManager.cfg
    file             \* what the configuration file holds

configVars == <<cfg, file>>

DefaultConfig == [base |-> "mock", model |-> "mock-gpt-4o"]

(* A file is taken as it is, an injection is completed by Apply. *)
Loaded == IF file = NoFile THEN DefaultConfig ELSE file

ConfigInit == file \in Updates \cup {NoFile} /\ cfg = Loaded

Completed(base) == IF base = "" THEN "mock" ELSE base

Apply(new) ==
    cfg' = [base |-> Completed(new.base),
            model |-> IF new.model = "" THEN cfg.model ELSE new.model]

(* An operator writes the file, or just touches it. *)
EditFile == file' \in Updates \cup {NoFile} /\ UNCHANGED cfg

(* watchFile has found a new modification time: its file may have been     *)
(* touched, so it need not differ.  A file that does not parse is passed   *)
(* over for good.                                                          *)
Poll ==
    /\ file # NoFile /\ Apply(file)
    /\ UNCHANGED file

(* NewConfigManager in a new process. *)
ReloadConfig == cfg' = Loaded /\ UNCHANGED file
===============================================================================
