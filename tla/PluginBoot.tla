----------------------------- MODULE PluginBoot ------------------------------
(* From the author's project to a running plugin: the host reads the manifest *)
(* that PluginInstall has left and starts a process, which reads the rest     *)
(* file by file while installs go on (crates/plugin-host/src/registry.rs,     *)
(* packages/plugin-runtime/src/process-main.ts, bootstrap.ts). The host names *)
(* the descriptor set and the service in the process's environment.           *)
EXTENDS PluginInstall

CONSTANT MaxSpawns   \* bound on processes started

VARIABLES
    manifest,   \* the manifest in the host's registry
    process,    \* the plugin's process
    spawns

vars == <<authorVars, installVars, manifest, process, spawns>>

Down == [at |-> "down", service |-> None, handlers |-> None, install |-> None]

TypeOK ==
    /\ workflow \in {"edited", "generated", "built"}
    /\ \A i \in Installers : installs[i] # None => installs[i].at \in DOMAIN Writes
    /\ process.at \in {"down", "spawned", "described", "up", "refused", "unloadable"}
    /\ process.at \in {"described", "up"} => process.service \in Revisions
    /\ process.at = "up" => process.handlers \in Revisions

Init == PInit /\ manifest = None /\ process = Down /\ spawns = 0

(* PluginManifest::from_installed_path                                        *)
FromInstalledPath ==
    /\ dir.manifest # None
    /\ manifest' = dir.manifest
    /\ UNCHANGED <<authorVars, installVars, process, spawns>>

Spawn ==
    /\ manifest # None
    /\ process.at \in {"down", "refused", "unloadable"}
    /\ spawns < MaxSpawns
    /\ spawns' = spawns + 1
    /\ process' = [Down EXCEPT !.at = "spawned", !.install = claim]
    /\ UNCHANGED <<authorVars, installVars, manifest>>

(* The service of a descriptor set, or None where that throws.                *)
LoadRuntimeServiceDefinition(descriptors) ==
    IF BuildPluginServiceDefinition(descriptors) THEN descriptors ELSE None

(* Faulty variant: the service is that of the contract's sources.             *)
LoadServiceFromProto ==
    /\ process.at = "spawned"
    /\ LET service == LoadRuntimeServiceDefinition(dir.proto)
       IN  process' = IF service = None THEN [process EXCEPT !.at = "refused"]
                      ELSE [process EXCEPT !.at = "described", !.service = service]
    /\ UNCHANGED <<authorVars, installVars, manifest, spawns>>

(* resolveServiceMetadata                                                     *)
LoadService ==
    /\ process.at = "spawned"
    /\ LET service == LoadRuntimeServiceDefinition(dir.descriptors)
       IN  process' = IF service = None THEN [process EXCEPT !.at = "refused"]
                      ELSE [process EXCEPT !.at = "described", !.service = service]
    /\ UNCHANGED <<authorVars, installVars, manifest, spawns>>

(* The import of the entry point fails: it is not there, or not complete, or  *)
(* throws, or imports what an install does not copy, as that is neither       *)
(* package.json nor node_modules.                                             *)
ImportFails ==
    /\ process.at = "described"
    /\ process' = [process EXCEPT !.at = "unloadable"]
    /\ UNCHANGED <<authorVars, installVars, manifest, spawns>>

(* bootstrapPluginRuntime imports the entry point and checks its handlers;    *)
(* the server listens.                                                        *)
BootstrapPluginRuntime ==
    /\ process.at = "described"
    /\ dir.dist # None
    /\ process' = IF ValidateHandlers(dir.dist, process.service)
                  THEN [process EXCEPT !.at = "up", !.handlers = dir.dist]
                  ELSE [process EXCEPT !.at = "refused"]
    /\ UNCHANGED <<authorVars, installVars, manifest, spawns>>

(* SIGTERM or SIGKILL.                                                        *)
End ==
    /\ process.at # "down"
    /\ process' = Down
    /\ UNCHANGED <<authorVars, installVars, manifest, spawns>>

(* An install that writes is not the one the process was started from.        *)
Touch ==
    IF dir' = dir /\ claim' = claim THEN process' = process
    ELSE process' = [process EXCEPT !.install = None]

Next ==
    \/ Author /\ UNCHANGED <<manifest, process, spawns>>
    \/ Install /\ Touch /\ UNCHANGED <<manifest, spawns>>
    \/ FromInstalledPath \/ Spawn
    \/ LoadService \/ ImportFails \/ BootstrapPluginRuntime \/ End

Spec == Init /\ [][Next]_vars

(* A process decodes by the contract and runs the handlers of the package that*)
(* was installed when the host started it, although it reads them one after   *)
(* the other, unless an install has written since.                            *)
RunsItsInstall ==
    /\ TypeOK
    /\ process.install # None =>
         /\ process.at \in {"described", "up"} =>
              process.service = process.install.root.descriptors
         /\ process.at = "up" => process.handlers = process.install.root.dist

(* A project whose source has the generated handler type, and which was       *)
(* generated and built without an error since its last edit, is not refused   *)
(* for its contract or its handlers, once it is installed and left alone.     *)
BuiltIsAccepted ==
    process.at = "refused" /\ process.install # None => ~process.install.checked
=============================================================================
