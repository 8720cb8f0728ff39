--------------------------- MODULE PluginInstall -----------------------------
(* The commands of pluginctl (packages/pluginctl/src): an author edits,       *)
(* generates, builds and packs a project; installers put what they are given  *)
(* into the directory of the plugin's version, file by file, over whatever is *)
(* there. Any command may fail or be killed between two steps.                *)
EXTENDS PluginPackage

CONSTANTS
    Authored,      \* manifests the author may have written
    Installers,    \* pluginctl processes that install
    MaxEdits,      \* bound on edits of the project
    MaxPackages,   \* bound on packages made
    MaxInstalls    \* bound on installs begun

TemplateContract == 1   \* renderProtoSource: a service with Init and one method

ASSUME InstallAssumption ==
    /\ Authored \subseteq Manifests
    /\ TemplateContract \in Revisions

VARIABLES
    project,     \* the files of the author's directory
    workflow,    \* history: what has succeeded since the last edit
    package,     \* the tarball: its files, and how they came about
    dir,         \* the install directory
    installs,    \* installs[i]: the install that i is at
    claim,       \* history: the last install to return, unless written over
    edits, packages, begun

counters == <<edits, packages, begun>>
authorVars == <<project, workflow, package, edits, packages>>
installVars == <<dir, installs, claim, begun>>

(* typed: the source, once there is one, gives what it exports the generated  *)
(* handler type, as that of the template does; nothing demands it.            *)
NoProject ==
    [config |-> FALSE, manifest |-> None, proto |-> None, src |-> None, typed |-> TRUE,
     dist |-> None, descriptors |-> None, handlers |-> None, left |-> {}]
Root(p) == Restrict(p, DOMAIN NoFiles)

NoInstall ==
    [manifest |-> None, dist |-> None, descriptors |-> None, proto |-> None,
     left |-> {}, install |-> None, integrity |-> None]

(* What installPlugin writes, in this order.                                  *)
Writes == <<"manifest", "dist", "descriptors", "proto", "install", "integrity">>

PInit ==
    /\ \/ project = NoProject
       \/ \E m \in Authored, r \in Revisions, typed \in BOOLEAN :
            project = [NoProject EXCEPT !.config = TRUE, !.manifest = m,
                                        !.proto = TemplateContract, !.src = r, !.typed = typed]
    /\ workflow = "edited"
    /\ package = None
    /\ dir = NoInstall
    /\ installs = [i \in Installers |-> None]
    /\ claim = None
    /\ edits = 0 /\ packages = 0 /\ begun = 0

(* renderDefaultPluginTemplate: what is told apart of its files, in the order *)
(* they are listed in; the handlers are those of its contract.                *)
Template ==
    [config |-> TRUE, manifest |-> [form |-> "schema", integrity |-> None],
     proto |-> TemplateContract, src |-> TemplateContract]
TemplateFiles == <<"config", "manifest", "proto", "src">>

(* initPluginProject writes them into an empty directory, one after the other,*)
(* and may stop after any of them.                                            *)
InitProject ==
    /\ project = NoProject
    /\ \E n \in DOMAIN TemplateFiles :
         project' = [file \in DOMAIN NoProject |->
             IF \E i \in 1..n : TemplateFiles[i] = file THEN Template[file] ELSE NoProject[file]]
    /\ UNCHANGED <<workflow, package, edits, packages, installVars>>

(* The author changes the contract, or the handlers to fit a revision of it.  *)
Edit(file, r) ==
    /\ project[file] \notin {None, r}
    /\ edits < MaxEdits
    /\ edits' = edits + 1
    /\ project' = [project EXCEPT ![file] = r]
    /\ workflow' = IF file = "proto" \/ workflow = "edited" THEN "edited" ELSE "generated"
    /\ UNCHANGED <<package, packages, installVars>>

(* Faulty variant: the handlers are generated from the descriptors of before. *)
GenerateFromOld ==
    /\ {project.manifest, project.proto} \cap {None} = {}
    /\ BuildPluginServiceDefinition(project.descriptors)
    /\ project' = [project EXCEPT !.handlers = project.descriptors,
                                  !.descriptors = project.proto]
    /\ workflow' = "generated"
    /\ UNCHANGED <<package, edits, packages, installVars>>

(* generatePluginBindings returns: descriptors and handlers are the contract's.*)
Generate ==
    /\ {project.manifest, project.proto} \cap {None} = {}
    /\ BuildPluginServiceDefinition(project.proto)
    /\ project' = [project EXCEPT !.descriptors = project.proto,
                                  !.handlers = project.proto]
    /\ workflow' = "generated"
    /\ UNCHANGED <<package, edits, packages, installVars>>

(* It fails between the two, over the contract or for other reasons.          *)
GenerateFails ==
    /\ {project.manifest, project.proto} \cap {None} = {}
    /\ project' = [project EXCEPT !.descriptors = project.proto]
    /\ workflow' = "edited"
    /\ UNCHANGED <<package, edits, packages, installVars>>

(* buildPlugin: tsc writes its output beside what is there, even where it has *)
(* errors. Handlers that do not fit the contract are an error to it only in   *)
(* typed source. A manifest that is not valid fails the build, too.           *)
Build ==
    /\ project.config /\ project.src # None
    /\ project' = CopyInto(project, "dist", [dist |-> project.src, left |-> {}])
    /\ workflow' = IF /\ project.typed => Handlers(project.src) = Handlers(project.handlers)
                      /\ ValidatePluginManifest(project')
                      /\ workflow # "edited"
                   THEN "built" ELSE workflow
    /\ UNCHANGED <<package, edits, packages, installVars>>

(* History: the files of the project come from source that has the generated  *)
(* type and was generated and built without an error.                         *)
Checked == workflow = "built" /\ project.typed

(* packPlugin, or a tarball of the project made by another tool.              *)
Pack(packed) ==
    /\ packages < MaxPackages
    /\ project.manifest # None
    /\ packed => ValidatePluginManifest(project)
    /\ packages' = packages + 1
    /\ package' =
         [root |-> IF packed THEN PackPlugin(Root(project)) ELSE Root(project),
          from |-> project.manifest, packed |-> packed, intact |-> TRUE,
          checked |-> Checked]
    /\ UNCHANGED <<project, workflow, edits, installVars>>

(* A file of the tarball changes on its way.                                  *)
Damage(part) ==
    /\ package # None
    /\ package.intact
    /\ package' = [package EXCEPT !.root = [package.root EXCEPT ![part] = Damaged],
                                  !.intact = FALSE]
    /\ UNCHANGED <<project, workflow, edits, packages, installVars>>

(* installPlugin: the source is staged and checked. Tarballs and npm packages *)
(* differ in how they are fetched only. Of its history an install knows       *)
(* whether nobody else has written since it began (sole), whether there was   *)
(* nothing in the directory (fresh), and where its files come from.           *)
Begin(i, kind) ==
    /\ installs[i] = None
    /\ begun < MaxInstalls
    /\ kind = "folder" \/ package # None
    /\ LET root == IF kind = "folder" THEN Root(project) ELSE package.root
       IN  /\ root.manifest # None
           /\ Accepts(kind, root)
           /\ installs' = [installs EXCEPT ![i] =
                [root |-> root, at |-> 1, descriptorSha256 |-> None,
                 sole |-> TRUE, fresh |-> dir = NoInstall,
                 trusted |-> kind = "folder" \/ (package.packed /\ package.intact),
                 checked |-> IF kind = "folder" THEN Checked ELSE package.checked]]
    /\ begun' = begun + 1
    /\ UNCHANGED <<authorVars, dir, claim>>

(* Faulty variant: files that are there already are not written again.        *)
WriteMissing(install) ==
    LET file == Writes[install.at]
    IN  CASE file = "manifest" -> [dir EXCEPT !.manifest = Parse(install.root.manifest)]
          [] file \in Parts ->
               IF dir[file] = None THEN CopyInto(dir, file, install.root) ELSE dir
          [] file = "install" -> [dir EXCEPT !.install = "written"]
          [] OTHER -> [dir EXCEPT !.integrity =
               [packageSha256 |-> ComputePackageDigest(install.root),
                descriptorSha256 |-> install.descriptorSha256,
                methodIdsSha256 |-> install.root.descriptors]]

(* The next write of an install.                                              *)
Write(install) ==
    LET file == Writes[install.at]
    IN  CASE file = "manifest" -> [dir EXCEPT !.manifest = Parse(install.root.manifest)]
          [] file \in Parts -> CopyInto(dir, file, install.root)
          [] file = "install" -> [dir EXCEPT !.install = "written"]
          [] OTHER -> [dir EXCEPT !.integrity =
               [packageSha256 |-> ComputePackageDigest(install.root),
                descriptorSha256 |-> install.descriptorSha256,
                methodIdsSha256 |-> install.root.descriptors]]

(* One step of an install; the last one returns.                              *)
Step(i) ==
    /\ installs[i] # None
    /\ LET install == installs[i]
           returns == install.at = Len(Writes)
       IN  /\ dir' = Write(install)
           /\ installs' = [j \in Installers |->
                IF j = i
                THEN IF returns THEN None
                     ELSE [install EXCEPT
                             !.at = @ + 1,
                             !.descriptorSha256 = IF Writes[install.at] = "install"
                                                  THEN dir.descriptors ELSE @]
                ELSE IF installs[j] = None THEN None
                     ELSE [installs[j] EXCEPT !.sole = FALSE]]
           /\ claim' = IF returns /\ install.sole THEN install ELSE None
    /\ UNCHANGED <<authorVars, begun>>

(* An install fails or is killed; what it has written stays.                  *)
Stop(i) ==
    /\ installs[i] # None
    /\ installs' = [installs EXCEPT ![i] = None]
    /\ UNCHANGED <<authorVars, dir, claim, begun>>

Author ==
    \/ InitProject
    \/ \E file \in {"proto", "src"}, r \in Revisions : Edit(file, r)
    \/ Generate \/ GenerateFails \/ Build
    \/ \E packed \in BOOLEAN : Pack(packed)
    \/ \E part \in Parts : Damage(part)

Install ==
    \E i \in Installers :
        \/ \E kind \in {"folder", "tarball"} : Begin(i, kind)
        \/ Step(i) \/ Stop(i)

(* What pluginctl packs, pluginctl installs.                                  *)
PackedInstalls ==
    package # None /\ package.packed /\ package.intact => Accepts("tarball", package.root)

(* It does where the manifest is written in the order of the schema and has   *)
(* no empty integrity object.                                                 *)
CanonicalInstalls ==
    package # None /\ package.from.form = "schema" /\ package.from.integrity # Empty
      => PackedInstalls

(* An install that returned and was not written over has put all of one plugin*)
(* in place that was packed and reached us unchanged or came from a folder,   *)
(* and its metadata tell what that is; there is nothing else where there was  *)
(* nothing before. Even after crashes and races, install.json means that there*)
(* are files of every kind.                                                   *)
InstalledIsWhole ==
    /\ claim # None =>
         /\ claim.trusted
         /\ [dir EXCEPT !.left = @ \cap claim.root.left] =
              [manifest |-> Parse(claim.root.manifest), dist |-> claim.root.dist,
               descriptors |-> claim.root.descriptors, proto |-> claim.root.proto,
               left |-> claim.root.left, install |-> "written",
               integrity |-> [packageSha256 |-> ComputePackageDigest(claim.root),
                              descriptorSha256 |-> dir.descriptors,
                              methodIdsSha256 |-> dir.descriptors]]
         /\ claim.fresh => dir.left = claim.root.left
    /\ dir.install # None => \A part \in Parts \cup {"manifest"} : dir[part] # None
=============================================================================
