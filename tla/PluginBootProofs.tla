--------------------------- MODULE PluginBootProofs ---------------------------
(***************************************************************************)
(* What an install leaves and what a process makes of it, for every set of  *)
(* contracts and installers, however often projects are edited, packed and  *)
(* installed.                                                               *)
(***************************************************************************)
EXTENDS PluginBoot, TLAPS

(* Files that nothing has damaged, and what an install may put down.         *)
Made == Revisions \cup {None}
Contents ==
    [manifest : PackedManifests, dist : Revisions, descriptors : Revisions, proto : Revisions,
     left : SUBSET OwnFiles]

Fits(root) == Handlers(root.dist) = Handlers(root.descriptors)

(* What is left in a directory is not what its present revision has there.   *)
LeftByOthers(root) == \A part \in Parts : <<part, root[part]>> \notin root.left

Projects ==
    [config : BOOLEAN, manifest : Manifests \cup {None}, proto : Made, src : Made,
     typed : BOOLEAN, dist : Made, descriptors : Made, handlers : Made,
     left : SUBSET OwnFiles]

(* The author: a build of what was generated fits the descriptors, where the *)
(* source has the generated type. Builds leave files in dist only.           *)
ProjectInv ==
    /\ project \in Projects
    /\ workflow \in {"edited", "generated", "built"}
    /\ project.manifest # None => project.config
    /\ project.src # None => project.proto # None
    /\ project.dist # None => project.src # None
    /\ \A file \in project.left : file[1] = "dist"
    /\ <<"dist", project.dist>> \notin project.left
    /\ workflow # "edited" => project.config /\ project.handlers = project.descriptors
    /\ workflow = "built" => project.dist = project.src
    /\ Checked => Handlers(project.src) = Handlers(project.handlers)

(* A directory that was packed, and the tarballs that may come of it.        *)
Roots ==
    [manifest : Manifests, dist : Made, descriptors : Made, proto : Made,
     left : SUBSET OwnFiles]
PackedRoots ==
    [manifest : PackedManifests, dist : Files, descriptors : Files, proto : Files,
     left : SUBSET OwnFiles]
Packages ==
    [root : PackedRoots, from : Manifests, packed : BOOLEAN, intact : BOOLEAN,
     checked : BOOLEAN]

MadeFrom(p, root) ==
    LET whole == IF p.packed THEN PackPlugin(root) ELSE root
    IN  /\ p.from = root.manifest
        /\ root.dist # None => root.proto # None
        /\ LeftByOthers(root)
        /\ p.packed => ValidatePluginManifest(root)
        /\ p.checked => Fits(root)
        /\ IF p.intact THEN p.root = whole
           ELSE \E part \in Parts : p.root = [whole EXCEPT ![part] = Damaged]

PackageInv ==
    package # None => package \in Packages /\ \E root \in Roots : MadeFrom(package, root)

Installs ==
    [root : Contents, at : 1..6, descriptorSha256 : Made, sole : BOOLEAN, fresh : BOOLEAN,
     trusted : {TRUE}, checked : BOOLEAN]

Dirs ==
    [manifest : PackedManifests \cup {None}, dist : Made, descriptors : Made, proto : Made,
     left : SUBSET OwnFiles, install : {None, "written"},
     integrity : {None} \cup [packageSha256 : Digests, descriptorSha256 : Made,
                              methodIdsSha256 : Revisions]]

(* An accepted package: its contract is proper and, if it says so, it fits.  *)
Proper(install) ==
    /\ BuildPluginServiceDefinition(install.root.descriptors)
    /\ install.checked => Fits(install.root)
    /\ LeftByOthers(install.root)

(* What an install has written is there; while it is alone, it is its own.   *)
HasWritten(install, d) ==
    /\ install.at > 1 => d.manifest # None
    /\ install.at > 2 => d.dist # None
    /\ install.at > 3 => d.descriptors # None
    /\ install.at > 4 => d.proto # None

IsOwn(install, d) ==
    /\ install.at > 1 => d.manifest = Parse(install.root.manifest)
    /\ install.at > 2 => d.dist = install.root.dist
    /\ install.at > 3 => d.descriptors = install.root.descriptors
    /\ install.at > 4 => d.proto = install.root.proto
    /\ install.at > 5 => /\ d.install = "written"
                         /\ install.descriptorSha256 = install.root.descriptors

(* What is left of it so far: its package's, and no more in a fresh directory.*)
LeftBy(install) ==
    {file \in install.root.left :
        \/ install.at > 2 /\ file[1] = "dist"
        \/ install.at > 4 /\ file[1] = "proto"}

HasLeft(install, d) ==
    /\ LeftBy(install) \subseteq d.left
    /\ install.fresh =>
         /\ d.left = LeftBy(install)
         /\ install.at <= 2 => d.dist = None
         /\ install.at <= 4 => d.proto = None

InstallInv ==
    /\ dir \in Dirs
    /\ dir.install # None =>
         {dir.manifest, dir.dist, dir.descriptors, dir.proto} \cap {None} = {}
    /\ installs \in [Installers -> Installs \cup {None}]
    /\ \A i \in Installers : installs[i] # None =>
         /\ Proper(installs[i]) /\ HasWritten(installs[i], dir)
         /\ installs[i].sole => IsOwn(installs[i], dir) /\ HasLeft(installs[i], dir)

ClaimInv ==
    claim # None =>
        /\ claim \in Installs
        /\ Proper(claim)
        /\ dir.manifest = Parse(claim.root.manifest)
        /\ dir.dist = claim.root.dist
        /\ dir.descriptors = claim.root.descriptors
        /\ dir.proto = claim.root.proto
        /\ claim.root.left \subseteq dir.left
        /\ claim.fresh => dir.left = claim.root.left
        /\ dir.install = "written"
        /\ dir.integrity = [packageSha256 |-> ComputePackageDigest(claim.root),
                            descriptorSha256 |-> claim.root.descriptors,
                            methodIdsSha256 |-> claim.root.descriptors]

(* A process that was started from an install which is still in place reads  *)
(* that install.                                                             *)
ProcessInv ==
    /\ process \in [at : {"down", "spawned", "described", "up", "refused", "unloadable"},
                     service : Made, handlers : Made, install : Installs \cup {None}]
    /\ process.at \in {"described", "up"} => BuildPluginServiceDefinition(process.service)
    /\ process.at = "up" => process.handlers \in Revisions
    /\ process.install # None => process.install = claim
    /\ process.install # None /\ process.at \in {"described", "up"} =>
         process.service = claim.root.descriptors
    /\ process.install # None /\ process.at = "up" => process.handlers = claim.root.dist
    /\ process.install # None /\ process.at = "refused" => ~claim.checked

-------------------------------------------------------------------------------
(* Files, manifests and digests.                                             *)

LEMMA ManifestTypes ==
    ASSUME NEW m \in PackedManifests
    PROVE  /\ m # None
           /\ Parse(m) \in PackedManifests
           /\ NormalizeManifestForDigest(m) \in Manifests
           /\ NormalizeManifestForDigest(Parse(m)) = Parse(NormalizeManifestForDigest(m))
  <1>1. m # None
    BY DigestAssumption
  <1>2. /\ m.form \in {"schema", "other"}
        /\ m = [form |-> m.form, integrity |-> m.integrity]
    BY DEF PackedManifests
  <1>3. Parse(m) = [form |-> "schema", integrity |-> m.integrity]
    BY <1>2 DEF Parse
  <1>4. Parse(m) \in PackedManifests
    BY <1>3 DEF PackedManifests
  <1>5. CASE m.integrity \in {None, Empty}
    BY <1>1, <1>2, <1>3, <1>4, <1>5 DEF NormalizeManifestForDigest, Manifests
  <1>6. CASE m.integrity \notin {None, Empty}
    <2>1. NormalizeManifestForDigest(m) = [form |-> m.form, integrity |-> None]
      BY <1>2, <1>6 DEF NormalizeManifestForDigest
    <2>2. NormalizeManifestForDigest(Parse(m)) = [form |-> "schema", integrity |-> None]
      BY <1>3, <1>6 DEF NormalizeManifestForDigest
    <2> QED BY <1>1, <1>2, <1>4, <2>1, <2>2 DEF Parse, Manifests
  <1> QED BY <1>5, <1>6

LEMMA RootIsFiles ==
    ASSUME NEW p \in Projects
    PROVE  Root(p) = [manifest |-> p.manifest, dist |-> p.dist,
                      descriptors |-> p.descriptors, proto |-> p.proto, left |-> p.left]
  BY DEF Root, Restrict, NoFiles, Projects

LEMMA DigestType ==
    ASSUME NEW root,
           root.manifest \in PackedManifests,
           root.dist \in Files, root.descriptors \in Files, root.proto \in Files,
           root.left \in SUBSET OwnFiles
    PROVE  ComputePackageDigest(root) \in Digests
  BY ManifestTypes DEF ComputePackageDigest, Digests

LEMMA PackPluginIs ==
    ASSUME NEW root \in Roots
    PROVE  /\ ComputePackageDigest(root) \in Digests
           /\ PackPlugin(root) =
                [manifest |-> [form |-> "schema", integrity |-> ComputePackageDigest(root)],
                 dist |-> root.dist, descriptors |-> root.descriptors, proto |-> root.proto,
                 left |-> root.left]
  <1>1. root.manifest \in Manifests /\ root.manifest \in PackedManifests
    BY DEF Roots, Manifests, PackedManifests
  <1>2. Parse(root.manifest) = [form |-> "schema", integrity |-> root.manifest.integrity]
    BY <1>1 DEF Parse, Manifests
  <1>3. [Parse(root.manifest) EXCEPT !.integrity = ComputePackageDigest(root)]
           = [form |-> "schema", integrity |-> ComputePackageDigest(root)]
    BY <1>2
  <1>4. PackPlugin(root) =
          [root EXCEPT !.manifest = [form |-> "schema", integrity |-> ComputePackageDigest(root)]]
    BY <1>3 DEF PackPlugin
  <1> QED BY <1>1, <1>4, DigestType DEF Roots, Made, Files

\* What packPlugin makes of a valid project passes the checks of installPlugin
\* if the manifest is one that it prints as it was.
LEMMA PackedIsAccepted ==
    ASSUME NEW root \in Roots, ValidatePluginManifest(root),
           root.manifest.form = "schema", root.manifest.integrity # Empty
    PROVE  Accepts("tarball", PackPlugin(root))
  <1> DEFINE digest == ComputePackageDigest(root)
             packed == PackPlugin(root)
  <1>1. /\ digest \in Digests
        /\ packed = [manifest |-> [form |-> "schema", integrity |-> digest],
                     dist |-> root.dist, descriptors |-> root.descriptors, proto |-> root.proto,
                     left |-> root.left]
    BY PackPluginIs
  <1>2. digest \notin {None, Empty}
    BY <1>1, DigestAssumption
  <1>3. packed.manifest # None
    BY <1>1, DigestAssumption DEF PackedManifests
  <1>4. NormalizeManifestForDigest(packed.manifest) = [form |-> "schema", integrity |-> None]
    BY <1>1, <1>2 DEF NormalizeManifestForDigest
  <1>5. NormalizeManifestForDigest(root.manifest) = [form |-> "schema", integrity |-> None]
    <2>1. root.manifest = [form |-> "schema", integrity |-> root.manifest.integrity]
      BY DEF Roots, Manifests
    <2> QED BY <2>1 DEF NormalizeManifestForDigest
  <1>6. digest = ComputePackageDigest(packed)
    BY <1>1, <1>4, <1>5 DEF ComputePackageDigest
  <1>7. ValidatePluginManifest(packed)
    BY <1>1, <1>3 DEF ValidatePluginManifest
  <1>8. packed.manifest.integrity = digest
    BY <1>1
  <1> HIDE DEF digest, packed
  <1>9. Accepts("tarball", packed)
    BY <1>2, <1>6, <1>7, <1>8 DEF Accepts
  <1> QED BY <1>9 DEF packed

\* A tarball that passes these checks was packed by packPlugin, and nothing in
\* it has changed since.
LEMMA AcceptedIsTrusted ==
    ASSUME package # None, PackageInv, Accepts("tarball", package.root)
    PROVE  /\ package.packed /\ package.intact
           /\ package.root \in Contents
           /\ BuildPluginServiceDefinition(package.root.descriptors)
           /\ package.checked => Fits(package.root)
           /\ LeftByOthers(package.root)
  <1>1. package \in Packages
    BY DEF PackageInv
  <1>2. PICK root \in Roots : MadeFrom(package, root)
    BY DEF PackageInv
  <1> DEFINE expected == package.root.manifest.integrity
             actual == ComputePackageDigest(package.root)
  <1>3. /\ package.root.manifest \in PackedManifests
        /\ package.root.dist \in Files
        /\ package.root.descriptors \in Files
        /\ package.root.proto \in Files
        /\ package.root.left \in SUBSET OwnFiles
    BY <1>1 DEF Packages, PackedRoots
  <1>4. actual \in Digests
    BY <1>3, DigestType
  <1>5. /\ ValidatePluginManifest(package.root)
        /\ expected = actual
    BY DEF Accepts
  <1>6. expected \notin {None, Empty, Stale}
    BY <1>4, <1>5, DigestAssumption
  <1>7. package.packed \in BOOLEAN /\ package.intact \in BOOLEAN
    BY <1>1 DEF Packages
  <1>8. package.packed
    <2> SUFFICES ASSUME ~package.packed PROVE FALSE
      BY <1>7
    <2>1. package.intact => package.root = root
      BY <1>2 DEF MadeFrom
    <2>2. ~package.intact => \E part \in Parts : package.root = [root EXCEPT ![part] = Damaged]
      BY <1>2 DEF MadeFrom
    <2>3. package.root.manifest = root.manifest
      BY <2>1, <2>2, <1>7 DEF Roots, Parts
    <2> QED BY <2>3, <1>6 DEF Roots, Manifests
  <1> DEFINE whole == PackPlugin(root)
             digest == ComputePackageDigest(root)
  <1>9. /\ digest \in Digests
        /\ whole = [manifest |-> [form |-> "schema", integrity |-> digest], dist |-> root.dist,
                    descriptors |-> root.descriptors, proto |-> root.proto, left |-> root.left]
    BY PackPluginIs
  <1>10. ValidatePluginManifest(root) /\ (root.dist # None => root.proto # None)
    BY <1>2, <1>8 DEF MadeFrom
  <1>11. root.dist \in Revisions /\ root.descriptors \in Revisions /\ root.proto \in Revisions
    BY <1>10 DEF ValidatePluginManifest, BuildPluginServiceDefinition, Roots, Made
  <1>12. package.intact
    <2> SUFFICES ASSUME ~package.intact PROVE FALSE
      BY <1>7
    <2>1. PICK part \in Parts : package.root = [whole EXCEPT ![part] = Damaged]
      BY <1>2, <1>8 DEF MadeFrom
    <2>2. package.root.manifest = whole.manifest /\ package.root[part] = Damaged
      BY <2>1, <1>9 DEF Parts
    <2>3. expected = digest
      BY <2>2, <1>9
    <2>4. actual.dist = package.root.dist /\ actual.descriptors = package.root.descriptors
             /\ actual.proto = package.root.proto
      BY DEF ComputePackageDigest
    <2>5. digest.dist = root.dist /\ digest.descriptors = root.descriptors
             /\ digest.proto = root.proto
      BY DEF ComputePackageDigest
    <2>6. Damaged \in {root.dist, root.descriptors, root.proto}
      BY <1>5, <2>2, <2>3, <2>4, <2>5 DEF Parts
    <2> QED BY <2>6, <1>11, PackageAssumption
  <1>13. package.root = whole
    BY <1>2, <1>8, <1>12 DEF MadeFrom
  <1>14. package.root \in Contents
    BY <1>3, <1>9, <1>11, <1>13 DEF Contents
  <1>15. package.checked => Fits(package.root)
    BY <1>2, <1>9, <1>13 DEF MadeFrom, Fits
  <1>17. LeftByOthers(package.root)
    <2> HIDE DEF whole, digest
    <2>1. /\ package.root.dist = root.dist /\ package.root.descriptors = root.descriptors
          /\ package.root.proto = root.proto /\ package.root.left = root.left
      BY <1>9, <1>13
    <2>2. LeftByOthers(root)
      BY <1>2 DEF MadeFrom
    <2> QED BY <2>1, <2>2 DEF LeftByOthers, Parts
  <1>16. BuildPluginServiceDefinition(package.root.descriptors)
    BY <1>5 DEF ValidatePluginManifest
  <1> QED BY <1>8, <1>12, <1>14, <1>15, <1>16, <1>17

-------------------------------------------------------------------------------
(* The author.                                                               *)

LEMMA AuthorKeepsProject ==
    ASSUME ProjectInv, Author
    PROVE  ProjectInv'
  <1> USE DEF ProjectInv, Projects, Made
  <1>1. CASE InitProject
    <2>1. workflow = "edited" /\ workflow' = "edited"
      BY <1>1 DEF InitProject, NoProject
    <2>2. PICK n \in DOMAIN TemplateFiles :
            project' = [file \in DOMAIN NoProject |->
                IF \E i \in 1..n : TemplateFiles[i] = file
                THEN Template[file] ELSE NoProject[file]]
      BY <1>1 DEF InitProject
    <2>3. n \in 1..4 /\ TemplateFiles[1] = "config" /\ TemplateFiles[2] = "manifest"
             /\ TemplateFiles[3] = "proto" /\ TemplateFiles[4] = "src"
      BY DEF TemplateFiles
    <2>4. DOMAIN project' = {"config", "manifest", "proto", "src", "typed", "dist",
                             "descriptors", "handlers", "left"}
      BY <2>2 DEF NoProject
    <2>5. /\ project'.config = TRUE
          /\ project'.manifest \in {None, [form |-> "schema", integrity |-> None]}
          /\ project'.proto = IF n >= 3 THEN TemplateContract ELSE None
          /\ project'.src = IF n >= 4 THEN TemplateContract ELSE None
          /\ project'.dist = None /\ project'.descriptors = None /\ project'.handlers = None
          /\ project'.typed = TRUE /\ project'.left = {}
      BY <2>2, <2>3 DEF NoProject, Template
    <2>6. [form |-> "schema", integrity |-> None] \in Manifests
      BY DEF Manifests
    <2>7. TemplateContract # None /\ TemplateContract \in Revisions
      BY InstallAssumption, PackageAssumption
    <2>8. project' \in Projects
      BY <2>2, <2>4, <2>5, <2>6, <2>7
    <2> QED BY <2>1, <2>3, <2>5, <2>7, <2>8 DEF Checked
  <1>2. ASSUME NEW file \in {"proto", "src"}, NEW r \in Revisions, Edit(file, r)
        PROVE  ProjectInv'
    <2>1. r # None
      BY PackageAssumption
    <2>2. project' = [project EXCEPT ![file] = r] /\ project[file] # None
      BY <1>2 DEF Edit
    <2>3. project' \in Projects
      BY <2>2
    <2>4. workflow' \in {"edited", "generated"} /\ (workflow' = "generated" => workflow # "edited")
      BY <1>2 DEF Edit
    <2>5. /\ project'.config = project.config /\ project'.manifest = project.manifest
          /\ project'.dist = project.dist /\ project'.handlers = project.handlers
          /\ project'.descriptors = project.descriptors
          /\ project'.src \in {project.src, r} /\ project'.proto \in {project.proto, r}
          /\ project'.left = project.left
      BY <2>2
    <2>6. project'.src # None => project.src # None
      BY <2>2, <2>5
    <2>7. project.src # None => project'.src # None
      BY <2>1, <2>5
    <2> QED BY <2>1, <2>3, <2>4, <2>5, <2>6, <2>7 DEF Checked
  <1>3. CASE Generate
    <2>1. project.manifest # None /\ project.proto # None
      BY <1>3 DEF Generate
    <2>2. project' = [project EXCEPT !.descriptors = project.proto, !.handlers = project.proto]
      BY <1>3 DEF Generate
    <2> QED BY <1>3, <2>1, <2>2 DEF Generate, Checked
  <1>4. CASE GenerateFails
    <2>1. project' = [project EXCEPT !.descriptors = project.proto] /\ workflow' = "edited"
      BY <1>4 DEF GenerateFails
    <2> QED BY <2>1 DEF Checked
  <1>5. CASE Build
    <2> DEFINE others == (project.left \cup {<<"dist", project.dist>>}) \cap OwnFiles
               left == others \ {<<"dist", project.src>>}
    <2>1. project' = [project EXCEPT !.dist = project.src, !.left = left]
      BY <1>5 DEF Build, CopyInto
    <2>2. project.src # None
      BY <1>5 DEF Build
    <2>3. \/ workflow' = workflow /\ workflow # "built"
          \/ workflow' = "built" /\ workflow \in {"generated", "built"}
      BY <1>5 DEF Build
    <2>4. workflow' = "built" /\ workflow # "built" /\ project.typed =>
            Handlers(project.src) = Handlers(project.handlers)
      BY <1>5 DEF Build
    <2>5. /\ left \in SUBSET OwnFiles /\ <<"dist", project.src>> \notin left
          /\ \A file \in left : file[1] = "dist"
      OBVIOUS
    <2> HIDE DEF left
    <2>6. /\ project' \in Projects
          /\ project'.config = project.config /\ project'.manifest = project.manifest
          /\ project'.proto = project.proto /\ project'.src = project.src
          /\ project'.typed = project.typed /\ project'.dist = project.src
          /\ project'.descriptors = project.descriptors
          /\ project'.handlers = project.handlers /\ project'.left = left
      BY <2>1, <2>5
    <2> QED BY <2>2, <2>3, <2>4, <2>5, <2>6 DEF Checked
  <1>6. ASSUME UNCHANGED <<project, workflow>> PROVE ProjectInv'
    BY <1>6 DEF Checked
  <1>7. CASE (\E packed \in BOOLEAN : Pack(packed)) \/ (\E part \in Parts : Damage(part))
    BY <1>6, <1>7 DEF Pack, Damage
  <1> QED BY <1>1, <1>2, <1>3, <1>4, <1>5, <1>7 DEF Author

LEMMA AuthorKeepsPackage ==
    ASSUME ProjectInv, PackageInv, Author
    PROVE  PackageInv'
  <1>1. ASSUME NEW packed \in BOOLEAN, Pack(packed) PROVE PackageInv'
    <2> DEFINE root == Root(project)
    <2>1. project \in Projects /\ project.manifest # None
      BY <1>1 DEF ProjectInv, Pack
    <2>2. root = [manifest |-> project.manifest, dist |-> project.dist,
                  descriptors |-> project.descriptors, proto |-> project.proto,
                  left |-> project.left]
      BY <2>1, RootIsFiles
    <2>3. root \in Roots
      BY <2>1, <2>2 DEF Projects, Roots
    <2>4. package' = [root |-> IF packed THEN PackPlugin(root) ELSE root,
                      from |-> project.manifest, packed |-> packed, intact |-> TRUE,
                      checked |-> Checked]
      BY <1>1 DEF Pack
    <2>5. packed => ValidatePluginManifest(root)
      BY <1>1, <2>2 DEF Pack, ValidatePluginManifest
    <2>6. Checked => Fits(root)
      BY <2>2 DEF ProjectInv, Fits, Checked
    <2>14. Checked \in BOOLEAN
      BY <2>1 DEF Checked, Projects
    <2>15. LeftByOthers(root)
      BY <2>2 DEF ProjectInv, LeftByOthers, Parts
    <2>7. root.dist # None => root.proto # None
      BY <2>2 DEF ProjectInv
    <2>8. PackPlugin(root) \in PackedRoots
      BY <2>3, PackPluginIs DEF Roots, PackedRoots, PackedManifests, Made, Files
    <2>9. root \in PackedRoots
      BY <2>3 DEF Roots, PackedRoots, Manifests, PackedManifests, Made, Files
    <2>10. project.manifest \in Manifests
      BY <2>1 DEF Projects
    <2> HIDE DEF root
    <2>11. package' \in Packages
      BY <2>4, <2>8, <2>9, <2>10, <2>14 DEF Packages
    <2>12. project.manifest = root.manifest
      BY <2>2
    <2>13. MadeFrom(package', root)
      BY <2>4, <2>5, <2>6, <2>7, <2>12, <2>15 DEF MadeFrom
    <2> QED BY <2>3, <2>11, <2>13 DEF PackageInv
  <1>2. ASSUME NEW part \in Parts, Damage(part) PROVE PackageInv'
    <2>1. package # None /\ package.intact
      BY <1>2 DEF Damage
    <2>2. package \in Packages
      BY <2>1 DEF PackageInv
    <2>3. PICK root \in Roots : MadeFrom(package, root)
      BY <2>1 DEF PackageInv
    <2>4. package' = [package EXCEPT !.root = [package.root EXCEPT ![part] = Damaged],
                                     !.intact = FALSE]
      BY <1>2 DEF Damage
    <2> DEFINE damaged == [package.root EXCEPT ![part] = Damaged]
    <2>5. damaged \in PackedRoots
      BY <2>2 DEF Packages, PackedRoots, Parts, Files
    <2>6. package' = [root |-> damaged, from |-> package.from, packed |-> package.packed,
                      intact |-> FALSE, checked |-> package.checked]
      BY <2>2, <2>4 DEF Packages
    <2> DEFINE whole == IF package.packed THEN PackPlugin(root) ELSE root
    <2>7. damaged = [whole EXCEPT ![part] = Damaged]
      BY <2>1, <2>3 DEF MadeFrom
    <2>8. package' \in Packages
      <3> HIDE DEF damaged
      <3> QED BY <2>2, <2>5, <2>6 DEF Packages
    <2>9. MadeFrom(package', root)
      <3>1. /\ package'.from = package.from /\ package'.packed = package.packed
            /\ package'.checked = package.checked /\ package'.intact = FALSE
            /\ package'.root = damaged
        BY <2>6
      <3> HIDE DEF damaged
      <3>2. \E p \in Parts : package'.root = [whole EXCEPT ![p] = Damaged]
        BY <2>7, <3>1
      <3> QED BY <2>3, <3>1, <3>2 DEF MadeFrom
    <2> QED BY <2>8, <2>9 DEF PackageInv
  <1>3. CASE UNCHANGED package
    BY <1>3 DEF PackageInv
  <1>4. ASSUME NEW file \in {"proto", "src"}, NEW r \in Revisions, Edit(file, r)
        PROVE  UNCHANGED package
    BY <1>4 DEF Edit
  <1>5. CASE InitProject \/ Generate \/ GenerateFails \/ Build
    BY <1>3, <1>5 DEF InitProject, Generate, GenerateFails, Build
  <1> QED BY <1>1, <1>2, <1>3, <1>4, <1>5 DEF Author

-------------------------------------------------------------------------------
(* The installers.                                                           *)

\* What has been accepted: a folder of the author's, or a tarball.
LEMMA BeginsWithPackage ==
    ASSUME ProjectInv, PackageInv, NEW i \in Installers, NEW kind \in {"folder", "tarball"},
           Begin(i, kind)
    PROVE  \E install \in Installs :
             /\ installs' = [installs EXCEPT ![i] = install]
             /\ install.at = 1
             /\ Proper(install)
             /\ install.fresh => dir = NoInstall
  <1> DEFINE root == IF kind = "folder" THEN Root(project) ELSE package.root
             checked == IF kind = "folder" THEN Checked ELSE package.checked
             fresh == dir = NoInstall
             trusted == kind = "folder" \/ (package.packed /\ package.intact)
             install == [root |-> root, at |-> 1, descriptorSha256 |-> None, sole |-> TRUE,
                         fresh |-> fresh, trusted |-> trusted, checked |-> checked]
  <1>1. /\ installs' = [installs EXCEPT ![i] = install]
        /\ Accepts(kind, root)
        /\ kind = "folder" \/ package # None
    BY DEF Begin
  <1>2. /\ root \in Contents
        /\ BuildPluginServiceDefinition(root.descriptors)
        /\ checked => Fits(root)
        /\ LeftByOthers(root)
        /\ trusted = TRUE /\ checked \in BOOLEAN
    <2>1. CASE kind = "folder"
      <3>1. root = [manifest |-> project.manifest, dist |-> project.dist,
                    descriptors |-> project.descriptors, proto |-> project.proto,
                    left |-> project.left]
        BY <2>1, RootIsFiles DEF ProjectInv
      <3>2. ValidatePluginManifest(root)
        BY <1>1 DEF Accepts
      <3>3. root.manifest \in Manifests
        BY <3>1, <3>2 DEF ValidatePluginManifest, ProjectInv, Projects
      <3>4. /\ root.manifest \in PackedManifests
            /\ root.dist \in Revisions /\ root.descriptors \in Revisions
            /\ root.proto \in Revisions /\ root.left \in SUBSET OwnFiles
        BY <3>1, <3>2, <3>3
           DEF ValidatePluginManifest, ProjectInv, Projects, Made, Manifests, PackedManifests
      <3>5. (checked => Fits(root)) /\ checked \in BOOLEAN
        BY <2>1, <3>1 DEF ProjectInv, Projects, Fits, Checked
      <3>6. LeftByOthers(root)
        BY <3>1 DEF ProjectInv, LeftByOthers, Parts
      <3> QED BY <2>1, <3>1, <3>2, <3>4, <3>5, <3>6 DEF Contents, ValidatePluginManifest
    <2>2. CASE kind = "tarball"
      <3>1. package # None /\ Accepts("tarball", package.root) /\ root = package.root
        BY <1>1, <2>2
      <3>2. package.checked \in BOOLEAN
        BY <3>1 DEF PackageInv, Packages
      <3> QED BY <2>2, <3>1, <3>2, AcceptedIsTrusted
    <2> QED BY <2>1, <2>2
  <1>3. install \in Installs
    <2> HIDE DEF root, checked, trusted
    <2> QED BY <1>2 DEF Installs, Made
  <1>4. Proper(install)
    <2> HIDE DEF root, checked, trusted
    <2> QED BY <1>2 DEF Proper
  <1> HIDE DEF install
  <1>5. install.at = 1 /\ (install.fresh => dir = NoInstall)
    BY DEF install
  <1> QED BY <1>1, <1>3, <1>4, <1>5

\* A directory that is copied over another brings what others left in it, and
\* leaves what is there of others; where there was nothing, it is all there is.
KeepsLeft(d, part, root, copy) ==
    LET brought == {file \in root.left : file[1] = part}
    IN  /\ copy = [d EXCEPT ![part] = root[part], !.left = copy.left]
        /\ copy.left \in SUBSET OwnFiles
        /\ {file \in d.left : file[1] # part} \subseteq copy.left
        /\ brought \subseteq copy.left
        /\ d[part] = None \/ part = "descriptors" => copy.left \subseteq d.left \cup brought

LEMMA CopyKeepsLeft ==
    ASSUME NEW d \in Dirs, NEW part \in Parts, NEW root \in Contents, LeftByOthers(root)
    PROVE  KeepsLeft(d, part, root, CopyInto(d, part, root))
  <1> DEFINE brought == {file \in root.left : file[1] = part}
             others == (d.left \cup {<<part, d[part]>>}) \cap OwnFiles
             left == (others \cup brought) \ {<<part, root[part]>>}
  <1>1. CopyInto(d, part, root) = [d EXCEPT ![part] = root[part], !.left = left]
    BY DEF CopyInto
  <1>2. CopyInto(d, part, root).left = left
    <2> HIDE DEF left
    <2> QED BY <1>1 DEF Dirs
  <1>3. d.left \in SUBSET OwnFiles /\ root.left \in SUBSET OwnFiles
    BY DEF Dirs, Contents
  <1>4. left \in SUBSET OwnFiles
    BY <1>3
  <1>5. {file \in d.left : file[1] # part} \subseteq left
    BY <1>3
  <1>6. brought \subseteq left
    <2>1. <<part, root[part]>> \notin root.left
      BY DEF LeftByOthers
    <2> QED BY <2>1
  <1>7. ASSUME d[part] = None \/ part = "descriptors"
        PROVE  left \subseteq d.left \cup brought
    <2>1. <<part, d[part]>> \notin OwnFiles
      BY <1>7, PackageAssumption
    <2> QED BY <2>1
  <1> HIDE DEF left, brought
  <1> QED BY <1>1, <1>2, <1>4, <1>5, <1>6, <1>7 DEF KeepsLeft, brought

\* A write puts one file of the install into the directory.
LEMMA WritesOneFile ==
    ASSUME dir \in Dirs, NEW install \in Installs, NEW d, d = Write(install),
           LeftByOthers(install.root)
    PROVE  /\ d \in Dirs
           /\ d.manifest = IF install.at = 1 THEN Parse(install.root.manifest) ELSE dir.manifest
           /\ d.dist = IF install.at = 2 THEN install.root.dist ELSE dir.dist
           /\ d.descriptors =
                IF install.at = 3 THEN install.root.descriptors ELSE dir.descriptors
           /\ d.proto = IF install.at = 4 THEN install.root.proto ELSE dir.proto
           /\ d.install = IF install.at = 5 THEN "written" ELSE dir.install
           /\ d.integrity =
                IF install.at = 6
                THEN [packageSha256 |-> ComputePackageDigest(install.root),
                      descriptorSha256 |-> install.descriptorSha256,
                      methodIdsSha256 |-> install.root.descriptors]
                ELSE dir.integrity
           /\ d.left = IF install.at \in {2, 3, 4}
                       THEN CopyInto(dir, Writes[install.at], install.root).left ELSE dir.left
  <1> DEFINE file == Writes[install.at]
             metadata == [packageSha256 |-> ComputePackageDigest(install.root),
                          descriptorSha256 |-> install.descriptorSha256,
                          methodIdsSha256 |-> install.root.descriptors]
  <1>1. install.at \in 1..6 /\ install.root \in Contents
    BY DEF Installs
  <1>2. Parse(install.root.manifest) \in PackedManifests
    BY <1>1, ManifestTypes DEF Contents
  <1>3. metadata \in [packageSha256 : Digests, descriptorSha256 : Made,
                      methodIdsSha256 : Revisions]
    BY <1>1, DigestType DEF Contents, Files, Installs
  <1>4. CASE install.at = 1
    <2>1. file = "manifest"
      BY <1>4 DEF Writes
    <2>2. d = [dir EXCEPT !.manifest = Parse(install.root.manifest)]
      BY <2>1 DEF Write, Parts
    <2> QED BY <1>2, <1>4, <2>2 DEF Dirs
  <1>5. CASE install.at \in {2, 3, 4}
    <2>1. file \in Parts /\ file # "manifest"
      BY <1>5 DEF Writes, Parts
    <2> DEFINE left == CopyInto(dir, file, install.root).left
    <2>2. d = CopyInto(dir, file, install.root)
      BY <2>1 DEF Write, Parts
    <2>3. /\ d = [dir EXCEPT ![file] = install.root[file], !.left = left]
          /\ left \in SUBSET OwnFiles
      <3> HIDE DEF file
      <3>1. KeepsLeft(dir, file, install.root, CopyInto(dir, file, install.root))
        BY <1>1, <2>1, CopyKeepsLeft
      <3> QED BY <2>2, <3>1 DEF KeepsLeft
    <2> DEFINE copied(dist, descriptors, proto) ==
                 [manifest |-> dir.manifest, dist |-> dist, descriptors |-> descriptors,
                  proto |-> proto, left |-> left, install |-> dir.install,
                  integrity |-> dir.integrity]
    <2>4. dir = [manifest |-> dir.manifest, dist |-> dir.dist,
                 descriptors |-> dir.descriptors, proto |-> dir.proto, left |-> dir.left,
                 install |-> dir.install, integrity |-> dir.integrity]
      BY DEF Dirs
    <2>5. ASSUME install.at = 2
          PROVE  d = copied(install.root.dist, dir.descriptors, dir.proto)
      <3>1. file = "dist"
        BY <2>5 DEF Writes
      <3> HIDE DEF file, left
      <3> QED BY <2>3, <2>4, <3>1
    <2>6. ASSUME install.at = 3
          PROVE  d = copied(dir.dist, install.root.descriptors, dir.proto)
      <3>1. file = "descriptors"
        BY <2>6 DEF Writes
      <3> HIDE DEF file, left
      <3> QED BY <2>3, <2>4, <3>1
    <2>7. ASSUME install.at = 4
          PROVE  d = copied(dir.dist, dir.descriptors, install.root.proto)
      <3>1. file = "proto"
        BY <2>7 DEF Writes
      <3> HIDE DEF file, left
      <3> QED BY <2>3, <2>4, <3>1
    <2> HIDE DEF left, file
    <2>8. /\ install.root.dist \in Made /\ install.root.descriptors \in Made
          /\ install.root.proto \in Made /\ left \in SUBSET OwnFiles
          /\ dir.dist \in Made /\ dir.descriptors \in Made /\ dir.proto \in Made
      BY <1>1, <2>3 DEF Contents, Made, Dirs
    <2>9. ASSUME NEW dist \in Made, NEW descriptors \in Made, NEW proto \in Made,
                 d = copied(dist, descriptors, proto)
          PROVE  /\ d \in Dirs /\ d.left = left /\ d.manifest = dir.manifest
                 /\ d.install = dir.install /\ d.integrity = dir.integrity
                 /\ d.dist = dist /\ d.descriptors = descriptors /\ d.proto = proto
      BY <2>8, <2>9 DEF Dirs
    <2> HIDE DEF copied
    <2>10. /\ d \in Dirs /\ d.left = left /\ d.manifest = dir.manifest
           /\ d.install = dir.install /\ d.integrity = dir.integrity
           /\ d.dist = IF install.at = 2 THEN install.root.dist ELSE dir.dist
           /\ d.descriptors =
                IF install.at = 3 THEN install.root.descriptors ELSE dir.descriptors
           /\ d.proto = IF install.at = 4 THEN install.root.proto ELSE dir.proto
      <3>1. CASE install.at = 2
        <4>1. /\ d \in Dirs /\ d.left = left /\ d.manifest = dir.manifest
              /\ d.install = dir.install /\ d.integrity = dir.integrity
              /\ d.dist = install.root.dist
              /\ d.descriptors = dir.descriptors /\ d.proto = dir.proto
          BY <2>5, <2>8, <2>9, <3>1
        <4> QED BY <3>1, <4>1
      <3>2. CASE install.at = 3
        <4>1. /\ d \in Dirs /\ d.left = left /\ d.manifest = dir.manifest
              /\ d.install = dir.install /\ d.integrity = dir.integrity
              /\ d.descriptors = install.root.descriptors
              /\ d.dist = dir.dist /\ d.proto = dir.proto
          BY <2>6, <2>8, <2>9, <3>2
        <4> QED BY <3>2, <4>1
      <3>3. CASE install.at = 4
        <4>1. /\ d \in Dirs /\ d.left = left /\ d.manifest = dir.manifest
              /\ d.install = dir.install /\ d.integrity = dir.integrity
              /\ d.proto = install.root.proto
              /\ d.dist = dir.dist /\ d.descriptors = dir.descriptors
          BY <2>7, <2>8, <2>9, <3>3
        <4> QED BY <3>3, <4>1
      <3> QED BY <1>5, <3>1, <3>2, <3>3
    <2> QED BY <1>5, <2>10 DEF left, file
  <1>6. CASE install.at = 5
    <2>1. d = [dir EXCEPT !.install = "written"]
      BY <1>6 DEF Write, Writes, Parts
    <2> QED BY <1>6, <2>1 DEF Dirs
  <1>7. CASE install.at = 6
    <2>1. d = [dir EXCEPT !.integrity = metadata]
      BY <1>7 DEF Write, Writes, Parts
    <2> HIDE DEF metadata
    <2>2. /\ d \in Dirs
          /\ d.manifest = dir.manifest /\ d.dist = dir.dist /\ d.descriptors = dir.descriptors
          /\ d.proto = dir.proto /\ d.install = dir.install /\ d.integrity = metadata
          /\ d.left = dir.left
      BY <1>3, <2>1 DEF Dirs
    <2> QED BY <1>7, <2>2 DEF metadata
  <1> QED BY <1>1, <1>4, <1>5, <1>6, <1>7

\* What others left of a package comes with its directories, one by one.
LEMMA LeavesItsOwn ==
    ASSUME dir \in Dirs, NEW install, install.at \in 1..5, install.root \in Contents,
           LeftByOthers(install.root), HasLeft(install, dir),
           NEW d,
           d.dist = IF install.at = 2 THEN install.root.dist ELSE dir.dist,
           d.proto = IF install.at = 4 THEN install.root.proto ELSE dir.proto,
           d.left = IF install.at \in {2, 3, 4}
                    THEN CopyInto(dir, Writes[install.at], install.root).left ELSE dir.left,
           NEW next, next.at = install.at + 1, next.root = install.root,
           next.fresh = install.fresh
    PROVE  HasLeft(next, d)
  <1> DEFINE part == Writes[install.at]
             root == install.root
             brought == {file \in root.left : file[1] = part}
  <1>1. root.left \in SUBSET OwnFiles
    BY DEF Contents
  <1>2. CASE install.at \in {1, 5}
    <2>1. LeftBy(next) = LeftBy(install) /\ d.left = dir.left
      BY <1>2 DEF LeftBy
    <2> QED BY <1>2, <2>1 DEF HasLeft
  <1>3. CASE install.at \in {2, 3, 4}
    <2>1. /\ install.at = 2 => part = "dist"
          /\ install.at = 3 => part = "descriptors"
          /\ install.at = 4 => part = "proto"
      BY DEF Writes
    <2>2. part \in Parts
      BY <1>3, <2>1 DEF Parts
    <2>3. /\ d.left = CopyInto(dir, part, root).left
          /\ {file \in dir.left : file[1] # part} \subseteq d.left
          /\ brought \subseteq d.left
          /\ dir[part] = None \/ part = "descriptors" => d.left \subseteq dir.left \cup brought
      <3>1. d.left = CopyInto(dir, part, root).left
        BY <1>3
      <3> HIDE DEF part, root
      <3>2. KeepsLeft(dir, part, root, CopyInto(dir, part, root))
        BY <2>2, CopyKeepsLeft DEF root
      <3> QED BY <3>1, <3>2 DEF KeepsLeft
    <2>4. LeftBy(next) = LeftBy(install) \cup brought
      BY <1>1, <1>3, <2>1, PackageAssumption DEF LeftBy
    <2>5. \A file \in LeftBy(install) : file[1] # part
      BY <1>3, <2>1 DEF LeftBy
    <2> HIDE DEF part, brought, root
    <2>6. LeftBy(next) \subseteq d.left
      BY <2>3, <2>4, <2>5 DEF HasLeft
    <2>7. ASSUME install.fresh
          PROVE  d.left = LeftBy(next)
      <3>1. dir[part] = None \/ part = "descriptors"
        BY <1>3, <2>1, <2>7 DEF HasLeft
      <3> QED BY <2>3, <2>4, <2>6, <2>7, <3>1 DEF HasLeft
    <2>8. ASSUME install.fresh
          PROVE  /\ next.at <= 2 => d.dist = None
                 /\ next.at <= 4 => d.proto = None
      BY <1>3, <2>8 DEF HasLeft
    <2> QED BY <2>6, <2>7, <2>8 DEF HasLeft
  <1> QED BY <1>2, <1>3

\* The files an install puts down are there from then on.
LEMMA StepOfInstall ==
    ASSUME InstallInv, NEW i \in Installers, Step(i)
    PROVE  /\ InstallInv'
           /\ ClaimInv'
  <1> DEFINE install == installs[i]
             returns == install.at = Len(Writes)
             sha == IF Writes[install.at] = "install" THEN dir.descriptors
                    ELSE install.descriptorSha256
             next == [install EXCEPT !.at = install.at + 1, !.descriptorSha256 = sha]
  <1>1. install \in Installs /\ install # None
    BY DEF InstallInv, Step
  <1>2. /\ install.at \in 1..6 /\ install.root \in Contents /\ install.descriptorSha256 \in Made
        /\ install.sole \in BOOLEAN
    BY <1>1 DEF Installs
  <1>3. /\ Proper(install) /\ HasWritten(install, dir)
        /\ install.sole => IsOwn(install, dir) /\ HasLeft(install, dir)
    BY <1>1 DEF InstallInv
  <1>4. returns <=> install.at = 6
    BY DEF Writes
  <1>5. sha = IF install.at = 5 THEN dir.descriptors ELSE install.descriptorSha256
    BY <1>2 DEF Writes
  <1>6. dir \in Dirs
    BY DEF InstallInv
  <1>7. dir' = Write(install)
    BY DEF Step
  <1> DEFINE root == install.root
  <1>8. /\ dir' \in Dirs
        /\ dir'.manifest = IF install.at = 1 THEN Parse(root.manifest) ELSE dir.manifest
        /\ dir'.dist = IF install.at = 2 THEN root.dist ELSE dir.dist
        /\ dir'.descriptors = IF install.at = 3 THEN root.descriptors ELSE dir.descriptors
        /\ dir'.proto = IF install.at = 4 THEN root.proto ELSE dir.proto
        /\ dir'.install = IF install.at = 5 THEN "written" ELSE dir.install
        /\ dir'.integrity =
             IF install.at = 6
             THEN [packageSha256 |-> ComputePackageDigest(root),
                   descriptorSha256 |-> install.descriptorSha256,
                   methodIdsSha256 |-> root.descriptors]
             ELSE dir.integrity
        /\ dir'.left = IF install.at \in {2, 3, 4}
                       THEN CopyInto(dir, Writes[install.at], root).left ELSE dir.left
    <2>1. LeftByOthers(root)
      BY <1>3 DEF Proper
    <2> HIDE DEF install
    <2> QED BY <1>1, <1>6, <1>7, <2>1, WritesOneFile
  <1>9. /\ Parse(root.manifest) # None
        /\ root.dist # None /\ root.descriptors # None /\ root.proto # None
    BY <1>2, ManifestTypes, PackageAssumption DEF Contents
  <1>10. installs' = [j \in Installers |->
            IF j = i THEN IF returns THEN None ELSE next
            ELSE IF installs[j] = None THEN None ELSE [installs[j] EXCEPT !.sole = FALSE]]
    BY DEF Step
  <1>11. claim' = IF returns /\ install.sole THEN install ELSE None
    BY DEF Step
  <1>12. ~returns => /\ next \in Installs
                     /\ next.at = install.at + 1 /\ next.root = root
                     /\ next.sole = install.sole /\ next.fresh = install.fresh
                     /\ next.checked = install.checked /\ next.descriptorSha256 = sha
    <2> SUFFICES ASSUME ~returns
                 PROVE  /\ next \in Installs
                        /\ next.at = install.at + 1 /\ next.root = root
                        /\ next.sole = install.sole /\ next.fresh = install.fresh
                        /\ next.checked = install.checked /\ next.descriptorSha256 = sha
      OBVIOUS
    <2>1. install.at + 1 \in 1..6
      BY <1>2, <1>4
    <2>2. sha \in Made
      BY <1>2, <1>5, <1>6 DEF Dirs
    <2> HIDE DEF install, sha
    <2> QED BY <1>1, <2>1, <2>2 DEF Installs
  <1> HIDE DEF install, returns, sha, next
  <1>13. /\ dir.manifest # None => dir'.manifest # None
         /\ dir.dist # None => dir'.dist # None
         /\ dir.descriptors # None => dir'.descriptors # None
         /\ dir.proto # None => dir'.proto # None
    BY <1>8, <1>9
  <1>14. dir'.install # None =>
           {dir'.manifest, dir'.dist, dir'.descriptors, dir'.proto} \cap {None} = {}
    <2>1. CASE install.at = 5
      BY <1>3, <1>13, <2>1 DEF HasWritten
    <2>2. CASE install.at # 5
      <3>1. dir'.install = dir.install
        BY <1>8, <2>2
      <3> QED BY <1>13, <3>1 DEF InstallInv
    <2> QED BY <2>1, <2>2
  <1>15. ASSUME ~returns
         PROVE  /\ Proper(next) /\ HasWritten(next, dir')
                /\ next.sole => IsOwn(next, dir') /\ HasLeft(next, dir')
    <2>1. Proper(next)
      BY <1>3, <1>12, <1>15 DEF Proper
    <2>2. /\ next.at > 1 => dir'.manifest # None
          /\ next.at > 2 => dir'.dist # None
          /\ next.at > 3 => dir'.descriptors # None
          /\ next.at > 4 => dir'.proto # None
      BY <1>2, <1>3, <1>8, <1>9, <1>12, <1>13, <1>15 DEF HasWritten
    <2>3. ASSUME next.sole
          PROVE  /\ next.at > 1 => dir'.manifest = Parse(next.root.manifest)
                 /\ next.at > 2 => dir'.dist = next.root.dist
                 /\ next.at > 3 => dir'.descriptors = next.root.descriptors
                 /\ next.at > 4 => dir'.proto = next.root.proto
                 /\ next.at > 5 => /\ dir'.install = "written"
                                   /\ next.descriptorSha256 = next.root.descriptors
      <3>1. IsOwn(install, dir)
        BY <1>3, <1>12, <1>15, <2>3
      <3>2. next.at > 5 => install.at = 5
        BY <1>2, <1>4, <1>12, <1>15
      <3>3. next.at > 5 => next.descriptorSha256 = next.root.descriptors
        BY <1>5, <1>12, <1>15, <3>1, <3>2 DEF IsOwn
      <3> QED BY <1>2, <1>8, <1>12, <1>15, <3>1, <3>2, <3>3 DEF IsOwn
    <2>4. ASSUME next.sole PROVE HasLeft(next, dir')
      <3>1. HasLeft(install, dir)
        BY <1>3, <1>12, <1>15, <2>4
      <3> QED BY <1>2, <1>3, <1>4, <1>6, <1>8, <1>12, <1>15, <3>1, LeavesItsOwn DEF Proper
    <2> QED BY <2>1, <2>2, <2>3, <2>4 DEF HasWritten, IsOwn
  <1>16. ASSUME NEW j \in Installers, j # i, installs[j] # None
         PROVE  LET other == [installs[j] EXCEPT !.sole = FALSE]
                IN  other \in Installs /\ Proper(other) /\ HasWritten(other, dir') /\ ~other.sole
    <2> DEFINE other == [installs[j] EXCEPT !.sole = FALSE]
    <2>1. installs[j] \in Installs /\ Proper(installs[j]) /\ HasWritten(installs[j], dir)
      BY <1>16 DEF InstallInv
    <2>2. other \in Installs
      BY <2>1 DEF Installs
    <2>3. /\ other.at = installs[j].at /\ other.root = installs[j].root
          /\ other.checked = installs[j].checked /\ ~other.sole
      BY <2>1 DEF Installs
    <2> HIDE DEF other
    <2>4. Proper(other)
      BY <2>1, <2>3 DEF Proper
    <2>5. /\ other.at > 1 => dir'.manifest # None
          /\ other.at > 2 => dir'.dist # None
          /\ other.at > 3 => dir'.descriptors # None
          /\ other.at > 4 => dir'.proto # None
      BY <1>13, <2>1, <2>3 DEF HasWritten
    <2>6. HasWritten(other, dir')
      BY <2>5 DEF HasWritten
    <2> QED BY <2>2, <2>3, <2>4, <2>6 DEF other
  <1>17. InstallInv'
    <2>1. installs' \in [Installers -> Installs \cup {None}]
      BY <1>10, <1>12, <1>16
    <2>2. ASSUME NEW j \in Installers, installs'[j] # None
          PROVE  /\ Proper(installs'[j]) /\ HasWritten(installs'[j], dir')
                 /\ installs'[j].sole =>
                      IsOwn(installs'[j], dir') /\ HasLeft(installs'[j], dir')
      <3>1. CASE j = i
        <4>1. installs'[j] = next /\ ~returns
          BY <1>10, <2>2, <3>1
        <4>2. /\ Proper(next) /\ HasWritten(next, dir')
              /\ next.sole => IsOwn(next, dir') /\ HasLeft(next, dir')
          BY <1>15, <4>1
        <4> QED BY <4>1, <4>2, Zenon
      <3>2. CASE j # i
        <4>1. installs[j] # None /\ installs'[j] = [installs[j] EXCEPT !.sole = FALSE]
          BY <1>10, <2>2, <3>2
        <4> QED BY <1>16, <3>2, <4>1
      <3> QED BY <3>1, <3>2
    <2> QED BY <1>8, <1>14, <2>1, <2>2 DEF InstallInv, Proper
  <1>18. ClaimInv'
    <2> SUFFICES ASSUME claim' # None PROVE ClaimInv'
      BY DEF ClaimInv
    <2>1. claim' = install /\ install.at = 6 /\ install.sole
      BY <1>4, <1>11
    <2>2. IsOwn(install, dir) /\ HasLeft(install, dir) /\ Proper(install)
      BY <1>3, <2>1
    <2>3. /\ dir'.manifest = Parse(root.manifest) /\ dir'.dist = root.dist
          /\ dir'.descriptors = root.descriptors /\ dir'.proto = root.proto
          /\ dir'.install = "written"
          /\ dir'.integrity = [packageSha256 |-> ComputePackageDigest(root),
                               descriptorSha256 |-> root.descriptors,
                               methodIdsSha256 |-> root.descriptors]
      BY <1>8, <2>1, <2>2 DEF IsOwn
    <2>4. Proper(claim')
      BY <2>1, <2>2
    <2>5. LeftBy(install) = root.left
      BY <1>2, <2>1, PackageAssumption DEF LeftBy, Contents
    <2>6. root.left \subseteq dir'.left /\ (install.fresh => dir'.left = root.left)
      BY <1>8, <2>1, <2>2, <2>5 DEF HasLeft
    <2> QED BY <1>1, <2>1, <2>3, <2>4, <2>6 DEF ClaimInv, Proper
  <1> QED BY <1>17, <1>18

LEMMA InstallersKeep ==
    ASSUME ProjectInv, PackageInv, InstallInv, ClaimInv, Install
    PROVE  InstallInv' /\ ClaimInv'
  <1>1. ASSUME NEW i \in Installers, NEW kind \in {"folder", "tarball"}, Begin(i, kind)
        PROVE  InstallInv' /\ ClaimInv'
    <2>1. PICK install \in Installs :
            /\ installs' = [installs EXCEPT ![i] = install]
            /\ install.at = 1
            /\ Proper(install)
            /\ install.fresh => dir = NoInstall
      BY <1>1, BeginsWithPackage
    <2>2. dir' = dir /\ claim' = claim
      BY <1>1 DEF Begin
    <2>3. HasWritten(install, dir) /\ IsOwn(install, dir) /\ HasLeft(install, dir)
      BY <2>1 DEF HasWritten, IsOwn, HasLeft, LeftBy, NoInstall
    <2>4. ASSUME NEW j \in Installers, installs'[j] # None
          PROVE  /\ Proper(installs'[j]) /\ HasWritten(installs'[j], dir)
                 /\ installs'[j].sole =>
                      IsOwn(installs'[j], dir) /\ HasLeft(installs'[j], dir)
      <3>1. CASE j = i
        <4>1. installs'[j] = install
          BY <2>1, <3>1 DEF InstallInv
        <4> QED BY <2>1, <2>3, <4>1
      <3>2. CASE j # i
        <4>1. installs'[j] = installs[j]
          BY <2>1, <3>2 DEF InstallInv
        <4> QED BY <2>4, <4>1 DEF InstallInv
      <3> QED BY <3>1, <3>2
    <2>5. installs' \in [Installers -> Installs \cup {None}]
      BY <2>1 DEF InstallInv
    <2> QED BY <2>2, <2>4, <2>5 DEF InstallInv, ClaimInv, Proper
  <1>2. ASSUME NEW i \in Installers, Step(i) PROVE InstallInv' /\ ClaimInv'
    BY <1>2, StepOfInstall
  <1>3. ASSUME NEW i \in Installers, Stop(i) PROVE InstallInv' /\ ClaimInv'
    <2>1. installs' = [installs EXCEPT ![i] = None] /\ dir' = dir /\ claim' = claim
      BY <1>3 DEF Stop
    <2>2. ASSUME NEW j \in Installers, installs'[j] # None
          PROVE  installs'[j] = installs[j] /\ installs[j] # None
      BY <2>1, <2>2 DEF InstallInv
    <2>3. installs' \in [Installers -> Installs \cup {None}]
      BY <2>1 DEF InstallInv
    <2> QED BY <2>1, <2>2, <2>3 DEF InstallInv, ClaimInv, Proper
  <1> QED BY <1>1, <1>2, <1>3 DEF Install

-------------------------------------------------------------------------------
(* The process.                                                              *)

BootInv == ProjectInv /\ PackageInv /\ InstallInv /\ ClaimInv /\ ProcessInv

LEMMA BootInit == Init => BootInv
  <1> SUFFICES ASSUME Init PROVE BootInv
    OBVIOUS
  <1>1. PInit /\ process = Down
    BY DEF Init
  <1>2. ProjectInv
    <2>1. CASE project = NoProject
      BY <1>1, <2>1 DEF PInit, ProjectInv, Projects, NoProject, Made, Checked
    <2>2. CASE project # NoProject
      <3>1. PICK m \in Authored, r \in Revisions, typed \in BOOLEAN :
              project = [config |-> TRUE, manifest |-> m, proto |-> TemplateContract, src |-> r,
                         typed |-> typed, dist |-> None, descriptors |-> None,
                         handlers |-> None, left |-> {}]
        <4>1. PICK m \in Authored, r \in Revisions, typed \in BOOLEAN :
                project = [NoProject EXCEPT !.config = TRUE, !.manifest = m,
                                            !.proto = TemplateContract,
                                            !.src = r, !.typed = typed]
          BY <1>1, <2>2 DEF PInit
        <4> QED BY <4>1 DEF NoProject
      <3>2. /\ m \in Manifests
            /\ TemplateContract \in Revisions /\ TemplateContract # None
        BY InstallAssumption, PackageAssumption
      <3>3. project \in Projects
        BY <3>1, <3>2 DEF Projects, Made
      <3> QED BY <1>1, <3>1, <3>2, <3>3 DEF PInit, ProjectInv, Checked
    <2> QED BY <2>1, <2>2
  <1>3. PackageInv
    BY <1>1 DEF PInit, PackageInv
  <1>4. InstallInv
    BY <1>1 DEF PInit, InstallInv, Dirs, Made, NoInstall
  <1>5. ClaimInv
    BY <1>1 DEF PInit, ClaimInv
  <1>6. ProcessInv
    BY <1>1 DEF Down, ProcessInv, Made
  <1> QED BY <1>2, <1>3, <1>4, <1>5, <1>6 DEF BootInv

\* What the process reads is what the install put down, if that is in place.
LEMMA ProcessSteps ==
    ASSUME InstallInv, ClaimInv, ProcessInv,
           FromInstalledPath \/ Spawn \/ LoadService \/ ImportFails
             \/ BootstrapPluginRuntime \/ End
    PROVE  /\ ProcessInv'
           /\ UNCHANGED <<authorVars, installVars>>
  <1>0. process = [at |-> process.at, service |-> process.service,
                   handlers |-> process.handlers, install |-> process.install]
    BY DEF ProcessInv
  <1>f. /\ process.service \in Made /\ process.handlers \in Made /\ None \in Made
        /\ process.install \in Installs \cup {None} /\ claim \in Installs \cup {None}
    BY DEF ProcessInv, ClaimInv, Made
  <1>d. dir.dist \in Made /\ dir.descriptors \in Made
    BY DEF InstallInv, Dirs
  <1>c. process.install # None =>
          /\ process.install = claim /\ claim # None
          /\ dir.dist = claim.root.dist /\ dir.descriptors = claim.root.descriptors
          /\ claim.root.dist \in Revisions
          /\ BuildPluginServiceDefinition(claim.root.descriptors)
          /\ claim.checked => Fits(claim.root)
    BY DEF ProcessInv, ClaimInv, Proper, Installs, Contents
  <1>u. UNCHANGED <<authorVars, installVars>> /\ claim' = claim
    BY DEF FromInstalledPath, Spawn, LoadService, ImportFails, BootstrapPluginRuntime, End,
           installVars
  <1>1. CASE FromInstalledPath
    BY <1>1, <1>u DEF FromInstalledPath, ProcessInv
  <1>2. CASE Spawn
    <2>1. process' = [at |-> "spawned", service |-> None, handlers |-> None, install |-> claim]
      BY <1>2 DEF Spawn, Down
    <2> QED BY <1>f, <1>u, <2>1 DEF ProcessInv
  <1>3. CASE LoadService
    <2> DEFINE service == LoadRuntimeServiceDefinition(dir.descriptors)
    <2>1. process' = IF service = None THEN [process EXCEPT !.at = "refused"]
                     ELSE [process EXCEPT !.at = "described", !.service = service]
      BY <1>3 DEF LoadService
    <2>2. process.at = "spawned"
      BY <1>3 DEF LoadService
    <2>3. service # None => service = dir.descriptors /\ BuildPluginServiceDefinition(service)
      BY DEF LoadRuntimeServiceDefinition
    <2>4. CASE service = None
      <3>1. process' = [at |-> "refused", service |-> process.service,
                        handlers |-> process.handlers, install |-> process.install]
        BY <1>0, <2>1, <2>4
      <3>2. process.install = None
        BY <1>c, <2>4, PackageAssumption
           DEF LoadRuntimeServiceDefinition, BuildPluginServiceDefinition
      <3> QED BY <1>f, <1>u, <3>1, <3>2 DEF ProcessInv
    <2>5. CASE service # None
      <3> HIDE DEF service
      <3>1. process' = [at |-> "described", service |-> service,
                        handlers |-> process.handlers, install |-> process.install]
        BY <1>0, <2>1, <2>5
      <3> QED BY <1>c, <1>d, <1>f, <1>u, <2>3, <2>5, <3>1 DEF ProcessInv
    <2> QED BY <2>4, <2>5
  <1>4. CASE ImportFails
    <2>1. process' = [at |-> "unloadable", service |-> process.service,
                      handlers |-> process.handlers, install |-> process.install]
      BY <1>0, <1>4 DEF ImportFails
    <2> QED BY <1>f, <1>u, <2>1 DEF ProcessInv
  <1>5. CASE BootstrapPluginRuntime
    <2>1. process.at = "described" /\ dir.dist # None
      BY <1>5 DEF BootstrapPluginRuntime
    <2>2. /\ BuildPluginServiceDefinition(process.service)
          /\ process.install # None => process.service = claim.root.descriptors
      BY <2>1 DEF ProcessInv
    <2>3. CASE ValidateHandlers(dir.dist, process.service)
      <3>1. process' = [at |-> "up", service |-> process.service,
                        handlers |-> dir.dist, install |-> process.install]
        BY <1>0, <1>5, <2>3 DEF BootstrapPluginRuntime
      <3>2. dir.dist \in Revisions
        BY <1>d, <2>1 DEF Made
      <3> QED BY <1>c, <1>d, <1>f, <1>u, <2>2, <3>1, <3>2 DEF ProcessInv
    <2>4. CASE ~ValidateHandlers(dir.dist, process.service)
      <3>1. process' = [at |-> "refused", service |-> process.service,
                        handlers |-> process.handlers, install |-> process.install]
        BY <1>0, <1>5, <2>4 DEF BootstrapPluginRuntime
      <3>2. process.install # None => ~claim.checked
        BY <1>c, <2>2, <2>4 DEF ValidateHandlers, Fits
      <3> QED BY <1>f, <1>u, <3>1, <3>2 DEF ProcessInv
    <2> QED BY <2>3, <2>4
  <1>6. CASE End
    BY <1>6, <1>f, <1>u DEF End, Down, ProcessInv
  <1> QED BY <1>u, <1>1, <1>2, <1>3, <1>4, <1>5, <1>6

LEMMA BootStep == BootInv /\ [Next]_vars => BootInv'
  <1> SUFFICES ASSUME BootInv, [Next]_vars PROVE BootInv'
    OBVIOUS
  <1> USE DEF BootInv
  <1>1. CASE Author /\ UNCHANGED <<manifest, process, spawns>>
    <2>1. ProjectInv' /\ PackageInv'
      BY <1>1, AuthorKeepsProject, AuthorKeepsPackage
    <2>2. UNCHANGED installVars
      <3>1. CASE InitProject \/ Generate \/ GenerateFails \/ Build
        BY <3>1 DEF InitProject, Generate, GenerateFails, Build
      <3>2. ASSUME NEW file \in {"proto", "src"}, NEW r \in Revisions, Edit(file, r)
            PROVE  UNCHANGED installVars
        BY <3>2 DEF Edit
      <3>3. CASE (\E packed \in BOOLEAN : Pack(packed)) \/ (\E part \in Parts : Damage(part))
        BY <3>3 DEF Pack, Damage
      <3> QED BY <1>1, <3>1, <3>2, <3>3 DEF Author
    <2>3. InstallInv' /\ ClaimInv' /\ ProcessInv'
      BY <1>1, <2>2 DEF InstallInv, ClaimInv, ProcessInv, Proper, installVars
    <2> QED BY <2>1, <2>3
  <1>2. CASE Install /\ Touch /\ UNCHANGED <<manifest, spawns>>
    <2>1. InstallInv' /\ ClaimInv'
      BY <1>2, InstallersKeep
    <2>2. UNCHANGED authorVars
      BY <1>2 DEF Install, Begin, Step, Stop
    <2>3. ProjectInv' /\ PackageInv'
      BY <2>2 DEF ProjectInv, PackageInv, Checked, authorVars
    <2>4. ProcessInv'
      <3>1. CASE dir' = dir /\ claim' = claim
        BY <1>2, <3>1 DEF Touch, ProcessInv
      <3>2. CASE ~(dir' = dir /\ claim' = claim)
        <4>1. process' = [process EXCEPT !.install = None]
          BY <1>2, <3>2 DEF Touch
        <4>2. process' = [at |-> process.at, service |-> process.service,
                          handlers |-> process.handlers, install |-> None]
          BY <4>1 DEF ProcessInv
        <4> QED BY <4>2 DEF ProcessInv
      <3> QED BY <3>1, <3>2
    <2> QED BY <2>1, <2>3, <2>4
  <1>3. CASE \/ FromInstalledPath \/ Spawn
             \/ LoadService \/ ImportFails \/ BootstrapPluginRuntime \/ End
    <2>1. ProcessInv' /\ UNCHANGED <<authorVars, installVars>>
      BY <1>3, ProcessSteps
    <2>2. ProjectInv' /\ PackageInv'
      BY <2>1 DEF ProjectInv, PackageInv, Checked, authorVars
    <2>3. InstallInv' /\ ClaimInv'
      BY <2>1 DEF InstallInv, ClaimInv, Proper, installVars
    <2> QED BY <2>1, <2>2, <2>3
  <1>4. CASE UNCHANGED vars
    BY <1>4 DEF vars, authorVars, installVars, ProjectInv, PackageInv, InstallInv, ClaimInv,
                ProcessInv, Proper, Checked
  <1> QED BY <1>1, <1>2, <1>3, <1>4 DEF Next

THEOREM BootInvariant == Spec => []BootInv
  BY BootInit, BootStep, PTL DEF Spec

\* The shape of the state: of installs as well as of the process, which has a
\* contract once it has read one, and handlers once it is up.
THEOREM TypeCorrect == Spec => []TypeOK
  <1>1. BootInv => TypeOK
    <2> SUFFICES ASSUME BootInv PROVE TypeOK
      OBVIOUS
    <2>1. \A i \in Installers : installs[i] # None => installs[i].at \in DOMAIN Writes
      <3>1. DOMAIN Writes = 1..6
        BY DEF Writes
      <3> QED BY <3>1 DEF BootInv, InstallInv, Installs
    <2> QED BY <2>1 DEF BootInv, ProjectInv, ProcessInv, TypeOK, BuildPluginServiceDefinition
  <1> QED BY <1>1, BootInvariant, PTL

\* CanonicalInstalls: a tarball that packPlugin made installs if nothing has
\* damaged it, wherever in its life the project was when it was packed.
THEOREM PackedInstall == Spec => []CanonicalInstalls
  <1>1. BootInv => CanonicalInstalls
    <2> SUFFICES ASSUME BootInv, package # None, package.from.form = "schema",
                        package.from.integrity # Empty, package.packed, package.intact
                 PROVE  Accepts("tarball", package.root)
      BY DEF CanonicalInstalls, PackedInstalls
    <2>1. PICK root \in Roots : MadeFrom(package, root)
      BY DEF BootInv, PackageInv
    <2> QED BY <2>1, PackedIsAccepted DEF MadeFrom
  <1> QED BY <1>1, BootInvariant, PTL

\* InstalledIsWhole: an install that returned and was not written over has put
\* all of one trusted package in place, in a fresh directory nothing else, and
\* metadata are never there without the files.
THEOREM InstallsAreWhole == Spec => []InstalledIsWhole
  <1>1. BootInv => InstalledIsWhole
    <2> SUFFICES ASSUME BootInv PROVE InstalledIsWhole
      OBVIOUS
    <2>1. dir \in Dirs
      BY DEF BootInv, InstallInv
    <2>2. dir.install # None => \A part \in Parts \cup {"manifest"} : dir[part] # None
      BY DEF BootInv, InstallInv, Parts
    <2>3. ASSUME claim # None
          PROVE  /\ claim.trusted
                 /\ claim.fresh => dir.left = claim.root.left
                 /\ [dir EXCEPT !.left = @ \cap claim.root.left] =
                      [manifest |-> Parse(claim.root.manifest), dist |-> claim.root.dist,
                       descriptors |-> claim.root.descriptors, proto |-> claim.root.proto,
                       left |-> claim.root.left, install |-> "written",
                       integrity |-> [packageSha256 |-> ComputePackageDigest(claim.root),
                                      descriptorSha256 |-> dir.descriptors,
                                      methodIdsSha256 |-> dir.descriptors]]
      <3>1. ClaimInv /\ claim.trusted
        BY <2>3 DEF BootInv, ClaimInv, Installs
      <3>2. dir.left \cap claim.root.left = claim.root.left
        BY <2>3, <3>1 DEF ClaimInv
      <3>3. [dir EXCEPT !.left = @ \cap claim.root.left] =
              [manifest |-> dir.manifest, dist |-> dir.dist, descriptors |-> dir.descriptors,
               proto |-> dir.proto, left |-> claim.root.left, install |-> dir.install,
               integrity |-> dir.integrity]
        BY <2>1, <3>2 DEF Dirs
      <3> QED BY <2>3, <3>1, <3>3 DEF ClaimInv
    <2> QED BY <2>2, <2>3 DEF InstalledIsWhole
  <1> QED BY <1>1, BootInvariant, PTL

\* RunsItsInstall: what a process reads, one file after the other, is all of the
\* install it was started from, unless an install has written since.
THEOREM RunsItsOwnInstall == Spec => []RunsItsInstall
  <1>1. BootInv /\ TypeOK => RunsItsInstall
    BY DEF BootInv, ProcessInv, RunsItsInstall
  <1> QED BY <1>1, BootInvariant, TypeCorrect, PTL

\* BuiltIsAccepted: what was generated and built without an error from source
\* with the generated handler type is not refused by the process that runs it.
THEOREM BuiltProjectsAreAccepted == Spec => []BuiltIsAccepted
  <1>1. BootInv => BuiltIsAccepted
    BY DEF BootInv, ProcessInv, BuiltIsAccepted
  <1> QED BY <1>1, BootInvariant, PTL
=============================================================================
