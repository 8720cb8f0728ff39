--------------------------- MODULE PluginPackage -----------------------------
(* What plugin projects, packages and installs are made of, and the checks    *)
(* they pass (packages/plugin-codegen/src, packages/pluginctl/src): contracts *)
(* come in revisions, and a file is the revision it was made from; of dist and*)
(* proto, which are directories, some revisions have files by names no other  *)
(* revision uses. A digest is what it was computed over: the digests of       *)
(* different things differ.                                                   *)
EXTENDS Naturals, Sequences, SequencesExt, Functions

CONSTANTS
    Revisions,   \* revisions of the contract
    MethodsOf,   \* the methods of the plugin's service; <<>> where it has none
    Streaming,   \* revisions with a method that is not unary
    OwnFiles,    \* <<part, revision>> where that revision has files of its own
    None,        \* no file, no value
    Empty,       \* an integrity object without a digest
    Stale,       \* a digest of something else, left in a manifest
    Damaged      \* a file that has changed since it was packed

ASSUME PackageAssumption ==
    /\ MethodsOf \in [Revisions -> Seq(STRING)]
    /\ \A r \in Revisions : IsInjective(MethodsOf[r])
    /\ Streaming \subseteq Revisions
    /\ OwnFiles \subseteq {"dist", "proto"} \X Revisions
    /\ {None, Empty, Stale, Damaged} \cap Revisions = {}

(* The service is found in the descriptor set and is one a plugin may have.   *)
BuildPluginServiceDefinition(r) ==
    /\ r \in Revisions
    /\ "Init" \in Range(MethodsOf[r])
    /\ r \notin Streaming

(* What the handlers generated for, or exported by, a revision are called.    *)
Handlers(r) == IF r \in Revisions THEN Range(MethodsOf[r]) ELSE {}

(* A manifest as written by hand or by a tool: its keys in the order of the   *)
(* schema or not (or with keys the schema does not know), with or without the *)
(* digest of the package.                                                     *)
Manifests == [form : {"schema", "other"}, integrity : {None, Empty, Stale}]

Files == Revisions \cup {None, Damaged}
Digests ==
    [manifest : Manifests, dist : Files, descriptors : Files, proto : Files,
     left : SUBSET OwnFiles]

(* The same once it was packed.                                               *)
PackedManifests ==
    [form : {"schema", "other"}, integrity : {None, Empty, Stale} \cup Digests]

ASSUME DigestAssumption ==
    /\ {None, Empty, Stale} \cap Digests = {}
    /\ None \notin PackedManifests

(* pluginManifestSchema.parse: known keys only, in the order of the schema.   *)
Parse(manifest) == [manifest EXCEPT !.form = "schema"]

(* The manifest, the directories and the descriptor set of a plugin, wherever *)
(* they are; left tells the files that others than these revisions left there.*)
Parts == {"dist", "descriptors", "proto"}
NoFiles ==
    [manifest |-> None, dist |-> None, descriptors |-> None, proto |-> None, left |-> {}]

(* A part is written over what there is (cp with recursive, or tsc): files of *)
(* the same names are replaced, the others stay.                              *)
CopyInto(d, part, root) ==
    LET others == (d.left \cup {<<part, d[part]>>}) \cap OwnFiles
        brought == {file \in root.left : file[1] = part}
    IN  [d EXCEPT ![part] = root[part],
                  !.left = (others \cup brought) \ {<<part, root[part]>>}]

(* Files of every kind are there, and the descriptors hold a proper service.  *)
ValidatePluginManifest(root) ==
    /\ root.manifest # None
    /\ root.dist # None
    /\ root.descriptors # None
    /\ BuildPluginServiceDefinition(root.descriptors)

(* Faulty variant: the manifest is hashed as it is.                           *)
HashedAsItIs(manifest) == manifest

(* The digest must not depend on itself: it goes, and with it an integrity    *)
(* object that held nothing else; one that was empty before stays.            *)
NormalizeManifestForDigest(manifest) ==
    IF manifest.integrity \in {None, Empty} THEN manifest
    ELSE [manifest EXCEPT !.integrity = None]

ComputePackageDigest(root) ==
    [manifest |-> NormalizeManifestForDigest(root.manifest),
     dist |-> root.dist, descriptors |-> root.descriptors, proto |-> root.proto,
     left |-> root.left]

(* packPlugin: the digest of the copied files goes into the parsed manifest.  *)
PackPlugin(root) ==
    [root EXCEPT !.manifest =
        [Parse(root.manifest) EXCEPT !.integrity = ComputePackageDigest(root)]]

(* installPlugin up to its first write.                                       *)
Accepts(kind, root) ==
    LET expected == root.manifest.integrity
    IN  /\ ValidatePluginManifest(root)
        /\ kind # "folder" => expected \notin {None, Empty}
        /\ expected \notin {None, Empty} => expected = ComputePackageDigest(root)

(* validateHandlers                                                           *)
ValidateHandlers(handlers, service) == Handlers(handlers) = Handlers(service)
=============================================================================
