----------------------------- MODULE Workspace -----------------------------
(***************************************************************************)
(* The filesystem workspace of he_sdk/artifacts.py: processes that each    *)
(* hold an HESession save and load ciphertexts in one directory.  A call   *)
(* is a sequence of file operations; a step of this module is one of them, *)
(* so that calls of different processes interleave and a process may crash *)
(* between any two.                                                        *)
(*                                                                         *)
(* os.replace moves a file from its temporary name to its target name; a   *)
(* process that still has the temporary file open goes on writing to it    *)
(* under the target name, and to no name once that is replaced in turn.    *)
(* A SHA-256 digest is the content itself.                                 *)
(***************************************************************************)
CONSTANTS
  Procs,     \* operating system processes, at most one session in each
  Names,     \* artifact names
  Values,    \* ciphertexts a session can save; a value stands for its metadata too
  Bundles,   \* key bundles (context and keys) that HESession.create can mint
  MaterialFiles, \* the files of MATERIAL_FILES
  Overlap,   \* which calls may overlap: "none", "readers", "writers"
  Rewrite,   \* whether an artifact that is already recorded may be saved again
  Manifest,  \* the path of manifest.json
  Torn,      \* the content of a file that is partly written
  None

ASSUME ConstantsAssumption ==
  /\ Overlap \in {"none", "readers", "writers"}
  /\ Rewrite \in BOOLEAN
  /\ Manifest \notin Names
  /\ None \notin Names \cup Values \cup Bundles \cup {Torn, Manifest}
  /\ Torn \notin Values \cup Bundles

\* MATERIAL_FILES is not empty.
ASSUME MaterialAssumption == MaterialFiles # {}

VARIABLES
  file,      \* path -> content of the file, or None
  tmp,       \* path -> content of the file at the temporary name of the path, or None
  begun,     \* whether material/ and ciphertexts/ have been created
  material,  \* public material file -> bundle it was exported from, or None
  sess,      \* process -> session identity and the keys it holds, or None
  minted,    \* bundles created so far
  pc,        \* process -> next file operation of its call
  arg, val,  \* process -> artifact name and value of its call, or None
  copy,      \* process -> manifest held in memory, or None
  todo,      \* process -> material files it has still to export
  fd,        \* process -> file it has open for writing, or None
  out,       \* process -> outcome of its last call, or None
  interrupted \* history: names whose last save stopped half-way

files == <<file, tmp>>
layout == <<begun, material>>
call == <<arg, val>>
vars == <<file, tmp, begun, material, sess, minted, pc, arg, val, copy,
          todo, fd, out, interrupted>>

-----------------------------------------------------------------------------
Paths == Names \cup {Manifest}

Record == [meta : Values, sha : Values \cup {Torn}]

ManifestT == [bundle   : Bundles,
              material : [MaterialFiles -> Bundles \cup {None}],
              index    : [Names -> Record \cup {None}]]

\* An open file: its path, where it is linked now, and whether another writer
\* had it open at the same time.
OpenFile == [path : Paths, at : {"tmp", "file", "gone"}, shared : BOOLEAN]

ASSUME NoneIsNoRecord ==
  /\ None \notin Record /\ None \notin ManifestT /\ None \notin OpenFile
  /\ Torn \notin ManifestT

InitPCs == {"mkdir", "export", "describe", "initOpen", "initWrite", "initReplace"}
SavePCs == InitPCs \cup {"check", "read", "serialize", "serializing", "replace",
                         "hash", "indexOpen", "indexWrite", "indexReplace"}
ReadPCs == {"lookup", "verify", "deserialize", "open", "restore"}

Man == file[Manifest]

\* _read_manifest: a missing or unparsable manifest is an ArtifactError.
Readable == Man \notin {None, Torn}

\* validate_workspace: context, fingerprint and key bundle are those of the session.
ValidFor(p) == Readable /\ Man.bundle = sess[p].id

EmptyDirectory ==
  /\ ~begun
  /\ \A f \in MaterialFiles : material[f] = None
  /\ \A x \in Paths : file[x] = None /\ tmp[x] = None

Saving(p) == pc[p] \in SavePCs

\* What a file can hold when it is whole.
ContentOf(path) == IF path = Manifest THEN ManifestT ELSE Values

\* What a load returns: the ciphertext of the file, the metadata of its record.
Loaded == [op : {"load"}, ok : {TRUE}, name : Names, meta : Values, content : Values]

Outcome ==
  {None} \cup Loaded
    \cup [op : {"save", "load", "open"}, ok : {FALSE}]
    \cup [op : {"save", "open"}, ok : {TRUE}]

Session == [id : Bundles, keys : SUBSET (Bundles \cup {None})]

FilesOK ==
  /\ file \in [Paths -> Values \cup ManifestT \cup {Torn, None}]
  /\ tmp \in [Paths -> Values \cup ManifestT \cup {Torn, None}]
  /\ \A x \in Paths : {file[x], tmp[x]} \subseteq ContentOf(x) \cup {Torn, None}
  /\ fd \in [Procs -> OpenFile \cup {None}]

CallsOK ==
  /\ pc \in [Procs -> {"idle"} \cup SavePCs \cup ReadPCs]
  /\ arg \in [Procs -> Names \cup {None}]
  /\ val \in [Procs -> Values \cup {None}]
  /\ copy \in [Procs -> ManifestT \cup {None}]
  /\ todo \in [Procs -> SUBSET MaterialFiles]
  /\ out \in [Procs -> Outcome]

TypeOK ==
  /\ FilesOK
  /\ CallsOK
  /\ begun \in BOOLEAN
  /\ material \in [MaterialFiles -> Bundles \cup {None}]
  /\ sess \in [Procs -> Session \cup {None}]
  /\ minted \subseteq Bundles
  /\ interrupted \subseteq Names

Init ==
  /\ file = [x \in Paths |-> None]
  /\ tmp = [x \in Paths |-> None]
  /\ begun = FALSE
  /\ material = [f \in MaterialFiles |-> None]
  /\ sess = [p \in Procs |-> None]
  /\ minted = {}
  /\ pc = [p \in Procs |-> "idle"]
  /\ arg = [p \in Procs |-> None]
  /\ val = [p \in Procs |-> None]
  /\ copy = [p \in Procs |-> None]
  /\ todo = [p \in Procs |-> {}]
  /\ fd = [p \in Procs |-> None]
  /\ out = [p \in Procs |-> None]
  /\ interrupted = {}

-----------------------------------------------------------------------------
(* Control of a call.                                                      *)

Goto(p, label) == pc' = [pc EXCEPT ![p] = label]

\* The call returns or raises: the process is idle, with the outcome o.
Finish(p, o) ==
  /\ Goto(p, "idle")
  /\ arg' = [arg EXCEPT ![p] = None]
  /\ val' = [val EXCEPT ![p] = None]
  /\ copy' = [copy EXCEPT ![p] = None]
  /\ todo' = [todo EXCEPT ![p] = {}]
  /\ out' = [out EXCEPT ![p] = o]

\* The call has moved its ciphertext into place but not yet recorded it.
Unrecorded(p) == pc[p] \in {"hash", "indexOpen", "indexWrite", "indexReplace"}

\* The call of p stops here: its artifact may be left without its record.
Abandon(p) ==
  interrupted' = IF Unrecorded(p) THEN interrupted \cup {arg[p]} ELSE interrupted

Raise(p, kind) ==
  /\ Finish(p, [op |-> kind, ok |-> FALSE])
  /\ Abandon(p)
  /\ UNCHANGED <<files, layout, sess, minted, fd>>

AllIdle == \A q \in Procs : pc[q] = "idle"
NoSaver == \A q \in Procs : ~Saving(q)

\* How the users of the workspace take turns: the environment, not the code.
SaveMayStart == Overlap = "writers" \/ (Overlap = "readers" /\ NoSaver) \/ AllIdle
ReadMayStart == Overlap \in {"readers", "writers"} \/ AllIdle

-----------------------------------------------------------------------------
(* Writing a file: open and truncate the temporary file, write it, and     *)
(* move it over the target.  The temporary name is fixed for each path.    *)

OpenTmp(p, path) ==
  LET sharers == {q \in Procs : fd[q] # None /\ fd[q].path = path /\ fd[q].at = "tmp"}
      opened  == [path |-> path, at |-> "tmp", shared |-> sharers # {}]
  IN  /\ tmp' = [tmp EXCEPT ![path] = Torn]
      /\ fd' = [q \in Procs |-> IF q \in sharers \cup {p} THEN opened ELSE fd[q]]
      /\ UNCHANGED file

WriteTmp(p, content) ==
  /\ \E c \in {content} \cup (IF fd[p].shared THEN {Torn} ELSE {}) :
       /\ tmp'  = IF fd[p].at = "tmp"  THEN [tmp  EXCEPT ![fd[p].path] = c] ELSE tmp
       /\ file' = IF fd[p].at = "file" THEN [file EXCEPT ![fd[p].path] = c] ELSE file
  /\ fd' = [fd EXCEPT ![p] = None]

\* os.replace
Replace(path) ==
  /\ file' = [file EXCEPT ![path] = tmp[path]]
  /\ tmp' = [tmp EXCEPT ![path] = None]
  /\ fd' = [q \in Procs |->
              IF fd[q] = None \/ fd[q].path # path THEN fd[q]
              ELSE [fd[q] EXCEPT !.at = IF @ = "tmp" THEN "file" ELSE "gone"]]

-----------------------------------------------------------------------------
(* Sessions.                                                               *)

\* HESession.create: an owner session with a fresh key bundle.
Create(p, b) ==
  /\ pc[p] = "idle" /\ sess[p] = None
  /\ b \notin minted
  /\ minted' = minted \cup {b}
  /\ sess' = [sess EXCEPT ![p] = [id |-> b, keys |-> {b}]]
  /\ UNCHANGED <<files, layout, pc, arg, val, copy, todo, fd, out, interrupted>>

\* HESession.open_workspace: verify the manifest and the material, then
\* restore the backend from the material files, which are read again.
BeginOpen(p) ==
  /\ pc[p] = "idle" /\ sess[p] = None /\ ReadMayStart
  /\ Goto(p, "open")
  /\ out' = [out EXCEPT ![p] = None]
  /\ UNCHANGED <<files, layout, sess, minted, call, copy, todo, fd, interrupted>>

OpenVerify(p) ==
  /\ pc[p] = "open"
  /\ IF Readable /\ \A f \in MaterialFiles : material[f] = Man.material[f]
     THEN /\ Goto(p, "restore")
          /\ copy' = [copy EXCEPT ![p] = Man]
          /\ UNCHANGED <<files, layout, sess, minted, call, todo, fd, out, interrupted>>
     ELSE Raise(p, "open")

OpenRestore(p) ==
  /\ pc[p] = "restore"
  /\ sess' = [sess EXCEPT ![p] = [id   |-> copy[p].bundle,
                                  keys |-> {material[f] : f \in MaterialFiles}]]
  /\ Finish(p, [op |-> "open", ok |-> TRUE])
  /\ UNCHANGED <<files, layout, minted, fd, interrupted>>

\* The process dies between two file operations, or, when idle, closes its
\* session.  Files stay as they are; an owner's keys are gone with it.
Crash(p) ==
  /\ sess[p] # None \/ pc[p] # "idle"
  /\ sess' = [sess EXCEPT ![p] = None]
  /\ Finish(p, None)
  /\ fd' = [fd EXCEPT ![p] = None]
  /\ Abandon(p)
  /\ UNCHANGED <<files, layout, minted>>

-----------------------------------------------------------------------------
(* save_ciphertext, with initialize_workspace on the first save.           *)

Recorded(n) == Readable /\ Man.index[n] # None

BeginSave(p, n, v) ==
  /\ pc[p] = "idle" /\ sess[p] # None /\ SaveMayStart
  /\ Rewrite \/ ~Recorded(n)
  /\ Goto(p, "check")
  /\ arg' = [arg EXCEPT ![p] = n]
  /\ val' = [val EXCEPT ![p] = v]
  /\ out' = [out EXCEPT ![p] = None]
  /\ UNCHANGED <<files, layout, sess, minted, copy, todo, fd, interrupted>>

\* A manifest that exists is validated here and again by ReadManifest, with
\* nothing but reads between the two: one validation stands for both.
CheckManifest(p) ==
  /\ pc[p] = "check"
  /\ Goto(p, IF Man = None THEN "mkdir" ELSE "read")
  /\ UNCHANGED <<files, layout, sess, minted, call, copy, todo, fd, out, interrupted>>

\* Mutant: an interrupted export is resumed instead of refused.
MakeDirectoryResumes(p) ==
  LET missing == {f \in MaterialFiles : material[f] = None}
  IN  /\ pc[p] = "mkdir"
      /\ Goto(p, IF missing = {} THEN "describe" ELSE "export")
      /\ todo' = [todo EXCEPT ![p] = missing]
      /\ begun' = TRUE
      /\ UNCHANGED <<files, material, sess, minted, call, copy, fd, out, interrupted>>

\* initialize_workspace in a directory without a manifest: only an empty one, in
\* which it makes its two subdirectories.
MakeDirectory(p) ==
  /\ pc[p] = "mkdir"
  /\ IF EmptyDirectory
     THEN /\ Goto(p, "export")
          /\ todo' = [todo EXCEPT ![p] = MaterialFiles]
          /\ begun' = TRUE
          /\ UNCHANGED <<files, material, sess, minted, call, copy, fd, out, interrupted>>
     ELSE Raise(p, "save")

ExportMaterial(p, f) ==
  /\ pc[p] = "export" /\ f \in todo[p]
  /\ \E b \in sess[p].keys : material' = [material EXCEPT ![f] = b]
  /\ todo' = [todo EXCEPT ![p] = @ \ {f}]
  /\ Goto(p, IF todo[p] = {f} THEN "describe" ELSE "export")
  /\ UNCHANGED <<files, begun, sess, minted, call, copy, fd, out, interrupted>>

DescribeMaterial(p) ==
  /\ pc[p] = "describe"
  /\ copy' = [copy EXCEPT ![p] = [bundle   |-> sess[p].id,
                                  material |-> material,
                                  index    |-> [n \in Names |-> None]]]
  /\ Goto(p, "initOpen")
  /\ UNCHANGED <<files, layout, sess, minted, call, todo, fd, out, interrupted>>

\* Mutant: the manifest is written in place.
OpenManifestInPlace(p) ==
  /\ pc[p] \in {"initOpen", "indexOpen"}
  /\ file' = [file EXCEPT ![Manifest] = Torn]
  /\ fd' = [fd EXCEPT ![p] = [path |-> Manifest, at |-> "file", shared |-> FALSE]]
  /\ Goto(p, IF pc[p] = "initOpen" THEN "initWrite" ELSE "indexWrite")
  /\ UNCHANGED <<tmp, layout, sess, minted, call, copy, todo, out, interrupted>>

\* _write_manifest opens and truncates its temporary file, writes the copy ...
OpenManifest(p) ==
  /\ pc[p] \in {"initOpen", "indexOpen"}
  /\ OpenTmp(p, Manifest)
  /\ Goto(p, IF pc[p] = "initOpen" THEN "initWrite" ELSE "indexWrite")
  /\ UNCHANGED <<layout, sess, minted, call, copy, todo, out, interrupted>>

WriteManifest(p) ==
  /\ pc[p] \in {"initWrite", "indexWrite"}
  /\ WriteTmp(p, copy[p])
  /\ Goto(p, IF pc[p] = "initWrite" THEN "initReplace" ELSE "indexReplace")
  /\ UNCHANGED <<layout, sess, minted, call, copy, todo, out, interrupted>>

\* ... and moves it over manifest.json: the end of initialize_workspace
ReplaceInitialManifest(p) ==
  /\ pc[p] = "initReplace"
  /\ IF tmp[Manifest] = None
     THEN Raise(p, "save")
     ELSE /\ Replace(Manifest)
          /\ Goto(p, "read")
          /\ UNCHANGED <<layout, sess, minted, call, copy, todo, out, interrupted>>

ReadManifest(p) ==
  /\ pc[p] = "read"
  /\ IF ValidFor(p)
     THEN /\ Goto(p, "serialize")
          /\ copy' = [copy EXCEPT ![p] = Man]
          /\ UNCHANGED <<files, layout, sess, minted, call, todo, fd, out, interrupted>>
     ELSE Raise(p, "save")

\* Mutant: the temporary file is created exclusively.
OpenCiphertextExclusively(p) ==
  /\ pc[p] = "serialize"
  /\ IF tmp[arg[p]] # None
     THEN Raise(p, "save")
     ELSE /\ OpenTmp(p, arg[p])
          /\ Goto(p, "serializing")
          /\ UNCHANGED <<layout, sess, minted, call, copy, todo, out, interrupted>>

\* serialize_ciphertext creates or truncates the temporary file.
OpenCiphertext(p) ==
  /\ pc[p] = "serialize"
  /\ OpenTmp(p, arg[p])
  /\ Goto(p, "serializing")
  /\ UNCHANGED <<layout, sess, minted, call, copy, todo, out, interrupted>>

WriteCiphertext(p) ==
  /\ pc[p] = "serializing"
  /\ WriteTmp(p, val[p])
  /\ Goto(p, "replace")
  /\ UNCHANGED <<layout, sess, minted, call, copy, todo, out, interrupted>>

ReplaceCiphertext(p) ==
  /\ pc[p] = "replace"
  /\ IF tmp[arg[p]] = None
     THEN Raise(p, "save")
     ELSE /\ Replace(arg[p])
          /\ Goto(p, "hash")
          /\ UNCHANGED <<layout, sess, minted, call, copy, todo, out, interrupted>>

\* Mutant: the checksum is taken from the temporary file, which has moved.
RecordTemporary(p) ==
  /\ pc[p] = "hash"
  /\ copy' = [copy EXCEPT ![p].index[arg[p]] = [meta |-> val[p], sha |-> tmp[arg[p]]]]
  /\ Goto(p, "indexOpen")
  /\ UNCHANGED <<files, layout, sess, minted, call, todo, fd, out, interrupted>>

\* Mutant: the index is rebuilt from the new record alone.
RecordOnlyThis(p) ==
  /\ pc[p] = "hash"
  /\ copy' = [copy EXCEPT ![p].index =
                [n \in Names |-> IF n = arg[p]
                                 THEN [meta |-> val[p], sha |-> file[n]] ELSE None]]
  /\ Goto(p, "indexOpen")
  /\ UNCHANGED <<files, layout, sess, minted, call, todo, fd, out, interrupted>>

\* The checksum is taken from the target file, and the record enters the copy
\* of the manifest that ReadManifest made.
RecordCiphertext(p) ==
  /\ pc[p] = "hash"
  /\ copy' = [copy EXCEPT ![p].index[arg[p]] = [meta |-> val[p], sha |-> file[arg[p]]]]
  /\ Goto(p, "indexOpen")
  /\ UNCHANGED <<files, layout, sess, minted, call, todo, fd, out, interrupted>>

\* ... or the end of save_ciphertext.
ReplaceIndex(p) ==
  /\ pc[p] = "indexReplace"
  /\ IF tmp[Manifest] = None
     THEN Raise(p, "save")
     ELSE /\ Replace(Manifest)
          /\ Finish(p, [op |-> "save", ok |-> TRUE])
          /\ interrupted' = interrupted \ {arg[p]}
          /\ UNCHANGED <<layout, sess, minted>>

-----------------------------------------------------------------------------
(* load_ciphertext.                                                        *)

BeginLoad(p, n) ==
  /\ pc[p] = "idle" /\ sess[p] # None /\ ReadMayStart
  /\ Goto(p, "lookup")
  /\ arg' = [arg EXCEPT ![p] = n]
  /\ out' = [out EXCEPT ![p] = None]
  /\ UNCHANGED <<files, layout, sess, minted, val, copy, todo, fd, interrupted>>

LookupRecord(p) ==
  /\ pc[p] = "lookup"
  /\ IF ValidFor(p) /\ Recorded(arg[p])
     THEN /\ Goto(p, "verify")
          /\ copy' = [copy EXCEPT ![p] = Man]
          /\ UNCHANGED <<files, layout, sess, minted, call, todo, fd, out, interrupted>>
     ELSE Raise(p, "load")

\* Mutant: only the existence of the file is verified.
VerifyPresence(p) ==
  /\ pc[p] = "verify"
  /\ IF file[arg[p]] # None
     THEN /\ Goto(p, "deserialize")
          /\ UNCHANGED <<files, layout, sess, minted, call, copy, todo, fd, out, interrupted>>
     ELSE Raise(p, "load")

\* The checksum of the file is that of the record.
VerifyChecksum(p) ==
  /\ pc[p] = "verify"
  /\ IF file[arg[p]] = copy[p].index[arg[p]].sha
     THEN /\ Goto(p, "deserialize")
          /\ UNCHANGED <<files, layout, sess, minted, call, copy, todo, fd, out, interrupted>>
     ELSE Raise(p, "load")

\* The backend opens the path again, after the checksum.
Deserialize(p) ==
  /\ pc[p] = "deserialize"
  /\ IF file[arg[p]] \in Values
     THEN /\ Finish(p, [op      |-> "load",
                        ok      |-> TRUE,
                        name    |-> arg[p],
                        meta    |-> copy[p].index[arg[p]].meta,
                        content |-> file[arg[p]]])
          /\ UNCHANGED <<files, layout, sess, minted, fd, interrupted>>
     ELSE Raise(p, "load")

-----------------------------------------------------------------------------
SaveStep(p) ==
  \/ CheckManifest(p) \/ MakeDirectory(p)
  \/ \E f \in MaterialFiles : ExportMaterial(p, f)
  \/ DescribeMaterial(p) \/ OpenManifest(p) \/ WriteManifest(p)
  \/ ReplaceInitialManifest(p) \/ ReadManifest(p) \/ OpenCiphertext(p)
  \/ WriteCiphertext(p) \/ ReplaceCiphertext(p) \/ RecordCiphertext(p)
  \/ ReplaceIndex(p)

ReadStep(p) ==
  \/ OpenVerify(p) \/ OpenRestore(p)
  \/ LookupRecord(p) \/ VerifyChecksum(p) \/ Deserialize(p)

Next ==
  \E p \in Procs :
    \/ \E b \in Bundles : Create(p, b)
    \/ BeginOpen(p)
    \/ \E n \in Names, v \in Values : BeginSave(p, n, v)
    \/ \E n \in Names : BeginLoad(p, n)
    \/ SaveStep(p)
    \/ ReadStep(p)
    \/ Crash(p)

Spec == Init /\ [][Next]_vars

-----------------------------------------------------------------------------
(* Properties.                                                             *)

\* A manifest.json that exists parses, whatever crashed and however often:
\* _write_manifest never exposes a half-written index to a reader.
ManifestWhole == Man # Torn

\* Every ciphertext file matches its record, unless the save that put it there
\* is still on its way to the manifest or died on that way.
RecordMatchesFile ==
  \A n \in Names :
    file[n] = None \/ n \in interrupted \/ (\E p \in Procs : arg[p] = n /\ Unrecorded(p))
      \/ (Recorded(n) /\ Man.index[n].sha = file[n])

\* A load that returns gives the ciphertext its metadata was written for:
\* never the bytes of a newer or an interrupted save.
LoadSound ==
  \A p \in Procs :
    out[p] # None /\ out[p].op = "load" /\ out[p].ok => out[p].content = out[p].meta

\* The keys a session computes with are those of the bundle it stamps on
\* everything it saves.
KeysMatchIdentity ==
  \A p \in Procs : sess[p] # None => sess[p].keys = {sess[p].id}

\* Nothing that is recorded disappears from a readable manifest.
RecordsPersist ==
  [][\A n \in Names : Recorded(n) /\ Man' # Torn => Recorded(n)']_vars

\* Once the manifest is in place no crash makes the workspace refuse a save of
\* a session of its own bundle.
SaveFailsOnlyUninitialised ==
  \A p \in Procs :
    out[p] # None /\ out[p].op = "save" /\ ~out[p].ok
      => Man = None \/ (sess[p] # None /\ Man.bundle # sess[p].id)

\* What the workspace promises its users, seen as one map of artifacts.
storeView ==
  [n \in Names |->
     IF ~Recorded(n) THEN None
     ELSE IF file[n] = Man.index[n].sha THEN Man.index[n].meta ELSE Torn]

Request == [op : {"save", "load", "answer"}, name : Names, val : Values \cup {None}]

ASSUME NoneIsNoRequest == None \notin Request /\ None \notin Loaded

requestView ==
  [p \in Procs |->
     IF Saving(p) THEN [op |-> "save", name |-> arg[p], val |-> val[p]]
     ELSE IF pc[p] \in {"lookup", "verify", "deserialize"}
     THEN [op |-> "load", name |-> arg[p], val |-> None]
     ELSE IF out[p] # None /\ out[p].op = "load" /\ out[p].ok
     THEN [op |-> "answer", name |-> out[p].name, val |-> out[p].content]
     ELSE None]

Store == INSTANCE ArtifactStore
           WITH store <- storeView, request <- requestView, Lost <- Torn

\* The workspace implements the map of artifacts of ArtifactStore.
ImplementsStore == Store!Spec

=============================================================================
