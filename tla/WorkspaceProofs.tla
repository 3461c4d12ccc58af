-------------------------- MODULE WorkspaceProofs --------------------------
(***************************************************************************)
(* Proofs about Workspace: its types, and, when no two saves overlap, that *)
(* the manifest is never torn, every file matches its record and no record *)
(* is lost, that sessions hold their own keys, and which saves may be      *)
(* refused.  When calls take turns, or nothing recorded is saved again:    *)
(* that loads are sound, and that the workspace implements the map of      *)
(* artifacts of ArtifactStore.                                             *)
(***************************************************************************)
EXTENDS Workspace, TLAPS

WritingPCs == {"initWrite", "indexWrite", "serializing"}
CopyPCs == {"initOpen", "initWrite", "initReplace", "serialize", "serializing",
            "replace", "hash", "indexOpen", "indexWrite", "indexReplace",
            "verify", "deserialize", "restore"}
LoadPCs == {"lookup", "verify", "deserialize"}

(* What the program counter of a call says about the rest of its state.    *)
CallInv ==
  \A p \in Procs :
    /\ Saving(p) => sess[p] # None /\ arg[p] \in Names /\ val[p] \in Values
    /\ pc[p] \in LoadPCs => sess[p] # None /\ arg[p] \in Names
    /\ pc[p] \in CopyPCs => copy[p] \in ManifestT
    /\ pc[p] \in {"verify", "deserialize"} => copy[p].index[arg[p]] # None
    /\ fd[p] # None <=> pc[p] \in WritingPCs
    /\ pc[p] \in {"initWrite", "indexWrite"} => fd[p].path = Manifest
    /\ pc[p] = "serializing" => fd[p].path = arg[p]
    /\ pc[p] = "hash" => file[arg[p]] # None

TypeInv == TypeOK /\ CallInv

USE ConstantsAssumption, NoneIsNoRecord DEF files, layout, call, Loaded

(* The empty directory of idle processes is well typed.                    *)
LEMMA InitTypeInv == Init => TypeInv
<1> SUFFICES ASSUME Init PROVE TypeInv
  OBVIOUS
<1>1. CallsOK
  BY DEF Init, CallsOK, Outcome
<1>2. FilesOK
  BY DEF Init, FilesOK, Paths
<1>3. TypeOK
  BY <1>1, <1>2 DEF Init, TypeOK
<1>4. CallInv
  BY DEF Init, CallInv, Saving, SavePCs, InitPCs, LoadPCs, CopyPCs, WritingPCs
<1>5. QED
  BY <1>3, <1>4 DEF TypeInv

-----------------------------------------------------------------------------
(* Opening a temporary file: a file is open afterwards, and no target moved. *)
LEMMA OpenTmpTypes ==
  ASSUME FilesOK, NEW p \in Procs, NEW path \in Paths, OpenTmp(p, path)
  PROVE  /\ FilesOK'
         /\ fd'[p] # None /\ fd'[p].path = path
         /\ \A q \in Procs \ {p} : /\ fd'[q] = None <=> fd[q] = None
                                   /\ fd[q] # None => fd'[q].path = fd[q].path
         /\ file' = file
<1> DEFINE sharers == {q \in Procs : fd[q] # None /\ fd[q].path = path /\ fd[q].at = "tmp"}
           opened  == [path |-> path, at |-> "tmp", shared |-> sharers # {}]
<1>1. opened \in OpenFile
  BY DEF OpenFile
<1>2. fd' = [q \in Procs |-> IF q \in sharers \cup {p} THEN opened ELSE fd[q]]
  BY DEF OpenTmp
<1>3. tmp' = [tmp EXCEPT ![path] = Torn] /\ file' = file
  BY DEF OpenTmp
<1> HIDE DEF sharers
<1>4. \A q \in sharers : q \in Procs /\ fd[q] # None /\ fd[q].path = path
  BY DEF sharers
<1>5. opened.path = path /\ opened # None
  BY <1>1
<1> HIDE DEF opened
<1>6. FilesOK'
  BY <1>1, <1>2, <1>3 DEF FilesOK
<1>7. QED
  BY <1>2, <1>3, <1>4, <1>5, <1>6

(* Writing and closing a temporary file, wherever it is linked by then.    *)
LEMMA WriteTmpTypes ==
  ASSUME FilesOK, NEW p \in Procs, fd[p] # None,
         NEW content \in ContentOf(fd[p].path), WriteTmp(p, content)
  PROVE  /\ FilesOK'
         /\ fd' = [fd EXCEPT ![p] = None]
         /\ \A x \in Paths : file[x] # None => file'[x] # None
<1>1. fd[p].path \in Paths
  BY DEF FilesOK, OpenFile
<1>2. content \in Values \cup ManifestT /\ content # None
  BY DEF ContentOf
<1>3. PICK c \in {content, Torn} :
        /\ tmp'  = IF fd[p].at = "tmp"  THEN [tmp  EXCEPT ![fd[p].path] = c] ELSE tmp
        /\ file' = IF fd[p].at = "file" THEN [file EXCEPT ![fd[p].path] = c] ELSE file
  BY DEF WriteTmp
<1>4. fd' = [fd EXCEPT ![p] = None]
  BY DEF WriteTmp
<1>5. QED
  BY <1>1, <1>2, <1>3, <1>4 DEF FilesOK

(* os.replace moves whole or torn content, and keeps what is open open.    *)
LEMMA ReplaceTypes ==
  ASSUME FilesOK, NEW path \in Paths, tmp[path] # None, Replace(path)
  PROVE  /\ FilesOK'
         /\ \A q \in Procs : /\ fd'[q] = None <=> fd[q] = None
                             /\ fd[q] # None => fd'[q].path = fd[q].path
         /\ file'[path] # None
         /\ \A x \in Paths : file[x] # None => file'[x] # None
<1>1. file' = [file EXCEPT ![path] = tmp[path]] /\ tmp' = [tmp EXCEPT ![path] = None]
  BY DEF Replace
<1>2. ASSUME NEW q \in Procs
      PROVE  /\ fd'[q] \in OpenFile \cup {None}
             /\ fd'[q] = None <=> fd[q] = None
             /\ fd[q] # None => fd'[q].path = fd[q].path
  <2>1. CASE fd[q] = None \/ fd[q].path # path
    BY <2>1 DEF Replace, FilesOK
  <2>2. CASE fd[q] # None /\ fd[q].path = path
    <3>1. fd'[q] = [fd[q] EXCEPT !.at = IF @ = "tmp" THEN "file" ELSE "gone"]
      BY <2>2 DEF Replace
    <3>2. fd[q] \in OpenFile
      BY <2>2 DEF FilesOK
    <3>3. fd'[q] \in OpenFile /\ fd'[q].path = fd[q].path
      BY <3>1, <3>2 DEF OpenFile
    <3>4. QED
      BY <2>2, <3>3
  <2>3. QED
    BY <2>1, <2>2
<1>3. fd' \in [Procs -> OpenFile \cup {None}]
  <2>1. fd' = [q \in Procs |-> fd'[q]]
    BY DEF Replace
  <2>2. QED
    BY <1>2, <2>1
<1>4. FilesOK'
  BY <1>1, <1>3 DEF FilesOK
<1>5. QED
  BY <1>1, <1>2, <1>4 DEF FilesOK

(* A call that ends leaves its process idle and everything else typed.     *)
LEMMA FinishTypes ==
  ASSUME CallsOK, NEW p \in Procs, NEW o \in Outcome, Finish(p, o)
  PROVE  /\ CallsOK'
         /\ pc'[p] = "idle"
         /\ \A q \in Procs \ {p} :
              pc'[q] = pc[q] /\ arg'[q] = arg[q] /\ val'[q] = val[q] /\ copy'[q] = copy[q]
  BY DEF CallsOK, Finish, Goto

(* A call that raises between two writes keeps the types.                  *)
LEMMA RaiseTypes ==
  ASSUME TypeInv, NEW p \in Procs, NEW kind \in {"save", "load", "open"},
         Raise(p, kind), pc[p] \notin WritingPCs
  PROVE  TypeInv'
<1>1. Finish(p, [op |-> kind, ok |-> FALSE]) /\ [op |-> kind, ok |-> FALSE] \in Outcome
  BY DEF Raise, Outcome
<1>2. /\ CallsOK'
      /\ pc'[p] = "idle"
      /\ \A q \in Procs \ {p} :
           pc'[q] = pc[q] /\ arg'[q] = arg[q] /\ val'[q] = val[q] /\ copy'[q] = copy[q]
  BY <1>1, FinishTypes DEF TypeInv, TypeOK
<1>3. UNCHANGED <<file, tmp, begun, material, sess, minted, fd>>
  BY DEF Raise
<1>4. interrupted' \subseteq Names
  BY DEF Raise, Abandon, Unrecorded, TypeInv, TypeOK, CallInv, Saving, SavePCs
<1>5. TypeOK'
  BY <1>2, <1>3, <1>4 DEF TypeInv, TypeOK, FilesOK
<1>6. CallInv'
  BY <1>2, <1>3 DEF TypeInv, CallInv, Saving, SavePCs, InitPCs, LoadPCs, CopyPCs, WritingPCs
<1>7. QED
  BY <1>5, <1>6 DEF TypeInv

-----------------------------------------------------------------------------
(* The proof that a step keeps the types: one step per action.             *)
LEMMA StepTypeInv ==
  ASSUME TypeInv, [Next]_vars
  PROVE  TypeInv'
<1> USE DEF TypeInv, TypeOK
<1>1. ASSUME NEW p \in Procs, NEW b \in Bundles, Create(p, b)
      PROVE  TypeInv'
  <2>1. TypeOK'
    BY <1>1 DEF Create, Session, FilesOK, CallsOK, Goto, SavePCs, InitPCs, ReadPCs
  <2>2. CallInv'
    BY <1>1 DEF Create, Session, FilesOK, CallsOK, Goto, CallInv, Saving, SavePCs, InitPCs,
       ReadPCs, LoadPCs, CopyPCs, WritingPCs
  <2>3. QED
    BY <2>1, <2>2
<1>2. ASSUME NEW p \in Procs, BeginOpen(p)
      PROVE  TypeInv'
  <2>1. TypeOK'
    BY <1>2 DEF BeginOpen, Outcome, FilesOK, CallsOK, Goto, SavePCs, InitPCs, ReadPCs
  <2>2. CallInv'
    BY <1>2 DEF BeginOpen, Outcome, FilesOK, CallsOK, Goto, CallInv, Saving, SavePCs,
       InitPCs, ReadPCs, LoadPCs, CopyPCs, WritingPCs
  <2>3. QED
    BY <2>1, <2>2
<1>3. ASSUME NEW p \in Procs, OpenVerify(p)
      PROVE  TypeInv'
  <2>1. CASE Readable /\ \A f \in MaterialFiles : material[f] = Man.material[f]
    <3>1. TypeOK'
      BY <1>3, <2>1 DEF OpenVerify, Readable, Man, ContentOf, Paths, FilesOK, CallsOK,
         Goto, SavePCs, InitPCs, ReadPCs
    <3>2. CallInv'
      BY <1>3, <2>1 DEF OpenVerify, Readable, Man, ContentOf, Paths, FilesOK, CallsOK,
         Goto, CallInv, Saving, SavePCs, InitPCs, ReadPCs, LoadPCs, CopyPCs, WritingPCs
    <3>3. QED
      BY <3>1, <3>2
  <2>2. CASE ~(Readable /\ \A f \in MaterialFiles : material[f] = Man.material[f])
    <3>1. Raise(p, "open") /\ pc[p] \notin WritingPCs
      BY <1>3, <2>2 DEF OpenVerify, WritingPCs
    <3>2. QED
      BY <3>1, RaiseTypes
  <2>3. QED
    BY <2>1, <2>2
<1>4. ASSUME NEW p \in Procs, OpenRestore(p)
      PROVE  TypeInv'
  <2>1. Finish(p, [op |-> "open", ok |-> TRUE]) /\ [op |-> "open", ok |-> TRUE] \in Outcome
    BY <1>4 DEF OpenRestore, Outcome
  <2>2. CallsOK' /\ pc'[p] = "idle"
        /\ \A q \in Procs \ {p} :
             pc'[q] = pc[q] /\ arg'[q] = arg[q] /\ val'[q] = val[q] /\ copy'[q] = copy[q]
    BY <2>1, FinishTypes
  <2>3. [id |-> copy[p].bundle, keys |-> {material[f] : f \in MaterialFiles}] \in Session
    BY <1>4 DEF OpenRestore, CallInv, CopyPCs, ManifestT, Session
  <2>4. TypeOK'
    BY <1>4, <2>2, <2>3 DEF OpenRestore, FilesOK
  <2>5. CallInv'
    BY <1>4, <2>2 DEF OpenRestore, CallInv, Saving, SavePCs, InitPCs, LoadPCs, CopyPCs,
       WritingPCs
  <2>6. QED
    BY <2>4, <2>5
<1>5. ASSUME NEW p \in Procs, Crash(p)
      PROVE  TypeInv'
  <2>1. Finish(p, None) /\ None \in Outcome
    BY <1>5 DEF Crash, Outcome
  <2>2. CallsOK' /\ pc'[p] = "idle"
        /\ \A q \in Procs \ {p} :
             pc'[q] = pc[q] /\ arg'[q] = arg[q] /\ val'[q] = val[q] /\ copy'[q] = copy[q]
    BY <2>1, FinishTypes
  <2>3. interrupted' \subseteq Names
    BY <1>5 DEF Crash, Abandon, Unrecorded, CallInv, Saving, SavePCs
  <2>4. TypeOK'
    BY <1>5, <2>2, <2>3 DEF Crash, FilesOK
  <2>5. CallInv'
    BY <1>5, <2>2 DEF Crash, FilesOK, CallInv, Saving, SavePCs, InitPCs, LoadPCs, CopyPCs,
       WritingPCs
  <2>6. QED
    BY <2>4, <2>5
<1>6. ASSUME NEW p \in Procs, NEW n \in Names, NEW v \in Values, BeginSave(p, n, v)
      PROVE  TypeInv'
  <2>1. TypeOK'
    BY <1>6 DEF BeginSave, Outcome, FilesOK, CallsOK, Goto, SavePCs, InitPCs, ReadPCs
  <2>2. CallInv'
    BY <1>6 DEF BeginSave, Outcome, FilesOK, CallsOK, Goto, CallInv, Saving, SavePCs,
       InitPCs, ReadPCs, LoadPCs, CopyPCs, WritingPCs
  <2>3. QED
    BY <2>1, <2>2
<1>7. ASSUME NEW p \in Procs, CheckManifest(p)
      PROVE  TypeInv'
  <2>1. TypeOK'
    BY <1>7 DEF CheckManifest, FilesOK, CallsOK, Goto, SavePCs, InitPCs, ReadPCs
  <2>2. CallInv'
    BY <1>7 DEF CheckManifest, FilesOK, CallsOK, Goto, CallInv, Saving, SavePCs, InitPCs,
       ReadPCs, LoadPCs, CopyPCs, WritingPCs
  <2>3. QED
    BY <2>1, <2>2
<1>8. ASSUME NEW p \in Procs, MakeDirectory(p)
      PROVE  TypeInv'
  <2>1. CASE EmptyDirectory
    <3>1. TypeOK'
      BY <1>8, <2>1 DEF MakeDirectory, FilesOK, CallsOK, Goto, SavePCs, InitPCs, ReadPCs
    <3>2. CallInv'
      BY <1>8, <2>1 DEF MakeDirectory, FilesOK, CallsOK, Goto, CallInv, Saving, SavePCs,
         InitPCs, ReadPCs, LoadPCs, CopyPCs, WritingPCs
    <3>3. QED
      BY <3>1, <3>2
  <2>2. CASE ~(EmptyDirectory)
    <3>1. Raise(p, "save") /\ pc[p] \notin WritingPCs
      BY <1>8, <2>2 DEF MakeDirectory, WritingPCs
    <3>2. QED
      BY <3>1, RaiseTypes
  <2>3. QED
    BY <2>1, <2>2
<1>9. ASSUME NEW p \in Procs, NEW f \in MaterialFiles, ExportMaterial(p, f)
      PROVE  TypeInv'
  <2>1. PICK b \in sess[p].keys : material' = [material EXCEPT ![f] = b]
    BY <1>9 DEF ExportMaterial
  <2>2. b \in Bundles \cup {None}
    BY <1>9, <2>1 DEF ExportMaterial, CallInv, Saving, SavePCs, InitPCs, Session
  <2>3. TypeOK'
    BY <1>9, <2>1, <2>2 DEF ExportMaterial, FilesOK, CallsOK, Goto, SavePCs, InitPCs,
       ReadPCs
  <2>4. CallInv'
    BY <1>9 DEF ExportMaterial, FilesOK, CallsOK, Goto, CallInv, Saving, SavePCs, InitPCs,
       ReadPCs, LoadPCs, CopyPCs, WritingPCs
  <2>5. QED
    BY <2>3, <2>4
<1>10. ASSUME NEW p \in Procs, DescribeMaterial(p)
      PROVE  TypeInv'
  <2> DEFINE m == [bundle   |-> sess[p].id,
                   material |-> material,
                   index    |-> [n \in Names |-> None]]
  <2>1. m \in ManifestT
    BY <1>10 DEF DescribeMaterial, CallInv, Saving, SavePCs, InitPCs, Session, ManifestT
  <2>2. copy' = [copy EXCEPT ![p] = m]
    BY <1>10 DEF DescribeMaterial
  <2> HIDE DEF m
  <2>3. TypeOK'
    BY <1>10, <2>1, <2>2 DEF DescribeMaterial, FilesOK, CallsOK, Goto, SavePCs, InitPCs,
       ReadPCs
  <2>4. CallInv'
    BY <1>10, <2>1, <2>2 DEF DescribeMaterial, FilesOK, CallsOK, Goto, CallInv, Saving,
       SavePCs, InitPCs, ReadPCs, LoadPCs, CopyPCs, WritingPCs
  <2>5. QED
    BY <2>3, <2>4
<1>11. ASSUME NEW p \in Procs, OpenManifest(p)
      PROVE  TypeInv'
  <2>1. Manifest \in Paths /\ OpenTmp(p, Manifest)
    BY <1>11 DEF OpenManifest, CallInv, Saving, SavePCs, Paths
  <2>2. /\ FilesOK'
        /\ fd'[p] # None /\ fd'[p].path = Manifest
        /\ \A q \in Procs \ {p} : /\ fd'[q] = None <=> fd[q] = None
                                  /\ fd[q] # None => fd'[q].path = fd[q].path
        /\ file' = file
    BY <2>1, OpenTmpTypes
  <2>3. TypeOK'
    BY <1>11, <2>2 DEF OpenManifest, CallsOK, Goto, SavePCs, InitPCs, ReadPCs
  <2>4. CallInv'
    BY <1>11, <2>2 DEF OpenManifest, CallsOK, Goto, CallInv, Saving, SavePCs, InitPCs,
       ReadPCs, LoadPCs, CopyPCs, WritingPCs
  <2>5. QED
    BY <2>3, <2>4
<1>12. ASSUME NEW p \in Procs, WriteManifest(p)
      PROVE  TypeInv'
  <2>1. fd[p] # None /\ copy[p] \in ContentOf(fd[p].path) /\ WriteTmp(p, copy[p])
    BY <1>12 DEF WriteManifest, CallInv, Saving, SavePCs, InitPCs, CopyPCs, WritingPCs,
       ContentOf
  <2>2. /\ FilesOK'
        /\ fd' = [fd EXCEPT ![p] = None]
        /\ \A x \in Paths : file[x] # None => file'[x] # None
    BY <2>1, WriteTmpTypes
  <2>3. TypeOK'
    BY <1>12, <2>2 DEF WriteManifest, CallsOK, Goto, SavePCs, InitPCs, ReadPCs
  <2>4. CallInv'
    BY <1>12, <2>2 DEF WriteManifest, FilesOK, CallsOK, Goto, Paths, CallInv, Saving,
       SavePCs, InitPCs, ReadPCs, LoadPCs, CopyPCs, WritingPCs
  <2>5. QED
    BY <2>3, <2>4
<1>13. ASSUME NEW p \in Procs, ReplaceInitialManifest(p)
      PROVE  TypeInv'
  <2>1. CASE tmp[Manifest] # None
    <3>1. Manifest \in Paths /\ Replace(Manifest)
      BY <1>13, <2>1 DEF ReplaceInitialManifest, CallInv, Saving, SavePCs, Paths
    <3>2. /\ FilesOK'
          /\ \A q \in Procs : /\ fd'[q] = None <=> fd[q] = None
                              /\ fd[q] # None => fd'[q].path = fd[q].path
          /\ file'[Manifest] # None
          /\ \A x \in Paths : file[x] # None => file'[x] # None
      BY <2>1, <3>1, ReplaceTypes
    <3>3. TypeOK'
      BY <1>13, <2>1, <3>2 DEF ReplaceInitialManifest, CallsOK, Goto, SavePCs, InitPCs,
         ReadPCs
    <3>4. CallInv'
      BY <1>13, <2>1, <3>2 DEF ReplaceInitialManifest, CallsOK, Goto, Paths, CallInv,
         Saving, SavePCs, InitPCs, ReadPCs, LoadPCs, CopyPCs, WritingPCs
    <3>5. QED
      BY <3>3, <3>4
  <2>2. CASE tmp[Manifest] = None
    <3>1. Raise(p, "save") /\ pc[p] \notin WritingPCs
      BY <1>13, <2>2 DEF ReplaceInitialManifest, WritingPCs
    <3>2. QED
      BY <3>1, RaiseTypes
  <2>3. QED
    BY <2>1, <2>2
<1>14. ASSUME NEW p \in Procs, ReadManifest(p)
      PROVE  TypeInv'
  <2>1. CASE ValidFor(p)
    <3>1. TypeOK'
      BY <1>14, <2>1 DEF ReadManifest, ValidFor, Readable, Man, ContentOf, Paths, FilesOK,
         CallsOK, Goto, SavePCs, InitPCs, ReadPCs
    <3>2. CallInv'
      BY <1>14, <2>1 DEF ReadManifest, ValidFor, Readable, Man, ContentOf, Paths, FilesOK,
         CallsOK, Goto, CallInv, Saving, SavePCs, InitPCs, ReadPCs, LoadPCs, CopyPCs,
         WritingPCs
    <3>3. QED
      BY <3>1, <3>2
  <2>2. CASE ~(ValidFor(p))
    <3>1. Raise(p, "save") /\ pc[p] \notin WritingPCs
      BY <1>14, <2>2 DEF ReadManifest, WritingPCs
    <3>2. QED
      BY <3>1, RaiseTypes
  <2>3. QED
    BY <2>1, <2>2
<1>15. ASSUME NEW p \in Procs, OpenCiphertext(p)
      PROVE  TypeInv'
  <2>1. arg[p] \in Paths /\ OpenTmp(p, arg[p])
    BY <1>15 DEF OpenCiphertext, CallInv, Saving, SavePCs, Paths
  <2>2. /\ FilesOK'
        /\ fd'[p] # None /\ fd'[p].path = arg[p]
        /\ \A q \in Procs \ {p} : /\ fd'[q] = None <=> fd[q] = None
                                  /\ fd[q] # None => fd'[q].path = fd[q].path
        /\ file' = file
    BY <2>1, OpenTmpTypes
  <2>3. TypeOK'
    BY <1>15, <2>2 DEF OpenCiphertext, CallsOK, Goto, SavePCs, InitPCs, ReadPCs
  <2>4. CallInv'
    BY <1>15, <2>2 DEF OpenCiphertext, CallsOK, Goto, CallInv, Saving, SavePCs, InitPCs,
       ReadPCs, LoadPCs, CopyPCs, WritingPCs
  <2>5. QED
    BY <2>3, <2>4
<1>16. ASSUME NEW p \in Procs, WriteCiphertext(p)
      PROVE  TypeInv'
  <2>1. fd[p] # None /\ val[p] \in ContentOf(fd[p].path) /\ WriteTmp(p, val[p])
    BY <1>16 DEF WriteCiphertext, CallInv, Saving, SavePCs, InitPCs, CopyPCs, WritingPCs,
       ContentOf
  <2>2. /\ FilesOK'
        /\ fd' = [fd EXCEPT ![p] = None]
        /\ \A x \in Paths : file[x] # None => file'[x] # None
    BY <2>1, WriteTmpTypes
  <2>3. TypeOK'
    BY <1>16, <2>2 DEF WriteCiphertext, CallsOK, Goto, SavePCs, InitPCs, ReadPCs
  <2>4. CallInv'
    BY <1>16, <2>2 DEF WriteCiphertext, FilesOK, CallsOK, Goto, Paths, CallInv, Saving,
       SavePCs, InitPCs, ReadPCs, LoadPCs, CopyPCs, WritingPCs
  <2>5. QED
    BY <2>3, <2>4
<1>17. ASSUME NEW p \in Procs, ReplaceCiphertext(p)
      PROVE  TypeInv'
  <2>1. CASE tmp[arg[p]] # None
    <3>1. arg[p] \in Paths /\ Replace(arg[p])
      BY <1>17, <2>1 DEF ReplaceCiphertext, CallInv, Saving, SavePCs, Paths
    <3>2. /\ FilesOK'
          /\ \A q \in Procs : /\ fd'[q] = None <=> fd[q] = None
                              /\ fd[q] # None => fd'[q].path = fd[q].path
          /\ file'[arg[p]] # None
          /\ \A x \in Paths : file[x] # None => file'[x] # None
      BY <2>1, <3>1, ReplaceTypes
    <3>3. TypeOK'
      BY <1>17, <2>1, <3>2 DEF ReplaceCiphertext, CallsOK, Goto, SavePCs, InitPCs, ReadPCs
    <3>4. CallInv'
      BY <1>17, <2>1, <3>2 DEF ReplaceCiphertext, CallsOK, Goto, Paths, CallInv, Saving,
         SavePCs, InitPCs, ReadPCs, LoadPCs, CopyPCs, WritingPCs
    <3>5. QED
      BY <3>3, <3>4
  <2>2. CASE tmp[arg[p]] = None
    <3>1. Raise(p, "save") /\ pc[p] \notin WritingPCs
      BY <1>17, <2>2 DEF ReplaceCiphertext, WritingPCs
    <3>2. QED
      BY <3>1, RaiseTypes
  <2>3. QED
    BY <2>1, <2>2
<1>18. ASSUME NEW p \in Procs, RecordCiphertext(p)
      PROVE  TypeInv'
  <2> DEFINE r == [meta |-> val[p], sha |-> file[arg[p]]]
             m == [copy[p] EXCEPT !.index[arg[p]] = r]
  <2>1. arg[p] \in Names /\ file[arg[p]] \in Values \cup {Torn} /\ val[p] \in Values
    BY <1>18 DEF RecordCiphertext, CallInv, Saving, SavePCs, FilesOK, ContentOf, Paths
  <2>2. r \in Record
    BY <2>1 DEF Record
  <2>3. copy[p] \in ManifestT
    BY <1>18 DEF RecordCiphertext, CallInv, CopyPCs
  <2>4. m \in ManifestT
    BY <2>1, <2>2, <2>3 DEF ManifestT
  <2>5. copy' = [copy EXCEPT ![p] = m]
    BY <1>18 DEF RecordCiphertext
  <2> HIDE DEF m
  <2>6. TypeOK'
    BY <1>18, <2>4, <2>5 DEF RecordCiphertext, FilesOK, CallsOK, Goto, SavePCs, InitPCs,
       ReadPCs
  <2>7. CallInv'
    BY <1>18, <2>4, <2>5 DEF RecordCiphertext, FilesOK, CallsOK, Goto, CallInv, Saving,
       SavePCs, InitPCs, ReadPCs, LoadPCs, CopyPCs, WritingPCs
  <2>8. QED
    BY <2>6, <2>7
<1>19. ASSUME NEW p \in Procs, ReplaceIndex(p)
      PROVE  TypeInv'
  <2>1. CASE tmp[Manifest] # None
    <3>1. Manifest \in Paths /\ Replace(Manifest)
      BY <1>19, <2>1 DEF ReplaceIndex, Paths
    <3>2. /\ FilesOK'
          /\ \A q \in Procs : /\ fd'[q] = None <=> fd[q] = None
                              /\ fd[q] # None => fd'[q].path = fd[q].path
          /\ \A x \in Paths : file[x] # None => file'[x] # None
      BY <2>1, <3>1, ReplaceTypes
    <3>3. Finish(p, [op |-> "save", ok |-> TRUE]) /\ [op |-> "save", ok |-> TRUE] \in Outcome
      BY <1>19, <2>1 DEF ReplaceIndex, Outcome
    <3>4. /\ CallsOK'
          /\ pc'[p] = "idle"
          /\ \A q \in Procs \ {p} :
               pc'[q] = pc[q] /\ arg'[q] = arg[q] /\ val'[q] = val[q] /\ copy'[q] = copy[q]
      BY <3>3, FinishTypes
    <3>5. TypeOK'
      BY <1>19, <2>1, <3>2, <3>4 DEF ReplaceIndex
    <3>6. CallInv'
      BY <1>19, <2>1, <3>2, <3>4 DEF ReplaceIndex, Paths, CallInv, Saving, SavePCs,
         InitPCs, LoadPCs, CopyPCs, WritingPCs
    <3>7. QED
      BY <3>5, <3>6
  <2>2. CASE tmp[Manifest] = None
    <3>1. Raise(p, "save") /\ pc[p] \notin WritingPCs
      BY <1>19, <2>2 DEF ReplaceIndex, WritingPCs
    <3>2. QED
      BY <3>1, RaiseTypes
  <2>3. QED
    BY <2>1, <2>2
<1>20. ASSUME NEW p \in Procs, NEW n \in Names, BeginLoad(p, n)
      PROVE  TypeInv'
  <2>1. TypeOK'
    BY <1>20 DEF BeginLoad, Outcome, FilesOK, CallsOK, Goto, SavePCs, InitPCs, ReadPCs
  <2>2. CallInv'
    BY <1>20 DEF BeginLoad, Outcome, FilesOK, CallsOK, Goto, CallInv, Saving, SavePCs,
       InitPCs, ReadPCs, LoadPCs, CopyPCs, WritingPCs
  <2>3. QED
    BY <2>1, <2>2
<1>21. ASSUME NEW p \in Procs, LookupRecord(p)
      PROVE  TypeInv'
  <2>1. CASE ValidFor(p) /\ Recorded(arg[p])
    <3>1. TypeOK'
      BY <1>21, <2>1 DEF LookupRecord, ValidFor, Recorded, Readable, Man, ContentOf, Paths,
         FilesOK, CallsOK, Goto, SavePCs, InitPCs, ReadPCs
    <3>2. CallInv'
      BY <1>21, <2>1 DEF LookupRecord, ValidFor, Recorded, Readable, Man, ContentOf, Paths,
         FilesOK, CallsOK, Goto, CallInv, Saving, SavePCs, InitPCs, ReadPCs, LoadPCs,
         CopyPCs, WritingPCs
    <3>3. QED
      BY <3>1, <3>2
  <2>2. CASE ~(ValidFor(p) /\ Recorded(arg[p]))
    <3>1. Raise(p, "load") /\ pc[p] \notin WritingPCs
      BY <1>21, <2>2 DEF LookupRecord, WritingPCs
    <3>2. QED
      BY <3>1, RaiseTypes
  <2>3. QED
    BY <2>1, <2>2
<1>22. ASSUME NEW p \in Procs, VerifyChecksum(p)
      PROVE  TypeInv'
  <2>1. CASE file[arg[p]] = copy[p].index[arg[p]].sha
    <3>1. TypeOK'
      BY <1>22, <2>1 DEF VerifyChecksum, FilesOK, CallsOK, Goto, SavePCs, InitPCs, ReadPCs
    <3>2. CallInv'
      BY <1>22, <2>1 DEF VerifyChecksum, FilesOK, CallsOK, Goto, CallInv, Saving, SavePCs,
         InitPCs, ReadPCs, LoadPCs, CopyPCs, WritingPCs
    <3>3. QED
      BY <3>1, <3>2
  <2>2. CASE ~(file[arg[p]] = copy[p].index[arg[p]].sha)
    <3>1. Raise(p, "load") /\ pc[p] \notin WritingPCs
      BY <1>22, <2>2 DEF VerifyChecksum, WritingPCs
    <3>2. QED
      BY <3>1, RaiseTypes
  <2>3. QED
    BY <2>1, <2>2
<1>23. ASSUME NEW p \in Procs, Deserialize(p)
      PROVE  TypeInv'
  <2> DEFINE o == [op      |-> "load",
                   ok      |-> TRUE,
                   name    |-> arg[p],
                   meta    |-> copy[p].index[arg[p]].meta,
                   content |-> file[arg[p]]]
  <2>1. CASE file[arg[p]] \in Values
    <3>1. arg[p] \in Names /\ copy[p].index[arg[p]] \in Record
      BY <1>23 DEF Deserialize, CallInv, LoadPCs, CopyPCs, ManifestT
    <3>2. o \in Outcome
      BY <2>1, <3>1 DEF Record, Outcome
    <3>3. Finish(p, o)
      BY <1>23, <2>1 DEF Deserialize
    <3> HIDE DEF o
    <3>4. /\ CallsOK'
          /\ pc'[p] = "idle"
          /\ \A q \in Procs \ {p} :
               pc'[q] = pc[q] /\ arg'[q] = arg[q] /\ val'[q] = val[q] /\ copy'[q] = copy[q]
      BY <3>2, <3>3, FinishTypes
    <3>5. TypeOK'
      BY <1>23, <2>1, <3>4 DEF Deserialize, FilesOK
    <3>6. CallInv'
      BY <1>23, <2>1, <3>4 DEF Deserialize, CallInv, Saving, SavePCs, InitPCs, LoadPCs,
         CopyPCs, WritingPCs
    <3>7. QED
      BY <3>5, <3>6
  <2>2. CASE file[arg[p]] \notin Values
    <3>1. Raise(p, "load") /\ pc[p] \notin WritingPCs
      BY <1>23, <2>2 DEF Deserialize, WritingPCs
    <3>2. QED
      BY <3>1, RaiseTypes
  <2>3. QED
    BY <2>1, <2>2
<1>24. CASE UNCHANGED vars
  BY <1>24 DEF vars, FilesOK, CallsOK, CallInv, Saving, SavePCs, InitPCs, ReadPCs, LoadPCs,
     CopyPCs, WritingPCs
<1>25. QED
  BY <1>1, <1>2, <1>3, <1>4, <1>5, <1>6, <1>7, <1>8, <1>9, <1>10, <1>11, <1>12, <1>13,
     <1>14, <1>15, <1>16, <1>17, <1>18, <1>19, <1>20, <1>21, <1>22, <1>23, <1>24 DEF Next,
     SaveStep, ReadStep

\* Every variable keeps its type, however the calls overlap and crash.
THEOREM TypeCorrect == Spec => []TypeOK
<1>1. Init => TypeInv
  BY InitTypeInv
<1>2. TypeInv /\ [Next]_vars => TypeInv'
  BY StepTypeInv
<1>3. TypeInv => TypeOK
  BY DEF TypeInv
<1>4. QED
  BY <1>1, <1>2, <1>3, PTL DEF Spec

-----------------------------------------------------------------------------
(* One save at a time: Overlap is "none" or "readers".  The inductive      *)
(* invariant follows the one saver through its call.                       *)

OneSaver == \A p, q \in Procs : Saving(p) /\ Saving(q) => p = q

SaverInv(p) ==
  /\ fd[p] # None => fd[p].at = "tmp" /\ ~fd[p].shared
  /\ pc[p] = "replace" => tmp[arg[p]] = val[p]
  /\ pc[p] \in {"initReplace", "indexReplace"} => tmp[Manifest] = copy[p]
  /\ pc[p] \in InitPCs \ {"mkdir"} => \A n \in Names : file[n] = None
  /\ pc[p] \in {"serialize", "serializing", "replace", "hash"} => copy[p] = Man
  /\ pc[p] \in {"indexOpen", "indexWrite", "indexReplace"} =>
       /\ Man \in ManifestT
       /\ file[arg[p]] # None
       /\ copy[p] = [Man EXCEPT !.index[arg[p]] = [meta |-> val[p], sha |-> file[arg[p]]]]

FilesWhole == \A x \in Paths : file[x] # Torn

SaveInv == OneSaver /\ (\A p \in Procs : SaverInv(p)) /\ FilesWhole /\ RecordMatchesFile

(* Nothing is saved in the empty directory.                                *)
LEMMA InitSaveInv == Init => SaveInv
  BY DEF Init, SaveInv, OneSaver, SaverInv, FilesWhole, RecordMatchesFile, Saving, SavePCs,
     InitPCs, Paths

(* A process that is not in a save has no file open.                       *)
LEMMA OthersQuiet ==
  ASSUME TypeInv, OneSaver, NEW p \in Procs, Saving(p), NEW q \in Procs \ {p}
  PROVE  pc[q] \notin SavePCs /\ fd[q] = None
  BY DEF TypeInv, CallInv, OneSaver, Saving, WritingPCs, SavePCs, InitPCs

(* A step of p that writes no file and after which p is not in a save.     *)
LEMMA NotSaving ==
  ASSUME TypeInv, SaveInv, NEW p \in Procs,
         pc' = [pc EXCEPT ![p] = pc'[p]], pc'[p] \notin SavePCs,
         (fd' = fd /\ fd[p] = None) \/ fd' = [fd EXCEPT ![p] = None],
         \A q \in Procs \ {p} : arg'[q] = arg[q] /\ val'[q] = val[q] /\ copy'[q] = copy[q],
         UNCHANGED <<file, tmp>>,
         interrupted' = IF Unrecorded(p) THEN interrupted \cup {arg[p]} ELSE interrupted
  PROVE  SaveInv'
<1>1. fd \in [Procs -> OpenFile \cup {None}] /\ pc \in [Procs -> {"idle"} \cup SavePCs \cup ReadPCs]
  BY DEF TypeInv, TypeOK, FilesOK, CallsOK
<1>2. pc'[p] \notin SavePCs /\ fd'[p] = None
  BY <1>1
<1>3. \A q \in Procs \ {p} : pc'[q] = pc[q] /\ fd'[q] = fd[q]
  BY <1>1
<1>4. OneSaver'
  BY <1>2, <1>3 DEF SaveInv, OneSaver, Saving
<1>5. \A q \in Procs : SaverInv(q)'
  <2>1. SaverInv(p)'
    BY <1>2 DEF SaverInv, SavePCs, InitPCs
  <2>2. ASSUME NEW q \in Procs \ {p}
        PROVE  SaverInv(q)'
    BY <1>3, <2>2 DEF SaveInv, SaverInv, Man
  <2>3. QED
    BY <2>1, <2>2
<1>6. FilesWhole'
  BY DEF SaveInv, FilesWhole
<1>7. RecordMatchesFile'
  BY <1>3 DEF SaveInv, RecordMatchesFile, Unrecorded, Recorded, Readable, Man
<1>8. QED
  BY <1>4, <1>5, <1>6, <1>7 DEF SaveInv

(* A save, load or open that raises leaves the files as they are.          *)
LEMMA RaiseSaveInv ==
  ASSUME TypeInv, SaveInv, NEW p \in Procs, NEW kind \in {"save", "load", "open"},
         Raise(p, kind), pc[p] \notin WritingPCs
  PROVE  SaveInv'
<1>1. pc' = [pc EXCEPT ![p] = pc'[p]] /\ pc'[p] = "idle"
  BY DEF Raise, Finish, Goto, TypeInv, TypeOK, CallsOK
<1>2. fd' = fd /\ fd[p] = None
  BY DEF Raise, TypeInv, CallInv
<1>3. \A q \in Procs \ {p} : arg'[q] = arg[q] /\ val'[q] = val[q] /\ copy'[q] = copy[q]
  BY DEF Raise, Finish, TypeInv, TypeOK, CallsOK
<1>4. UNCHANGED <<file, tmp>>
      /\ interrupted' = IF Unrecorded(p) THEN interrupted \cup {arg[p]} ELSE interrupted
  BY DEF Raise, Abandon
<1>5. QED
  BY <1>1, <1>2, <1>3, <1>4, NotSaving DEF SavePCs, InitPCs

(* A step of the only saver p, given what it does to its own part.         *)
LEMMA OnlySaver ==
  ASSUME TypeInv, SaveInv, NEW p \in Procs, Saving(p) \/ NoSaver,
         \A q \in Procs \ {p} : pc'[q] = pc[q] /\ fd'[q] = fd[q],
         SaverInv(p)', FilesWhole', RecordMatchesFile'
  PROVE  SaveInv'
<1>1. \A q \in Procs \ {p} : pc[q] \notin SavePCs /\ fd[q] = None
  <2>1. CASE Saving(p)
    BY <2>1, OthersQuiet DEF SaveInv
  <2>2. CASE NoSaver
    BY <2>2 DEF NoSaver, TypeInv, CallInv, Saving, WritingPCs, SavePCs, InitPCs
  <2>3. QED
    BY <2>1, <2>2
<1>2. OneSaver'
  BY <1>1 DEF OneSaver, Saving
<1>3. \A q \in Procs \ {p} : SaverInv(q)'
  BY <1>1 DEF SaverInv, SavePCs, InitPCs
<1>4. QED
  BY <1>2, <1>3 DEF SaveInv

(* The only saver opens a temporary file that nobody shares.               *)
LEMMA OpenTmpAlone ==
  ASSUME TypeInv, SaveInv, NEW p \in Procs, Saving(p), pc[p] \notin WritingPCs,
         NEW path \in Paths, OpenTmp(p, path)
  PROVE  /\ fd'[p].at = "tmp" /\ ~fd'[p].shared
         /\ \A q \in Procs \ {p} : fd'[q] = fd[q]
         /\ file' = file
<1>1. \A q \in Procs : fd[q] = None
  BY OthersQuiet DEF SaveInv, TypeInv, CallInv
<1>2. QED
  BY <1>1 DEF OpenTmp

(* What the only saver writes goes to the temporary name, whole.           *)
LEMMA WriteTmpAlone ==
  ASSUME TypeInv, SaveInv, NEW p \in Procs, Saving(p), fd[p] # None,
         NEW content, WriteTmp(p, content)
  PROVE  /\ file' = file
         /\ tmp' = [tmp EXCEPT ![fd[p].path] = content]
         /\ fd' = [fd EXCEPT ![p] = None]
<1>1. fd[p].at = "tmp" /\ ~fd[p].shared
  BY DEF SaveInv, SaverInv
<1>2. QED
  BY <1>1 DEF WriteTmp

(* The only saver moves a file that nobody has open.                       *)
LEMMA ReplaceAlone ==
  ASSUME TypeInv, SaveInv, NEW p \in Procs, Saving(p), pc[p] \notin WritingPCs,
         NEW path \in Paths, Replace(path)
  PROVE  /\ file' = [file EXCEPT ![path] = tmp[path]]
         /\ \A q \in Procs : fd'[q] = fd[q] /\ fd[q] = None
<1>1. \A q \in Procs : fd[q] = None
  BY OthersQuiet DEF SaveInv, TypeInv, CallInv
<1>2. QED
  BY <1>1 DEF Replace

-----------------------------------------------------------------------------
(* The proof that a step keeps the invariant of one saver: one step per action. *)
LEMMA StepSaveInv ==
  ASSUME Overlap # "writers", TypeInv, SaveInv, [Next]_vars
  PROVE  SaveInv'
<1>1. ASSUME NEW p \in Procs, NEW b \in Bundles, Create(p, b)
      PROVE  SaveInv'
  <2>1. /\ pc' = [pc EXCEPT ![p] = pc'[p]] /\ pc'[p] \notin SavePCs
        /\ (fd' = fd /\ fd[p] = None) \/ fd' = [fd EXCEPT ![p] = None]
        /\ \A q \in Procs \ {p} : arg'[q] = arg[q] /\ val'[q] = val[q] /\ copy'[q] = copy[q]
        /\ UNCHANGED <<file, tmp>>
        /\ interrupted' = IF Unrecorded(p) THEN interrupted \cup {arg[p]} ELSE interrupted
    BY <1>1 DEF Create, ReadPCs, Finish, Abandon, Unrecorded, Goto, TypeInv, TypeOK,
       CallsOK, CallInv, WritingPCs, SavePCs, InitPCs
  <2>2. QED
    BY <2>1, NotSaving
<1>2. ASSUME NEW p \in Procs, BeginOpen(p)
      PROVE  SaveInv'
  <2>1. /\ pc' = [pc EXCEPT ![p] = pc'[p]] /\ pc'[p] \notin SavePCs
        /\ (fd' = fd /\ fd[p] = None) \/ fd' = [fd EXCEPT ![p] = None]
        /\ \A q \in Procs \ {p} : arg'[q] = arg[q] /\ val'[q] = val[q] /\ copy'[q] = copy[q]
        /\ UNCHANGED <<file, tmp>>
        /\ interrupted' = IF Unrecorded(p) THEN interrupted \cup {arg[p]} ELSE interrupted
    BY <1>2 DEF BeginOpen, Finish, Abandon, Unrecorded, Goto, TypeInv, TypeOK, CallsOK,
       CallInv, WritingPCs, SavePCs, InitPCs
  <2>2. QED
    BY <2>1, NotSaving
<1>3. ASSUME NEW p \in Procs, OpenVerify(p)
      PROVE  SaveInv'
  <2>1. CASE Readable /\ \A f \in MaterialFiles : material[f] = Man.material[f]
    <3>1. /\ pc' = [pc EXCEPT ![p] = pc'[p]] /\ pc'[p] \notin SavePCs
          /\ fd' = fd /\ fd[p] = None
          /\ \A q \in Procs \ {p} : arg'[q] = arg[q] /\ val'[q] = val[q] /\ copy'[q] = copy[q]
          /\ UNCHANGED <<file, tmp>>
          /\ interrupted' = IF Unrecorded(p) THEN interrupted \cup {arg[p]} ELSE interrupted
      BY <1>3, <2>1 DEF OpenVerify, Finish, Unrecorded, Goto, TypeInv, TypeOK, CallsOK,
         CallInv, WritingPCs, SavePCs, InitPCs
    <3>2. QED
      BY <3>1, NotSaving
  <2>2. CASE ~(Readable /\ \A f \in MaterialFiles : material[f] = Man.material[f])
    <3>1. Raise(p, "open") /\ pc[p] \notin WritingPCs
      BY <1>3, <2>2 DEF OpenVerify, WritingPCs
    <3>2. QED
      BY <3>1, RaiseSaveInv
  <2>3. QED
    BY <2>1, <2>2
<1>4. ASSUME NEW p \in Procs, OpenRestore(p)
      PROVE  SaveInv'
  <2>1. /\ pc' = [pc EXCEPT ![p] = pc'[p]] /\ pc'[p] \notin SavePCs
        /\ (fd' = fd /\ fd[p] = None) \/ fd' = [fd EXCEPT ![p] = None]
        /\ \A q \in Procs \ {p} : arg'[q] = arg[q] /\ val'[q] = val[q] /\ copy'[q] = copy[q]
        /\ UNCHANGED <<file, tmp>>
        /\ interrupted' = IF Unrecorded(p) THEN interrupted \cup {arg[p]} ELSE interrupted
    BY <1>4 DEF OpenRestore, Finish, Abandon, Unrecorded, Goto, TypeInv, TypeOK, CallsOK,
       CallInv, WritingPCs, SavePCs, InitPCs
  <2>2. QED
    BY <2>1, NotSaving
<1>5. ASSUME NEW p \in Procs, Crash(p)
      PROVE  SaveInv'
  <2>1. /\ pc' = [pc EXCEPT ![p] = pc'[p]] /\ pc'[p] \notin SavePCs
        /\ (fd' = fd /\ fd[p] = None) \/ fd' = [fd EXCEPT ![p] = None]
        /\ \A q \in Procs \ {p} : arg'[q] = arg[q] /\ val'[q] = val[q] /\ copy'[q] = copy[q]
        /\ UNCHANGED <<file, tmp>>
        /\ interrupted' = IF Unrecorded(p) THEN interrupted \cup {arg[p]} ELSE interrupted
    BY <1>5 DEF Crash, Finish, Abandon, Unrecorded, Goto, TypeInv, TypeOK, CallsOK,
       CallInv, WritingPCs, SavePCs, InitPCs
  <2>2. QED
    BY <2>1, NotSaving
<1>6. ASSUME NEW p \in Procs, NEW n \in Names, NEW v \in Values, BeginSave(p, n, v)
      PROVE  SaveInv'
  <2>1. /\ Saving(p) \/ NoSaver
        /\ \A q \in Procs \ {p} : pc'[q] = pc[q] /\ fd'[q] = fd[q]
    BY <1>6 DEF BeginSave, Goto, Saving, SavePCs, InitPCs, SaveMayStart, AllIdle, NoSaver,
       TypeInv, TypeOK, CallsOK
  <2>2. SaverInv(p)'
    BY <1>6 DEF BeginSave, Goto, SaveInv, SaverInv, InitPCs, Man, TypeInv, TypeOK, CallsOK,
       CallInv, WritingPCs
  <2>3. FilesWhole' /\ RecordMatchesFile'
    BY <1>6 DEF BeginSave, Goto, SaveInv, FilesWhole, RecordMatchesFile, Unrecorded,
       Recorded, Readable, Man, TypeInv, TypeOK, CallsOK
  <2>4. QED
    BY <2>1, <2>2, <2>3, OnlySaver
<1>7. ASSUME NEW p \in Procs, CheckManifest(p)
      PROVE  SaveInv'
  <2>1. /\ Saving(p) \/ NoSaver
        /\ \A q \in Procs \ {p} : pc'[q] = pc[q] /\ fd'[q] = fd[q]
    BY <1>7 DEF CheckManifest, Goto, Saving, SavePCs, InitPCs, SaveMayStart, AllIdle,
       NoSaver, TypeInv, TypeOK, CallsOK
  <2>2. SaverInv(p)'
    BY <1>7 DEF CheckManifest, Goto, SaveInv, SaverInv, InitPCs, Man, TypeInv, TypeOK,
       CallsOK, CallInv, WritingPCs
  <2>3. FilesWhole' /\ RecordMatchesFile'
    BY <1>7 DEF CheckManifest, Goto, SaveInv, FilesWhole, RecordMatchesFile, Unrecorded,
       Recorded, Readable, Man, TypeInv, TypeOK, CallsOK
  <2>4. QED
    BY <2>1, <2>2, <2>3, OnlySaver
<1>8. ASSUME NEW p \in Procs, MakeDirectory(p)
      PROVE  SaveInv'
  <2>1. CASE EmptyDirectory
    <3>1. /\ Saving(p) \/ NoSaver
          /\ \A q \in Procs \ {p} : pc'[q] = pc[q] /\ fd'[q] = fd[q]
      BY <1>8, <2>1 DEF MakeDirectory, EmptyDirectory, Paths, Goto, Saving, SavePCs,
         InitPCs, SaveMayStart, AllIdle, NoSaver, TypeInv, TypeOK, CallsOK
    <3>2. SaverInv(p)'
      BY <1>8, <2>1 DEF MakeDirectory, EmptyDirectory, Paths, Goto, SaveInv, SaverInv,
         InitPCs, Man, TypeInv, TypeOK, CallsOK, CallInv, WritingPCs
    <3>3. FilesWhole' /\ RecordMatchesFile'
      BY <1>8, <2>1 DEF MakeDirectory, EmptyDirectory, Paths, Goto, SaveInv, FilesWhole,
         RecordMatchesFile, Unrecorded, Recorded, Readable, Man, TypeInv, TypeOK, CallsOK
    <3>4. QED
      BY <3>1, <3>2, <3>3, OnlySaver
  <2>2. CASE ~(EmptyDirectory)
    <3>1. Raise(p, "save") /\ pc[p] \notin WritingPCs
      BY <1>8, <2>2 DEF MakeDirectory, WritingPCs
    <3>2. QED
      BY <3>1, RaiseSaveInv
  <2>3. QED
    BY <2>1, <2>2
<1>9. ASSUME NEW p \in Procs, NEW f \in MaterialFiles, ExportMaterial(p, f)
      PROVE  SaveInv'
  <2>1. /\ Saving(p) \/ NoSaver
        /\ \A q \in Procs \ {p} : pc'[q] = pc[q] /\ fd'[q] = fd[q]
    BY <1>9 DEF ExportMaterial, Goto, Saving, SavePCs, InitPCs, SaveMayStart, AllIdle,
       NoSaver, TypeInv, TypeOK, CallsOK
  <2>2. SaverInv(p)'
    BY <1>9 DEF ExportMaterial, Goto, SaveInv, SaverInv, InitPCs, Man, TypeInv, TypeOK,
       CallsOK, CallInv, WritingPCs
  <2>3. FilesWhole' /\ RecordMatchesFile'
    BY <1>9 DEF ExportMaterial, Goto, SaveInv, FilesWhole, RecordMatchesFile, Unrecorded,
       Recorded, Readable, Man, TypeInv, TypeOK, CallsOK
  <2>4. QED
    BY <2>1, <2>2, <2>3, OnlySaver
<1>10. ASSUME NEW p \in Procs, DescribeMaterial(p)
      PROVE  SaveInv'
  <2>1. /\ Saving(p) \/ NoSaver
        /\ \A q \in Procs \ {p} : pc'[q] = pc[q] /\ fd'[q] = fd[q]
    BY <1>10 DEF DescribeMaterial, Goto, Saving, SavePCs, InitPCs, SaveMayStart, AllIdle,
       NoSaver, TypeInv, TypeOK, CallsOK
  <2>2. SaverInv(p)'
    BY <1>10 DEF DescribeMaterial, Goto, SaveInv, SaverInv, InitPCs, Man, TypeInv, TypeOK,
       CallsOK, CallInv, WritingPCs
  <2>3. FilesWhole' /\ RecordMatchesFile'
    BY <1>10 DEF DescribeMaterial, Goto, SaveInv, FilesWhole, RecordMatchesFile,
       Unrecorded, Recorded, Readable, Man, TypeInv, TypeOK, CallsOK
  <2>4. QED
    BY <2>1, <2>2, <2>3, OnlySaver
<1>11. ASSUME NEW p \in Procs, OpenManifest(p)
      PROVE  SaveInv'
  <2>1. Saving(p) /\ pc[p] \notin WritingPCs /\ Manifest \in Paths /\ OpenTmp(p, Manifest)
    BY <1>11 DEF OpenManifest, Saving, SavePCs, InitPCs, WritingPCs, Paths, TypeInv, CallInv
  <2>2. /\ fd'[p].at = "tmp" /\ ~fd'[p].shared
        /\ \A q \in Procs \ {p} : fd'[q] = fd[q]
        /\ file' = file
    BY <2>1, OpenTmpAlone
  <2>3. \A q \in Procs \ {p} : pc'[q] = pc[q]
    BY <1>11 DEF OpenManifest, Goto, TypeInv, TypeOK, CallsOK
  <2>4. SaverInv(p)'
    BY <1>11, <2>2 DEF OpenManifest, Goto, SaveInv, SaverInv, InitPCs, Man, TypeInv,
       TypeOK, CallsOK
  <2>5. FilesWhole' /\ RecordMatchesFile'
    BY <1>11, <2>2 DEF OpenManifest, Goto, SaveInv, FilesWhole, RecordMatchesFile,
       Unrecorded, Recorded, Readable, Man, TypeInv, TypeOK, CallsOK
  <2>6. QED
    BY <2>1, <2>2, <2>3, <2>4, <2>5, OnlySaver
<1>12. ASSUME NEW p \in Procs, WriteManifest(p)
      PROVE  SaveInv'
  <2>1. Saving(p) /\ fd[p] # None /\ fd[p].path = Manifest /\ WriteTmp(p, copy[p])
    BY <1>12 DEF WriteManifest, Saving, SavePCs, InitPCs, WritingPCs, TypeInv, CallInv
  <2>2. /\ file' = file
        /\ tmp' = [tmp EXCEPT ![Manifest] = copy[p]]
        /\ fd' = [fd EXCEPT ![p] = None]
    BY <2>1, WriteTmpAlone
  <2>3. Manifest \in Paths
    BY <2>1 DEF Saving, TypeInv, CallInv, Paths
  <2>4. \A q \in Procs \ {p} : pc'[q] = pc[q] /\ fd'[q] = fd[q]
    BY <1>12, <2>2 DEF WriteManifest, Goto, TypeInv, TypeOK, CallsOK, FilesOK
  <2>5. SaverInv(p)'
    BY <1>12, <2>2, <2>3 DEF WriteManifest, Goto, SaveInv, SaverInv, InitPCs, Man, TypeInv,
       TypeOK, CallsOK, FilesOK
  <2>6. FilesWhole' /\ RecordMatchesFile'
    BY <1>12, <2>2 DEF WriteManifest, Goto, SaveInv, FilesWhole, RecordMatchesFile,
       Unrecorded, Recorded, Readable, Man, TypeInv, TypeOK, CallsOK
  <2>7. QED
    BY <2>1, <2>4, <2>5, <2>6, OnlySaver
<1>13. ASSUME NEW p \in Procs, ReplaceInitialManifest(p)
      PROVE  SaveInv'
  <2>1. CASE tmp[Manifest] # None
    <3>1. Saving(p) /\ pc[p] \notin WritingPCs /\ Manifest \in Paths /\ Replace(Manifest)
      BY <1>13, <2>1 DEF ReplaceInitialManifest, Saving, SavePCs, InitPCs, WritingPCs,
         Paths, TypeInv, CallInv
    <3>2. /\ file' = [file EXCEPT ![Manifest] = tmp[Manifest]]
          /\ \A q \in Procs : fd'[q] = fd[q] /\ fd[q] = None
      BY <3>1, ReplaceAlone
    <3>3. \A q \in Procs \ {p} : pc'[q] = pc[q]
      BY <1>13, <2>1 DEF ReplaceInitialManifest, Goto, TypeInv, TypeOK, CallsOK
    <3>4. tmp[Manifest] = copy[p] /\ copy[p] \in ManifestT /\ \A n \in Names : file'[n] = None
      BY <1>13, <3>2 DEF ReplaceInitialManifest, SaveInv, SaverInv, InitPCs, TypeInv,
         CallInv, CopyPCs, TypeOK, FilesOK, Paths
    <3>5. SaverInv(p)'
      BY <1>13, <2>1, <3>2 DEF ReplaceInitialManifest, Goto, SaverInv, InitPCs, TypeInv,
         TypeOK, CallsOK
    <3>6. FilesWhole'
      BY <3>2, <3>4 DEF SaveInv, FilesWhole, TypeInv, TypeOK, FilesOK
    <3>7. RecordMatchesFile'
      BY <3>4 DEF RecordMatchesFile
    <3>8. QED
      BY <3>1, <3>2, <3>3, <3>5, <3>6, <3>7, OnlySaver
  <2>2. CASE tmp[Manifest] = None
    <3>1. Raise(p, "save") /\ pc[p] \notin WritingPCs
      BY <1>13, <2>2 DEF ReplaceInitialManifest, WritingPCs
    <3>2. QED
      BY <3>1, RaiseSaveInv
  <2>3. QED
    BY <2>1, <2>2
<1>14. ASSUME NEW p \in Procs, ReadManifest(p)
      PROVE  SaveInv'
  <2>1. CASE ValidFor(p)
    <3>1. /\ Saving(p) \/ NoSaver
          /\ \A q \in Procs \ {p} : pc'[q] = pc[q] /\ fd'[q] = fd[q]
      BY <1>14, <2>1 DEF ReadManifest, ValidFor, Readable, Goto, Saving, SavePCs, InitPCs,
         SaveMayStart, AllIdle, NoSaver, TypeInv, TypeOK, CallsOK
    <3>2. SaverInv(p)'
      BY <1>14, <2>1 DEF ReadManifest, ValidFor, Readable, Goto, SaveInv, SaverInv,
         InitPCs, Man, TypeInv, TypeOK, CallsOK, CallInv, WritingPCs
    <3>3. FilesWhole' /\ RecordMatchesFile'
      BY <1>14, <2>1 DEF ReadManifest, ValidFor, Readable, Goto, SaveInv, FilesWhole,
         RecordMatchesFile, Unrecorded, Recorded, Readable, Man, TypeInv, TypeOK, CallsOK
    <3>4. QED
      BY <3>1, <3>2, <3>3, OnlySaver
  <2>2. CASE ~(ValidFor(p))
    <3>1. Raise(p, "save") /\ pc[p] \notin WritingPCs
      BY <1>14, <2>2 DEF ReadManifest, WritingPCs
    <3>2. QED
      BY <3>1, RaiseSaveInv
  <2>3. QED
    BY <2>1, <2>2
<1>15. ASSUME NEW p \in Procs, OpenCiphertext(p)
      PROVE  SaveInv'
  <2>1. Saving(p) /\ pc[p] \notin WritingPCs /\ arg[p] \in Paths /\ OpenTmp(p, arg[p])
    BY <1>15 DEF OpenCiphertext, Saving, SavePCs, InitPCs, WritingPCs, Paths, TypeInv,
       CallInv
  <2>2. /\ fd'[p].at = "tmp" /\ ~fd'[p].shared
        /\ \A q \in Procs \ {p} : fd'[q] = fd[q]
        /\ file' = file
    BY <2>1, OpenTmpAlone
  <2>3. \A q \in Procs \ {p} : pc'[q] = pc[q]
    BY <1>15 DEF OpenCiphertext, Goto, TypeInv, TypeOK, CallsOK
  <2>4. SaverInv(p)'
    BY <1>15, <2>2 DEF OpenCiphertext, Goto, SaveInv, SaverInv, InitPCs, Man, TypeInv,
       TypeOK, CallsOK
  <2>5. FilesWhole' /\ RecordMatchesFile'
    BY <1>15, <2>2 DEF OpenCiphertext, Goto, SaveInv, FilesWhole, RecordMatchesFile,
       Unrecorded, Recorded, Readable, Man, TypeInv, TypeOK, CallsOK
  <2>6. QED
    BY <2>1, <2>2, <2>3, <2>4, <2>5, OnlySaver
<1>16. ASSUME NEW p \in Procs, WriteCiphertext(p)
      PROVE  SaveInv'
  <2>1. Saving(p) /\ fd[p] # None /\ fd[p].path = arg[p] /\ WriteTmp(p, val[p])
    BY <1>16 DEF WriteCiphertext, Saving, SavePCs, InitPCs, WritingPCs, TypeInv, CallInv
  <2>2. /\ file' = file
        /\ tmp' = [tmp EXCEPT ![arg[p]] = val[p]]
        /\ fd' = [fd EXCEPT ![p] = None]
    BY <2>1, WriteTmpAlone
  <2>3. arg[p] \in Paths
    BY <2>1 DEF Saving, TypeInv, CallInv, Paths
  <2>4. \A q \in Procs \ {p} : pc'[q] = pc[q] /\ fd'[q] = fd[q]
    BY <1>16, <2>2 DEF WriteCiphertext, Goto, TypeInv, TypeOK, CallsOK, FilesOK
  <2>5. SaverInv(p)'
    BY <1>16, <2>2, <2>3 DEF WriteCiphertext, Goto, SaveInv, SaverInv, InitPCs, Man,
       TypeInv, TypeOK, CallsOK, FilesOK
  <2>6. FilesWhole' /\ RecordMatchesFile'
    BY <1>16, <2>2 DEF WriteCiphertext, Goto, SaveInv, FilesWhole, RecordMatchesFile,
       Unrecorded, Recorded, Readable, Man, TypeInv, TypeOK, CallsOK
  <2>7. QED
    BY <2>1, <2>4, <2>5, <2>6, OnlySaver
<1>17. ASSUME NEW p \in Procs, ReplaceCiphertext(p)
      PROVE  SaveInv'
  <2>1. CASE tmp[arg[p]] # None
    <3>1. Saving(p) /\ pc[p] \notin WritingPCs /\ arg[p] \in Paths /\ Replace(arg[p])
      BY <1>17, <2>1 DEF ReplaceCiphertext, Saving, SavePCs, InitPCs, WritingPCs, Paths,
         TypeInv, CallInv
    <3>2. /\ file' = [file EXCEPT ![arg[p]] = tmp[arg[p]]]
          /\ \A q \in Procs : fd'[q] = fd[q] /\ fd[q] = None
      BY <3>1, ReplaceAlone
    <3>3. \A q \in Procs \ {p} : pc'[q] = pc[q]
      BY <1>17, <2>1 DEF ReplaceCiphertext, Goto, TypeInv, TypeOK, CallsOK
    <3>4. tmp[arg[p]] = val[p] /\ val[p] \in Values /\ arg[p] \in Names /\ Man' = Man
      <4>1. pc[p] = "replace" /\ tmp[arg[p]] = val[p]
        BY <1>17 DEF ReplaceCiphertext, SaveInv, SaverInv
      <4>2. arg[p] \in Names /\ val[p] \in Values
        BY <3>1, <4>1 DEF TypeInv, CallInv, Saving
      <4>3. Man' = Man
        BY <3>2, <4>2 DEF Man, TypeInv, TypeOK, FilesOK, Paths
      <4>4. QED
        BY <4>1, <4>2, <4>3
    <3>5. SaverInv(p)'
      BY <1>17, <2>1, <3>2, <3>4 DEF ReplaceCiphertext, Goto, SaveInv, SaverInv, InitPCs,
         TypeInv, TypeOK, CallsOK
    <3>6. FilesWhole'
      BY <3>2, <3>4 DEF SaveInv, FilesWhole, TypeInv, TypeOK, FilesOK
    <3>7. RecordMatchesFile'
      <4>1. pc'[p] = "hash" /\ arg' = arg /\ interrupted' = interrupted
        BY <1>17, <2>1 DEF ReplaceCiphertext, Goto, TypeInv, TypeOK, CallsOK
      <4>2. \A n \in Names \ {arg[p]} : file'[n] = file[n]
        BY <3>2, <3>4 DEF TypeInv, TypeOK, FilesOK, Paths
      <4>3. pc[p] = "replace"
        BY <1>17 DEF ReplaceCiphertext
      <4>4. QED
        BY <3>3, <3>4, <4>1, <4>2, <4>3 DEF SaveInv, RecordMatchesFile, Unrecorded,
           Recorded, Readable
    <3>8. QED
      BY <3>1, <3>2, <3>3, <3>5, <3>6, <3>7, OnlySaver
  <2>2. CASE tmp[arg[p]] = None
    <3>1. Raise(p, "save") /\ pc[p] \notin WritingPCs
      BY <1>17, <2>2 DEF ReplaceCiphertext, WritingPCs
    <3>2. QED
      BY <3>1, RaiseSaveInv
  <2>3. QED
    BY <2>1, <2>2
<1>18. ASSUME NEW p \in Procs, RecordCiphertext(p)
      PROVE  SaveInv'
  <2>1. Saving(p) /\ \A q \in Procs \ {p} : pc'[q] = pc[q] /\ fd'[q] = fd[q]
    BY <1>18 DEF RecordCiphertext, Goto, Saving, SavePCs, TypeInv, TypeOK, CallsOK
  <2>2. /\ copy[p] = Man /\ copy[p] \in ManifestT /\ file[arg[p]] # None
        /\ fd[p] = None
    BY <1>18 DEF RecordCiphertext, SaveInv, SaverInv, TypeInv, CallInv, CopyPCs, WritingPCs
  <2>3. copy'[p] = [copy[p] EXCEPT !.index[arg[p]] = [meta |-> val[p], sha |-> file[arg[p]]]]
    BY <1>18 DEF RecordCiphertext, TypeInv, TypeOK, CallsOK
  <2>4. pc'[p] = "indexOpen" /\ UNCHANGED <<file, tmp, fd, arg, val, interrupted>>
    BY <1>18 DEF RecordCiphertext, Goto, TypeInv, TypeOK, CallsOK
  <2>5. SaverInv(p)'
    BY <2>2, <2>3, <2>4 DEF SaverInv, InitPCs, Man
  <2>6. FilesWhole' /\ RecordMatchesFile'
    BY <1>18, <2>1, <2>4 DEF RecordCiphertext, SaveInv, FilesWhole, RecordMatchesFile,
       Unrecorded, Recorded, Readable, Man
  <2>7. QED
    BY <2>1, <2>5, <2>6, OnlySaver
<1>19. ASSUME NEW p \in Procs, ReplaceIndex(p)
      PROVE  SaveInv'
  <2>1. CASE tmp[Manifest] # None
    <3>1. Saving(p) /\ pc[p] \notin WritingPCs /\ Manifest \in Paths /\ Replace(Manifest)
      BY <1>19, <2>1 DEF ReplaceIndex, Saving, SavePCs, InitPCs, WritingPCs, Paths,
         TypeInv, CallInv
    <3>2. /\ file' = [file EXCEPT ![Manifest] = tmp[Manifest]]
          /\ \A q \in Procs : fd'[q] = fd[q] /\ fd[q] = None
      BY <3>1, ReplaceAlone
    <3>3. \A q \in Procs \ {p} : pc'[q] = pc[q]
      BY <1>19, <2>1 DEF ReplaceIndex, Finish, Goto, TypeInv, TypeOK, CallsOK
    <3>4. /\ Man \in ManifestT /\ file[arg[p]] # None /\ arg[p] \in Names
          /\ Man' = [Man EXCEPT !.index[arg[p]] = [meta |-> val[p], sha |-> file[arg[p]]]]
          /\ Man' \in ManifestT
          /\ \A n \in Names : file'[n] = file[n]
      <4>1. pc[p] = "indexReplace" /\ copy[p] \in ManifestT /\ arg[p] \in Names
        BY <1>19, <3>1 DEF ReplaceIndex, TypeInv, CallInv, CopyPCs
      <4>2. /\ Man \in ManifestT /\ file[arg[p]] # None
            /\ copy[p] = [Man EXCEPT !.index[arg[p]] = [meta |-> val[p], sha |-> file[arg[p]]]]
            /\ tmp[Manifest] = copy[p]
        BY <4>1 DEF SaveInv, SaverInv
      <4>3. file \in [Paths -> Values \cup ManifestT \cup {Torn, None}] /\ Manifest \notin Names
        BY ConstantsAssumption DEF TypeInv, TypeOK, FilesOK
      <4>4. Man' = copy[p]
        BY <3>2, <4>2, <4>3 DEF Man, Paths
      <4>5. \A n \in Names : file'[n] = file[n]
        BY <3>2, <4>3 DEF Paths
      <4>6. QED
        BY <4>1, <4>2, <4>4, <4>5
    <3>5. SaverInv(p)'
      <4>1. pc'[p] = "idle" /\ fd'[p] = None
        BY <1>19, <2>1, <3>2 DEF ReplaceIndex, Finish, Goto, TypeInv, TypeOK, CallsOK
      <4>2. QED
        BY <4>1 DEF SaverInv, InitPCs
    <3>6. FilesWhole'
      BY <3>2, <3>4 DEF SaveInv, FilesWhole, TypeInv, TypeOK, FilesOK, Paths, Man
    <3>7. RecordMatchesFile'
      <4>1. ASSUME NEW n \in Names, n # arg[p], file'[n] # None, n \notin interrupted
            PROVE  Recorded(n) /\ Man.index[n].sha = file[n]
        <5>1. ~(\E q \in Procs : arg[q] = n /\ Unrecorded(q))
          BY <4>1, <3>1, OthersQuiet DEF SaveInv, Unrecorded, SavePCs
        <5>2. QED
          BY <3>4, <4>1, <5>1 DEF SaveInv, RecordMatchesFile
      <4>2. ASSUME NEW n \in Names, n # arg[p], file'[n] # None, n \notin interrupted
            PROVE  Recorded(n)' /\ Man'.index[n].sha = file'[n]
        BY <3>4, <4>1, <4>2 DEF Recorded, Readable, ManifestT
      <4>3. ASSUME NEW n \in Names, n = arg[p]
            PROVE  Recorded(n)' /\ Man'.index[n].sha = file'[n]
        <5>1. Man'.index[n] = [meta |-> val[p], sha |-> file[n]]
          BY <3>4, <4>3 DEF ManifestT
        <5>2. Man'.index[n] \in Record
          <6>1. val[p] \in Values /\ file[n] \in Values \cup {Torn}
            BY <3>1, <3>4, <4>3 DEF TypeInv, CallInv, TypeOK, FilesOK, ContentOf, Paths
          <6>2. QED
            BY <5>1, <6>1 DEF Record
        <5>3. Man'.index[n] # None /\ Man' \notin {None, Torn}
          BY <3>4, <5>2, NoneIsNoRecord
        <5>4. QED
          BY <3>4, <5>1, <5>3 DEF Recorded, Readable
      <4>4. interrupted' = interrupted \ {arg[p]}
        BY <1>19, <2>1 DEF ReplaceIndex
      <4>5. ASSUME NEW n \in Names, file'[n] # None, n \notin interrupted'
            PROVE  Recorded(n)' /\ Man'.index[n].sha = file'[n]
        BY <4>2, <4>3, <4>4, <4>5
      <4>6. QED
        BY <4>5 DEF RecordMatchesFile, Man
    <3>8. QED
      BY <3>1, <3>2, <3>3, <3>5, <3>6, <3>7, OnlySaver
  <2>2. CASE tmp[Manifest] = None
    <3>1. Raise(p, "save") /\ pc[p] \notin WritingPCs
      BY <1>19, <2>2 DEF ReplaceIndex, WritingPCs
    <3>2. QED
      BY <3>1, RaiseSaveInv
  <2>3. QED
    BY <2>1, <2>2
<1>20. ASSUME NEW p \in Procs, NEW n \in Names, BeginLoad(p, n)
      PROVE  SaveInv'
  <2>1. /\ pc' = [pc EXCEPT ![p] = pc'[p]] /\ pc'[p] \notin SavePCs
        /\ (fd' = fd /\ fd[p] = None) \/ fd' = [fd EXCEPT ![p] = None]
        /\ \A q \in Procs \ {p} : arg'[q] = arg[q] /\ val'[q] = val[q] /\ copy'[q] = copy[q]
        /\ UNCHANGED <<file, tmp>>
        /\ interrupted' = IF Unrecorded(p) THEN interrupted \cup {arg[p]} ELSE interrupted
    BY <1>20 DEF BeginLoad, Finish, Abandon, Unrecorded, Goto, TypeInv, TypeOK, CallsOK,
       CallInv, WritingPCs, SavePCs, InitPCs
  <2>2. QED
    BY <2>1, NotSaving
<1>21. ASSUME NEW p \in Procs, LookupRecord(p)
      PROVE  SaveInv'
  <2>1. CASE ValidFor(p) /\ Recorded(arg[p])
    <3>1. /\ pc' = [pc EXCEPT ![p] = pc'[p]] /\ pc'[p] \notin SavePCs
          /\ fd' = fd /\ fd[p] = None
          /\ \A q \in Procs \ {p} : arg'[q] = arg[q] /\ val'[q] = val[q] /\ copy'[q] = copy[q]
          /\ UNCHANGED <<file, tmp>>
          /\ interrupted' = IF Unrecorded(p) THEN interrupted \cup {arg[p]} ELSE interrupted
      BY <1>21, <2>1 DEF LookupRecord, Finish, Unrecorded, Goto, TypeInv, TypeOK, CallsOK,
         CallInv, WritingPCs, SavePCs, InitPCs
    <3>2. QED
      BY <3>1, NotSaving
  <2>2. CASE ~(ValidFor(p) /\ Recorded(arg[p]))
    <3>1. Raise(p, "load") /\ pc[p] \notin WritingPCs
      BY <1>21, <2>2 DEF LookupRecord, WritingPCs
    <3>2. QED
      BY <3>1, RaiseSaveInv
  <2>3. QED
    BY <2>1, <2>2
<1>22. ASSUME NEW p \in Procs, VerifyChecksum(p)
      PROVE  SaveInv'
  <2>1. CASE file[arg[p]] = copy[p].index[arg[p]].sha
    <3>1. /\ pc' = [pc EXCEPT ![p] = pc'[p]] /\ pc'[p] \notin SavePCs
          /\ fd' = fd /\ fd[p] = None
          /\ \A q \in Procs \ {p} : arg'[q] = arg[q] /\ val'[q] = val[q] /\ copy'[q] = copy[q]
          /\ UNCHANGED <<file, tmp>>
          /\ interrupted' = IF Unrecorded(p) THEN interrupted \cup {arg[p]} ELSE interrupted
      BY <1>22, <2>1 DEF VerifyChecksum, Finish, Unrecorded, Goto, TypeInv, TypeOK,
         CallsOK, CallInv, WritingPCs, SavePCs, InitPCs
    <3>2. QED
      BY <3>1, NotSaving
  <2>2. CASE ~(file[arg[p]] = copy[p].index[arg[p]].sha)
    <3>1. Raise(p, "load") /\ pc[p] \notin WritingPCs
      BY <1>22, <2>2 DEF VerifyChecksum, WritingPCs
    <3>2. QED
      BY <3>1, RaiseSaveInv
  <2>3. QED
    BY <2>1, <2>2
<1>23. ASSUME NEW p \in Procs, Deserialize(p)
      PROVE  SaveInv'
  <2>1. CASE file[arg[p]] \in Values
    <3>1. /\ pc' = [pc EXCEPT ![p] = pc'[p]] /\ pc'[p] \notin SavePCs
          /\ fd' = fd /\ fd[p] = None
          /\ \A q \in Procs \ {p} : arg'[q] = arg[q] /\ val'[q] = val[q] /\ copy'[q] = copy[q]
          /\ UNCHANGED <<file, tmp>>
          /\ interrupted' = IF Unrecorded(p) THEN interrupted \cup {arg[p]} ELSE interrupted
      BY <1>23, <2>1 DEF Deserialize, Finish, Unrecorded, Goto, TypeInv, TypeOK, CallsOK,
         CallInv, WritingPCs, SavePCs, InitPCs
    <3>2. QED
      BY <3>1, NotSaving
  <2>2. CASE ~(file[arg[p]] \in Values)
    <3>1. Raise(p, "load") /\ pc[p] \notin WritingPCs
      BY <1>23, <2>2 DEF Deserialize, WritingPCs
    <3>2. QED
      BY <3>1, RaiseSaveInv
  <2>3. QED
    BY <2>1, <2>2
<1>24. CASE UNCHANGED vars
  BY <1>24 DEF vars, SaveInv, OneSaver, SaverInv, FilesWhole, RecordMatchesFile,
     Unrecorded, Recorded, Readable, Man, Saving
<1>25. QED
  BY <1>1, <1>2, <1>3, <1>4, <1>5, <1>6, <1>7, <1>8, <1>9, <1>10, <1>11, <1>12, <1>13,
     <1>14, <1>15, <1>16, <1>17, <1>18, <1>19, <1>20, <1>21, <1>22, <1>23, <1>24 DEF Next,
     SaveStep, ReadStep

-----------------------------------------------------------------------------
\* However the one saver, the readers and the crashes interleave, manifest.json
\* is whole whenever it exists.
THEOREM ManifestIsWhole == Overlap # "writers" => (Spec => []ManifestWhole)
<1> SUFFICES ASSUME Overlap # "writers"
             PROVE  Spec => []ManifestWhole
  OBVIOUS
<1>1. Init => TypeInv /\ SaveInv
  BY InitTypeInv, InitSaveInv
<1>2. TypeInv /\ SaveInv /\ [Next]_vars => (TypeInv /\ SaveInv)'
  BY StepTypeInv, StepSaveInv
<1>3. SaveInv => ManifestWhole
  BY DEF SaveInv, FilesWhole, ManifestWhole, Man, Paths
<1>4. QED
  BY <1>1, <1>2, <1>3, PTL DEF Spec

\* Every ciphertext file matches its record unless the save that put it there
\* is on its way to the manifest or died on that way.
THEOREM FilesMatchRecords == Overlap # "writers" => (Spec => []RecordMatchesFile)
<1> SUFFICES ASSUME Overlap # "writers"
             PROVE  Spec => []RecordMatchesFile
  OBVIOUS
<1>1. Init => TypeInv /\ SaveInv
  BY InitTypeInv, InitSaveInv
<1>2. TypeInv /\ SaveInv /\ [Next]_vars => (TypeInv /\ SaveInv)'
  BY StepTypeInv, StepSaveInv
<1>3. SaveInv => RecordMatchesFile
  BY DEF SaveInv
<1>4. QED
  BY <1>1, <1>2, <1>3, PTL DEF Spec

-----------------------------------------------------------------------------
(* What the workspace is for: the keys of its sessions, the saves it       *)
(* refuses, what its loads return, and that it implements the map of       *)
(* artifacts of ArtifactStore.                                             *)

(* The actions of one process: a step of Next is one of some process.      *)
StepOf(p) ==
  \/ \E b \in Bundles : Create(p, b)
  \/ BeginOpen(p)
  \/ \E n \in Names, v \in Values : BeginSave(p, n, v)
  \/ \E n \in Names : BeginLoad(p, n)
  \/ SaveStep(p)
  \/ ReadStep(p)
  \/ Crash(p)

(* A step of p leaves the calls and the sessions of the others alone.      *)
Others(p) ==
  \A q \in Procs \ {p} :
    /\ pc'[q] = pc[q] /\ arg'[q] = arg[q] /\ val'[q] = val[q] /\ copy'[q] = copy[q]
    /\ todo'[q] = todo[q] /\ sess'[q] = sess[q] /\ out'[q] = out[q]

LEMMA OthersKept ==
  ASSUME TypeInv, NEW p \in Procs, StepOf(p)
  PROVE  Others(p)
<1> USE DEF Others, TypeInv, TypeOK, CallsOK, Goto, Finish, Raise
<1>1. CASE (\E b \in Bundles : Create(p, b)) \/ BeginOpen(p)
             \/ (\E n \in Names, v \in Values : BeginSave(p, n, v))
             \/ (\E n \in Names : BeginLoad(p, n)) \/ Crash(p)
  BY <1>1 DEF Create, BeginOpen, BeginSave, BeginLoad, Crash
<1>2. CASE ReadStep(p)
  BY <1>2 DEF ReadStep, OpenVerify, OpenRestore, LookupRecord, VerifyChecksum, Deserialize
<1>3. CASE CheckManifest(p) \/ MakeDirectory(p) \/ DescribeMaterial(p)
             \/ \E f \in MaterialFiles : ExportMaterial(p, f)
  BY <1>3 DEF CheckManifest, MakeDirectory, DescribeMaterial, ExportMaterial
<1>4. CASE OpenManifest(p) \/ WriteManifest(p) \/ OpenCiphertext(p) \/ WriteCiphertext(p)
  BY <1>4 DEF OpenManifest, WriteManifest, OpenCiphertext, WriteCiphertext
<1>5. CASE ReplaceInitialManifest(p) \/ ReadManifest(p) \/ ReplaceCiphertext(p)
             \/ RecordCiphertext(p) \/ ReplaceIndex(p)
  BY <1>5 DEF ReplaceInitialManifest, ReadManifest, ReplaceCiphertext, RecordCiphertext,
     ReplaceIndex
<1> QED BY <1>1, <1>2, <1>3, <1>4, <1>5 DEF StepOf, SaveStep

-----------------------------------------------------------------------------
(* What the steps of the only saver do to the files.                       *)

(* Opening and writing touch temporary names only.                         *)
LEMMA TargetsStay ==
  ASSUME TypeInv, SaveInv, NEW p \in Procs,
         OpenManifest(p) \/ WriteManifest(p) \/ OpenCiphertext(p) \/ WriteCiphertext(p)
  PROVE  file' = file
<1>1. CASE OpenManifest(p)
  BY <1>1, OpenTmpAlone DEF OpenManifest, Saving, SavePCs, InitPCs, WritingPCs, Paths,
     TypeInv, CallInv
<1>2. CASE WriteManifest(p)
  BY <1>2, WriteTmpAlone DEF WriteManifest, Saving, SavePCs, InitPCs, WritingPCs, TypeInv,
     CallInv
<1>3. CASE OpenCiphertext(p)
  BY <1>3, OpenTmpAlone DEF OpenCiphertext, Saving, SavePCs, InitPCs, WritingPCs, Paths,
     TypeInv, CallInv
<1>4. CASE WriteCiphertext(p)
  BY <1>4, WriteTmpAlone DEF WriteCiphertext, Saving, SavePCs, InitPCs, WritingPCs, TypeInv,
     CallInv
<1> QED BY <1>1, <1>2, <1>3, <1>4

(* The first manifest.json is the one the saver has in memory.             *)
LEMMA ManifestPlaced ==
  ASSUME TypeInv, SaveInv, NEW p \in Procs, ReplaceInitialManifest(p)
  PROVE  /\ pc[p] = "initReplace" /\ pc' = [pc EXCEPT ![p] = "read"]
         /\ Saving(p) /\ copy[p] \in ManifestT /\ Man' = copy[p]
         /\ \A n \in Names : file'[n] = file[n] /\ file[n] = None
         /\ UNCHANGED <<material, sess, minted, call, copy, todo, out, interrupted>>
<1>1. pc[p] = "initReplace" /\ Saving(p) /\ pc[p] \notin WritingPCs /\ Manifest \in Paths
  BY DEF ReplaceInitialManifest, Saving, SavePCs, InitPCs, WritingPCs, Paths
<1>2. tmp[Manifest] = copy[p] /\ copy[p] \in ManifestT /\ \A n \in Names : file[n] = None
  BY <1>1 DEF SaveInv, SaverInv, InitPCs, TypeInv, CallInv, CopyPCs
<1>3. Replace(Manifest) /\ Goto(p, "read")
      /\ UNCHANGED <<material, sess, minted, call, copy, todo, out, interrupted>>
  BY <1>2 DEF ReplaceInitialManifest
<1>4. file' = [file EXCEPT ![Manifest] = copy[p]]
  BY <1>1, <1>2, <1>3, ReplaceAlone
<1>5. Man' = copy[p] /\ \A n \in Names : file'[n] = file[n]
  BY <1>4 DEF Man, TypeInv, TypeOK, FilesOK, Paths
<1> QED BY <1>1, <1>2, <1>3, <1>5 DEF Goto

(* The ciphertext that is moved into place is the one that was given.      *)
LEMMA CiphertextPlaced ==
  ASSUME TypeInv, SaveInv, NEW p \in Procs, ReplaceCiphertext(p)
  PROVE  /\ pc[p] = "replace" /\ pc' = [pc EXCEPT ![p] = "hash"]
         /\ Saving(p) /\ arg[p] \in Names /\ val[p] \in Values
         /\ Man' = Man /\ Man \in ManifestT
         /\ \A n \in Names : file'[n] = IF n = arg[p] THEN val[p] ELSE file[n]
         /\ UNCHANGED <<material, sess, minted, call, copy, todo, out, interrupted>>
<1>1. pc[p] = "replace" /\ Saving(p) /\ pc[p] \notin WritingPCs
  BY DEF ReplaceCiphertext, Saving, SavePCs, InitPCs, WritingPCs
<1>2. arg[p] \in Names /\ val[p] \in Values /\ arg[p] \in Paths
  BY <1>1 DEF TypeInv, CallInv, Paths
<1>3. tmp[arg[p]] = val[p] /\ Man \in ManifestT
  BY <1>1 DEF SaveInv, SaverInv, TypeInv, CallInv, CopyPCs
<1>4. Replace(arg[p]) /\ Goto(p, "hash")
      /\ UNCHANGED <<material, sess, minted, call, copy, todo, out, interrupted>>
  BY <1>2, <1>3 DEF ReplaceCiphertext
<1>5. file' = [file EXCEPT ![arg[p]] = val[p]]
  BY <1>1, <1>2, <1>3, <1>4, ReplaceAlone
<1>6. Man' = Man /\ \A n \in Names : file'[n] = IF n = arg[p] THEN val[p] ELSE file[n]
  BY <1>2, <1>5 DEF Man, TypeInv, TypeOK, FilesOK, Paths
<1> QED BY <1>1, <1>2, <1>3, <1>4, <1>6 DEF Goto

(* The last step of a save adds its record to the manifest, and no other.  *)
LEMMA IndexPlaced ==
  ASSUME TypeInv, SaveInv, NEW p \in Procs, ReplaceIndex(p)
  PROVE  /\ pc[p] = "indexReplace" /\ Saving(p)
         /\ arg[p] \in Names /\ val[p] \in Values
         /\ Man \in ManifestT /\ Man' \in ManifestT /\ file[arg[p]] # None
         /\ Man' = [Man EXCEPT !.index[arg[p]] = [meta |-> val[p], sha |-> file[arg[p]]]]
         /\ \A n \in Names : file'[n] = file[n]
         /\ Finish(p, [op |-> "save", ok |-> TRUE])
         /\ UNCHANGED <<material, sess, minted>>
<1>1. pc[p] = "indexReplace" /\ Saving(p) /\ pc[p] \notin WritingPCs /\ Manifest \in Paths
  BY DEF ReplaceIndex, Saving, SavePCs, InitPCs, WritingPCs, Paths
<1>2. arg[p] \in Names /\ val[p] \in Values /\ copy[p] \in ManifestT
  BY <1>1 DEF TypeInv, CallInv, CopyPCs
<1>3. /\ tmp[Manifest] = copy[p] /\ Man \in ManifestT /\ file[arg[p]] # None
      /\ copy[p] = [Man EXCEPT !.index[arg[p]] = [meta |-> val[p], sha |-> file[arg[p]]]]
  BY <1>1 DEF SaveInv, SaverInv
<1>4. Replace(Manifest) /\ Finish(p, [op |-> "save", ok |-> TRUE])
      /\ UNCHANGED <<material, sess, minted>>
  BY <1>2, <1>3 DEF ReplaceIndex
<1>5. file' = [file EXCEPT ![Manifest] = copy[p]]
  BY <1>1, <1>3, <1>4, ReplaceAlone
<1>6. Man' = copy[p] /\ \A n \in Names : file'[n] = file[n]
  BY <1>5 DEF Man, TypeInv, TypeOK, FilesOK, Paths
<1> QED BY <1>1, <1>2, <1>3, <1>4, <1>6

-----------------------------------------------------------------------------
(* Keys and refused saves.  The invariant follows the key material from    *)
(* the session that exports it to the manifest and to sessions opened on   *)
(* it; it needs one saver at a time.                                       *)

FailedSave(p) == out[p] # None /\ out[p].op = "save" /\ ~out[p].ok

Exporting == InitPCs \ {"mkdir"}

Started == \E p \in Procs : pc[p] \in Exporting

\* A directory without a manifest that no save will ever accept.
Spoiled == Man = None /\ ~EmptyDirectory /\ ~Started

OwnKeys(p) == sess[p] # None => sess[p].keys = {sess[p].id}

OwnMaterial(p) ==
  /\ pc[p] \in Exporting => Man = None
  /\ pc[p] = "export" => \A f \in MaterialFiles \ todo[p] : material[f] = sess[p].id
  /\ pc[p] \in {"describe", "initOpen", "initWrite", "initReplace"} =>
       \A f \in MaterialFiles : material[f] = sess[p].id
  /\ pc[p] \in {"initOpen", "initWrite", "initReplace"} =>
       copy[p].bundle = sess[p].id /\ \A n \in Names : copy[p].index[n] = None
  /\ pc[p] = "restore" => Man # None /\ copy[p].bundle = Man.bundle

OwnFailure(p) ==
  /\ pc[p] = "read" => Man # None
  /\ pc[p] = "mkdir" => Man = None
  /\ FailedSave(p) => /\ sess[p] # None
                      /\ Spoiled \/ (Man # None /\ Man.bundle # sess[p].id)

BundleInv == Man # None => \A f \in MaterialFiles : material[f] = Man.bundle

MaterialInv ==
  /\ BundleInv
  /\ \A p \in Procs : OwnKeys(p) /\ OwnMaterial(p) /\ OwnFailure(p)

(* A new directory has no sessions.                                        *)
LEMMA InitMaterialInv == Init => MaterialInv
  BY DEF Init, MaterialInv, BundleInv, OwnKeys, OwnMaterial, OwnFailure, FailedSave, Exporting,
     InitPCs, Man, Paths

(* With the manifest in place or not, a step of p that leaves it there, the *)
(* material too, keeps the part of the others.                             *)
LEMMA MaterialFrame ==
  ASSUME MaterialInv, NEW p \in Procs, Others(p), Man' = Man, material' = material,
         Spoiled => Spoiled', OwnKeys(p)', OwnMaterial(p)', OwnFailure(p)'
  PROVE  MaterialInv'
<1>1. BundleInv'
  BY DEF MaterialInv, BundleInv
<1>2. ASSUME NEW q \in Procs \ {p}
      PROVE  OwnKeys(q)' /\ OwnMaterial(q)' /\ OwnFailure(q)'
  <2>1. OwnKeys(q) /\ OwnMaterial(q) /\ OwnFailure(q)
    BY DEF MaterialInv
  <2>2. pc'[q] = pc[q] /\ todo'[q] = todo[q] /\ sess'[q] = sess[q] /\ copy'[q] = copy[q]
        /\ out'[q] = out[q]
    BY DEF Others
  <2>3. OwnKeys(q)' /\ OwnMaterial(q)'
    BY <2>1, <2>2 DEF OwnKeys, OwnMaterial
  <2>4. OwnFailure(q)'
    BY <2>1, <2>2 DEF OwnFailure, FailedSave
  <2> QED BY <2>3, <2>4
<1> QED BY <1>1, <1>2 DEF MaterialInv

(* Nothing is written in a spoiled directory.                              *)
LEMMA SpoiledStays ==
  ASSUME TypeInv, SaveInv, MaterialInv, Spoiled, NEW p \in Procs, StepOf(p)
  PROVE  Spoiled'
<1>1. Man \notin ManifestT /\ pc[p] \notin Exporting
  BY DEF Spoiled, Started
<1>2. pc[p] \notin {"read", "serialize", "serializing", "replace", "hash", "indexOpen",
                    "indexWrite", "indexReplace"}
  BY <1>1 DEF Spoiled, SaveInv, SaverInv, MaterialInv, OwnFailure, TypeInv, CallInv, CopyPCs
<1>3. pc'[p] \notin Exporting /\ UNCHANGED <<file, tmp, begun, material>>
  <2> USE DEF TypeInv, TypeOK, CallsOK, Goto, Finish, Raise, Exporting, InitPCs
  <2>1. CASE (\E b \in Bundles : Create(p, b)) \/ BeginOpen(p)
               \/ (\E n \in Names, v \in Values : BeginSave(p, n, v))
               \/ (\E n \in Names : BeginLoad(p, n)) \/ Crash(p)
    BY <1>1, <2>1 DEF Create, BeginOpen, BeginSave, BeginLoad, Crash
  <2>2. CASE ReadStep(p)
    BY <2>2 DEF ReadStep, OpenVerify, OpenRestore, LookupRecord, VerifyChecksum, Deserialize
  <2>3. CASE SaveStep(p)
    BY <1>1, <1>2, <2>3 DEF Spoiled, SaveStep, CheckManifest, MakeDirectory, ExportMaterial,
       DescribeMaterial, OpenManifest, WriteManifest, ReplaceInitialManifest, ReadManifest,
       OpenCiphertext, WriteCiphertext, ReplaceCiphertext, RecordCiphertext, ReplaceIndex
  <2> QED BY <2>1, <2>2, <2>3 DEF StepOf
<1>4. ~Started'
  BY <1>3, OthersKept DEF Spoiled, Started, Others
<1> QED BY <1>3, <1>4 DEF Spoiled, EmptyDirectory, Man

(* The proof that a step keeps the keys in order: one step per action.     *)
LEMMA StepMaterialInv ==
  ASSUME TypeInv, SaveInv, MaterialInv, [Next]_vars
  PROVE  MaterialInv'
<1> USE DEF TypeInv, TypeOK, CallsOK, Goto, Exporting, InitPCs, CallInv
<1>0. ASSUME NEW p \in Procs, StepOf(p)
      PROVE  Others(p) /\ (Spoiled => Spoiled')
  BY <1>0, OthersKept, SpoiledStays
<1>1. ASSUME NEW p \in Procs, NEW b \in Bundles, Create(p, b)
      PROVE  MaterialInv'
  <2>1. Others(p) /\ (Spoiled => Spoiled')
    BY <1>0, <1>1 DEF StepOf
  <2>2. Man' = Man /\ material' = material
    BY <1>1 DEF Create, Man
  <2>3. OwnKeys(p)'
    BY <1>1 DEF Create, MaterialInv, OwnKeys
  <2>4. OwnMaterial(p)'
    BY <1>1, <2>2 DEF Create, MaterialInv, OwnMaterial
  <2>5. OwnFailure(p)'
    BY <1>1, <2>1, <2>2 DEF Create, MaterialInv, OwnFailure, FailedSave
  <2> QED BY <2>1, <2>2, <2>3, <2>4, <2>5, MaterialFrame
<1>2. ASSUME NEW p \in Procs, BeginOpen(p)
      PROVE  MaterialInv'
  <2>1. Others(p) /\ (Spoiled => Spoiled')
    BY <1>0, <1>2 DEF StepOf
  <2>2. Man' = Man /\ material' = material
    BY <1>2 DEF BeginOpen, Man
  <2>3. OwnKeys(p)'
    BY <1>2 DEF BeginOpen, MaterialInv, OwnKeys
  <2>4. OwnMaterial(p)'
    BY <1>2, <2>2 DEF BeginOpen, MaterialInv, OwnMaterial
  <2>5. OwnFailure(p)'
    BY <1>2, <2>1, <2>2 DEF BeginOpen, MaterialInv, OwnFailure, FailedSave
  <2> QED BY <2>1, <2>2, <2>3, <2>4, <2>5, MaterialFrame
<1>3. ASSUME NEW p \in Procs, OpenVerify(p)
      PROVE  MaterialInv'
  <2>1. Others(p) /\ (Spoiled => Spoiled')
    BY <1>0, <1>3 DEF StepOf, ReadStep
  <2>2. Man' = Man /\ material' = material
    BY <1>3 DEF OpenVerify, Raise, Finish, Man
  <2>3. OwnKeys(p)'
    BY <1>3 DEF OpenVerify, Raise, Finish, MaterialInv, OwnKeys
  <2>4. OwnMaterial(p)'
    BY <1>3, <2>2 DEF OpenVerify, Raise, Finish, MaterialInv, OwnMaterial, Readable
  <2>5. OwnFailure(p)'
    BY <1>3, <2>1, <2>2 DEF OpenVerify, Raise, Finish, MaterialInv, OwnFailure, FailedSave
  <2> QED BY <2>1, <2>2, <2>3, <2>4, <2>5, MaterialFrame
<1>4. ASSUME NEW p \in Procs, OpenRestore(p)
      PROVE  MaterialInv'
  <2>1. Others(p) /\ (Spoiled => Spoiled')
    BY <1>0, <1>4 DEF StepOf, ReadStep
  <2>2. Man' = Man /\ material' = material
    BY <1>4 DEF OpenRestore, Finish, Man
  <2>3. OwnKeys(p)'
    <3>1. pc[p] = "restore" /\ Man # None /\ copy[p].bundle = Man.bundle
      BY <1>4 DEF OpenRestore, MaterialInv, OwnMaterial
    <3>2. {material[f] : f \in MaterialFiles} = {copy[p].bundle}
      BY <3>1, MaterialAssumption DEF MaterialInv, BundleInv
    <3>3. sess' = [sess EXCEPT ![p] = [id |-> copy[p].bundle, keys |-> {copy[p].bundle}]]
      BY <1>4, <3>2 DEF OpenRestore
    <3> QED BY <3>3 DEF OwnKeys
  <2>4. OwnMaterial(p)'
    BY <1>4, <2>2 DEF OpenRestore, Finish, MaterialInv, OwnMaterial
  <2>5. OwnFailure(p)'
    BY <1>4, <2>1, <2>2 DEF OpenRestore, Finish, MaterialInv, OwnFailure, FailedSave
  <2> QED BY <2>1, <2>2, <2>3, <2>4, <2>5, MaterialFrame
<1>5. ASSUME NEW p \in Procs, Crash(p)
      PROVE  MaterialInv'
  <2>1. Others(p) /\ (Spoiled => Spoiled')
    BY <1>0, <1>5 DEF StepOf
  <2>2. Man' = Man /\ material' = material
    BY <1>5 DEF Crash, Finish, Man
  <2>3. OwnKeys(p)'
    BY <1>5 DEF Crash, Finish, MaterialInv, OwnKeys
  <2>4. OwnMaterial(p)'
    BY <1>5, <2>2 DEF Crash, Finish, MaterialInv, OwnMaterial
  <2>5. OwnFailure(p)'
    BY <1>5, <2>1, <2>2 DEF Crash, Finish, MaterialInv, OwnFailure, FailedSave
  <2> QED BY <2>1, <2>2, <2>3, <2>4, <2>5, MaterialFrame
<1>6. ASSUME NEW p \in Procs, NEW n \in Names, NEW v \in Values, BeginSave(p, n, v)
      PROVE  MaterialInv'
  <2>1. Others(p) /\ (Spoiled => Spoiled')
    BY <1>0, <1>6 DEF StepOf
  <2>2. Man' = Man /\ material' = material
    BY <1>6 DEF BeginSave, Man
  <2>3. OwnKeys(p)'
    BY <1>6 DEF BeginSave, MaterialInv, OwnKeys
  <2>4. OwnMaterial(p)'
    BY <1>6, <2>2 DEF BeginSave, MaterialInv, OwnMaterial
  <2>5. OwnFailure(p)'
    BY <1>6, <2>1, <2>2 DEF BeginSave, MaterialInv, OwnFailure, FailedSave
  <2> QED BY <2>1, <2>2, <2>3, <2>4, <2>5, MaterialFrame
<1>7. ASSUME NEW p \in Procs, CheckManifest(p)
      PROVE  MaterialInv'
  <2>1. Others(p) /\ (Spoiled => Spoiled')
    BY <1>0, <1>7 DEF StepOf, SaveStep
  <2>2. Man' = Man /\ material' = material
    BY <1>7 DEF CheckManifest, Man
  <2>3. OwnKeys(p)'
    BY <1>7 DEF CheckManifest, MaterialInv, OwnKeys
  <2>4. OwnMaterial(p)'
    BY <1>7, <2>2 DEF CheckManifest, MaterialInv, OwnMaterial
  <2>5. OwnFailure(p)'
    BY <1>7, <2>1, <2>2 DEF CheckManifest, MaterialInv, OwnFailure, FailedSave
  <2> QED BY <2>1, <2>2, <2>3, <2>4, <2>5, MaterialFrame
<1>8. ASSUME NEW p \in Procs, MakeDirectory(p)
      PROVE  MaterialInv'
  <2>1. Others(p) /\ (Spoiled => Spoiled')
    BY <1>0, <1>8 DEF StepOf, SaveStep
  <2>2. Man' = Man /\ material' = material
    BY <1>8 DEF MakeDirectory, Raise, Finish, Man
  <2>3. OwnKeys(p)'
    BY <1>8 DEF MakeDirectory, Raise, Finish, MaterialInv, OwnKeys
  <2>4. OwnMaterial(p)'
    BY <1>8, <2>2 DEF MakeDirectory, Raise, Finish, MaterialInv, OwnMaterial, OwnFailure
  <2>5. OwnFailure(p)'
    <3>1. CASE EmptyDirectory
      BY <1>8, <2>2, <3>1 DEF MakeDirectory, MaterialInv, OwnFailure, FailedSave, Spoiled
    <3>2. CASE ~EmptyDirectory
      <4>1. Saving(p) /\ sess[p] # None /\ Man = None
        BY <1>8 DEF MakeDirectory, Saving, SavePCs, MaterialInv, OwnFailure
      <4>2. Raise(p, "save") /\ pc'[p] = "idle"
        BY <1>8, <3>2 DEF MakeDirectory, Raise, Finish
      <4>3. ~Started'
        BY <2>1, <4>1, <4>2, OthersQuiet DEF Started, Others, SaveInv, SavePCs
      <4>4. Spoiled'
        BY <2>2, <3>2, <4>1, <4>2, <4>3 DEF Spoiled, EmptyDirectory, Raise
      <4> QED BY <4>1, <4>2, <4>4 DEF OwnFailure, Raise
    <3> QED BY <3>1, <3>2
  <2> QED BY <2>1, <2>2, <2>3, <2>4, <2>5, MaterialFrame
<1>9. ASSUME NEW p \in Procs, DescribeMaterial(p)
      PROVE  MaterialInv'
  <2>1. Others(p) /\ (Spoiled => Spoiled')
    BY <1>0, <1>9 DEF StepOf, SaveStep
  <2>2. Man' = Man /\ material' = material
    BY <1>9 DEF DescribeMaterial, Man
  <2>3. OwnKeys(p)'
    BY <1>9 DEF DescribeMaterial, MaterialInv, OwnKeys
  <2>4. OwnMaterial(p)'
    BY <1>9, <2>2 DEF DescribeMaterial, MaterialInv, OwnMaterial
  <2>5. OwnFailure(p)'
    BY <1>9, <2>1, <2>2 DEF DescribeMaterial, MaterialInv, OwnFailure, FailedSave
  <2> QED BY <2>1, <2>2, <2>3, <2>4, <2>5, MaterialFrame
<1>10. ASSUME NEW p \in Procs, OpenManifest(p)
      PROVE  MaterialInv'
  <2>1. Others(p) /\ (Spoiled => Spoiled')
    BY <1>0, <1>10 DEF StepOf, SaveStep
  <2>2. Man' = Man /\ material' = material
    BY <1>10, TargetsStay DEF OpenManifest, Man
  <2>3. OwnKeys(p)'
    BY <1>10 DEF OpenManifest, MaterialInv, OwnKeys
  <2>4. OwnMaterial(p)'
    BY <1>10, <2>2 DEF OpenManifest, MaterialInv, OwnMaterial
  <2>5. OwnFailure(p)'
    BY <1>10, <2>1, <2>2 DEF OpenManifest, MaterialInv, OwnFailure, FailedSave
  <2> QED BY <2>1, <2>2, <2>3, <2>4, <2>5, MaterialFrame
<1>11. ASSUME NEW p \in Procs, WriteManifest(p)
      PROVE  MaterialInv'
  <2>1. Others(p) /\ (Spoiled => Spoiled')
    BY <1>0, <1>11 DEF StepOf, SaveStep
  <2>2. Man' = Man /\ material' = material
    BY <1>11, TargetsStay DEF WriteManifest, Man
  <2>3. OwnKeys(p)'
    BY <1>11 DEF WriteManifest, MaterialInv, OwnKeys
  <2>4. OwnMaterial(p)'
    BY <1>11, <2>2 DEF WriteManifest, MaterialInv, OwnMaterial
  <2>5. OwnFailure(p)'
    BY <1>11, <2>1, <2>2 DEF WriteManifest, MaterialInv, OwnFailure, FailedSave
  <2> QED BY <2>1, <2>2, <2>3, <2>4, <2>5, MaterialFrame
<1>12. ASSUME NEW p \in Procs, ReadManifest(p)
      PROVE  MaterialInv'
  <2>1. Others(p) /\ (Spoiled => Spoiled')
    BY <1>0, <1>12 DEF StepOf, SaveStep
  <2>2. Man' = Man /\ material' = material
    BY <1>12 DEF ReadManifest, Raise, Finish, Man
  <2>3. OwnKeys(p)'
    BY <1>12 DEF ReadManifest, Raise, Finish, MaterialInv, OwnKeys
  <2>4. OwnMaterial(p)'
    BY <1>12, <2>2 DEF ReadManifest, Raise, Finish, MaterialInv, OwnMaterial
  <2>5. OwnFailure(p)'
    <3>1. pc[p] = "read" /\ sess[p] # None /\ Man \notin {None, Torn} /\ Manifest \in Paths
      BY <1>12 DEF ReadManifest, Saving, SavePCs, MaterialInv, OwnFailure, SaveInv, FilesWhole,
         Man, Paths
    <3>2. CASE Man.bundle = sess[p].id
      BY <1>12, <2>1, <2>2, <3>1, <3>2 DEF ReadManifest, ValidFor, Readable, MaterialInv,
         OwnFailure, FailedSave
    <3>3. CASE Man.bundle # sess[p].id
      BY <1>12, <2>2, <3>1, <3>3 DEF ReadManifest, ValidFor, Raise, Finish, OwnFailure
    <3> QED BY <3>2, <3>3
  <2> QED BY <2>1, <2>2, <2>3, <2>4, <2>5, MaterialFrame
<1>13. ASSUME NEW p \in Procs, OpenCiphertext(p)
      PROVE  MaterialInv'
  <2>1. Others(p) /\ (Spoiled => Spoiled')
    BY <1>0, <1>13 DEF StepOf, SaveStep
  <2>2. Man' = Man /\ material' = material
    BY <1>13, TargetsStay DEF OpenCiphertext, Man
  <2>3. OwnKeys(p)'
    BY <1>13 DEF OpenCiphertext, MaterialInv, OwnKeys
  <2>4. OwnMaterial(p)'
    BY <1>13, <2>2 DEF OpenCiphertext, MaterialInv, OwnMaterial
  <2>5. OwnFailure(p)'
    BY <1>13, <2>1, <2>2 DEF OpenCiphertext, MaterialInv, OwnFailure, FailedSave
  <2> QED BY <2>1, <2>2, <2>3, <2>4, <2>5, MaterialFrame
<1>14. ASSUME NEW p \in Procs, WriteCiphertext(p)
      PROVE  MaterialInv'
  <2>1. Others(p) /\ (Spoiled => Spoiled')
    BY <1>0, <1>14 DEF StepOf, SaveStep
  <2>2. Man' = Man /\ material' = material
    BY <1>14, TargetsStay DEF WriteCiphertext, Man
  <2>3. OwnKeys(p)'
    BY <1>14 DEF WriteCiphertext, MaterialInv, OwnKeys
  <2>4. OwnMaterial(p)'
    BY <1>14, <2>2 DEF WriteCiphertext, MaterialInv, OwnMaterial
  <2>5. OwnFailure(p)'
    BY <1>14, <2>1, <2>2 DEF WriteCiphertext, MaterialInv, OwnFailure, FailedSave
  <2> QED BY <2>1, <2>2, <2>3, <2>4, <2>5, MaterialFrame
<1>15. ASSUME NEW p \in Procs, ReplaceCiphertext(p)
      PROVE  MaterialInv'
  <2>1. Others(p) /\ (Spoiled => Spoiled')
    BY <1>0, <1>15 DEF StepOf, SaveStep
  <2>2. Man' = Man /\ material' = material
    BY <1>15, CiphertextPlaced
  <2>3. OwnKeys(p)'
    BY <1>15, CiphertextPlaced DEF MaterialInv, OwnKeys
  <2>4. OwnMaterial(p)'
    BY <1>15, <2>2, CiphertextPlaced DEF MaterialInv, OwnMaterial
  <2>5. OwnFailure(p)'
    BY <1>15, <2>1, <2>2, CiphertextPlaced DEF MaterialInv, OwnFailure, FailedSave
  <2> QED BY <2>1, <2>2, <2>3, <2>4, <2>5, MaterialFrame
<1>16. ASSUME NEW p \in Procs, RecordCiphertext(p)
      PROVE  MaterialInv'
  <2>1. Others(p) /\ (Spoiled => Spoiled')
    BY <1>0, <1>16 DEF StepOf, SaveStep
  <2>2. Man' = Man /\ material' = material
    BY <1>16 DEF RecordCiphertext, Man
  <2>3. OwnKeys(p)'
    BY <1>16 DEF RecordCiphertext, MaterialInv, OwnKeys
  <2>4. OwnMaterial(p)'
    BY <1>16, <2>2 DEF RecordCiphertext, MaterialInv, OwnMaterial
  <2>5. OwnFailure(p)'
    BY <1>16, <2>1, <2>2 DEF RecordCiphertext, MaterialInv, OwnFailure, FailedSave
  <2> QED BY <2>1, <2>2, <2>3, <2>4, <2>5, MaterialFrame
<1>17. ASSUME NEW p \in Procs, NEW n \in Names, BeginLoad(p, n)
      PROVE  MaterialInv'
  <2>1. Others(p) /\ (Spoiled => Spoiled')
    BY <1>0, <1>17 DEF StepOf
  <2>2. Man' = Man /\ material' = material
    BY <1>17 DEF BeginLoad, Man
  <2>3. OwnKeys(p)'
    BY <1>17 DEF BeginLoad, MaterialInv, OwnKeys
  <2>4. OwnMaterial(p)'
    BY <1>17, <2>2 DEF BeginLoad, MaterialInv, OwnMaterial
  <2>5. OwnFailure(p)'
    BY <1>17, <2>1, <2>2 DEF BeginLoad, MaterialInv, OwnFailure, FailedSave
  <2> QED BY <2>1, <2>2, <2>3, <2>4, <2>5, MaterialFrame
<1>18. ASSUME NEW p \in Procs, LookupRecord(p)
      PROVE  MaterialInv'
  <2>1. Others(p) /\ (Spoiled => Spoiled')
    BY <1>0, <1>18 DEF StepOf, ReadStep
  <2>2. Man' = Man /\ material' = material
    BY <1>18 DEF LookupRecord, Raise, Finish, Man
  <2>3. OwnKeys(p)'
    BY <1>18 DEF LookupRecord, Raise, Finish, MaterialInv, OwnKeys
  <2>4. OwnMaterial(p)'
    BY <1>18, <2>2 DEF LookupRecord, Raise, Finish, MaterialInv, OwnMaterial
  <2>5. OwnFailure(p)'
    BY <1>18, <2>1, <2>2 DEF LookupRecord, Raise, Finish, MaterialInv, OwnFailure, FailedSave
  <2> QED BY <2>1, <2>2, <2>3, <2>4, <2>5, MaterialFrame
<1>19. ASSUME NEW p \in Procs, VerifyChecksum(p)
      PROVE  MaterialInv'
  <2>1. Others(p) /\ (Spoiled => Spoiled')
    BY <1>0, <1>19 DEF StepOf, ReadStep
  <2>2. Man' = Man /\ material' = material
    BY <1>19 DEF VerifyChecksum, Raise, Finish, Man
  <2>3. OwnKeys(p)'
    BY <1>19 DEF VerifyChecksum, Raise, Finish, MaterialInv, OwnKeys
  <2>4. OwnMaterial(p)'
    BY <1>19, <2>2 DEF VerifyChecksum, Raise, Finish, MaterialInv, OwnMaterial
  <2>5. OwnFailure(p)'
    BY <1>19, <2>1, <2>2 DEF VerifyChecksum, Raise, Finish, MaterialInv, OwnFailure, FailedSave
  <2> QED BY <2>1, <2>2, <2>3, <2>4, <2>5, MaterialFrame
<1>20. ASSUME NEW p \in Procs, Deserialize(p)
      PROVE  MaterialInv'
  <2>1. Others(p) /\ (Spoiled => Spoiled')
    BY <1>0, <1>20 DEF StepOf, ReadStep
  <2>2. Man' = Man /\ material' = material
    BY <1>20 DEF Deserialize, Raise, Finish, Man
  <2>3. OwnKeys(p)'
    BY <1>20 DEF Deserialize, Raise, Finish, MaterialInv, OwnKeys
  <2>4. OwnMaterial(p)'
    BY <1>20, <2>2 DEF Deserialize, Raise, Finish, MaterialInv, OwnMaterial
  <2>5. OwnFailure(p)'
    BY <1>20, <2>1, <2>2 DEF Deserialize, Raise, Finish, MaterialInv, OwnFailure, FailedSave
  <2> QED BY <2>1, <2>2, <2>3, <2>4, <2>5, MaterialFrame
<1>21. ASSUME NEW p \in Procs, NEW f \in MaterialFiles, ExportMaterial(p, f)
      PROVE  MaterialInv'
  <2>1. Others(p) /\ Saving(p) /\ sess[p] # None /\ Man = None /\ Man' = Man
    <3>1. Others(p)
      BY <1>0, <1>21 DEF StepOf, SaveStep
    <3> QED BY <1>21, <3>1 DEF ExportMaterial, Saving, SavePCs, Man, MaterialInv, OwnMaterial
  <2>2. material' = [material EXCEPT ![f] = sess[p].id]
    <3>1. sess[p].keys = {sess[p].id}
      BY <2>1 DEF MaterialInv, OwnKeys
    <3>2. \E b \in sess[p].keys : material' = [material EXCEPT ![f] = b]
      BY <1>21 DEF ExportMaterial
    <3> QED BY <3>1, <3>2
  <2>3. OwnKeys(p)' /\ OwnFailure(p)'
    BY <1>21, <2>1 DEF ExportMaterial, MaterialInv, OwnKeys, OwnFailure, FailedSave, Spoiled,
       Started
  <2>4. OwnMaterial(p)'
    BY <1>21, <2>1, <2>2 DEF ExportMaterial, MaterialInv, OwnMaterial
  <2>5. ASSUME NEW q \in Procs \ {p}
        PROVE  OwnKeys(q)' /\ OwnMaterial(q)' /\ OwnFailure(q)'
    <3>1. pc[q] \notin SavePCs /\ pc'[q] = pc[q] /\ sess'[q] = sess[q] /\ copy'[q] = copy[q]
          /\ out'[q] = out[q]
      BY <2>1, OthersQuiet DEF SaveInv, Others
    <3>2. ~FailedSave(q)
      BY <1>21, <2>1 DEF ExportMaterial, MaterialInv, OwnFailure, Spoiled, Started
    <3> QED BY <2>1, <3>1, <3>2 DEF MaterialInv, OwnKeys, OwnMaterial, OwnFailure, FailedSave,
            SavePCs
  <2>6. BundleInv'
    BY <2>1 DEF BundleInv
  <2> QED BY <2>3, <2>4, <2>5, <2>6 DEF MaterialInv
<1>22. ASSUME NEW p \in Procs, ReplaceInitialManifest(p)
      PROVE  MaterialInv'
  <2>1. Others(p) /\ sess[p] # None
    BY <1>0, <1>22 DEF StepOf, SaveStep, ReplaceInitialManifest, Saving, SavePCs
  <2>2. /\ pc[p] = "initReplace" /\ pc'[p] = "read"
        /\ Saving(p) /\ copy[p] \in ManifestT /\ Man' = copy[p]
        /\ UNCHANGED <<material, sess, copy, todo, out>>
    BY <1>22, ManifestPlaced
  <2>3. Man = None /\ copy[p].bundle = sess[p].id /\ \A f \in MaterialFiles : material[f] = sess[p].id
    BY <2>2 DEF MaterialInv, OwnMaterial
  <2>4. Man' # None
    BY <2>2
  <2>5. OwnKeys(p)' /\ OwnMaterial(p)'
    BY <2>2 DEF MaterialInv, OwnKeys, OwnMaterial
  <2>6. \A q \in Procs : ~FailedSave(q) /\ ~FailedSave(q)'
    BY <2>2, <2>3 DEF MaterialInv, OwnFailure, Spoiled, Started, FailedSave
  <2>7. ASSUME NEW q \in Procs \ {p}
        PROVE  OwnKeys(q)' /\ OwnMaterial(q)' /\ OwnFailure(q)'
    <3>1. pc[q] \notin SavePCs /\ pc'[q] = pc[q]
      BY <2>1, <2>2, OthersQuiet DEF SaveInv, Others
    <3> QED BY <2>2, <2>3, <2>6, <3>1 DEF MaterialInv, OwnKeys, OwnMaterial, OwnFailure, SavePCs
  <2>8. BundleInv'
    BY <2>2, <2>3 DEF BundleInv
  <2> QED BY <2>2, <2>4, <2>5, <2>6, <2>7, <2>8 DEF MaterialInv, OwnFailure
<1>23. ASSUME NEW p \in Procs, ReplaceIndex(p)
      PROVE  MaterialInv'
  <2>1. Others(p)
    BY <1>0, <1>23 DEF StepOf, SaveStep
  <2>2. /\ pc[p] = "indexReplace" /\ Saving(p) /\ Man \in ManifestT /\ Man' \in ManifestT
        /\ Man' = [Man EXCEPT !.index[arg[p]] = [meta |-> val[p], sha |-> file[arg[p]]]]
        /\ Finish(p, [op |-> "save", ok |-> TRUE])
        /\ UNCHANGED <<material, sess, minted>>
    BY <1>23, IndexPlaced
  <2>3. Man # None /\ Man' # None /\ Man'.bundle = Man.bundle
    BY <2>2 DEF ManifestT
  <2>4. ~Spoiled
    BY <2>3 DEF Spoiled
  <2>5. OwnKeys(p)' /\ OwnMaterial(p)' /\ OwnFailure(p)'
    BY <2>2 DEF Finish, MaterialInv, OwnKeys, OwnMaterial, OwnFailure, FailedSave
  <2>6. ASSUME NEW q \in Procs \ {p}
        PROVE  OwnKeys(q)' /\ OwnMaterial(q)' /\ OwnFailure(q)'
    <3>1. pc[q] \notin SavePCs /\ pc'[q] = pc[q] /\ copy'[q] = copy[q] /\ out'[q] = out[q]
      BY <2>1, <2>2, OthersQuiet DEF SaveInv, Others
    <3> QED BY <2>2, <2>3, <2>4, <3>1 DEF MaterialInv, OwnKeys, OwnMaterial, OwnFailure,
            FailedSave, SavePCs
  <2>7. BundleInv'
    BY <2>2, <2>3 DEF MaterialInv, BundleInv
  <2> QED BY <2>5, <2>6, <2>7 DEF MaterialInv
<1>24. CASE UNCHANGED vars
  BY <1>24 DEF vars, MaterialInv, BundleInv, OwnKeys, OwnMaterial, OwnFailure, FailedSave, Spoiled,
     EmptyDirectory, Started, Man
<1> QED
  BY <1>1, <1>2, <1>3, <1>4, <1>5, <1>6, <1>7, <1>8, <1>9, <1>10, <1>11, <1>12, <1>13,
     <1>14, <1>15, <1>16, <1>17, <1>18, <1>19, <1>20, <1>21, <1>22, <1>23, <1>24 DEF Next,
     SaveStep, ReadStep

\* The keys a session computes with are those of the bundle it stamps on what
\* it saves, also when it was opened on a workspace that others left or write.
THEOREM KeysAreOwn == Overlap # "writers" => (Spec => []KeysMatchIdentity)
<1> SUFFICES ASSUME Overlap # "writers"
             PROVE  Spec => []KeysMatchIdentity
  OBVIOUS
<1>1. Init => TypeInv /\ SaveInv /\ MaterialInv
  BY InitTypeInv, InitSaveInv, InitMaterialInv
<1>2. TypeInv /\ SaveInv /\ MaterialInv /\ [Next]_vars => (TypeInv /\ SaveInv /\ MaterialInv)'
  BY StepTypeInv, StepSaveInv, StepMaterialInv
<1>3. MaterialInv => KeysMatchIdentity
  BY DEF MaterialInv, OwnKeys, KeysMatchIdentity
<1> QED BY <1>1, <1>2, <1>3, PTL DEF Spec

\* A save only fails where there is no manifest, or one of another bundle: no
\* crash of an earlier save makes a workspace refuse its own sessions.
THEOREM RefusedOnlyUninitialised ==
  Overlap # "writers" => (Spec => []SaveFailsOnlyUninitialised)
<1> SUFFICES ASSUME Overlap # "writers"
             PROVE  Spec => []SaveFailsOnlyUninitialised
  OBVIOUS
<1>1. Init => TypeInv /\ SaveInv /\ MaterialInv
  BY InitTypeInv, InitSaveInv, InitMaterialInv
<1>2. TypeInv /\ SaveInv /\ MaterialInv /\ [Next]_vars => (TypeInv /\ SaveInv /\ MaterialInv)'
  BY StepTypeInv, StepSaveInv, StepMaterialInv
<1>3. MaterialInv => SaveFailsOnlyUninitialised
  BY DEF MaterialInv, OwnFailure, FailedSave, Spoiled, SaveFailsOnlyUninitialised
<1> QED BY <1>1, <1>2, <1>3, PTL DEF Spec

-----------------------------------------------------------------------------
(* Only the two replacements of manifest.json change it.                   *)
LEMMA ManifestStays ==
  ASSUME TypeInv, SaveInv, NEW p \in Procs, StepOf(p),
         ~ReplaceInitialManifest(p), ~ReplaceIndex(p)
  PROVE  Man' = Man
<1>1. CASE (\E b \in Bundles : Create(p, b)) \/ BeginOpen(p)
             \/ (\E n \in Names, v \in Values : BeginSave(p, n, v))
             \/ (\E n \in Names : BeginLoad(p, n)) \/ Crash(p)
  BY <1>1 DEF Create, BeginOpen, BeginSave, BeginLoad, Crash, Man
<1>2. CASE ReadStep(p)
  BY <1>2 DEF ReadStep, OpenVerify, OpenRestore, LookupRecord, VerifyChecksum, Deserialize,
     Raise, Man
<1>3. CASE CheckManifest(p) \/ MakeDirectory(p) \/ DescribeMaterial(p) \/ ReadManifest(p)
             \/ RecordCiphertext(p) \/ \E f \in MaterialFiles : ExportMaterial(p, f)
  BY <1>3 DEF CheckManifest, MakeDirectory, DescribeMaterial, ReadManifest, RecordCiphertext,
     ExportMaterial, Raise, Man
<1>4. CASE OpenManifest(p) \/ WriteManifest(p) \/ OpenCiphertext(p) \/ WriteCiphertext(p)
  BY <1>4, TargetsStay DEF Man
<1>5. CASE ReplaceCiphertext(p)
  BY <1>5, CiphertextPlaced
<1> QED BY <1>1, <1>2, <1>3, <1>4, <1>5 DEF StepOf, SaveStep

(* A record that is there stays: the first manifest.json is written where  *)
(* there was none, and the last step of a save adds a record to the        *)
(* manifest as it is.                                                      *)
LEMMA RecordsKept ==
  ASSUME TypeInv, SaveInv, MaterialInv, NEW p \in Procs, StepOf(p),
         NEW n \in Names, Recorded(n)
  PROVE  Recorded(n)'
<1>1. CASE ReplaceInitialManifest(p)
  <2>1. Man = None
    BY <1>1, ManifestPlaced DEF MaterialInv, OwnMaterial, Exporting, InitPCs
  <2> QED BY <2>1 DEF Recorded, Readable
<1>2. CASE ReplaceIndex(p)
  <2>1. /\ arg[p] \in Names /\ val[p] \in Values /\ file[arg[p]] # None
        /\ Man \in ManifestT /\ Man' \in ManifestT
        /\ Man' = [Man EXCEPT !.index[arg[p]] = [meta |-> val[p], sha |-> file[arg[p]]]]
    BY <1>2, IndexPlaced
  <2>2. Man'.index[n] # None
    <3>1. CASE n # arg[p]
      BY <2>1, <3>1 DEF ManifestT, Recorded
    <3>2. CASE n = arg[p]
      <4>1. file[arg[p]] \in Values \cup {Torn}
        BY <2>1 DEF TypeInv, TypeOK, FilesOK, ContentOf, Paths
      <4>2. [meta |-> val[p], sha |-> file[arg[p]]] \in Record
        BY <2>1, <4>1 DEF Record
      <4>3. Man'.index[n] = [meta |-> val[p], sha |-> file[arg[p]]]
        BY <2>1, <3>2 DEF ManifestT
      <4> QED BY <4>2, <4>3
    <3> QED BY <3>1, <3>2
  <2> QED BY <2>1, <2>2 DEF Recorded, Readable
<1>3. CASE ~ReplaceInitialManifest(p) /\ ~ReplaceIndex(p)
  BY <1>3, ManifestStays DEF Recorded, Readable
<1> QED BY <1>1, <1>2, <1>3

\* Nothing that is recorded disappears while one process saves at a time,
\* with crashes between any two file operations.
THEOREM RecordsStay == Overlap # "writers" => (Spec => RecordsPersist)
<1> SUFFICES ASSUME Overlap # "writers"
             PROVE  Spec => RecordsPersist
  OBVIOUS
<1>1. Init => TypeInv /\ SaveInv /\ MaterialInv
  BY InitTypeInv, InitSaveInv, InitMaterialInv
<1>2. TypeInv /\ SaveInv /\ MaterialInv /\ [Next]_vars => (TypeInv /\ SaveInv /\ MaterialInv)'
  BY StepTypeInv, StepSaveInv, StepMaterialInv
<1>3. TypeInv /\ SaveInv /\ MaterialInv /\ [Next]_vars
        => [\A n \in Names : Recorded(n) /\ Man' # Torn => Recorded(n)']_vars
  BY RecordsKept DEF Next, StepOf
<1> QED BY <1>1, <1>2, <1>3, PTL DEF Spec, RecordsPersist

-----------------------------------------------------------------------------
(* Loads.  They are sound when calls take turns, or when loads overlap a   *)
(* save but nothing that is recorded is saved again.                       *)

Orderly == Overlap = "none" \/ (Overlap = "readers" /\ ~Rewrite)

InLoad(p) == pc[p] \in {"verify", "deserialize"}

\* When calls take turns at most one process is in a call.
TakeTurns == \A p, q \in Procs : pc[p] # "idle" /\ pc[q] # "idle" => p = q

RecordsTrue == \A n \in Names : Recorded(n) => Man.index[n].sha = Man.index[n].meta

OwnLoad(p) ==
  /\ Unrecorded(p) => file[arg[p]] = val[p]
  /\ Saving(p) /\ ~Rewrite => ~Recorded(arg[p])
  /\ InLoad(p) => Recorded(arg[p]) /\ copy[p].index[arg[p]] = Man.index[arg[p]]
  /\ pc[p] = "deserialize" => file[arg[p]] = Man.index[arg[p]].sha
  /\ out[p] # None /\ out[p].op = "load" /\ out[p].ok => out[p].content = out[p].meta

LoadInv ==
  /\ Overlap = "none" => TakeTurns
  /\ RecordsTrue
  /\ \A p \in Procs : OwnLoad(p)

(* Nothing is recorded or loaded at the start.                             *)
LEMMA InitLoadInv == Init => LoadInv
  BY DEF Init, LoadInv, TakeTurns, RecordsTrue, OwnLoad, Unrecorded, Saving, SavePCs, InitPCs,
     InLoad, Recorded, Readable, Man, Paths

(* A call starts when all are idle, or its process is in it already.       *)
LEMMA TurnsKept ==
  ASSUME TypeInv, Overlap = "none", TakeTurns, NEW p \in Procs, StepOf(p)
  PROVE  TakeTurns'
<1>1. Others(p)
  BY OthersKept
<1>2. pc[p] # "idle" \/ AllIdle \/ pc' = pc
  BY DEF StepOf, SaveStep, ReadStep, Create, BeginOpen, BeginSave, BeginLoad, Crash,
     ReadMayStart, SaveMayStart, OpenVerify, OpenRestore, LookupRecord, VerifyChecksum,
     Deserialize, CheckManifest, MakeDirectory, ExportMaterial, DescribeMaterial,
     OpenManifest, WriteManifest, ReplaceInitialManifest, ReadManifest, OpenCiphertext,
     WriteCiphertext, ReplaceCiphertext, RecordCiphertext, ReplaceIndex, Finish, Goto,
     TypeInv, TypeOK, CallsOK, AllIdle
<1> QED BY <1>1, <1>2 DEF TakeTurns, Others, AllIdle

(* A step of p that moves no file keeps the part of the others.            *)
LEMMA LoadFrame ==
  ASSUME TypeInv, LoadInv, NEW p \in Procs, StepOf(p), Man' = Man,
         \A n \in Names : file'[n] = file[n], OwnLoad(p)'
  PROVE  LoadInv'
<1>1. Overlap = "none" => TakeTurns'
  BY TurnsKept DEF LoadInv
<1>2. \A n \in Names : Recorded(n)' <=> Recorded(n)
  BY DEF Recorded, Readable
<1>3. RecordsTrue'
  BY <1>2 DEF LoadInv, RecordsTrue
<1>4. ASSUME NEW q \in Procs \ {p}
      PROVE  OwnLoad(q)'
  <2>1. pc'[q] = pc[q] /\ arg'[q] = arg[q] /\ val'[q] = val[q] /\ copy'[q] = copy[q]
        /\ out'[q] = out[q]
    BY OthersKept DEF Others
  <2>2. Unrecorded(q) \/ Saving(q) \/ InLoad(q) => arg[q] \in Names
    BY DEF Unrecorded, Saving, SavePCs, InLoad, TypeInv, CallInv, LoadPCs
  <2> QED BY <1>2, <2>1, <2>2 DEF LoadInv, OwnLoad, Unrecorded, Saving, InLoad
<1> QED BY <1>1, <1>3, <1>4 DEF LoadInv

(* No load of a recorded artifact meets a save of the same artifact.       *)
LEMMA Apart ==
  ASSUME Orderly, LoadInv, NEW p \in Procs, NEW q \in Procs, p # q, Saving(p), InLoad(q)
  PROVE  arg[q] # arg[p] /\ Recorded(arg[q])
  BY DEF Orderly, LoadInv, TakeTurns, OwnLoad, Saving, SavePCs, InitPCs, InLoad

(* The proof that a step keeps loads sound: one step per action.           *)
LEMMA StepLoadInv ==
  ASSUME Orderly, TypeInv, SaveInv, MaterialInv, LoadInv, [Next]_vars
  PROVE  LoadInv'
<1> USE DEF TypeInv, TypeOK, CallsOK, Goto, CallInv
<1>1. ASSUME NEW p \in Procs, NEW b \in Bundles, Create(p, b)
      PROVE  LoadInv'
  <2>1. file' = file /\ Man' = Man
    BY <1>1 DEF Create, Man
  <2>2. OwnLoad(p)'
    BY <1>1, <2>1 DEF Create, LoadInv, OwnLoad, Unrecorded, Saving, SavePCs,
       InitPCs, InLoad, Recorded, Readable
  <2> QED BY <1>1, <2>1, <2>2, LoadFrame DEF StepOf
<1>2. ASSUME NEW p \in Procs, BeginOpen(p)
      PROVE  LoadInv'
  <2>1. file' = file /\ Man' = Man
    BY <1>2 DEF BeginOpen, Man
  <2>2. OwnLoad(p)'
    BY <1>2, <2>1 DEF BeginOpen, LoadInv, OwnLoad, Unrecorded, Saving, SavePCs,
       InitPCs, InLoad, Recorded, Readable
  <2> QED BY <1>2, <2>1, <2>2, LoadFrame DEF StepOf
<1>3. ASSUME NEW p \in Procs, OpenVerify(p)
      PROVE  LoadInv'
  <2>1. file' = file /\ Man' = Man
    BY <1>3 DEF OpenVerify, Raise, Finish, Man
  <2>2. OwnLoad(p)'
    BY <1>3, <2>1 DEF OpenVerify, Raise, Finish, LoadInv, OwnLoad, Unrecorded, Saving, SavePCs,
       InitPCs, InLoad, Recorded, Readable
  <2> QED BY <1>3, <2>1, <2>2, LoadFrame DEF StepOf, ReadStep
<1>4. ASSUME NEW p \in Procs, OpenRestore(p)
      PROVE  LoadInv'
  <2>1. file' = file /\ Man' = Man
    BY <1>4 DEF OpenRestore, Finish, Man
  <2>2. OwnLoad(p)'
    BY <1>4, <2>1 DEF OpenRestore, Finish, LoadInv, OwnLoad, Unrecorded, Saving, SavePCs,
       InitPCs, InLoad, Recorded, Readable
  <2> QED BY <1>4, <2>1, <2>2, LoadFrame DEF StepOf, ReadStep
<1>5. ASSUME NEW p \in Procs, Crash(p)
      PROVE  LoadInv'
  <2>1. file' = file /\ Man' = Man
    BY <1>5 DEF Crash, Finish, Man
  <2>2. OwnLoad(p)'
    BY <1>5, <2>1 DEF Crash, Finish, LoadInv, OwnLoad, Unrecorded, Saving, SavePCs,
       InitPCs, InLoad, Recorded, Readable
  <2> QED BY <1>5, <2>1, <2>2, LoadFrame DEF StepOf
<1>6. ASSUME NEW p \in Procs, NEW n \in Names, NEW v \in Values, BeginSave(p, n, v)
      PROVE  LoadInv'
  <2>1. file' = file /\ Man' = Man
    BY <1>6 DEF BeginSave, Man
  <2>2. OwnLoad(p)'
    BY <1>6, <2>1 DEF BeginSave, LoadInv, OwnLoad, Unrecorded, Saving, SavePCs,
       InitPCs, InLoad, Recorded, Readable
  <2> QED BY <1>6, <2>1, <2>2, LoadFrame DEF StepOf
<1>7. ASSUME NEW p \in Procs, CheckManifest(p)
      PROVE  LoadInv'
  <2>1. file' = file /\ Man' = Man
    BY <1>7 DEF CheckManifest, Man
  <2>2. OwnLoad(p)'
    BY <1>7, <2>1 DEF CheckManifest, LoadInv, OwnLoad, Unrecorded, Saving, SavePCs,
       InitPCs, InLoad, Recorded, Readable
  <2> QED BY <1>7, <2>1, <2>2, LoadFrame DEF StepOf, SaveStep
<1>8. ASSUME NEW p \in Procs, MakeDirectory(p)
      PROVE  LoadInv'
  <2>1. file' = file /\ Man' = Man
    BY <1>8 DEF MakeDirectory, Raise, Finish, Man
  <2>2. OwnLoad(p)'
    BY <1>8, <2>1 DEF MakeDirectory, Raise, Finish, LoadInv, OwnLoad, Unrecorded, Saving, SavePCs,
       InitPCs, InLoad, Recorded, Readable
  <2> QED BY <1>8, <2>1, <2>2, LoadFrame DEF StepOf, SaveStep
<1>9. ASSUME NEW p \in Procs, NEW f \in MaterialFiles, ExportMaterial(p, f)
      PROVE  LoadInv'
  <2>1. file' = file /\ Man' = Man
    BY <1>9 DEF ExportMaterial, Man
  <2>2. OwnLoad(p)'
    BY <1>9, <2>1 DEF ExportMaterial, LoadInv, OwnLoad, Unrecorded, Saving, SavePCs,
       InitPCs, InLoad, Recorded, Readable
  <2> QED BY <1>9, <2>1, <2>2, LoadFrame DEF StepOf, SaveStep
<1>10. ASSUME NEW p \in Procs, DescribeMaterial(p)
      PROVE  LoadInv'
  <2>1. file' = file /\ Man' = Man
    BY <1>10 DEF DescribeMaterial, Man
  <2>2. OwnLoad(p)'
    BY <1>10, <2>1 DEF DescribeMaterial, LoadInv, OwnLoad, Unrecorded, Saving, SavePCs,
       InitPCs, InLoad, Recorded, Readable
  <2> QED BY <1>10, <2>1, <2>2, LoadFrame DEF StepOf, SaveStep
<1>11. ASSUME NEW p \in Procs, OpenManifest(p)
      PROVE  LoadInv'
  <2>1. file' = file /\ Man' = Man
    BY <1>11, TargetsStay DEF Man
  <2>2. OwnLoad(p)'
    BY <1>11, <2>1 DEF OpenManifest, LoadInv, OwnLoad, Unrecorded, Saving, SavePCs,
       InitPCs, InLoad, Recorded, Readable
  <2> QED BY <1>11, <2>1, <2>2, LoadFrame DEF StepOf, SaveStep
<1>12. ASSUME NEW p \in Procs, WriteManifest(p)
      PROVE  LoadInv'
  <2>1. file' = file /\ Man' = Man
    BY <1>12, TargetsStay DEF Man
  <2>2. OwnLoad(p)'
    BY <1>12, <2>1 DEF WriteManifest, LoadInv, OwnLoad, Unrecorded, Saving, SavePCs,
       InitPCs, InLoad, Recorded, Readable
  <2> QED BY <1>12, <2>1, <2>2, LoadFrame DEF StepOf, SaveStep
<1>13. ASSUME NEW p \in Procs, ReadManifest(p)
      PROVE  LoadInv'
  <2>1. file' = file /\ Man' = Man
    BY <1>13 DEF ReadManifest, Raise, Finish, Man
  <2>2. OwnLoad(p)'
    BY <1>13, <2>1 DEF ReadManifest, Raise, Finish, LoadInv, OwnLoad, Unrecorded, Saving, SavePCs,
       InitPCs, InLoad, Recorded, Readable
  <2> QED BY <1>13, <2>1, <2>2, LoadFrame DEF StepOf, SaveStep
<1>14. ASSUME NEW p \in Procs, OpenCiphertext(p)
      PROVE  LoadInv'
  <2>1. file' = file /\ Man' = Man
    BY <1>14, TargetsStay DEF Man
  <2>2. OwnLoad(p)'
    BY <1>14, <2>1 DEF OpenCiphertext, LoadInv, OwnLoad, Unrecorded, Saving, SavePCs,
       InitPCs, InLoad, Recorded, Readable
  <2> QED BY <1>14, <2>1, <2>2, LoadFrame DEF StepOf, SaveStep
<1>15. ASSUME NEW p \in Procs, WriteCiphertext(p)
      PROVE  LoadInv'
  <2>1. file' = file /\ Man' = Man
    BY <1>15, TargetsStay DEF Man
  <2>2. OwnLoad(p)'
    BY <1>15, <2>1 DEF WriteCiphertext, LoadInv, OwnLoad, Unrecorded, Saving, SavePCs,
       InitPCs, InLoad, Recorded, Readable
  <2> QED BY <1>15, <2>1, <2>2, LoadFrame DEF StepOf, SaveStep
<1>16. ASSUME NEW p \in Procs, RecordCiphertext(p)
      PROVE  LoadInv'
  <2>1. file' = file /\ Man' = Man
    BY <1>16 DEF RecordCiphertext, Man
  <2>2. OwnLoad(p)'
    BY <1>16, <2>1 DEF RecordCiphertext, LoadInv, OwnLoad, Unrecorded, Saving, SavePCs,
       InitPCs, InLoad, Recorded, Readable
  <2> QED BY <1>16, <2>1, <2>2, LoadFrame DEF StepOf, SaveStep
<1>17. ASSUME NEW p \in Procs, NEW n \in Names, BeginLoad(p, n)
      PROVE  LoadInv'
  <2>1. file' = file /\ Man' = Man
    BY <1>17 DEF BeginLoad, Man
  <2>2. OwnLoad(p)'
    BY <1>17, <2>1 DEF BeginLoad, LoadInv, OwnLoad, Unrecorded, Saving, SavePCs,
       InitPCs, InLoad, Recorded, Readable
  <2> QED BY <1>17, <2>1, <2>2, LoadFrame DEF StepOf
<1>18. ASSUME NEW p \in Procs, LookupRecord(p)
      PROVE  LoadInv'
  <2>1. file' = file /\ Man' = Man
    BY <1>18 DEF LookupRecord, Raise, Finish, Man
  <2>2. OwnLoad(p)'
    BY <1>18, <2>1 DEF LookupRecord, Raise, Finish, LoadInv, OwnLoad, Unrecorded, Saving, SavePCs,
       InitPCs, InLoad, Recorded, Readable
  <2> QED BY <1>18, <2>1, <2>2, LoadFrame DEF StepOf, ReadStep
<1>19. ASSUME NEW p \in Procs, VerifyChecksum(p)
      PROVE  LoadInv'
  <2>1. file' = file /\ Man' = Man
    BY <1>19 DEF VerifyChecksum, Raise, Finish, Man
  <2>2. OwnLoad(p)'
    BY <1>19, <2>1 DEF VerifyChecksum, Raise, Finish, LoadInv, OwnLoad, Unrecorded, Saving, SavePCs,
       InitPCs, InLoad, Recorded, Readable
  <2> QED BY <1>19, <2>1, <2>2, LoadFrame DEF StepOf, ReadStep
<1>20. ASSUME NEW p \in Procs, Deserialize(p)
      PROVE  LoadInv'
  <2>1. file' = file /\ Man' = Man
    BY <1>20 DEF Deserialize, Raise, Finish, Man
  <2>2. OwnLoad(p)'
    <3>1. pc'[p] = "idle"
      BY <1>20 DEF Deserialize, Raise, Finish
    <3>2. CASE file[arg[p]] \in Values
      <4>1. out'[p] = [op |-> "load", ok |-> TRUE, name |-> arg[p],
                       meta |-> copy[p].index[arg[p]].meta, content |-> file[arg[p]]]
        BY <1>20, <3>2 DEF Deserialize, Finish
      <4>2. /\ pc[p] = "deserialize" /\ arg[p] \in Names /\ Recorded(arg[p])
            /\ copy[p].index[arg[p]] = Man.index[arg[p]]
            /\ file[arg[p]] = Man.index[arg[p]].sha
        BY <1>20 DEF Deserialize, LoadInv, OwnLoad, InLoad, LoadPCs
      <4>3. out'[p].content = out'[p].meta
        BY <4>1, <4>2 DEF LoadInv, RecordsTrue
      <4> QED BY <3>1, <4>3 DEF OwnLoad, Unrecorded, Saving, SavePCs, InitPCs, InLoad
    <3>3. CASE file[arg[p]] \notin Values
      <4>1. out'[p] = [op |-> "load", ok |-> FALSE]
        BY <1>20, <3>3 DEF Deserialize, Raise, Finish
      <4> QED BY <3>1, <4>1 DEF OwnLoad, Unrecorded, Saving, SavePCs, InitPCs, InLoad
    <3> QED BY <3>2, <3>3
  <2> QED BY <1>20, <2>1, <2>2, LoadFrame DEF StepOf, ReadStep
<1>21. ASSUME NEW p \in Procs, ReplaceInitialManifest(p)
      PROVE  LoadInv'
  <2>1. /\ pc[p] = "initReplace" /\ pc' = [pc EXCEPT ![p] = "read"]
        /\ Saving(p) /\ copy[p] \in ManifestT /\ Man' = copy[p]
        /\ \A n \in Names : file'[n] = file[n]
        /\ UNCHANGED <<arg, val, copy, out>>
    BY <1>21, ManifestPlaced
  <2>2. Man = None /\ \A n \in Names : copy[p].index[n] = None
    BY <2>1 DEF MaterialInv, OwnMaterial, Exporting, InitPCs
  <2>3. \A n \in Names : ~Recorded(n) /\ ~Recorded(n)'
    BY <2>1, <2>2 DEF Recorded, Readable
  <2>4. \A q \in Procs : ~InLoad(q) /\ ~InLoad(q)' /\ ~Unrecorded(q) /\ ~Unrecorded(q)'
    <3>1. \A q \in Procs : ~InLoad(q)
      BY <2>3 DEF LoadInv, OwnLoad, InLoad, LoadPCs
    <3>2. \A q \in Procs : ~Unrecorded(q)
      BY <2>1, OthersQuiet DEF SaveInv, Unrecorded, SavePCs
    <3> QED BY <2>1, <3>1, <3>2 DEF InLoad, Unrecorded
  <2>5. \A q \in Procs : Saving(q)' => arg'[q] \in Names
    BY <2>1, OthersQuiet DEF SaveInv, Saving
  <2>6. \A q \in Procs : OwnLoad(q)'
    BY <2>1, <2>3, <2>4, <2>5 DEF LoadInv, OwnLoad, InLoad
  <2>7. RecordsTrue' /\ (Overlap = "none" => TakeTurns')
    BY <1>21, <2>3, TurnsKept DEF RecordsTrue, LoadInv, StepOf, SaveStep
  <2> QED BY <2>6, <2>7 DEF LoadInv
<1>22. ASSUME NEW p \in Procs, ReplaceCiphertext(p)
      PROVE  LoadInv'
  <2>1. /\ pc[p] = "replace" /\ pc' = [pc EXCEPT ![p] = "hash"]
        /\ Saving(p) /\ arg[p] \in Names /\ val[p] \in Values /\ Man' = Man
        /\ \A n \in Names : file'[n] = IF n = arg[p] THEN val[p] ELSE file[n]
        /\ UNCHANGED <<arg, val, copy, out>>
    BY <1>22, CiphertextPlaced
  <2>2. \A n \in Names : Recorded(n)' <=> Recorded(n)
    BY <2>1 DEF Recorded, Readable
  <2>3. OwnLoad(p)'
    BY <2>1, <2>2 DEF LoadInv, OwnLoad, Unrecorded, Saving, SavePCs, InLoad
  <2>4. ASSUME NEW q \in Procs \ {p}
        PROVE  OwnLoad(q)'
    <3>1. pc'[q] = pc[q] /\ pc[q] \notin SavePCs
      BY <2>1, OthersQuiet DEF SaveInv
    <3>2. InLoad(q) => arg[q] # arg[p] /\ arg[q] \in Names
      BY <2>1, Apart DEF InLoad, LoadPCs
    <3> QED BY <2>1, <2>2, <3>1, <3>2 DEF LoadInv, OwnLoad, Unrecorded, Saving, SavePCs, InLoad
  <2>5. RecordsTrue' /\ (Overlap = "none" => TakeTurns')
    BY <1>22, <2>1, <2>2, TurnsKept DEF RecordsTrue, LoadInv, StepOf, SaveStep
  <2> QED BY <2>3, <2>4, <2>5 DEF LoadInv
<1>23. ASSUME NEW p \in Procs, ReplaceIndex(p)
      PROVE  LoadInv'
  <2>1. /\ pc[p] = "indexReplace" /\ Saving(p) /\ arg[p] \in Names /\ val[p] \in Values
        /\ Man \in ManifestT /\ Man' \in ManifestT
        /\ Man' = [Man EXCEPT !.index[arg[p]] = [meta |-> val[p], sha |-> file[arg[p]]]]
        /\ \A n \in Names : file'[n] = file[n]
        /\ Finish(p, [op |-> "save", ok |-> TRUE])
    BY <1>23, IndexPlaced
  <2>2. file[arg[p]] = val[p]
    BY <2>1 DEF LoadInv, OwnLoad, Unrecorded
  <2>3. /\ Man'.index[arg[p]] = [meta |-> val[p], sha |-> val[p]]
        /\ \A n \in Names \ {arg[p]} : Man'.index[n] = Man.index[n]
    BY <2>1, <2>2 DEF ManifestT
  <2>4. \A n \in Names \ {arg[p]} : Recorded(n)' <=> Recorded(n)
    BY <2>1, <2>3 DEF Recorded, Readable
  <2>5. ASSUME NEW n \in Names, Recorded(n)'
        PROVE  Man'.index[n].sha = Man'.index[n].meta
    BY <2>3, <2>4, <2>5 DEF LoadInv, RecordsTrue
  <2>6. OwnLoad(p)'
    BY <2>1 DEF Finish, OwnLoad, Unrecorded, Saving, SavePCs, InitPCs, InLoad
  <2>7. ASSUME NEW q \in Procs \ {p}
        PROVE  OwnLoad(q)'
    <3>1. pc[q] \notin SavePCs
      BY <2>1, OthersQuiet DEF SaveInv
    <3>2. InLoad(q) => arg[q] # arg[p] /\ arg[q] \in Names
      BY <2>1, Apart DEF InLoad, LoadPCs
    <3>3. pc'[q] = pc[q] /\ arg'[q] = arg[q] /\ copy'[q] = copy[q] /\ out'[q] = out[q]
      BY <2>1 DEF Finish
    <3> QED BY <2>1, <2>3, <2>4, <3>1, <3>2, <3>3 DEF LoadInv, OwnLoad, Unrecorded, Saving,
            SavePCs, InLoad
  <2>8. Overlap = "none" => TakeTurns'
    BY <1>23, TurnsKept DEF LoadInv, StepOf, SaveStep
  <2> QED BY <2>5, <2>6, <2>7, <2>8 DEF LoadInv, RecordsTrue, Man, Recorded, Readable
<1>24. CASE UNCHANGED vars
  BY <1>24 DEF vars, LoadInv, TakeTurns, RecordsTrue, OwnLoad, Unrecorded, Saving, InLoad,
     Recorded, Readable, Man
<1> QED
  BY <1>1, <1>2, <1>3, <1>4, <1>5, <1>6, <1>7, <1>8, <1>9, <1>10, <1>11, <1>12, <1>13,
     <1>14, <1>15, <1>16, <1>17, <1>18, <1>19, <1>20, <1>21, <1>22, <1>23, <1>24 DEF Next,
     SaveStep, ReadStep

\* A load returns the ciphertext its metadata was written for, when calls take
\* turns, and beside a save when nothing that is recorded is saved again.
THEOREM LoadsAreSound == Orderly => (Spec => []LoadSound)
<1> SUFFICES ASSUME Orderly
             PROVE  Spec => []LoadSound
  OBVIOUS
<1>0. Overlap # "writers"
  BY DEF Orderly
<1>1. Init => TypeInv /\ SaveInv /\ MaterialInv /\ LoadInv
  BY InitTypeInv, InitSaveInv, InitMaterialInv, InitLoadInv
<1>2. TypeInv /\ SaveInv /\ MaterialInv /\ LoadInv /\ [Next]_vars
        => (TypeInv /\ SaveInv /\ MaterialInv /\ LoadInv)'
  BY <1>0, StepTypeInv, StepSaveInv, StepMaterialInv, StepLoadInv
<1>3. LoadInv => LoadSound
  BY DEF LoadInv, OwnLoad, LoadSound
<1> QED BY <1>1, <1>2, <1>3, PTL DEF Spec

-----------------------------------------------------------------------------
(* The refinement: a step of the workspace is a step of ArtifactStore on   *)
(* the views of its state, or leaves them as they are.                     *)

StoreStep == [Store!Next]_<<storeView, requestView>>

LEMMA SameStore ==
  ASSUME Man' = Man, \A n \in Names : file'[n] = file[n]
  PROVE  storeView' = storeView
  BY DEF storeView, Recorded, Readable

(* The request of a process is a matter of its own call.                   *)
LEMMA SameRequests ==
  ASSUME NEW p \in Procs, Others(p)
  PROVE  requestView' = [requestView EXCEPT ![p] = requestView'[p]]
<1>1. \A q \in Procs \ {p} : requestView'[q] = requestView[q]
  BY DEF requestView, Others, Saving
<1>2. requestView = [q \in Procs |-> requestView[q]]
      /\ requestView' = [q \in Procs |-> requestView'[q]]
  BY DEF requestView
<1> QED BY <1>1, <1>2

(* A step that only ends or forgets the request of p.                      *)
LEMMA DropOrStutter ==
  ASSUME NEW p \in Procs, Others(p), Man' = Man, \A n \in Names : file'[n] = file[n],
         requestView'[p] \in {None, requestView[p]}
  PROVE  StoreStep
<1>1. storeView' = storeView
  BY SameStore
<1>2. requestView' = [requestView EXCEPT ![p] = requestView'[p]]
  BY SameRequests
<1>3. requestView = [q \in Procs |-> requestView[q]]
  BY DEF requestView
<1>4. CASE requestView'[p] = requestView[p]
  BY <1>1, <1>2, <1>3, <1>4 DEF StoreStep
<1>5. CASE requestView'[p] = None /\ requestView[p] # None
  BY <1>1, <1>2, <1>5 DEF StoreStep, Store!Next, Store!Drop
<1> QED BY <1>4, <1>5

(* What is pending of a call.                                              *)
LEMMA SaveRequest ==
  ASSUME NEW p \in Procs, Saving(p)
  PROVE  requestView[p] = [op |-> "save", name |-> arg[p], val |-> val[p]]
  BY DEF requestView

(* The proof that a step implements the map of artifacts: one step per action. *)
LEMMA StepStore ==
  ASSUME Orderly, TypeInv, SaveInv, MaterialInv, LoadInv, [Next]_vars
  PROVE  StoreStep
<1> USE DEF TypeInv, TypeOK, CallsOK, Goto, CallInv
<1>1. ASSUME NEW p \in Procs, NEW b \in Bundles, Create(p, b)
      PROVE  StoreStep
  <2>1. file' = file /\ Man' = Man
    BY <1>1 DEF Create, Man
  <2>2. requestView'[p] \in {None, requestView[p]}
    BY <1>1 DEF Create, requestView, Saving, SavePCs, InitPCs
  <2> QED BY <1>1, <2>1, <2>2, OthersKept, DropOrStutter DEF StepOf
<1>2. ASSUME NEW p \in Procs, BeginOpen(p)
      PROVE  StoreStep
  <2>1. file' = file /\ Man' = Man
    BY <1>2 DEF BeginOpen, Man
  <2>2. requestView'[p] \in {None, requestView[p]}
    BY <1>2 DEF BeginOpen, requestView, Saving, SavePCs, InitPCs
  <2> QED BY <1>2, <2>1, <2>2, OthersKept, DropOrStutter DEF StepOf
<1>3. ASSUME NEW p \in Procs, OpenVerify(p)
      PROVE  StoreStep
  <2>1. file' = file /\ Man' = Man
    BY <1>3 DEF OpenVerify, Raise, Finish, Man
  <2>2. requestView'[p] \in {None, requestView[p]}
    BY <1>3 DEF OpenVerify, Raise, Finish, requestView, Saving, SavePCs, InitPCs
  <2> QED BY <1>3, <2>1, <2>2, OthersKept, DropOrStutter DEF StepOf, ReadStep
<1>4. ASSUME NEW p \in Procs, OpenRestore(p)
      PROVE  StoreStep
  <2>1. file' = file /\ Man' = Man
    BY <1>4 DEF OpenRestore, Finish, Man
  <2>2. requestView'[p] \in {None, requestView[p]}
    BY <1>4 DEF OpenRestore, Finish, requestView, Saving, SavePCs, InitPCs
  <2> QED BY <1>4, <2>1, <2>2, OthersKept, DropOrStutter DEF StepOf, ReadStep
<1>5. ASSUME NEW p \in Procs, Crash(p)
      PROVE  StoreStep
  <2>1. file' = file /\ Man' = Man
    BY <1>5 DEF Crash, Finish, Man
  <2>2. requestView'[p] \in {None, requestView[p]}
    BY <1>5 DEF Crash, Finish, requestView, Saving, SavePCs, InitPCs
  <2> QED BY <1>5, <2>1, <2>2, OthersKept, DropOrStutter DEF StepOf
<1>6. ASSUME NEW p \in Procs, CheckManifest(p)
      PROVE  StoreStep
  <2>1. file' = file /\ Man' = Man
    BY <1>6 DEF CheckManifest, Man
  <2>2. requestView'[p] \in {None, requestView[p]}
    BY <1>6 DEF CheckManifest, requestView, Saving, SavePCs, InitPCs
  <2> QED BY <1>6, <2>1, <2>2, OthersKept, DropOrStutter DEF StepOf, SaveStep
<1>7. ASSUME NEW p \in Procs, MakeDirectory(p)
      PROVE  StoreStep
  <2>1. file' = file /\ Man' = Man
    BY <1>7 DEF MakeDirectory, Raise, Finish, Man
  <2>2. requestView'[p] \in {None, requestView[p]}
    BY <1>7 DEF MakeDirectory, Raise, Finish, requestView, Saving, SavePCs, InitPCs
  <2> QED BY <1>7, <2>1, <2>2, OthersKept, DropOrStutter DEF StepOf, SaveStep
<1>8. ASSUME NEW p \in Procs, NEW f \in MaterialFiles, ExportMaterial(p, f)
      PROVE  StoreStep
  <2>1. file' = file /\ Man' = Man
    BY <1>8 DEF ExportMaterial, Man
  <2>2. requestView'[p] \in {None, requestView[p]}
    BY <1>8 DEF ExportMaterial, requestView, Saving, SavePCs, InitPCs
  <2> QED BY <1>8, <2>1, <2>2, OthersKept, DropOrStutter DEF StepOf, SaveStep
<1>9. ASSUME NEW p \in Procs, DescribeMaterial(p)
      PROVE  StoreStep
  <2>1. file' = file /\ Man' = Man
    BY <1>9 DEF DescribeMaterial, Man
  <2>2. requestView'[p] \in {None, requestView[p]}
    BY <1>9 DEF DescribeMaterial, requestView, Saving, SavePCs, InitPCs
  <2> QED BY <1>9, <2>1, <2>2, OthersKept, DropOrStutter DEF StepOf, SaveStep
<1>10. ASSUME NEW p \in Procs, OpenManifest(p)
      PROVE  StoreStep
  <2>1. file' = file /\ Man' = Man
    BY <1>10, TargetsStay DEF Man
  <2>2. requestView'[p] \in {None, requestView[p]}
    BY <1>10 DEF OpenManifest, requestView, Saving, SavePCs, InitPCs
  <2> QED BY <1>10, <2>1, <2>2, OthersKept, DropOrStutter DEF StepOf, SaveStep
<1>11. ASSUME NEW p \in Procs, WriteManifest(p)
      PROVE  StoreStep
  <2>1. file' = file /\ Man' = Man
    BY <1>11, TargetsStay DEF Man
  <2>2. requestView'[p] \in {None, requestView[p]}
    BY <1>11 DEF WriteManifest, requestView, Saving, SavePCs, InitPCs
  <2> QED BY <1>11, <2>1, <2>2, OthersKept, DropOrStutter DEF StepOf, SaveStep
<1>12. ASSUME NEW p \in Procs, ReadManifest(p)
      PROVE  StoreStep
  <2>1. file' = file /\ Man' = Man
    BY <1>12 DEF ReadManifest, Raise, Finish, Man
  <2>2. requestView'[p] \in {None, requestView[p]}
    BY <1>12 DEF ReadManifest, Raise, Finish, requestView, Saving, SavePCs, InitPCs
  <2> QED BY <1>12, <2>1, <2>2, OthersKept, DropOrStutter DEF StepOf, SaveStep
<1>13. ASSUME NEW p \in Procs, OpenCiphertext(p)
      PROVE  StoreStep
  <2>1. file' = file /\ Man' = Man
    BY <1>13, TargetsStay DEF Man
  <2>2. requestView'[p] \in {None, requestView[p]}
    BY <1>13 DEF OpenCiphertext, requestView, Saving, SavePCs, InitPCs
  <2> QED BY <1>13, <2>1, <2>2, OthersKept, DropOrStutter DEF StepOf, SaveStep
<1>14. ASSUME NEW p \in Procs, WriteCiphertext(p)
      PROVE  StoreStep
  <2>1. file' = file /\ Man' = Man
    BY <1>14, TargetsStay DEF Man
  <2>2. requestView'[p] \in {None, requestView[p]}
    BY <1>14 DEF WriteCiphertext, requestView, Saving, SavePCs, InitPCs
  <2> QED BY <1>14, <2>1, <2>2, OthersKept, DropOrStutter DEF StepOf, SaveStep
<1>15. ASSUME NEW p \in Procs, RecordCiphertext(p)
      PROVE  StoreStep
  <2>1. file' = file /\ Man' = Man
    BY <1>15 DEF RecordCiphertext, Man
  <2>2. requestView'[p] \in {None, requestView[p]}
    BY <1>15 DEF RecordCiphertext, requestView, Saving, SavePCs, InitPCs
  <2> QED BY <1>15, <2>1, <2>2, OthersKept, DropOrStutter DEF StepOf, SaveStep
<1>16. ASSUME NEW p \in Procs, LookupRecord(p)
      PROVE  StoreStep
  <2>1. file' = file /\ Man' = Man
    BY <1>16 DEF LookupRecord, Raise, Finish, Man
  <2>2. requestView'[p] \in {None, requestView[p]}
    BY <1>16 DEF LookupRecord, Raise, Finish, requestView, Saving, SavePCs, InitPCs
  <2> QED BY <1>16, <2>1, <2>2, OthersKept, DropOrStutter DEF StepOf, ReadStep
<1>17. ASSUME NEW p \in Procs, VerifyChecksum(p)
      PROVE  StoreStep
  <2>1. file' = file /\ Man' = Man
    BY <1>17 DEF VerifyChecksum, Raise, Finish, Man
  <2>2. requestView'[p] \in {None, requestView[p]}
    BY <1>17 DEF VerifyChecksum, Raise, Finish, requestView, Saving, SavePCs, InitPCs
  <2> QED BY <1>17, <2>1, <2>2, OthersKept, DropOrStutter DEF StepOf, ReadStep
<1>18. ASSUME NEW p \in Procs, NEW n \in Names, NEW v \in Values, BeginSave(p, n, v)
      PROVE  StoreStep
  <2>1. file' = file /\ Man' = Man /\ Others(p)
    BY <1>18, OthersKept DEF BeginSave, Man, StepOf
  <2>2. requestView'[p] = [op |-> "save", name |-> n, val |-> v]
    BY <1>18 DEF BeginSave, requestView, Saving, SavePCs, InitPCs
  <2>3. ~Store!Pending(p, "save") /\ ~Store!Pending(p, "load")
    BY <1>18 DEF BeginSave, Store!Pending, requestView, Saving, SavePCs, InitPCs
  <2>4. Store!Ask(p)
    BY <2>1, <2>2, <2>3, SameStore, SameRequests DEF Store!Ask
  <2> QED BY <2>4 DEF StoreStep, Store!Next
<1>19. ASSUME NEW p \in Procs, NEW n \in Names, BeginLoad(p, n)
      PROVE  StoreStep
  <2>1. file' = file /\ Man' = Man /\ Others(p)
    BY <1>19, OthersKept DEF BeginLoad, Man, StepOf
  <2>2. requestView'[p] = [op |-> "load", name |-> n, val |-> None]
    BY <1>19 DEF BeginLoad, requestView, Saving, SavePCs, InitPCs
  <2>3. ~Store!Pending(p, "save") /\ ~Store!Pending(p, "load")
    BY <1>19 DEF BeginLoad, Store!Pending, requestView, Saving, SavePCs, InitPCs
  <2>4. Store!Ask(p)
    BY <2>1, <2>2, <2>3, SameStore, SameRequests DEF Store!Ask
  <2> QED BY <2>4 DEF StoreStep, Store!Next
<1>20. ASSUME NEW p \in Procs, Deserialize(p)
      PROVE  StoreStep
  <2>1. file' = file /\ Man' = Man /\ Others(p)
    BY <1>20, OthersKept DEF Deserialize, Raise, Finish, Man, StepOf, ReadStep
  <2>2. CASE file[arg[p]] \in Values
    <3>1. /\ pc[p] = "deserialize" /\ arg[p] \in Names /\ Recorded(arg[p])
          /\ file[arg[p]] = Man.index[arg[p]].sha
          /\ Man.index[arg[p]].sha = Man.index[arg[p]].meta
      BY <1>20 DEF Deserialize, LoadInv, RecordsTrue, OwnLoad, InLoad, LoadPCs
    <3>2. storeView[arg[p]] = file[arg[p]]
      BY <3>1 DEF storeView
    <3>3. requestView[p] = [op |-> "load", name |-> arg[p], val |-> None]
      BY <3>1 DEF requestView, Saving, SavePCs, InitPCs
    <3>4. pc'[p] = "idle" /\ out'[p] = [op |-> "load", ok |-> TRUE, name |-> arg[p],
             meta |-> copy[p].index[arg[p]].meta, content |-> file[arg[p]]]
      BY <1>20, <2>2 DEF Deserialize, Finish
    <3>5. requestView'[p] = [op |-> "answer", name |-> arg[p], val |-> file[arg[p]]]
      <4>1. out'[p] \in Outcome /\ out'[p] # None
        <5>1. Man.index[arg[p]] \in Record
          BY <3>1 DEF Recorded, Readable, ManifestT, FilesOK, ContentOf, Man, Paths
        <5>2. out'[p] \in Loaded
          BY <1>20, <2>2, <3>1, <3>4, <5>1 DEF Loaded, Record, Deserialize, LoadInv, OwnLoad, InLoad
        <5> QED BY <5>2, NoneIsNoRequest DEF Outcome
      <4> QED BY <3>4, <4>1 DEF requestView, Saving, SavePCs, InitPCs
    <3>6. Store!Answer(p)
      <4>1. Store!Pending(p, "load")
        BY <3>1, <3>3, NoneIsNoRequest DEF Store!Pending, Request
      <4>2. requestView' = [requestView EXCEPT
                 ![p] = [op |-> "answer", name |-> @.name, val |-> storeView[@.name]]]
        BY <2>1, <3>2, <3>3, <3>5, SameRequests
      <4> QED BY <2>1, <2>2, <3>2, <3>3, <4>1, <4>2, SameStore DEF Store!Answer
    <3> QED BY <3>6 DEF StoreStep, Store!Next
  <2>3. CASE file[arg[p]] \notin Values
    <3>1. requestView'[p] = None
      BY <1>20, <2>3 DEF Deserialize, Raise, Finish, requestView, Saving, SavePCs, InitPCs
    <3> QED BY <2>1, <3>1, DropOrStutter
  <2> QED BY <2>2, <2>3
<1>21. ASSUME NEW p \in Procs, ReplaceInitialManifest(p)
      PROVE  StoreStep
  <2>1. /\ pc[p] = "initReplace" /\ pc' = [pc EXCEPT ![p] = "read"]
        /\ Saving(p) /\ Man' = copy[p]
        /\ UNCHANGED <<arg, val, copy, out>>
    BY <1>21, ManifestPlaced
  <2>2. Man = None /\ \A n \in Names : copy[p].index[n] = None
    BY <2>1 DEF MaterialInv, OwnMaterial, Exporting, InitPCs
  <2>3. storeView' = storeView
    BY <2>1, <2>2 DEF storeView, Recorded, Readable
  <2>4. requestView' = requestView
    BY <2>1 DEF requestView, Saving, SavePCs, InitPCs
  <2> QED BY <2>3, <2>4 DEF StoreStep
<1>22. ASSUME NEW p \in Procs, ReplaceCiphertext(p)
      PROVE  StoreStep
  <2>1. /\ pc[p] = "replace" /\ pc' = [pc EXCEPT ![p] = "hash"]
        /\ Saving(p) /\ arg[p] \in Names /\ val[p] \in Values /\ Man' = Man
        /\ \A n \in Names : file'[n] = IF n = arg[p] THEN val[p] ELSE file[n]
        /\ UNCHANGED <<arg, val, copy, out>>
    BY <1>22, CiphertextPlaced
  <2>2. requestView' = requestView
    BY <2>1 DEF requestView, Saving, SavePCs, InitPCs
  <2>3. requestView[p].name = arg[p] /\ requestView[p].val = val[p] /\ Store!Pending(p, "save")
    <3>1. requestView[p] = [op |-> "save", name |-> arg[p], val |-> val[p]]
      BY <2>1, SaveRequest
    <3>2. [op |-> "save", name |-> arg[p], val |-> val[p]] \in Request
      BY <2>1 DEF Request
    <3> QED BY <3>1, <3>2, NoneIsNoRequest DEF Store!Pending
  <2>4. storeView' = [storeView EXCEPT ![arg[p]] = storeView'[arg[p]]]
    <3>1. \A n \in Names \ {arg[p]} : storeView'[n] = storeView[n]
      BY <2>1 DEF storeView, Recorded, Readable
    <3>2. storeView = [n \in Names |-> storeView[n]] /\ storeView' = [n \in Names |-> storeView'[n]]
      BY DEF storeView
    <3> QED BY <3>1, <3>2
  <2>5. CASE ~Recorded(arg[p])
    <3>1. storeView[arg[p]] = None /\ storeView'[arg[p]] = None
      BY <2>1, <2>5 DEF storeView, Recorded, Readable
    <3>2. storeView' = storeView
      BY <2>4, <3>1 DEF storeView
    <3> QED BY <2>2, <3>2 DEF StoreStep
  <2>6. CASE Recorded(arg[p])
    <3>1. Man.index[arg[p]].sha = Man.index[arg[p]].meta /\ Recorded(arg[p])'
      BY <2>1, <2>6 DEF LoadInv, RecordsTrue, Recorded, Readable
    <3>2. storeView[arg[p]] = IF file[arg[p]] = Man.index[arg[p]].sha
                              THEN Man.index[arg[p]].meta ELSE Torn
      BY <2>1, <2>6 DEF storeView
    <3>3. storeView'[arg[p]] = IF val[p] = Man.index[arg[p]].sha THEN val[p] ELSE Torn
      BY <2>1, <3>1 DEF storeView
    <3>4. storeView[arg[p]] # None
      <4>1. Man.index[arg[p]] \in Record
        BY <2>1, <2>6 DEF Recorded, Readable, ManifestT, FilesOK, ContentOf, Man, Paths
      <4> QED BY <3>2, <4>1 DEF Record
    <3>5. CASE storeView'[arg[p]] = Torn
      BY <2>2, <2>3, <2>4, <3>4, <3>5 DEF StoreStep, Store!Next, Store!Spoil
    <3>6. CASE storeView'[arg[p]] # Torn /\ storeView[arg[p]] = Torn
      BY <2>2, <2>3, <2>4, <3>3, <3>6 DEF StoreStep, Store!Next, Store!Put
    <3>7. CASE storeView'[arg[p]] # Torn /\ storeView[arg[p]] # Torn
      <4>1. storeView'[arg[p]] = storeView[arg[p]]
        BY <3>1, <3>2, <3>3, <3>7
      <4>2. storeView' = storeView
        BY <2>4, <4>1 DEF storeView
      <4> QED BY <2>2, <4>2 DEF StoreStep
    <3> QED BY <3>5, <3>6, <3>7
  <2> QED BY <2>5, <2>6
<1>23. ASSUME NEW p \in Procs, ReplaceIndex(p)
      PROVE  StoreStep
  <2>1. /\ pc[p] = "indexReplace" /\ Saving(p) /\ arg[p] \in Names /\ val[p] \in Values
        /\ Man \in ManifestT /\ Man' \in ManifestT
        /\ Man' = [Man EXCEPT !.index[arg[p]] = [meta |-> val[p], sha |-> file[arg[p]]]]
        /\ \A n \in Names : file'[n] = file[n]
        /\ Finish(p, [op |-> "save", ok |-> TRUE])
    BY <1>23, IndexPlaced
  <2>2. file[arg[p]] = val[p] /\ Others(p)
    BY <1>23, <2>1, OthersKept DEF LoadInv, OwnLoad, Unrecorded, StepOf, SaveStep
  <2>3. /\ Man'.index[arg[p]] = [meta |-> val[p], sha |-> val[p]]
        /\ Man'.index[arg[p]] \in Record
        /\ \A n \in Names \ {arg[p]} : Man'.index[n] = Man.index[n]
    BY <2>1, <2>2 DEF ManifestT, Record
  <2>4. storeView' = [storeView EXCEPT ![arg[p]] = val[p]]
    <3>1. \A n \in Names \ {arg[p]} : storeView'[n] = storeView[n]
      BY <2>1, <2>3 DEF storeView, Recorded, Readable
    <3>2. Man' \notin {None, Torn} /\ Man'.index[arg[p]] # None
      BY <2>1, <2>3
    <3>3. \A n \in Names : n = arg[p] => storeView'[n] = val[p]
      BY <2>1, <2>2, <2>3, <3>2 DEF storeView, Recorded, Readable
    <3>4. storeView = [n \in Names |-> storeView[n]] /\ storeView' = [n \in Names |-> storeView'[n]]
      BY DEF storeView
    <3> QED BY <2>1, <3>1, <3>3, <3>4
  <2>5. requestView'[p] = None
    BY <2>1 DEF Finish, requestView, Saving, SavePCs, InitPCs
  <2>6. requestView[p].name = arg[p] /\ requestView[p].val = val[p] /\ Store!Pending(p, "save")
    <3>1. requestView[p] = [op |-> "save", name |-> arg[p], val |-> val[p]]
      BY <2>1, SaveRequest
    <3>2. [op |-> "save", name |-> arg[p], val |-> val[p]] \in Request
      BY <2>1 DEF Request
    <3> QED BY <3>1, <3>2, NoneIsNoRequest DEF Store!Pending
  <2>7. Store!Put(p)
    BY <2>2, <2>4, <2>5, <2>6, SameRequests DEF Store!Put
  <2> QED BY <2>7 DEF StoreStep, Store!Next
<1>24. CASE UNCHANGED vars
  BY <1>24 DEF vars, StoreStep, storeView, requestView, Recorded, Readable, Man, Saving
<1> QED
  BY <1>1, <1>2, <1>3, <1>4, <1>5, <1>6, <1>7, <1>8, <1>9, <1>10, <1>11, <1>12, <1>13,
     <1>14, <1>15, <1>16, <1>17, <1>18, <1>19, <1>20, <1>21, <1>22, <1>23, <1>24 DEF Next,
     SaveStep, ReadStep

\* The workspace implements the map of artifacts: a save that does not finish
\* loses the value of its own name at most, and a load answers with the value
\* of the last finished save of its name or not at all.
THEOREM StoreRefined == Orderly => (Spec => ImplementsStore)
<1> SUFFICES ASSUME Orderly
             PROVE  Spec => ImplementsStore
  OBVIOUS
<1>0. Overlap # "writers"
  BY DEF Orderly
<1>1. Init => TypeInv /\ SaveInv /\ MaterialInv /\ LoadInv
  BY InitTypeInv, InitSaveInv, InitMaterialInv, InitLoadInv
<1>2. TypeInv /\ SaveInv /\ MaterialInv /\ LoadInv /\ [Next]_vars
        => (TypeInv /\ SaveInv /\ MaterialInv /\ LoadInv)'
  BY <1>0, StepTypeInv, StepSaveInv, StepMaterialInv, StepLoadInv
<1>3. Init => Store!Init
  BY DEF Init, Store!Init, storeView, requestView, Recorded, Readable, Man, Paths, Saving,
     SavePCs, InitPCs
<1>4. TypeInv /\ SaveInv /\ MaterialInv /\ LoadInv /\ [Next]_vars => [Store!Next]_(Store!vars)
  BY StepStore DEF StoreStep, Store!vars
<1> QED BY <1>1, <1>2, <1>3, <1>4, PTL DEF Spec, ImplementsStore, Store!Spec

=============================================================================
