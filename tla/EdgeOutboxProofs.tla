-------------------------- MODULE EdgeOutboxProofs --------------------------
(***************************************************************************)
(* Proofs about EdgeOutbox, for every set of states and images, any number *)
(* of rewrites, crashes and failed calls, on a lossy network or not.       *)
(*                                                                         *)
(* The argument for the uploader is an order of versions: what it has seen *)
(* of an image at stat() is not newer than what it has hashed, that is not *)
(* newer than the object in S3, and that is not newer than the file.  For  *)
(* the publisher: only it removes files, and the name of a state's file    *)
(* says what the file holds, so it removes what it has read.               *)
(***************************************************************************)
EXTENDS EdgeOutbox, TLAPS

File == [content : Contents, readable : BOOLEAN]

Working == {"hash", "recover", "recovered", "put", "meta", "chmod", "state"}

Holding == {"quarantine", "send", "unlink"}

Markers == [Images -> 0..MaxVersion]

-----------------------------------------------------------------------------
(* The parts of the invariant. *)

AdapterOK ==
  /\ adapter \in [pc : {"idle", "check", "rename", "chmod"}, state : Nat]
  /\ adapter.pc # "idle" => adapter.state \in States

UploaderOK ==
  /\ \/ uploader \in [pc : {"idle", "pick"}, known : Markers,
                      todo : SUBSET Images]
     \/ uploader \in [pc : Working, known : Markers, todo : SUBSET Images,
                      image : Images, stat : Versions, sha : 0..MaxVersion]
  /\ \A i \in uploader.todo : file[i] > 0

\* stat <= sha <= object <= file
Candidate ==
  uploader.pc \in Working =>
    /\ uploader.stat <= file[uploader.image]
    /\ uploader.pc # "hash" => /\ uploader.stat <= uploader.sha
                               /\ uploader.sha <= file[uploader.image]
    /\ uploader.pc \in {"recovered", "meta", "chmod", "state"} =>
         uploader.sha <= s3[uploader.image]
    /\ uploader.pc \in {"recovered", "chmod", "state"} =>
         \E sized \in Versions :
           ImageContent(uploader.image, uploader.sha, sized) \in spooled

Objects == \A i \in Images : s3[i] <= file[i]

\* What a marker names is in S3, or something newer is, and was announced.
Stored(m) ==
  \A i \in Images :
    m[i] = 0 \/ \E v, sized \in Versions :
                  /\ m[i] <= v /\ v <= s3[i]
                  /\ ImageContent(i, v, sized) \in spooled

UploadInv ==
  /\ file \in Markers /\ s3 \in Markers /\ marker \in Markers
  /\ UploaderOK
  /\ Candidate
  /\ Objects
  /\ Stored(marker)
  /\ Stored(uploader.known)
  /\ ReferencesResolve

\* The name of a state's file says what it holds.
StateFiles ==
  \A id \in Ids, s \in States :
    Exists(id) => (outbox[id].content = StateContent(s) <=> id = StateId(s))

FilesInv ==
  /\ outbox \in [Ids -> {None} \cup File]
  /\ spooled \subseteq Contents
  /\ \A id \in Ids : Exists(id) => outbox[id].content \in spooled
  /\ StateFiles

PublisherOK ==
  \/ publisher \in [pc : {"idle"}]
  \/ publisher \in [pc : {"next"}, todo : SUBSET Ids]
  \/ publisher \in [pc : Holding, todo : SUBSET Ids, id : Ids,
                    message : Contents]

PublisherInv ==
  /\ PublisherOK
  /\ sent \subseteq spooled /\ received \subseteq spooled
  /\ publisher.pc # "idle" => \A id \in publisher.todo : Exists(id)
  /\ publisher.pc \in Holding =>
       /\ Exists(publisher.id)
       /\ publisher.id \notin publisher.todo
       /\ publisher.message \in spooled
       /\ \A s \in States :
            publisher.id = StateId(s) => publisher.message = StateContent(s)
       /\ publisher.pc = "unlink" => publisher.message \in sent

QuarantineInv == quarantine \subseteq Contents

CountersInv == cycles \in 0..MaxCycles /\ faults \in 0..MaxFaults

IInv ==
  /\ AdapterOK
  /\ UploadInv
  /\ FilesInv
  /\ PublisherInv
  /\ QuarantineInv
  /\ CountersInv
  /\ StatesKept

-----------------------------------------------------------------------------
(* Names and contents, used below without their definitions. *)

LEMMA IdFacts ==
  /\ \A s \in States : StateId(s) \in Ids
  /\ \A i \in Images : ImageId(i) \in Ids
  /\ \A s, t \in States : StateId(s) = StateId(t) => s = t
  /\ \A s \in States, i \in Images : StateId(s) # ImageId(i)
  /\ \A s \in States, f \in Foreign : StateId(s) # ForeignId(f)
BY DEF Ids, StateId, ImageId, ForeignId

LEMMA ContentFacts ==
  /\ \A s \in States : /\ StateContent(s) \in Contents
                       /\ StateContent(s).kind = "state"
                       /\ StateContent(s).id = s
  /\ \A f \in Foreign : /\ ForeignContent(f) \in Contents
                        /\ ForeignContent(f).kind = "foreign"
  /\ \A i \in Images, v, z \in Versions :
       /\ ImageContent(i, v, z) \in Contents
       /\ ImageContent(i, v, z).kind = "image"
       /\ ImageContent(i, v, z).id = i
       /\ ImageContent(i, v, z).version = v
<1>1. \A s \in States : StateContent(s) \in Contents
  BY DEF Contents
<1>2. \A f \in Foreign : ForeignContent(f) \in Contents
  BY DEF Contents
<1>3. \A i \in Images, v, z \in Versions : ImageContent(i, v, z) \in Contents
  BY DEF Contents
<1>4. \A s \in States : /\ StateContent(s).kind = "state"
                       /\ StateContent(s).id = s
  BY DEF StateContent
<1>5. \A f \in Foreign : ForeignContent(f).kind = "foreign"
  BY DEF ForeignContent
<1>6. \A i \in Images, v, z \in Versions :
        /\ ImageContent(i, v, z).kind = "image"
        /\ ImageContent(i, v, z).id = i
        /\ ImageContent(i, v, z).version = v
  BY DEF ImageContent
<1> QED BY <1>1, <1>2, <1>3, <1>4, <1>5, <1>6

\* A file is not the absence of one.
LEMMA FileExists == \A f \in File : f # None
<1> SUFFICES ASSUME NEW f \in File PROVE f # None
  OBVIOUS
<1>1. DOMAIN f = {"content", "readable"}
  BY DEF File
<1>2. DOMAIN None = {"kind"}
  BY DEF None
<1> QED BY <1>1, <1>2

LEMMA ImageContentsDiffer ==
  ASSUME NEW i \in Images, NEW v \in Versions, NEW z \in Versions,
         NEW j \in Images, NEW x \in Versions, NEW y \in Versions,
         ImageContent(i, v, z) = ImageContent(j, x, y)
  PROVE  i = j /\ v = x /\ z = y
BY DEF ImageContent

-----------------------------------------------------------------------------
(* Steps of the others. *)

\* The uploader's part survives a step that announces no image.
LEMMA UploadFrame ==
  ASSUME UploadInv, UNCHANGED <<file, s3, marker, uploader>>,
         spooled \subseteq spooled',
         \A c \in spooled' \ spooled : c.kind # "image"
  PROVE  UploadInv'
<1>1. UploaderOK'
  BY DEF UploadInv, UploaderOK
<1>2. Candidate'
  BY DEF UploadInv, Candidate
<1>3. Stored(marker)' /\ Stored(uploader.known)'
  BY DEF UploadInv, Stored
<1>4. ReferencesResolve'
  BY DEF UploadInv, ReferencesResolve
<1> QED BY <1>1, <1>2, <1>3, <1>4 DEF UploadInv, Objects

\* The publisher's part survives a step that removes no file.
LEMMA PublisherFrame ==
  ASSUME PublisherInv, UNCHANGED <<publisher, sent, received>>,
         spooled \subseteq spooled',
         \A id \in Ids : Exists(id) => Exists(id)'
  PROVE  PublisherInv'
<1>1. PublisherOK'
  BY DEF PublisherInv, PublisherOK
<1>2. publisher.pc # "idle" => publisher.todo \subseteq Ids
  BY DEF PublisherInv, PublisherOK, Holding
<1>3. publisher.pc \in Holding => publisher.id \in Ids
  BY DEF PublisherInv, PublisherOK, Holding
<1> QED BY <1>1, <1>2, <1>3 DEF PublisherInv

\* put(): a file of a state or of an image appears, complete.
LEMMA FilesPut ==
  ASSUME FilesInv, NEW id \in Ids, NEW c \in Contents, NEW r \in BOOLEAN,
         Put(id, c, r),
         \A s \in States : c = StateContent(s) <=> id = StateId(s)
  PROVE  /\ FilesInv'
         /\ spooled \subseteq spooled'
         /\ \A x \in Ids : Exists(x) => Exists(x)'
         /\ \A s \in States : StateContent(s) \in spooled' \ spooled =>
              outbox'[StateId(s)] # None /\ outbox'[StateId(s)].content = StateContent(s)
<1> DEFINE new == [content |-> c, readable |-> r]
<1>1. new \in File /\ new # None /\ new.content = c
  BY FileExists DEF File
<1> HIDE DEF new
<1>2. outbox' = [outbox EXCEPT ![id] = new] /\ spooled' = spooled \cup {c}
  BY DEF Put, new
<1>3. outbox' \in [Ids -> {None} \cup File]
  BY <1>1, <1>2 DEF FilesInv
<1>4. \A x \in Ids : outbox'[x] = IF x = id THEN new ELSE outbox[x]
  BY <1>2 DEF FilesInv
<1>5. \A x \in Ids : Exists(x) => Exists(x)'
  BY <1>1, <1>4 DEF Exists
<1>6. \A x \in Ids : Exists(x)' => outbox'[x].content \in spooled'
  BY <1>1, <1>2, <1>4 DEF FilesInv, Exists
<1>7. StateFiles'
  BY <1>1, <1>4 DEF FilesInv, StateFiles, Exists
<1>8. spooled' \subseteq Contents
  BY <1>2 DEF FilesInv
<1> QED BY <1>1, <1>2, <1>3, <1>4, <1>5, <1>6, <1>7, <1>8, IdFacts DEF FilesInv

\* A state that is kept in the outbox is kept under its name.
Kept ==
  \A s \in States :
    StateContent(s) \in spooled =>
      Exists(StateId(s)) \/ StateContent(s) \in quarantine
        \/ StateContent(s) \in sent

LEMMA KeptByName == FilesInv => (StatesKept <=> Kept)
<1> SUFFICES ASSUME FilesInv PROVE StatesKept <=> Kept
  OBVIOUS
<1>1. \A s \in States : InOutbox(StateContent(s)) <=> Exists(StateId(s))
  <2> SUFFICES ASSUME NEW s \in States
               PROVE  InOutbox(StateContent(s)) <=> Exists(StateId(s))
    OBVIOUS
  <2>1. StateId(s) \in Ids
    BY IdFacts
  <2>2. \A id \in Ids :
          Exists(id) => (outbox[id].content = StateContent(s)
                           <=> id = StateId(s))
    BY DEF FilesInv, StateFiles
  <2> QED BY <2>1, <2>2 DEF InOutbox
<1> QED BY <1>1 DEF StatesKept, Kept

\* Nothing leaves the outbox, and a new state is in it.
LEMMA KeptFrame ==
  ASSUME FilesInv, FilesInv', StatesKept, UNCHANGED <<quarantine, sent>>,
         \A id \in Ids : Exists(id) => Exists(id)',
         \A s \in States : StateContent(s) \in spooled' \ spooled =>
                             outbox'[StateId(s)] # None
  PROVE  StatesKept'
<1>1. Kept
  BY KeptByName
<1>2. Kept'
  <2> SUFFICES ASSUME NEW s \in States, StateContent(s) \in spooled'
               PROVE  Exists(StateId(s))' \/ StateContent(s) \in quarantine'
                        \/ StateContent(s) \in sent'
    BY DEF Kept
  <2>1. CASE StateContent(s) \in spooled
    BY <1>1, <2>1, IdFacts DEF Kept
  <2>2. CASE StateContent(s) \notin spooled
    BY <2>2 DEF Exists
  <2> QED BY <2>1, <2>2
<1>3. (FilesInv => (StatesKept <=> Kept))'
  BY KeptByName, PTL
<1> QED BY <1>2, <1>3

-----------------------------------------------------------------------------
(* The initial states. *)

LEMMA InitFiles == Init => FilesInv /\ StatesKept
<1> SUFFICES ASSUME Init PROVE FilesInv /\ StatesKept
  OBVIOUS
<1> DEFINE left(f) == [content |-> ForeignContent(f), readable |-> TRUE]
           isForeign(id) == \E f \in Foreign : id = ForeignId(f)
<1>1. outbox = [id \in Ids |-> IF isForeign(id) THEN left(id[2]) ELSE None]
  BY DEF Init
<1>2. spooled = {ForeignContent(f) : f \in Foreign}
  BY DEF Init
<1>3. \A f \in Foreign : left(f) \in File
  BY ContentFacts DEF File
<1>4. \A f : left(f).content = ForeignContent(f)
  OBVIOUS
<1>5. \A id \in Ids : isForeign(id) => id[2] \in Foreign
  BY DEF ForeignId
<1> HIDE DEF left, isForeign
<1>6. \A id \in Ids :
        \/ outbox[id] = None
        \/ \E f \in Foreign : outbox[id] = left(f)
  BY <1>1, <1>5
<1>7. outbox \in [Ids -> {None} \cup File]
  <2>1. \A id \in Ids : outbox[id] \in {None} \cup File
    BY <1>3, <1>6
  <2> QED BY <1>1, <2>1
<1>8. \A id \in Ids : Exists(id) => outbox[id].content \in spooled
  BY <1>2, <1>4, <1>6 DEF Exists
<1>9. \A id \in Ids : Exists(id) => isForeign(id)
  BY <1>1 DEF Exists
<1>10. spooled \subseteq Contents
  BY <1>2, ContentFacts
<1>11. \A c \in spooled : c.kind = "foreign"
  BY <1>2, ContentFacts
<1>12. StateFiles
  BY <1>8, <1>9, <1>11, ContentFacts, IdFacts DEF StateFiles, isForeign
<1>13. StatesKept
  BY <1>11, ContentFacts DEF StatesKept
<1> QED BY <1>7, <1>8, <1>10, <1>12, <1>13 DEF FilesInv

LEMMA InitInv == Init => IInv
<1> SUFFICES ASSUME Init PROVE IInv
  OBVIOUS
<1>1. AdapterOK
  BY DEF Init, AdapterOK, AdapterIdle
<1>2. UploadInv
  <2>1. file \in Markers /\ s3 \in Markers /\ marker \in Markers
    BY OutboxAssumption DEF Init, Markers
  <2>2. uploader.pc = "idle" /\ uploader.todo = {}
           /\ uploader.known = NothingKnown
    BY DEF Init, UploaderIdle
  <2>3. UploaderOK
    BY <2>2, OutboxAssumption
    DEF UploaderOK, Init, UploaderIdle, NothingKnown, Markers
  <2>4. Candidate
    BY <2>2 DEF Candidate, Working
  <2>5. Objects
    BY DEF Init, Objects
  <2>6. Stored(marker) /\ Stored(uploader.known)
    BY <2>2 DEF Init, Stored, NothingKnown
  <2>7. ReferencesResolve
    BY ContentFacts DEF Init, ReferencesResolve
  <2> QED BY <2>1, <2>3, <2>4, <2>5, <2>6, <2>7 DEF UploadInv
<1>3. PublisherInv
  BY DEF Init, PublisherInv, PublisherOK, PublisherIdle, Holding
<1>4. QuarantineInv /\ CountersInv
  BY OutboxAssumption DEF Init, QuarantineInv, CountersInv
<1> QED BY <1>1, <1>2, <1>3, <1>4, InitFiles DEF IInv

-----------------------------------------------------------------------------
(* The steps of the camera and of the log adapter. *)

\* A step that leaves the outbox alone.
LEMMA FilesFrame ==
  ASSUME FilesInv, StatesKept, UNCHANGED <<outbox, spooled>>,
         quarantine \subseteq quarantine', sent \subseteq sent'
  PROVE  FilesInv' /\ StatesKept'
<1>1. FilesInv'
  BY DEF FilesInv, StateFiles, Exists
<1>2. \A c : InOutbox(c) => InOutbox(c)'
  BY DEF InOutbox, Exists
<1>3. StatesKept'
  BY <1>2 DEF StatesKept
<1> QED BY <1>1, <1>3

LEMMA WriteImageInv ==
  ASSUME IInv, NEW i \in Images, WriteImage(i)
  PROVE  IInv'
<1> USE DEF WriteImage
<1>1. \A j \in Images : file'[j] >= file[j]
  BY OutboxAssumption DEF IInv, UploadInv, Markers
<1>2. file' \in Markers
  BY OutboxAssumption DEF IInv, UploadInv, Markers
<1>3. UploaderOK'
  BY <1>1, <1>2, OutboxAssumption
  DEF IInv, UploadInv, UploaderOK, Markers
<1>4. uploader.pc \in Working =>
        /\ uploader.image \in Images /\ uploader.stat \in Versions
        /\ uploader.sha \in 0..MaxVersion
  BY DEF IInv, UploadInv, UploaderOK, Working
<1>5. Candidate'
  BY <1>1, <1>2, <1>4, OutboxAssumption
  DEF IInv, UploadInv, Candidate, Markers, Versions
<1>6. Objects'
  BY <1>1, <1>2, OutboxAssumption DEF IInv, UploadInv, Objects, Markers
<1>7. Stored(marker)' /\ Stored(uploader.known)' /\ ReferencesResolve'
  BY DEF IInv, UploadInv, Stored, ReferencesResolve
<1>8. UploadInv'
  BY <1>2, <1>3, <1>5, <1>6, <1>7 DEF IInv, UploadInv
<1>9. FilesInv' /\ StatesKept'
  BY FilesFrame DEF IInv
<1>10. PublisherInv'
  BY PublisherFrame DEF IInv, Exists
<1> QED BY <1>8, <1>9, <1>10
        DEF IInv, AdapterOK, QuarantineInv, CountersInv

\* The adapter's steps that touch no file.
LEMMA AdapterQuiet ==
  ASSUME IInv, AdapterOK', CountersInv',
         UNCHANGED <<outbox, spooled, adapterRest>>
  PROVE  IInv'
<1> USE DEF adapterRest
<1>1. FilesInv' /\ StatesKept'
  BY FilesFrame DEF IInv
<1>2. UploadInv'
  BY UploadFrame DEF IInv
<1>3. PublisherInv'
  BY PublisherFrame DEF IInv, Exists
<1> QED BY <1>1, <1>2, <1>3 DEF IInv, QuarantineInv

LEMMA AdapterInv ==
  ASSUME IInv,
         (\E s \in States : AdapterBuild(s)) \/ AdapterStep \/ AdapterCrash
  PROVE  IInv'
<1>1. ASSUME NEW s \in States, AdapterBuild(s) PROVE IInv'
  <2>1. AdapterOK'
    BY <1>1, OutboxAssumption DEF AdapterBuild, AdapterOK
  <2>2. CountersInv'
    BY <1>1, OutboxAssumption DEF AdapterBuild, IInv, CountersInv
  <2> QED BY <1>1, <2>1, <2>2, AdapterQuiet DEF AdapterBuild
<1>2. CASE AdapterCheck
  <2>1. AdapterOK'
    BY <1>2 DEF AdapterCheck, AdapterGoto, IInv, AdapterOK
  <2>2. CountersInv'
    BY <1>2 DEF AdapterCheck, IInv, CountersInv
  <2> QED BY <1>2, <2>1, <2>2, AdapterQuiet DEF AdapterCheck
<1>3. CASE AdapterCrash
  <2>1. AdapterOK'
    BY <1>3 DEF AdapterCrash, AdapterGoto, IInv, AdapterOK
  <2>2. CountersInv'
    BY <1>3, OutboxAssumption DEF AdapterCrash, IInv, CountersInv
  <2> QED BY <1>3, <2>1, <2>2, AdapterQuiet DEF AdapterCrash
<1>4. CASE AdapterRename
  <2> USE <1>4 DEF AdapterRename, adapterRest
  <2>1. adapter.state \in States
    BY DEF IInv, AdapterOK
  <2>2. AdapterOK'
    BY DEF AdapterGoto, IInv, AdapterOK
  <2> DEFINE id == StateId(adapter.state)
             c == StateContent(adapter.state)
  <2>3. id \in Ids /\ c \in Contents /\ Put(id, c, FALSE)
    BY <2>1, IdFacts, ContentFacts
  <2>4. \A s \in States : c = StateContent(s) <=> id = StateId(s)
    BY <2>1, IdFacts, ContentFacts
  <2>5. spooled' = spooled \cup {c} /\ c.kind # "image"
    BY <2>1, ContentFacts DEF Put
  <2> HIDE DEF id, c
  <2>6. /\ FilesInv'
        /\ \A x \in Ids : Exists(x) => Exists(x)'
        /\ \A s \in States : StateContent(s) \in spooled' \ spooled =>
             outbox'[StateId(s)] # None
    BY <2>3, <2>4, FilesPut DEF IInv
  <2>7. StatesKept'
    BY <2>6, KeptFrame DEF IInv
  <2>8. UploadInv'
    BY <2>5, UploadFrame DEF IInv
  <2>9. PublisherInv'
    BY <2>5, <2>6, PublisherFrame DEF IInv
  <2> QED BY <2>2, <2>6, <2>7, <2>8, <2>9 DEF IInv, QuarantineInv, CountersInv
<1>5. CASE AdapterChmod
  <2> USE <1>5 DEF AdapterChmod, adapterRest
  <2>1. AdapterOK'
    BY DEF AdapterGoto, IInv, AdapterOK
  <2> DEFINE id == StateId(adapter.state)
             new == [outbox[id] EXCEPT !.readable = TRUE]
  <2>2. CASE ~Exists(id)
    <3>1. outbox' = outbox
      BY <2>2
    <3> QED BY <3>1, <2>1, AdapterQuiet DEF IInv, CountersInv
  <2>3. CASE Exists(id)
    <3>1. id \in Ids
      BY IdFacts DEF IInv, AdapterOK
    <3>2. outbox[id] \in File
      BY <2>3, <3>1 DEF IInv, FilesInv, Exists
    <3>3. new \in File /\ new.content = outbox[id].content
      BY <3>2 DEF File
    <3>4. outbox' = [outbox EXCEPT ![id] = new]
      BY <2>3
    <3> HIDE DEF id, new
    <3>5. outbox' \in [Ids -> {None} \cup File]
      BY <3>1, <3>3, <3>4 DEF IInv, FilesInv
    <3>6. \A x \in Ids : outbox'[x] = IF x = id THEN new ELSE outbox[x]
      BY <3>4 DEF IInv, FilesInv
    <3>7. \A x \in Ids :
            Exists(x)' = Exists(x) /\
            (Exists(x) => outbox'[x].content = outbox[x].content)
      BY <2>3, <3>3, <3>6, FileExists DEF Exists
    <3>8. StateFiles'
      BY <3>7 DEF IInv, FilesInv, StateFiles
    <3>9. FilesInv'
      BY <3>5, <3>7, <3>8 DEF IInv, FilesInv
    <3>10. StatesKept'
      BY <3>7, <3>9, KeptFrame DEF IInv
    <3>11. UploadInv'
      BY UploadFrame DEF IInv
    <3>12. PublisherInv'
      BY <3>7, PublisherFrame DEF IInv
    <3> QED BY <2>1, <3>9, <3>10, <3>11, <3>12
            DEF IInv, QuarantineInv, CountersInv
  <2> QED BY <2>2, <2>3
<1> QED BY <1>1, <1>2, <1>3, <1>4, <1>5 DEF AdapterStep

-----------------------------------------------------------------------------
(* The steps of the uploader. *)

LEMMA ImageContents ==
  \A c \in Contents :
    c.kind = "image" =>
      \E i \in Images, v, z \in Versions : c = ImageContent(i, v, z)
BY DEF Contents, StateContent, ForeignContent

LEMMA UploaderTypes ==
  ASSUME UploadInv
  PROVE  /\ file \in [Images -> Nat] /\ s3 \in [Images -> Nat]
         /\ uploader.known \in Markers
         /\ uploader.todo \subseteq Images
         /\ uploader.pc \in {"idle", "pick"} =>
              uploader \in [pc : {"idle", "pick"}, known : Markers,
                            todo : SUBSET Images]
         /\ uploader.pc \in Working =>
              uploader \in [pc : Working, known : Markers, todo : SUBSET Images,
                            image : Images, stat : Versions,
                            sha : 0..MaxVersion]
<1>1. file \in [Images -> Nat] /\ s3 \in [Images -> Nat]
  BY OutboxAssumption DEF UploadInv, Markers
<1> QED BY <1>1 DEF UploadInv, UploaderOK, Working

\* Objects in S3 are only replaced by newer ones, and what is announced is in S3.
LEMMA UploadStep ==
  ASSUME UploadInv, spooled \subseteq Contents, file' = file,
         s3' \in Markers, marker' \in Markers, spooled \subseteq spooled',
         \A i \in Images : s3[i] <= s3'[i] /\ s3'[i] <= file[i],
         \A c \in spooled' \ spooled : c.kind = "image" => s3'[c.id] >= c.version,
         UploaderOK', Candidate',
         \/ marker' = marker
         \/ marker' = uploader'.known,
         \/ uploader'.known = uploader.known
         \/ uploader'.known = marker
         \/ uploader'.known = NothingKnown
         \/ Stored(uploader.known)'
  PROVE  UploadInv'
<1>1. s3 \in [Images -> Nat] /\ s3' \in [Images -> Nat]
  BY OutboxAssumption DEF UploadInv, Markers
<1>2. ASSUME NEW m \in Markers, Stored(m)
      PROVE  \A i \in Images :
               m[i] = 0 \/ \E v, sized \in Versions :
                             /\ m[i] <= v /\ v <= s3'[i]
                             /\ ImageContent(i, v, sized) \in spooled'
  BY <1>1, <1>2, OutboxAssumption DEF Stored, Versions, Markers
<1>3. Stored(uploader.known)'
  <2>1. CASE uploader'.known = uploader.known
    BY <1>2, <2>1, UploaderTypes DEF UploadInv, Stored
  <2>2. CASE uploader'.known = marker
    BY <1>2, <2>2 DEF UploadInv, Stored
  <2>3. CASE uploader'.known = NothingKnown
    BY <2>3 DEF NothingKnown, Stored
  <2> QED BY <2>1, <2>2, <2>3
<1>4. Stored(marker)'
  <2>1. CASE marker' = marker
    BY <1>2, <2>1 DEF UploadInv, Stored
  <2>2. CASE marker' = uploader'.known
    BY <1>3, <2>2 DEF Stored
  <2> QED BY <2>1, <2>2
<1>5. ReferencesResolve'
  <2> SUFFICES ASSUME NEW c \in spooled', c.kind = "image"
               PROVE  s3'[c.id] >= c.version
    BY DEF ReferencesResolve
  <2>1. CASE c \in spooled
    <3>1. PICK i \in Images, v \in Versions, z \in Versions :
            c = ImageContent(i, v, z)
      BY <2>1, ImageContents
    <3>2. c.id = i /\ c.version = v /\ v \in Nat
      BY <3>1, ContentFacts, OutboxAssumption DEF Versions
    <3>3. s3[c.id] >= c.version
      BY <2>1 DEF UploadInv, ReferencesResolve
    <3> QED BY <1>1, <3>2, <3>3
  <2> QED BY <2>1
<1>6. Objects'
  BY DEF Objects
<1> QED BY <1>3, <1>4, <1>5, <1>6 DEF UploadInv

\* The uploader's steps that write nothing into the outbox.
LEMMA UploaderQuiet ==
  ASSUME IInv, UploadInv', faults' \in 0..MaxFaults,
         UNCHANGED <<outbox, spooled, uploaderRest>>
  PROVE  IInv'
<1> USE DEF uploaderRest
<1>1. FilesInv' /\ StatesKept'
  BY FilesFrame DEF IInv
<1>2. PublisherInv'
  BY PublisherFrame DEF IInv, Exists
<1> QED BY <1>1, <1>2 DEF IInv, AdapterOK, QuarantineInv, CountersInv

\* The uploader between two images.
LEMMA UploaderPicks ==
  ASSUME IInv, NEW p \in {"idle", "pick"}, NEW known \in Markers,
         NEW todo \in SUBSET Images, \A i \in todo : file[i] > 0,
         uploader' = [pc |-> p, known |-> known, todo |-> todo],
         file' = file
  PROVE  UploaderOK' /\ Candidate' /\ uploader'.known = known
<1>1. UploaderOK'
  BY DEF UploaderOK
<1>2. Candidate'
  BY DEF Candidate, Working
<1> QED BY <1>1, <1>2

\* The objects do not change.
LEMMA SameObjects ==
  ASSUME IInv, s3' = s3
  PROVE  /\ s3' \in Markers
         /\ \A i \in Images : s3[i] <= s3'[i] /\ s3'[i] <= file[i]
BY UploaderTypes DEF IInv, UploadInv, Objects

\* One object is replaced by what the file holds.
LEMMA NewObject ==
  ASSUME IInv, NEW i \in Images, s3' = [s3 EXCEPT ![i] = file[i]]
  PROVE  /\ s3' \in Markers
         /\ \A j \in Images : s3[j] <= s3'[j] /\ s3'[j] <= file[j]
         /\ s3'[i] = file[i]
BY UploaderTypes DEF IInv, UploadInv, Objects, Markers

\* What write_state() stores was uploaded and announced.
LEMMA KnownStored ==
  ASSUME UploadInv, uploader.pc \in {"recovered", "state"}
  PROVE  Stored(Known)
<1> DEFINE i == uploader.image
<1>1. /\ i \in Images /\ uploader.stat \in 1..MaxVersion
      /\ uploader.sha \in 0..MaxVersion
      /\ uploader.known \in Markers
  BY UploaderTypes DEF Working, Versions
<1>2. /\ uploader.stat <= uploader.sha /\ uploader.sha <= s3[i]
      /\ \E sized \in Versions :
           ImageContent(i, uploader.sha, sized) \in spooled
  BY DEF UploadInv, Candidate, Working
<1>3. uploader.sha \in Versions
  BY <1>1, <1>2, OutboxAssumption DEF Versions
<1>4. \A j \in Images :
        Known[j] = IF j = i THEN uploader.stat ELSE uploader.known[j]
  BY <1>1 DEF Known, Markers
<1> HIDE DEF i
<1>5. SUFFICES ASSUME NEW j \in Images
               PROVE  Known[j] = 0 \/ \E v, sized \in Versions :
                        /\ Known[j] <= v /\ v <= s3[j]
                        /\ ImageContent(j, v, sized) \in spooled
  BY DEF Stored
<1>6. CASE j = i
  BY <1>2, <1>3, <1>4, <1>6
<1>7. CASE j # i
  BY <1>4, <1>7 DEF UploadInv, Stored
<1> QED BY <1>6, <1>7

\* Scan, end, and what ends the work on an image without a new marker.
LEMMA UploaderBetween ==
  ASSUME IInv,
         \/ UploaderScan \/ UploaderEnd \/ UploaderCrash
         \/ \E i \in Images : UploaderPick(i)
         \/ UploaderState
  PROVE  IInv'
<1> USE UploaderTypes, SameObjects, UploaderQuiet, OutboxAssumption
<1>1. spooled \subseteq Contents /\ UploadInv /\ marker \in Markers
  BY DEF IInv, FilesInv, UploadInv
<1>2. CASE UploaderScan
  <2>1. UploaderOK' /\ Candidate' /\ uploader'.known = marker
    BY <1>1, <1>2, UploaderPicks DEF UploaderScan, uploaderRest
  <2>2. UploadInv'
    BY <1>1, <1>2, <2>1, UploadStep DEF UploaderScan, uploaderRest
  <2> QED BY <1>2, <2>2 DEF UploaderScan, IInv, CountersInv
<1>3. CASE UploaderEnd
  <2>1. NothingKnown \in Markers
    BY DEF NothingKnown, Markers
  <2>2. UploaderOK' /\ Candidate' /\ uploader'.known = NothingKnown
    BY <1>3, <2>1, UploaderPicks DEF UploaderEnd, UploaderIdle, uploaderRest
  <2>3. UploadInv'
    BY <1>1, <1>3, <2>2, UploadStep DEF UploaderEnd, uploaderRest
  <2> QED BY <1>3, <2>3 DEF UploaderEnd, IInv, CountersInv
<1>4. CASE UploaderCrash
  <2>1. NothingKnown \in Markers
    BY DEF NothingKnown, Markers
  <2>2. UploaderOK' /\ Candidate' /\ uploader'.known = NothingKnown
    BY <1>4, <2>1, UploaderPicks DEF UploaderCrash, UploaderIdle, uploaderRest
  <2>3. UploadInv'
    BY <1>1, <1>4, <2>2, UploadStep DEF UploaderCrash, uploaderRest
  <2>4. faults' \in 0..MaxFaults
    BY <1>4 DEF UploaderCrash, IInv, CountersInv
  <2> QED BY <1>4, <2>3, <2>4 DEF UploaderCrash
<1>5. ASSUME NEW i \in Images, UploaderPick(i) PROVE IInv'
  <2> USE <1>5 DEF UploaderPick, uploaderRest
  <2>1. /\ uploader \in [pc : {"idle", "pick"}, known : Markers,
                         todo : SUBSET Images]
        /\ \A j \in uploader.todo : file[j] > 0
    BY <1>1 DEF UploadInv, UploaderOK
  <2>2. UploaderOK' /\ Candidate' /\ uploader'.known = uploader.known
    <3>1. CASE uploader.known[i] = file[i]
      <4>1. uploader' = [pc |-> "pick", known |-> uploader.known,
                         todo |-> uploader.todo \ {i}]
        BY <2>1, <3>1
      <4> QED BY <2>1, <4>1, UploaderPicks
    <3>2. CASE uploader.known[i] # file[i]
      <4>1. uploader' = [pc |-> "hash", known |-> uploader.known,
                         todo |-> uploader.todo \ {i}, image |-> i,
                         stat |-> file[i], sha |-> 0]
        BY <3>2
      <4>2. file[i] \in Versions
        BY <1>1, <2>1 DEF UploadInv, Markers, Versions
      <4>3. UploaderOK'
        BY <2>1, <4>1, <4>2 DEF UploaderOK, Working
      <4>4. Candidate'
        BY <1>1, <4>1 DEF Candidate
      <4> QED BY <4>1, <4>3, <4>4
    <3> QED BY <3>1, <3>2
  <2>3. UploadInv'
    BY <1>1, <2>2, UploadStep
  <2> QED BY <2>3 DEF IInv, CountersInv
<1>6. CASE UploaderState
  <2> USE <1>6 DEF UploaderState, uploaderRest, UploaderNext
  <2>1. /\ uploader.pc \in Working /\ uploader.image \in Images
        /\ uploader.stat \in Versions /\ uploader.sha \in 0..MaxVersion
        /\ \A i \in uploader.todo : file[i] > 0
    BY <1>1 DEF UploadInv, UploaderOK, Working
  <2>2. Known \in Markers
    BY <1>1, <2>1 DEF Known, Markers, Versions
  <2>3. UploaderOK' /\ Candidate' /\ uploader'.known = Known
    BY <1>1, <2>1, <2>2, UploaderPicks
  <2>4. Stored(Known)
    BY <1>1, KnownStored
  <2>5. Stored(uploader.known)'
    BY <2>3, <2>4 DEF Stored
  <2>6. UploadInv'
    BY <1>1, <2>2, <2>3, <2>5, UploadStep
  <2> QED BY <2>6 DEF IInv, CountersInv
<1> QED BY <1>2, <1>3, <1>4, <1>5, <1>6

\* The work on one image, without the metadata file.
LEMMA UploaderWorks ==
  ASSUME IInv,
         UploaderHash \/ UploaderRecover \/ UploaderPut \/ UploaderChmod
  PROVE  IInv'
<1> USE UploaderTypes, OutboxAssumption
<1>1. /\ spooled \subseteq Contents /\ UploadInv /\ marker \in Markers
      /\ \A i \in uploader.todo : file[i] > 0
      /\ faults \in 0..MaxFaults
  BY DEF IInv, FilesInv, UploadInv, UploaderOK, CountersInv
<1>2. CASE UploaderHash
  <2> USE <1>2 DEF UploaderHash, uploaderRest
  <2>1. uploader.pc \in Working
    BY DEF Working
  <2>2. UploaderOK'
    BY <1>1, <2>1 DEF UploaderOK, Working, UploadInv, Markers
  <2>3. Candidate'
    BY <1>1, <2>1 DEF Candidate, UploadInv, Working, Markers
  <2>4. uploader'.known = uploader.known
    BY <1>1, <2>1
  <2>5. UploadInv'
    BY <1>1, <2>2, <2>3, <2>4, SameObjects, UploadStep
  <2> QED BY <1>1, <2>5, UploaderQuiet
<1>3. CASE UploaderRecover
  <2> USE <1>3 DEF UploaderRecover, uploaderRest
  <2>1. uploader.pc \in Working
    BY DEF Working
  <2>2. uploader.sha \in Versions /\ uploader.image \in Images
    BY <1>1, <2>1 DEF Candidate, UploadInv, Working, Versions
  <2>3. UploaderOK' /\ uploader'.known = uploader.known
    BY <1>1, <2>1 DEF UploaderOK, Working
  <2>4. Candidate'
    <3>1. ASSUME NEW sized \in Versions,
                 Waiting(uploader.image, uploader.sha, sized)
          PROVE  /\ ImageContent(uploader.image, uploader.sha, sized) \in spooled
                 /\ uploader.sha <= s3[uploader.image]
      <4>1. ImageContent(uploader.image, uploader.sha, sized) \in spooled
        BY <2>2, <3>1, IdFacts DEF Waiting, IInv, FilesInv
      <4>2. s3[uploader.image] >= uploader.sha
        BY <1>1, <2>2, <4>1, ContentFacts DEF UploadInv, ReferencesResolve
      <4> QED BY <1>1, <2>2, <4>1, <4>2 DEF Versions
    <3>2. CASE \E sized \in Versions :
                 Waiting(uploader.image, uploader.sha, sized)
      BY <1>1, <2>1, <3>1, <3>2 DEF Candidate, UploadInv, Working
    <3>3. CASE ~ \E sized \in Versions :
                   Waiting(uploader.image, uploader.sha, sized)
      BY <1>1, <2>1, <3>3 DEF Candidate, UploadInv, Working
    <3> QED BY <3>2, <3>3
  <2>5. UploadInv'
    BY <1>1, <2>3, <2>4, SameObjects, UploadStep
  <2> QED BY <1>1, <2>5, UploaderQuiet
<1>4. CASE UploaderPut
  <2> USE <1>4 DEF UploaderPut, uploaderRest
  <2>1. uploader.pc \in Working
    BY DEF Working
  <2>2. UploaderOK' /\ uploader'.known = uploader.known
    BY <1>1, <2>1 DEF UploaderOK, Working
  <2>3. /\ s3' \in Markers
        /\ \A j \in Images : s3[j] <= s3'[j] /\ s3'[j] <= file[j]
        /\ s3'[uploader.image] = file[uploader.image]
    BY <1>1, <2>1, NewObject
  <2>4. Candidate'
    BY <1>1, <2>1, <2>3 DEF Candidate, UploadInv, Working
  <2>5. UploadInv'
    BY <1>1, <2>2, <2>3, <2>4, UploadStep
  <2> QED BY <1>1, <2>5, UploaderQuiet
<1>5. CASE UploaderChmod
  <2> USE <1>5 DEF UploaderChmod, uploaderRest, UploaderNext
  <2>1. uploader.pc \in Working
    BY DEF Working
  <2>2. UploaderOK' /\ Candidate' /\ uploader'.known = uploader.known
    <3>1. CASE Exists(ImageId(uploader.image))
      BY <1>1, <2>1, <3>1 DEF UploaderOK, Candidate, UploadInv, Working
    <3>2. CASE ~Exists(ImageId(uploader.image))
      <4>1. uploader' = [pc |-> "pick", known |-> uploader.known,
                         todo |-> uploader.todo]
        BY <3>2
      <4> QED BY <1>1, <2>1, <4>1, UploaderPicks
    <3> QED BY <3>1, <3>2
  <2>3. UploadInv'
    BY <1>1, <2>2, SameObjects, UploadStep
  <2> QED BY <1>1, <2>3, UploaderQuiet
<1> QED BY <1>2, <1>3, <1>4, <1>5

LEMMA UploaderMetaInv ==
  ASSUME IInv, UploaderMeta
  PROVE  IInv'
<1> USE UploaderTypes, OutboxAssumption DEF UploaderMeta, uploaderRest
<1> DEFINE id == ImageId(uploader.image)
           c == ImageContent(uploader.image, uploader.sha, uploader.stat)
<1>1. /\ spooled \subseteq Contents /\ UploadInv /\ marker \in Markers
      /\ uploader.pc \in Working
  BY DEF IInv, FilesInv, UploadInv, Working
<1>2. /\ uploader.image \in Images /\ uploader.stat \in Versions
      /\ uploader.sha \in Versions
      /\ uploader.sha <= s3[uploader.image]
  BY <1>1 DEF Candidate, UploadInv, Working, Versions
<1>3. /\ id \in Ids /\ c \in Contents /\ Put(id, c, TRUE)
      /\ c.kind = "image" /\ c.id = uploader.image
      /\ c.version = uploader.sha
  <2>1. id \in Ids
    BY <1>2, IdFacts
  <2>2. /\ c \in Contents /\ c.kind = "image" /\ c.id = uploader.image
        /\ c.version = uploader.sha
    BY <1>2, ContentFacts
  <2>3. Put(id, c, TRUE)
    OBVIOUS
  <2> QED BY <2>1, <2>2, <2>3
<1>4. \A s \in States : c = StateContent(s) <=> id = StateId(s)
  BY <1>2, <1>3, IdFacts, ContentFacts
<1>5. spooled' = spooled \cup {c}
  BY DEF Put
<1>6. UploaderOK' /\ uploader'.known = uploader.known
  BY <1>1 DEF UploaderOK, UploadInv, Working
<1>7. Candidate'
  BY <1>1, <1>2, <1>5 DEF Candidate, UploadInv, Working
<1> HIDE DEF id, c
<1>8. /\ FilesInv'
      /\ \A x \in Ids : Exists(x) => Exists(x)'
      /\ \A s \in States : StateContent(s) \in spooled' \ spooled =>
           outbox'[StateId(s)] # None
  BY <1>3, <1>4, FilesPut DEF IInv
<1>9. StatesKept'
  BY <1>8, KeptFrame DEF IInv
<1>10. s3[c.id] >= c.version
  BY <1>1, <1>2, <1>3 DEF Versions
<1>11. UploadInv'
  BY <1>1, <1>5, <1>6, <1>7, <1>10, SameObjects, UploadStep
<1>12. PublisherInv'
  BY <1>5, <1>8, PublisherFrame DEF IInv
<1> QED BY <1>8, <1>9, <1>11, <1>12
        DEF IInv, AdapterOK, QuarantineInv, CountersInv

LEMMA UploaderErrorInv ==
  ASSUME IInv, NEW stored \in BOOLEAN, UploaderError(stored)
  PROVE  IInv'
<1> USE UploaderTypes, OutboxAssumption
        DEF UploaderError, uploaderRest, UploaderNext
<1>1. /\ spooled \subseteq Contents /\ UploadInv /\ marker \in Markers
      /\ uploader.pc \in Working
      /\ uploader.image \in Images /\ uploader.todo \subseteq Images
      /\ uploader.known \in Markers
      /\ \A i \in uploader.todo : file[i] > 0
  BY DEF IInv, FilesInv, UploadInv, UploaderOK, Working
<1>2. faults' \in 0..MaxFaults
  BY DEF IInv, CountersInv
<1>3. /\ s3' \in Markers
      /\ \A j \in Images : s3[j] <= s3'[j] /\ s3'[j] <= file[j]
      /\ stored \/ s3' = s3
  BY <1>1, SameObjects, NewObject
<1>4. Known \in Markers
  BY <1>1 DEF Known, Markers, Versions
<1>5. CASE /\ uploader.pc \in {"hash", "put", "meta"}
           /\ UploaderNext(uploader.known)
  <2>1. UploaderOK' /\ Candidate' /\ uploader'.known = uploader.known
    BY <1>1, <1>5, UploaderPicks
  <2>2. UploadInv'
    BY <1>1, <1>3, <2>1, UploadStep
  <2> QED BY <1>2, <2>2, UploaderQuiet
<1>6. CASE uploader.pc = "state" /\ ~stored /\ UploaderNext(Known)
  <2>1. UploaderOK' /\ Candidate' /\ uploader'.known = Known
    BY <1>1, <1>4, <1>6, UploaderPicks
  <2>2. Stored(Known)
    BY <1>1, <1>6, KnownStored
  <2>3. Stored(uploader.known)'
    BY <1>3, <1>6, <2>1, <2>2 DEF Stored
  <2>4. UploadInv'
    BY <1>1, <1>3, <2>1, <2>3, UploadStep
  <2> QED BY <1>2, <2>4, UploaderQuiet
<1>7. CASE /\ uploader.pc = "recovered" /\ ~stored
           /\ uploader' = [uploader EXCEPT !.pc = "put", !.known = Known]
  <2>1. UploaderOK' /\ uploader'.known = Known
    BY <1>1, <1>4, <1>7 DEF UploaderOK, UploadInv, Working
  <2>2. Candidate'
    BY <1>1, <1>7 DEF Candidate, UploadInv, Working
  <2>3. Stored(Known)
    BY <1>1, <1>7, KnownStored
  <2>4. Stored(uploader.known)'
    BY <1>3, <1>7, <2>1, <2>3 DEF Stored
  <2>5. UploadInv'
    BY <1>1, <1>3, <2>1, <2>2, <2>4, UploadStep
  <2> QED BY <1>2, <2>5, UploaderQuiet
<1> QED BY <1>5, <1>6, <1>7

-----------------------------------------------------------------------------
(* The steps of the publisher. *)

LEMMA PublisherTypes ==
  ASSUME PublisherInv
  PROVE  /\ publisher.pc = "next" =>
              publisher \in [pc : {"next"}, todo : SUBSET Ids]
         /\ publisher.pc \in Holding =>
              publisher \in [pc : Holding, todo : SUBSET Ids, id : Ids,
                             message : Contents]
BY DEF PublisherInv, PublisherOK, Holding

\* The publisher's steps that remove no file.
LEMMA PublisherQuiet ==
  ASSUME IInv, PublisherInv', faults' \in 0..MaxFaults,
         UNCHANGED <<outbox, quarantine, publisherRest>>, sent \subseteq sent'
  PROVE  IInv'
<1> USE DEF publisherRest
<1>1. FilesInv' /\ StatesKept'
  BY FilesFrame DEF IInv
<1>2. UploadInv'
  BY UploadFrame DEF IInv
<1> QED BY <1>1, <1>2 DEF IInv, AdapterOK, QuarantineInv, CountersInv

\* One file is removed; if it is a state's, the state is kept elsewhere.
LEMMA PublisherRemoves ==
  ASSUME IInv, PublisherInv', faults' = faults,
         UNCHANGED <<publisherRest>>,
         NEW id \in Ids, outbox' = [outbox EXCEPT ![id] = None],
         quarantine \subseteq quarantine', quarantine' \subseteq Contents,
         sent \subseteq sent',
         \A s \in States : id = StateId(s) =>
           StateContent(s) \in quarantine' \/ StateContent(s) \in sent'
  PROVE  IInv'
<1> USE DEF publisherRest
<1>1. \A x \in Ids : outbox'[x] = IF x = id THEN None ELSE outbox[x]
  BY DEF IInv, FilesInv
<1>2. FilesInv'
  BY <1>1 DEF IInv, FilesInv, StateFiles, Exists
<1>3. Kept'
  BY <1>1, KeptByName, IdFacts DEF IInv, Kept, Exists
<1>4. (FilesInv => (StatesKept <=> Kept))'
  BY KeptByName, PTL
<1>5. UploadInv'
  BY UploadFrame DEF IInv
<1> QED BY <1>2, <1>3, <1>4, <1>5
        DEF IInv, AdapterOK, QuarantineInv, CountersInv

LEMMA PublisherWorks ==
  ASSUME IInv,
         \/ PublisherScan \/ PublisherEnd \/ PublisherCrash
         \/ \E id \in Ids : PublisherRead(id)
         \/ \E arrives \in BOOLEAN :
              PublisherSend(arrives) \/ PublisherSendError(arrives)
  PROVE  IInv'
<1> USE OutboxAssumption DEF publisherRest
<1>1. PublisherInv /\ faults \in 0..MaxFaults
  BY DEF IInv, CountersInv
<1>2. CASE PublisherScan
  <2>1. PublisherInv'
    BY <1>1, <1>2 DEF PublisherScan, PublisherInv, PublisherOK, Holding, Exists
  <2> QED BY <1>1, <1>2, <2>1, PublisherQuiet DEF PublisherScan
<1>3. CASE PublisherEnd
  <2>1. PublisherInv'
    BY <1>1, <1>3
    DEF PublisherEnd, PublisherIdle, PublisherInv, PublisherOK, Holding
  <2> QED BY <1>1, <1>3, <2>1, PublisherQuiet DEF PublisherEnd
<1>4. CASE PublisherCrash
  <2>1. PublisherInv'
    BY <1>1, <1>4
    DEF PublisherCrash, PublisherIdle, PublisherInv, PublisherOK, Holding
  <2>2. faults' \in 0..MaxFaults
    BY <1>1, <1>4 DEF PublisherCrash
  <2> QED BY <1>4, <2>1, <2>2, PublisherQuiet DEF PublisherCrash
<1>5. ASSUME NEW id \in Ids, PublisherRead(id) PROVE IInv'
  <2> USE <1>5 DEF PublisherRead
  <2>1. /\ publisher.todo \subseteq Ids /\ id \in publisher.todo
        /\ Exists(id) /\ \A x \in publisher.todo : Exists(x)
    BY <1>1, PublisherTypes DEF PublisherInv
  <2>2. /\ outbox[id].content \in Contents
        /\ outbox[id].content \in spooled
        /\ \A s \in States :
             id = StateId(s) => outbox[id].content = StateContent(s)
    BY <2>1 DEF IInv, FilesInv, StateFiles
  <2>3. /\ publisher'.pc \in {"send", "quarantine"}
        /\ publisher' = [pc |-> publisher'.pc, todo |-> publisher.todo \ {id},
                         id |-> id, message |-> outbox[id].content]
    OBVIOUS
  <2>4. PublisherOK'
    BY <2>1, <2>2, <2>3 DEF PublisherOK, Holding
  <2>5. PublisherInv'
    BY <1>1, <2>1, <2>2, <2>3, <2>4 DEF PublisherInv, Exists, Holding
  <2> QED BY <1>1, <2>5, PublisherQuiet
<1>6. ASSUME NEW arrives \in BOOLEAN, PublisherSend(arrives) PROVE IInv'
  <2> USE <1>6 DEF PublisherSend
  <2>1. publisher.pc \in Holding
    BY DEF Holding
  <2>2. PublisherOK'
    BY <1>1, <2>1, PublisherTypes DEF PublisherOK, Holding
  <2>3. publisher.message \in spooled
    BY <1>1, <2>1 DEF PublisherInv
  <2>4. sent' \subseteq spooled' /\ received' \subseteq spooled'
    BY <1>1, <2>3 DEF PublisherInv
  <2>5. PublisherInv'
    BY <1>1, <2>1, <2>2, <2>4, PublisherTypes
    DEF PublisherInv, Exists, Holding
  <2> QED BY <1>1, <2>5, PublisherQuiet
<1>7. ASSUME NEW arrives \in BOOLEAN, PublisherSendError(arrives) PROVE IInv'
  <2> USE <1>7 DEF PublisherSendError, PublisherNext
  <2>1. publisher.pc \in Holding
    BY DEF Holding
  <2>2. publisher' = [pc |-> "next", todo |-> publisher.todo]
    OBVIOUS
  <2>3. publisher.message \in spooled
    BY <1>1, <2>1 DEF PublisherInv
  <2>4. sent' \subseteq spooled' /\ received' \subseteq spooled'
    BY <1>1, <2>3 DEF PublisherInv
  <2>5. PublisherInv'
    BY <1>1, <2>1, <2>2, <2>4, PublisherTypes
    DEF PublisherInv, PublisherOK, Exists, Holding
  <2>6. faults' \in 0..MaxFaults
    BY <1>1
  <2> QED BY <2>5, <2>6, PublisherQuiet
<1> QED BY <1>2, <1>3, <1>4, <1>5, <1>6, <1>7

LEMMA PublisherRemovesInv ==
  ASSUME IInv, PublisherQuarantine \/ PublisherUnlink
  PROVE  IInv'
<1> DEFINE id == publisher.id
<1>1. PublisherInv /\ publisher.pc \in Holding
  BY DEF IInv, PublisherQuarantine, PublisherUnlink, Holding
<1>2. /\ id \in Ids /\ Exists(id) /\ id \notin publisher.todo
      /\ publisher.todo \subseteq Ids
      /\ \A x \in publisher.todo : Exists(x)
      /\ outbox[id].content \in Contents
  BY <1>1, PublisherTypes DEF PublisherInv, IInv, FilesInv, Holding
<1>3. /\ outbox' = [outbox EXCEPT ![id] = None]
      /\ publisher' = [pc |-> "next", todo |-> publisher.todo]
      /\ UNCHANGED <<faults, sent, received, publisherRest>>
  BY DEF PublisherQuarantine, PublisherUnlink, PublisherNext
<1>4. \A x \in publisher.todo : Exists(x)'
  BY <1>2, <1>3 DEF Exists, IInv, FilesInv
<1>5. PublisherInv'
  BY <1>1, <1>2, <1>3, <1>4
  DEF PublisherInv, PublisherOK, Holding, publisherRest
<1>6. CASE PublisherQuarantine
  <2>1. quarantine' = quarantine \cup {outbox[id].content}
    BY <1>6 DEF PublisherQuarantine
  <2>2. \A s \in States : id = StateId(s) => StateContent(s) \in quarantine'
    BY <1>2, <2>1 DEF IInv, FilesInv, StateFiles
  <2> QED BY <1>2, <1>3, <1>5, <2>1, <2>2, PublisherRemoves
          DEF IInv, QuarantineInv
<1>7. CASE PublisherUnlink
  <2>1. quarantine' = quarantine
    BY <1>7 DEF PublisherUnlink
  <2>2. \A s \in States : id = StateId(s) => StateContent(s) \in sent'
    BY <1>1, <1>3, <1>7 DEF PublisherInv, PublisherUnlink
  <2> QED BY <1>2, <1>3, <1>5, <2>1, <2>2, PublisherRemoves
          DEF IInv, QuarantineInv
<1> QED BY <1>6, <1>7

-----------------------------------------------------------------------------
(* The theorems. *)

LEMMA NextInv == IInv /\ [Next]_vars => IInv'
<1> SUFFICES ASSUME IInv, [Next]_vars PROVE IInv'
  OBVIOUS
<1>1. ASSUME NEW i \in Images, WriteImage(i) PROVE IInv'
  BY <1>1, WriteImageInv
<1>2. CASE (\E s \in States : AdapterBuild(s)) \/ AdapterStep \/ AdapterCrash
  BY <1>2, AdapterInv
<1>3. CASE UploaderStep \/ UploaderCrash
  BY <1>3, UploaderBetween, UploaderWorks, UploaderMetaInv DEF UploaderStep
<1>4. CASE PublisherStep \/ PublisherCrash
  BY <1>4, PublisherWorks, PublisherRemovesInv DEF PublisherStep
<1>5. ASSUME NEW b \in BOOLEAN, UploaderError(b) \/ PublisherSendError(b)
      PROVE  IInv'
  BY <1>5, UploaderErrorInv, PublisherWorks
<1>6. CASE UNCHANGED vars
  <2> USE <1>6 DEF vars
  <2>1. FilesInv' /\ StatesKept'
    BY FilesFrame DEF IInv
  <2>2. UploadInv'
    BY UploadFrame DEF IInv
  <2>3. PublisherInv'
    BY PublisherFrame DEF IInv, Exists
  <2> QED BY <2>1, <2>2, <2>3 DEF IInv, AdapterOK, QuarantineInv, CountersInv
<1> QED BY <1>1, <1>2, <1>3, <1>4, <1>5, <1>6 DEF Next, Error

LEMMA SpecInv == Spec => []IInv
BY InitInv, NextInv, PTL DEF Spec

\* Every variable keeps its type, and the publisher never sends, nor IoT Core
\* gets, what was never in the outbox.
THEOREM EdgeTypes == Spec => []TypeOK
<1>1. IInv => TypeOK
  <2> SUFFICES ASSUME IInv PROVE TypeOK
    OBVIOUS
  <2>1. adapter.pc \in {"idle", "check", "rename", "chmod"}
    BY DEF IInv, AdapterOK
  <2>2. uploader.pc \in {"idle", "pick", "hash", "recover", "recovered", "put",
                         "meta", "chmod", "state"}
    BY DEF IInv, UploadInv, UploaderOK, Working
  <2>3. publisher.pc \in {"idle", "next", "quarantine", "send", "unlink"}
    BY DEF IInv, PublisherInv, PublisherOK, Holding
  <2> QED BY <2>1, <2>2, <2>3
          DEF IInv, TypeOK, UploadInv, FilesInv, PublisherInv, QuarantineInv,
              CountersInv, File, Markers
<1> QED BY <1>1, SpecInv, PTL

\* write_outbox() and publish_file(): a state that was once in the outbox is
\* still there, or in the quarantine, or was given to the broker: only the
\* publisher removes files, and a state's file can only hold that state.
THEOREM EdgeStatesKept == Spec => []StatesKept
<1>1. IInv => StatesKept
  BY DEF IInv
<1> QED BY <1>1, SpecInv, PTL

\* process_once(): an image the uploader will skip is in S3 as it is on disk,
\* and its metadata was announced, however often the camera writes the file
\* between stat, hash and PUT and wherever the uploader crashes.
THEOREM EdgeMarkerCurrent == Spec => []MarkerCurrent
<1>1. IInv => MarkerCurrent
  <2> SUFFICES ASSUME IInv, NEW i \in Images, file[i] > 0, marker[i] = file[i]
               PROVE  /\ s3[i] = file[i]
                      /\ \E sized \in Versions :
                           ImageContent(i, file[i], sized) \in spooled
    BY DEF MarkerCurrent
  <2>1. s3[i] \in Nat /\ file[i] \in Nat /\ s3[i] <= file[i]
    BY OutboxAssumption DEF IInv, UploadInv, Markers, Objects
  <2>2. PICK v \in Versions, sized \in Versions :
          /\ marker[i] <= v /\ v <= s3[i]
          /\ ImageContent(i, v, sized) \in spooled
    BY <2>1 DEF IInv, UploadInv, Stored
  <2>3. v = file[i] /\ s3[i] = file[i]
    BY <2>1, <2>2, OutboxAssumption DEF Versions
  <2> QED BY <2>2, <2>3
<1> QED BY <1>1, SpecInv, PTL

\* upload_candidate() comes before atomic_write_json(): the image that metadata
\* names, or a newer one, is in S3 from the moment the metadata exists.
THEOREM EdgeReferencesResolve == Spec => []ReferencesResolve
<1>1. IInv => ReferencesResolve
  BY DEF IInv, UploadInv
<1> QED BY <1>1, SpecInv, PTL
=============================================================================
