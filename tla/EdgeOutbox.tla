------------------------------ MODULE EdgeOutbox ------------------------------
(***************************************************************************)
(* The outbox directory of a factory and the three processes that share    *)
(* it: the log adapter writes factory and infra states, the snapshot       *)
(* uploader writes the metadata of images it has put to S3, the IoT        *)
(* publisher sends every file to AWS IoT Core and removes it.  Each file   *)
(* system or network call is a step, any process may crash between two     *)
(* steps, and a restarted one knows only what is on disk.                  *)
(*                                                                         *)
(* The adapter runs as another user than the publisher, so a file it has   *)
(* renamed into the outbox is not readable before its chmod().             *)
(***************************************************************************)
EXTENDS Naturals, FiniteSets

CONSTANTS
  States,       \* message ids the log adapter may build, by source second
  Foreign,      \* invalid files somebody else has left in the outbox
  Images,       \* image files of the camera
  Second,       \* Second[i]: the second in the name of image i
  MaxVersion,   \* bound: times an image file is written
  MaxCycles,    \* bound: messages the adapter builds
  MaxFaults,    \* bound: crashes and failed calls
  Lossy         \* whether the network may drop what was sent

ASSUME OutboxAssumption ==
  /\ States \subseteq Nat
  /\ Second \in [Images -> Nat]
  /\ MaxVersion \in Nat /\ MaxCycles \in Nat /\ MaxFaults \in Nat
  /\ Lossy \in BOOLEAN

VARIABLES
  outbox,      \* outbox[id]: the file {message_id}.json
  quarantine,  \* contents moved to quarantine/
  file,        \* file[i]: version of image file i, 0 when there is none
  s3,          \* s3[i]: version of the object of image i, 0 when there is none
  marker,      \* marker[i]: version the upload state names for image i
  adapter, uploader, publisher,
  cycles,      \* messages the adapter has built
  faults,      \* crashes and failed calls so far
  spooled,     \* history: contents ever put into the outbox
  sent,        \* history: contents whose publish() returned
  received     \* history: contents AWS IoT Core got

vars == <<outbox, quarantine, file, s3, marker, adapter, uploader, publisher,
          cycles, faults, spooled, sent, received>>

-----------------------------------------------------------------------------
(* Files and their contents. *)

None == [kind |-> "none"]

StateContent(s) == [kind |-> "state", id |-> s]
ForeignContent(f) == [kind |-> "foreign", id |-> f]

\* metadata_message(): the image, the version its sha256 was taken of, and the
\* version whose size_bytes it carries.
ImageContent(i, v, sized) ==
  [kind |-> "image", id |-> i, version |-> v, sized |-> sized]

\* {message_id}.json: ids carry the source type and the second.
StateId(s) == <<"state", s>>
ImageId(i) == <<"image_snapshot", Second[i]>>
ForeignId(f) == <<"foreign", f>>

Ids == {StateId(s) : s \in States} \cup {ImageId(i) : i \in Images}
         \cup {ForeignId(f) : f \in Foreign}

Versions == 1..MaxVersion

Contents ==
  {StateContent(s) : s \in States} \cup {ForeignContent(f) : f \in Foreign}
    \cup {ImageContent(i, v, z) : i \in Images, v, z \in Versions}

Exists(id) == outbox[id] # None

AdapterIdle == [pc |-> "idle", state |-> 0]
NothingKnown == [i \in Images |-> 0]
UploaderIdle == [pc |-> "idle", known |-> NothingKnown, todo |-> {}]
PublisherIdle == [pc |-> "idle"]

TypeOK ==
  /\ outbox \in [Ids -> {None} \cup [content : Contents, readable : BOOLEAN]]
  /\ quarantine \subseteq Contents
  /\ file \in [Images -> 0..MaxVersion]
  /\ s3 \in [Images -> 0..MaxVersion]
  /\ marker \in [Images -> 0..MaxVersion]
  /\ adapter.pc \in {"idle", "check", "rename", "chmod"}
  /\ uploader.pc \in {"idle", "pick", "hash", "recover", "recovered", "put",
                      "meta", "chmod", "state"}
  /\ publisher.pc \in {"idle", "next", "quarantine", "send", "unlink"}
  /\ cycles \in 0..MaxCycles
  /\ faults \in 0..MaxFaults
  /\ sent \subseteq spooled /\ received \subseteq spooled
  /\ spooled \subseteq Contents

Init ==
  /\ outbox = [id \in Ids |->
                 IF \E f \in Foreign : id = ForeignId(f)
                 THEN [content |-> ForeignContent(id[2]), readable |-> TRUE]
                 ELSE None]
  /\ quarantine = {}
  /\ file = [i \in Images |-> 0]
  /\ s3 = [i \in Images |-> 0]
  /\ marker = [i \in Images |-> 0]
  /\ adapter = AdapterIdle
  /\ uploader = UploaderIdle
  /\ publisher = PublisherIdle
  /\ cycles = 0
  /\ faults = 0
  /\ spooled = {ForeignContent(f) : f \in Foreign}
  /\ sent = {}
  /\ received = {}

Put(id, content, readable) ==
  /\ outbox' = [outbox EXCEPT ![id] = [content |-> content,
                                       readable |-> readable]]
  /\ spooled' = spooled \cup {content}

-----------------------------------------------------------------------------
(* Others who write files. *)

\* The camera application writes an image file, or writes it again.
WriteImage(i) ==
  /\ file[i] < MaxVersion
  /\ file' = [file EXCEPT ![i] = @ + 1]
  /\ UNCHANGED <<outbox, quarantine, s3, marker, adapter, uploader, publisher,
                 cycles, faults, spooled, sent, received>>

-----------------------------------------------------------------------------
(* factory-a-log-adapter: run_loop(), one process. *)

adapterRest == <<quarantine, file, s3, marker, uploader, publisher, sent,
                 received>>

\* factory_state() or infra_state(): the id is the second of the newest rows,
\* which never goes back; without new rows the id comes again.
AdapterBuild(s) ==
  /\ adapter.pc = "idle"
  /\ cycles < MaxCycles
  /\ cycles' = cycles + 1
  /\ adapter.state <= s
  /\ adapter' = [pc |-> "check", state |-> s]
  /\ UNCHANGED <<outbox, faults, spooled, adapterRest>>

AdapterGoto(pc) == adapter' = [adapter EXCEPT !.pc = pc]

\* write_outbox(): a file of that name is kept, whatever it holds.
AdapterCheck ==
  /\ adapter.pc = "check"
  /\ AdapterGoto(IF Exists(StateId(adapter.state)) THEN "idle" ELSE "rename")
  /\ UNCHANGED <<outbox, cycles, faults, spooled, adapterRest>>

\* The temporary file, complete and synced, replaces the target.
AdapterRename ==
  /\ adapter.pc = "rename"
  /\ Put(StateId(adapter.state), StateContent(adapter.state), FALSE)
  /\ AdapterGoto("chmod")
  /\ UNCHANGED <<cycles, faults, adapterRest>>

\* chmod() of a file the publisher may have moved away: _write_one() logs the
\* error.
AdapterChmod ==
  LET id == StateId(adapter.state) IN
  /\ adapter.pc = "chmod"
  /\ outbox' = IF Exists(id) THEN [outbox EXCEPT ![id].readable = TRUE]
               ELSE outbox
  /\ AdapterGoto("idle")
  /\ UNCHANGED <<cycles, faults, spooled, adapterRest>>

\* A crash, or an error in the middle that _write_one() logs.
AdapterCrash ==
  /\ adapter.pc # "idle"
  /\ faults < MaxFaults
  /\ faults' = faults + 1
  /\ AdapterGoto("idle")
  /\ UNCHANGED <<outbox, cycles, spooled, adapterRest>>

-----------------------------------------------------------------------------
(* snapshot-uploader: process_once(), one process. *)

uploaderRest == <<quarantine, file, adapter, publisher, cycles, sent, received>>

\* load_state() and scan_snapshots(): what appears later is left to the next
\* call.  `known` is the state dictionary in memory.
UploaderScan ==
  /\ uploader.pc = "idle"
  /\ uploader' = [pc |-> "pick", known |-> marker,
                  todo |-> {i \in Images : file[i] > 0}]
  /\ UNCHANGED <<outbox, s3, marker, faults, spooled, uploaderRest>>

UploaderEnd ==
  /\ uploader.pc = "pick"
  /\ uploader.todo = {}
  /\ uploader' = UploaderIdle
  /\ UNCHANGED <<outbox, s3, marker, faults, spooled, uploaderRest>>

\* The rest of the loop, with the state `known`.
UploaderNext(known) ==
  uploader' = [pc |-> "pick", known |-> known, todo |-> uploader.todo]

\* should_skip(), then the stat() of candidate_for().
UploaderPick(i) ==
  /\ uploader.pc = "pick"
  /\ i \in uploader.todo
  /\ uploader' =
       IF uploader.known[i] = file[i]
       THEN [uploader EXCEPT !.todo = @ \ {i}]
       ELSE [pc |-> "hash", known |-> uploader.known,
             todo |-> uploader.todo \ {i}, image |-> i, stat |-> file[i],
             sha |-> 0]
  /\ UNCHANGED <<outbox, s3, marker, faults, spooled, uploaderRest>>

\* A faulty variant of UploaderHash: the digest is never computed.
UploaderHashNever ==
  /\ uploader.pc = "hash"
  /\ uploader' = [uploader EXCEPT !.pc = "recover"]
  /\ UNCHANGED <<outbox, s3, marker, faults, spooled, uploaderRest>>

\* sha256_file(): of the contents at a later time than the stat().
UploaderHash ==
  /\ uploader.pc = "hash"
  /\ uploader' = [uploader EXCEPT !.pc = "recover",
                                  !.sha = file[uploader.image]]
  /\ UNCHANGED <<outbox, s3, marker, faults, spooled, uploaderRest>>

\* recover_state_from_outbox(): metadata with this sha256 is still waiting, so
\* the upload was made before a crash.  It must name the size of the stat(),
\* too, which two versions may or may not have in common.
Waiting(i, v, sized) ==
  Exists(ImageId(i)) /\ outbox[ImageId(i)].content = ImageContent(i, v, sized)

UploaderRecover ==
  /\ uploader.pc = "recover"
  /\ \/ /\ \E sized \in Versions : Waiting(uploader.image, uploader.sha, sized)
        /\ uploader' = [uploader EXCEPT !.pc = "recovered"]
     \/ /\ ~Waiting(uploader.image, uploader.sha, uploader.stat)
        /\ uploader' = [uploader EXCEPT !.pc = "put"]
  /\ UNCHANGED <<outbox, s3, marker, faults, spooled, uploaderRest>>

\* A faulty variant of UploaderPut: the HTTP status is not looked at.
UploaderPutUnchecked ==
  /\ uploader.pc = "put"
  /\ uploader' = [uploader EXCEPT !.pc = "meta"]
  /\ UNCHANGED <<outbox, s3, marker, faults, spooled, uploaderRest>>

\* upload_candidate(): the bytes are read again for the PUT.
UploaderPut ==
  /\ uploader.pc = "put"
  /\ s3' = [s3 EXCEPT ![uploader.image] = file[uploader.image]]
  /\ uploader' = [uploader EXCEPT !.pc = "meta"]
  /\ UNCHANGED <<outbox, marker, faults, spooled, uploaderRest>>

\* atomic_write_json() of the metadata replaces a file of that name.
UploaderMeta ==
  LET i == uploader.image IN
  /\ uploader.pc = "meta"
  /\ Put(ImageId(i), ImageContent(i, uploader.sha, uploader.stat), TRUE)
  /\ uploader' = [uploader EXCEPT !.pc = "chmod"]
  /\ UNCHANGED <<s3, marker, faults, uploaderRest>>

\* Its chmod() fails when the publisher was faster; the state is then not
\* written and the image will be uploaded again.
UploaderChmod ==
  /\ uploader.pc = "chmod"
  /\ IF Exists(ImageId(uploader.image))
     THEN uploader' = [uploader EXCEPT !.pc = "state"]
     ELSE UploaderNext(uploader.known)
  /\ UNCHANGED <<outbox, s3, marker, faults, spooled, uploaderRest>>

\* A faulty variant of Known: the file is looked at when the work is done.
KnownNow == [uploader.known EXCEPT ![uploader.image] = file[uploader.image]]

\* The marker of an image holds the stat() of the candidate.
Known == [uploader.known EXCEPT ![uploader.image] = uploader.stat]

\* write_state(): the whole dictionary.
UploaderState ==
  /\ uploader.pc \in {"recovered", "state"}
  /\ marker' = Known
  /\ UploaderNext(Known)
  /\ UNCHANGED <<outbox, s3, faults, spooled, uploaderRest>>

\* A call fails; a PUT may fail after it had its effect.  The loop goes on
\* with the next image; a state that could not be written stays in memory.
UploaderError(stored) ==
  /\ faults < MaxFaults
  /\ faults' = faults + 1
  /\ \/ /\ uploader.pc \in {"hash", "put", "meta"}
        /\ stored => uploader.pc = "put"
        /\ UploaderNext(uploader.known)
     \/ /\ uploader.pc = "state"
        /\ ~stored
        /\ UploaderNext(Known)
     \/ /\ uploader.pc = "recovered"
        /\ ~stored
        /\ uploader' = [uploader EXCEPT !.pc = "put", !.known = Known]
  /\ s3' = IF stored THEN [s3 EXCEPT ![uploader.image] = file[uploader.image]]
           ELSE s3
  /\ UNCHANGED <<outbox, marker, spooled, uploaderRest>>

UploaderCrash ==
  /\ uploader.pc # "idle"
  /\ faults < MaxFaults
  /\ faults' = faults + 1
  /\ uploader' = UploaderIdle
  /\ UNCHANGED <<outbox, s3, marker, spooled, uploaderRest>>

-----------------------------------------------------------------------------
(* edge-iot-publisher: publish_once(), one process. *)

publisherRest == <<file, s3, marker, adapter, uploader, cycles, spooled>>

PublisherScan ==
  /\ publisher.pc = "idle"
  /\ publisher' = [pc |-> "next", todo |-> {id \in Ids : Exists(id)}]
  /\ UNCHANGED <<outbox, quarantine, faults, sent, received, publisherRest>>

PublisherEnd ==
  /\ publisher.pc = "next"
  /\ publisher.todo = {}
  /\ publisher' = PublisherIdle
  /\ UNCHANGED <<outbox, quarantine, faults, sent, received, publisherRest>>

PublisherNext == publisher' = [pc |-> "next", todo |-> publisher.todo]

\* validate_message()
Valid(content) == content.kind # "foreign"

\* A faulty variant of PublisherRead: a file that cannot be read is skipped.
PublisherReadSkip(id) ==
  /\ publisher.pc = "next"
  /\ id \in publisher.todo
  /\ publisher' =
       IF ~outbox[id].readable
       THEN [publisher EXCEPT !.todo = @ \ {id}]
       ELSE [pc |-> IF Valid(outbox[id].content) THEN "send" ELSE "quarantine",
             todo |-> publisher.todo \ {id}, id |-> id,
             message |-> outbox[id].content]
  /\ UNCHANGED <<outbox, quarantine, faults, sent, received, publisherRest>>

\* publish_file(): read and validate; any exception leads to the quarantine.
PublisherRead(id) ==
  /\ publisher.pc = "next"
  /\ id \in publisher.todo
  /\ publisher' =
       [pc |-> IF outbox[id].readable /\ Valid(outbox[id].content)
               THEN "send" ELSE "quarantine",
        todo |-> publisher.todo \ {id}, id |-> id,
        message |-> outbox[id].content]
  /\ UNCHANGED <<outbox, quarantine, faults, sent, received, publisherRest>>

PublisherQuarantine ==
  LET id == publisher.id IN
  /\ publisher.pc = "quarantine"
  /\ quarantine' = quarantine \cup {outbox[id].content}
  /\ outbox' = [outbox EXCEPT ![id] = None]
  /\ PublisherNext
  /\ UNCHANGED <<faults, sent, received, publisherRest>>

\* MqttClient.publish() returns: QoS 0, nobody has acknowledged anything.
PublisherSend(arrives) ==
  /\ publisher.pc = "send"
  /\ arrives \/ Lossy
  /\ received' = IF arrives THEN received \cup {publisher.message} ELSE received
  /\ sent' = sent \cup {publisher.message}
  /\ publisher' = [publisher EXCEPT !.pc = "unlink"]
  /\ UNCHANGED <<outbox, quarantine, faults, publisherRest>>

\* A faulty variant of PublisherSendError: the file is removed in any case.
PublisherSendErrorIgnored(arrives) ==
  /\ publisher.pc = "send"
  /\ faults < MaxFaults
  /\ faults' = faults + 1
  /\ received' = IF arrives THEN received \cup {publisher.message} ELSE received
  /\ publisher' = [publisher EXCEPT !.pc = "unlink"]
  /\ UNCHANGED <<outbox, quarantine, sent, publisherRest>>

\* publish() raises, before or after the message was sent: the file stays.
PublisherSendError(arrives) ==
  /\ publisher.pc = "send"
  /\ faults < MaxFaults
  /\ faults' = faults + 1
  /\ received' = IF arrives THEN received \cup {publisher.message} ELSE received
  /\ PublisherNext
  /\ UNCHANGED <<outbox, quarantine, sent, publisherRest>>

\* path.unlink(): whatever the file holds by now.
PublisherUnlink ==
  /\ publisher.pc = "unlink"
  /\ outbox' = [outbox EXCEPT ![publisher.id] = None]
  /\ PublisherNext
  /\ UNCHANGED <<quarantine, faults, sent, received, publisherRest>>

PublisherCrash ==
  /\ publisher.pc # "idle"
  /\ faults < MaxFaults
  /\ faults' = faults + 1
  /\ publisher' = PublisherIdle
  /\ UNCHANGED <<outbox, quarantine, sent, received, publisherRest>>
-----------------------------------------------------------------------------
AdapterStep == AdapterCheck \/ AdapterRename \/ AdapterChmod

UploaderStep ==
  \/ UploaderScan \/ UploaderEnd \/ UploaderHash \/ UploaderRecover
  \/ UploaderPut \/ UploaderMeta \/ UploaderChmod \/ UploaderState
  \/ \E i \in Images : UploaderPick(i)

PublisherStep ==
  \/ PublisherScan \/ PublisherEnd \/ PublisherQuarantine \/ PublisherUnlink
  \/ \E id \in Ids : PublisherRead(id)
  \/ \E arrives \in BOOLEAN : PublisherSend(arrives)

Error ==
  \/ AdapterCrash \/ UploaderCrash \/ PublisherCrash
  \/ \E b \in BOOLEAN : UploaderError(b) \/ PublisherSendError(b)

Next ==
  \/ \E i \in Images : WriteImage(i)
  \/ \E s \in States : AdapterBuild(s)
  \/ AdapterStep \/ UploaderStep \/ PublisherStep
  \/ Error

Spec == Init /\ [][Next]_vars

\* Each process is a loop that Kubernetes restarts; nothing obliges the camera
\* to write or a call to fail.
Fairness ==
  WF_vars(AdapterStep) /\ WF_vars(UploaderStep) /\ WF_vars(PublisherStep)

FairSpec == Spec /\ Fairness

-----------------------------------------------------------------------------
(* Properties. *)

InOutbox(content) == \E id \in Ids : Exists(id) /\ outbox[id].content = content

\* write_outbox() and publish_file(): a state that was once in the outbox is
\* still there, or in the quarantine, or was given to the broker, whatever
\* crashes, fails or runs in between.
StatesKept ==
  \A s \in States :
    LET c == StateContent(s) IN
    c \in spooled => InOutbox(c) \/ c \in quarantine \/ c \in sent

\* process_once(): an image the uploader will skip from now on is in S3 as it
\* is on disk, and metadata with its sha256 was put into the outbox, although
\* the file may be written again between stat, hash and PUT.
MarkerCurrent ==
  \A i \in Images :
    (file[i] > 0 /\ marker[i] = file[i]) =>
      /\ s3[i] = file[i]
      /\ \E sized \in Versions : ImageContent(i, file[i], sized) \in spooled

\* upload_candidate() comes before atomic_write_json(): whatever reads the
\* metadata finds the image it names, or a newer one, in S3.
ReferencesResolve ==
  \A c \in spooled : c.kind = "image" => s3[c.id] >= c.version

\* run_loop(): no file stays in the outbox for ever.
OutboxDrains == \A id \in Ids : Exists(id) ~> ~Exists(id)

=============================================================================
