--------------------------- MODULE CondDBFWUploads ---------------------------
(***************************************************************************)
(* Clients of the conditions upload service: class uploader of             *)
(* CondCore/Utilities/python/CondDBFW/uploads.py, with the request loop of *)
(* url_query.py and the response check of errors.py.  A client opens an    *)
(* upload session, which locks the destination tag, filters its IOVs by    *)
(* the first condition safe run, sends the payloads the server misses and  *)
(* at last the IOVs.  Every request may be lost, may be served without an  *)
(* answer, and is then made again; an answer may be undecodable.           *)
(*                                                                         *)
(* The service itself is outside the repository: it is what the clients    *)
(* use of it.  The clients run without --testing.                          *)
(***************************************************************************)
EXTENDS Integers, Sequences, FiniteSets, SequencesExt

CONSTANTS
  Clients,
  Tags,
  Commands,      \* command lines, with the metadata file they name
  Files,         \* SQLite files: their tags, IOVs and payloads
  Fcsr,          \* first condition safe run of the service, as a since
  LumisPerRun,   \* 2^32: a run number is made a luminosity id by this factor
  MaxAttempts,   \* max_retries of url_query.send
  FirstPayloads, \* payloads, IOVs and time types the service starts with
  FirstIovs,
  FirstTimeType

VARIABLES
  up,       \* the clients
  server    \* payloads, IOVs and locks of the tags, sessions, stored uploads

uploadVars == <<up, server>>

Requests == {"tag", "session", "fcsr", "hashes", "payload", "metadata", "closing"}

NoSession == 0

None == "none"

Strings == STRING \cup {None}

IOV == [since : Nat, hash : Strings]

ASSUME ServiceAssumption ==
  /\ Fcsr \in Nat /\ LumisPerRun \in Nat \ {0}
  /\ FirstPayloads \subseteq Strings
  /\ FirstIovs \in [Tags -> SUBSET IOV]
  /\ \A tag \in Tags : {iov.hash : iov \in FirstIovs[tag]} \subseteq FirstPayloads
  /\ FirstTimeType \in [Tags -> Strings]

-----------------------------------------------------------------------------
(* What a set of IOVs [since, hash] says. *)

Sinces(iovs) == {iov.since : iov \in iovs}

\* The hash valid at a time, none before the first IOV.
PayloadAt(iovs, time) ==
  LET past == {iov \in iovs : iov.since <= time}
  IN  {iov.hash : iov \in {i \in past : \A o \in past : o.since <= i.since}}

-----------------------------------------------------------------------------
(* The service. *)

Served(srv, ok, data) == [server |-> srv, ok |-> ok, data |-> data]

IsOpen(srv, id) == id # NoSession /\ \E tag \in Tags : srv.lock[tag] = id

TagOf(srv, id) == CHOOSE tag \in Tags : srv.lock[tag] = id

GetTagDictionary(srv, tag) == Served(srv, srv.iovs[tag] # {}, srv.timeType[tag])

OpenSession(srv, tag) ==
  IF srv.lock[tag] # NoSession THEN Served(srv, FALSE, 0)
  ELSE LET id == srv.sessions + 1
       IN  Served([srv EXCEPT !.lock[tag] = id, !.sessions = id], TRUE, id)

CheckHashes(srv, id, hashes) == Served(srv, IsOpen(srv, id), hashes \ srv.payloads)

StorePayload(srv, id, hash) ==
  IF IsOpen(srv, id)
  THEN Served([srv EXCEPT !.payloads = @ \cup {hash}], TRUE, 0)
  ELSE Served(srv, FALSE, 0)

\* The IOVs are stored, the session closed and the lock released.
UploadMetadata(srv, id, iovs) ==
  IF IsOpen(srv, id)
  THEN LET tag == TagOf(srv, id)
           kept == {iov \in srv.iovs[tag] : iov.since \notin Sinces(iovs)}
       IN  Served([srv EXCEPT !.iovs[tag] = kept \cup iovs,
                              !.lock[tag] = NoSession,
                              !.stored = @ \cup {id}], TRUE, 0)
  ELSE Served(srv, FALSE, 0)

CloseSession(srv, id) ==
  IF IsOpen(srv, id)
  THEN Served([srv EXCEPT !.lock[TagOf(srv, id)] = NoSession], TRUE, 0)
  ELSE Served(srv, FALSE, 0)

-----------------------------------------------------------------------------
(* What a client asks for. *)

Hashes(iovs) == {iov.hash : iov \in iovs}

Serve(srv, client) ==
  CASE client.pc = "tag" -> GetTagDictionary(srv, client.tag)
    [] client.pc = "session" -> OpenSession(srv, client.tag)
    [] client.pc = "fcsr" -> Served(srv, IsOpen(srv, client.session), Fcsr)
    [] client.pc = "hashes" -> CheckHashes(srv, client.session, Hashes(client.iovs))
    [] client.pc = "payload" ->
         StorePayload(srv, client.session, Head(client.toSend))
    [] client.pc = "metadata" -> UploadMetadata(srv, client.session, client.iovs)
    [] client.pc = "closing" -> CloseSession(srv, client.session)

\* exit_upload: a session that was obtained is closed first.
ExitUpload(client) ==
  [client EXCEPT !.pc = IF client.session # NoSession THEN "closing" ELSE "exited",
                 !.attempt = 0]

\* exit(): the process ends and tells the service nothing.
Exit(client) == [client EXCEPT !.pc = "exited", !.attempt = 0]

Ask(client, request) == [client EXCEPT !.pc = request, !.attempt = 0]

-----------------------------------------------------------------------------
(* The command line and the constructor. *)

NoSince == 0

NoMetadata ==
  [sourceDB |-> None, inputTag |-> None, tag |-> None, since |-> NoSince, filter |-> None,
   hash |-> None]

Idle ==
  [pc |-> "new", attempt |-> 0, session |-> NoSession, metadata |-> NoMetadata,
   tag |-> None, timeType |-> None, iovs |-> {}, source |-> {}, missing |-> {},
   since |-> 0, toSend |-> <<>>, trouble |-> {}]

\* parse_arguments: options of the command line override the metadata file.
Merged(options, file) ==
  [option \in DOMAIN options |->
     IF options[option] = (IF option = "since" THEN NoSince ELSE None) THEN file[option] ELSE options[option]]

Metadata(command) ==
  IF ~command.hasFile \/ command.options.hash # None
  THEN command.options ELSE Merged(command.options, command.file)

\* With a metadata file and --destinationTag a dictionary becomes a key of one.
ArgumentsRaise(command) ==
  /\ command.hasFile
  /\ command.options.hash = None
  /\ command.options.tag # None

\* The metadata is complete, and the file has the input tag and IOVs of it.
Complete(metadata) ==
  /\ metadata.tag # None
  /\ metadata.sourceDB # None \/ metadata.hash # None
  /\ metadata.sourceDB # None =>
       /\ metadata.sourceDB \in DOMAIN Files
       /\ metadata.inputTag \in DOMAIN Files[metadata.sourceDB].tags
       /\ Files[metadata.sourceDB].tags[metadata.inputTag].iovs # {}

\* What the options of a command line and the files it names may be.
Options ==
  [sourceDB : Strings, inputTag : Strings, tag : Tags \cup {None}, since : Nat,
   filter : Strings, hash : Strings]

ASSUME CommandsAssumption == \A command \in Commands : Metadata(command) \in Options

ASSUME FilesAssumption ==
  \A file \in DOMAIN Files :
    /\ Files[file].payloads \subseteq Strings
    /\ \A tag \in DOMAIN Files[file].tags :
         LET input == Files[file].tags[tag]
         IN  /\ input.iovs \subseteq IOV /\ IsFiniteSet(input.iovs)
             /\ input.timeType \in Strings

FirstSince(iovs) ==
  CHOOSE first \in Sinces(iovs) : \A since \in Sinces(iovs) : first <= since

\* Times of a tag by runs become times by luminosity block, and a since that is
\* not given is the first.
Prepared(client, timeType, iovs, since) ==
  LET unit == IF timeType = "Run" THEN LumisPerRun ELSE 1
      scaled == {[since |-> iov.since * unit, hash |-> iov.hash] : iov \in iovs}
  IN  Ask([client EXCEPT !.iovs = scaled, !.source = scaled, !.timeType = timeType,
             !.since = IF since = NoSince THEN FirstSince(scaled) ELSE since * unit],
          "session")

\* The payloads of the input tag's IOVs that the file does not hold.
MissingIn(file, iovs) == Hashes(iovs) \ file.payloads

Constructed(client, metadata) ==
  IF ~Complete(metadata) THEN Exit(client)
  ELSE IF metadata.sourceDB # None
  THEN LET file == Files[metadata.sourceDB]
           input == file.tags[metadata.inputTag]
       IN  Prepared([client EXCEPT !.missing = MissingIn(file, input.iovs)],
                    input.timeType, input.iovs, metadata.since)
  ELSE Ask([client EXCEPT !.missing = {metadata.hash}], "tag")

\* With a hash in place of a file the destination tag is asked for.
Construct(c) ==
  /\ up[c].pc = "new"
  /\ \E command \in Commands :
       LET metadata == Metadata(command)
           client == [Idle EXCEPT !.metadata = metadata, !.tag = metadata.tag]
       IN  up' = [up EXCEPT ![c] = IF ArgumentsRaise(command) THEN Exit(client)
                                   ELSE Constructed(client, metadata)]
  /\ UNCHANGED server

-----------------------------------------------------------------------------
(* Answers.  An error in an answer ends the process at once. *)

GotTag(client, reply) ==
  LET given == client.metadata
  IN  Prepared(client, reply.data, {[since |-> given.since, hash |-> given.hash]},
               given.since)

\* Time tags and uploads without --fcsr-filter skip the filter.
GotSession(client, reply) ==
  LET opened == [client EXCEPT !.session = reply.data]
  IN  Ask(opened, IF client.metadata.filter # None /\ client.timeType # "Time"
                  THEN "fcsr" ELSE "hashes")

\* The greatest since not above the destination's, the first since if there is
\* none: iovs[0] of a sequence in order.
MaxSinceBelow(iovs, dest) ==
  LET below == {since \in Sinces(iovs) : since <= dest}
  IN  IF below = {}
      THEN FirstSince(iovs)
      ELSE CHOOSE last \in below : \A since \in below : since <= last

\* Variant with a fault: IOVs below the destination's since are dropped.
ShiftedWithAHole(iovs, dest) ==
  {iov \in iovs : iov.since >= dest}

\* IOVs before that one are dropped, it is moved to the destination's since.
Shifted(iovs, dest) ==
  LET kept == {iov \in iovs : iov.since >= MaxSinceBelow(iovs, dest)}
  IN  {[since |-> IF iov.since < dest THEN dest ELSE iov.since, hash |-> iov.hash] :
       iov \in kept}

\* filter_iovs_by_fcsr
GotFcsr(client, reply) ==
  IF ~reply.ok THEN ExitUpload(client)     \* KeyError: no "fcsr" in the answer
  ELSE IF reply.data > client.since /\ client.metadata.filter = "offline"
  THEN ExitUpload(client)
  ELSE LET dest == IF reply.data > client.since THEN reply.data ELSE client.since
       IN  Ask([client EXCEPT !.since = dest, !.iovs = Shifted(@, dest)], "hashes")

\* A payload that neither the server nor the file has ends the upload.
GotHashes(client, reply) ==
  IF reply.data \cap client.missing # {} THEN ExitUpload(client)
  ELSE IF reply.data = {} THEN Ask(client, "metadata")
  ELSE Ask([client EXCEPT !.toSend = SetToSeq(reply.data)], "payload")

PayloadSent(client, reply) ==
  LET rest == Tail(client.toSend)
  IN  Ask([client EXCEPT !.toSend = rest],
          IF rest = <<>> THEN "metadata" ELSE "payload")

Answered(client, reply) ==
  IF client.pc = "fcsr" THEN GotFcsr(client, reply)
  ELSE IF client.pc = "closing" \/ ~reply.ok THEN Exit(client)
  ELSE CASE client.pc = "tag" -> GotTag(client, reply)
         [] client.pc = "session" -> GotSession(client, reply)
         [] client.pc = "hashes" -> GotHashes(client, reply)
         [] client.pc = "payload" -> PayloadSent(client, reply)
         [] client.pc = "metadata" -> [client EXCEPT !.pc = "done"]

-----------------------------------------------------------------------------
(* Requests. *)

Asking(c) == up[c].pc \in Requests

Perform(c) ==
  /\ Asking(c)
  /\ \E reply \in {Serve(server, up[c])} :
       /\ server' = reply.server
       /\ up' = [up EXCEPT ![c] = Answered(@, reply)]

\* What went wrong with a request, for the properties.
Troubled(client, how) == [client EXCEPT !.trouble = @ \cup {<<client.pc, how>>}]

\* NoMoreRetriesException.  upload() leaves through exit_upload; send_blob makes
\* an error of it, which ends the process; nobody catches it in the constructor
\* or while the session is closed.
NoMoreRetries(client) ==
  IF client.pc \in {"session", "fcsr", "hashes", "metadata"}
  THEN ExitUpload(client) ELSE Exit(client)

\* perform() raises: the request did not arrive, or its answer did not.
Failed(client, arrived) ==
  LET told == [client EXCEPT !.attempt = @ + 1,
                 !.trouble = IF arrived THEN @ \cup {<<client.pc, "unanswered">>} ELSE @]
  IN  IF client.attempt + 1 < MaxAttempts THEN told
      ELSE NoMoreRetries(Troubled(told, "abandoned"))

Fail(c) ==
  /\ Asking(c)
  /\ \E arrived \in BOOLEAN :
       /\ server' = IF arrived THEN Serve(server, up[c]).server ELSE server
       /\ up' = [up EXCEPT ![c] = Failed(@, arrived)]

\* check_response cannot decode the answer and calls exit().
Garble(c) ==
  /\ Asking(c)
  /\ server' = Serve(server, up[c]).server
  /\ up' = [up EXCEPT ![c] = Exit(Troubled(@, "undecodable"))]

-----------------------------------------------------------------------------
UploadsInit ==
  /\ up = [c \in Clients |-> Idle]
  /\ server = [payloads |-> FirstPayloads, iovs |-> FirstIovs, timeType |-> FirstTimeType,
               lock |-> [tag \in Tags |-> NoSession], sessions |-> 0, stored |-> {}]

UploadsNext ==
  \E c \in Clients : Construct(c) \/ Perform(c) \/ Fail(c) \/ Garble(c)

-----------------------------------------------------------------------------
(* Properties. *)

Troubles == {"unanswered", "undecodable", "abandoned"}

ClientType ==
  [pc : Requests \cup {"new", "exited", "done"}, attempt : Nat, session : Nat,
   metadata : Options, tag : Tags \cup {None}, timeType : Strings,
   iovs : SUBSET IOV, source : SUBSET IOV, missing : SUBSET Strings, since : Nat,
   toSend : Seq(Strings), trouble : SUBSET (Requests \X Troubles)]

ServerType ==
  [payloads : SUBSET Strings, iovs : [Tags -> SUBSET IOV], timeType : [Tags -> Strings],
   lock : [Tags -> Nat], sessions : Nat, stored : SUBSET Nat]

UploadsTypeOK == up \in [Clients -> ClientType] /\ server \in ServerType

Sending(client) == client.pc \in {"hashes", "payload", "metadata", "done"}

\* What is sent starts at the destination's since, which is not before the FCSR,
\* and says the same as the source from there on.
Covered(client) ==
  /\ (client.metadata.filter # None /\ client.timeType # "Time") =>
       /\ client.since >= Fcsr
       /\ \A iov \in client.iovs : iov.since >= client.since
  /\ \A time \in Sinces(client.source) \cup {client.since} :
       time >= client.since =>
         PayloadAt(client.iovs, time) = PayloadAt(client.source, time)

\* filter_iovs_by_fcsr "without leaving a hole in the Conditions coverage".
FilterLeavesNoHole == \A c \in Clients : Sending(up[c]) => Covered(up[c])

\* Payloads and IOVs are sent separately, a payload may be only on the server or
\* only in the file, and any request may be served twice: still no IOV of a tag
\* points at a payload the server does not have, and a client that ends well has
\* stored its IOVs under its own lock.
StoredWhole ==
  /\ \A tag \in Tags : Hashes(server.iovs[tag]) \subseteq server.payloads
  /\ \A c \in Clients : up[c].pc = "done" => up[c].session \in server.stored

\* Why a client of a tag may have it locked.
AccountsFor(client, tag, lock) ==
  /\ client.pc # "new" /\ client.tag = tag
  /\ \/ client.session = lock /\ client.pc \in Requests
     \/ \E request \in Requests : <<request, "undecodable">> \in client.trouble
     \/ client.trouble \cap {<<"session", "unanswered">>, <<"payload", "abandoned">>,
                            <<"closing", "abandoned">>} # {}

\* A tag stays locked after its client only if the client never learned of the
\* session, could not decode an answer, or ran out of retries while it sent a
\* payload or closed the session.
LocksAreReturned ==
  \A tag \in Tags :
    server.lock[tag] # NoSession =>
      \E c \in Clients : AccountsFor(up[c], tag, server.lock[tag])

\* From the file of a client to the tag of the server: nothing is lost on the way, and
\* the tag is free again.
UploadsAreStored == FilterLeavesNoHole /\ StoredWhole /\ LocksAreReturned

-----------------------------------------------------------------------------
(* The inductive invariant that UploadsAreStored rests on. *)

\* A lock is a session the service gave, to one tag.
ServerInv(srv) ==
  /\ \A tag \in Tags : Hashes(srv.iovs[tag]) \subseteq srv.payloads
  /\ \A tag \in Tags : srv.lock[tag] <= srv.sessions
  /\ \A one, other \in Tags :
       srv.lock[one] # NoSession /\ srv.lock[one] = srv.lock[other] => one = other

\* What a client has left to send, and what it has of the source.
ClientInv(client, srv) ==
  /\ client.pc \in Requests => client.tag \in Tags
  /\ client.pc \in {"new", "tag", "session"} => client.session = NoSession
  /\ client.pc \in {"session", "fcsr"} => client.iovs = client.source /\ client.source # {}
  /\ client.pc \in {"session", "fcsr", "hashes"} => IsFiniteSet(client.iovs)
  /\ Sending(client) => Covered(client)
  /\ client.pc = "payload" =>
       /\ client.toSend # <<>>
       /\ \A hash \in Hashes(client.iovs) :
            hash \in srv.payloads \/ \E i \in 1 .. Len(client.toSend) : client.toSend[i] = hash
  /\ client.pc = "metadata" => Hashes(client.iovs) \subseteq srv.payloads
  /\ client.pc = "done" => client.session \in srv.stored

\* A session that locks a tag is only of the client that opened it for that tag.
OwnLock(client, srv) ==
  /\ client.session <= srv.sessions
  /\ \A tag \in Tags :
       srv.lock[tag] # NoSession /\ srv.lock[tag] = client.session => client.tag = tag

UploadsInv ==
  /\ UploadsTypeOK
  /\ ServerInv(server)
  /\ \A c \in Clients : ClientInv(up[c], server) /\ OwnLock(up[c], server)
  /\ LocksAreReturned

=============================================================================
