----------------------------- MODULE CondDBTools -----------------------------
(***************************************************************************)
(* The command-line tools of CondCore/Utilities that write conditions:     *)
(* conddb_import, conddb_copy_iov and conddb_edit_tag on the tags of       *)
(* databases, and cmscond_authentication_manager on the credential store.  *)
(* A tool is one transaction: it runs on what it read at its start and     *)
(* either commits or leaves everything as it was.                          *)
(*                                                                         *)
(* CondCore/CondDB (sessions, proxies, editors, the credential store) is   *)
(* outside the repository: it is what the tools use of it.                 *)
(***************************************************************************)
EXTENDS Integers, Sequences, FiniteSets, SequencesExt

CONSTANTS
  FirstBases,     \* the databases at the start: name -> [tags, payloads]
  FirstStore,     \* the credential store: [connections, permissions]
  KnownTypes,     \* payload types with a case in fetchOne
  Imports,        \* command lines of conddb_import
  Copies,         \* command lines of conddb_copy_iov
  Edits,          \* command lines of conddb_edit_tag, and the answer typed
  Grants,         \* command lines of cmscond_authentication_manager
  Reader,         \* the principal an exported file is imported for
  MaxTools        \* bound on the tools that are run

\* The IOVs of a tag: finitely many, one for a since, of payloads that are stored.
IsIovSequence(iovs, payloads) ==
  /\ IsFiniteSet(iovs) /\ iovs \subseteq [since : Nat, hash : payloads]
  /\ \A iov, other \in iovs : iov.since = other.since => iov = other

IsDatabase(base) ==
  /\ base = [tags |-> base.tags, payloads |-> base.payloads]
  /\ \A hash \in base.payloads : hash = [content |-> hash.content, format |-> hash.format]
  /\ \A info \in Range(base.tags) :
       /\ info = [payloadType |-> info.payloadType, timeType |-> info.timeType, sync |-> info.sync,
                  endOfValidity |-> info.endOfValidity, iovs |-> info.iovs]
       /\ IsIovSequence(info.iovs, base.payloads)

ASSUME DatabasesAssumption == \A name \in DOMAIN FirstBases : IsDatabase(FirstBases[name])

ASSUME StoreAssumption ==
  /\ FirstStore = [connections |-> FirstStore.connections, permissions |-> FirstStore.permissions]
  /\ IsFiniteSet(FirstStore.permissions)

\* Command lines name databases that are there and times.
ASSUME ArgumentsAssumption ==
  /\ \A a \in Imports : /\ {a.from, a.to} \subseteq DOMAIN FirstBases /\ {a.begin, a.end} \subseteq Nat
                        /\ {a.override, a.reserialize} \subseteq BOOLEAN
  /\ \A a \in Copies : a.base \in DOMAIN FirstBases /\ {a.sourceSince, a.destSince} \subseteq Nat

VARIABLES
  bases,    \* the databases
  store,    \* the credential store
  xml,      \* the file written by --export
  last      \* the last tool: its arguments, and what it found

toolVars == <<bases, store, xml, last>>

Omitted == "none"

NoTime == 0

DefaultRole == "default"

NoTool == [tool |-> "none", count |-> 0]

-----------------------------------------------------------------------------
(* IOV sequences are sets of [since, hash]; a hash is the content of a     *)
(* payload and the serialisation that wrote it.                            *)

SincesOf(iovs) == {iov.since : iov \in iovs}

HasIov(iovs, time) == \E iov \in iovs : iov.since <= time

\* getInterval, find: the IOV valid at a time.
IntervalAt(iovs, time) ==
  CHOOSE iov \in iovs : /\ iov.since <= time
                        /\ \A other \in iovs : other.since <= time => other.since <= iov.since

NewTag(payloadType, timeType, sync) ==
  [payloadType |-> payloadType, timeType |-> timeType, sync |-> sync,
   endOfValidity |-> NoTime, iovs |-> {}]

\* IOVEditor::flush: of two insertions at a since the later counts, and an IOV
\* must point at a payload of the database.
Flushed(base, tag, insertions) ==
  LET latest == {n \in DOMAIN insertions :
                   \A later \in DOMAIN insertions :
                     later > n => insertions[later].since # insertions[n].since}
      new == {insertions[n] : n \in latest}
  IN  [base EXCEPT !.tags[tag].iovs =
         {iov \in @ : iov.since \notin SincesOf(new)} \cup new]

\* The sinces of a set of IOVs in ascending order.
Ascending(times) ==
  <<>> \o [n \in 1..Cardinality(times) |->
             CHOOSE time \in times : Cardinality({t \in times : t < time}) = n - 1]

-----------------------------------------------------------------------------
(* conddb_import *)

\* importPayload: bytes are copied, or read back and written as of now.
ImportedHash(hash, reserialize) ==
  IF reserialize THEN [hash EXCEPT !.format = "new"] ELSE hash

\* fetchOne reads what is in its list of types.
CanFetch(payloadType) == payloadType \in KnownTypes

\* import writes the same types except for one, which it refuses by name.
CanWrite(payloadType) == payloadType \in KnownTypes \ {"L1TriggerKeyList"}

\* fetch, fetchOne and import: only a payload that is there, and one to be written
\* anew only if its type is known to both.
CanImport(source, hash, payloadType, reserialize) ==
  /\ hash \in source.payloads
  /\ reserialize => CanFetch(payloadType) /\ CanWrite(payloadType)

\* The times an IOV is inserted at: the begin, and each since after it.
StartsIn(iovs, begin, end) ==
  {begin} \cup {since \in SincesOf(iovs) : begin < since /\ since <= end}

\* What is inserted, unless the destination has the very same IOV.
ImportedAt(source, found, exists, start, reserialize) ==
  LET used == IntervalAt(source, start)
      same == exists /\ [since |-> start, hash |-> used.hash] \in found
  IN  IF same THEN <<>>
      ELSE <<[since |-> start, hash |-> ImportedHash(used.hash, reserialize)]>>

\* IOVs of the destination inside the interval are overlaid with the payload of
\* the source at that time.
OverlaidAt(source, since) ==
  LET used == IntervalAt(source, since)
  IN  IF used.since = since THEN <<>> ELSE <<[since |-> since, hash |-> used.hash]>>

\* Variant with a fault: only where the source has no IOV before.
OverlaysBetween(source, found, begin, end) ==
  LET inside == Ascending({since \in SincesOf(found) : begin < since /\ since < end})
  IN  FlattenSeq([n \in DOMAIN inside |-> OverlaidAt(source, inside[n])])

Overlays(source, found, begin, end) ==
  LET inside == Ascending({since \in SincesOf(found) : begin <= since /\ since <= end})
  IN  FlattenSeq([n \in DOMAIN inside |-> OverlaidAt(source, inside[n])])

Insertions(source, found, exists, begin, end, arguments) ==
  LET starts == Ascending(StartsIn(source, begin, end))
      copied == FlattenSeq([n \in DOMAIN starts |->
                  ImportedAt(source, found, exists, starts[n], arguments.reserialize)])
  IN  copied \o (IF exists /\ arguments.override
                 THEN Overlays(source, found, begin, end) ELSE <<>>)

HasTag(base, tag) == tag \in DOMAIN base.tags

WithTag(base, tag, info) ==
  [base EXCEPT !.tags = [t \in DOMAIN @ \cup {tag} |-> IF t = tag THEN info ELSE @[t]]]

\* The destination tag as it is, or created like the source.
OpenedTag(base, tag, from) ==
  IF HasTag(base, tag) THEN base
  ELSE WithTag(base, tag, NewTag(from.payloadType, from.timeType, from.sync))

SameTypes(info, from) ==
  info.timeType = from.timeType /\ info.payloadType = from.payloadType

Ran(tool, arguments, ok) ==
  [tool |-> tool, count |-> last.count + 1, arguments |-> arguments, ok |-> ok,
   found |-> bases]

CanRun == last.count < MaxTools

\* A tool that returns early, throws, or is refused by flush (the rules of the
\* tag's synchronisation type) leaves its transactions to be rolled back.
RollBack(tool, arguments) ==
  /\ last' = Ran(tool, arguments, FALSE)
  /\ UNCHANGED bases

Commit(tool, arguments, name, base) ==
  /\ last' = Ran(tool, arguments, TRUE)
  /\ bases' = [bases EXCEPT ![name] = base]

\* begin of the tool: never before the first since of the source.
BeginOf(iovs, begin) ==
  LET first == Ascending(SincesOf(iovs))[1] IN IF first > begin THEN first ELSE begin

ImportTo(arguments, from, begin) ==
  LET Flushable(base, insertions) ==
        \A n \in DOMAIN insertions : insertions[n].hash \in base.payloads
      source == bases[arguments.from]
      base == bases[arguments.to]
      exists == HasTag(base, arguments.tag)
      opened == OpenedTag(base, arguments.tag, from)
      found == opened.tags[arguments.tag].iovs
      insertions == Insertions(from.iovs, found, exists, begin, arguments.end, arguments)
      used == {IntervalAt(from.iovs, start) : start \in StartsIn(from.iovs, begin, arguments.end)}
      filled == [opened EXCEPT !.payloads =
                   @ \cup {ImportedHash(iov.hash, arguments.reserialize) : iov \in used}]
  IN  IF /\ SameTypes(opened.tags[arguments.tag], from)
         /\ \A iov \in used : CanImport(source, iov.hash, from.payloadType, arguments.reserialize)
         /\ Flushable(filled, insertions)
      THEN Commit("import", arguments, arguments.to, Flushed(filled, arguments.tag, insertions))
      ELSE RollBack("import", arguments)

\* ImportUtilities::execute, importIovs
Import(arguments) ==
  LET forced == arguments.forceInsert /\ ~arguments.editingNote
      known == HasTag(bases[arguments.from], arguments.inputTag)
      from == bases[arguments.from].tags[arguments.inputTag]
  IN  /\ CanRun
      /\ IF \/ forced \/ arguments.begin > arguments.end
            \/ ~known \/ from.iovs = {}
            \/ arguments.end < BeginOf(from.iovs, arguments.begin)
         THEN RollBack("import", arguments)
         ELSE \/ ImportTo(arguments, from, BeginOf(from.iovs, arguments.begin))
              \/ ~arguments.forceInsert /\ RollBack("import", arguments)
      /\ UNCHANGED <<store, xml>>

-----------------------------------------------------------------------------
(* conddb_copy_iov *)

\* CopyIovUtilities::execute, copyIov
CopyIov(arguments) ==
  LET base == bases[arguments.base]
      from == base.tags[arguments.inputTag]
      opened == OpenedTag(base, arguments.tag, from)
      copy == [since |-> IF arguments.destSince = NoTime THEN arguments.sourceSince
                         ELSE arguments.destSince,
               hash |-> IntervalAt(from.iovs, arguments.sourceSince).hash]
  IN  /\ CanRun
      /\ IF \/ ~HasTag(base, arguments.inputTag)
            \/ ~HasIov(from.iovs, arguments.sourceSince)
            \/ ~SameTypes(opened.tags[arguments.tag], from)
         THEN RollBack("copy", arguments)
         ELSE \/ Commit("copy", arguments, arguments.base,
                        Flushed(opened, arguments.tag, <<copy>>))
              \/ RollBack("copy", arguments)
      /\ UNCHANGED <<store, xml>>

-----------------------------------------------------------------------------
(* conddb_edit_tag *)

\* EditTagUtilities::execute.  What makes a new tag cannot be changed in one
\* that exists; changes are shown and saved only after a "Y".
MayEdit(exists, arguments) ==
  IF exists
  THEN arguments.payloadType = Omitted /\ arguments.timeType = Omitted /\ arguments.editingNote
  ELSE arguments.payloadType # Omitted /\ arguments.timeType # Omitted /\ arguments.description

Edited(info, arguments) ==
  LET Changed(given, value) == IF given = Omitted THEN value ELSE given
  IN
  [info EXCEPT !.payloadType = Changed(arguments.payloadType, @),
               !.timeType = Changed(arguments.timeType, @),
               !.sync = Changed(arguments.sync, @),
               !.endOfValidity = IF arguments.endOfValidity = NoTime THEN @
                                 ELSE arguments.endOfValidity]

EditTag(arguments) ==
  LET base == bases[arguments.base]
      exists == HasTag(base, arguments.tag)
      info == IF exists THEN base.tags[arguments.tag]
              ELSE NewTag(Omitted, Omitted, "any")
      change == ~exists \/ arguments.sync # Omitted \/ arguments.description
                \/ arguments.endOfValidity # NoTime
  IN  /\ CanRun
      /\ IF MayEdit(exists, arguments) /\ change /\ arguments.confirmed
         THEN Commit("edit", arguments, arguments.base,
                     WithTag(base, arguments.tag, Edited(info, arguments)))
         ELSE RollBack("edit", arguments)
      /\ UNCHANGED <<store, xml>>

-----------------------------------------------------------------------------
(* cmscond_authentication_manager *)

Done(tool, arguments) ==
  last' = [tool |-> tool, count |-> last.count + 1, arguments |-> arguments, ok |-> TRUE,
           found |-> bases]

WithConnection(s, label, account) ==
  [s EXCEPT !.connections =
     [l \in DOMAIN @ \cup {label} |-> IF l = label THEN account ELSE @[l]]]

\* setPermission: one label for a principal, a role and a connection string.
WithPermission(s, grant) ==
  [s EXCEPT !.permissions =
     {p \in @ : <<p.principal, p.role, p.connection>>
                  # <<grant.principal, grant.role, grant.connection>>} \cup {grant}]

\* One command of execute's list: update_conn, remove_conn, set_perm, unset_perm.
Administer(arguments) ==
  /\ CanRun
  /\ store' =
       CASE arguments.command = "update_conn" ->
              WithConnection(store, arguments.label, arguments.account)
         [] arguments.command = "remove_conn" ->
              [connections |-> [l \in DOMAIN store.connections \ {arguments.label} |->
                                  store.connections[l]],
               permissions |-> {p \in store.permissions : p.label # arguments.label}]
         [] arguments.command = "set_perm" /\ arguments.grant.label \in DOMAIN store.connections ->
              WithPermission(store, arguments.grant)
         [] arguments.command = "unset_perm" ->
              [store EXCEPT !.permissions = @ \ {arguments.grant}]
         [] OTHER -> store
  /\ Done("administer", arguments)
  /\ UNCHANGED <<bases, xml>>

\* exportAll: the account of each connection string and role, keys in the order
\* of the map.
KeysOf(s) == {<<p.connection, p.role>> : p \in s.permissions}

AccountOf(s, key) ==
  s.connections[(CHOOSE p \in s.permissions : <<p.connection, p.role>> = key).label]

Element(kind, name, account) == [kind |-> kind, name |-> name, account |-> account]

NoAccount == "none"

\* XMLAuthenticationFileContent writes an opening element only inside what it
\* may be in, and a closing one only if its element is open.
Write(out, kind, name, account) ==
  LET allowed == CASE kind = "connection" -> out.open = <<>>
                   [] kind = "role" -> Len(out.open) = 1
                   [] kind = "/connection" -> out.open # <<>>
                   [] kind = "/role" -> Len(out.open) = 2
                   [] kind = "parameter" -> out.open # <<>>
      open == CASE kind \in {"connection", "role"} -> Append(out.open, kind)
                [] kind = "/connection" -> <<>>
                [] kind = "/role" -> <<"connection">>
                [] kind = "parameter" -> out.open
  IN  IF allowed
      THEN [open |-> open, file |-> Append(out.file, Element(kind, name, account))]
      ELSE out

WriteRole(out, key, creds) ==
  IF key[2] = DefaultRole THEN out
  ELSE Write(Write(Write(out, "role", key[2], NoAccount), "parameter", key[2], creds[key]),
             "/role", key[2], NoAccount)

\* The first entry of a connection closes the one before and writes the account
\* of the default role.
WriteConnection(out, key, creds) ==
  LET default == <<key[1], DefaultRole>>
      opened == Write(Write(out, "/connection", key[1], NoAccount), "connection", key[1], NoAccount)
  IN  IF default \in DOMAIN creds
      THEN Write(opened, "parameter", DefaultRole, creds[default]) ELSE opened

Entry(out, key, isFirst, creds) ==
  WriteRole(IF isFirst THEN WriteConnection(out, key, creds) ELSE out, key, creds)

FileOf(creds, keys) ==
  LET write[n \in 0..Len(keys)] ==
        IF n = 0 THEN [open |-> <<>>, file |-> <<>>]
        ELSE Entry(write[n - 1], keys[n],
                   n = 1 \/ keys[n][1] # keys[IF n = 1 THEN 1 ELSE n - 1][1], creds)
  IN  write[Len(keys)].file

Export(keys) ==
  LET CredentialsOf(s) == [key \in KeysOf(s) |-> AccountOf(s, key)]
  IN
  /\ CanRun
  /\ Range(keys) = KeysOf(store) /\ Len(keys) = Cardinality(KeysOf(store))
  /\ \A i, k \in DOMAIN keys : i < k /\ keys[i][1] = keys[k][1]
                                 => \A m \in i..k : keys[m][1] = keys[i][1]
  /\ xml' = [written |-> TRUE, creds |-> CredentialsOf(store), elements |-> FileOf(CredentialsOf(store), keys)]
  /\ Done("export", Omitted)
  /\ UNCHANGED <<bases, store>>

Parsed(elements) ==
  LET InRole(n) ==
        \E m \in 1..n : /\ elements[m].kind = "role"
                        /\ \A k \in m..n : elements[k].kind # "/role"
      \* parseXMLAuthenticationFile: parameters of a connection are of its default
      \* role, those of a role element of that role.
      NameOf(n, kind) ==
        elements[CHOOSE m \in 1..n : /\ elements[m].kind = kind
                                     /\ \A k \in (m + 1)..n : elements[k].kind # kind].name
  IN
  {[key |-> <<NameOf(n, "connection"),
              IF InRole(n) THEN NameOf(n, "role") ELSE DefaultRole>>,
    account |-> elements[n].account] :
   n \in {m \in DOMAIN elements : elements[m].kind = "parameter"}}

\* importForPrincipal: a label for each account; an account that is there is kept
\* unless forced.
ImportFile(force) ==
  /\ CanRun
  /\ xml.written
  /\ LET read == Parsed(xml.elements)
         known == DOMAIN store.connections
         new == {entry.account.user : entry \in read}
     IN  store' = [connections |->
                     [l \in known \cup new |->
                        IF l \in new /\ (force \/ l \notin known)
                        THEN (CHOOSE entry \in read : entry.account.user = l).account
                        ELSE store.connections[l]],
                   permissions |->
                     {p \in store.permissions : p.principal # Reader
                        \/ <<p.connection, p.role>> \notin {entry.key : entry \in read}}
                     \cup {[principal |-> Reader, connection |-> entry.key[1],
                            role |-> entry.key[2], label |-> entry.account.user] : entry \in read}]
  /\ Done("import file", force)
  /\ UNCHANGED <<bases, xml>>

-----------------------------------------------------------------------------
ToolsInit ==
  /\ bases = FirstBases
  /\ store = FirstStore
  /\ xml = [written |-> FALSE, creds |-> <<>>, elements |-> <<>>]
  /\ last = NoTool

ToolsNext ==
  \/ \E arguments \in Imports : Import(arguments)
  \/ \E arguments \in Copies : CopyIov(arguments)
  \/ \E arguments \in Edits : EditTag(arguments)
  \/ \E arguments \in Grants : Administer(arguments)
  \/ \E keys \in SetToSeqs(KeysOf(store)) : Export(keys)
  \/ \E force \in BOOLEAN : ImportFile(force)

-----------------------------------------------------------------------------
(* Properties. *)

ContentAt(iovs, time) ==
  IF HasIov(iovs, time) THEN {IntervalAt(iovs, time).hash.content} ELSE {}

FoundIovs(tool) ==
  LET base == tool.found[tool.arguments.to]
  IN  IF HasTag(base, tool.arguments.tag) THEN base.tags[tool.arguments.tag].iovs ELSE {}

\* importIovs: an import that overrides, or that makes its tag, leaves the
\* payload of the source at every time of the interval, whatever IOVs the
\* destination had inside and wherever the begin falls between two sinces; before
\* the interval and from the next IOV after it on nothing changes.
ImportedIovs ==
  last.tool = "import" /\ last.ok =>
    LET a == last.arguments
        found == FoundIovs(last)
        source == last.found[a.from].tags[a.inputTag].iovs
        begin == BeginOf(source, a.begin)
        now == bases[a.to].tags[a.tag].iovs
        times == SincesOf(source) \cup SincesOf(found) \cup {begin, begin - 1, a.end, a.end + 1}
        kept == {iov \in found : iov.since > a.end}
    IN  /\ (a.override \/ found = {}) =>
             \A time \in {t \in times : begin <= t /\ t <= a.end} :
               ContentAt(now, time) = ContentAt(source, time)
        /\ \A time \in times :
             time < begin \/ (\E iov \in kept : iov.since <= time)
               => ContentAt(now, time) = ContentAt(found, time)
        /\ \A iov \in now : iov.hash \in bases[a.to].payloads

\* What --export wrote reads back as the credentials of the store: each account
\* under its connection and role, the default role's too.
ExportReadsBack ==
  xml.written =>
    Parsed(xml.elements) = {[key |-> key, account |-> xml.creds[key]] : key \in DOMAIN xml.creds}

\* What is copied from one store to another, IOVs or credentials, says the same there.
CopiesSayTheSource == ImportedIovs /\ ExportReadsBack

=============================================================================
