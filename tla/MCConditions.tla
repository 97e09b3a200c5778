---------------------------- MODULE MCConditions ----------------------------
(***************************************************************************)
(* The conditions tools for TLC.  Each behaviour plays one scene: uploads  *)
(* by sessions, uploads through the drop box, tools on databases, or the   *)
(* test of a global tag.                                                   *)
(***************************************************************************)
EXTENDS CondDBFWUploads, DropBoxUpload, CondDBTools, GlobalTagTests

VARIABLE scene

vars == <<scene, uploadVars, dropBoxVars, toolVars, gtVars>>

IovOf(since, hash) == [since |-> since, hash |-> hash]

-----------------------------------------------------------------------------
(* Upload sessions: a file with a tag by runs and one by luminosity blocks, *)
(* a payload that is only on the server, one that is only in the file and   *)
(* one that is in neither.                                                  *)

NoOption == NoMetadata

MCFiles ==
  [a |-> [tags |-> [x |-> [timeType |-> "Run",
                           iovs |-> {IovOf(1, "h1"), IovOf(2, "h2"), IovOf(3, "h1")}],
                    y |-> [timeType |-> "Lumi",
                           iovs |-> {IovOf(5, "h2"), IovOf(9, "h3")}]],
          payloads |-> {"h1", "h2"}]]

FromFile(input, tag, since, filter) ==
  [NoOption EXCEPT !.sourceDB = "a", !.inputTag = input, !.tag = tag, !.since = since,
                   !.filter = filter]

Command(options, file) == [options |-> options, hasFile |-> file # NoOption, file |-> file]

MCCommands ==
  {Command(FromFile("x", "T", 0, "prompt"), NoOption),
   Command([NoOption EXCEPT !.since = 1, !.filter = "offline"], FromFile("x", "T", 0, "none")),
   Command([NoOption EXCEPT !.tag = "T"], FromFile("z", "T", 0, "none")),
   Command(FromFile("y", "T", 6, "prompt"), NoOption),
   Command([NoOption EXCEPT !.tag = "T", !.hash = "h3", !.since = 3], NoOption),
   Command([NoOption EXCEPT !.tag = "T"], NoOption)}

ClientsAreAlike == Permutations(Clients)

MCFirstIovs == [t \in Tags |-> {IovOf(1, "h0")}]

MCTimeType == [t \in Tags |-> "Run"]

-----------------------------------------------------------------------------
(* The drop box. *)

MCDestination == [j \in Jobs |-> "orcoff_prep"]

MCMaxRuns == [p \in Jobs \cup Users |-> IF p \in Jobs THEN 2 ELSE 1]

FileOfUser(iovs, to) == [data |-> [iovs |-> iovs, run |-> 0], to |-> to]

MCArguments ==
  {<<FileOfUser("some", "orcon_prod"), FileOfUser("some", "orcoff_prep")>>,
   <<FileOfUser("some", "other"), FileOfUser("some", "orcoff_prep")>>,
   <<FileOfUser("some", "orcon_prod"), FileOfUser("unreadable", "orcon_prod")>>}

-----------------------------------------------------------------------------
(* Tools on two databases. *)

Old(content) == [content |-> content, format |-> "old"]

TagBy(timeType, iovs) ==
  [payloadType |-> "P", timeType |-> timeType, sync |-> "any", endOfValidity |-> 0,
   iovs |-> iovs]

MCBases ==
  [a |-> [tags |-> [s |-> TagBy("Run", {IovOf(2, Old("p")), IovOf(4, Old("q")), IovOf(6, Old("p"))}),
                    l |-> TagBy("Lumi", {IovOf(1, Old("p"))}),
                    u |-> [TagBy("Run", {IovOf(1, Old("p"))}) EXCEPT !.payloadType = "U"],
                    e |-> TagBy("Run", {})],
          payloads |-> {Old("p"), Old("q")}],
   b |-> [tags |-> [d |-> TagBy("Run", {IovOf(1, Old("r")), IovOf(3, Old("r")), IovOf(5, Old("p")),
                                       IovOf(7, Old("r"))})],
          payloads |-> {Old("r"), Old("p")}]]

ImportOf(input, tag, begin, end, override, reserialize, force, note) ==
  [from |-> "a", to |-> "b", inputTag |-> input, tag |-> tag, begin |-> begin, end |-> end,
   override |-> override, reserialize |-> reserialize, forceInsert |-> force,
   editingNote |-> note]

MCImports ==
  {ImportOf("s", "d", begin, end, override, reserialize, FALSE, FALSE) :
   begin \in {1, 3, 5}, end \in {1, 5, 9}, override \in BOOLEAN, reserialize \in BOOLEAN}
  \cup {ImportOf(input, tag, 3, 9, TRUE, reserialize, TRUE, note) :
        input \in {"s", "l", "u", "e", "z"}, tag \in {"d", "n"},
        reserialize \in BOOLEAN, note \in BOOLEAN}

MCCopies ==
  {[base |-> "a", inputTag |-> input, tag |-> tag, sourceSince |-> 5, destSince |-> dest] :
   input \in {"s", "l", "z"}, tag \in {"s", "n"}, dest \in {0, 3}}

MCEdits ==
  {[base |-> "b", tag |-> tag, payloadType |-> payload, timeType |-> time, sync |-> sync,
    description |-> TRUE, editingNote |-> note, endOfValidity |-> till, confirmed |-> TRUE] :
   tag \in {"d", "n"}, payload \in {"none", "P"}, time \in {"none", "Run", "Lumi"},
   sync \in {"none", "hlt"}, note \in BOOLEAN, till \in {0, 8}}

MCStore ==
  [connections |-> [l1 |-> [user |-> "u1", password |-> 1], l2 |-> [user |-> "u2", password |-> 2]],
   permissions |-> {[principal |-> "me", role |-> "default", connection |-> "c1", label |-> "l1"],
                    [principal |-> "me", role |-> "writer", connection |-> "c1", label |-> "l2"],
                    [principal |-> "me", role |-> "writer", connection |-> "c2", label |-> "l1"]}]

MCGrants ==
  {[command |-> "update_conn", label |-> "l1", account |-> [user |-> "u1", password |-> 3]],
   [command |-> "remove_conn", label |-> "l1"]}
  \cup {[command |-> command,
         grant |-> [principal |-> "me", role |-> role, connection |-> "c2", label |-> "l2"]] :
        command \in {"set_perm", "unset_perm"}, role \in {"default", "reader"}}

-----------------------------------------------------------------------------
(* A global tag that has one tag twice, one that cannot be read, one without *)
(* an IOV at the first time, one with a payload that is lost and one of a    *)
(* time type that is skipped; one of a type that is not fetched and one of a *)
(* type that fetchOne does not know.                                         *)

MCEntries == <<"t1", "t2", "t1", "t3", "t4", "t5", "t6">>

MCTagInfo ==
  [t1 |-> [timeType |-> "Run", payloadType |-> "P",
           iovs |-> {IovOf(1, "g1"), IovOf(3, "g2"), IovOf(6, "g1")}],
   t2 |-> [timeType |-> "Lumi", payloadType |-> "P", iovs |-> {IovOf(3, "g2")}],
   t4 |-> [timeType |-> "Time", payloadType |-> "U",
           iovs |-> {IovOf(1, "g1"), IovOf(4, "g3")}],
   t5 |-> [timeType |-> "Hash", payloadType |-> "SiPixelGainCalibrationOffline", iovs |-> {}]]

MCStart == [Run |-> 1, Lumi |-> 2, Time |-> 2]

MCStep == [Run |-> 1, Lumi |-> 3, Time |-> 2]

-----------------------------------------------------------------------------
Init ==
  /\ scene \in {"session", "dropbox", "tools", "globaltag"}
  /\ UploadsInit /\ DropBoxInit /\ ToolsInit /\ TestsInit
  /\ scene = "globaltag" \/ test.kind = "load"

Next ==
  \/ /\ scene = "session"
     /\ UploadsNext
     /\ UNCHANGED <<scene, dropBoxVars, toolVars, gtVars>>
  \/ /\ scene = "dropbox"
     /\ DropBoxNext
     /\ UNCHANGED <<scene, uploadVars, toolVars, gtVars>>
  \/ /\ scene = "tools"
     /\ ToolsNext
     /\ UNCHANGED <<scene, uploadVars, dropBoxVars, gtVars>>
  \/ /\ scene = "globaltag"
     /\ TestsNext
     /\ UNCHANGED <<scene, uploadVars, dropBoxVars, toolVars>>

Spec == Init /\ [][Next]_vars

=============================================================================
