---------------------------- MODULE DropBoxUpload ----------------------------
(***************************************************************************)
(* Uploads through the drop box: an O2O job (python/o2o.py) runs popcon    *)
(* (popcon2dropbox.py), which lets cmsRun write an SQLite file and calls   *)
(* scripts/uploadConditions.py on it; users call that script with files of *)
(* their own, or to upload again what the drop box already has.  A job     *)
(* works in its own directory and may be killed at any step.               *)
(*                                                                         *)
(* The two drop boxes, their answers and the log database are outside the  *)
(* repository.                                                             *)
(***************************************************************************)
EXTENDS Integers, Sequences, FiniteSets, SequencesExt

CONSTANTS
  Jobs,         \* O2O jobs
  Users,        \* callers of uploadConditions.py
  Destination,  \* the destination database of a job
  Arguments,    \* file lists of users: sequences of files
  MaxRuns       \* bound on the runs of each job and the uploads of each user

VARIABLES
  proc,      \* the processes: control, files, drop box client, exit code
  disk,      \* input_for_dropbox.db in the directory of a job
  jobTable,  \* O2O_JOB: whether a job exists and is enabled
  runTable,  \* O2O_RUN: the runs of a job
  accepted   \* what the drop boxes took

dropBoxVars == <<proc, disk, jobTable, runTable, accepted>>

NoToken == "none"

Hosts == {"prod", "dev"}

\* What a job or a user may have to upload, and where to.
Contents == {"absent", "none", "some", "unreadable"}

Databases == {"orcon_prod", "orcoff_prep", "other"}

File == [data : [iovs : Contents, run : Nat], to : Databases]

ASSUME ProcessesAssumption ==
  /\ Jobs \cap Users = {}
  /\ Destination \in [Jobs -> Databases]
  /\ Arguments \subseteq Seq(File)

\* sys.exit keeps eight bits of a status.
ExitCode(status) == (status + 256) % 256

startStatus == -1

Runs(p) == IF p \in Jobs THEN Len(runTable[p]) ELSE proc[p].run

Client == [hostname |-> "prod", token |-> NoToken, baseUrl |-> NoToken]

Resting(run) ==
  [pc |-> "idle", run |-> run, files |-> <<>>, at |-> 0, status |-> 0,
   dropBox |-> Client]

Absent == [iovs |-> "absent", run |-> 0]

-----------------------------------------------------------------------------
(* o2oSetup.py: an administrator adds, enables and disables jobs. *)

AddJob(j) ==
  /\ jobTable[j] = "unknown"
  /\ jobTable' = [jobTable EXCEPT ![j] = "enabled"]
  /\ UNCHANGED <<proc, disk, runTable, accepted>>

SetJob(j) ==
  /\ jobTable[j] # "unknown"
  /\ \E flag \in {"enabled", "disabled"} \ {jobTable[j]} :
       jobTable' = [jobTable EXCEPT ![j] = flag]
  /\ UNCHANGED <<proc, disk, runTable, accepted>>

-----------------------------------------------------------------------------
(* o2oRun.py *)

\* startJob: a run is recorded with its start status.  When the database fails
\* in the end the job is run all the same, without a record.
StartJob(j) ==
  /\ proc[j].pc = "idle" /\ proc[j].run < MaxRuns[j]
  /\ jobTable[j] = "enabled"
  /\ \E recorded \in BOOLEAN :
       /\ runTable' =
            IF recorded
            THEN [runTable EXCEPT ![j] =
                    Append(@, [run |-> proc[j].run + 1, status |-> startStatus,
                               ended |-> FALSE, log |-> "absent"])]
            ELSE runTable
       /\ proc' = [proc EXCEPT ![j] = [Resting(@.run + 1) EXCEPT !.pc = "popcon"]]
  /\ UNCHANGED <<disk, jobTable, accepted>>

RecordOf(j) == {i \in DOMAIN runTable[j] : runTable[j][i].run = proc[j].run}

\* endJob: the record is merged, with the output of the job, so one that is not
\* there is made.
EndJob(j) ==
  /\ proc[j].pc = "ended"
  /\ \E stored \in BOOLEAN :
       runTable' =
         IF ~stored THEN runTable
         ELSE LET record == [run |-> proc[j].run, status |-> proc[j].status,
                             ended |-> TRUE, log |-> disk[j].iovs]
              IN  IF RecordOf(j) = {}
                  THEN [runTable EXCEPT ![j] = Append(@, record)]
                  ELSE [runTable EXCEPT ![j][CHOOSE i \in RecordOf(j) : TRUE] = record]
  /\ proc' = [proc EXCEPT ![j] = Resting(@.run)]
  /\ UNCHANGED <<disk, jobTable, accepted>>

Kill(j) ==
  /\ proc[j].pc # "idle"
  /\ proc' = [proc EXCEPT ![j] = Resting(@.run)]
  /\ UNCHANGED <<disk, jobTable, runTable, accepted>>

-----------------------------------------------------------------------------
(* popcon2dropbox.py *)

Ended(p, status) == [p EXCEPT !.pc = "ended", !.status = ExitCode(status)]

\* run: files of earlier runs are removed before cmsRun, which may write a file
\* with or without IOVs, or none, and may fail with whatever it wrote.
Popcon(j) ==
  /\ proc[j].pc = "popcon"
  /\ \E iovs \in {"absent", "none", "some"}, fails \in BOOLEAN :
       /\ disk' = [disk EXCEPT ![j] = IF iovs = "absent" THEN Absent
                                      ELSE [iovs |-> iovs, run |-> proc[j].run]]
       /\ proc' = [proc EXCEPT ![j] = IF fails THEN Ended(@, 1)
                                      ELSE [@ EXCEPT !.pc = "upload"]]
  /\ UNCHANGED <<jobTable, runTable, accepted>>

\* upload: no file is an error, a file without IOVs is not; else the metadata is
\* written beside it and uploadConditions.py called.
PopconUpload(j) ==
  /\ proc[j].pc = "upload"
  /\ proc' = [proc EXCEPT ![j] =
       CASE disk[j].iovs = "absent" -> Ended(@, -1)
         [] disk[j].iovs = "none" -> Ended(@, 0)
         [] disk[j].iovs = "some" ->
              [@ EXCEPT !.pc = "check",
                        !.files = <<[data |-> disk[j], to |-> Destination[j]]>>]]
  /\ UNCHANGED <<disk, jobTable, runTable, accepted>>

-----------------------------------------------------------------------------
(* uploadConditions.py *)

\* main with files
StartUpload(u) ==
  /\ proc[u].pc = "idle" /\ proc[u].run < MaxRuns[u]
  /\ \E files \in Arguments :
       proc' = [proc EXCEPT ![u] = [Resting(@.run + 1) EXCEPT !.pc = "check",
                                                            !.files = files]]
  /\ UNCHANGED <<disk, jobTable, runTable, accepted>>

\* re_upload: the file is fetched from the log database by its hash and unpacked
\* into files of the working directory.
ReUpload(u) ==
  /\ proc[u].pc = "idle" /\ proc[u].run < MaxRuns[u]
  /\ \E item \in accepted :
       proc' = [proc EXCEPT ![u] = [Resting(@.run + 1) EXCEPT
                                      !.pc = "check", !.files = <<item.file>>]]
  /\ UNCHANGED <<disk, jobTable, runTable, accepted>>

\* All files are looked at before the first is uploaded.
CheckStatus(file) ==
  CASE file.data.iovs = "absent" -> -3
    [] file.data.iovs = "none" -> -4
    [] file.data.iovs = "unreadable" -> -5
    [] file.data.iovs = "some" -> 0

CheckFiles(p) ==
  /\ proc[p].pc = "check"
  /\ LET bad == {i \in DOMAIN proc[p].files : CheckStatus(proc[p].files[i]) # 0}
     IN  proc' = [proc EXCEPT ![p] =
           IF bad = {} THEN [@ EXCEPT !.pc = "next", !.at = 1]
           ELSE Ended(@, CheckStatus(@.files[CHOOSE i \in bad : \A k \in bad : i <= k]))]
  /\ UNCHANGED <<disk, jobTable, runTable, accepted>>

\* A token is only good for the host that gave it.
setHost(dropBox, hostname) ==
  IF hostname = dropBox.hostname THEN dropBox
  ELSE [dropBox EXCEPT !.token = NoToken, !.hostname = hostname]

signIn(dropBox, token) ==
  IF dropBox.token # NoToken THEN dropBox
  ELSE [dropBox EXCEPT !.baseUrl = dropBox.hostname, !.token = token]

\* Variant with a fault: a failure leaves the status alone.
CountedAsDone(p, result) ==
  [p EXCEPT !.pc = "next", !.at = @ + 1]

Counted(p, result) ==
  [p EXCEPT !.pc = "next", !.at = @ + 1,
            !.status = IF result THEN @ ELSE @ + 1]

HostOf(to) == IF to = "orcoff_prep" THEN "dev" ELSE "prod"

\* The next file goes to the drop box of its destination, or nowhere.  signIn
\* asks for a token only when there is none, and fails with -1 or -2.
NextFile(p) ==
  /\ proc[p].pc = "next" /\ proc[p].at <= Len(proc[p].files)
  /\ LET to == proc[p].files[proc[p].at].to
         hosted == setHost(proc[p].dropBox, HostOf(to))
     IN  IF to = "other"
         THEN proc' = [proc EXCEPT ![p] = Counted(@, FALSE)]
         ELSE \/ proc' = [proc EXCEPT ![p].dropBox = signIn(hosted, hosted.hostname),
                                      ![p].pc = "file"]
              \/ /\ hosted.token = NoToken
                 /\ \E authRet \in {-1, -2} : proc' = [proc EXCEPT ![p] = Ended(@, authRet)]
  /\ UNCHANGED <<disk, jobTable, runTable, accepted>>

\* uploadFile: the tar file, the request and the statuses of the file's tags,
\* one that is ok being enough.  A request that raises counts as failed, whether
\* the drop box took the file or not; a tar file that cannot be made, and an
\* answer without "upload", raise out of the script.
UploadFile(p) ==
  /\ proc[p].pc = "file"
  /\ LET file == proc[p].files[proc[p].at]
         item == [file |-> file, by |-> p, run |-> proc[p].run,
                  host |-> proc[p].dropBox.baseUrl, token |-> proc[p].dropBox.token]
     IN  \/ /\ proc' = [proc EXCEPT ![p] = Ended(@, 1)]
            /\ accepted' \in {accepted, accepted \cup {item}}
         \/ /\ proc' = [proc EXCEPT ![p] = Counted(@, FALSE)]
            /\ accepted' \in {accepted, accepted \cup {item}}
         \/ /\ proc' = [proc EXCEPT ![p] = Counted(@, TRUE)]
            /\ accepted' = accepted \cup {item}
  /\ UNCHANGED <<disk, jobTable, runTable>>

\* The script returns the number of files that failed; popcon saves a copy of
\* the files unless it is zero.
EndUpload(p) ==
  /\ proc[p].pc = "next" /\ proc[p].at > Len(proc[p].files)
  /\ proc' = [proc EXCEPT ![p] = Ended(@, @.status)]
  /\ UNCHANGED <<disk, jobTable, runTable, accepted>>

Read(u) ==
  /\ proc[u].pc = "ended"
  /\ proc' = [proc EXCEPT ![u] = Resting(@.run)]
  /\ UNCHANGED <<disk, jobTable, runTable, accepted>>

-----------------------------------------------------------------------------
DropBoxInit ==
  /\ proc = [p \in Jobs \cup Users |-> Resting(0)]
  /\ disk = [j \in Jobs |-> Absent]
  /\ jobTable = [j \in Jobs |-> "unknown"]
  /\ runTable = [j \in Jobs |-> <<>>]
  /\ accepted = {}

DropBoxNext ==
  \/ \E j \in Jobs :
       \/ AddJob(j) \/ SetJob(j) \/ StartJob(j) \/ EndJob(j) \/ Kill(j)
       \/ Popcon(j) \/ PopconUpload(j)
  \/ \E u \in Users : StartUpload(u) \/ ReUpload(u) \/ Read(u)
  \/ \E p \in Jobs \cup Users :
       CheckFiles(p) \/ NextFile(p) \/ UploadFile(p) \/ EndUpload(p)

-----------------------------------------------------------------------------
(* Properties. *)

\* Whatever a drop box takes came to the drop box of its destination with a
\* token of that host; what a run of a job sent was written by that run, also
\* after a run that was killed left its files behind.
Arrived(item) ==
  /\ item.file.to # "other"
  /\ item.host = HostOf(item.file.to)
  /\ item.token = item.host
  /\ item.by \in Jobs => item.file.data.run = item.run

FilesReachTheirHost == \A item \in accepted : Arrived(item)

Took(items, p, run, file) ==
  \E item \in items : item.by = p /\ item.file = file /\ item.run = run

\* What an ended run of status zero means.
Reported(items, j, record) ==
  record.ended /\ record.status = 0
    => \/ \E item \in items : item.by = j /\ item.run = record.run
       \/ record.log = "none"

\* An exit code of zero, and an ended run of status zero, mean that everything
\* there was to upload was taken.
ZeroMeansTaken ==
  /\ \A p \in Jobs \cup Users :
       proc[p].pc = "ended" /\ proc[p].status = 0
         => \A i \in DOMAIN proc[p].files : Took(accepted, p, proc[p].run, proc[p].files[i])
  /\ \A j \in Jobs : \A i \in DOMAIN runTable[j] : Reported(accepted, j, runTable[j][i])

\* What was uploaded arrived, and what is reported as uploaded was.
SuccessIsReported == FilesReachTheirHost /\ ZeroMeansTaken

-----------------------------------------------------------------------------
(* The inductive invariant that SuccessIsReported rests on. *)

ProcessType ==
  [pc : {"idle", "popcon", "upload", "check", "next", "file", "ended"}, run : Nat,
   files : Seq(File), at : Nat, status : Nat,
   dropBox : [hostname : Hosts, token : Hosts \cup {NoToken},
              baseUrl : Hosts \cup {NoToken}]]

ItemType ==
  [file : File, by : Jobs \cup Users, run : Nat, host : Hosts \cup {NoToken},
   token : Hosts \cup {NoToken}]

RecordType == [run : Nat, status : Int, ended : BOOLEAN, log : Contents]

DropBoxTypeOK ==
  /\ proc \in [Jobs \cup Users -> ProcessType]
  /\ disk \in [Jobs -> [iovs : Contents \ {"unreadable"}, run : Nat]]
  /\ jobTable \in [Jobs -> {"unknown", "enabled", "disabled"}]
  /\ runTable \in [Jobs -> Seq(RecordType)]
  /\ accepted \subseteq ItemType

\* The status counts the files that failed among those behind: zero says that
\* all of them were taken.
ProcessInv(p, q, items) ==
  /\ q.dropBox.token # NoToken =>
       q.dropBox.token = q.dropBox.hostname /\ q.dropBox.baseUrl = q.dropBox.hostname
  /\ q.pc \in {"check", "next", "file"} => Len(q.files) < 256
  /\ q.pc \in {"check", "popcon", "upload"} => q.status = 0
  /\ q.pc \in {"next", "file"} =>
       /\ q.at \in 1 .. Len(q.files) + 1 /\ q.status < q.at
       /\ q.status = 0 => \A i \in 1 .. q.at - 1 : Took(items, p, q.run, q.files[i])
  /\ q.pc = "file" =>
       /\ q.at <= Len(q.files)
       /\ q.files[q.at].to # "other"
       /\ q.dropBox.token # NoToken /\ q.dropBox.hostname = HostOf(q.files[q.at].to)
  /\ q.pc = "ended" /\ q.status = 0 =>
       \A i \in DOMAIN q.files : Took(items, p, q.run, q.files[i])

\* A job sends the file of its own run.
JobInv(q, onDisk) ==
  /\ q.pc = "upload" => onDisk.iovs = "absent" \/ onDisk.run = q.run
  /\ q.pc \in {"popcon", "upload"} => q.files = <<>>
  /\ q.pc \in {"check", "next", "file", "ended"} =>
       \A i \in DOMAIN q.files : q.files[i].data.run = q.run
  /\ q.pc \in {"check", "next", "file"} => q.files # <<>>
  /\ q.pc = "ended" /\ q.status = 0 /\ q.files = <<>> => onDisk.iovs = "none"

DropBoxInv ==
  /\ DropBoxTypeOK
  /\ \A p \in Jobs \cup Users : ProcessInv(p, proc[p], accepted)
  /\ \A j \in Jobs : JobInv(proc[j], disk[j])
  /\ FilesReachTheirHost
  /\ \A j \in Jobs : \A i \in DOMAIN runTable[j] : Reported(accepted, j, runTable[j][i])

=============================================================================
