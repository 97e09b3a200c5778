---------------------------- MODULE GlobalTagTests ----------------------------
(***************************************************************************)
(* conddb_test_gt_load and conddb_test_gt_perf: the tags of a global tag   *)
(* are loaded, and payloads are asked for at times that step forward       *)
(* (gt_load) or once by a task per tag, several at a time (gt_perf with    *)
(* n_fetch > 1).  A proxy keeps the IOV of its last request and asks the   *)
(* database only when the time leaves it.  gt_perf then makes objects of   *)
(* the payloads, each in a task of its own when n_deser > 1.               *)
(*                                                                         *)
(* Sessions, IOV proxies and the global tag are outside the repository.    *)
(***************************************************************************)
EXTENDS Integers, Sequences, FiniteSets

CONSTANTS
  Entries,      \* the global tag: a sequence of tag names, one for each record
  TagInfo,      \* what a tag holds: name -> [timeType, payloadType, iovs]; unreadable if absent
  StoredHashes, \* the payloads of the database
  StartTime,    \* first time asked for, by time type
  StepTime,     \* step of the times, by time type
  Iterations,   \* iterations of gt_load
  Fetchers,     \* n_fetch of gt_perf
  CaseTypes,    \* the payload types with a case in fetchOne
  Deserializers \* n_deser of gt_perf

VARIABLES
  test,      \* "load" or "perf", and the request loop of gt_load
  proxies,   \* the proxies of the tags that could be read, by their entry
  requests,  \* requests: how many were served, by tag
  pool,      \* the worker that holds the lock of the connection pool
  objects    \* what became of the payload of each proxy, with the buffer it was made of

gtVars == <<test, proxies, requests, pool, objects>>

PayloadHash == STRING \cup {"none"}

NoIov == [since |-> 0, hash |-> "none"]

\* The vector of the payloads in gt_perf is made with this length, "to be checked".
PayloadSlots == 400

\* A tag has one payload at a time, and the slots suffice for the global tag.
ASSUME TagsAssumption ==
  /\ Entries \in Seq(STRING) /\ Iterations \in Nat
  /\ Len(Entries) <= PayloadSlots
  /\ \A tag \in DOMAIN TagInfo :
       /\ TagInfo[tag].iovs \subseteq [since : Nat, hash : PayloadHash]
       /\ \A one, other \in TagInfo[tag].iovs : one.since = other.since => one = other
  /\ \A type \in DOMAIN StartTime : StartTime[type] \in Nat /\ StepTime[type] \in Nat

NoWorker == 0

NoCount == -1

NewProxy(tag) ==
  [tag |-> tag, current |-> NoIov, buffer |-> "none", pc |-> "ready", read |-> NoCount,
   asked |-> 0, served |-> 0]

\* A tag that cannot be read is reported and left out.
Readable == {n \in DOMAIN Entries : Entries[n] \in DOMAIN TagInfo}

First(positions) ==
  IF positions = {} THEN 0 ELSE CHOOSE n \in positions : \A m \in positions : n <= m

TypeOf(proxy) == TagInfo[proxy.tag].timeType

Iovs(proxy) == TagInfo[proxy.tag].iovs

PayloadType(proxy) == TagInfo[proxy.tag].payloadType

Valid(iovs, time) ==
  {iov \in iovs : /\ iov.since <= time
                  /\ \A other \in iovs : other.since <= time => other.since <= iov.since}

\* Variant with a fault: the end of the cached IOV is not looked at.
IsAfterCached(proxy, time) == proxy.current # NoIov /\ proxy.current.since <= time

\* The IOV of the last request is still good for a time.
IsCached(proxy, time) ==
  /\ proxy.current # NoIov
  /\ proxy.current \in Valid(Iovs(proxy), time)

\* UntypedPayloadProxy::get.  No IOV at the time is an exception; a payload that is
\* not there leaves the buffer as it was.
Got(proxy, time) ==
  LET fetched == CHOOSE iov \in Valid(Iovs(proxy), time) : TRUE
  IN  IF IsCached(proxy, time) THEN [proxy EXCEPT !.asked = time]
      ELSE [proxy EXCEPT !.asked = time, !.current = fetched,
              !.buffer = IF fetched.hash \in StoredHashes THEN fetched.hash ELSE @]

Serves(proxy, time) ==
  /\ TypeOf(proxy) \in {"Run", "Lumi", "Time"}
  /\ IsCached(proxy, time) \/ Valid(Iovs(proxy), time) # {}

Delivered(proxy, time) == [Got(proxy, time) EXCEPT !.served = @ + 1, !.pc = "served"]

TimeOf(proxy, iteration) ==
  IF TypeOf(proxy) \in DOMAIN StartTime
  THEN StartTime[TypeOf(proxy)] + iteration * StepTime[TypeOf(proxy)] ELSE 0

-----------------------------------------------------------------------------
(* conddb_test_gt_load: TestGTLoad::execute *)

Request ==
  /\ test.kind = "load" /\ test.iteration < Iterations /\ test.at \in DOMAIN proxies
  /\ LET proxy == proxies[test.at]
         time == TimeOf(proxy, test.iteration)
     IN  IF Serves(proxy, time)
         THEN /\ proxies' = [proxies EXCEPT ![test.at] = Delivered(proxy, time)]
              /\ requests' = [requests EXCEPT ![proxy.tag] = @ + 1]
         ELSE /\ proxies' = [proxies EXCEPT ![test.at].pc = "failed"]
              /\ UNCHANGED requests
  /\ LET rest == {n \in DOMAIN proxies : n > test.at}
     IN  test' = IF rest = {}
                 THEN [test EXCEPT !.at = First(DOMAIN proxies), !.iteration = @ + 1]
                 ELSE [test EXCEPT !.at = First(rest)]
  /\ UNCHANGED <<pool, objects>>

-----------------------------------------------------------------------------
(* conddb_test_gt_perf: a FetchWorker for each proxy *)

\* Payloads too large to be fetched.
NotFetched == {"SiPixelGainCalibrationOffline"}

Working == {w \in DOMAIN proxies : proxies[w].pc \notin {"ready", "served", "failed"}}

Become(w, pc) == proxies' = [proxies EXCEPT ![w].pc = pc]

StartWorker(w) ==
  /\ test.kind = "perf" /\ proxies[w].pc = "ready"
  /\ PayloadType(proxies[w]) \notin NotFetched
  /\ Cardinality(Working) < Fetchers
  /\ Become(w, "session")
  /\ UNCHANGED <<test, requests, pool, objects>>

\* ConnectionPoolWrapper::createSession, under the lock of the pool.
LockPool(w) ==
  /\ proxies[w].pc = "session" /\ pool = NoWorker
  /\ pool' = w
  /\ Become(w, "creating")
  /\ UNCHANGED <<test, requests, objects>>

CreateSession(w) ==
  /\ proxies[w].pc = "creating"
  /\ pool' = NoWorker
  /\ \E pc \in {"reload", "failed"} : Become(w, pc)
  /\ UNCHANGED <<test, requests, objects>>

\* init clears what was read with the session before, reload reads the tag again.
Reload(w) ==
  /\ proxies[w].pc = "reload"
  /\ proxies' = [proxies EXCEPT ![w].current = NoIov, ![w].pc = "get"]
  /\ UNCHANGED <<test, requests, pool, objects>>

Get(w) ==
  /\ proxies[w].pc = "get"
  /\ LET proxy == proxies[w]
         time == TimeOf(proxy, 0)
     IN  proxies' = [proxies EXCEPT ![w] =
           IF Serves(proxy, time) THEN [Got(proxy, time) EXCEPT !.pc = "count"]
           ELSE [proxy EXCEPT !.pc = "failed"]]
  /\ UNCHANGED <<test, requests, pool, objects>>

\* r->second++, which the lock of the worker itself does not guard.
ReadCount(w) ==
  /\ proxies[w].pc = "count"
  /\ proxies' = [proxies EXCEPT ![w].read = requests[proxies[w].tag], ![w].pc = "add"]
  /\ UNCHANGED <<test, requests, pool, objects>>

AddCount(w) ==
  /\ proxies[w].pc = "add"
  /\ requests' = [requests EXCEPT ![proxies[w].tag] = proxies[w].read + 1]
  /\ proxies' = [proxies EXCEPT ![w].served = @ + 1, ![w].pc = "served"]
  /\ UNCHANGED <<test, pool, objects>>

-----------------------------------------------------------------------------
(* conddb_test_gt_perf: once all payloads are there, a DeserialWorker for each *)

Waiting == [state |-> "waiting", buffer |-> "none"]

\* The types that are left out, one of them with blanks that no type has.
Ignored ==
  {"SiPixelGainCalibrationForHLT", "SiPixelGainCalibrationOffline", "DTKeyedConfig",
   "std::vector<unsigned long long>", "  AlignmentSurfaceDeformations",
   "PhysicsTools::Calibration::MVAComputerContainer"}

FetchesEnded ==
  \A n \in DOMAIN proxies :
    PayloadType(proxies[n]) \in NotFetched \/ proxies[n].pc \in {"served", "failed"}

\* fetchOne goes through its list of types by name.
HasCase(type) == type \in CaseTypes

\* No object is made of an empty buffer or of a type that is not in the list.  A
\* single thread reports that and goes on, the exception of a task ends them all.
FetchOne(type, buffer) ==
  IF HasCase(type) /\ buffer # "none" THEN [state |-> "done", buffer |-> buffer]
  ELSE [state |-> IF Deserializers = 1 THEN "error" ELSE "thrown", buffer |-> "none"]

StartDeserial(n) ==
  /\ test.kind = "perf" /\ FetchesEnded
  /\ objects[n].state = "waiting" /\ PayloadType(proxies[n]) \notin Ignored
  /\ Cardinality({m \in DOMAIN objects : objects[m].state = "running"}) < Deserializers
  /\ \A m \in DOMAIN objects : objects[m].state # "thrown"
  /\ objects' = [objects EXCEPT ![n] = [state |-> "running", buffer |-> "none"]]
  /\ UNCHANGED <<test, proxies, requests, pool>>

Deserialize(n) ==
  /\ objects[n].state = "running"
  /\ objects' = [objects EXCEPT ![n] = FetchOne(PayloadType(proxies[n]), proxies[n].buffer)]
  /\ UNCHANGED <<test, proxies, requests, pool>>

-----------------------------------------------------------------------------
TestsInit ==
  /\ \E kind \in {"load", "perf"} :
       test = [kind |-> kind, at |-> First(Readable), iteration |-> 0]
  /\ proxies = [n \in Readable |-> NewProxy(Entries[n])]
  /\ requests = [tag \in {Entries[n] : n \in Readable} |-> 0]
  /\ pool = NoWorker
  /\ objects = [n \in Readable |-> Waiting]

TestsNext ==
  \/ Request
  \/ \E w \in DOMAIN proxies :
       \/ StartWorker(w) \/ LockPool(w) \/ CreateSession(w) \/ Reload(w)
       \/ Get(w) \/ ReadCount(w) \/ AddCount(w)
       \/ StartDeserial(w) \/ Deserialize(w)

-----------------------------------------------------------------------------
(* Properties. *)

ServedOf(tag) == {n \in DOMAIN proxies : proxies[n].tag = tag /\ proxies[n].served > 0}

Holds(proxy, iov) ==
  proxy.current = iov /\ (iov.hash \in StoredHashes => proxy.buffer = iov.hash)

\* "Requests processed".  Two records of one tag share a counter, and tasks of
\* theirs at the same time may lose all but one.
IsCounted(tag) ==
  IF ServedOf(tag) = {} THEN requests[tag] = 0
  ELSE IF test.kind = "load"
  THEN \A n \in ServedOf(tag) : requests[tag] >= proxies[n].served
  ELSE 1 <= requests[tag] /\ requests[tag] <= Cardinality(ServedOf(tag))

\* A proxy that served a request holds the payload of its tag valid at the time
\* asked for, whichever request it kept its IOV from, as far as the database has
\* the payload; the requests of a tag are counted once all tasks are through; and
\* an object that was made is that of a served request, of the payload valid then
\* and of a type that is in the list.
RequestsAreServed ==
  /\ \A n \in DOMAIN proxies :
       proxies[n].pc = "served" =>
         \A iov \in Valid(Iovs(proxies[n]), proxies[n].asked) : Holds(proxies[n], iov)
  /\ (\A n \in DOMAIN proxies : proxies[n].pc \in {"ready", "served", "failed"}) =>
       \A tag \in DOMAIN requests : IsCounted(tag)
  /\ \A n \in DOMAIN objects :
       objects[n].state = "done" =>
         /\ proxies[n].pc = "served" /\ HasCase(PayloadType(proxies[n]))
         /\ \A iov \in Valid(Iovs(proxies[n]), proxies[n].asked) :
              iov.hash \in StoredHashes /\ objects[n].buffer = iov.hash

-----------------------------------------------------------------------------
(* The inductive invariant that RequestsAreServed rests on. *)

ProxyType ==
  [tag : DOMAIN TagInfo, current : [since : Nat, hash : PayloadHash], buffer : PayloadHash,
   pc : {"ready", "session", "creating", "reload", "get", "count", "add", "served", "failed"},
   read : Int, asked : Nat, served : Nat]

TestsTypeOK ==
  /\ test \in [kind : {"load", "perf"}, at : Nat, iteration : Nat]
  /\ proxies \in [Readable -> ProxyType]
  /\ requests \in [{Entries[n] : n \in Readable} -> Nat]

\* The buffer goes with the IOV that is kept, and after a request that IOV is the
\* one valid at the time asked for.
ProxyInv(proxy) ==
  /\ proxy.current # NoIov =>
       (proxy.current.hash \in StoredHashes => proxy.buffer = proxy.current.hash)
  /\ proxy.pc \in {"count", "add", "served"} =>
       /\ proxy.current \in Valid(Iovs(proxy), proxy.asked)
       /\ proxy.current.hash \in StoredHashes => proxy.buffer = proxy.current.hash

\* What a task read is never more than the tasks of its tag that were served, so
\* neither is what it writes.
CountInv(tag) ==
  IF test.kind = "load"
  THEN /\ \A n \in ServedOf(tag) : requests[tag] >= proxies[n].served
       /\ ServedOf(tag) = {} => requests[tag] = 0
  ELSE /\ requests[tag] <= Cardinality(ServedOf(tag))
       /\ ServedOf(tag) # {} => requests[tag] >= 1
       /\ \A n \in DOMAIN proxies :
            proxies[n].tag = tag /\ proxies[n].pc = "add" =>
              0 <= proxies[n].read /\ proxies[n].read <= Cardinality(ServedOf(tag))

TestsInv ==
  /\ TestsTypeOK
  /\ \A n \in Readable : proxies[n].tag = Entries[n] /\ ProxyInv(proxies[n])
  /\ \A n \in Readable :
       IF test.kind = "load" THEN proxies[n].pc \in {"ready", "served", "failed"}
       ELSE proxies[n].served > 0 <=> proxies[n].pc = "served"
  /\ \A tag \in DOMAIN requests : CountInv(tag)

\* No object is made before all fetches have ended; of the buffers of the tasks only
\* those that a request filled are not empty, and they stay as they were then.
ObjectsInv ==
  /\ objects \in [Readable -> [state : {"waiting", "running", "done", "error", "thrown"},
                              buffer : PayloadHash]]
  /\ \A n \in Readable :
       /\ objects[n].state # "waiting" =>
            /\ test.kind = "perf" /\ FetchesEnded
            /\ PayloadType(proxies[n]) \notin NotFetched
       /\ objects[n].state = "done" =>
            /\ objects[n].buffer = proxies[n].buffer /\ proxies[n].buffer # "none"
            /\ HasCase(PayloadType(proxies[n]))
       /\ test.kind = "perf" =>
            /\ PayloadType(proxies[n]) \in NotFetched => proxies[n].pc = "ready"
            /\ proxies[n].buffer # "none" =>
                 /\ proxies[n].pc \in {"count", "add", "served"}
                 /\ proxies[n].current.hash \in StoredHashes

=============================================================================
