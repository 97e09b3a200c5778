---------------------------- MODULE SimTrackManager ---------------------------
(* SimG4Core/Application: which of the tracks of an event are stored.  Geant4  *)
(* takes tracks from a stack; TrackingAction hands each one, when it ends, to  *)
(* SimTrackManager, which at every new primary keeps the saved tracks with     *)
(* their branches, forgets the others and remembers for the ancestors of hits  *)
(* which stored track they descend from.  Tracks are their Geant4 numbers.     *)
EXTENDS Integers, Sequences, FiniteSets, SequencesExt

CONSTANTS MaxPrimaries,  \* bound: primary tracks of an event
          MaxTracks,     \* bound: tracks of an event
          MaxSecondaries,\* bound: secondaries of a track
          MaxEvents,     \* bound: events
          Positions,     \* where tracks start, more than 1 micrometre apart
          Decays,        \* whether decay products of primaries occur
          Transported    \* primaries whose number Hector changed (LHCTransportLink)

ASSUME BoundsAssumption == /\ MaxPrimaries \in Nat \ {0} /\ MaxTracks \in Nat /\ MaxPrimaries <= MaxTracks
                           /\ MaxSecondaries \in Nat /\ MaxEvents \in Nat
ASSUME DecaysAssumption == Decays \in BOOLEAN /\ Transported \subseteq 1 .. MaxPrimaries

VARIABLES phase,      \* "none", "event", "tracking", "stored"
          events,     \* events begun
          track,      \* track[i]: what Geant4 and TrackInformation know of track i
          stack,      \* tracks waiting, the last one next
          current,    \* the track being tracked, 0 if none
          added,      \* tracks TrackingAction put into the history
          mgr,        \* the data members of SimTrackManager, see below
          simTracks,  \* the G4SimTracks of m_simEvent
          simVertices \* its G4SimVertexes

vars == <<phase, events, track, stack, current, added, mgr, simTracks, simVertices>>

\* m_trksForThisEvent, the tracks saved among those, idsave, ancestorList,
\* lastTrack and lastHist, as reset leaves them.
Reset == [container |-> <<>>, saved |-> {}, idsave |-> <<>>, ancestors |-> <<>>,
          lastTrack |-> 0, lastHist |-> 0]

Init == /\ phase = "none" /\ events = 0
        /\ track = <<>> /\ stack = <<>> /\ current = 0 /\ added = {}
        /\ mgr = Reset
        /\ simTracks = <<>> /\ simVertices = <<>>

Elements(s) == {s[i] : i \in DOMAIN s}

\* Track numbers in ascending order.
InOrder(S) ==
  [k \in 1 .. Cardinality(S) |-> CHOOSE i \in S : Cardinality({j \in S : j < i}) = k - 1]

\* stable_sort of track numbers and of (number, mother) pairs; numbers are unique.
Sorted(s) == InOrder(Elements(s))

SortedPairs(s) ==
  LET ids == InOrder({p.id : p \in Elements(s)})
  IN [k \in DOMAIN s |-> CHOOSE p \in Elements(s) : p.id = ids[k]]

-------------------------------------------------------------------------------
(* Saving tracks and branches.                                                 *)

\* std::lower_bound: a binary search for the first number not less than p, at
\* an offset from begin(), whatever the order of the sequence.
LowerBound(s, p) ==
  LET search[r \in {q \in (0 .. Len(s)) \X (0 .. Len(s)) : q[1] + q[2] <= Len(s)}] ==
        LET half   == r[2] \div 2
            middle == r[1] + half + 1
        IN IF r[2] = 0 THEN r[1]
           ELSE IF s[middle] < p THEN search[<<middle, r[2] - half - 1>>]
           ELSE search[<<r[1], half>>]
  IN search[<<0, Len(s)>>]

\* Variant with a fault: a parent is never found.
OnlyTheTrack(s, t) == {t}

\* saveTrackAndItsBranch: the track and its parents, as far as they are found.
Branch(s, t) ==
  LET branch[i \in DOMAIN track] ==
        LET p == track[i].parent
            k == LowerBound(s, p)
        IN {i} \cup (IF k < Len(s) /\ s[k + 1] = p THEN branch[p] ELSE {})
  IN branch[t]

\* Variant with a fault: the direct mother, stored or not.
DirectMother(id, idsave, ancestors) ==
  Max({0} \cup {idsave[j].mother : j \in {k \in DOMAIN idsave : idsave[k].id = id}})

\* idSavedTrack: from mother to mother through idsave, each search before the
\* last hit, to a saved track, to a primary, or to an entry of ancestorList.
IdSavedTrack(id, idsave, ancestors) ==
  LET known(i) == {k \in DOMAIN ancestors : ancestors[k].id = i}
      up[j \in 0 .. Len(idsave)] ==
        [i \in DOMAIN track |->
           IF j = 0 THEN IF known(i) # {} THEN ancestors[Max(known(i))].mother ELSE 0
           ELSE IF idsave[j].id # i THEN up[j - 1][i]
           ELSE IF idsave[j].mother \in {0, i} THEN idsave[j].mother
           ELSE up[j - 1][idsave[j].mother]]
  IN IF idsave = <<>> THEN id
     ELSE IF \A j \in DOMAIN idsave : idsave[j].id # id THEN 0
     ELSE up[Len(idsave)][id]

\* fillMotherList: the ancestors added since the last time get their mother;
\* none of them does if lastHist is corrupted.
FillMotherList(idsave, ancestors, lastHist) ==
  LET filled[n \in 0 .. Len(ancestors)] ==
        IF n <= lastHist THEN ancestors
        ELSE [filled[n - 1] EXCEPT ![n].mother =
                IdSavedTrack(ancestors[n].id, idsave, filled[n - 1])]
  IN filled[Len(ancestors)]

IndexCorrupted(m) == m.lastTrack > 0 /\ m.lastTrack >= Len(m.container)

\* cleanTracksWithHistory: tracks before lastTrack stay; of the others the
\* saved ones and their branches are kept and become their own mothers.
Clean(m) ==
  LET last     == IF IndexCorrupted(m) THEN 0 ELSE m.lastTrack
      old      == SubSeq(m.container, 1, last)
      new      == Sorted(SubSeq(m.container, last + 1, Len(m.container)))
      saved    == m.saved \cup
                    UNION {Branch(old \o new, t) : t \in Elements(new) \cap m.saved}
      kept     == InOrder(Elements(new) \cap saved)
      pairs    == SortedPairs(m.idsave)
      resolved == [j \in DOMAIN pairs |->
                     LET id == pairs[j].id
                     IN IF id \in Elements(kept) THEN [pairs[j] EXCEPT !.mother = id] ELSE pairs[j]]
  IN IF m.container = <<>> /\ m.idsave = <<>> THEN m
     ELSE [container |-> old \o kept, saved |-> saved, idsave |-> <<>>,
           ancestors |-> FillMotherList(resolved, m.ancestors, m.lastHist),
           lastTrack |-> Len(old \o kept), lastHist |-> Len(m.ancestors)]

-------------------------------------------------------------------------------
(* Storing an event.                                                           *)

Before(gen) == 100 + gen

\* resetGenID: the generator's number before the transport along the beam pipe.
GenParticle(t) ==
  IF track[t].parent # 0 THEN -1 ELSE IF t \in Transported THEN Before(t) ELSE t

\* Variant with a fault: a vertex is shared whatever the parent.
SamePlace(v, t, parent) == v.position = track[t].position

SameVertex(v, t, parent) == v.parent = parent /\ v.position = track[t].position

\* getOrCreateVertex and add, for the tracks of s in order.
StoreAll(s) ==
  LET parentOf(t) == IF track[t].parent \in Elements(s) THEN track[t].parent ELSE -1
      stored[n \in 0 .. Len(s)] ==
        IF n = 0 THEN [tracks |-> <<>>, vertices |-> <<>>]
        ELSE LET prev == stored[n - 1]
                 t    == s[n]
                 at   == {k \in DOMAIN prev.vertices : SameVertex(prev.vertices[k], t, parentOf(t))}
                 v    == IF at # {} THEN Min(at) - 1 ELSE Len(prev.vertices)
             IN [tracks   |-> Append(prev.tracks, [id |-> t, vertex |-> v, gen |-> GenParticle(t)]),
                 vertices |-> IF at # {} THEN prev.vertices
                              ELSE Append(prev.vertices, [parent |-> parentOf(t),
                                                          position |-> track[t].position])]
  IN stored[Len(s)]

-------------------------------------------------------------------------------
(* An event in Geant4 (external): the stack, numbers in order of creation.     *)

NewTrack(parent, primary, position) ==
  [parent |-> parent, primary |-> primary, position |-> position]

ResetEvent == Reset

\* BeginOfEventAction, and Geant4 stacks the primaries that StackingAction does
\* not kill (neutrinos, and those outside the world).
BeginEvent ==
  /\ phase \in {"none", "stored"} /\ events < MaxEvents
  /\ phase' = "event" /\ events' = events + 1
  /\ \E n \in 1 .. MaxPrimaries, x \in Positions :
       /\ track' = [i \in 1 .. n |-> NewTrack(0, TRUE, x)]
       /\ \E killed \in SUBSET (1 .. n) :
            stack' = InOrder((1 .. n) \ killed)
  /\ current' = 0 /\ added' = {}
  /\ mgr' = ResetEvent
  /\ simTracks' = <<>> /\ simVertices' = <<>>

\* PreUserTrackingAction: a primary cleans up what came before it.
PreUserTracking ==
  /\ phase = "event" /\ stack # <<>>
  /\ phase' = "tracking"
  /\ current' = Last(stack) /\ stack' = Front(stack)
  /\ mgr' = IF track[Last(stack)].primary THEN Clean(mgr) ELSE mgr
  /\ UNCHANGED <<events, track, added, simTracks, simVertices>>

\* SimTrackManager::addTrack.
AddTrack(t, inHistory, withAncestor) ==
  [mgr EXCEPT !.idsave = Append(@, [id |-> t, mother |-> track[t].parent]),
              !.container = IF inHistory THEN Append(@, t) ELSE @,
              !.ancestors = IF withAncestor THEN Append(@, [id |-> t, mother |-> 0]) ELSE @]

\* The secondaries that StackingAction lets pass; products of a primary's decay
\* are made primaries by NewTrackAction (external).
Secondaries(t) ==
  {s \in UNION {[1 .. n -> [primary : BOOLEAN, position : Positions]] : n \in 0 .. MaxSecondaries} :
     /\ Len(track) + Len(s) <= MaxTracks
     /\ \A i \in DOMAIN s : s[i].primary => Decays /\ track[t].primary}

\* PostUserTrackingAction.  A primary is stored; another track is stored if a
\* detector asked for it, and then it is in the history; only a track in the
\* history becomes an ancestor.  Then Geant4 stacks the secondaries.
PostUserTracking ==
  /\ phase = "tracking"
  /\ phase' = "event" /\ current' = 0
  /\ \E store, inHistory, ancestor \in BOOLEAN :
       /\ track[current].primary => store
       /\ store => inHistory
       /\ ancestor => inHistory
       /\ mgr' = [AddTrack(current, inHistory, ancestor) EXCEPT
                    !.saved = IF store THEN @ \cup {current} ELSE @]
       /\ added' = IF inHistory THEN added \cup {current} ELSE added
  /\ \E s \in Secondaries(current) :
       /\ track' = track \o [i \in DOMAIN s |-> NewTrack(current, s[i].primary, s[i].position)]
       /\ stack' = stack \o [i \in DOMAIN s |-> Len(track) + i]
  /\ UNCHANGED <<events, simTracks, simVertices>>

\* An exception ends the event without EndOfEventAction.
EventThrows ==
  /\ phase \in {"event", "tracking"}
  /\ phase' = "none" /\ stack' = <<>> /\ current' = 0
  /\ UNCHANGED <<events, track, added, mgr, simTracks, simVertices>>

\* EndOfEventAction: storeTracks.  ancestorList, sorted, becomes idsave, in which
\* the sensitive detectors then look up the mothers of their hits.
StoreTracks ==
  /\ phase = "event" /\ stack = <<>>
  /\ phase' = "stored"
  /\ LET m == Clean(mgr)
         s == Sorted(m.container)
     IN /\ mgr' = [m EXCEPT !.idsave = SortedPairs(m.ancestors), !.ancestors = <<>>,
                            !.container = s]
        /\ simTracks' = StoreAll(s).tracks /\ simVertices' = StoreAll(s).vertices
  /\ UNCHANGED <<events, track, stack, current, added>>

Finished == phase \in {"none", "stored"} /\ events = MaxEvents /\ UNCHANGED vars

Next == BeginEvent \/ PreUserTracking \/ PostUserTracking \/ EventThrows \/ StoreTracks \/ Finished

Spec == Init /\ [][Next]_vars

-------------------------------------------------------------------------------
(* Properties.                                                                 *)

\* "this saves a track and all its parents": a stored track's parent is stored
\* too if it is in the history.
BranchIsSaved ==
  phase = "stored" =>
    \A t \in Elements(mgr.container) :
      track[t].parent \in added => track[t].parent \in Elements(mgr.container)

\* Of track t of trk: itself, or the nearest of its ancestors, that is in stored.
Nearest(trk, stored, t) ==
  LET up[i \in 0 .. Len(trk)] == IF i = 0 \/ i \in stored THEN i ELSE up[trk[i].parent]
  IN up[t]

NearestStored(t) == Nearest(track, Elements(mgr.container), t)

\* "the final mother-daughter relationship": each ancestor of hits is mapped to
\* the stored track nearest to it, itself included, or to 0 if there is none.
MotherIsNearestStored ==
  phase = "stored" =>
    \A j \in DOMAIN mgr.idsave : mgr.idsave[j].mother = NearestStored(mgr.idsave[j].id)

\* A stored track points to a vertex at its own start that names its parent, or
\* -1 if the parent is not stored, and no two vertices are the same.
TracksHaveTheirVertices ==
  /\ \A n \in DOMAIN simTracks :
       LET t == simTracks[n].id
           v == simVertices[simTracks[n].vertex + 1]
       IN /\ v.position = track[t].position
          /\ v.parent = IF \E k \in DOMAIN simTracks : simTracks[k].id = track[t].parent
                          THEN track[t].parent ELSE -1
  /\ \A j, k \in DOMAIN simVertices : simVertices[j] = simVertices[k] => j = k

===============================================================================
