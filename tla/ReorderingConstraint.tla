------------------------ MODULE ReorderingConstraint ------------------------
(***************************************************************************)
(* moses/ReorderingConstraint.{h,cpp}: the zones and walls of a sentence,  *)
(* and Check, which decides whether a hypothesis may be extended over a    *)
(* span.  A constraint is a record                                         *)
(*   active     m_active, set by SetWall and by SetZone                    *)
(*   wall       m_wall, the set of positions that are (global) walls       *)
(*   localWall  m_localWall, the zone each position is a local wall of     *)
(*   zone       m_zone, the sequence of zones <<startZone, endZone>>       *)
(***************************************************************************)
EXTENDS WordsBitmap, Sequences

NOT_A_ZONE == 999999999

\* The constraint once InitializeWalls, SetZone and SetWall are done.
RawConstraint(size, walls, zones) ==
  [active    |-> walls # {} \/ zones # <<>>,
   wall      |-> walls,
   localWall |-> [pos \in Positions(size) |-> NOT_A_ZONE],
   zone      |-> zones]

\* One round of FinalizeWalls: the walls inside zone z, its last word
\* excluded, become local; a wall that is local already changes hands unless
\* its zone lies inside z.
FinalizeZone(rc, z) ==
  LET startZone == rc.zone[z][1]
      endZone   == rc.zone[z][2]
      inside    == startZone .. endZone - 1
      Outer(y)  == rc.zone[y][1] < startZone \/ rc.zone[y][2] > endZone
  IN  [rc EXCEPT
        !.wall = @ \ inside,
        !.localWall = [pos \in DOMAIN @ |->
           IF /\ pos \in inside
              /\ \/ pos \in rc.wall
                 \/ @[pos] # NOT_A_ZONE /\ Outer(@[pos])
           THEN z ELSE @[pos]]]

\* The zones in turn, as they were set.
FinalizeWalls(rc) ==
  LET after[z \in 0 .. Len(rc.zone)] ==
        IF z = 0 THEN rc ELSE FinalizeZone(after[z - 1], z)
  IN  after[Len(rc.zone)]

-----------------------------------------------------------------------------
\* "if there is a wall before the last word, we created a gap while moving
\* through wall": only an extension that leaves the first gap open can.
HitsWall(rc, firstGapPos, startPos, endPos) ==
  /\ firstGapPos # startPos
  /\ \E pos \in firstGapPos .. endPos - 1 : pos \in rc.wall

Monotone(firstGapPos, lastPos, startPos) ==
  \/ lastPos = NOT_FOUND /\ startPos = 0
  \/ firstGapPos > lastPos /\ firstGapPos = startPos

\* Mutant: the wall behind a word is looked up before the word itself is.
HitsLocalWallLate(rc, bitmap, startPos, endPos, z) ==
  \E pos \in rc.zone[z][1] .. rc.zone[z][2] - 1 :
    /\ pos < endPos
    /\ rc.localWall[pos] = z
    /\ \E gap \in rc.zone[z][1] .. pos - 1 : gap \notin bitmap /\ gap < startPos

\* A local wall of z stands between an untranslated word of z that is left
\* behind and the end of the phrase.
HitsLocalWall(rc, bitmap, startPos, endPos, z) ==
  LET startZone == rc.zone[z][1]
      endZone   == rc.zone[z][2]
  IN  \E pos \in startZone .. endZone - 1 :
        /\ pos < endPos
        /\ rc.localWall[pos] = z
        /\ \E gap \in startZone .. pos : gap \notin bitmap /\ gap < startPos

\* Mutant: the limit taken one too large.
LooseDistortionLimit(maxDistortion) == maxDistortion + 1

\* distortionLimit is a size_t: a negative limit converts to a huge one.
DistortionLimit(maxDistortion) ==
  IF maxDistortion < 0 THEN NOT_FOUND ELSE maxDistortion

\* Mutant: the loop over the zones without its test for an active zone that
\* the phrase is outside of.
ZoneAllowsLeaving(rc, size, bitmap, startPos, endPos, maxDistortion, z) ==
  \/ endPos < rc.zone[z][1] \/ startPos > rc.zone[z][2]
  \/ ~HitsLocalWall(rc, bitmap, startPos, endPos, z)

\* The body of the loop over the zones, for zone z: TRUE where it continues.
ZoneAllows(rc, size, bitmap, startPos, endPos, maxDistortion, z) ==
  LET startZone   == rc.zone[z][1]
      endZone     == rc.zone[z][2]
      firstGapPos == GetFirstGapPos(size, bitmap)
      lastPos     == GetLastPos(bitmap)
      translated  == IF lastPos >= startZone
                     THEN Cardinality(bitmap \cap (startZone .. endZone)) ELSE 0
      zoneSize    == endZone - startZone + 1
      outside     == endPos < startZone \/ startPos > endZone
  IN  \/ lastPos < startZone /\ outside
      \/ firstGapPos > endZone
      \/ translated = zoneSize
      \/ translated = 0 /\ outside
      \/ /\ ~outside
         /\ ~( /\ startPos # firstGapPos
               /\ endZone - firstGapPos >= DistortionLimit(maxDistortion) )
         /\ \/ startPos <= startZone
            \/ endPos > endZone /\ endZone - startPos + 1 >= zoneSize - translated
            \/ /\ endPos <= endZone
               /\ ~HitsLocalWall(rc, bitmap, startPos, endPos, z)

\* "check if the current hypothesis extension violates reordering
\* constraints": TRUE where it does not.
Check(rc, size, bitmap, startPos, endPos, maxDistortion) ==
  LET firstGapPos == GetFirstGapPos(size, bitmap)
  IN  \/ ~rc.active
      \/ /\ ~HitsWall(rc, firstGapPos, startPos, endPos)
         /\ \/ Monotone(firstGapPos, GetLastPos(bitmap), startPos)
            \/ \A z \in DOMAIN rc.zone :
                 ZoneAllows(rc, size, bitmap, startPos, endPos, maxDistortion, z)
=============================================================================
