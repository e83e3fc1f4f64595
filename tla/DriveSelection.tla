---------------------------- MODULE DriveSelection ----------------------------
(***************************************************************************)
(* The list of drives on the destination page: class DriveSelection        *)
(* (kcm/driveselection.cpp).  It shows the volumes of the drives that are  *)
(* plugged in and, connected or not, the one that the plan was saved with; *)
(* the user selects one.  The widgets beside it follow two flags of the    *)
(* class, whether a drive is selected and whether it can be accessed.      *)
(*                                                                         *)
(* A drive is listed two seconds after it appears, and Solid's signals     *)
(* arrive after the events they are about, so that the list, the selection *)
(* and the hardware change in their own time.                              *)
(***************************************************************************)
EXTENDS Naturals, Sequences, SequencesExt, FiniteSets

CONSTANTS
  Drives,     \* the removable drives
  Volumes,    \* their volumes; UUID and UDI are the volume itself
  DriveOf,    \* the drive of each volume
  MaxEvents   \* bound: things that happen to the hardware, and things the user does

None == "none"

ASSUME DriveAssumption ==
  /\ DriveOf \in [Volumes -> Drives] /\ IsFiniteSet(Drives) /\ IsFiniteSet(Volumes)
  /\ None \notin Volumes
  /\ MaxEvents \in Nat

VARIABLES
  plugged,     \* the drives that are plugged in
  mounted,     \* the volumes that are accessible
  solid,       \* Solid's signals that are under way, each with its kind and what it is of
  toAdd,       \* mDrivesToAdd, a timer running for each
  items,       \* mDrivesModel: uuid, a volume, and udi, the volume or None if disconnected
  selected,    \* mSelectedUuid
  current,     \* the row that Qt holds to be the current one, by its volume
  accessible,  \* mSelectedAndAccessible
  saved,       \* mExternalUUID of the plan
  events       \* events so far

hardware == <<plugged, mounted>>
widget   == <<items, selected, current, accessible>>
driveVars == <<hardware, solid, toAdd, widget, saved, events>>

Of(d)      == {v \in Volumes : DriveOf[v] = d}
IsThere(v) == DriveOf[v] \in plugged
WithUuid(v) == {i \in DOMAIN items : items[i].uuid = v}
WithUdi(v)  == {i \in DOMAIN items : items[i].udi = v}

\* The drive that the plan was saved with is listed at once, as disconnected, and so
\* are, like any drive that is added, those plugged in.
DriveInit ==
  /\ plugged \in SUBSET Drives
  /\ mounted \in SUBSET {v \in Volumes : IsThere(v)}
  /\ solid = <<>>
  /\ toAdd \in SetToSeqs(plugged)
  /\ saved \in Volumes \cup {None}
  /\ items = IF saved = None THEN <<>> ELSE <<[uuid |-> saved, udi |-> None]>>
  /\ selected = None /\ current = None
  /\ accessible = FALSE
  /\ events = 0

Event == events < MaxEvents /\ events' = events + 1

-----------------------------------------------------------------------------
(***************************************************************************)
(* The hardware, as Solid reports it.                                      *)
(***************************************************************************)
Announce(kind, set) ==
  \E order \in SetToSeqs(set) :
    solid' = solid \o [i \in DOMAIN order |-> [kind |-> kind, of |-> order[i]]]

Plug(d) ==
  /\ Event
  /\ d \notin plugged
  /\ plugged' = plugged \cup {d}
  /\ Announce("added", {d})
  /\ UNCHANGED <<mounted, toAdd, widget, saved>>

Unplug(d) ==
  /\ Event
  /\ d \in plugged
  /\ plugged' = plugged \ {d}
  /\ mounted' = mounted \ Of(d)
  /\ Announce("removed", Of(d))
  /\ UNCHANGED <<toAdd, widget, saved>>

\* By setup(), which the list calls for a volume it adds, or by the user.
Mount(v) ==
  /\ Event
  /\ IsThere(v) /\ v \notin mounted
  /\ mounted' = mounted \cup {v}
  /\ Announce("accessible", {v})
  /\ UNCHANGED <<plugged, toAdd, widget, saved>>

Unmount(v) ==
  /\ Event
  /\ v \in mounted
  /\ mounted' = mounted \ {v}
  /\ Announce("inaccessible", {v})
  /\ UNCHANGED <<plugged, toAdd, widget, saved>>

-----------------------------------------------------------------------------
(***************************************************************************)
(* The slots.                                                              *)
(***************************************************************************)
NextIs(kind) == solid # <<>> /\ Head(solid).kind = kind /\ solid' = Tail(solid)

\* Mutant: one timer for all the drives.
DeviceAddedOnce ==
  LET d == Head(solid).of
  IN  /\ NextIs("added")
      /\ toAdd' = IF toAdd # <<>> THEN toAdd ELSE Append(toAdd, d)
      /\ UNCHANGED <<hardware, widget, saved, events>>

DeviceAdded ==
  LET d == Head(solid).of
  IN  /\ NextIs("added")
      /\ toAdd' = IF Contains(toAdd, d) THEN toAdd ELSE Append(toAdd, d)
      /\ UNCHANGED <<hardware, widget, saved, events>>

\* Mutant: a volume that is listed as disconnected is not looked for.
AddVolumesTwice(there) ==
  \E order \in SetToSeqs({v \in there : WithUdi(v) = {}}) :
    items' = items \o [i \in DOMAIN order |-> [uuid |-> order[i], udi |-> order[i]]]

\* The volumes of a drive are found in the list or go to its end, in any order.
AddVolumes(there) ==
  \E order \in SetToSeqs({v \in there : WithUuid(v) = {}}) :
    items' = [i \in DOMAIN items |->
                IF items[i].uuid \in there THEN [items[i] EXCEPT !.udi = items[i].uuid]
                                           ELSE items[i]]
             \o [i \in DOMAIN order |-> [uuid |-> order[i], udi |-> order[i]]]

\* A timer has run out.  The volumes are those of the drive as it is now.  What becomes
\* the only row is selected, without becoming the current one.
DelayedDeviceAdded ==
  /\ toAdd # <<>>
  /\ toAdd' = Tail(toAdd)
  /\ AddVolumes(IF Head(toAdd) \in plugged THEN Of(Head(toAdd)) ELSE {})
  /\ LET first == items = <<>> /\ items' # <<>>
     IN  /\ selected' = IF first THEN items'[1].uuid ELSE selected
         /\ accessible' =
              IF first THEN selected' \in mounted
              ELSE accessible \/ (\E v \in Of(Head(toAdd)) \cap mounted : v = selected)
  /\ UNCHANGED <<hardware, solid, current, saved, events>>

\* What updateSelection() does when v has been selected, or None.
UpdateSelection(v, list) ==
  /\ selected' = v
  /\ accessible' = \E i \in DOMAIN list : list[i].uuid = v /\ list[i].udi \in mounted

\* Qt removes row i.  If that is the current row the next one becomes current and
\* selected, or the one before it; if it is only selected nothing is.
RemoveRow(i) ==
  LET neighbour == IF i < Len(items) THEN items[i + 1].uuid ELSE items[i - 1].uuid
      v         == items[i].uuid
  IN  /\ items' = RemoveAt(items, i)
      /\ CASE current = v /\ Len(items) > 1 ->
                /\ current' = neighbour
                /\ UpdateSelection(neighbour, items)
           [] current = v /\ Len(items) = 1 ->
                current' = None /\ UpdateSelection(None, items)
           [] current # v /\ selected = v ->
                UNCHANGED current /\ UpdateSelection(None, items)
           [] OTHER -> UNCHANGED <<current, selected, accessible>>

\* Mutant: the drive that the plan was saved with is removed like any other.
DeviceRemovedAny ==
  LET v    == Head(solid).of
      rows == WithUdi(v)
  IN  /\ NextIs("removed")
      /\ IF rows = {} THEN UNCHANGED widget ELSE \E i \in rows : RemoveRow(i)
      /\ UNCHANGED <<hardware, toAdd, saved, events>>

DeviceRemoved ==
  LET v    == Head(solid).of
      rows == WithUdi(v)
  IN  /\ NextIs("removed")
      /\ \/ rows = {} /\ UNCHANGED widget
         \/ \E i \in rows :
              \/ /\ v = saved
                 /\ items' = [items EXCEPT ![i].udi = None]
                 /\ accessible' = (accessible /\ selected # v)
                 /\ UNCHANGED <<selected, current>>
              \/ v # saved /\ RemoveRow(i)
      /\ UNCHANGED <<hardware, toAdd, saved, events>>

\* Mutant: the flag follows any volume.
AccessabilityChangedAny ==
  LET v == Head(solid).of
  IN  /\ \/ NextIs("accessible") /\ accessible' = (WithUdi(v) # {} \/ accessible)
         \/ NextIs("inaccessible") /\ accessible' = (WithUdi(v) = {} /\ accessible)
      /\ UNCHANGED <<hardware, toAdd, items, selected, current, saved, events>>

\* The flag is cleared when another volume than the one selected changes.
AccessabilityChanged ==
  LET v == Head(solid).of
  IN  /\ \/ NextIs("accessible")
            /\ accessible' = IF WithUdi(v) = {} THEN accessible ELSE v = selected
         \/ NextIs("inaccessible")
            /\ accessible' = (accessible /\ WithUdi(v) = {})
      /\ UNCHANGED <<hardware, toAdd, items, selected, current, saved, events>>

-----------------------------------------------------------------------------
(***************************************************************************)
(* The user, and the dialog that loads and saves the plan.                 *)
(***************************************************************************)
\* A row is clicked.
Select(i) ==
  /\ Event
  /\ i \in DOMAIN items /\ selected # items[i].uuid
  /\ current' = items[i].uuid
  /\ UpdateSelection(items[i].uuid, items)
  /\ UNCHANGED <<hardware, solid, toAdd, items, saved>>

\* setSelectedDrive(), when the settings of the plan are shown.
SetSelectedDrive ==
  /\ Event
  /\ selected # saved
  /\ \/ /\ saved = None
        /\ UpdateSelection(None, items)
        /\ UNCHANGED current
     \/ /\ saved # None /\ WithUuid(saved) # {}
        /\ current' = saved
        /\ UpdateSelection(saved, items)
  /\ UNCHANGED <<hardware, solid, toAdd, items, saved>>

Save ==
  /\ Event
  /\ saved # selected
  /\ saved' = selected
  /\ UNCHANGED <<hardware, solid, toAdd, widget>>

DriveSlots == DeviceAdded \/ DelayedDeviceAdded \/ DeviceRemoved \/ AccessabilityChanged

DriveNext ==
  \/ \E d \in Drives : Plug(d) \/ Unplug(d)
  \/ \E v \in Volumes : Mount(v) \/ Unmount(v)
  \/ DriveSlots
  \/ \E i \in 1..Cardinality(Volumes) : Select(i)
  \/ SetSelectedDrive \/ Save

DriveSpec     == DriveInit /\ [][DriveNext]_driveVars
\* Signals are delivered, and the timers run out.
FairDriveSpec == DriveSpec /\ WF_driveVars(DriveSlots) /\ WF_driveVars(DelayedDeviceAdded)

-----------------------------------------------------------------------------
(***************************************************************************)
(* Properties.                                                             *)
(***************************************************************************)
Settled == solid = <<>>

\* When Solid has said all, a drive is not offered as accessible, to open it or to make
\* a folder on it, unless it is the one selected, plugged in and mounted.
AccessibleIsSelected ==
  Settled /\ accessible => selected # None /\ selected \in mounted

\* The drive that the plan was saved with is in the list, and so is the one selected.
SavedIsListed ==
  \A v \in {saved, selected} \ {None} : WithUuid(v) # {}

\* A drive is never listed twice, nor as connected after it has gone.
ListMatches ==
  /\ \A i, j \in DOMAIN items : items[i].uuid = items[j].uuid => i = j
  /\ Settled => \A i \in DOMAIN items : items[i].udi # None => IsThere(items[i].udi)

\* A drive that stays plugged in is listed in the end, however it was plugged before.
PluggedIsListed ==
  \A v \in Volumes : <>[]IsThere(v) => <>[](WithUdi(v) # {})
=============================================================================
