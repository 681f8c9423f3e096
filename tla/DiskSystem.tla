----------------------------- MODULE DiskSystem -----------------------------
(***************************************************************************)
(* disk0 between a host that attaches any file at any time and a guest     *)
(* that stores anything anywhere in the window.                            *)
(***************************************************************************)
EXTENDS DiskController

CONSTANTS LbaValues,    \* what the guest stores to LBA
          CountValues,  \* to COUNT and STATUS
          Commands      \* and to CMD

ASSUME ValuesAssumption ==
  LbaValues \subseteq Nat /\ CountValues \subseteq Nat /\ Commands \subseteq Nat

DiskNext ==
  \/ \E file \in Files : Attach(file)
  \/ \E v \in LbaValues : GuestStore("LBA", v)
  \/ \E v \in CountValues : GuestStore("COUNT", v) \/ GuestStore("STATUS", v)
  \/ \E v \in Commands : GuestStore("CMD", v)

DiskSpec == DiskInit /\ [][DiskNext]_diskVars

-----------------------------------------------------------------------------
\* The registers hold what stores may put there; BUSY is never left visible,
\* COUNT is not 0 once the controller is initialised, and whoever is present
\* was initialised.
DiskTypeOK ==
  /\ lba \in Nat /\ count \in Nat /\ status \in {Idle, DRQ, ERR}
  /\ data \in Sector /\ mapped \in BOOLEAN
  /\ image \in (Files \ {<<>>}) \cup {NoImage}
  /\ shadow \in [Reg -> Nat]
  /\ asked \in [image : (Files \ {<<>>}) \cup {NoImage}, lba : Nat]
  /\ mapped => count # 0
  /\ Present => mapped

\* A DRQ the guest sees always belongs to the last command it gave: the buffer
\* is the sector that command named, in the image attached at that moment, even
\* if the host has swapped the image or the guest rewritten LBA since.
DrqShowsCommandedSector ==
  status = DRQ => /\ Readable(asked.image, asked.lba)
                  /\ data = asked.image[asked.lba + 1]

\* ERR is reported exactly for a command whose sector does not exist.
ErrMeansUnreadable ==
  asked # NothingAsked => (status = ERR <=> ~Readable(asked.image, asked.lba))

\* The buffer changes only together with a fresh DRQ or by initialisation: an
\* error or a swap of images never destroys data the guest may still copy.
DataChangesOnlyWithDrq ==
  [][data' # data => status' = DRQ \/ (~mapped /\ mapped')]_diskVars

\* Once there is an image no store of the guest reaches the RAM below the
\* window any more, and the device is never lost again, whatever is attached.
DeviceHidesRam ==
  [][Present => image' # NoImage /\ UNCHANGED shadow]_diskVars

\* Whatever the guest stored and however many attaches failed before the first
\* image, the controller meets that image as initialised: nothing written too
\* early, a command least of all, is served or half remembered later.
StartsClean ==
  ~Present => lba = 0 /\ count \in {0, 1} /\ status = Idle /\ asked = NothingAsked
=============================================================================
