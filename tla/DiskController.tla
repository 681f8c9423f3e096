--------------------------- MODULE DiskController ---------------------------
(***************************************************************************)
(* disk0: the PIO controller of dev_disk.c with the image slot of          *)
(* disk_manager.c behind it and the routing of mem.c in front of it.  The  *)
(* guest stores to and loads from five places of the device's window; the  *)
(* host attaches images, at any time.  mem.c routes the window to the      *)
(* device only while an image is present; before that the same addresses   *)
(* are plain RAM, if RAM is large enough to cover them (Shadowed).         *)
(*                                                                         *)
(* An image is the sequence of its whole sectors; a file that cannot be    *)
(* read, or holds less than one sector, is the empty sequence.  vm_reset   *)
(* touches nothing here.                                                   *)
(***************************************************************************)
EXTENDS Naturals, Sequences

CONSTANTS Sector,      \* what a sector may hold
          ZeroSector,  \* the buffer before the first read
          Files,       \* what the host may name in an attach
          NoImage,     \* nothing attached
          Shadowed     \* RAM covers the window

ASSUME FilesAssumption == Files \subseteq Seq(Sector) /\ NoImage \notin Seq(Sector)
ASSUME SectorAssumption == ZeroSector \in Sector
ASSUME ShadowAssumption == Shadowed \in BOOLEAN

VARIABLES lba, count, status,  \* the registers
          data,                \* the 512-byte buffer behind DATA
          mapped,              \* the controller was initialised
          image,               \* the attached image
          shadow,              \* RAM under the registers
          asked                \* history: image and LBA of the last READ|GO

diskVars == <<lba, count, status, data, mapped, image, shadow, asked>>

Reg == {"LBA", "COUNT", "CMD", "STATUS"}

Idle == 0
BUSY == 1
DRQ  == 2
ERR  == 4

NothingAsked == [image |-> NoImage, lba |-> 0]

\* g_disk0 is zero-initialised, as is RAM.
DiskInit ==
  /\ lba = 0 /\ count = 0 /\ status = Idle
  /\ data = ZeroSector
  /\ mapped = FALSE
  /\ image = NoImage
  /\ shadow = [r \in Reg |-> 0]
  /\ asked = NothingAsked

-----------------------------------------------------------------------------
Present == image # NoImage
IsReadGo(v) == v % 2 = 1 /\ (v \div 128) % 2 = 1

Readable(img, l) == img # NoImage /\ l < Len(img)

\* Mutants: a failed read that leaves the previous status, or wipes the buffer;
\* an error that a later good read does not clear.
CommandKeepingStatus ==
  /\ asked' = [image |-> image, lba |-> lba]
  /\ IF Readable(image, lba)
       THEN status' = DRQ /\ data' = image[lba + 1]
       ELSE UNCHANGED <<status, data>>
  /\ UNCHANGED <<lba, count>>
CommandClearingData ==
  /\ asked' = [image |-> image, lba |-> lba]
  /\ IF Readable(image, lba)
       THEN status' = DRQ /\ data' = image[lba + 1]
       ELSE status' = ERR /\ data' = ZeroSector
  /\ UNCHANGED <<lba, count>>

CommandStickyError ==
  /\ asked' = [image |-> image, lba |-> lba]
  /\ IF Readable(image, lba)
       THEN status' = (IF status = ERR THEN ERR ELSE DRQ) /\ data' = image[lba + 1]
       ELSE status' = ERR /\ UNCHANGED data
  /\ UNCHANGED <<lba, count>>

\* READ|GO serves one sector before the store returns; an error keeps the
\* buffer.
Command ==
  /\ asked' = [image |-> image, lba |-> lba]
  /\ IF Readable(image, lba)
       THEN status' = DRQ /\ data' = image[lba + 1]
       ELSE status' = ERR /\ UNCHANGED data
  /\ UNCHANGED <<lba, count>>


\* disk_mmio_write.  STATUS, DATA and other commands change nothing.
DeviceWrite(r, v) ==
  \/ r = "LBA"   /\ lba' = v /\ UNCHANGED <<count, status, data, asked>>
  \/ r = "COUNT" /\ count' = (IF v = 0 THEN 1 ELSE v) /\ UNCHANGED <<lba, status, data, asked>>
  \/ r = "CMD" /\ IsReadGo(v) /\ Command
  \/ r = "CMD" /\ ~IsReadGo(v) /\ UNCHANGED <<lba, count, status, data, asked>>
  \/ r = "STATUS" /\ UNCHANGED <<lba, count, status, data, asked>>

\* mem_write32 into the window.
RoutedByMapping(r, v) ==         \* mutant: routed once initialised
  /\ IF mapped
       THEN DeviceWrite(r, v) /\ UNCHANGED shadow
       ELSE /\ shadow' = IF Shadowed THEN [shadow EXCEPT ![r] = v] ELSE shadow
            /\ UNCHANGED <<lba, count, status, data, asked>>
  /\ UNCHANGED <<mapped, image>>

GuestStore(r, v) ==
  /\ \/ Present /\ DeviceWrite(r, v) /\ UNCHANGED shadow
     \/ /\ ~Present
        /\ shadow' = IF Shadowed THEN [shadow EXCEPT ![r] = v] ELSE shadow
        /\ UNCHANGED <<lba, count, status, data, asked>>
  /\ UNCHANGED <<mapped, image>>

\* mem_read32 from the window; no load changes the device.  CMD reads as 0.
DeviceReads == [LBA |-> lba, COUNT |-> count, CMD |-> 0, STATUS |-> status]
GuestLoads  == IF Present THEN DeviceReads ELSE shadow

\* dev_disk0_attach: the first attach of the process initialises the registers,
\* whether it succeeds or not; a failed one leaves the slot alone.
AttachDroppingOld(file) ==       \* mutant: the old image freed first
  /\ mapped' = TRUE
  /\ image' = IF file = <<>> THEN NoImage ELSE file
  /\ IF mapped
       THEN UNCHANGED <<lba, count, status, data, asked>>
       ELSE /\ lba' = 0 /\ count' = 1 /\ status' = Idle
            /\ data' = ZeroSector /\ asked' = NothingAsked
  /\ UNCHANGED shadow

Attach(file) ==
  /\ mapped' = TRUE
  /\ image' = IF file = <<>> THEN image ELSE file
  /\ \/ mapped /\ UNCHANGED <<lba, count, status, data, asked>>
     \/ /\ ~mapped
        /\ lba' = 0 /\ count' = 1 /\ status' = Idle
        /\ data' = ZeroSector /\ asked' = NothingAsked
  /\ UNCHANGED shadow

=============================================================================
