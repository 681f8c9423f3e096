-------------------------- MODULE SimpleFlatLoader --------------------------
(***************************************************************************)
(* The boot chain: the BIOS finds BOOT.BIN on a SIMPLE-FLAT disk, loads it *)
(* and jumps to it; BOOT does the same with MONITOR.BIN.  Both are the     *)
(* same program over different constants (firmware/bios/bios.s and         *)
(* firmware/boot/boot.s), so `stage` selects what differs.  They run       *)
(* against the real controller (DiskController); the host may attach       *)
(* another image or prepare the machine again between any two stores.      *)
(*                                                                         *)
(* A sector is a record of what the loaders would read in it as a header   *)
(* and as a directory.  RAM is counted in sectors; lengths are bytes       *)
(* modulo Modulus, the 2^32 of the registers.  Copying a sector is one     *)
(* step: nothing changes the buffer while it runs.  RAM is all below the   *)
(* windows of the devices: a file so long that its copy would reach them   *)
(* and be stored in a device is left out.  The text the loaders put on the *)
(* screen is reduced to the error it names.                                *)
(***************************************************************************)
EXTENDS DiskController

CONSTANTS EntriesPerSector,  \* SFLT_DIRENTS_PER_SEC
          SectorBytes,       \* 512
          Modulus,           \* 2^32
          RamSectors,        \* size of RAM
          BootSlot,          \* BOOT_ADDR
          MonitorSlot,       \* MONITOR_ADDR
          HeaderSlot,        \* HEADER_BUF
          DirSlot,           \* DIR_BUF
          BiosCode,          \* the sector with the BIOS
          BootCode,          \* the first sector of boot.s
          MaxHost            \* host calls considered

\* The slots in the order of their addresses, behind the BIOS at 0 and in RAM.
ASSUME SlotAssumption ==
  /\ EntriesPerSector \in Nat \ {0} /\ SectorBytes \in Nat \ {0} /\ Modulus \in Nat \ {0}
  /\ RamSectors \in Nat /\ BootSlot \in Nat /\ MonitorSlot \in Nat
  /\ 0 < BootSlot /\ BootSlot < MonitorSlot
  /\ {HeaderSlot, DirSlot} \subseteq MonitorSlot .. RamSectors - 1
  /\ {BiosCode, BootCode} \subseteq Sector

\* What a sector says when it is read as a header and as a directory.
ASSUME FieldsAssumption ==
  \A s \in Sector :
    /\ s.dir \in 0 .. Modulus - 1 /\ s.n \in 0 .. Modulus - 1
    /\ \A i \in 0 .. EntriesPerSector - 1 :
         s.entries[i].lba \in 0 .. Modulus - 1 /\ s.entries[i].len \in 0 .. Modulus - 1

\* An image has fewer bytes than a register counts: its size came through the
\* long of ftell, of 32 bits with a sign where arm7-runx is built.
ASSUME ImageAssumption == \A img \in Files : Len(img) < Modulus \div SectorBytes

VARIABLES g,     \* the guest: pc and the registers the loaders use
          ram,   \* its RAM
          host,  \* host calls so far
          clean  \* history: the image has not changed since the start

vars == <<diskVars, g, ram, host, clean>>

Stages == {"bios", "boot"}
FileName == [bios |-> "BOOT.BIN", boot |-> "MONITOR.BIN"]
LoadSlot == [bios |-> BootSlot,   boot |-> MonitorSlot]

StartOf(s) == [stage |-> s, pc |-> "start", error |-> "none", r0 |-> 0, r1 |-> 0,
               r6 |-> 0, r7 |-> 0, r8 |-> 0, r9 |-> 0, r10 |-> 0, r12 |-> "start"]

BlankRam == [s \in 0 .. RamSectors - 1 |-> ZeroSector]

Init ==
  /\ DiskInit
  /\ g = StartOf("bios")
  /\ ram = [BlankRam EXCEPT ![0] = BiosCode]
  /\ host = 0
  /\ clean = TRUE

-----------------------------------------------------------------------------
\* Branches: to disk_read_sector with its three registers, and to show_error.
ReadSector(r, sector, slot, continuation) ==
  [r EXCEPT !.pc = "lba", !.r0 = sector, !.r1 = slot, !.r12 = continuation]
Stop(r, why) == [r EXCEPT !.pc = "stopped", !.error = why]

Local == UNCHANGED <<diskVars, host, clean>>
Continue(r) == g' = r /\ UNCHANGED ram /\ Local

\* disk_read_sector
StoreLba ==
  /\ g.pc = "lba"
  /\ GuestStore("LBA", g.r0)
  /\ g' = [g EXCEPT !.pc = "count"]
  /\ UNCHANGED <<ram, host, clean>>

StoreCount ==
  /\ g.pc = "count"
  /\ GuestStore("COUNT", 1)
  /\ g' = [g EXCEPT !.pc = "cmd"]
  /\ UNCHANGED <<ram, host, clean>>

StoreCmd ==
  /\ g.pc = "cmd"
  /\ GuestStore("CMD", 129)
  /\ g' = [g EXCEPT !.pc = "poll"]
  /\ UNCHANGED <<ram, host, clean>>

Bit(v, b) == (v \div b) % 2 = 1

\* Neither bit: poll again.
Poll ==
  /\ g.pc = "poll"
  /\ LET s == GuestLoads["STATUS"]
     IN  \/ Bit(s, ERR) /\ Continue([g EXCEPT !.pc = g.r12, !.r0 = 0])
         \/ ~Bit(s, ERR) /\ Bit(s, DRQ) /\ Continue([g EXCEPT !.pc = "copy"])

\* Stores outside RAM are dropped.
Copy ==
  /\ g.pc = "copy"
  /\ ram' = IF g.r1 < RamSectors THEN [ram EXCEPT ![g.r1] = data] ELSE ram
  /\ g' = [g EXCEPT !.pc = g.r12, !.r0 = 1]
  /\ Local

-----------------------------------------------------------------------------
\* From the entry point to the first call of disk_read_sector.
Start ==
  /\ g.pc = "start"
  /\ Continue(ReadSector(g, 0, HeaderSlot, "header"))

ReadDirectory(r) == ReadSector(r, r.r8, DirSlot, "directory")

\* after_header_read
Header ==
  /\ g.pc = "header"
  /\ LET h == ram[HeaderSlot]
         r == [g EXCEPT !.r8 = h.dir, !.r9 = h.n]
     IN  \/ g.r0 = 0 /\ Continue(Stop(g, "disk"))
         \/ g.r0 # 0 /\ (~h.magic \/ ~h.sectorSize) /\ Continue(Stop(g, "format"))
         \/ /\ g.r0 # 0 /\ h.magic /\ h.sectorSize
            /\ \/ h.dir = 0 /\ Continue(Stop(r, "format"))
               \/ h.dir # 0 /\ h.n = 0 /\ Continue(Stop(r, "notfound"))
               \/ h.dir # 0 /\ h.n # 0 /\ ~h.entrySize /\ Continue(Stop(r, "format"))
               \/ h.dir # 0 /\ h.n # 0 /\ h.entrySize /\ Continue(ReadDirectory(r))

\* after_directory_read
Directory ==
  /\ g.pc = "directory"
  /\ \/ g.r0 = 0 /\ Continue(Stop(g, "disk"))
     \/ g.r0 # 0 /\ Continue([g EXCEPT !.pc = "entry", !.r6 = 0, !.r7 = EntriesPerSector])

SectorsRoundedDown(length) == length \div SectorBytes     \* mutant
Sectors(length) == ((length + SectorBytes - 1) % Modulus) \div SectorBytes

\* The entry is the one sought: boot_entry_found, monitor_entry_found.
Found(e) ==
  LET r == [g EXCEPT !.r8 = e.lba, !.r9 = Sectors(e.len), !.r10 = LoadSlot[g.stage]]
  IN  \/ e.len = 0 /\ Continue(Stop(g, "notfound"))
      \/ e.len # 0 /\ Continue(ReadSector(r, r.r8, r.r10, "file"))

\* Mutants: the directory's second sector is never fetched; the count of
\* entries is not looked at.
NextEntryOneSector ==
  LET r == [g EXCEPT !.r6 = g.r6 + 1, !.r9 = g.r9 - 1, !.r7 = g.r7 - 1]
  IN  IF g.r9 = 1 \/ g.r7 = 1 THEN Continue(Stop(r, "notfound")) ELSE Continue(r)

NextEntryUncounted ==
  LET r == [g EXCEPT !.r6 = g.r6 + 1, !.r9 = g.r9 - 1, !.r7 = g.r7 - 1]
  IN  IF g.r7 = 1 THEN Continue(ReadDirectory([r EXCEPT !.r8 = g.r8 + 1])) ELSE Continue(r)

\* next_directory_entry
NextEntry ==
  LET r == [g EXCEPT !.r6 = g.r6 + 1, !.r9 = g.r9 - 1, !.r7 = g.r7 - 1]
  IN  \/ g.r9 = 1 /\ Continue(Stop(r, "notfound"))
      \/ g.r9 # 1 /\ g.r7 # 1 /\ Continue(r)
      \/ g.r9 # 1 /\ g.r7 = 1 /\ Continue(ReadDirectory([r EXCEPT !.r8 = g.r8 + 1]))

\* directory_entry_loop.  r9 is never 0 here: NextEntry stopped before.
Entry ==
  /\ g.pc = "entry"
  /\ LET e == ram[DirSlot].entries[g.r6]
     IN  \/ e.name = FileName[g.stage] /\ Found(e)
         \/ e.name # FileName[g.stage] /\ NextEntry

\* after_boot_sector_read, after_monitor_sector_read.  The count is
\* decremented modulo 2^32 and tested afterwards.
FileRetrying ==                  \* mutant: a sector that fails is read again
  /\ g.pc = "file"
  /\ LET r == [g EXCEPT !.r8 = g.r8 + 1, !.r10 = g.r10 + 1,
                        !.r9 = (g.r9 + Modulus - 1) % Modulus]
     IN  \/ g.r0 = 0 /\ Continue(ReadSector(g, g.r8, g.r10, "file"))
         \/ g.r0 # 0 /\ r.r9 # 0 /\ Continue(ReadSector(r, r.r8, r.r10, "file"))
         \/ g.r0 # 0 /\ r.r9 = 0 /\ Continue([r EXCEPT !.pc = "handoff"])

File ==
  /\ g.pc = "file"
  /\ LET r == [g EXCEPT !.r8 = g.r8 + 1, !.r10 = g.r10 + 1,
                        !.r9 = (g.r9 + Modulus - 1) % Modulus]
     IN  \/ g.r0 = 0 /\ Continue(Stop(g, "disk"))
         \/ g.r0 # 0 /\ r.r9 # 0 /\ Continue(ReadSector(r, r.r8, r.r10, "file"))
         \/ g.r0 # 0 /\ r.r9 = 0 /\ Continue([r EXCEPT !.pc = "handoff"])

\* bx BOOT_ADDR runs boot.s if that is what was loaded; bx MONITOR_ADDR
\* leaves the loaders.
Handoff ==
  /\ g.pc = "handoff"
  /\ \/ /\ g.stage = "bios" /\ ram[BootSlot] = BootCode
        /\ Continue([StartOf("boot") EXCEPT !.r8 = g.r8, !.r9 = g.r9, !.r10 = g.r10,
                                            !.r6 = g.r6, !.r7 = g.r7, !.r12 = g.r12])
     \/ /\ g.stage = "boot" \/ ram[BootSlot] # BootCode
        /\ Continue([g EXCEPT !.pc = "left"])

GuestStep ==
  \/ Start \/ StoreLba \/ StoreCount \/ StoreCmd \/ Poll \/ Copy
  \/ Header \/ Directory \/ Entry \/ File \/ Handoff

-----------------------------------------------------------------------------
\* arm7vm_attach_disk0, possibly in the middle of the boot.
HostAttach(file) ==
  /\ host < MaxHost /\ host' = host + 1
  /\ Attach(file)
  /\ clean' = (clean /\ (image' = image \/ g.pc = "start"))
  /\ UNCHANGED <<g, ram>>

\* prepare_machine of arm7-runx: vm_reset, the images into RAM again, the
\* entry point into r15.  The disk keeps its state.
HostPrepare(stage) ==
  /\ host < MaxHost /\ host' = host + 1
  /\ g' = StartOf(stage)
  /\ ram' = [ram EXCEPT ![0] = BiosCode,
                        ![BootSlot] = IF stage = "boot" THEN BootCode ELSE ram[BootSlot]]
  /\ clean' = TRUE
  /\ UNCHANGED diskVars

Next ==
  \/ GuestStep
  \/ \E file \in Files : HostAttach(file)
  \/ \E stage \in Stages : HostPrepare(stage)

\* The guest's processor is not stopped by anything modelled here.
Spec == Init /\ [][Next]_vars /\ WF_vars(GuestStep)

-----------------------------------------------------------------------------
\* What an image holds, read as a whole: the entry a loader should find, and
\* how the search for a file should end.
InDirectory(img, p) == img[1].dir + (p \div EntriesPerSector) < Len(img)
EntryAt(img, p) ==
  img[img[1].dir + (p \div EntriesPerSector) + 1].entries[p % EntriesPerSector]
Hits(img, name) ==
  {p \in 0 .. img[1].n - 1 : InDirectory(img, p) /\ EntryAt(img, p).name = name}
FirstHit(img, name) ==
  EntryAt(img, CHOOSE p \in Hits(img, name) : \A q \in Hits(img, name) : p <= q)

WholeSectors(length) == (length + SectorBytes - 1) \div SectorBytes

Expected(img, name) ==
  LET h == img[1]
      e == FirstHit(img, name)
  IN  CASE ~h.magic \/ ~h.sectorSize \/ h.dir = 0 -> "format"
        [] h.magic /\ h.sectorSize /\ h.dir # 0 /\ h.n = 0 -> "notfound"
        [] h.magic /\ h.sectorSize /\ h.dir # 0 /\ h.n # 0 /\ ~h.entrySize -> "format"
        [] OTHER ->
             IF Hits(img, name) = {}
               THEN IF \A p \in 0 .. h.n - 1 : InDirectory(img, p) THEN "notfound" ELSE "disk"
               ELSE IF e.len = 0 THEN "notfound"
                    ELSE IF e.lba + WholeSectors(e.len) <= Len(img) THEN "none" ELSE "disk"

Ended == g.pc \in {"stopped", "left"}

TypeOK ==
  /\ g.stage \in Stages /\ g.error \in {"none", "disk", "format", "notfound"}
  /\ g.pc \in {"start", "lba", "count", "cmd", "poll", "copy", "header", "directory",
               "entry", "file", "handoff", "stopped", "left"}
  /\ g.r6 \in 0 .. EntriesPerSector /\ g.r7 \in 0 .. EntriesPerSector
  /\ g.r9 \in 0 .. Modulus - 1
  /\ ram \in [0 .. RamSectors - 1 -> Sector]
  /\ g.pc = "entry" => g.r9 # 0 /\ g.r6 + g.r7 = EntriesPerSector

\* With one image from start to end each loader comes to the end the image
\* calls for - the right error, or the file - however the machine was restarted
\* before and whatever the controller still showed from then.
OutcomeIsExpected ==
  clean /\ image # NoImage =>
    /\ g.pc = "stopped" => g.error = Expected(image, FileName[g.stage])
    /\ g.pc = "handoff" => Expected(image, FileName[g.stage]) = "none"

\* A loader jumps to a file only when every sector of it is in place.
WholeFileLoaded ==
  clean /\ g.pc = "handoff" =>
    LET e == FirstHit(image, FileName[g.stage])
    IN  \A i \in 0 .. WholeSectors(e.len) - 1 :
          LoadSlot[g.stage] + i < RamSectors =>
            ram[LoadSlot[g.stage] + i] = image[e.lba + i + 1]

\* A loader never overwrites the code it is running.
LoaderIntact ==
  /\ g.stage = "bios" => ram[0] = BiosCode
  /\ g.stage = "boot" => ram[BootSlot] = BootCode

\* What was loaded, and what loads it, is in place.
LoadedInPlace == WholeFileLoaded /\ LoaderIntact

\* A boot that starts with an image attached ends, also when images are
\* swapped under it.
BootEnds == (g.pc = "start" /\ Present) ~> Ended

\* dev_disk.c:97-101 answers a READ without an image with ERR ("READ aborted:
\* no image present"), and the BIOS has a message for it (bios.s:276): a boot
\* without a disk comes to an error.
NoDiskReported == (g.pc = "start" /\ ~Present) ~> (Ended \/ Present)
=============================================================================
