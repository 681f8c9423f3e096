------------------------ MODULE SimpleFlatLoaderProofs ------------------------
(***************************************************************************)
(* The boot chain for every image, every size of a sector and of a         *)
(* directory, every RAM and however often the host prepares the machine or *)
(* attaches: each loader ends as the image says, with its file in place.   *)
(*                                                                         *)
(* The inductive invariant says where a loader is: which sector it waits   *)
(* for and what the controller will show of it, which entries of the       *)
(* directory it has passed, how many sectors of the file are in RAM.       *)
(***************************************************************************)
EXTENDS SimpleFlatLoader, TLAPS

Reading  == {"lba", "count", "cmd", "poll", "copy"}
Returned == {"header", "directory", "file"}

\* The registers and their types.
Guest ==
  [stage : Stages,
   pc : {"start", "entry", "handoff", "stopped", "left"} \union Reading \union Returned,
   error : {"none", "disk", "format", "notfound"},
   r0 : Nat, r1 : Nat, r6 : 0 .. EntriesPerSector, r7 : 0 .. EntriesPerSector, r8 : Nat,
   r9 : 0 .. Modulus - 1, r10 : Nat, r12 : {"start"} \union Returned]

Typed ==
  /\ g \in Guest /\ ram \in [0 .. RamSectors - 1 -> Sector] /\ clean \in BOOLEAN
  /\ image \in (Files \ {<<>>}) \union {NoImage}
  /\ lba \in Nat /\ data \in Sector /\ shadow \in [Reg -> Nat]

\* The window's RAM keeps no status, and an image came by an attach.
Window == shadow["STATUS"] = 0 /\ (Present => mapped)

\* What a loader reads next (r12 names the use) and where it puts that.
Wanted == IF g.r12 = "header" THEN 0 ELSE g.r8
Place ==
  CASE g.r12 = "header" -> HeaderSlot [] g.r12 = "directory" -> DirSlot [] OTHER -> g.r10
InPhase(use) == g.pc \in Reading \union {use} /\ g.r12 = use

Returns ==
  /\ g.pc \in Reading => g.r12 \in Returned
  /\ g.pc \in Returned => g.r12 = g.pc
  /\ g.pc \in Reading \union Returned => g.r1 = Place

\* r6 and r7 share the entries of a sector, r9 is not used up, and a file goes
\* up from its slot.
Counts ==
  /\ InPhase("directory") \/ g.pc = "entry" => g.r9 # 0
  /\ g.pc = "entry" => g.r6 + g.r7 = EntriesPerSector /\ g.r7 # 0
  /\ InPhase("file") => LoadSlot[g.stage] <= g.r10

\* Whatever the host did.
Anyway == Typed /\ Window /\ Returns /\ Counts /\ LoaderIntact

-----------------------------------------------------------------------------
\* The rest holds as long as the image stayed: first, the request under way.
Controller ==
  /\ g.pc = "lba" => g.r0 = Wanted
  /\ g.pc \in {"count", "cmd", "poll", "copy"} => lba = Wanted
  /\ g.pc = "poll" => IF Wanted < Len(image) THEN status = DRQ /\ data = image[Wanted + 1]
                      ELSE status = ERR
  /\ g.pc = "copy" => Wanted < Len(image) /\ data = image[Wanted + 1]
  /\ g.pc \in Returned =>
       IF g.r0 = 0 THEN Wanted >= Len(image)
       ELSE /\ Wanted < Len(image)
            /\ g.r1 < RamSectors => ram[g.r1] = image[Wanted + 1]

GoodHeader(img) ==
  /\ img[1].magic /\ img[1].sectorSize /\ img[1].entrySize
  /\ img[1].dir # 0 /\ img[1].n # 0

Name == FileName[g.stage]

\* The entry a loader is at, counted from the directory's first.
Position == image[1].n - g.r9

\* The entries passed were there and were others.
Searching ==
  InPhase("directory") \/ g.pc = "entry" =>
    /\ GoodHeader(image) /\ g.r9 <= image[1].n
    /\ g.r8 = image[1].dir + (Position \div EntriesPerSector)
    /\ \A q \in 0 .. Position - 1 : InDirectory(image, q) /\ EntryAt(image, q).name # Name
    /\ IF g.pc = "entry"
       THEN /\ g.r6 = Position % EntriesPerSector
            /\ g.r8 < Len(image) /\ ram[DirSlot] = image[g.r8 + 1]
       ELSE Position % EntriesPerSector = 0

\* The file found, and the sectors of it that are in place.
File1 == FirstHit(image, Name)
Got == g.r8 - File1.lba
InPlace(k) ==
  \A i \in 0 .. k - 1 :
    LoadSlot[g.stage] + i < RamSectors => ram[LoadSlot[g.stage] + i] = image[File1.lba + i + 1]

\* The count of a length that wraps is never used up within the image.
Left(len, k, left) ==
  IF len + SectorBytes - 1 < Modulus THEN left = WholeSectors(len) - k /\ left > 0
  ELSE left = IF k = 0 THEN 0 ELSE Modulus - k

Sought ==
  /\ GoodHeader(image) /\ Hits(image, Name) # {}
  /\ File1.lba \in Nat /\ File1.len \in 1 .. Modulus - 1
Loading ==
  InPhase("file") =>
    /\ Sought /\ Got \in Nat /\ g.r10 = LoadSlot[g.stage] + Got
    /\ Got > 0 => g.r8 <= Len(image)
    /\ Left(File1.len, Got, g.r9) /\ InPlace(Got)

Ending ==
  /\ g.pc = "stopped" => g.error = Expected(image, Name)
  /\ g.pc = "handoff" =>
       Sought /\ Expected(image, Name) = "none" /\ InPlace(WholeSectors(File1.len))

\* Without an image a loader waits for the first sector.
Waiting == g.pc \in {"start", "lba", "count", "cmd", "poll"}

Undisturbed ==
  clean => IF Present THEN Controller /\ Searching /\ Loading /\ Ending ELSE Waiting

\* The inductive invariant.
IInv == Anyway /\ Undisturbed

-----------------------------------------------------------------------------
\* The constants as the proofs use them.
LEMMA Slots ==
  /\ EntriesPerSector \in Nat \ {0} /\ SectorBytes \in Nat \ {0} /\ Modulus \in Nat \ {0}
  /\ RamSectors \in Nat /\ BootSlot \in Nat /\ MonitorSlot \in Nat
  /\ HeaderSlot \in Nat /\ DirSlot \in Nat
  /\ 0 < BootSlot /\ BootSlot < MonitorSlot /\ BootSlot < HeaderSlot /\ BootSlot < DirSlot
  /\ HeaderSlot < RamSectors /\ DirSlot < RamSectors /\ BootSlot < RamSectors
  /\ BiosCode \in Sector /\ BootCode \in Sector /\ ZeroSector \in Sector
BY SlotAssumption, SectorAssumption

\* An attached image has a first sector and fewer than wrap a count.
LEMMA ImageFacts ==
  ASSUME Typed, Present
  PROVE  /\ image \in Files /\ Len(image) \in Nat /\ Len(image) > 0
         /\ \A i \in Nat : i < Len(image) => image[i + 1] \in Sector
         /\ Len(image) < Modulus \div SectorBytes
<1>1. image \in Files /\ image # <<>> /\ image \in Seq(Sector)
  BY FilesAssumption DEF Typed, Present
<1>2. Len(image) \in Nat /\ Len(image) > 0
  BY <1>1
<1>3. \A i \in Nat : i < Len(image) => image[i + 1] \in Sector
  BY <1>1, <1>2
<1> QED BY <1>1, <1>2, <1>3, ImageAssumption

\* Where the places are: never over the code that runs.
LEMMA PlaceApart ==
  ASSUME Anyway, g.pc \in Reading
  PROVE  /\ g.r1 \in Nat /\ g.stage = "bios" => g.r1 # 0
         /\ g.stage = "boot" => g.r1 # BootSlot
<1>1. g.r1 = Place /\ g.r12 \in Returned /\ g \in Guest
  BY DEF Anyway, Returns, Typed
<1>2. g.r12 = "file" => LoadSlot[g.stage] <= g.r10
  BY DEF Anyway, Counts, InPhase
<1>3. g.stage \in Stages /\ g.r10 \in Nat /\ g.r1 \in Nat
  BY <1>1 DEF Guest
<1>4. /\ g.r12 = "header" => g.r1 = HeaderSlot
      /\ g.r12 = "directory" => g.r1 = DirSlot
      /\ g.r12 = "file" => g.r1 = g.r10
  BY <1>1 DEF Place
<1>5. LoadSlot["bios"] = BootSlot /\ LoadSlot["boot"] = MonitorSlot
  BY DEF LoadSlot
<1> QED BY <1>1, <1>2, <1>3, <1>4, <1>5, Slots DEF Returned, Stages

-----------------------------------------------------------------------------
\* disk_read_sector: the program counter moves through Reading, and with it goes
\* what the controller knows.
LEMMA StoreLbaInv == ASSUME IInv, StoreLba PROVE IInv'
<1>1. /\ g.pc = "lba" /\ g' = [g EXCEPT !.pc = "count"] /\ UNCHANGED <<ram, clean, image, mapped, data, status>>
      /\ Present => lba' = g.r0 /\ UNCHANGED shadow
      /\ ~Present => UNCHANGED lba /\ (shadow' = [shadow EXCEPT !["LBA"] = g.r0] \/ UNCHANGED shadow)
  BY DEF StoreLba, GuestStore, DeviceWrite
<1>2. /\ g' \in Guest /\ g'.pc = "count" /\ g'.stage = g.stage /\ g'.r0 = g.r0 /\ g'.r1 = g.r1
      /\ g'.r8 = g.r8 /\ g'.r9 = g.r9 /\ g'.r10 = g.r10 /\ g'.r12 = g.r12 /\ g.r0 \in Nat
  BY <1>1 DEF IInv, Anyway, Typed, Guest, Reading
<1>3. Present' = Present
  BY <1>1 DEF Present
<1>4. Typed' /\ Window'
  BY <1>1, <1>2, <1>3 DEF IInv, Anyway, Typed, Window, Reg
<1>5. Returns' /\ Counts' /\ LoaderIntact'
  BY <1>1, <1>2 DEF IInv, Anyway, Returns, Counts, LoaderIntact, InPhase, Reading, Returned, Place
<1>6. Undisturbed'
  <2> SUFFICES ASSUME clean PROVE IF Present THEN (Controller /\ Searching /\ Loading /\ Ending)' ELSE Waiting'
    BY <1>1, <1>3 DEF Undisturbed
  <2>1. CASE Present
    <3>1. Controller'
      BY <1>1, <1>2, <2>1 DEF IInv, Undisturbed, Controller, Wanted, Returned
    <3>2. Searching' /\ Loading' /\ Ending'
      BY <1>1, <1>2, <2>1
      DEF IInv, Undisturbed, Searching, Loading, Ending, InPhase, Reading, Position, Name, Sought, Got, InPlace, File1
    <3> QED BY <2>1, <3>1, <3>2
  <2>2. CASE ~Present
    BY <1>2, <2>2 DEF Waiting
  <2> QED BY <2>1, <2>2
<1> QED BY <1>4, <1>5, <1>6 DEF IInv, Anyway

LEMMA StoreCountInv == ASSUME IInv, StoreCount PROVE IInv'
<1>1. /\ g.pc = "count" /\ g' = [g EXCEPT !.pc = "cmd"]
      /\ UNCHANGED <<ram, clean, image, mapped, data, status, lba>>
      /\ shadow' = [shadow EXCEPT !["COUNT"] = 1] \/ UNCHANGED shadow
  BY DEF StoreCount, GuestStore, DeviceWrite
<1>2. /\ g' \in Guest /\ g'.pc = "cmd" /\ g'.stage = g.stage /\ g'.r0 = g.r0 /\ g'.r1 = g.r1
      /\ g'.r8 = g.r8 /\ g'.r9 = g.r9 /\ g'.r10 = g.r10 /\ g'.r12 = g.r12
  BY <1>1 DEF IInv, Anyway, Typed, Guest, Reading
<1>3. Present' = Present
  BY <1>1 DEF Present
<1>4. Typed' /\ Window'
  BY <1>1, <1>2, <1>3 DEF IInv, Anyway, Typed, Window, Reg
<1>5. Returns' /\ Counts' /\ LoaderIntact'
  BY <1>1, <1>2 DEF IInv, Anyway, Returns, Counts, LoaderIntact, InPhase, Reading, Returned, Place
<1>6. Undisturbed'
  <2> SUFFICES ASSUME clean PROVE IF Present THEN (Controller /\ Searching /\ Loading /\ Ending)' ELSE Waiting'
    BY <1>1, <1>3 DEF Undisturbed
  <2>1. CASE Present
    <3>1. Controller'
      BY <1>1, <1>2, <2>1 DEF IInv, Undisturbed, Controller, Wanted, Returned
    <3>2. Searching' /\ Loading' /\ Ending'
      BY <1>1, <1>2, <2>1
      DEF IInv, Undisturbed, Searching, Loading, Ending, InPhase, Reading, Position, Name, Sought, Got, InPlace, File1
    <3> QED BY <2>1, <3>1, <3>2
  <2>2. CASE ~Present
    BY <1>2, <2>2 DEF Waiting
  <2> QED BY <2>1, <2>2
<1> QED BY <1>4, <1>5, <1>6 DEF IInv, Anyway

LEMMA StoreCmdInv == ASSUME IInv, StoreCmd PROVE IInv'
<1>0. IsReadGo(129)
  BY DEF IsReadGo
<1>1. /\ g.pc = "cmd" /\ g' = [g EXCEPT !.pc = "poll"] /\ UNCHANGED <<ram, clean, image, mapped, lba>>
      /\ Present => /\ IF lba < Len(image) THEN status' = DRQ /\ data' = image[lba + 1]
                       ELSE status' = ERR /\ UNCHANGED data
                    /\ UNCHANGED shadow
      /\ ~Present => /\ UNCHANGED data
                     /\ shadow' = [shadow EXCEPT !["CMD"] = 129] \/ UNCHANGED shadow
  BY <1>0 DEF StoreCmd, GuestStore, DeviceWrite, Command, Readable, Present
<1>2. /\ g' \in Guest /\ g'.pc = "poll" /\ g'.stage = g.stage /\ g'.r0 = g.r0 /\ g'.r1 = g.r1
      /\ g'.r8 = g.r8 /\ g'.r9 = g.r9 /\ g'.r10 = g.r10 /\ g'.r12 = g.r12
  BY <1>1 DEF IInv, Anyway, Typed, Guest, Reading
<1>3. Present' = Present
  BY <1>1 DEF Present
<1>4. Typed' /\ Window'
  <2>1. data' \in Sector
    BY <1>1, ImageFacts DEF IInv, Anyway, Typed
  <2> QED BY <1>1, <1>2, <1>3, <2>1 DEF IInv, Anyway, Typed, Window, Reg
<1>5. Returns' /\ Counts' /\ LoaderIntact'
  BY <1>1, <1>2 DEF IInv, Anyway, Returns, Counts, LoaderIntact, InPhase, Reading, Returned, Place
<1>6. Undisturbed'
  <2> SUFFICES ASSUME clean PROVE IF Present THEN (Controller /\ Searching /\ Loading /\ Ending)' ELSE Waiting'
    BY <1>1, <1>3 DEF Undisturbed
  <2>1. CASE Present
    <3>1. Controller'
      BY <1>1, <1>2, <2>1 DEF IInv, Undisturbed, Controller, Wanted, Returned
    <3>2. Searching' /\ Loading' /\ Ending'
      BY <1>1, <1>2, <2>1
      DEF IInv, Undisturbed, Searching, Loading, Ending, InPhase, Reading, Position, Name, Sought, Got, InPlace, File1
    <3> QED BY <2>1, <3>1, <3>2
  <2>2. CASE ~Present
    BY <1>2, <2>2 DEF Waiting
  <2> QED BY <2>1, <2>2
<1> QED BY <1>4, <1>5, <1>6 DEF IInv, Anyway

\* DRQ and ERR are the bits the loader tests.
LEMMA PollSees ==
  /\ Bit(DRQ, DRQ) /\ ~Bit(DRQ, ERR) /\ Bit(ERR, ERR)
  /\ ~Bit(0, ERR) /\ ~Bit(0, DRQ)
BY DEF Bit, DRQ, ERR

LEMMA PollInv == ASSUME IInv, Poll PROVE IInv'
<1>1. /\ g.pc = "poll" /\ UNCHANGED <<ram, clean, diskVars>>
      /\ \/ /\ Bit(GuestLoads["STATUS"], ERR) /\ g' = [g EXCEPT !.pc = g.r12, !.r0 = 0]
         \/ /\ ~Bit(GuestLoads["STATUS"], ERR) /\ Bit(GuestLoads["STATUS"], DRQ)
            /\ g' = [g EXCEPT !.pc = "copy"]
  BY DEF Poll, Continue, Local
<1>2. /\ UNCHANGED <<lba, count, status, data, mapped, image, shadow, asked>>
      /\ Present' = Present
  BY <1>1 DEF diskVars, Present
<1>3. GuestLoads["STATUS"] = IF Present THEN status ELSE 0
  BY DEF GuestLoads, DeviceReads, IInv, Anyway, Window
<1>4. Present
  BY <1>1, <1>3, PollSees
<1>5. g.r12 \in Returned /\ g \in Guest
  BY <1>1 DEF IInv, Anyway, Returns, Reading, Typed
<1>6. ASSUME NEW next \in Returned \union {"copy"}, NEW r \in Nat, g' = [g EXCEPT !.pc = next, !.r0 = r],
             next = "copy" \/ (next = g.r12 /\ r = 0),
             clean => /\ next = "copy" => Wanted < Len(image) /\ data = image[Wanted + 1]
                      /\ next # "copy" => Wanted >= Len(image)
      PROVE  IInv'
  <2>1. /\ g' \in Guest /\ g'.pc = next /\ g'.stage = g.stage /\ g'.r0 = r /\ g'.r1 = g.r1
        /\ g'.r8 = g.r8 /\ g'.r9 = g.r9 /\ g'.r10 = g.r10 /\ g'.r12 = g.r12
    BY <1>5, <1>6 DEF Guest, Reading
  <2>2. Typed' /\ Window'
    BY <1>1, <1>2, <2>1 DEF IInv, Anyway, Typed, Window
  <2>3. Returns' /\ Counts' /\ LoaderIntact'
    BY <1>1, <1>5, <1>6, <2>1
    DEF IInv, Anyway, Returns, Counts, LoaderIntact, InPhase, Reading, Returned, Place
  <2>4. Undisturbed'
    <3> SUFFICES ASSUME clean PROVE (Controller /\ Searching /\ Loading /\ Ending)'
      BY <1>1, <1>2, <1>4 DEF Undisturbed
    <3>1. Controller'
      BY <1>1, <1>2, <1>4, <1>6, <2>1 DEF IInv, Undisturbed, Controller, Wanted, Returned
    <3>2. Searching' /\ Loading' /\ Ending'
      BY <1>1, <1>2, <1>4, <1>5, <1>6, <2>1
      DEF IInv, Undisturbed, Searching, Loading, Ending, InPhase, Reading, Returned, Position, Name, Sought, Got, InPlace, File1
    <3> QED BY <3>1, <3>2
  <2> QED BY <2>2, <2>3, <2>4 DEF IInv, Anyway
<1>7. clean => IF Wanted < Len(image) THEN status = DRQ /\ data = image[Wanted + 1] ELSE status = ERR
  BY <1>1, <1>4 DEF IInv, Undisturbed, Controller
<1>8. CASE Bit(GuestLoads["STATUS"], ERR) /\ g' = [g EXCEPT !.pc = g.r12, !.r0 = 0]
  <2>1. clean => Wanted >= Len(image)
    <3>1. Wanted \in Nat /\ Len(image) \in Nat
      BY <1>4, <1>5, ImageFacts DEF IInv, Anyway, Wanted, Guest
    <3> QED BY <1>3, <1>4, <1>7, <1>8, <3>1, PollSees
  <2>2. g.r12 # "copy"
    BY <1>5 DEF Returned
  <2> QED BY <1>5, <1>6, <1>8, <2>1, <2>2
<1>9. CASE /\ ~Bit(GuestLoads["STATUS"], ERR) /\ g' = [g EXCEPT !.pc = "copy"]
  <2>1. clean => Wanted < Len(image) /\ data = image[Wanted + 1]
    BY <1>3, <1>4, <1>7, <1>9, PollSees
  <2>2. g' = [g EXCEPT !.pc = "copy", !.r0 = g.r0] /\ g.r0 \in Nat
    BY <1>5, <1>9 DEF Guest
  <2> QED BY <1>6, <2>1, <2>2
<1> QED BY <1>1, <1>8, <1>9

LEMMA CopyInv == ASSUME IInv, Copy PROVE IInv'
<1>1. /\ g.pc = "copy" /\ g' = [g EXCEPT !.pc = g.r12, !.r0 = 1] /\ UNCHANGED <<diskVars, clean>>
      /\ ram' = IF g.r1 < RamSectors THEN [ram EXCEPT ![g.r1] = data] ELSE ram
  BY DEF Copy, Local
<1>2. /\ UNCHANGED <<lba, count, status, data, mapped, image, shadow, asked>>
      /\ Present' = Present
  BY <1>1 DEF diskVars, Present
<1>3. g.r12 \in Returned /\ g \in Guest /\ g.r1 \in Nat /\ data \in Sector /\ ram \in [0 .. RamSectors - 1 -> Sector]
  BY <1>1 DEF IInv, Anyway, Returns, Reading, Typed, Guest
<1>4. /\ g' \in Guest /\ g'.pc = g.r12 /\ g'.stage = g.stage /\ g'.r0 = 1 /\ g'.r1 = g.r1
      /\ g'.r8 = g.r8 /\ g'.r9 = g.r9 /\ g'.r10 = g.r10 /\ g'.r12 = g.r12
  BY <1>1, <1>3 DEF Guest
<1>5. /\ ram' \in [0 .. RamSectors - 1 -> Sector]
      /\ \A s \in 0 .. RamSectors - 1 : s # g.r1 => ram'[s] = ram[s]
      /\ g.r1 < RamSectors => ram'[g.r1] = data
  BY <1>1, <1>3, Slots
<1>6. Typed' /\ Window'
  BY <1>1, <1>2, <1>4, <1>5 DEF IInv, Anyway, Typed, Window
<1>7. Returns' /\ Counts'
  BY <1>1, <1>3, <1>4
  DEF IInv, Anyway, Returns, Counts, InPhase, Reading, Returned, Place
<1>8. LoaderIntact'
  <2>1. g.stage = "bios" => g.r1 # 0 /\ ram[0] = BiosCode
    BY <1>1, PlaceApart DEF IInv, Anyway, LoaderIntact, Reading
  <2>2. g.stage = "boot" => g.r1 # BootSlot /\ ram[BootSlot] = BootCode
    BY <1>1, PlaceApart DEF IInv, Anyway, LoaderIntact, Reading
  <2>3. 0 \in 0 .. RamSectors - 1 /\ BootSlot \in 0 .. RamSectors - 1
    BY Slots
  <2> QED BY <1>4, <1>5, <2>1, <2>2, <2>3 DEF LoaderIntact
<1>9. Undisturbed'
  <2> SUFFICES ASSUME clean PROVE Present /\ (Controller /\ Searching /\ Loading /\ Ending)'
    BY <1>1, <1>2 DEF Undisturbed
  <2>1. Present /\ Controller /\ Searching /\ Loading
    BY <1>1 DEF IInv, Undisturbed, Waiting
  <2>2. Controller'
    BY <1>1, <1>2, <1>3, <1>4, <1>5, <2>1 DEF Controller, Wanted, Returned
  <2>3. Searching' /\ Ending'
    BY <1>1, <1>2, <1>3, <1>4, <2>1 DEF Searching, Ending, InPhase, Reading, Returned, Position, Name
  <2>4. Loading'
    <3> SUFFICES ASSUME g.r12 = "file" PROVE Loading'
      BY <1>4 DEF Loading, InPhase
    <3>1. InPhase("file")
      BY <1>1 DEF InPhase, Reading
    <3>2. /\ Sought /\ Got \in Nat /\ g.r10 = LoadSlot[g.stage] + Got
          /\ Got > 0 => g.r8 <= Len(image)
          /\ Left(File1.len, Got, g.r9) /\ InPlace(Got)
      BY <2>1, <3>1 DEF Loading
    <3>3. g.r1 = g.r10
      BY <1>1 DEF IInv, Anyway, Returns, Place, Reading
    <3>4. Got' = Got /\ File1' = File1 /\ Name' = Name /\ Sought' = Sought
      BY <1>2, <1>4 DEF Got, File1, Name, Sought
    <3>5. LoadSlot[g.stage] \in Nat
      BY <1>3, Slots DEF LoadSlot, Guest, Stages
    <3>6. \A i \in 0 .. Got - 1 : LoadSlot[g.stage] + i < RamSectors =>
             LoadSlot[g.stage] + i \in 0 .. RamSectors - 1 /\ LoadSlot[g.stage] + i # g.r1
      <4> TAKE i \in 0 .. Got - 1
      <4>1. i \in Nat /\ i < Got
        BY <3>2
      <4>2. g.r1 = LoadSlot[g.stage] + Got /\ Got \in Nat
        BY <3>2, <3>3
      <4> QED BY <3>5, <4>1, <4>2, Slots
    <3>7. InPlace(Got)'
      BY <1>2, <1>4, <1>5, <3>2, <3>4, <3>6 DEF InPlace
    <3> QED BY <1>2, <1>4, <3>2, <3>4, <3>7 DEF Loading
  <2> QED BY <2>1, <2>2, <2>3, <2>4
<1> QED BY <1>6, <1>7, <1>8, <1>9 DEF IInv, Anyway

-----------------------------------------------------------------------------
\* A step of the registers alone that stops with the error the image calls for.
LEMMA StopInv ==
  ASSUME IInv, NEW r \in Guest, r.stage = g.stage,
         NEW why \in {"disk", "format", "notfound"}, Continue(Stop(r, why)),
         clean => Present /\ Expected(image, Name) = why
  PROVE  IInv'
<1>1. /\ g' = [r EXCEPT !.pc = "stopped", !.error = why]
      /\ UNCHANGED <<ram, clean, lba, count, status, data, mapped, image, shadow, asked>>
  BY DEF Continue, Stop, Local, diskVars
<1>2. g' \in Guest /\ g'.pc = "stopped" /\ g'.error = why /\ g'.stage = g.stage
  BY <1>1 DEF Guest
<1>3. Present' = Present
  BY <1>1 DEF Present
<1>4. Anyway'
  BY <1>1, <1>2, <1>3
  DEF IInv, Anyway, Typed, Window, Returns, Counts, LoaderIntact, InPhase, Reading, Returned
<1>5. Undisturbed'
  BY <1>1, <1>2, <1>3
  DEF Undisturbed, Controller, Searching, Loading, Ending, InPhase, Reading, Returned, Name
<1> QED BY <1>4, <1>5 DEF IInv

\* A step of the registers alone that asks for a sector.
LEMMA ReadInv ==
  ASSUME IInv, NEW r \in Guest, r.stage = g.stage, NEW sector \in Nat, NEW slot \in Nat,
         NEW use \in Returned, Continue(ReadSector(r, sector, slot, use)),
         use = "header" => sector = 0 /\ slot = HeaderSlot,
         use = "directory" => sector = r.r8 /\ slot = DirSlot /\ r.r9 # 0,
         use = "file" => sector = r.r8 /\ slot = r.r10 /\ LoadSlot[g.stage] <= r.r10,
         clean /\ Present => Searching' /\ Loading'
  PROVE  IInv'
<1>1. /\ g' = [r EXCEPT !.pc = "lba", !.r0 = sector, !.r1 = slot, !.r12 = use]
      /\ UNCHANGED <<ram, clean, lba, count, status, data, mapped, image, shadow, asked>>
  BY DEF Continue, ReadSector, Local, diskVars
<1>2. /\ g' \in Guest /\ g'.pc = "lba" /\ g'.stage = g.stage /\ g'.r0 = sector /\ g'.r1 = slot
      /\ g'.r12 = use /\ g'.r8 = r.r8 /\ g'.r9 = r.r9 /\ g'.r10 = r.r10
  BY <1>1 DEF Guest, Reading, Returned
<1>3. Present' = Present
  BY <1>1 DEF Present
<1>4. Typed' /\ Window' /\ LoaderIntact'
  BY <1>1, <1>2, <1>3 DEF IInv, Anyway, Typed, Window, LoaderIntact
<1>5. Returns' /\ Counts'
  BY <1>1, <1>2 DEF Returns, Counts, InPhase, Reading, Returned, Place
<1>6. Controller' /\ Ending'
  BY <1>1, <1>2 DEF Controller, Ending, Wanted, Returned
<1>7. Undisturbed'
  BY <1>1, <1>2, <1>3, <1>6 DEF Undisturbed, Waiting
<1> QED BY <1>4, <1>5, <1>7 DEF IInv, Anyway

LEMMA StartInv == ASSUME IInv, Start PROVE IInv'
<1>1. g.pc = "start" /\ Continue(ReadSector(g, 0, HeaderSlot, "header")) /\ g \in Guest
  BY DEF Start, IInv, Anyway, Typed
<1>2. Searching' /\ Loading'
  <2>1. g' = [g EXCEPT !.pc = "lba", !.r0 = 0, !.r1 = HeaderSlot, !.r12 = "header"]
    BY <1>1 DEF Continue, ReadSector
  <2>2. g'.pc = "lba" /\ g'.r12 = "header"
    BY <1>1, <2>1 DEF Guest
  <2> QED BY <2>2 DEF Searching, Loading, InPhase
<1>3. "header" \in Returned
  BY DEF Returned
<1> QED BY <1>1, <1>2, <1>3, ReadInv, Slots

-----------------------------------------------------------------------------
\* Division, as the places in a directory and the sectors of a file need it.
LEMMA DivMod ==
  ASSUME NEW x \in Nat, NEW m \in Nat \ {0}
  PROVE  x \div m \in Nat /\ x % m \in 0 .. m - 1 /\ x = (m * (x \div m)) + (x % m)
OBVIOUS

LEMMA DivUnique ==
  ASSUME NEW m \in Nat \ {0}, NEW q \in Nat, NEW r \in 0 .. m - 1
  PROVE  ((m * q) + r) \div m = q /\ ((m * q) + r) % m = r
OBVIOUS

LEMMA DivMonotone ==
  ASSUME NEW a \in Nat, NEW b \in Nat, a <= b, NEW m \in Nat \ {0}
  PROVE  a \div m <= b \div m
OBVIOUS

LEMMA DivNext ==
  ASSUME NEW p \in Nat, NEW m \in Nat \ {0}
  PROVE  /\ (p % m) + 1 < m => (p + 1) \div m = p \div m /\ (p + 1) % m = (p % m) + 1
         /\ (p % m) + 1 = m => (p + 1) \div m = (p \div m) + 1 /\ (p + 1) % m = 0
<1> DEFINE q == p \div m
           r == p % m
<1>1. q \in Nat /\ r \in 0 .. m - 1 /\ p = (m * q) + r
  BY DivMod
<1> HIDE DEF q, r
<1>2. ASSUME r + 1 < m PROVE (p + 1) \div m = q /\ (p + 1) % m = r + 1
  <2>1. p + 1 = (m * q) + (r + 1) /\ r + 1 \in 0 .. m - 1
    BY <1>1, <1>2
  <2> QED BY <1>1, <2>1, DivUnique
<1>3. ASSUME r + 1 = m PROVE (p + 1) \div m = q + 1 /\ (p + 1) % m = 0
  <2> DEFINE k == q + 1
  <2>1. p + 1 = (m * k) + 0 /\ 0 \in 0 .. m - 1 /\ k \in Nat
    BY <1>1, <1>3
  <2>2. (p + 1) \div m = k /\ (p + 1) % m = 0
    <3> HIDE DEF k
    <3> QED BY <2>1, DivUnique
  <2> QED BY <2>2
<1> QED BY <1>2, <1>3 DEF q, r

-----------------------------------------------------------------------------
\* What the image says, in the words of a search: the first entry that matches,
\* and the ends of one that finds none.
LEMMA HitIsFirst ==
  ASSUME NEW img, img[1].n \in Nat, NEW name, NEW p \in 0 .. img[1].n - 1,
         InDirectory(img, p), EntryAt(img, p).name = name,
         \A q \in 0 .. p - 1 : EntryAt(img, q).name # name
  PROVE  Hits(img, name) # {} /\ FirstHit(img, name) = EntryAt(img, p)
<1>1. p \in Hits(img, name) /\ p \in Nat
  BY DEF Hits
<1>2. \A q \in Hits(img, name) : q \in Nat /\ p <= q
  BY <1>1 DEF Hits
<1>3. (CHOOSE q \in Hits(img, name) : \A m \in Hits(img, name) : q <= m) = p
  <2> DEFINE H == Hits(img, name)
  <2>1. \A q \in H : (\A m \in H : q <= m) => q = p
    BY <1>1, <1>2
  <2>2. p \in H /\ \A m \in H : p <= m
    BY <1>1, <1>2
  <2> HIDE DEF H
  <2>3. (CHOOSE q \in H : \A m \in H : q <= m) = p
    BY <2>1, <2>2
  <2> QED BY <2>3 DEF H
<1> QED BY <1>1, <1>3 DEF FirstHit

LEMMA ExpectedOfGood ==
  ASSUME NEW img, GoodHeader(img), NEW name
  PROVE  Expected(img, name) =
           IF Hits(img, name) = {}
             THEN IF \A p \in 0 .. img[1].n - 1 : InDirectory(img, p) THEN "notfound" ELSE "disk"
             ELSE IF FirstHit(img, name).len = 0 THEN "notfound"
                  ELSE IF FirstHit(img, name).lba + WholeSectors(FirstHit(img, name).len) <= Len(img)
                       THEN "none" ELSE "disk"
BY DEF Expected, GoodHeader

LEMMA HeaderFacts ==
  ASSUME Typed, Present
  PROVE  image[1] \in Sector /\ image[1].dir \in 0 .. Modulus - 1 /\ image[1].n \in 0 .. Modulus - 1
<1>1. image[0 + 1] \in Sector
  BY ImageFacts
<1> QED BY <1>1, FieldsAssumption

\* An entry of a sector.
LEMMA EntryFacts ==
  ASSUME NEW s \in Sector, NEW i \in 0 .. EntriesPerSector - 1
  PROVE  s.entries[i].lba \in 0 .. Modulus - 1 /\ s.entries[i].len \in 0 .. Modulus - 1
BY FieldsAssumption

\* A loader that has a sector of the image knows it.
LEMMA HeaderRead ==
  ASSUME IInv, g.pc = "header", clean
  PROVE  Present /\ g.r0 # 0 /\ ram[HeaderSlot] = image[1]
<1>1. Present /\ Controller
  BY DEF IInv, Undisturbed, Waiting
<1>2. g.r12 = "header" /\ g.r1 = HeaderSlot /\ Wanted = 0
  BY DEF IInv, Anyway, Returns, Returned, Place, Wanted
<1>3. Len(image) \in Nat /\ Len(image) > 0
  BY <1>1, ImageFacts DEF IInv, Anyway
<1> QED BY <1>1, <1>2, <1>3, Slots DEF Controller, Returned

LEMMA HeaderInv == ASSUME IInv, Header PROVE IInv'
<1> DEFINE h == ram[HeaderSlot]
           r == [g EXCEPT !.r8 = h.dir, !.r9 = h.n]
<1>1. g.pc = "header" /\ g \in Guest /\ Typed
  BY DEF Header, IInv, Anyway, Typed
<1>2. h \in Sector /\ h.dir \in 0 .. Modulus - 1 /\ h.n \in 0 .. Modulus - 1
  <2>1. HeaderSlot \in 0 .. RamSectors - 1
    BY Slots
  <2>2. h \in Sector
    BY <1>1, <2>1 DEF Typed
  <2> QED BY <2>2, FieldsAssumption
<1>3. clean => Present /\ g.r0 # 0 /\ h = image[1]
  BY <1>1, HeaderRead
<1>4. /\ r \in Guest /\ r.stage = g.stage /\ r.r8 = h.dir /\ r.r9 = h.n
  <2> HIDE DEF h
  <2>1. h.dir \in Nat
    BY <1>2, Slots
  <2> QED BY <1>1, <1>2, <2>1 DEF Guest
<1>5. CASE g.r0 = 0 /\ Continue(Stop(g, "disk"))
  BY <1>1, <1>3, <1>5, StopInv
<1>6. CASE (~h.magic \/ ~h.sectorSize) /\ Continue(Stop(g, "format"))
  <2>1. clean => Expected(image, Name) = "format"
    BY <1>3, <1>6 DEF Expected
  <2> QED BY <1>1, <1>3, <1>6, <2>1, StopInv
<1>7. CASE h.magic /\ h.sectorSize /\ h.dir = 0 /\ Continue(Stop(r, "format"))
  <2>1. clean => Expected(image, Name) = "format"
    BY <1>3, <1>7 DEF Expected
  <2> HIDE DEF r
  <2> QED BY <1>3, <1>4, <1>7, <2>1, StopInv
<1>8. CASE h.magic /\ h.sectorSize /\ h.dir # 0 /\ h.n = 0 /\ Continue(Stop(r, "notfound"))
  <2>1. clean => Expected(image, Name) = "notfound"
    BY <1>3, <1>8 DEF Expected
  <2> HIDE DEF r
  <2> QED BY <1>3, <1>4, <1>8, <2>1, StopInv
<1>9. CASE h.magic /\ h.sectorSize /\ h.dir # 0 /\ h.n # 0 /\ ~h.entrySize /\ Continue(Stop(r, "format"))
  <2>1. clean => Expected(image, Name) = "format"
    BY <1>3, <1>9 DEF Expected
  <2> HIDE DEF r
  <2> QED BY <1>3, <1>4, <1>9, <2>1, StopInv
<1>10. CASE h.magic /\ h.sectorSize /\ h.dir # 0 /\ h.n # 0 /\ h.entrySize /\ Continue(ReadDirectory(r))
  <2> HIDE DEF h, r
  <2>1. Continue(ReadSector(r, r.r8, DirSlot, "directory"))
    BY <1>10 DEF ReadDirectory
  <2>2. ASSUME clean PROVE Searching' /\ Loading'
    <3>1. /\ g'.pc = "lba" /\ g'.r12 = "directory" /\ g'.r8 = h.dir /\ g'.r9 = h.n
      BY <1>4, <2>1 DEF Continue, ReadSector, Guest
    <3>2. image' = image /\ h = image[1] /\ h.n \in Nat
      BY <1>2, <1>3, <2>1, <2>2, Slots DEF Continue, Local, diskVars
    <3>3. Position' = 0
      BY <3>1, <3>2 DEF Position
    <3>4. 0 \div EntriesPerSector = 0 /\ 0 % EntriesPerSector = 0
      BY Slots
    <3>5. GoodHeader(image)
      BY <1>10, <3>2 DEF GoodHeader
    <3>6. h.dir = h.dir + 0
      BY <1>2
    <3> QED BY <3>1, <3>2, <3>3, <3>4, <3>5, <3>6 DEF Searching, Loading, InPhase
  <2>3. r.r8 \in Nat /\ r.r9 # 0 /\ "directory" \in Returned
    BY <1>4, <1>10 DEF Guest, Returned
  <2> QED BY <1>4, <2>1, <2>2, <2>3, ReadInv, Slots
<1> QED BY <1>5, <1>6, <1>7, <1>8, <1>9, <1>10 DEF Header

\* The sector of the directory is there, or the directory ends before its count.
LEMMA DirectoryInv == ASSUME IInv, Directory PROVE IInv'
<1>1. /\ g.pc = "directory" /\ g \in Guest /\ Typed /\ g.r12 = "directory" /\ InPhase("directory")
      /\ g.r9 # 0 /\ g.r1 = DirSlot /\ Wanted = g.r8
  BY DEF Directory, IInv, Anyway, Typed, Returns, Returned, Reading, Counts, InPhase, Place, Wanted
<1>2. clean => Present /\ Controller /\ Searching
  BY <1>1 DEF IInv, Undisturbed, Waiting
<1>3. ASSUME clean
      PROVE  /\ image[1].dir \in Nat /\ image[1].n \in Nat /\ Position \in 0 .. image[1].n - 1
             /\ g.r8 \in Nat /\ Len(image) \in Nat
             /\ Position \div EntriesPerSector \in Nat
             /\ g.r8 = image[1].dir + (Position \div EntriesPerSector)
             /\ Position % EntriesPerSector = 0 /\ GoodHeader(image) /\ g.r9 <= image[1].n
             /\ \A q \in 0 .. Position - 1 : InDirectory(image, q) /\ EntryAt(image, q).name # Name
  <2>1. image[1].dir \in Nat /\ image[1].n \in Nat /\ Len(image) \in Nat
    BY <1>1, <1>2, <1>3, HeaderFacts, ImageFacts, Slots
  <2>2. /\ GoodHeader(image) /\ g.r9 <= image[1].n
        /\ g.r8 = image[1].dir + (Position \div EntriesPerSector)
        /\ \A q \in 0 .. Position - 1 : InDirectory(image, q) /\ EntryAt(image, q).name # Name
        /\ Position % EntriesPerSector = 0
    BY <1>1, <1>2, <1>3 DEF Searching
  <2>3. g.r9 \in Nat /\ g.r8 \in Nat
    BY <1>1, Slots DEF Guest
  <2>4. Position \in 0 .. image[1].n - 1
    BY <1>1, <2>1, <2>2, <2>3 DEF Position
  <2>5. Position \div EntriesPerSector \in Nat
    <3>1. Position \in Nat
      BY <2>1, <2>4
    <3> QED BY <3>1, DivMod, Slots
  <2> QED BY <2>1, <2>2, <2>3, <2>4, <2>5
<1>4. CASE g.r0 = 0 /\ Continue(Stop(g, "disk"))
  <2>1. ASSUME clean PROVE Expected(image, Name) = "disk"
    <3>1. g.r8 >= Len(image)
      BY <1>1, <1>2, <1>4, <2>1 DEF Controller, Returned
    <3>2. \A q \in 0 .. image[1].n - 1 : q >= Position => ~InDirectory(image, q)
      <4> TAKE q \in 0 .. image[1].n - 1
      <4> HAVE q >= Position
      <4>1. /\ q \in Nat /\ Position \in Nat /\ Position <= q
        BY <1>3, <2>1
      <4>2. Position \div EntriesPerSector <= q \div EntriesPerSector /\ q \div EntriesPerSector \in Nat
        BY <4>1, DivMonotone, DivMod, Slots
      <4> QED BY <1>3, <2>1, <3>1, <4>2 DEF InDirectory
    <3>3. \A q \in 0 .. image[1].n - 1 : q < Position => EntryAt(image, q).name # Name
      BY <1>3, <2>1
    <3>4. Hits(image, Name) = {}
      BY <1>3, <2>1, <3>2, <3>3 DEF Hits
    <3>5. ~InDirectory(image, Position)
      BY <1>3, <2>1, <3>2
    <3> QED BY <1>3, <2>1, <3>4, <3>5, ExpectedOfGood
  <2> QED BY <1>1, <1>2, <1>4, <2>1, StopInv
<1>5. CASE g.r0 # 0 /\ Continue([g EXCEPT !.pc = "entry", !.r6 = 0, !.r7 = EntriesPerSector])
  <2>1. /\ g' \in Guest /\ g'.pc = "entry" /\ g'.stage = g.stage /\ g'.r6 = 0 /\ g'.r7 = EntriesPerSector
        /\ g'.r8 = g.r8 /\ g'.r9 = g.r9 /\ g'.r10 = g.r10 /\ g'.r12 = g.r12
    <3>1. 0 \in 0 .. EntriesPerSector /\ EntriesPerSector \in 0 .. EntriesPerSector
      BY Slots
    <3>2. g' = [g EXCEPT !.pc = "entry", !.r6 = 0, !.r7 = EntriesPerSector]
      BY <1>5 DEF Continue
    <3> QED BY <1>1, <3>1, <3>2 DEF Guest
  <2>2. UNCHANGED <<ram, clean, lba, count, status, data, mapped, image, shadow, asked>> /\ Present' = Present
    BY <1>5 DEF Continue, Local, diskVars, Present
  <2>3. Typed' /\ Window' /\ LoaderIntact'
    BY <2>1, <2>2 DEF IInv, Anyway, Typed, Window, LoaderIntact
  <2>4. Returns' /\ Counts'
    BY <1>1, <2>1, Slots DEF Returns, Counts, InPhase, Reading, Returned
  <2>5. ASSUME clean PROVE (Controller /\ Searching /\ Loading /\ Ending)'
    <3>1. g.r8 < Len(image) /\ ram[DirSlot] = image[g.r8 + 1]
      BY <1>1, <1>2, <1>5, <2>5, Slots DEF Controller, Returned
    <3>2. Position' = Position /\ Name' = Name
      BY <2>1, <2>2 DEF Position, Name
    <3>3. Searching'
      BY <1>3, <2>1, <2>2, <2>5, <3>1, <3>2 DEF Searching
    <3> QED BY <2>1, <3>3 DEF Controller, Loading, Ending, InPhase, Reading, Returned
  <2> QED BY <1>2, <2>2, <2>3, <2>4, <2>5 DEF IInv, Anyway, Undisturbed
<1> QED BY <1>4, <1>5 DEF Directory

-----------------------------------------------------------------------------
\* What an undisturbed loader knows of the entry it is at.
LEMMA AtEntry ==
  ASSUME IInv, g.pc = "entry", clean
  PROVE  /\ Present /\ GoodHeader(image) /\ image[1].n \in Nat /\ image[1].dir \in Nat
         /\ Position \in 0 .. image[1].n - 1 /\ g.r9 = image[1].n - Position
         /\ g.r6 = Position % EntriesPerSector
         /\ Position \div EntriesPerSector \in Nat
         /\ g.r8 = image[1].dir + (Position \div EntriesPerSector)
         /\ \A q \in 0 .. Position - 1 : InDirectory(image, q) /\ EntryAt(image, q).name # Name
         /\ InDirectory(image, Position)
         /\ g.r8 < Len(image) /\ ram[DirSlot] = image[g.r8 + 1]
         /\ ram[DirSlot].entries[g.r6] = EntryAt(image, Position)
<1>1. Present /\ Searching /\ Typed /\ g \in Guest /\ g.r9 # 0
  BY DEF IInv, Undisturbed, Waiting, Anyway, Typed, Counts
<1>2. image[1].dir \in Nat /\ image[1].n \in Nat
  BY <1>1, HeaderFacts, Slots
<1>3. /\ GoodHeader(image) /\ g.r9 <= image[1].n
      /\ g.r8 = image[1].dir + (Position \div EntriesPerSector)
      /\ \A q \in 0 .. Position - 1 : InDirectory(image, q) /\ EntryAt(image, q).name # Name
      /\ g.r6 = Position % EntriesPerSector
      /\ g.r8 < Len(image) /\ ram[DirSlot] = image[g.r8 + 1]
  BY <1>1 DEF Searching
<1>4. g.r9 \in Nat
  BY <1>1, Slots DEF Guest
<1>5. Position \in 0 .. image[1].n - 1 /\ Position \in Nat /\ g.r9 = image[1].n - Position
  BY <1>1, <1>2, <1>3, <1>4 DEF Position
<1>6. Position \div EntriesPerSector \in Nat
  BY <1>5, DivMod, Slots
<1>7. InDirectory(image, Position) /\ ram[DirSlot].entries[g.r6] = EntryAt(image, Position)
  BY <1>2, <1>3, <1>6 DEF InDirectory, EntryAt
<1> QED BY <1>1, <1>2, <1>3, <1>5, <1>6, <1>7

\* Where a loader looks in RAM there is an entry.
LEMMA EntryTyped ==
  ASSUME IInv, g.pc = "entry"
  PROVE  /\ g \in Guest /\ g.r6 \in 0 .. EntriesPerSector - 1
         /\ g.r7 \in 1 .. EntriesPerSector /\ g.r7 = EntriesPerSector - g.r6
         /\ g.r9 \in 1 .. Modulus - 1
         /\ ram[DirSlot].entries[g.r6].lba \in 0 .. Modulus - 1
         /\ ram[DirSlot].entries[g.r6].len \in 0 .. Modulus - 1
<1>1. /\ g \in Guest /\ g.r9 # 0 /\ g.r6 + g.r7 = EntriesPerSector /\ g.r7 # 0
      /\ ram \in [0 .. RamSectors - 1 -> Sector]
  BY DEF IInv, Anyway, Typed, Counts
<1>2. g.r6 \in 0 .. EntriesPerSector /\ g.r7 \in 0 .. EntriesPerSector /\ g.r9 \in 0 .. Modulus - 1
  BY <1>1 DEF Guest
<1>3. /\ g.r6 \in 0 .. EntriesPerSector - 1
      /\ g.r7 \in 1 .. EntriesPerSector /\ g.r7 = EntriesPerSector - g.r6
      /\ g.r9 \in 1 .. Modulus - 1
  BY <1>1, <1>2, Slots
<1>4. ram[DirSlot] \in Sector
  BY <1>1, Slots
<1> QED BY <1>1, <1>3, <1>4, EntryFacts

\* The sectors of a length are counted right, or the count begins with 0 and the
\* file is longer than any image.
LEMMA CountBegins ==
  ASSUME NEW len \in 1 .. Modulus - 1
  PROVE  /\ Sectors(len) \in 0 .. Modulus - 1 /\ WholeSectors(len) \in Nat
         /\ Left(len, 0, Sectors(len))
         /\ len + SectorBytes - 1 >= Modulus => Modulus \div SectorBytes <= WholeSectors(len)
<1> DEFINE x == len + SectorBytes - 1
<1>1. /\ x \in Nat /\ x >= SectorBytes /\ SectorBytes \in Nat \ {0} /\ Modulus \in Nat \ {0}
      /\ x <= Modulus + SectorBytes - 2
  BY Slots
<1>2. WholeSectors(len) = x \div SectorBytes /\ Sectors(len) = (x % Modulus) \div SectorBytes
  BY DEF WholeSectors, Sectors
<1> HIDE DEF x
<1>3. x \div SectorBytes \in Nat /\ SectorBytes \div SectorBytes <= x \div SectorBytes
  BY <1>1, DivMod, DivMonotone
<1>4. SectorBytes \div SectorBytes = 1
  BY <1>1
<1>5. x % Modulus \in 0 .. Modulus - 1
  BY <1>1, DivMod
<1>6. (x % Modulus) \div SectorBytes \in 0 .. Modulus - 1
  <2> DEFINE y == x % Modulus
  <2>1. y \in Nat /\ y < Modulus
    BY <1>1, <1>5
  <2> HIDE DEF y
  <2>2. y \div SectorBytes \in Nat /\ y \div SectorBytes <= y
    BY <1>1, <2>1
  <2>3. y \div SectorBytes \in 0 .. Modulus - 1
    BY <1>1, <2>1, <2>2
  <2> QED BY <2>3 DEF y
<1>7. CASE x < Modulus
  <2>1. x % Modulus = x
    BY <1>1, <1>7
  <2> QED BY <1>1, <1>2, <1>3, <1>4, <1>6, <1>7, <2>1 DEF Left, x
<1>8. CASE x >= Modulus
  <2>1. Modulus \div SectorBytes <= x \div SectorBytes
    BY <1>1, <1>8, DivMonotone
  <2> QED BY <1>1, <1>2, <1>3, <1>6, <1>8, <2>1 DEF Left, x
<1> QED BY <1>1, <1>7, <1>8

\* The entry sought is the first of its name, whatever its file is.
LEMMA FoundInv ==
  ASSUME IInv, g.pc = "entry", NEW e, e = ram[DirSlot].entries[g.r6], e.name = Name, Found(e)
  PROVE  IInv'
<1> DEFINE r == [g EXCEPT !.r8 = e.lba, !.r9 = Sectors(e.len), !.r10 = LoadSlot[g.stage]]
<1>1. g \in Guest /\ e.lba \in 0 .. Modulus - 1 /\ e.len \in 0 .. Modulus - 1
  BY EntryTyped
<1>2. e.lba \in Nat /\ e.len \in Nat
  BY <1>1, Slots
<1>3. ASSUME clean
      PROVE  Present /\ GoodHeader(image) /\ Hits(image, Name) # {} /\ File1 = e
  <2>1. /\ Present /\ GoodHeader(image) /\ image[1].n \in Nat
        /\ Position \in 0 .. image[1].n - 1 /\ InDirectory(image, Position)
        /\ \A q \in 0 .. Position - 1 : EntryAt(image, q).name # Name
        /\ e = EntryAt(image, Position)
    BY <1>3, AtEntry
  <2> QED BY <2>1, HitIsFirst DEF File1
<1>4. LoadSlot[g.stage] \in Nat
  BY <1>1, Slots DEF LoadSlot, Guest, Stages
<1>5. CASE e.len = 0 /\ Continue(Stop(g, "notfound"))
  <2>1. clean => Expected(image, Name) = "notfound"
    BY <1>3, <1>5, ExpectedOfGood DEF File1
  <2> QED BY <1>1, <1>3, <1>5, <2>1, StopInv
<1>6. CASE e.len # 0 /\ Continue(ReadSector(r, r.r8, r.r10, "file"))
  <2>1. e.len \in 1 .. Modulus - 1
    BY <1>1, <1>6, Slots
  <2>2. Sectors(e.len) \in 0 .. Modulus - 1 /\ Left(e.len, 0, Sectors(e.len))
    BY <2>1, CountBegins
  <2>3. /\ r \in Guest /\ r.stage = g.stage /\ r.r8 = e.lba /\ r.r9 = Sectors(e.len)
        /\ r.r10 = LoadSlot[g.stage]
    BY <1>1, <1>2, <1>4, <2>2 DEF Guest
  <2> HIDE DEF r
  <2>4. ASSUME clean PROVE Searching' /\ Loading'
    <3>1. /\ g'.pc = "lba" /\ g'.r12 = "file" /\ g'.r8 = e.lba /\ g'.r9 = Sectors(e.len)
          /\ g'.r10 = LoadSlot[g.stage] /\ g'.stage = g.stage /\ image' = image
      BY <1>6, <2>3 DEF Continue, ReadSector, Guest, Local, diskVars
    <3>2. Name' = Name /\ File1' = e /\ Sought'
      BY <1>2, <1>3, <2>1, <2>4, <3>1 DEF Name, File1, Sought
    <3>3. Got' = 0
      BY <1>2, <3>1, <3>2 DEF Got
    <3>4. Loading'
      <4>1. \A k : k = 0 => InPlace(k)'
        BY DEF InPlace
      <4>2. InPlace(Got)'
        BY <3>3 DEF InPlace
      <4>3. LoadSlot[g.stage] = LoadSlot[g.stage] + 0
        BY <1>4
      <4> QED BY <2>2, <3>1, <3>2, <3>3, <4>2, <4>3 DEF Loading
    <3> QED BY <3>1, <3>4 DEF Searching, InPhase
  <2>5. "file" \in Returned /\ r.r8 \in Nat /\ r.r10 \in Nat /\ LoadSlot[g.stage] <= r.r10
    BY <1>2, <1>4, <2>3 DEF Returned
  <2> QED BY <1>6, <2>3, <2>4, <2>5, ReadInv
<1> QED BY <1>5, <1>6 DEF Found

\* The entry is another: the next one of the sector or of the next sector, or
\* the count of entries is used up.
LEMMA NextEntryInv ==
  ASSUME IInv, g.pc = "entry", ram[DirSlot].entries[g.r6].name # Name, NextEntry
  PROVE  IInv'
<1> DEFINE r == [g EXCEPT !.r6 = g.r6 + 1, !.r9 = g.r9 - 1, !.r7 = g.r7 - 1]
<1>1. /\ g \in Guest /\ g.r6 \in 0 .. EntriesPerSector - 1 /\ g.r7 \in 1 .. EntriesPerSector
      /\ g.r7 = EntriesPerSector - g.r6 /\ g.r9 \in 1 .. Modulus - 1
      /\ EntriesPerSector \in Nat \ {0} /\ Modulus \in Nat \ {0} /\ g.r8 \in Nat
  BY EntryTyped, Slots DEF Guest
<1>2. /\ r \in Guest /\ r.stage = g.stage /\ r.pc = "entry" /\ r.r8 = g.r8 /\ r.r9 = g.r9 - 1
      /\ r.r6 = g.r6 + 1 /\ r.r7 = g.r7 - 1 /\ r.r10 = g.r10 /\ r.r12 = g.r12
  <2>1. g.r6 + 1 \in 0 .. EntriesPerSector /\ g.r7 - 1 \in 0 .. EntriesPerSector /\ g.r9 - 1 \in 0 .. Modulus - 1
    BY <1>1
  <2> QED BY <1>1, <2>1 DEF Guest
<1> HIDE DEF r
<1>3. ASSUME clean
      PROVE  /\ Present /\ GoodHeader(image) /\ image[1].n \in Nat /\ image[1].dir \in Nat
             /\ Position \in 0 .. image[1].n - 1 /\ g.r9 = image[1].n - Position
             /\ g.r6 = Position % EntriesPerSector /\ Position \div EntriesPerSector \in Nat
             /\ g.r8 = image[1].dir + (Position \div EntriesPerSector)
             /\ \A q \in 0 .. Position : InDirectory(image, q) /\ EntryAt(image, q).name # Name
             /\ g.r8 < Len(image) /\ ram[DirSlot] = image[g.r8 + 1]
  <2>1. /\ Present /\ GoodHeader(image) /\ image[1].n \in Nat /\ image[1].dir \in Nat
        /\ Position \in 0 .. image[1].n - 1 /\ g.r9 = image[1].n - Position
        /\ g.r6 = Position % EntriesPerSector /\ Position \div EntriesPerSector \in Nat
        /\ g.r8 = image[1].dir + (Position \div EntriesPerSector)
        /\ \A q \in 0 .. Position - 1 : InDirectory(image, q) /\ EntryAt(image, q).name # Name
        /\ InDirectory(image, Position) /\ EntryAt(image, Position).name # Name
        /\ g.r8 < Len(image) /\ ram[DirSlot] = image[g.r8 + 1]
    BY <1>3, AtEntry
  <2>2. \A q \in 0 .. Position : q \in 0 .. Position - 1 \/ q = Position
    BY <2>1
  <2> QED BY <2>1, <2>2
<1>4. CASE g.r9 = 1 /\ Continue(Stop(r, "notfound"))
  <2>1. ASSUME clean PROVE Expected(image, Name) = "notfound"
    <3>1. \A q \in 0 .. image[1].n - 1 : InDirectory(image, q) /\ EntryAt(image, q).name # Name
      <4>1. \A q \in 0 .. image[1].n - 1 : q \in 0 .. Position
        BY <1>3, <1>4, <2>1
      <4> QED BY <1>3, <2>1, <4>1
    <3>2. Hits(image, Name) = {}
      BY <3>1 DEF Hits
    <3> QED BY <1>3, <2>1, <3>1, <3>2, ExpectedOfGood
  <2> QED BY <1>2, <1>3, <1>4, <2>1, StopInv
<1>5. ASSUME clean, g.r9 # 1, g'.r9 = g.r9 - 1, UNCHANGED <<image, g.stage>>
      PROVE  /\ Position' = Position + 1 /\ GoodHeader(image)' /\ (g.r9 <= image[1].n)'
             /\ \A q \in 0 .. Position' - 1 : (InDirectory(image, q) /\ EntryAt(image, q).name # Name)'
  <2> DEFINE n == image[1].n
             k == g.r9
  <2>0. n \in Nat /\ k \in Nat /\ k <= n /\ k # 0 /\ Position = n - k /\ Position' = n - (k - 1) /\ g'.r9 = k - 1
    <3>1. n \in Nat /\ k \in Nat /\ k # 0 /\ Position \in 0 .. n - 1 /\ Position = n - k
      <4>1. Position = n - k
        BY DEF Position
      <4>2. n \in Nat /\ Position \in 0 .. n - 1
        BY <1>3, <1>5
      <4>3. k \in Nat /\ k # 0
        BY <1>1
      <4> QED BY <4>1, <4>2, <4>3
    <3>2. Position' = image'[1].n - g'.r9
      BY DEF Position
    <3>3. image'[1].n = n /\ g'.r9 = k - 1
      BY <1>5
    <3> HIDE DEF n, k
    <3> QED BY <3>1, <3>2, <3>3
  <2> HIDE DEF n, k
  <2>1. Position' = Position + 1 /\ Position \in Nat
    BY <2>0
  <2>2. \A q \in 0 .. Position' - 1 : q \in 0 .. Position
    BY <2>1
  <2>3. Name' = Name
    BY <1>5 DEF Name
  <2>4. g'.r9 <= image'[1].n
    <3>1. k - 1 <= n /\ image'[1].n = n
      BY <1>5, <2>0 DEF n
    <3> QED BY <2>0, <3>1
  <2> QED BY <1>3, <1>5, <2>1, <2>2, <2>3, <2>4
<1>6. CASE g.r9 # 1 /\ g.r7 # 1 /\ Continue(r)
  <2>1. /\ g' = r /\ UNCHANGED <<ram, clean, lba, count, status, data, mapped, image, shadow, asked>>
        /\ Present' = Present
    BY <1>6 DEF Continue, Local, diskVars, Present
  <2>2. Typed' /\ Window' /\ LoaderIntact'
    BY <1>2, <2>1 DEF IInv, Anyway, Typed, Window, LoaderIntact
  <2>3. Returns' /\ Counts'
    <3>1. g'.r9 # 0 /\ g'.r6 + g'.r7 = EntriesPerSector /\ g'.r7 # 0
      BY <1>1, <1>2, <1>6, <2>1
    <3> QED BY <1>2, <2>1, <3>1 DEF Returns, Counts, InPhase, Reading, Returned
  <2>4. ASSUME clean PROVE (Controller /\ Searching /\ Loading /\ Ending)'
    <3>1. /\ Position' = Position + 1 /\ GoodHeader(image)' /\ (g.r9 <= image[1].n)'
          /\ \A q \in 0 .. Position' - 1 : (InDirectory(image, q) /\ EntryAt(image, q).name # Name)'
      BY <1>2, <1>5, <1>6, <2>1, <2>4
    <3>0. g.r6 + 1 < EntriesPerSector
      BY <1>1, <1>6
    <3>2. (Position % EntriesPerSector) + 1 < EntriesPerSector /\ Position \in Nat
      BY <1>3, <2>4, <3>0
    <3>3. /\ (Position + 1) \div EntriesPerSector = Position \div EntriesPerSector
          /\ (Position + 1) % EntriesPerSector = (Position % EntriesPerSector) + 1
      BY <1>1, <3>2, DivNext
    <3>4. Searching'
      BY <1>2, <1>3, <2>1, <2>4, <3>1, <3>3 DEF Searching
    <3> QED BY <1>2, <2>1, <3>4 DEF Controller, Loading, Ending, InPhase, Reading, Returned
  <2> QED BY <1>3, <2>1, <2>2, <2>3, <2>4 DEF IInv, Anyway, Undisturbed
<1>7. CASE g.r9 # 1 /\ g.r7 = 1 /\ Continue(ReadDirectory([r EXCEPT !.r8 = g.r8 + 1]))
  <2> DEFINE s == [r EXCEPT !.r8 = g.r8 + 1]
  <2>1. s \in Guest /\ s.stage = g.stage /\ s.r8 = g.r8 + 1 /\ s.r9 = g.r9 - 1
    BY <1>1, <1>2 DEF Guest
  <2> HIDE DEF s
  <2>2. Continue(ReadSector(s, s.r8, DirSlot, "directory"))
    BY <1>7 DEF s, ReadDirectory
  <2>3. ASSUME clean PROVE Searching' /\ Loading'
    <3>1. /\ g'.pc = "lba" /\ g'.r12 = "directory" /\ g'.r8 = g.r8 + 1 /\ g'.r9 = g.r9 - 1
          /\ UNCHANGED <<image, g.stage>>
      BY <2>1, <2>2 DEF Continue, ReadSector, Guest, Local, diskVars
    <3>2. /\ Position' = Position + 1 /\ GoodHeader(image)' /\ (g.r9 <= image[1].n)'
          /\ \A q \in 0 .. Position' - 1 : (InDirectory(image, q) /\ EntryAt(image, q).name # Name)'
      BY <1>5, <1>7, <2>3, <3>1
    <3>3. (Position % EntriesPerSector) + 1 = EntriesPerSector /\ Position \in Nat
      <4>1. g.r6 + 1 = EntriesPerSector
        BY <1>1, <1>7
      <4> QED BY <1>3, <2>3, <4>1
    <3>4. /\ (Position + 1) \div EntriesPerSector = (Position \div EntriesPerSector) + 1
          /\ (Position + 1) % EntriesPerSector = 0
      BY <1>1, <3>3, DivNext
    <3>5. g'.r8 = image'[1].dir + (Position' \div EntriesPerSector)
      <4> DEFINE d == image[1].dir
                 q == Position \div EntriesPerSector
      <4>1. d \in Nat /\ q \in Nat /\ g'.r8 = (d + q) + 1 /\ image' = image
        BY <1>3, <2>3, <3>1
      <4>2. Position' \div EntriesPerSector = q + 1
        BY <3>2, <3>4
      <4>3. image'[1].dir = d
        BY <4>1
      <4> HIDE DEF d, q
      <4> QED BY <4>1, <4>2, <4>3
    <3> QED BY <3>1, <3>2, <3>4, <3>5 DEF Searching, Loading, InPhase
  <2>4. "directory" \in Returned /\ s.r8 \in Nat /\ s.r9 # 0
    BY <1>1, <1>7, <2>1 DEF Returned
  <2> QED BY <2>1, <2>2, <2>3, <2>4, ReadInv, Slots
<1> QED BY <1>4, <1>6, <1>7 DEF NextEntry, r

LEMMA EntryInv == ASSUME IInv, Entry PROVE IInv'
<1> DEFINE e == ram[DirSlot].entries[g.r6]
<1>1. g.pc = "entry" /\ ((e.name = Name /\ Found(e)) \/ (e.name # Name /\ NextEntry))
  BY DEF Entry, Name
<1>2. CASE e.name = Name /\ Found(e)
  BY <1>1, <1>2, FoundInv
<1>3. CASE e.name # Name /\ NextEntry
  BY <1>1, <1>3, NextEntryInv
<1> QED BY <1>1, <1>2, <1>3

-----------------------------------------------------------------------------
\* One sector less to read; the count is used up only where it did not wrap.
LEMMA CountDown ==
  ASSUME NEW len \in 1 .. Modulus - 1, NEW k \in Nat, k + 1 < Modulus,
         NEW left \in 0 .. Modulus - 1, Left(len, k, left),
         NEW next, next = (left + Modulus - 1) % Modulus
  PROVE  /\ next \in 0 .. Modulus - 1
         /\ next # 0 => Left(len, k + 1, next)
         /\ next = 0 => WholeSectors(len) = k + 1
<1>1. Modulus \in Nat \ {0} /\ WholeSectors(len) \in Nat
  BY CountBegins, Slots
<1>2. next \in 0 .. Modulus - 1
  BY <1>1
<1>3. left > 0 => next = left - 1
  <2> HAVE left > 0
  <2> DEFINE m == left - 1
  <2>1. left + Modulus - 1 = (Modulus * 1) + m /\ m \in 0 .. Modulus - 1
    BY <1>1
  <2> HIDE DEF m
  <2>2. ((Modulus * 1) + m) % Modulus = m
    BY ONLY <1>1, <2>1, 1 \in Nat, DivUnique
  <2>3. next = m
    BY ONLY <2>1, <2>2, next = (left + Modulus - 1) % Modulus
  <2> QED BY <2>3 DEF m
<1>4. left = 0 => next = Modulus - 1
  <2> HAVE left = 0
  <2>1. left + Modulus - 1 = (Modulus * 0) + (Modulus - 1) /\ Modulus - 1 \in 0 .. Modulus - 1
    BY <1>1
  <2> DEFINE m == Modulus - 1
  <2> HIDE DEF m
  <2>2. m \in 0 .. Modulus - 1 /\ left + Modulus - 1 = (Modulus * 0) + m
    BY <2>1 DEF m
  <2>3. ((Modulus * 0) + m) % Modulus = m
    BY ONLY <1>1, <2>2, 0 \in Nat, DivUnique
  <2>4. next = m
    BY ONLY <2>2, <2>3, next = (left + Modulus - 1) % Modulus
  <2> QED BY <2>4 DEF m
<1>5. CASE len + SectorBytes - 1 < Modulus
  <2>1. left = WholeSectors(len) - k /\ left > 0
    BY <1>5 DEF Left
  <2> QED BY <1>1, <1>2, <1>3, <1>5, <2>1 DEF Left
<1>6. CASE ~(len + SectorBytes - 1 < Modulus)
  <2>1. left = IF k = 0 THEN 0 ELSE Modulus - k
    BY <1>6 DEF Left
  <2>2. next = Modulus - (k + 1) /\ k + 1 # 0
    BY <1>1, <1>3, <1>4, <2>1
  <2>3. next # 0
    BY <1>1, <2>2
  <2> QED BY <1>2, <1>6, <2>2, <2>3 DEF Left
<1> QED BY <1>5, <1>6

\* What an undisturbed loader knows when a sector of its file was read.
LEMMA AtFile ==
  ASSUME IInv, g.pc = "file", clean
  PROVE  /\ Present /\ Sought /\ Got \in Nat /\ g.r8 = File1.lba + Got
         /\ LoadSlot[g.stage] \in Nat /\ g.r10 = LoadSlot[g.stage] + Got
         /\ Left(File1.len, Got, g.r9) /\ InPlace(Got)
         /\ Len(image) \in Nat /\ Len(image) < Modulus \div SectorBytes
         /\ g.r0 = 0 => g.r8 >= Len(image)
         /\ g.r0 # 0 => /\ g.r8 < Len(image)
                        /\ g.r10 < RamSectors => ram[g.r10] = image[g.r8 + 1]
<1>1. /\ Present /\ Controller /\ Loading /\ Typed /\ g \in Guest /\ g.r12 = "file" /\ g.r1 = g.r10
      /\ InPhase("file") /\ Wanted = g.r8
  BY DEF IInv, Undisturbed, Waiting, Anyway, Typed, Returns, Returned, Reading, Place, InPhase, Wanted
<1>2. /\ Sought /\ Got \in Nat /\ g.r10 = LoadSlot[g.stage] + Got
      /\ Left(File1.len, Got, g.r9) /\ InPlace(Got)
  BY <1>1 DEF Loading
<1>3. Len(image) \in Nat /\ Len(image) < Modulus \div SectorBytes
  BY <1>1, ImageFacts
<1>4. LoadSlot[g.stage] \in Nat
  BY <1>1, Slots DEF LoadSlot, Guest, Stages
<1>5. g.r8 = File1.lba + Got
  <2> DEFINE l == File1.lba
  <2>1. l \in Nat /\ g.r8 \in Nat /\ Got = g.r8 - l
    BY <1>1, <1>2 DEF Sought, Got, Guest
  <2> HIDE DEF l
  <2>2. g.r8 = l + Got
    BY <2>1
  <2> QED BY <2>2 DEF l
<1>6. /\ g.r0 = 0 => g.r8 >= Len(image)
      /\ g.r0 # 0 => /\ g.r8 < Len(image)
                     /\ g.r10 < RamSectors => ram[g.r10] = image[g.r8 + 1]
  BY <1>1 DEF Controller, Returned
<1> QED BY <1>1, <1>2, <1>3, <1>4, <1>5, <1>6

\* A sector of the file is in its place, or the file does not fit the image.
LEMMA FileInv == ASSUME IInv, File PROVE IInv'
<1> DEFINE next == (g.r9 + Modulus - 1) % Modulus
           r == [g EXCEPT !.r8 = g.r8 + 1, !.r10 = g.r10 + 1, !.r9 = next]
<1>1. /\ g.pc = "file" /\ g \in Guest /\ g.r8 \in Nat /\ g.r10 \in Nat /\ g.r9 \in 0 .. Modulus - 1
      /\ LoadSlot[g.stage] \in Nat /\ LoadSlot[g.stage] <= g.r10
  <2>1. g.pc = "file" /\ g \in Guest /\ g.r12 = "file" /\ LoadSlot[g.stage] <= g.r10
    BY DEF File, IInv, Anyway, Typed, Returns, Returned, Counts, InPhase
  <2> QED BY <2>1, Slots DEF Guest, LoadSlot, Stages
<1>2. next \in 0 .. Modulus - 1
  <2>1. g.r9 + Modulus - 1 \in Nat /\ Modulus \in Nat \ {0}
    BY <1>1, Slots
  <2> QED BY <2>1, DivMod
<1> HIDE DEF next
<1>3. /\ r \in Guest /\ r.stage = g.stage /\ r.r8 = g.r8 + 1 /\ r.r9 = next /\ r.r10 = g.r10 + 1
      /\ r.r12 = g.r12
  <2>1. g.r8 + 1 \in Nat /\ g.r10 + 1 \in Nat
    BY <1>1
  <2> QED BY <1>1, <1>2, <2>1 DEF Guest
<1> HIDE DEF r
<1>4. CASE g.r0 = 0 /\ Continue(Stop(g, "disk"))
  <2>1. ASSUME clean PROVE Present /\ Expected(image, Name) = "disk"
    <3> DEFINE whole == WholeSectors(File1.len)
               l == File1.lba
    <3>1. /\ Present /\ Sought /\ Got \in Nat /\ g.r8 = l + Got
          /\ Left(File1.len, Got, g.r9) /\ Len(image) \in Nat
          /\ Len(image) < Modulus \div SectorBytes /\ g.r8 >= Len(image)
      BY <1>1, <1>4, <2>1, AtFile
    <3>2. l \in Nat /\ File1.len \in 1 .. Modulus - 1
      BY <3>1 DEF Sought
    <3>3. whole \in Nat /\ (File1.len + SectorBytes - 1 >= Modulus => Modulus \div SectorBytes <= whole)
      BY <3>2, CountBegins
    <3>4. Modulus \div SectorBytes \in Nat
      BY Slots, DivMod
    <3>5. CASE File1.len + SectorBytes - 1 < Modulus
      <4>1. g.r9 = whole - Got /\ g.r9 > 0
        BY <3>1, <3>5 DEF Left
      <4> HIDE DEF whole, l
      <4>2. l + whole > Len(image)
        BY <1>1, <3>1, <3>2, <3>3, <4>1
      <4> QED BY <3>1, <3>2, <4>2, <3>3, ExpectedOfGood DEF whole, l, Sought, File1
    <3>6. CASE File1.len + SectorBytes - 1 >= Modulus
      <4> HIDE DEF whole, l
      <4>1. l + whole > Len(image)
        BY <3>1, <3>2, <3>3, <3>4, <3>6
      <4> QED BY <3>1, <3>2, <4>1, <3>3, ExpectedOfGood DEF whole, l, Sought, File1
    <3>7. File1.len + SectorBytes - 1 \in Nat /\ Modulus \in Nat
      BY <3>2, Slots
    <3> QED BY <3>5, <3>6, <3>7
  <2> QED BY <1>1, <1>4, <2>1, StopInv
\* In the sector's place is the image's sector: one more of the file.
<1>5. ASSUME clean, g.r0 # 0
      PROVE  /\ Present /\ Sought /\ Got + 1 \in Nat /\ g.r8 + 1 = File1.lba + (Got + 1)
             /\ g.r8 + 1 <= Len(image) /\ g.r10 + 1 = LoadSlot[g.stage] + (Got + 1)
             /\ InPlace(Got + 1)
             /\ next # 0 => Left(File1.len, Got + 1, next)
             /\ next = 0 => WholeSectors(File1.len) = Got + 1
  <2> DEFINE l == File1.lba
             slot == LoadSlot[g.stage]
             k == Got
  <2>1. /\ Present /\ Sought /\ k \in Nat /\ g.r8 = l + k /\ slot \in Nat /\ g.r10 = slot + k
        /\ Left(File1.len, k, g.r9) /\ InPlace(k)
        /\ Len(image) \in Nat /\ Len(image) < Modulus \div SectorBytes /\ g.r8 < Len(image)
        /\ g.r10 < RamSectors => ram[g.r10] = image[g.r8 + 1]
    BY <1>1, <1>5, AtFile
  <2>2. l \in Nat /\ File1.len \in 1 .. Modulus - 1
    BY <2>1 DEF Sought
  <2>3. InPlace(k + 1)
    <3> SUFFICES ASSUME NEW i \in 0 .. (k + 1) - 1, slot + i < RamSectors
                 PROVE  ram[slot + i] = image[l + i + 1]
      BY DEF InPlace
    <3>1. CASE i = k
      BY <2>1, <3>1
    <3>2. CASE i # k
      <4>1. i \in 0 .. k - 1
        <5> HIDE DEF k
        <5> QED BY <2>1, <3>2
      <4> QED BY <2>1, <4>1 DEF InPlace
    <3> QED BY <3>1, <3>2
  <2> HIDE DEF l, slot, k
  <2>4. k + 1 < Modulus
    <3>1. Modulus \div SectorBytes \in Nat /\ Modulus \div SectorBytes <= Modulus
      BY Slots
    <3> QED BY <2>1, <2>2, <3>1, Slots
  <2>5. /\ next # 0 => Left(File1.len, k + 1, next)
        /\ next = 0 => WholeSectors(File1.len) = k + 1
    BY <1>1, <2>1, <2>2, <2>4, CountDown DEF next
  <2>6. k + 1 \in Nat /\ g.r8 + 1 = l + (k + 1) /\ g.r8 + 1 <= Len(image) /\ g.r10 + 1 = slot + (k + 1)
    BY <1>1, <2>1, <2>2
  <2> QED BY <2>1, <2>3, <2>5, <2>6 DEF l, slot, k
<1>6. CASE g.r0 # 0 /\ next # 0 /\ Continue(ReadSector(r, r.r8, r.r10, "file"))
  <2>1. ASSUME clean PROVE Searching' /\ Loading'
    <3> DEFINE k == Got + 1
    <3>1. /\ g'.pc = "lba" /\ g'.r12 = "file" /\ g'.r8 = g.r8 + 1 /\ g'.r9 = next
          /\ g'.r10 = g.r10 + 1 /\ g'.stage = g.stage /\ UNCHANGED <<image, ram>>
      BY <1>3, <1>6 DEF Continue, ReadSector, Guest, Local, diskVars
    <3>2. /\ Sought /\ k \in Nat /\ g.r8 + 1 = File1.lba + k /\ g.r8 + 1 <= Len(image)
          /\ g.r10 + 1 = LoadSlot[g.stage] + k /\ InPlace(k) /\ Left(File1.len, k, next)
      BY <1>5, <1>6, <2>1
    <3>3. Name' = Name /\ File1' = File1 /\ Sought' = Sought /\ \A j : InPlace(j)' = InPlace(j)
      BY <3>1 DEF Name, File1, Sought, InPlace
    <3> HIDE DEF k
    <3>4. Got' = k
      <4> DEFINE l == File1.lba
      <4>1. l \in Nat /\ Got' = g'.r8 - l
        BY <3>2, <3>3 DEF Got, Sought
      <4>2. g'.r8 = l + k
        BY <3>1, <3>2
      <4> HIDE DEF l
      <4> QED BY <3>2, <4>1, <4>2
    <3>5. InPlace(Got)'
      BY <3>1, <3>2, <3>3, <3>4 DEF InPlace
    <3> QED BY <3>1, <3>2, <3>3, <3>4, <3>5 DEF Searching, Loading, InPhase
  <2>2. "file" \in Returned /\ r.r8 \in Nat /\ r.r10 \in Nat /\ LoadSlot[g.stage] <= r.r10
    <3>1. LoadSlot[g.stage] <= g.r10 + 1
      BY <1>1
    <3> QED BY <1>1, <1>3, <3>1 DEF Returned
  <2> QED BY <1>3, <1>6, <2>1, <2>2, ReadInv
<1>7. CASE g.r0 # 0 /\ next = 0 /\ Continue([r EXCEPT !.pc = "handoff"])
  <2>1. /\ g' = [r EXCEPT !.pc = "handoff"] /\ Present' = Present
        /\ UNCHANGED <<ram, clean, lba, count, status, data, mapped, image, shadow, asked>>
    BY <1>7 DEF Continue, Local, diskVars, Present
  <2>2. g' \in Guest /\ g'.pc = "handoff" /\ g'.stage = g.stage
    BY <1>3, <2>1 DEF Guest
  <2>3. Anyway'
    BY <2>1, <2>2
    DEF IInv, Anyway, Typed, Window, Returns, Counts, LoaderIntact, InPhase, Reading, Returned
  <2>4. ASSUME clean PROVE Present /\ Ending'
    <3>1. /\ Present /\ Sought /\ Got + 1 \in Nat /\ g.r8 + 1 = File1.lba + (Got + 1)
          /\ g.r8 + 1 <= Len(image) /\ InPlace(Got + 1) /\ WholeSectors(File1.len) = Got + 1
      BY <1>5, <1>7, <2>4
    <3>2. Expected(image, Name) = "none"
      <4>1. Hits(image, Name) # {} /\ File1.len # 0 /\ GoodHeader(image)
        BY <3>1, Slots DEF Sought
      <4> QED BY <3>1, <4>1, ExpectedOfGood DEF File1
    <3>3. Name' = Name /\ File1' = File1 /\ Sought' = Sought
      BY <2>1, <2>2 DEF Name, File1, Sought
    <3>4. InPlace(WholeSectors(File1.len))'
      BY <2>1, <2>2, <3>1, <3>3 DEF InPlace
    <3> QED BY <2>1, <2>2, <3>1, <3>2, <3>3, <3>4 DEF Ending
  <2>5. Undisturbed'
    BY <2>1, <2>2, <2>4
    DEF Undisturbed, Controller, Searching, Loading, InPhase, Reading, Returned
  <2> QED BY <2>3, <2>5 DEF IInv
<1> QED BY <1>4, <1>6, <1>7 DEF File, r, next

\* boot.s takes over from bios.s, or a loader leaves for what it loaded.
LEMMA HandoffInv == ASSUME IInv, Handoff PROVE IInv'
<1>1. /\ g.pc = "handoff" /\ g \in Guest
      /\ UNCHANGED <<ram, clean, lba, count, status, data, mapped, image, shadow, asked>>
      /\ Present' = Present
  BY DEF Handoff, Continue, Local, diskVars, Present, IInv, Anyway, Typed
<1>2. clean => Present
  BY <1>1 DEF IInv, Undisturbed, Waiting
<1>3. CASE /\ g.stage = "bios" /\ ram[BootSlot] = BootCode
           /\ g' = [StartOf("boot") EXCEPT !.r8 = g.r8, !.r9 = g.r9, !.r10 = g.r10,
                                           !.r6 = g.r6, !.r7 = g.r7, !.r12 = g.r12]
  <2>1. /\ g' \in Guest /\ g'.pc = "start" /\ g'.stage = "boot"
    BY <1>1, <1>3 DEF Guest, StartOf, Stages
  <2>2. Anyway'
    BY <1>1, <1>3, <2>1
    DEF IInv, Anyway, Typed, Window, Returns, Counts, LoaderIntact, InPhase, Reading, Returned
  <2>3. Undisturbed'
    BY <1>1, <1>2, <2>1
    DEF Undisturbed, Controller, Searching, Loading, Ending, InPhase, Reading, Returned
  <2> QED BY <2>2, <2>3 DEF IInv
<1>4. CASE g' = [g EXCEPT !.pc = "left"]
  <2>1. g' \in Guest /\ g'.pc = "left" /\ g'.stage = g.stage
    BY <1>1, <1>4 DEF Guest
  <2>2. Anyway'
    BY <1>1, <2>1
    DEF IInv, Anyway, Typed, Window, Returns, Counts, LoaderIntact, InPhase, Reading, Returned
  <2>3. Undisturbed'
    BY <1>1, <1>2, <2>1
    DEF Undisturbed, Controller, Searching, Loading, Ending, InPhase, Reading, Returned
  <2> QED BY <2>2, <2>3 DEF IInv
<1> QED BY <1>3, <1>4 DEF Handoff, Continue

-----------------------------------------------------------------------------
\* The host: an attach that fails changes at most a controller no one has used;
\* one that succeeds ends what is known of the boot, or comes before it.
LEMMA HostAttachInv == ASSUME IInv, NEW file \in Files, HostAttach(file) PROVE IInv'
<1>1. /\ UNCHANGED <<g, ram, shadow>> /\ mapped' = TRUE
      /\ image' = IF file = <<>> THEN image ELSE file
      /\ mapped => UNCHANGED <<lba, status, data>>
      /\ ~mapped => lba' = 0 /\ data' = ZeroSector
      /\ clean' = (clean /\ (image' = image \/ g.pc = "start"))
      /\ mapped \/ ~mapped
  BY DEF HostAttach, Attach
<1>2. image' \in (Files \ {<<>>}) \union {NoImage} /\ lba' \in Nat /\ data' \in Sector
      /\ clean' \in BOOLEAN
  BY <1>1, Slots DEF IInv, Anyway, Typed
<1>3. Typed' /\ Window'
  BY <1>1, <1>2 DEF IInv, Anyway, Typed, Window
<1>4. Returns' /\ Counts' /\ LoaderIntact'
  BY <1>1 DEF IInv, Anyway, Returns, Counts, LoaderIntact, InPhase, Place
<1>5. ASSUME clean', image' = image, Present PROVE (Controller /\ Searching /\ Loading /\ Ending)'
  <2>1. mapped /\ clean
    BY <1>1, <1>5 DEF IInv, Anyway, Window
  <2>2. Controller /\ Searching /\ Loading /\ Ending
    BY <1>5, <2>1 DEF IInv, Undisturbed
  <2>3. UNCHANGED <<g, ram, image, lba, status, data>>
    BY <1>1, <1>5, <2>1
  <2> QED BY <2>2, <2>3
      DEF Controller, Searching, Loading, Ending, Wanted, InPhase, Position, Name, Sought, Got, InPlace, File1
<1>6. ASSUME clean', image' = image, ~Present PROVE Waiting'
  BY <1>1, <1>6 DEF IInv, Undisturbed, Waiting
<1>7. ASSUME clean', image' # image PROVE Present' /\ (Controller /\ Searching /\ Loading /\ Ending)'
  <2>1. g'.pc = "start"
    BY <1>1, <1>7
  <2>2. Present'
    BY <1>1, <1>7, FilesAssumption DEF Present
  <2> QED BY <2>1, <2>2 DEF Controller, Searching, Loading, Ending, InPhase, Reading, Returned
<1>8. image' = image => Present' = Present
  BY DEF Present
<1>9. Undisturbed'
  <2> SUFFICES ASSUME clean' PROVE (IF Present THEN Controller /\ Searching /\ Loading /\ Ending ELSE Waiting)'
    BY DEF Undisturbed
  <2>1. CASE image' # image
    BY <1>7, <2>1
  <2>2. CASE image' = image /\ Present
    BY <1>5, <1>8, <2>2
  <2>3. CASE image' = image /\ ~Present
    BY <1>6, <1>8, <2>3
  <2> QED BY <2>1, <2>2, <2>3
<1> QED BY <1>3, <1>4, <1>9 DEF IInv, Anyway

\* A machine that is prepared starts with its loader in place.
LEMMA HostPrepareInv == ASSUME IInv, NEW stage \in Stages, HostPrepare(stage) PROVE IInv'
<1>1. /\ g' = StartOf(stage) /\ clean' = TRUE
      /\ ram' = [ram EXCEPT ![0] = BiosCode,
                            ![BootSlot] = IF stage = "boot" THEN BootCode ELSE ram[BootSlot]]
      /\ UNCHANGED <<lba, data, mapped, image, shadow>>
  BY DEF HostPrepare, diskVars
<1>2. g' \in Guest /\ g'.pc = "start" /\ g'.stage = stage
  BY <1>1, Slots DEF StartOf, Guest
<1>3. 0 \in 0 .. RamSectors - 1 /\ BootSlot \in 0 .. RamSectors - 1 /\ BootSlot # 0
  BY Slots
<1>4. /\ ram' \in [0 .. RamSectors - 1 -> Sector] /\ ram'[0] = BiosCode
      /\ stage = "boot" => ram'[BootSlot] = BootCode
  BY <1>1, <1>3, Slots DEF IInv, Anyway, Typed
<1>5. Present' = Present
  BY <1>1 DEF Present
<1>6. Anyway'
  BY <1>1, <1>2, <1>4, <1>5
  DEF IInv, Anyway, Typed, Window, Returns, Counts, LoaderIntact, InPhase, Reading, Returned
<1>7. Undisturbed'
  BY <1>1, <1>2
  DEF Undisturbed, Controller, Searching, Loading, Ending, Waiting, InPhase, Reading, Returned
<1> QED BY <1>6, <1>7 DEF IInv

-----------------------------------------------------------------------------
LEMMA InitInv == Init => IInv
<1> SUFFICES ASSUME Init PROVE IInv
  OBVIOUS
<1>1. /\ g = StartOf("bios") /\ ram = [BlankRam EXCEPT ![0] = BiosCode] /\ clean = TRUE
      /\ lba = 0 /\ data = ZeroSector /\ mapped = FALSE /\ image = NoImage
      /\ shadow = [r \in Reg |-> 0]
  BY DEF Init, DiskInit
<1>2. g \in Guest /\ g.pc = "start" /\ g.stage = "bios"
  BY <1>1, Slots DEF StartOf, Guest, Stages
<1>3. ram \in [0 .. RamSectors - 1 -> Sector] /\ ram[0] = BiosCode
  BY <1>1, Slots DEF BlankRam
<1>4. Anyway
  BY <1>1, <1>2, <1>3, Slots
  DEF Anyway, Typed, Window, Returns, Counts, LoaderIntact, InPhase, Reading, Returned, Reg, Present
<1>5. Undisturbed
  BY <1>1, <1>2 DEF Undisturbed, Waiting, Present
<1> QED BY <1>4, <1>5 DEF IInv

LEMMA NextInv == IInv /\ [Next]_vars => IInv'
<1> SUFFICES ASSUME IInv, [Next]_vars PROVE IInv'
  OBVIOUS
<1>1. CASE GuestStep
  BY <1>1, StartInv, StoreLbaInv, StoreCountInv, StoreCmdInv, PollInv, CopyInv, HeaderInv,
     DirectoryInv, EntryInv, FileInv, HandoffInv DEF GuestStep
<1>2. CASE \E file \in Files : HostAttach(file)
  BY <1>2, HostAttachInv
<1>3. CASE \E stage \in Stages : HostPrepare(stage)
  BY <1>3, HostPrepareInv
<1>4. CASE UNCHANGED vars
  BY <1>4
  DEF vars, diskVars, IInv, Anyway, Typed, Window, Returns, Counts, LoaderIntact, Undisturbed, Present,
      Controller, Searching, Loading, Ending, Waiting, Wanted, Place, InPhase, Position, Name, Sought, Got,
      InPlace, File1
<1> QED BY <1>1, <1>2, <1>3, <1>4 DEF Next

LEMMA InvHolds == Spec => []IInv
BY InitInv, NextInv, PTL DEF Spec

-----------------------------------------------------------------------------
\* The loaders' registers and RAM stay well-formed (bios.s, boot.s): the index in
\* the directory's sector and what is left of it never pass its entries, and a
\* count of entries that is used up is never looked at again.
THEOREM TypeCorrect == Spec => []TypeOK
<1>1. IInv => TypeOK
  BY DEF IInv, Anyway, Typed, Guest, Counts, TypeOK, Reading, Returned
<1> QED BY <1>1, InvHolds, PTL

\* With one image from start to end a loader stops with the error the image calls
\* for and jumps only to a file that is there (bios.s:100-270, boot.s): whatever
\* the controller and RAM held from before, however a directory ends and however
\* the count of sectors wraps.
THEOREM EndsAsImageSays == Spec => []OutcomeIsExpected
<1>1. IInv => OutcomeIsExpected
  BY DEF IInv, Undisturbed, Ending, Name, OutcomeIsExpected, Present
<1> QED BY <1>1, InvHolds, PTL

\* What a loader jumps to is the file, every sector of it that RAM has a place
\* for, and no loader overwrites itself, also when the host swaps images under it.
THEOREM FileInPlace == Spec => []LoadedInPlace
<1>1. IInv => WholeFileLoaded
  <2> SUFFICES ASSUME IInv, clean, g.pc = "handoff" PROVE WholeFileLoaded
    BY DEF WholeFileLoaded
  <2>1. InPlace(WholeSectors(File1.len))
    BY DEF IInv, Undisturbed, Ending, Waiting
  <2> QED BY <2>1 DEF InPlace, File1, Name, WholeFileLoaded
<1>2. IInv => LoaderIntact
  BY DEF IInv, Anyway
<1> QED BY <1>1, <1>2, InvHolds, PTL DEF LoadedInPlace
=============================================================================
