------------------------- MODULE MCSimpleFlatLoader -------------------------
(***************************************************************************)
(* Two entries to a sector, two bytes to a sector, five-bit registers.     *)
(* RAM: 0 BIOS, 1-2 BOOT, 3-4 MONITOR, 5 header, 6 directory; stores from  *)
(* 7 on are dropped.  One image for every way a search can end, at every   *)
(* boundary: a directory of one and of two sectors, ended by its count or  *)
(* by the disk; files of no bytes, of half a sector, past the disk, longer *)
(* than the gap to the buffers, and of a length whose rounding wraps.      *)
(***************************************************************************)
EXTENDS SimpleFlatLoader

Entries(a, b) == [i \in 0 .. 1 |-> IF i = 0 THEN a ELSE b]
NoEntry  == [name |-> "", lba |-> 0, len |-> 0]
OtherFile == [name |-> "HELLO.BIN", lba |-> 1, len |-> 1]
Boot(l, n)    == [name |-> "BOOT.BIN", lba |-> l, len |-> n]
Monitor(l, n) == [name |-> "MONITOR.BIN", lba |-> l, len |-> n]

Plain(id) == [id |-> id, magic |-> FALSE, sectorSize |-> FALSE, entrySize |-> FALSE,
              dir |-> 0, n |-> 0, entries |-> Entries(NoEntry, NoEntry)]
Hdr(d, n) == [Plain("header") EXCEPT !.magic = TRUE, !.sectorSize = TRUE,
                                     !.entrySize = TRUE, !.dir = d, !.n = n]
Dir(a, b) == [Plain("dir") EXCEPT !.entries = Entries(a, b)]

Zero == Plain("zero")
Bios == Plain("bios")
Bcode == Plain("boot")
F1 == Plain("f1")
F2 == Plain("f2")
F3 == Plain("f3")

Good       == <<Hdr(1, 2), Dir(Boot(2, 3), Monitor(4, 2)), Bcode, F1, F2>>
TwoSectors == <<Hdr(1, 4), Dir(OtherFile, OtherFile), Dir(OtherFile, Boot(3, 1)), Bcode>>
CutShort   == <<Hdr(1, 1), Dir(OtherFile, Boot(2, 1)), Bcode>>
DirPastEnd == <<Hdr(1, 5), Dir(OtherFile, OtherFile)>>
BadMagic   == <<[Hdr(1, 2) EXCEPT !.magic = FALSE], Dir(Boot(2, 1), NoEntry), Bcode>>
BadSize    == <<[Hdr(1, 2) EXCEPT !.sectorSize = FALSE], Dir(Boot(2, 1), NoEntry), Bcode>>
NoDir      == <<Hdr(0, 2)>>
Empty      == <<[Hdr(1, 0) EXCEPT !.entrySize = FALSE], Dir(Boot(2, 1), NoEntry), Bcode>>
BadEntry   == <<[Hdr(1, 2) EXCEPT !.entrySize = FALSE], Dir(Boot(2, 1), NoEntry), Bcode>>
ZeroLength == <<Hdr(1, 2), Dir(Boot(2, 0), Monitor(2, 2)), Bcode>>
Wrapping   == <<Hdr(1, 2), Dir(Boot(2, 31), Monitor(2, 2)), Bcode>>
PastEnd    == <<Hdr(1, 2), Dir(Boot(2, 2), Monitor(3, 4)), Bcode, F1>>
BigBoot    == <<Hdr(1, 2), Dir(Boot(2, 14), Monitor(8, 2)), Bcode, F1, F2, F3, F1, F2, F3>>
OtherBoot  == <<Hdr(1, 2), Dir(Boot(2, 4), Boot(1, 2)), F1, F2>>

BootImages == {<<>>, Good, TwoSectors, CutShort, DirPastEnd, BadMagic, BadSize, NoDir,
               Empty, BadEntry, ZeroLength, Wrapping, PastEnd, BigBoot, OtherBoot}
Content(img) == {img[i] : i \in 1 .. Len(img)}
AllSectors == {Zero, Bios, Bcode} \cup UNION {Content(img) : img \in BootImages}
=============================================================================
