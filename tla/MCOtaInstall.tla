---------------------------- MODULE MCOtaInstall ----------------------------
(***************************************************************************)
(* Instances of OtaInstall for TLC: one package and one phone for each     *)
(* branch of fcore.sh, sizes in units small enough to meet both sides of   *)
(* the size check.                                                         *)
(***************************************************************************)
EXTENDS OtaInstall

MCIds == {"A", "B", "C", "R", "P", "U"}

Zip(id, device, loc, tools, files, cleanup) ==
  [id |-> id, device |-> device, loc |-> loc, tools |-> tools,
   files |-> files, cleanuponabort |-> cleanup]

(* A: what akb packs today; B: every wrapper, no kernel, stays on abort;   *)
(* C: ELF and AVB; R: Rockchip; P: PXA; U: U-Boot.                         *)
ZipA == Zip("A", "plain", "/dev/boot", {}, {"kernel"}, TRUE)
ZipB == Zip("B", "plain", "/dev/boot", {"nand", "futility", "blobpack", "dhtbsign"},
            {"dtb", "dtbo"}, FALSE)
ZipC == Zip("C", "sony", "/dev/boot", {"unpackelf", "elftool", "avb"}, {"kernel", "dtbo"}, FALSE)
ZipR == Zip("R", "rock", "/dev/boot", {"rkcrc"}, {"ramdisk"}, TRUE)
ZipP == Zip("P", "marvell", "/dev/boot", {"pxa-unpackbootimg", "pxa-mkbootimg", "mkmtkhdr", "avb"},
            {"kernel", "ramdisk"}, FALSE)
ZipU == Zip("U", "uboot", "/dev/boot", {"dumpimage", "mkimage"}, {"kernel"}, TRUE)
ZipX == Zip("A", "plain", "/dev/nowhere", {}, {"kernel"}, TRUE)

ZipD == Zip("A", "plain", "/dev/boot", {}, {"kernel", "dtbo"}, TRUE)

AllZips == {ZipA, ZipB, ZipC, ZipD, ZipR, ZipP, ZipU, ZipX}

Phone(name, fmt, size, nookoff, dtbosize) ==
  [name |-> name, block |-> "/dev/boot", fmt |-> fmt, size |-> size,
   nookoff |-> nookoff, dtb |-> FALSE, tag |-> FALSE, signed |-> FALSE,
   dtbosize |-> dtbosize, mountable |-> {"system", "vendor", "data"},
   sar |-> FALSE, script |-> FALSE]

Plain == Phone("plain", "android", 12, 0, 2)
Samsung == [Plain EXCEPT !.name = "samsung", !.tag = TRUE, !.signed = TRUE,
                         !.sar = TRUE, !.script = TRUE, !.dtbosize = 1]
Tight == Phone("tight", "android", 9, 0, 0)
Nook == Phone("nook", "android", 14, 4, 0)
BigNook == [Phone("bignook", "android", 20, 4, 0) EXCEPT !.dtb = TRUE]
Sony == [Phone("sony", "elf", 12, 0, 2) EXCEPT !.dtb = TRUE, !.signed = TRUE,
                                               !.mountable = {"system"}]
Rock == Phone("rock", "rk", 12, 0, 0)
Marvell == [Phone("marvell", "pxa", 12, 0, 0) EXCEPT !.signed = TRUE, !.sar = TRUE]
UBoot == Phone("uboot", "uimage", 12, 0, 0)

AllPhones == {Plain, Samsung, Tight, Nook, BigNook, Sony, Rock, Marvell, UBoot}

MCKernelSize == [s \in Sources |-> IF s \in {"A", "Bad"} THEN 6 ELSE IF s = "P" THEN 7 ELSE 5]
MCRamdiskSize == [s \in Sources |-> 3]
MCDtboSize == [s \in Sources |-> IF s = "C" THEN 2 ELSE 1]
MCPlainDtb == {"Stock"}

JustA == {ZipA}
JustPlain == {Plain}
=============================================================================
