----------------------------- MODULE OtaInstall -----------------------------
(***************************************************************************)
(* The over-the-air installer that akb puts into a kernel zip:             *)
(* update-binary (run by the recovery), flashme.sh and the two functions   *)
(* split_boot and flash_boot of fcore.sh.  One attempt unzips the package, *)
(* dumps the boot partition, splits the dumped image, repacks it with the  *)
(* package's kernel, signs and wraps it, compares sizes, erases the        *)
(* partition and writes it; then the same for dtbo.                        *)
(*                                                                         *)
(* Contents are abstracted to their source: the stock device, a package,   *)
(* Bad (damaged) or None (absent).  Sizes are kept, because the installer  *)
(* decides on them.  The shell runs one command after the other; what may  *)
(* go wrong between two commands is the environment's choice: a tool fails *)
(* (ToolFaults), a medium fails or the power is cut (MediaFaults).  The    *)
(* small commands of the recovery (strings, grep, printf, mv, rm) work.    *)
(***************************************************************************)
EXTENDS Naturals

CONSTANTS
  Ids,              \* identities of packages
  Packages,         \* the zips that may be flashed
  Devices,          \* the phones they may be flashed on
  Stock, Bad, None, \* sources that are not a package
  KernelSize,       \* KernelSize[s]: size of the kernel that came from s
  RamdiskSize,      \* RamdiskSize[s]: size of everything else in the image
  DtboSize,         \* DtboSize[s]: size of the dtbo image that came from s
  PlainDtb,         \* sources whose dtb is neither QCDT nor ELF
  WrapSize,         \* bytes a signing tool adds
  TagSize,          \* length of SEANDROIDENFORCE
  PatchSize,        \* bytes the user's own script may add
  RkHeader, RkCrc,  \* bytes before and after the ramdisk in a Rockchip image
  MediaFaults,      \* TRUE: reads and writes may fail, the power may be cut
  ToolFaults,       \* TRUE: a tool of the package may fail
  MaxAttempts       \* bound on the number of times a zip is flashed

Sources == Ids \cup {Stock, Bad, None}

(* Files of the package root that fcore.sh looks for.                      *)
Roles == {"kernel", "ramdisk", "dtb", "dtbo"}

Tools == {"nand", "unpackelf", "elftool", "dumpimage", "mkimage", "rkcrc",
          "pxa-unpackbootimg", "pxa-mkbootimg", "mkmtkhdr", "futility", "avb",
          "blobpack", "dhtbsign"}

Splitters == {"none", "unpackelf", "dumpimage", "rkcrc", "pxa-unpackbootimg", "unpackbootimg"}

Formats == {"none", "android", "elf", "uimage", "rk", "pxa"}

MountPoints == {"system", "vendor", "data", "system_root"}

Package == [id : Ids, device : STRING, loc : STRING, tools : SUBSET Tools,
            files : SUBSET Roles, cleanuponabort : BOOLEAN]

(* nookoff = 0: no Nook master key; dtbosize = 0: no dtbo partition; sar:  *)
(* /system/system/bin/dalvikvm exists; script: the user keeps a            *)
(* /data/custom_boot_image_patch.sh.                                       *)
Device == [name : STRING, block : STRING, fmt : Formats, size : Nat,
           nookoff : Nat, dtb : BOOLEAN, tag : BOOLEAN, signed : BOOLEAN,
           dtbosize : Nat, mountable : SUBSET MountPoints, sar : BOOLEAN,
           script : BOOLEAN]

ASSUME SourcesAssumption ==
  /\ Stock \notin Ids /\ Bad \notin Ids /\ None \notin Ids
  /\ Stock # Bad /\ Stock # None /\ Bad # None

ASSUME SizesAssumption ==
  /\ KernelSize \in [Sources -> Nat]
  /\ RamdiskSize \in [Sources -> Nat]
  /\ DtboSize \in [Sources -> Nat]
  /\ WrapSize \in Nat /\ TagSize \in Nat /\ PatchSize \in Nat
  /\ RkHeader \in Nat /\ RkCrc \in Nat \ {0}

ASSUME EnvironmentAssumption ==
  /\ Packages \subseteq Package
  /\ Devices \subseteq Device
  /\ \A d \in Devices :
       d.fmt # "none" /\ d.nookoff < d.size /\ RkHeader < d.size - d.nookoff
  /\ MediaFaults \in BOOLEAN /\ ToolFaults \in BOOLEAN
  /\ MaxAttempts \in Nat

-----------------------------------------------------------------------------
(* Boot images, as files and as the content of the partition.              *)

Image == [fmt : Formats, kernel : Sources, rest : Sources, dtb : Sources,
          key : BOOLEAN, tag : BOOLEAN, signed : BOOLEAN, size : Nat]

(* A missing file, and the content of an erased partition.                 *)
NoFile == [fmt |-> "none", kernel |-> None, rest |-> None, dtb |-> None,
           key |-> FALSE, tag |-> FALSE, signed |-> FALSE, size |-> 0]

(* A file without a boot image in it.                                      *)
Junk(n) == [NoFile EXCEPT !.kernel = Bad, !.rest = Bad, !.size = n]

(* What a write or a read of f that stops in the middle leaves behind: no  *)
(* header, a header with a torn kernel, or a whole kernel and a torn rest. *)
Prefixes(f) ==
  LET torn == [f EXCEPT !.rest = Bad, !.dtb = Bad, !.tag = FALSE, !.signed = FALSE]
  IN  {[Junk(f.size) EXCEPT !.key = f.key], torn, [torn EXCEPT !.kernel = Bad]}

StockImage(d) ==
  [fmt |-> d.fmt, kernel |-> IF d.fmt = "rk" THEN None ELSE Stock, rest |-> Stock,
   dtb |-> IF d.dtb THEN Stock ELSE None, key |-> d.nookoff > 0,
   tag |-> d.tag, signed |-> d.signed, size |-> d.size]

-----------------------------------------------------------------------------
VARIABLES
  pc,       \* the command the installer is at
  attempt,  \* how many times a zip has been flashed
  pkg,      \* the zip being flashed
  dev,      \* the phone
  boot,     \* content of the boot partition
  dtbo,     \* source of the content of the dtbo partition
  tmp,      \* the directory /tmp/otapack
  mounted,  \* mount points in use
  why,      \* the message of the last abort
  started,  \* history: content of boot when the attempt began
  faults    \* history: what the environment made go wrong

vars == <<pc, attempt, pkg, dev, boot, dtbo, tmp, mounted, why, started, faults>>
given == <<attempt, pkg, dev, started>>
media == <<boot, dtbo>>

(* splitter: the tool that filled split_img; appended: the stock dtb was   *)
(* concatenated to split_img/boot.img-zImage; keep: flashme.sh is there    *)
(* and does not set do.cleanuponabort=1.                                   *)
TmpDir == [tools : SUBSET Tools, files : [Roles -> Ids \cup {None}],
           keep : BOOLEAN, orig : Image, split : Image, splitter : Splitters,
           appended : BOOLEAN, key : BOOLEAN, new : Image, signed : Image]

EmptyTmp == [tools |-> {}, files |-> [r \in Roles |-> None], keep |-> FALSE,
             orig |-> NoFile, split |-> NoFile, splitter |-> "none",
             appended |-> FALSE, key |-> FALSE, new |-> NoFile, signed |-> NoFile]

PCs == {"idle", "setup", "dump", "split", "repack", "futility", "avb",
        "blobpack", "script", "trailer", "check", "erase", "write", "dtbo",
        "dtboerase", "dtbowrite", "finish", "abort", "done", "aborted"}

Reasons == {"none", "unzip", "busybox", "partition", "split", "repack",
            "sign", "avb", "script", "notfound", "larger", "dtbo", "status"}

(* "tool" and "sign": a tool failed and the script stopped; "unnoticed": a *)
(* tool failed and the script went on with what it left.                   *)
Faults == {"tool", "sign", "unnoticed", "script", "read", "write", "power"}

Init ==
  /\ pc = "idle" /\ attempt = 0 /\ why = "none" /\ faults = {}
  /\ pkg \in Packages
  /\ dev \in Devices
  /\ boot = StockImage(dev) /\ started = boot
  /\ dtbo = Stock
  /\ tmp = EmptyTmp
  /\ mounted \in SUBSET {"system", "data"}

-----------------------------------------------------------------------------
(* Mutant: the leftovers of an earlier attempt are not removed.            *)
Cleanup_Skipped(t) == t

(* cleanup() of update-binary.                                             *)
Cleanup(t) == EmptyTmp

(* unzip -o: files of the zip replace files of the same name.              *)
Unzip(t, p) ==
  [t EXCEPT !.tools = @ \cup p.tools,
            !.files = [r \in Roles |-> IF r \in p.files THEN p.id ELSE @[r]],
            !.keep = ~p.cleanuponabort]

Goto(l) == pc' = l /\ why' = why

(* ui_print of a message and exit 1, or a call of abort.                   *)
Exit(reason) == pc' = "abort" /\ why' = reason

(* A command of the package failed; its status may or may not be looked at.*)
Failed(f) ==
  /\ ToolFaults
  /\ faults' = faults \cup {f}

(* update-binary up to the unzip.  A failed unzip leaves nothing or all    *)
(* but the last file.                                                      *)
StartInstall(p) ==
  /\ pc \in {"idle", "done", "aborted"}
  /\ attempt < MaxAttempts
  /\ attempt' = attempt + 1
  /\ pkg' = p
  /\ started' = boot
  /\ \/ /\ tmp' = Unzip(Cleanup(tmp), p)
        /\ pc' = "setup" /\ why' = "none"
        /\ UNCHANGED faults
     \/ /\ tmp' \in {Cleanup(tmp), Unzip(Cleanup(tmp), p)}
        /\ Exit("unzip")
        /\ Failed("tool")
  /\ UNCHANGED <<dev, media, mounted>>

(* Remounting system and vendor, mounting data, installing busybox.        *)
Setup ==
  /\ pc = "setup"
  /\ mounted' = (mounted \ {"system", "vendor"})
                  \cup (dev.mountable \cap {"system", "vendor", "data"})
  /\ \/ Goto("dump") /\ UNCHANGED faults
     \/ Exit("busybox") /\ Failed("tool")
  /\ UNCHANGED <<given, media, tmp>>

-----------------------------------------------------------------------------
(* split_boot *)

(* What nanddump or dd leaves in boot.img; the status is not looked at.    *)
Dumped(f) ==
  /\ tmp' = IF f.key
              THEN [tmp EXCEPT !.orig = [f EXCEPT !.key = FALSE, !.size = f.size - dev.nookoff],
                               !.key = TRUE]
              ELSE [tmp EXCEPT !.orig = f]
  /\ Goto("split")

Dump ==
  /\ pc = "dump"
  /\ \/ pkg.loc # dev.block /\ Exit("partition") /\ UNCHANGED <<tmp, faults>>
     \/ /\ pkg.loc = dev.block
        /\ Dumped([boot EXCEPT !.size = dev.size])
        /\ UNCHANGED faults
     \/ /\ pkg.loc = dev.block /\ MediaFaults
        /\ \E f \in Prefixes([boot EXCEPT !.size = dev.size - 1]) : Dumped(f)
        /\ faults' = faults \cup {"read"}
  /\ UNCHANGED <<given, media, mounted>>

(* The if/elif chain that chooses the splitter.                            *)
Splitter(t, f) ==
  IF "unpackelf" \in t /\ f.fmt = "elf" THEN "unpackelf"
  ELSE IF "dumpimage" \in t THEN "dumpimage"
  ELSE IF "rkcrc" \in t THEN "rkcrc"
  ELSE IF "pxa-unpackbootimg" \in t THEN "pxa-unpackbootimg"
  ELSE "unpackbootimg"

(* The splitters can only take apart their own format.                     *)
Splits(tool, f) ==
  f.fmt = CASE tool = "unpackelf" -> "elf"
            [] tool = "dumpimage" -> "uimage"
            [] tool = "pxa-unpackbootimg" -> "pxa"
            [] OTHER -> "android"

(* What lands in split_img.  For Rockchip dd copies whatever follows the   *)
(* first RkHeader bytes: there is no kernel, and no check of the format.   *)
Parts(tool, f) ==
  IF tool = "rkcrc"
    THEN [NoFile EXCEPT !.fmt = "rk", !.rest = IF f.fmt = "rk" THEN f.rest ELSE Bad,
                        !.size = f.size - RkHeader]
    ELSE f

(* The status tested after the chain: the splitter's; for unpackelf that   *)
(* of the mv of the ramdisk, so that ok says one was written; for          *)
(* dumpimage that of "test $? != 0 && dumpfail=1", which is 1 when         *)
(* dumpimage succeeded; when it failed, dumpfail is set.                   *)
SplitStatus(tool, ok) == IF tool # "dumpimage" /\ ok THEN 0 ELSE 1

(* A plain dtb is appended to the split kernel when unpackelf is there.    *)
JoinsDtb(t, part) == "unpackelf" \in t /\ part.dtb # None /\ part.dtb \in PlainDtb

(* Whether split_img may hold these parts after a command failed whose     *)
(* status is not looked at: unpackelf or elftool (no header) that left a   *)
(* ramdisk, or the gzip and cat that join kernel and dtb.                  *)
Torn(tool, part, header, kernel, rest) ==
  \/ tool = "unpackelf"
  \/ JoinsDtb(tmp.tools, part) /\ header = part.fmt /\ kernel # None /\ rest = part.rest

Split ==
  /\ pc = "split"
  /\ LET tool == Splitter(tmp.tools, tmp.orig)
         part == Parts(tool, tmp.orig)
         status == SplitStatus(tool, tool = "rkcrc" \/ Splits(tool, tmp.orig))
     IN  \/ /\ status = 0
            /\ tmp' = [tmp EXCEPT !.split = part, !.splitter = tool,
                                  !.appended = JoinsDtb(tmp.tools, part)]
            /\ Goto("repack")
            /\ UNCHANGED faults
         \/ status # 0 /\ Exit("split") /\ UNCHANGED <<tmp, faults>>
         \/ Failed("tool") /\ Exit("split") /\ UNCHANGED tmp
         \/ /\ status = 0 /\ Failed("unnoticed")
            /\ \E h \in {part.fmt, "none"}, k \in {part.kernel, Bad, None},
                  r \in {part.rest, Bad}, d \in {part.dtb, Bad, None} :
                 /\ Torn(tool, part, h, k, r)
                 /\ tmp' = [tmp EXCEPT
                      !.split = [part EXCEPT !.fmt = h, !.kernel = k, !.rest = r, !.dtb = d],
                      !.splitter = tool, !.appended = JoinsDtb(tmp.tools, part)]
            /\ Goto("repack")
  /\ UNCHANGED <<given, media, mounted>>

-----------------------------------------------------------------------------
(* flash_boot *)

(* The if/elif chain that chooses the packer.                              *)
Packer(t) ==
  IF "mkimage" \in t THEN "mkimage"
  ELSE IF "elftool" \in t THEN "elftool"
  ELSE IF "rkcrc" \in t THEN "rkcrc"
  ELSE IF "pxa-mkbootimg" \in t THEN "pxa-mkbootimg"
  ELSE "mkbootimg"

(* The arguments a packer needs are the files its own splitter wrote, for  *)
(* elftool the header, too.                                                *)
Packs(tool, splitter) ==
  CASE tool = "mkimage" -> splitter = "dumpimage"
    [] tool = "elftool" -> splitter = "unpackelf" /\ tmp.split.fmt = "elf"
    [] tool = "rkcrc" -> TRUE
    [] tool = "pxa-mkbootimg" -> splitter = "pxa-unpackbootimg"
    [] OTHER -> splitter \in {"unpackelf", "pxa-unpackbootimg", "unpackbootimg"}

PackedFormat(tool) ==
  CASE tool = "mkimage" -> "uimage"
    [] tool = "elftool" -> "elf"
    [] tool = "rkcrc" -> "rk"
    [] tool = "pxa-mkbootimg" -> "pxa"
    [] OTHER -> "android"

(* kernel=, rd= and dtb=: the package's file, else what was split.         *)
Chosen(file, part) == IF file # None THEN file ELSE part

ChosenDtb ==
  IF tmp.files["dtb"] # None THEN tmp.files["dtb"]
  ELSE IF tmp.appended /\ tmp.files["kernel"] # None THEN None
  ELSE tmp.split.dtb

(* boot-new.img as the packer writes it.                                   *)
Packed(tool, kernel) ==
  LET rest == Chosen(tmp.files["ramdisk"], tmp.split.rest)
  IN  [NoFile EXCEPT
         !.fmt = PackedFormat(tool),
         !.kernel = IF tool = "rkcrc" THEN None ELSE kernel,
         !.rest = rest,
         !.dtb = IF tool = "rkcrc" THEN None ELSE ChosenDtb,
         !.size = IF tool # "rkcrc" THEN KernelSize[kernel] + RamdiskSize[rest]
                  ELSE IF tmp.files["ramdisk"] # None
                    THEN RamdiskSize[rest] + RkHeader + RkCrc
                    ELSE tmp.split.size + RkHeader + RkCrc]

(* Choosing the files, the mtk header and the packer.  A kernel file that  *)
(* is missing, or that mkmtkhdr did not write, makes the packer fail; one  *)
(* that a failing mkmtkhdr wrote in part is packed.                        *)
Repack ==
  /\ pc = "repack"
  /\ LET tool == Packer(tmp.tools)
         kernel == Chosen(tmp.files["kernel"], tmp.split.kernel)
         able == Packs(tool, tmp.splitter) /\ (tool # "rkcrc" => kernel # None)
     IN  \/ able /\ tmp' = [tmp EXCEPT !.new = Packed(tool, kernel)] /\ Goto("futility") /\ UNCHANGED faults
         \/ ~able /\ Exit("repack") /\ UNCHANGED <<tmp, faults>>
         \/ Failed("tool") /\ Exit("repack") /\ UNCHANGED tmp
         \/ /\ able /\ "mkmtkhdr" \in tmp.tools /\ tmp.files["kernel"] # None
            /\ Failed("unnoticed")
            /\ tmp' = [tmp EXCEPT !.new = Packed(tool, Bad)]
            /\ Goto("futility")
  /\ UNCHANGED <<given, media, mounted>>

(* mv -f boot-new-signed.img boot-new.img: nothing happens if the first    *)
(* file does not exist.                                                    *)
MoveSigned(t) ==
  IF t.signed = NoFile THEN t ELSE [t EXCEPT !.new = t.signed, !.signed = NoFile]

Wrapped(f) == [f EXCEPT !.size = @ + WrapSize]

(* What a failing signer leaves as boot-new-signed.img.                    *)
HalfSigned == {NoFile, Junk(WrapSize)}

Futility ==
  /\ pc = "futility"
  /\ \/ "futility" \notin tmp.tools /\ Goto("avb") /\ UNCHANGED <<tmp, faults>>
     \/ /\ "futility" \in tmp.tools
        /\ tmp' = MoveSigned([tmp EXCEPT !.signed = Wrapped(tmp.new)])
        /\ Goto("avb")
        /\ UNCHANGED faults
     \/ /\ "futility" \in tmp.tools /\ Failed("tool")
        /\ \E f \in HalfSigned : tmp' = [tmp EXCEPT !.signed = f]
        /\ Exit("sign")
  /\ UNCHANGED <<given, media, mounted>>

(* On a system-as-root phone /system is mounted again through              *)
(* /system_root before dalvikvm is run.                                    *)
AvbMounted ==
  IF dev.sar /\ "system" \in mounted THEN mounted \cup {"system_root"} ELSE mounted

(* "grep VALID" finds the verdict of an image that carries a signature; a  *)
(* verification that fails leaves the new image unsigned.                  *)
Verified == "system" \in mounted /\ tmp.orig.signed

Avb ==
  /\ pc = "avb"
  /\ \/ "avb" \notin tmp.tools /\ Goto("blobpack") /\ UNCHANGED <<tmp, mounted, faults>>
     \/ /\ "avb" \in tmp.tools
        /\ tmp' = MoveSigned(IF Verified
                     THEN [tmp EXCEPT !.signed = [Wrapped(tmp.new) EXCEPT !.signed = TRUE]]
                     ELSE tmp)
        /\ mounted' = AvbMounted \ {"system_root"}
        /\ Goto("blobpack")
        /\ UNCHANGED faults
     \/ /\ "avb" \in tmp.tools /\ Verified /\ Failed("unnoticed")
        /\ tmp' = MoveSigned(tmp)
        /\ mounted' = AvbMounted \ {"system_root"}
        /\ Goto("blobpack")
     \/ /\ "avb" \in tmp.tools /\ Verified /\ Failed("sign")
        /\ \E f \in HalfSigned : tmp' = [tmp EXCEPT !.signed = f]
        /\ mounted' = AvbMounted
        /\ Exit("avb")
  /\ UNCHANGED <<given, media>>

(* A failing blobpack is not noticed: the blob header alone is left.       *)
Blobpack ==
  /\ pc = "blobpack"
  /\ \/ "blobpack" \notin tmp.tools /\ UNCHANGED <<tmp, faults>>
     \/ /\ "blobpack" \in tmp.tools
        /\ tmp' = MoveSigned([tmp EXCEPT !.signed = Wrapped(tmp.new)])
        /\ UNCHANGED faults
     \/ /\ "blobpack" \in tmp.tools /\ Failed("unnoticed")
        /\ tmp' = MoveSigned([tmp EXCEPT !.signed = Junk(WrapSize)])
  /\ Goto("script")
  /\ UNCHANGED <<given, media, mounted>>

(* The user's script may change the image, even remove it.                 *)
UserScript ==
  /\ pc = "script"
  /\ LET runs == dev.script /\ "data" \in mounted
     IN  \/ ~runs /\ Goto("trailer") /\ UNCHANGED <<tmp, faults>>
         \/ /\ runs /\ Goto("trailer") /\ UNCHANGED faults
            /\ tmp' = [tmp EXCEPT !.new.size = @ + PatchSize]
         \/ /\ runs /\ Goto("trailer") /\ Failed("script")
            /\ tmp' = [tmp EXCEPT !.new = NoFile]
         \/ runs /\ Exit("script") /\ Failed("script") /\ UNCHANGED tmp
  /\ UNCHANGED <<given, media, mounted>>

(* Mutant: the tag overwrites the end of the image.                        *)
Tagged_Truncating(t) ==
  IF t.orig.tag THEN [t EXCEPT !.new.tag = TRUE, !.new.size = @ - TagSize] ELSE t

(* printf 'SEANDROIDENFORCE' >> boot-new.img                               *)
Tagged(t) ==
  IF t.orig.tag THEN [t EXCEPT !.new.tag = TRUE, !.new.size = @ + TagSize] ELSE t

(* cat master_boot.key boot-new.img                                        *)
Keyed(t) ==
  IF t.key THEN [t EXCEPT !.new.key = TRUE, !.new.size = @ + dev.nookoff] ELSE t

(* What dhtbsign makes of the image, which may be missing, and what it     *)
(* leaves of it when it fails.                                             *)
Dhtb(t) ==
  IF "dhtbsign" \in t.tools THEN MoveSigned([t EXCEPT !.signed = Wrapped(t.new)]) ELSE t
HalfDhtb(t) ==
  IF "dhtbsign" \in t.tools THEN {MoveSigned([t EXCEPT !.signed = f]) : f \in HalfSigned} ELSE {}

(* The tag, dhtbsign and the master key; a failing dhtbsign or cat is not  *)
(* noticed, and what it left is moved over boot-new.img.                   *)
Trailer ==
  /\ pc = "trailer"
  /\ LET t == Tagged(tmp)
         able == "dhtbsign" \in t.tools => t.new # NoFile
     IN  \/ able /\ tmp' = Keyed(Dhtb(t)) /\ UNCHANGED faults
         \/ Failed("unnoticed") /\ \E h \in HalfDhtb(t) : tmp' = Keyed(h)
         \/ /\ t.key /\ Failed("unnoticed")
            /\ \E h \in HalfDhtb(t) \cup {Dhtb(t)} : \E f \in Prefixes(h.new) :
                 tmp' = [h EXCEPT !.new = [f EXCEPT !.key = TRUE]]
  /\ Goto("check")
  /\ UNCHANGED <<given, media, mounted>>

(* Mutants: no size check; -ge for -gt.                                    *)
TooLarge_Dropped(t) == FALSE
(* Mutant: an image of exactly the size is refused. *)
TooLarge_OrEqual(t) == t.new.size >= t.orig.size

(* wc -c < boot-new.img  -gt  wc -c < boot.img                             *)
TooLarge(t) == t.new.size > t.orig.size

(* Mutant: the partition is erased before the sizes are compared.          *)
SizeCheck_AfterErase ==
  /\ pc = "check"
  /\ boot' = NoFile
  /\ IF TooLarge(tmp) THEN Exit("larger") ELSE Goto("write")
  /\ UNCHANGED <<given, dtbo, tmp, mounted, faults>>

SizeCheck ==
  /\ pc = "check"
  /\ \/ tmp.new = NoFile /\ Exit("notfound")
     \/ tmp.new # NoFile /\ TooLarge(tmp) /\ Exit("larger")
     \/ tmp.new # NoFile /\ ~TooLarge(tmp) /\ Goto("erase")
  /\ UNCHANGED <<given, media, tmp, mounted, faults>>

(* flash_erase, or dd if=/dev/zero; the status is not looked at.           *)
EraseBoot ==
  /\ pc = "erase"
  /\ boot' = NoFile
  /\ Goto("write")
  /\ UNCHANGED <<given, dtbo, tmp, mounted, faults>>

(* nandwrite or dd: an image larger than the partition is cut off, and     *)
(* nobody looks at the status.                                             *)
WriteBoot ==
  /\ pc = "write"
  /\ \/ /\ tmp.new.size <= dev.size
        /\ boot' = tmp.new
        /\ UNCHANGED faults
     \/ /\ MediaFaults \/ tmp.new.size > dev.size
        /\ boot' \in Prefixes(tmp.new)
        /\ faults' = faults \cup {"write"}
  /\ Goto("dtbo")
  /\ UNCHANGED <<given, dtbo, tmp, mounted>>

FindDtbo ==
  /\ pc = "dtbo"
  /\ \/ tmp.files["dtbo"] = None /\ Goto("finish")
     \/ tmp.files["dtbo"] # None /\ dev.dtbosize = 0 /\ Exit("dtbo")
     \/ tmp.files["dtbo"] # None /\ dev.dtbosize > 0 /\ Goto("dtboerase")
  /\ UNCHANGED <<given, media, tmp, mounted, faults>>

EraseDtbo ==
  /\ pc = "dtboerase"
  /\ dtbo' = None
  /\ Goto("dtbowrite")
  /\ UNCHANGED <<given, boot, tmp, mounted, faults>>

(* Mutant: a command follows the write of dtbo, so its status is lost.     *)
WriteDtbo_StatusLost ==
  /\ pc = "dtbowrite"
  /\ \/ dtbo' = tmp.files["dtbo"] /\ UNCHANGED faults
     \/ MediaFaults /\ dtbo' = Bad /\ faults' = faults \cup {"write"}
  /\ Goto("finish")
  /\ UNCHANGED <<given, boot, tmp, mounted>>

(* The write of dtbo is the last command of flashme.sh: its status is the  *)
(* status update-binary looks at.                                          *)
WriteDtbo ==
  /\ pc = "dtbowrite"
  /\ LET d == tmp.files["dtbo"]
     IN  \/ DtboSize[d] <= dev.dtbosize /\ dtbo' = d /\ Goto("finish") /\ UNCHANGED faults
         \/ DtboSize[d] > dev.dtbosize /\ dtbo' = Bad /\ Exit("status") /\ UNCHANGED faults
         \/ /\ MediaFaults /\ faults' = faults \cup {"write"}
            /\ dtbo' = Bad /\ Exit("status")
  /\ UNCHANGED <<given, boot, tmp, mounted>>

-----------------------------------------------------------------------------
(* The end of update-binary: cleanup, umounts and "Done!".                 *)
Finish ==
  /\ pc = "finish"
  /\ tmp' = Cleanup(tmp)
  /\ mounted' = mounted \ {"system", "vendor", "data"}
  /\ Goto("done")
  /\ UNCHANGED <<given, media, faults>>

(* Mutant: abort does not unmount /data.                                   *)
Abort_KeepsData ==
  /\ pc = "abort"
  /\ tmp' = IF tmp.keep THEN tmp ELSE Cleanup(tmp)
  /\ mounted' = mounted \ {"system", "vendor"}
  /\ Goto("aborted")
  /\ UNCHANGED <<given, media, faults>>

(* abort() of update-binary.                                               *)
Abort ==
  /\ pc = "abort"
  /\ tmp' = IF tmp.keep THEN tmp ELSE Cleanup(tmp)
  /\ mounted' = mounted \ {"system", "vendor", "data"}
  /\ Goto("aborted")
  /\ UNCHANGED <<given, media, faults>>

Running == pc \notin {"idle", "done", "aborted"}

(* The power is cut or the phone rebooted: /tmp and the mounts are gone,   *)
(* a write in progress has got as far as it has got.                       *)
PowerLoss ==
  /\ Running
  /\ MediaFaults
  /\ boot' \in IF pc = "write" THEN {boot} \cup Prefixes(tmp.new) ELSE {boot}
  /\ dtbo' = IF pc = "dtbowrite" THEN Bad ELSE dtbo
  /\ faults' = IF pc = "write" THEN faults \cup {"power"} ELSE faults
  /\ tmp' = EmptyTmp
  /\ mounted' = {}
  /\ pc' = "idle" /\ why' = "none"
  /\ UNCHANGED given

Step ==
  \/ Setup \/ Dump \/ Split \/ Repack \/ Futility \/ Avb \/ Blobpack
  \/ UserScript \/ Trailer \/ SizeCheck \/ EraseBoot \/ WriteBoot
  \/ FindDtbo \/ EraseDtbo \/ WriteDtbo \/ Finish \/ Abort

(* Nobody flashes a zip any more: the end of the bounded behaviour.        *)
Over ==
  /\ ~Running
  /\ attempt = MaxAttempts
  /\ UNCHANGED vars

Next ==
  \/ \E p \in Packages : StartInstall(p)
  \/ Step
  \/ PowerLoss
  \/ Over

(* The recovery runs update-binary to its end: no command of the script    *)
(* waits for anything but itself.                                          *)
Spec == Init /\ [][Next]_vars /\ WF_vars(Step)
-----------------------------------------------------------------------------
(* Properties *)

(* Types.  No sequence of tools and faults of fcore.sh makes a size        *)
(* negative or a file something that is not an image.                      *)
TypeOK ==
  /\ pc \in PCs
  /\ attempt \in Nat
  /\ pkg \in Packages
  /\ dev \in Devices
  /\ boot \in Image
  /\ dtbo \in Sources
  /\ tmp \in TmpDir
  /\ mounted \in SUBSET MountPoints
  /\ why \in Reasons
  /\ started \in Image
  /\ faults \in SUBSET Faults

(* The size check of fcore.sh compares with the dump, which the Nook code, *)
(* a read error and every later wrapper have had a chance to change: from  *)
(* the erase to the end of the write the repacked image is there and fits  *)
(* the partition, whatever has failed before.                              *)
FitsPartition ==
  pc \in {"erase", "write"} => tmp.new # NoFile /\ tmp.new.size <= dev.size

(* An image a boot loader can use: a header, no torn kernel, no torn rest. *)
Intact(f) == f.fmt # "none" /\ f.kernel # Bad /\ f.rest \notin {Bad, None}

(* The commands whose failure fcore.sh goes on from are unpackelf and      *)
(* elftool (38-41), the gzip and cat of the dtb (72-74), mkmtkhdr (158),   *)
(* the AVB verification (199), blobpack and its cat (216-217), dhtbsign    *)
(* (230) and the cat of the master key (234).  As long as none of these,   *)
(* no medium and not the user's script failed, the phone has an intact     *)
(* image, on the partition or, between erase and write, in /tmp/otapack:   *)
(* whatever other tools fail, whatever package is flashed on what phone,   *)
(* however often.                                                          *)
ImageSurvives ==
  faults \cap {"unnoticed", "script", "read", "write", "power"} = {} =>
    Intact(boot) \/ (pc = "write" /\ Intact(tmp.new))

(* After "Done!", when no medium, no user's script and none of those tools *)
(* failed, boot holds the package's kernel (the former one if it has none; *)
(* Rockchip images have none) with the ramdisk, Nook key and               *)
(* SEANDROIDENFORCE tag the phone had before: nothing comes from another   *)
(* package that was unzipped earlier, although tools may have failed and   *)
(* stopped the attempts before.                                            *)
DoneMeansInstalled ==
  pc = "done" /\ faults \cap {"unnoticed", "script", "read", "write", "power"} = {} =>
    /\ boot.kernel = IF Packer(pkg.tools) = "rkcrc" THEN None
                     ELSE IF "kernel" \in pkg.files THEN pkg.id ELSE started.kernel
    /\ boot.rest = IF "ramdisk" \in pkg.files THEN pkg.id ELSE started.rest
    /\ boot.key = started.key
    /\ boot.tag = started.tag

(* An attempt that aborts before dtbo leaves boot exactly as it found it,  *)
(* whatever failed.                                                        *)
AbortKeepsBoot ==
  pc = "aborted" /\ why \notin {"dtbo", "status"} => boot = started

(* dtbo is written last and its status is flashme.sh's: "Done!" implies    *)
(* that the package's dtbo is on the partition, even if writes fail.       *)
DoneMeansDtbo ==
  pc = "done" /\ "dtbo" \in pkg.files => dtbo = pkg.id

(* update-binary leaves nothing mounted, on every way out but one: exit 1  *)
(* after a failed AVB signature leaves /system_root mounted.               *)
MountsReleased ==
  pc \in {"done", "aborted"} /\ mounted # {} =>
    mounted = {"system_root"} /\ "sign" \in faults

(* The package akb makes: no tool beyond mkbootimg and unpackbootimg.  It  *)
(* suits a phone whose boot image is in that format, has no Nook key and   *)
(* leaves room for the package's kernel and dtbo.                          *)
Suits ==
  /\ pkg.tools = {} /\ pkg.loc = dev.block /\ "ramdisk" \notin pkg.files
  /\ boot.fmt = "android" /\ ~boot.key /\ ~dev.script
  /\ LET kernel == IF "kernel" \in pkg.files THEN pkg.id ELSE boot.kernel
     IN  KernelSize[kernel] + RamdiskSize[boot.rest] + (IF boot.tag THEN TagSize ELSE 0)
           <= dev.size
  /\ "dtbo" \in pkg.files => DtboSize[pkg.id] <= dev.dtbosize /\ dev.dtbosize > 0

(* Unless something fails or the power is cut, flashing a package on a     *)
(* phone it suits ends in "Done!", down to the last free byte of the       *)
(* partition: no check of split_boot and flash_boot is stricter than it    *)
(* has to be.                                                              *)
SuitedPackageInstalls ==
  pc = "setup" /\ Suits ~> pc \in {"done", "idle"} \/ faults # {}

(* The installer as an implementation of Flashing: everything up to the    *)
(* size check prepares, everything after the write of boot is written.     *)
Stage ==
  CASE pc = "idle" -> "off"
    [] pc \in {"done", "aborted"} -> "over"
    [] pc = "write" -> "erased"
    [] pc \in {"dtbo", "dtboerase", "dtbowrite", "finish"} -> "written"
    [] pc = "abort" /\ why \in {"dtbo", "status"} -> "written"
    [] OTHER -> "preparing"

FitsIn(f, n) == f.size <= n

Flash == INSTANCE Flashing
  WITH Images <- Image, Blank <- NoFile, Fits <- FitsIn, Torn <- Prefixes,
       room <- dev.size, stage <- Stage, partition <- boot,
       image <- IF pc = "write" THEN tmp.new ELSE NoFile

(* update-binary and fcore.sh do what Flashing promises: the partition is  *)
(* touched only between a complete preparation and the end, by one erase   *)
(* and one write of an image that fits, and every attempt ends.            *)
Flashes == Flash!Spec

-----------------------------------------------------------------------------
(* What a message of the scripts says, and the code does not do.           *)

(* update-binary:103 shows "Done!": boot holds the package's kernel.       *)
DoneMeansWritten ==
  pc = "done" /\ "kernel" \in pkg.files => boot.kernel = pkg.id
=============================================================================
