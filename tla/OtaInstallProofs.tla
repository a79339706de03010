-------------------------- MODULE OtaInstallProofs --------------------------
(***************************************************************************)
(* Proofs about OtaInstall, for every set of packages, phones and sizes    *)
(* and any number of attempts.                                             *)
(***************************************************************************)
EXTENDS OtaInstall, TLAPS

-----------------------------------------------------------------------------
(* Types of the operators on images and on /tmp/otapack.                   *)

(* The constant images are images.                                         *)
LEMMA ImageTypes ==
  /\ NoFile \in Image
  /\ \A n \in Nat : Junk(n) \in Image
  /\ EmptyTmp \in TmpDir
<1>1. NoFile \in Image
  BY SourcesAssumption DEF Image, NoFile, Sources, Formats
<1>2. \A n \in Nat : Junk(n) \in Image
  BY SourcesAssumption DEF Image, NoFile, Junk, Sources, Formats
<1>3. EmptyTmp \in TmpDir
  BY <1>1 DEF EmptyTmp, TmpDir, Splitters
<1> QED
  BY <1>1, <1>2, <1>3

(* A torn copy is an image of the same size.                               *)
LEMMA PrefixesType ==
  ASSUME NEW f \in Image, NEW g \in Prefixes(f)
  PROVE  g \in Image /\ g.size = f.size
  BY DEF Prefixes, Image, Junk, NoFile, Sources, Formats

(* The image a phone is delivered with is an image.                        *)
LEMMA StockImageType ==
  ASSUME NEW d \in Device
  PROVE  StockImage(d) \in Image
  BY DEF StockImage, Device, Image, Sources

(* Unzipping keeps /tmp/otapack well formed, and touches no image.         *)
LEMMA UnzipType ==
  ASSUME NEW t \in TmpDir, NEW p \in Package
  PROVE  /\ Unzip(t, p) \in TmpDir
         /\ Unzip(t, p).orig = t.orig /\ Unzip(t, p).new = t.new
  BY DEF Unzip, TmpDir, Package

(* mv of the signed image.                                                 *)
LEMMA MoveSignedType ==
  ASSUME NEW t \in TmpDir
  PROVE  MoveSigned(t) \in TmpDir /\ MoveSigned(t).orig = t.orig
  BY ImageTypes DEF MoveSigned, TmpDir

(* Moving the signed image leaves the rest of /tmp/otapack alone.          *)
LEMMA MoveSignedKeeps ==
  ASSUME NEW t \in TmpDir
  PROVE  /\ MoveSigned(t).tools = t.tools /\ MoveSigned(t).files = t.files
         /\ MoveSigned(t).key = t.key /\ MoveSigned(t).orig = t.orig
         /\ MoveSigned(t).signed = NoFile
         /\ MoveSigned(t).new = IF t.signed = NoFile THEN t.new ELSE t.signed
  BY DEF MoveSigned, TmpDir

(* Appending bytes, or a signature, makes an image of an image.            *)
LEMMA GrownType ==
  ASSUME NEW f \in Image, NEW n \in Nat
  PROVE  [f EXCEPT !.size = @ + n] \in Image
<1>1. f.size + n \in Nat
  BY DEF Image
<1> QED
  BY <1>1 DEF Image

(* A signing tool makes an image of an image.                              *)
LEMMA WrappedType ==
  ASSUME NEW f \in Image
  PROVE  Wrapped(f) \in Image /\ [Wrapped(f) EXCEPT !.signed = TRUE] \in Image
<1>1. Wrapped(f) \in Image
  BY GrownType, SizesAssumption DEF Wrapped
<1> QED
  BY <1>1 DEF Image

(* A part taken apart by a splitter is an image.                           *)
LEMMA PartsType ==
  ASSUME NEW f \in Image, NEW tool, f.size >= RkHeader
  PROVE  Parts(tool, f) \in Image
<1>1. f.size - RkHeader \in Nat
  BY SizesAssumption DEF Image
<1>2. (IF f.fmt = "rk" THEN f.rest ELSE Bad) \in Sources
  BY DEF Image, Sources
<1> QED
  BY <1>1, <1>2, ImageTypes DEF Parts, Image, Formats

(* The packers write images.                                               *)
LEMMA PackedType ==
  ASSUME tmp \in TmpDir, NEW tool, NEW kernel \in Sources
  PROVE  Packed(tool, kernel) \in Image
<1> DEFINE rest == Chosen(tmp.files["ramdisk"], tmp.split.rest)
<1>1. tmp.split \in Image /\ tmp.files \in [Roles -> Ids \cup {None}]
  BY DEF TmpDir
<1>2. \A r \in Roles : tmp.files[r] \in Sources
  BY <1>1 DEF Sources
<1>3. rest \in Sources /\ ChosenDtb \in Sources
  BY <1>1, <1>2 DEF Chosen, ChosenDtb, Image, Roles, Sources
<1>4. /\ KernelSize[kernel] + RamdiskSize[rest] \in Nat
      /\ RamdiskSize[rest] + RkHeader + RkCrc \in Nat
      /\ tmp.split.size + RkHeader + RkCrc \in Nat
  BY <1>1, <1>3, SizesAssumption DEF Image
<1>5. PackedFormat(tool) \in Formats
  BY DEF PackedFormat, Formats
<1>6. None \in Sources
  BY DEF Sources
<1> HIDE DEF rest
<1>7. Packed(tool, kernel) = [NoFile EXCEPT
         !.fmt = PackedFormat(tool),
         !.kernel = IF tool = "rkcrc" THEN None ELSE kernel,
         !.rest = rest,
         !.dtb = IF tool = "rkcrc" THEN None ELSE ChosenDtb,
         !.size = IF tool # "rkcrc" THEN KernelSize[kernel] + RamdiskSize[rest]
                  ELSE IF tmp.files["ramdisk"] # None
                    THEN RamdiskSize[rest] + RkHeader + RkCrc
                    ELSE tmp.split.size + RkHeader + RkCrc]
  BY DEF Packed, rest
<1> QED
  BY <1>3, <1>4, <1>5, <1>6, <1>7, ImageTypes DEF Image

(* The tag and the master key.                                             *)
LEMMA TrailerTypes ==
  ASSUME NEW t \in TmpDir, dev \in Device
  PROVE  /\ Tagged(t) \in TmpDir /\ Tagged(t).orig = t.orig
         /\ Keyed(t) \in TmpDir /\ Keyed(t).orig = t.orig
<1>1. t.new \in Image /\ TagSize \in Nat /\ dev.nookoff \in Nat
  BY SizesAssumption DEF TmpDir, Device
<1>2. /\ t.new.size + TagSize \in Nat
      /\ t.new.size + dev.nookoff \in Nat
  BY <1>1 DEF Image
<1>3. [t.new EXCEPT !.tag = TRUE, !.size = @ + TagSize] \in Image
  BY <1>1, <1>2 DEF Image
<1>4. [t.new EXCEPT !.key = TRUE, !.size = @ + dev.nookoff] \in Image
  BY <1>1, <1>2 DEF Image
<1> QED
  BY <1>3, <1>4 DEF Tagged, Keyed, TmpDir

LEMMA TrailerKeeps ==
  ASSUME tmp \in TmpDir, dev \in Device, Trailer
  PROVE  /\ tmp' \in TmpDir /\ tmp'.orig = tmp.orig
         /\ tmp'.tools = tmp.tools /\ tmp'.files = tmp.files
<1> DEFINE Like(h) == /\ h \in TmpDir /\ h.orig = tmp.orig
                      /\ h.tools = tmp.tools /\ h.files = tmp.files
           t == Tagged(tmp)
<1>1. Like(t) /\ t.new \in Image
  BY TrailerTypes DEF Tagged, TmpDir
<1>2. Wrapped(t.new) \in Image /\ HalfSigned \subseteq Image
  BY <1>1, WrappedType, ImageTypes, SizesAssumption DEF HalfSigned
<1>3. \/ \E h \in HalfDhtb(t) \cup {Dhtb(t)} : tmp' = Keyed(h)
      \/ \E h \in HalfDhtb(t) \cup {Dhtb(t)} : \E f \in Prefixes(h.new) :
           tmp' = [h EXCEPT !.new = [f EXCEPT !.key = TRUE]]
  BY DEF Trailer
<1> HIDE DEF t
<1>4. ASSUME NEW h \in HalfDhtb(t) \cup {Dhtb(t)} PROVE Like(h)
  <2>1. h = t \/ \E f \in Image : h = MoveSigned([t EXCEPT !.signed = f])
    BY <1>2 DEF HalfDhtb, Dhtb
  <2>2. ASSUME NEW f \in Image PROVE Like([t EXCEPT !.signed = f])
    BY <1>1 DEF TmpDir
  <2>3. CASE h = t
    BY <1>1, <2>3
  <2>4. ASSUME NEW f \in Image, h = MoveSigned([t EXCEPT !.signed = f]) PROVE Like(h)
    <3>1. PICK u : u = [t EXCEPT !.signed = f]
      OBVIOUS
    <3>2. u \in TmpDir /\ u.orig = tmp.orig /\ u.tools = tmp.tools /\ u.files = tmp.files /\ h = MoveSigned(u)
      BY <2>2, <2>4, <3>1
    <3> QED
      BY <3>2, MoveSignedType, MoveSignedKeeps
  <2> QED
    BY <2>1, <2>3, <2>4
<1>5. ASSUME NEW h, Like(h) PROVE Like(Keyed(h))
  BY <1>5, TrailerTypes DEF Keyed, TmpDir
<1>6. ASSUME NEW h, Like(h), NEW f \in Prefixes(h.new)
      PROVE  Like([h EXCEPT !.new = [f EXCEPT !.key = TRUE]])
  <2>1. f \in Image
    BY <1>6, PrefixesType DEF TmpDir
  <2>2. [f EXCEPT !.key = TRUE] \in Image
    BY <2>1 DEF Image
  <2> QED
    BY <1>6, <2>2 DEF TmpDir
<1>7. CASE \E h \in HalfDhtb(t) \cup {Dhtb(t)} : tmp' = Keyed(h)
  <2>1. PICK h : Like(h) /\ tmp' = Keyed(h)
    BY <1>4, <1>7
  <2> QED
    BY <1>5, <2>1
<1>8. CASE \E h \in HalfDhtb(t) \cup {Dhtb(t)} : \E f \in Prefixes(h.new) :
             tmp' = [h EXCEPT !.new = [f EXCEPT !.key = TRUE]]
  <2>1. PICK h : Like(h) /\ \E f \in Prefixes(h.new) : tmp' = [h EXCEPT !.new = [f EXCEPT !.key = TRUE]]
    BY <1>4, <1>8
  <2>2. PICK f \in Prefixes(h.new) : tmp' = [h EXCEPT !.new = [f EXCEPT !.key = TRUE]]
    BY <2>1
  <2> QED
    BY <1>6, <2>1, <2>2
<1> QED
  BY <1>3, <1>7, <1>8

-----------------------------------------------------------------------------
(* The dump never exceeds the partition it was read from.                  *)
DumpFits == tmp.orig.size <= dev.size

(* When split_boot takes the dump apart it holds at least a Rockchip       *)
(* header: even a short read of the partition does.                        *)
DumpHoldsHeader == pc = "split" => tmp.orig.size >= RkHeader

(* The inductive invariant behind type correctness and FitsPartition: the  *)
(* size check compares with the dump, so the dump has to fit as well.      *)
Inv == TypeOK /\ DumpFits /\ DumpHoldsHeader /\ FitsPartition

(* A dump, whole or short, fits and holds a header.                        *)
LEMMA DumpedSizes ==
  ASSUME TypeOK, NEW f \in Image, f.size \in {dev.size, dev.size - 1}, Dumped(f)
  PROVE  /\ tmp' \in TmpDir
         /\ tmp'.orig.size <= dev.size /\ tmp'.orig.size >= RkHeader
         /\ tmp'.orig.size \in Nat
<1>1. dev \in Device /\ dev.nookoff < dev.size /\ RkHeader < dev.size - dev.nookoff
  BY EnvironmentAssumption DEF TypeOK
<1>2. dev.size \in Nat /\ dev.nookoff \in Nat /\ RkHeader \in Nat
  BY <1>1, SizesAssumption DEF Device
<1>3. /\ f.size - dev.nookoff \in Nat
      /\ f.size - dev.nookoff <= dev.size /\ f.size - dev.nookoff >= RkHeader
      /\ f.size \in Nat /\ f.size <= dev.size /\ f.size >= RkHeader
  BY <1>1, <1>2
<1>4. CASE f.key
  <2> DEFINE g == [f EXCEPT !.key = FALSE, !.size = f.size - dev.nookoff]
  <2>1. g \in Image /\ g.size = f.size - dev.nookoff
    BY <1>3 DEF Image
  <2>2. tmp' = [tmp EXCEPT !.orig = g, !.key = TRUE]
    BY <1>4 DEF Dumped
  <2> HIDE DEF g
  <2>3. tmp' \in TmpDir /\ tmp'.orig = g
    BY <2>1, <2>2 DEF TypeOK, TmpDir
  <2> QED
    BY <1>3, <2>1, <2>3
<1>5. CASE ~f.key
  <2>1. tmp' \in TmpDir /\ tmp'.orig = f
    BY <1>5 DEF Dumped, TypeOK, TmpDir
  <2> QED
    BY <1>3, <2>1
<1> QED
  BY <1>4, <1>5

(* Inv holds initially.                                                    *)
LEMMA InvInit == Init => Inv
<1> SUFFICES ASSUME Init PROVE Inv
  OBVIOUS
<1>1. dev \in Device /\ StockImage(dev) \in Image /\ dev.size \in Nat
  BY EnvironmentAssumption, StockImageType DEF Init, Device
<1>2. TypeOK
  BY <1>1, ImageTypes DEF Init, TypeOK, PCs, Reasons, Sources, MountPoints
<1>3. tmp.orig.size = 0
  BY DEF Init, EmptyTmp, NoFile
<1> QED
  BY <1>1, <1>2, <1>3 DEF Inv, DumpFits, DumpHoldsHeader, FitsPartition, Init

(* Inv is inductive.                                                       *)
LEMMA InvStep == Inv /\ [Next]_vars => Inv'
<1> SUFFICES ASSUME Inv, [Next]_vars PROVE Inv'
  OBVIOUS
<1> USE DEF Inv
<1>0. /\ dev \in Device /\ pkg \in Package /\ dev.size \in Nat
      /\ tmp \in TmpDir /\ tmp.new \in Image /\ tmp.orig \in Image
      /\ boot \in Image /\ EmptyTmp.orig.size = 0
  BY EnvironmentAssumption DEF TypeOK, Device, TmpDir, EmptyTmp, NoFile
<1> DEFINE Same == UNCHANGED <<attempt, pkg, dev, started, boot, dtbo>>
           Quiet == pc' \notin {"split", "erase", "write"}
(* A step that keeps boot and the dump and does not get near the flash.    *)
<1>a. ASSUME Same, Quiet, tmp' \in TmpDir, tmp'.orig = tmp.orig,
             pc' \in PCs, why' \in Reasons, mounted' \in SUBSET MountPoints,
             faults' \in SUBSET Faults
      PROVE  Inv'
  BY <1>a, <1>0 DEF TypeOK, DumpFits, DumpHoldsHeader, FitsPartition
<1>1. ASSUME NEW p \in Packages, StartInstall(p) PROVE Inv'
  <2>1. p \in Package
    BY EnvironmentAssumption
  <2>2. EmptyTmp \in TmpDir /\ Unzip(EmptyTmp, p) \in TmpDir
        /\ Unzip(EmptyTmp, p).orig.size = 0
    BY <2>1, <1>0, ImageTypes, UnzipType
  <2>3. tmp' \in {EmptyTmp, Unzip(EmptyTmp, p)}
    BY <1>1 DEF StartInstall, Cleanup
  <2>4. pc' \in {"setup", "abort"} /\ why' \in Reasons /\ faults' \in SUBSET Faults
    BY <1>1 DEF StartInstall, Exit, Failed, Reasons, Faults, TypeOK
  <2>5. TypeOK'
    BY <1>1, <2>2, <2>3, <2>4 DEF StartInstall, TypeOK, PCs, media
  <2> QED
    BY <1>0, <1>1, <2>2, <2>3, <2>4, <2>5
    DEF StartInstall, DumpFits, DumpHoldsHeader, FitsPartition
<1>2. CASE Setup
  <2>1. mounted' \in SUBSET MountPoints
    BY <1>2, <1>0 DEF Setup, TypeOK, Device
  <2> QED
    BY <1>2, <2>1, <1>a, <1>0
    DEF Setup, Goto, Exit, Failed, given, media, PCs, Reasons, Faults, TypeOK
<1>3. CASE Dump
  <2>1. CASE pkg.loc # dev.block
    BY <1>3, <2>1, <1>a, <1>0 DEF Dump, Exit, given, media, PCs, Reasons, TypeOK
  <2>2. CASE pkg.loc = dev.block
    <3> DEFINE whole == [boot EXCEPT !.size = dev.size]
               short == [boot EXCEPT !.size = dev.size - 1]
    <3>1. dev.size - 1 \in Nat
      BY <1>0, EnvironmentAssumption DEF TypeOK, Device
    <3>2. whole \in Image /\ short \in Image
          /\ whole.size = dev.size /\ short.size = dev.size - 1
      BY <1>0, <3>1 DEF Image
    <3>3. PICK f \in {whole} \cup Prefixes(short) : Dumped(f)
      BY <1>3, <2>2 DEF Dump
    <3> HIDE DEF whole, short
    <3>4. f \in Image /\ f.size \in {dev.size, dev.size - 1}
      BY <3>2, <3>3, PrefixesType
    <3>5. /\ tmp' \in TmpDir
          /\ tmp'.orig.size <= dev.size /\ tmp'.orig.size >= RkHeader
      BY <3>3, <3>4, DumpedSizes
    <3>6. pc' = "split" /\ why' = why /\ faults' \in SUBSET Faults
      BY <1>3, <2>2, <3>3 DEF Dump, Dumped, Goto, Faults, TypeOK
    <3> QED
      BY <1>3, <3>5, <3>6 DEF Dump, given, media, TypeOK, DumpFits, DumpHoldsHeader,
                              FitsPartition, PCs
  <2> QED
    BY <2>1, <2>2
<1>4. CASE Split
  <2> DEFINE tool == Splitter(tmp.tools, tmp.orig)
             part == Parts(tool, tmp.orig)
  <2>1. part \in Image /\ tool \in Splitters
    BY <1>4, <1>0, PartsType DEF Split, DumpHoldsHeader, Splitter, Splitters
  <2>2. JoinsDtb(tmp.tools, part) \in BOOLEAN
    BY DEF JoinsDtb
  <2>3. \/ tmp' = tmp
        \/ tmp' = [tmp EXCEPT !.split = part, !.splitter = tool,
                              !.appended = JoinsDtb(tmp.tools, part)]
        \/ \E h \in {part.fmt, "none"}, k \in {part.kernel, Bad, None},
              r \in {part.rest, Bad}, d \in {part.dtb, Bad, None} :
             tmp' = [tmp EXCEPT
                !.split = [part EXCEPT !.fmt = h, !.kernel = k, !.rest = r, !.dtb = d],
                !.splitter = tool, !.appended = JoinsDtb(tmp.tools, part)]
    BY <1>4, ZenonT(60) DEF Split
  <2> HIDE DEF tool, part
  <2>5. \A h \in {part.fmt, "none"}, k \in {part.kernel, Bad, None},
           r \in {part.rest, Bad}, d \in {part.dtb, Bad, None} :
          [part EXCEPT !.fmt = h, !.kernel = k, !.rest = r, !.dtb = d] \in Image
    BY <2>1 DEF Image, Sources, Formats
  <2>4. tmp' \in TmpDir /\ tmp'.orig = tmp.orig
    <3>1. \A f \in Image : LET n == [tmp EXCEPT !.split = f, !.splitter = tool,
                                               !.appended = JoinsDtb(tmp.tools, part)]
                            IN  n \in TmpDir /\ n.orig = tmp.orig
      BY <1>0, <2>1, <2>2 DEF TmpDir
    <3>2. tmp' = tmp \/ \E f \in Image : tmp' = [tmp EXCEPT !.split = f, !.splitter = tool,
                                                         !.appended = JoinsDtb(tmp.tools, part)]
      <4>1. ASSUME NEW h \in {part.fmt, "none"}, NEW k \in {part.kernel, Bad, None},
                   NEW r \in {part.rest, Bad}, NEW d \in {part.dtb, Bad, None},
                   tmp' = [tmp EXCEPT
                      !.split = [part EXCEPT !.fmt = h, !.kernel = k, !.rest = r, !.dtb = d],
                      !.splitter = tool, !.appended = JoinsDtb(tmp.tools, part)]
            PROVE  \E f \in Image : tmp' = [tmp EXCEPT !.split = f, !.splitter = tool,
                                                       !.appended = JoinsDtb(tmp.tools, part)]
        <5>1. [part EXCEPT !.fmt = h, !.kernel = k, !.rest = r, !.dtb = d] \in Image
          BY <2>5
        <5> QED
          BY <4>1, <5>1, Zenon
      <4> QED
        BY <2>1, <2>3, <4>1
    <3>3. CASE tmp' = tmp
      BY <1>0, <3>3
    <3>4. ASSUME NEW f \in Image, tmp' = [tmp EXCEPT !.split = f, !.splitter = tool,
                                                   !.appended = JoinsDtb(tmp.tools, part)]
          PROVE  tmp' \in TmpDir /\ tmp'.orig = tmp.orig
      BY <3>1, <3>4
    <3> QED
      BY <3>2, <3>3, <3>4
  <2> QED
    BY <1>4, <2>4, <1>a
    DEF Split, Goto, Exit, Failed, given, media, PCs, Reasons, Faults, TypeOK
<1>5. CASE Repack
  <2>1. \/ tmp' = tmp
        \/ tmp' = [tmp EXCEPT !.new = Packed(Packer(tmp.tools), Chosen(tmp.files["kernel"], tmp.split.kernel))]
        \/ tmp' = [tmp EXCEPT !.new = Packed(Packer(tmp.tools), Bad)]
    BY <1>5 DEF Repack
  <2>3. Chosen(tmp.files["kernel"], tmp.split.kernel) \in Sources /\ Bad \in Sources
    <3>1. tmp.split \in Image /\ tmp.files \in [Roles -> Ids \cup {None}]
      BY <1>0 DEF TmpDir
    <3> QED
      BY <3>1 DEF Chosen, Image, Roles, Sources
  <2>2. tmp' \in TmpDir /\ tmp'.orig = tmp.orig
    BY <1>0, <2>1, <2>3, PackedType DEF TmpDir
  <2> QED
    BY <1>5, <2>2, <1>a
    DEF Repack, Goto, Exit, Failed, given, media, PCs, Reasons, Faults, TypeOK
<1>h. /\ \A f \in Image : [tmp EXCEPT !.signed = f] \in TmpDir
                          /\ [tmp EXCEPT !.signed = f].orig = tmp.orig
      /\ HalfSigned \subseteq Image
      /\ Wrapped(tmp.new) \in Image /\ [Wrapped(tmp.new) EXCEPT !.signed = TRUE] \in Image
      /\ Junk(WrapSize) \in Image
  BY <1>0, ImageTypes, WrappedType, SizesAssumption DEF TmpDir, HalfSigned
<1>6. CASE Futility
  <2>1. tmp' \in TmpDir /\ tmp'.orig = tmp.orig
    BY <1>6, <1>0, <1>h, MoveSignedType DEF Futility
  <2> QED
    BY <1>6, <2>1, <1>a
    DEF Futility, Goto, Exit, Failed, given, media, PCs, Reasons, Faults, TypeOK
<1>7. CASE Avb
  <2>1. tmp' \in TmpDir /\ tmp'.orig = tmp.orig
    BY <1>7, <1>0, <1>h, MoveSignedType DEF Avb
  <2>2. mounted' \in SUBSET MountPoints
    BY <1>7 DEF Avb, AvbMounted, MountPoints, TypeOK
  <2> QED
    BY <1>7, <2>1, <2>2, <1>a
    DEF Avb, Goto, Exit, Failed, given, media, PCs, Reasons, Faults, TypeOK
<1>8. CASE Blobpack
  <2>1. tmp' \in TmpDir /\ tmp'.orig = tmp.orig
    BY <1>8, <1>0, <1>h, MoveSignedType DEF Blobpack
  <2> QED
    BY <1>8, <2>1, <1>a
    DEF Blobpack, Goto, Failed, given, media, PCs, Reasons, Faults, TypeOK
<1>9. CASE UserScript
  <2>1. [tmp.new EXCEPT !.size = @ + PatchSize] \in Image
    BY <1>0, GrownType, SizesAssumption
  <2>2. tmp' \in TmpDir /\ tmp'.orig = tmp.orig
    BY <1>9, <1>0, <2>1, ImageTypes DEF UserScript, TmpDir
  <2> QED
    BY <1>9, <2>2, <1>a
    DEF UserScript, Goto, Exit, Failed, given, media, PCs, Reasons, Faults, TypeOK
<1>10. CASE Trailer
  <2>4. tmp' \in TmpDir /\ tmp'.orig = tmp.orig
    BY <1>0, <1>10, TrailerKeeps
  <2> QED
    BY <1>10, <2>4, <1>a
    DEF Trailer, Goto, Failed, given, media, PCs, Reasons, Faults, TypeOK
<1>11. CASE SizeCheck
  <2>1. CASE pc' = "erase"
    <3>1. tmp.new # NoFile /\ tmp.new.size <= tmp.orig.size
      BY <1>11, <2>1, <1>0 DEF SizeCheck, TooLarge, Exit, Image
    <3>2. tmp.new.size <= dev.size
      BY <3>1, <1>0 DEF DumpFits, Image
    <3> QED
      BY <1>11, <2>1, <3>1, <3>2
      DEF SizeCheck, Goto, Exit, given, media, TypeOK, DumpFits, DumpHoldsHeader,
          FitsPartition, PCs
  <2>2. CASE pc' # "erase"
    BY <1>11, <2>2, <1>0, <1>a
    DEF SizeCheck, Goto, Exit, given, media, PCs, Reasons, TypeOK
  <2> QED
    BY <2>1, <2>2
<1>12. CASE EraseBoot
  BY <1>12, ImageTypes DEF EraseBoot, Goto, given, TypeOK, DumpFits, DumpHoldsHeader,
                           FitsPartition, PCs
<1>13. CASE WriteBoot
  <2>1. boot' \in Image
    BY <1>13, <1>0, PrefixesType DEF WriteBoot
  <2> QED
    BY <1>13, <2>1 DEF WriteBoot, Goto, given, TypeOK, DumpFits, DumpHoldsHeader,
                       FitsPartition, PCs, Faults
<1>14. CASE FindDtbo
  BY <1>14, <1>0, <1>a DEF FindDtbo, Goto, Exit, given, media, PCs, Reasons, TypeOK
<1>15. CASE EraseDtbo
  BY <1>15 DEF EraseDtbo, Goto, given, TypeOK, DumpFits, DumpHoldsHeader,
               FitsPartition, PCs, Sources
<1>16. CASE WriteDtbo
  <2>1. dtbo' \in Sources
    BY <1>16, <1>0 DEF WriteDtbo, TmpDir, Roles, Sources
  <2> QED
    BY <1>16, <2>1 DEF WriteDtbo, Goto, Exit, given, TypeOK, DumpFits, DumpHoldsHeader,
                       FitsPartition, PCs, Reasons, Faults
<1>b. ASSUME tmp' \in {tmp, EmptyTmp}, UNCHANGED dev, TypeOK',
             pc' \notin {"split", "erase", "write"}
      PROVE  Inv'
  BY <1>b, <1>0 DEF DumpFits, DumpHoldsHeader, FitsPartition
<1>17. CASE Finish
  <2>1. TypeOK'
    BY <1>17, ImageTypes DEF Finish, Cleanup, Goto, given, media, TypeOK, PCs
  <2> QED
    BY <1>17, <2>1, <1>b DEF Finish, Cleanup, Goto, given
<1>18. CASE Abort
  <2>1. TypeOK'
    BY <1>18, ImageTypes DEF Abort, Cleanup, Goto, given, media, TypeOK, PCs
  <2> QED
    BY <1>18, <2>1, <1>b DEF Abort, Cleanup, Goto, given
<1>19. CASE PowerLoss
  <2>1. boot' \in Image /\ dtbo' \in Sources
    BY <1>19, <1>0, PrefixesType DEF PowerLoss, TypeOK, Sources
  <2>2. TypeOK'
    BY <1>19, <2>1, ImageTypes DEF PowerLoss, given, TypeOK, PCs, Reasons, Faults, MountPoints
  <2> QED
    BY <1>19, <2>2, <1>b DEF PowerLoss, given
<1>20. CASE UNCHANGED vars
  BY <1>20 DEF vars, TypeOK, DumpFits, DumpHoldsHeader, FitsPartition
<1> QED
  BY <1>1, <1>2, <1>3, <1>4, <1>5, <1>6, <1>7, <1>8, <1>9, <1>10, <1>11, <1>12, <1>13,
     <1>14, <1>15, <1>16, <1>17, <1>18, <1>19, <1>20 DEF Next, Step, Over

(* Every reachable state is well typed and satisfies the strengthening.    *)
THEOREM Invariance == Spec => []Inv
  BY InvInit, InvStep, PTL DEF Spec

(* Type correctness of the installer.                                      *)
THEOREM TypeCorrect == Spec => []TypeOK
<1>1. Inv => TypeOK
  BY DEF Inv
<1> QED
  BY Invariance, <1>1, PTL

(* The installer never erases boot without a replacement that fits it.     *)
THEOREM FlashFits == Spec => []FitsPartition
<1>1. Inv => FitsPartition
  BY DEF Inv
<1> QED
  BY Invariance, <1>1, PTL

-----------------------------------------------------------------------------
(* Abort keeps boot.                                                       *)

(* Up to the erase nothing writes to the partition; every exit before dtbo *)
(* happens up to the erase.                                                *)
BootKept ==
  /\ pc \in {"setup", "dump", "split", "repack", "futility", "avb", "blobpack",
             "script", "trailer", "check", "erase"} => boot = started
  /\ pc \in {"abort", "aborted"} /\ why \notin {"dtbo", "status"} => boot = started

(* BootKept is inductive by itself.                                        *)
LEMMA BootKeptStep == BootKept /\ [Next]_vars => BootKept'
<1> SUFFICES ASSUME BootKept, [Next]_vars PROVE BootKept'
  OBVIOUS
<1> USE DEF BootKept, given, media
<1>1. ASSUME NEW p \in Packages, StartInstall(p) PROVE BootKept'
  BY <1>1 DEF StartInstall, Exit
<1>2. CASE Setup
  BY <1>2 DEF Setup, Goto, Exit
<1>3. CASE Dump
  BY <1>3 DEF Dump, Dumped, Goto, Exit
<1>4. CASE Split
  BY <1>4 DEF Split, Goto, Exit
<1>5. CASE Repack
  BY <1>5 DEF Repack, Goto, Exit
<1>6. CASE Futility
  BY <1>6 DEF Futility, Goto, Exit
<1>7. CASE Avb
  BY <1>7 DEF Avb, Goto, Exit
<1>8. CASE Blobpack
  BY <1>8 DEF Blobpack, Goto
<1>9. CASE UserScript
  BY <1>9 DEF UserScript, Goto, Exit
<1>10. CASE Trailer
  BY <1>10 DEF Trailer, Goto
<1>11. CASE SizeCheck
  BY <1>11 DEF SizeCheck, Goto, Exit
<1>12. CASE EraseBoot \/ WriteBoot \/ EraseDtbo \/ Finish \/ PowerLoss
  BY <1>12 DEF EraseBoot, WriteBoot, EraseDtbo, Finish, PowerLoss, Goto
<1>13. CASE FindDtbo
  BY <1>13 DEF FindDtbo, Goto, Exit
<1>14. CASE WriteDtbo
  BY <1>14 DEF WriteDtbo, Goto, Exit
<1>15. CASE Abort
  BY <1>15 DEF Abort, Goto
<1>16. CASE UNCHANGED vars
  BY <1>16 DEF vars
<1> QED
  BY <1>1, <1>2, <1>3, <1>4, <1>5, <1>6, <1>7, <1>8, <1>9, <1>10, <1>11, <1>12, <1>13,
     <1>14, <1>15, <1>16 DEF Next, Step, Over

(* An attempt that aborts before dtbo leaves boot as it was.               *)
THEOREM AbortIsHarmless == Spec => []AbortKeepsBoot
<1>1. Init => BootKept
  BY DEF Init, BootKept
<1>2. BootKept => AbortKeepsBoot
  BY DEF BootKept, AbortKeepsBoot
<1> QED
  BY <1>1, <1>2, BootKeptStep, PTL DEF Spec

-----------------------------------------------------------------------------
(* Mounts.                                                                 *)

(* /system_root is in use only after a failed signature, and the ways out  *)
(* unmount everything else.                                                *)
MountInv ==
  /\ "system_root" \in mounted => "sign" \in faults
  /\ pc \in {"done", "aborted"} => mounted \subseteq {"system_root"}

(* MountInv is inductive on well-typed states.                             *)
LEMMA MountStep == TypeOK /\ MountInv /\ [Next]_vars => MountInv'
<1> SUFFICES ASSUME TypeOK, MountInv, [Next]_vars PROVE MountInv'
  OBVIOUS
<1> USE DEF MountInv
<1>m. mounted \in SUBSET MountPoints
  BY DEF TypeOK
<1>1. ASSUME NEW p \in Packages, StartInstall(p) PROVE MountInv'
  BY <1>1 DEF StartInstall, Exit, Failed
<1>2. CASE Setup
  BY <1>2 DEF Setup, Goto, Exit, Failed
<1>3. CASE Dump
  BY <1>3 DEF Dump, Dumped, Goto, Exit
<1>4. CASE Split \/ Repack
  BY <1>4 DEF Split, Repack, Goto, Exit, Failed
<1>5. CASE Futility \/ Blobpack
  BY <1>5 DEF Futility, Blobpack, Goto, Exit, Failed
<1>6. CASE Avb
  BY <1>6 DEF Avb, AvbMounted, Goto, Exit, Failed
<1>7. CASE UserScript \/ Trailer
  BY <1>7 DEF UserScript, Trailer, Goto, Exit, Failed
<1>8. CASE SizeCheck \/ EraseBoot \/ WriteBoot \/ FindDtbo
  BY <1>8 DEF SizeCheck, EraseBoot, WriteBoot, FindDtbo, Goto, Exit
<1>9. CASE EraseDtbo \/ WriteDtbo
  BY <1>9 DEF EraseDtbo, WriteDtbo, Goto, Exit
<1>10. CASE Finish \/ Abort
  BY <1>10, <1>m DEF Finish, Abort, MountPoints
<1>11. CASE PowerLoss
  BY <1>11 DEF PowerLoss
<1>12. CASE UNCHANGED vars
  BY <1>12 DEF vars
<1> QED
  BY <1>1, <1>2, <1>3, <1>4, <1>5, <1>6, <1>7, <1>8, <1>9, <1>10, <1>11, <1>12
  DEF Next, Step, Over

(* Only a failed AVB signature leaves something mounted.                   *)
THEOREM MountsAreReleased == Spec => []MountsReleased
<1>1. Init => MountInv
  BY DEF Init, MountInv
<1>2. MountInv => MountsReleased
  BY DEF MountInv, MountsReleased
<1> QED
  BY <1>1, <1>2, MountStep, TypeCorrect, PTL DEF Spec

-----------------------------------------------------------------------------
(* Where the written image comes from.                                     *)

Preparing == {"setup", "dump", "split", "repack", "futility", "avb", "blobpack",
              "script", "trailer"}
Flashing == {"check", "erase", "write", "dtbo", "dtboerase", "dtbowrite", "finish"}

(* /tmp/otapack holds what the package being flashed put there: no file of *)
(* an earlier package, no signed image left behind, no old master key.     *)
Fresh ==
  /\ pc \in Preparing \cup Flashing =>
       /\ tmp.tools = pkg.tools
       /\ tmp.files = [r \in Roles |-> IF r \in pkg.files THEN pkg.id ELSE None]
  /\ pc \in Preparing => tmp.signed = NoFile
  /\ pc \in {"setup", "dump"} => ~tmp.key

(* Fresh is inductive: the cleanup at the start of update-binary is what   *)
(* establishes it, since an abort may leave the directory as it is.        *)
LEMMA FreshStep == Inv /\ Fresh /\ [Next]_vars => Fresh'
<1> SUFFICES ASSUME Inv, Fresh, [Next]_vars PROVE Fresh'
  OBVIOUS
<1> USE DEF Preparing, Flashing
<1>0. tmp \in TmpDir /\ tmp.new \in Image
  BY DEF Inv, TypeOK, TmpDir
<1>h. \A f : /\ [tmp EXCEPT !.signed = f].tools = tmp.tools
             /\ [tmp EXCEPT !.signed = f].files = tmp.files
             /\ [tmp EXCEPT !.signed = f].key = tmp.key
  BY <1>0 DEF TmpDir
<1>i. \A f \in Image : [tmp EXCEPT !.signed = f] \in TmpDir
  BY <1>0 DEF TmpDir
<1>j. Wrapped(tmp.new) \in Image /\ [Wrapped(tmp.new) EXCEPT !.signed = TRUE] \in Image
      /\ Junk(WrapSize) \in Image
  BY <1>0, WrappedType, ImageTypes, SizesAssumption
<1>1. ASSUME NEW p \in Packages, StartInstall(p) PROVE Fresh'
  <2>1. Unzip(EmptyTmp, p).tools = p.tools /\ Unzip(EmptyTmp, p).signed = NoFile
        /\ ~Unzip(EmptyTmp, p).key
        /\ Unzip(EmptyTmp, p).files = [r \in Roles |-> IF r \in p.files THEN p.id ELSE None]
    BY DEF Unzip, EmptyTmp
  <2>2. \/ tmp' = Unzip(EmptyTmp, p) /\ pkg' = p /\ pc' = "setup"
        \/ pc' = "abort"
    BY <1>1 DEF StartInstall, Cleanup, Exit
  <2> QED
    BY <2>1, <2>2 DEF Fresh
<1>2. CASE Setup
  BY <1>2 DEF Setup, Goto, Exit, given, Fresh
<1>3. CASE Dump
  <2>1. ASSUME NEW f, Dumped(f)
        PROVE  /\ tmp'.tools = tmp.tools /\ tmp'.files = tmp.files /\ tmp'.signed = tmp.signed
               /\ pc' = "split"
    BY <2>1, <1>0 DEF Dumped, Goto, TmpDir
  <2> QED
    BY <1>3, <2>1 DEF Dump, Exit, given, Fresh
<1>4. CASE Split
  BY <1>4, <1>0 DEF Split, Goto, Exit, given, Fresh, TmpDir
<1>5. CASE Repack
  BY <1>5, <1>0 DEF Repack, Goto, Exit, given, Fresh, TmpDir
<1>6. CASE Futility
  <2>1. \/ tmp' = tmp
        \/ pc' = "abort"
        \/ \E f \in Image : tmp' = MoveSigned([tmp EXCEPT !.signed = f])
        \/ tmp' = MoveSigned(tmp)
    BY <1>6, <1>j DEF Futility, Exit
  <2>2. \/ pc' = "abort"
        \/ /\ tmp'.tools = tmp.tools /\ tmp'.files = tmp.files
           /\ tmp'.signed \in {tmp.signed, NoFile}
    BY <2>1, <1>0, <1>h, <1>i, MoveSignedKeeps, ZenonT(60)
  <2>3. pc \in Preparing /\ pc' \notin {"setup", "dump"} /\ pkg' = pkg
    BY <1>6 DEF Futility, Goto, Exit, given
  <2> QED
    BY <2>2, <2>3 DEF Fresh
<1>7. CASE Avb
  <2>1. \/ tmp' = tmp
        \/ pc' = "abort"
        \/ \E f \in Image : tmp' = MoveSigned([tmp EXCEPT !.signed = f])
        \/ tmp' = MoveSigned(tmp)
    BY <1>7, <1>j DEF Avb, Exit
  <2>2. \/ pc' = "abort"
        \/ /\ tmp'.tools = tmp.tools /\ tmp'.files = tmp.files
           /\ tmp'.signed \in {tmp.signed, NoFile}
    BY <2>1, <1>0, <1>h, <1>i, MoveSignedKeeps, ZenonT(60)
  <2>3. pc \in Preparing /\ pc' \notin {"setup", "dump"} /\ pkg' = pkg
    BY <1>7 DEF Avb, Goto, Exit, given
  <2> QED
    BY <2>2, <2>3 DEF Fresh
<1>8. CASE Blobpack
  <2>1. \/ tmp' = tmp
        \/ pc' = "abort"
        \/ \E f \in Image : tmp' = MoveSigned([tmp EXCEPT !.signed = f])
        \/ tmp' = MoveSigned(tmp)
    BY <1>8, <1>j DEF Blobpack, Exit
  <2>2. \/ pc' = "abort"
        \/ /\ tmp'.tools = tmp.tools /\ tmp'.files = tmp.files
           /\ tmp'.signed \in {tmp.signed, NoFile}
    BY <2>1, <1>0, <1>h, <1>i, MoveSignedKeeps, ZenonT(60)
  <2>3. pc \in Preparing /\ pc' \notin {"setup", "dump"} /\ pkg' = pkg
    BY <1>8 DEF Blobpack, Goto, given
  <2> QED
    BY <2>2, <2>3 DEF Fresh
<1>9. CASE UserScript
  BY <1>9, <1>0 DEF UserScript, Goto, Exit, given, Fresh, TmpDir
<1>10. CASE Trailer
  <2>5. tmp'.tools = tmp.tools /\ tmp'.files = tmp.files
    BY <1>0, <1>10, TrailerKeeps, EnvironmentAssumption DEF Inv, TypeOK
  <2> QED
    BY <1>10, <2>5 DEF Trailer, Goto, given, Fresh
<1>11. CASE SizeCheck \/ EraseBoot \/ WriteBoot \/ FindDtbo \/ EraseDtbo \/ WriteDtbo
  BY <1>11 DEF SizeCheck, EraseBoot, WriteBoot, FindDtbo, EraseDtbo, WriteDtbo,
               Goto, Exit, given, Fresh
<1>12. CASE Finish \/ Abort \/ PowerLoss
  BY <1>12 DEF Finish, Abort, PowerLoss, Goto, Fresh
<1>13. CASE UNCHANGED vars
  BY <1>13 DEF vars, Fresh
<1> QED
  BY <1>1, <1>2, <1>3, <1>4, <1>5, <1>6, <1>7, <1>8, <1>9, <1>10, <1>11, <1>12, <1>13
  DEF Next, Step, Over

(* No attempt ever works on what another package has left in /tmp/otapack. *)
THEOREM AlwaysFresh == Spec => []Fresh
<1>1. Init => Fresh
  BY DEF Init, Fresh, Preparing, Flashing
<1> QED
  BY <1>1, FreshStep, Invariance, PTL DEF Spec

(* The way to "Done!" goes through a successful write of dtbo, if any.     *)
DtboInv == pc \in {"finish", "done"} /\ "dtbo" \in pkg.files => dtbo = pkg.id

(* DtboInv is inductive: only a write of dtbo that succeeded goes on.      *)
LEMMA DtboStep == Inv /\ Fresh /\ DtboInv /\ [Next]_vars => DtboInv'
<1> SUFFICES ASSUME Inv, Fresh, DtboInv, [Next]_vars PROVE DtboInv'
  OBVIOUS
<1> USE DEF DtboInv
<1>1. ASSUME NEW p \in Packages, StartInstall(p) PROVE DtboInv'
  BY <1>1 DEF StartInstall, Exit
<1>2. CASE Setup \/ Dump \/ Split \/ Repack
  <2>1. pc' \notin {"finish", "done"}
    BY <1>2 DEF Setup, Dump, Dumped, Split, Repack, Goto, Exit
  <2> QED
    BY <2>1
<1>3. CASE Futility \/ Avb \/ Blobpack \/ UserScript \/ Trailer
  <2>1. pc' \notin {"finish", "done"}
    BY <1>3 DEF Futility, Avb, Blobpack, UserScript, Trailer, Goto, Exit
  <2> QED
    BY <2>1
<1>4. CASE SizeCheck \/ EraseBoot \/ WriteBoot \/ EraseDtbo
  <2>1. pc' \notin {"finish", "done"}
    BY <1>4 DEF SizeCheck, EraseBoot, WriteBoot, EraseDtbo, Goto, Exit
  <2> QED
    BY <2>1
<1>5. pc \in {"dtbo", "dtbowrite"} /\ "dtbo" \in pkg.files =>
        tmp.files["dtbo"] = pkg.id /\ pkg.id # None
  BY EnvironmentAssumption, SourcesAssumption
  DEF Fresh, Flashing, Roles, Inv, TypeOK, Package
<1>6. CASE FindDtbo
  BY <1>5, <1>6 DEF FindDtbo, Goto, Exit, given, media
<1>7. CASE WriteDtbo
  BY <1>5, <1>7 DEF WriteDtbo, Goto, Exit, given
<1>8. CASE Finish \/ Abort \/ PowerLoss
  BY <1>8 DEF Finish, Abort, PowerLoss, Goto, given, media
<1>9. CASE UNCHANGED vars
  BY <1>9 DEF vars
<1> QED
  BY <1>1, <1>2, <1>3, <1>4, <1>6, <1>7, <1>8, <1>9 DEF Next, Step, Over

(* "Done!" implies that the package's dtbo is on its partition.            *)
THEOREM DtboIsWritten == Spec => []DoneMeansDtbo
<1>1. Init => DtboInv
  BY DEF Init, DtboInv
<1>2. DtboInv => DoneMeansDtbo
  BY DEF DtboInv, DoneMeansDtbo
<1> QED
  BY <1>1, <1>2, DtboStep, Invariance, AlwaysFresh, PTL DEF Spec

-----------------------------------------------------------------------------
(* Without a harmful fault the partition receives what it should.          *)

Harmless == faults \cap {"unnoticed", "script", "read", "write", "power"} = {}

(* f has the kernel and the ramdisk the attempt is meant to install.       *)
Expected(f) ==
  /\ f.kernel = IF Packer(pkg.tools) = "rkcrc" THEN None
                ELSE IF "kernel" \in pkg.files THEN pkg.id ELSE started.kernel
  /\ f.rest = IF "ramdisk" \in pkg.files THEN pkg.id ELSE started.rest

SameTrailer(f) == f.tag = started.tag /\ f.key = started.key

Wrapping == {"futility", "avb", "blobpack", "script", "trailer"}

(* Up to the size check the repacked image is the expected one or it is    *)
(* too large for the dump: a ramdisk copied by dd from an image that is no *)
(* Rockchip image is as long as the dump and only gets longer.             *)
Came ==
  /\ Intact(started)
  /\ pc # "write" => Intact(boot)
  /\ pc = "split" => /\ tmp.orig.kernel = started.kernel
                     /\ tmp.orig.rest = started.rest
  /\ pc \in {"split", "repack"} \cup Wrapping =>
       /\ tmp.orig.tag = started.tag
       /\ tmp.key = started.key
  /\ pc = "repack" =>
       \/ /\ tmp.splitter # "rkcrc"
          /\ tmp.split.kernel = started.kernel /\ tmp.split.rest = started.rest
       \/ /\ tmp.splitter = "rkcrc" /\ "rkcrc" \in tmp.tools
          /\ tmp.split.rest = started.rest \/ tmp.split.size + RkHeader = tmp.orig.size
  /\ pc \in Wrapping \cup {"check"} =>
       /\ tmp.new.fmt # "none"
       /\ Expected(tmp.new) \/ tmp.new.size > tmp.orig.size
  /\ pc \in Wrapping => ~tmp.new.tag /\ ~tmp.new.key
  /\ pc = "check" => SameTrailer(tmp.new)
  /\ pc \in {"erase", "write"} =>
       tmp.new.fmt # "none" /\ Expected(tmp.new) /\ SameTrailer(tmp.new)
  /\ pc \in {"dtbo", "dtboerase", "dtbowrite", "finish", "done"} =>
       Expected(boot) /\ SameTrailer(boot)

Provenance == Harmless => Came

(* A repacked image that is expected is intact.                            *)
LEMMA ExpectedIsIntact ==
  ASSUME TypeOK, NEW f \in Image, f.fmt # "none", Expected(f), Intact(started)
  PROVE  Intact(f)
<1>1. pkg.id \in Ids
  BY EnvironmentAssumption DEF TypeOK, Package
<1> QED
  BY <1>1, SourcesAssumption DEF Expected, Intact

(* g is f, possibly with something around it.                              *)
Covers(g, f) ==
  /\ g.fmt = f.fmt /\ g.kernel = f.kernel /\ g.rest = f.rest
  /\ g.tag = f.tag /\ g.key = f.key /\ g.size >= f.size

(* Wrapping an image only makes it longer.                                 *)
LEMMA WrappingKeeps ==
  ASSUME Inv, Came, pc \in Wrapping, pc' \in Wrapping,
         UNCHANGED <<pkg, started, boot>>,
         tmp'.orig = tmp.orig, tmp'.key = tmp.key,
         tmp'.new \in Image, Covers(tmp'.new, tmp.new)
  PROVE  Came'
<1>1. tmp'.new.size \in Nat /\ tmp.new.size \in Nat /\ tmp.orig.size \in Nat
  BY DEF Inv, TypeOK, TmpDir, Image
<1>2. tmp.new.size > tmp.orig.size => tmp'.new.size > tmp.orig.size
  BY <1>1 DEF Covers
<1> QED
  BY <1>2 DEF Came, Wrapping, Expected, Intact, Covers

(* What the signing tools do to an image.                                  *)
LEMMA WrappedCovers ==
  ASSUME NEW f \in Image
  PROVE  /\ Covers(f, f) /\ Covers(Wrapped(f), f)
         /\ Covers([Wrapped(f) EXCEPT !.signed = TRUE], f)
<1>1. f.size \in Nat /\ WrapSize \in Nat
  BY SizesAssumption DEF Image
<1>2. f.size >= f.size /\ f.size + WrapSize >= f.size
  BY <1>1
<1> QED
  BY <1>2 DEF Covers, Wrapped, Image

(* The repacked image is the expected one or too large.                    *)
LEMMA PackedIsExpected ==
  ASSUME Inv, Fresh, Came, pc = "repack",
         LET tool == Packer(tmp.tools)
         IN  /\ Packs(tool, tmp.splitter)
             /\ tool # "rkcrc" => Chosen(tmp.files["kernel"], tmp.split.kernel) # None
  PROVE  LET new == Packed(Packer(tmp.tools), Chosen(tmp.files["kernel"], tmp.split.kernel))
         IN  /\ new.fmt # "none" /\ ~new.tag /\ ~new.key
             /\ Expected(new) \/ new.size > tmp.orig.size
<1> DEFINE tool == Packer(tmp.tools)
           kernel == Chosen(tmp.files["kernel"], tmp.split.kernel)
           new == Packed(tool, kernel)
           rest == Chosen(tmp.files["ramdisk"], tmp.split.rest)
<1>0. /\ pkg.id # None
      /\ tmp.tools = pkg.tools
      /\ tmp.files["kernel"] = IF "kernel" \in pkg.files THEN pkg.id ELSE None
      /\ tmp.files["ramdisk"] = IF "ramdisk" \in pkg.files THEN pkg.id ELSE None
  BY EnvironmentAssumption, SourcesAssumption
  DEF Fresh, Preparing, Roles, Inv, TypeOK, Package
<1>1. /\ new.fmt = PackedFormat(tool) /\ new.tag = FALSE /\ new.key = FALSE
      /\ new.kernel = IF tool = "rkcrc" THEN None ELSE kernel
      /\ new.rest = rest
      /\ tool = "rkcrc" /\ tmp.files["ramdisk"] = None
           => new.size = tmp.split.size + RkHeader + RkCrc
  BY DEF Packed, NoFile
<1>2. new.fmt # "none"
  BY <1>1 DEF PackedFormat
<1>3. CASE tmp.splitter # "rkcrc"
  <2>1. tmp.split.kernel = started.kernel /\ tmp.split.rest = started.rest
    BY <1>3 DEF Came
  <2>2. Expected(new)
    BY <1>0, <1>1, <2>1 DEF Expected, Chosen
  <2> QED
    BY <1>1, <1>2, <2>2
<1>4. CASE tmp.splitter = "rkcrc"
  <2>1. tool = "rkcrc"
    BY <1>4 DEF Packs, Packer
  <2>2. tmp.split.rest = started.rest \/ tmp.split.size + RkHeader = tmp.orig.size
    BY <1>4 DEF Came
  <2>3. CASE "ramdisk" \in pkg.files \/ tmp.split.rest = started.rest
    BY <1>0, <1>1, <1>2, <2>1, <2>3 DEF Expected, Chosen
  <2>4. CASE "ramdisk" \notin pkg.files /\ tmp.split.size + RkHeader = tmp.orig.size
    <3>1. new.size = tmp.split.size + RkHeader + RkCrc
      BY <1>0, <1>1, <2>1, <2>4
    <3>2. /\ tmp.split.size \in Nat /\ tmp.orig.size \in Nat /\ RkHeader \in Nat
          /\ RkCrc \in Nat /\ RkCrc > 0
      BY SizesAssumption DEF Inv, TypeOK, TmpDir, Image
    <3>3. new.size > tmp.orig.size
      BY <2>4, <3>1, <3>2
    <3> QED
      BY <1>1, <1>2, <3>3
  <2> QED
    BY <2>2, <2>3, <2>4
<1> QED
  BY <1>3, <1>4

(* Provenance is inductive, given freshness and that boot is kept.         *)
LEMMA ProvenanceStep ==
  Inv /\ Fresh /\ BootKept /\ Provenance /\ [Next]_vars => Provenance'
<1> SUFFICES ASSUME Inv, Fresh, BootKept, Provenance, [Next]_vars, Harmless'
             PROVE  Came'
  BY DEF Provenance
<1>0. /\ tmp \in TmpDir /\ tmp.new \in Image /\ tmp.orig \in Image /\ boot \in Image
      /\ tmp.new.size \in Nat /\ tmp.orig.size \in Nat /\ WrapSize \in Nat /\ PatchSize \in Nat
      /\ dev \in Device
  BY EnvironmentAssumption, SizesAssumption DEF Inv, TypeOK, TmpDir, Image
<1>f. faults \subseteq faults'
  BY DEF Next, Step, Over, StartInstall, Setup, Dump, Split, Repack, Futility, Avb, Blobpack,
         UserScript, Trailer, SizeCheck, EraseBoot, WriteBoot, FindDtbo, EraseDtbo,
         WriteDtbo, Finish, Abort, PowerLoss, Failed, vars
<1>c. Came
  BY <1>f DEF Harmless, Provenance
<1>a. ASSUME UNCHANGED <<started, boot>>, pc' \in {"abort", "aborted", "idle", "setup", "dump"},
             pc # "write"
      PROVE  Came'
  BY <1>a, <1>c DEF Came, Wrapping
<1>1. ASSUME NEW p \in Packages, StartInstall(p) PROVE Came'
  BY <1>1, <1>c DEF StartInstall, Exit, Came, Wrapping, media
<1>2. CASE Setup
  BY <1>2, <1>a DEF Setup, Goto, Exit, given, media
<1>3. CASE Dump
  <2>1. CASE pkg.loc # dev.block
    BY <1>3, <2>1, <1>a DEF Dump, Exit, given, media
  <2>2. CASE pkg.loc = dev.block
    <3> DEFINE f == [boot EXCEPT !.size = dev.size]
    <3>1. Dumped(f)
      BY <1>3, <2>2 DEF Dump, Harmless
    <3>2. /\ f.kernel = boot.kernel /\ f.rest = boot.rest /\ f.tag = boot.tag
          /\ f.key = boot.key /\ f.key \in BOOLEAN
      BY <1>0 DEF Image
    <3> HIDE DEF f
    <3>3. ~tmp.key
      BY <1>3 DEF Dump, Fresh
    <3>4. /\ tmp'.orig.kernel = f.kernel /\ tmp'.orig.rest = f.rest
          /\ tmp'.orig.tag = f.tag /\ tmp'.key = f.key
      <4>1. CASE f.key
        <5>1. tmp' = [tmp EXCEPT !.orig = [f EXCEPT !.key = FALSE, !.size = f.size - dev.nookoff],
                                 !.key = TRUE]
          BY <3>1, <4>1 DEF Dumped
        <5>2. /\ tmp'.orig = [f EXCEPT !.key = FALSE, !.size = f.size - dev.nookoff]
              /\ tmp'.key = TRUE
          BY <5>1, <1>0 DEF TmpDir
        <5> QED
          BY <4>1, <5>2, <3>2, <1>0 DEF f, Image
      <4>2. CASE ~f.key
        BY <3>1, <3>2, <3>3, <4>2, <1>0 DEF Dumped, TmpDir, Inv, TypeOK
      <4> QED
        BY <4>1, <4>2
    <3>5. pc' = "split" /\ boot = started /\ UNCHANGED <<started, boot>>
      BY <1>3, <3>1 DEF Dumped, Dump, Goto, BootKept, given, media
    <3> QED
      BY <1>3, <1>c, <3>2, <3>4, <3>5 DEF Came, Wrapping, Dump
  <2> QED
    BY <2>1, <2>2
<1>4. CASE Split
  <2>1. CASE pc' = "abort"
    BY <1>4, <2>1, <1>a DEF Split, given, media
  <2>2. CASE pc' # "abort"
    <3> DEFINE tool == Splitter(tmp.tools, tmp.orig)
               part == Parts(tool, tmp.orig)
    <3>1. /\ tmp' = [tmp EXCEPT !.split = part, !.splitter = tool,
                                !.appended = JoinsDtb(tmp.tools, part)]
          /\ pc' = "repack"
      BY <1>4, <2>2 DEF Split, Goto, Exit, Failed, Harmless
    <3>2. tool = "rkcrc" => "rkcrc" \in tmp.tools
      BY DEF Splitter
    <3>3. tool # "rkcrc" => part = tmp.orig
      BY DEF Parts
    <3>4. tool = "rkcrc" => \/ part.rest = tmp.orig.rest
                            \/ part.size + RkHeader = tmp.orig.size
      <4>1. tool = "rkcrc" => part.size = tmp.orig.size - RkHeader
        BY DEF Parts, NoFile
      <4>2. RkHeader \in Nat
        BY SizesAssumption
      <4> QED
        BY <4>1, <4>2, <1>0
    <3> HIDE DEF tool, part
    <3>5. /\ tmp'.split = part /\ tmp'.splitter = tool /\ tmp'.orig = tmp.orig
          /\ tmp'.key = tmp.key /\ tmp'.tools = tmp.tools
      BY <3>1, <1>0 DEF TmpDir
    <3> QED
      BY <1>4, <1>c, <3>1, <3>2, <3>3, <3>4, <3>5 DEF Split, Came, Wrapping, given, media
  <2> QED
    BY <2>1, <2>2
<1>5. CASE Repack
  <2>1. CASE pc' = "abort"
    BY <1>5, <2>1, <1>a DEF Repack, given, media
  <2>2. CASE pc' # "abort"
    <3> DEFINE new == Packed(Packer(tmp.tools), Chosen(tmp.files["kernel"], tmp.split.kernel))
    <3>1. /\ Packs(Packer(tmp.tools), tmp.splitter)
          /\ Packer(tmp.tools) # "rkcrc" =>
               Chosen(tmp.files["kernel"], tmp.split.kernel) # None
          /\ tmp' = [tmp EXCEPT !.new = new] /\ pc' = "futility"
      BY <1>5, <2>2 DEF Repack, Goto, Exit, Failed, Harmless
    <3>2. /\ new.fmt # "none" /\ ~new.tag /\ ~new.key
          /\ Expected(new) \/ new.size > tmp.orig.size
      BY <1>5, <1>c, <3>1, PackedIsExpected DEF Repack
    <3> HIDE DEF new
    <3>3. tmp'.new = new /\ tmp'.orig = tmp.orig /\ tmp'.key = tmp.key
      BY <3>1, <1>0 DEF TmpDir
    <3> QED
      BY <1>5, <1>c, <3>1, <3>2, <3>3 DEF Repack, Came, Wrapping, Expected, given, media
  <2> QED
    BY <2>1, <2>2
<1>s. pc \in Wrapping /\ Came => tmp.signed = NoFile /\ tmp.new.fmt # "none"
  BY DEF Fresh, Wrapping, Preparing, Came
(* After a tool wrote g as boot-new-signed.img and mv renamed it.          *)
<1>m. ASSUME pc \in Wrapping, NEW g \in Image, Covers(g, tmp.new),
             tmp' = MoveSigned([tmp EXCEPT !.signed = g])
      PROVE  /\ tmp'.new \in Image /\ Covers(tmp'.new, tmp.new)
             /\ tmp'.orig = tmp.orig /\ tmp'.key = tmp.key
  <2>1. g # NoFile
    BY <1>m, <1>s, <1>c DEF Covers, NoFile
  <2>2. tmp'.new = g /\ tmp'.orig = tmp.orig /\ tmp'.key = tmp.key
    BY <1>m, <2>1, <1>0 DEF MoveSigned, TmpDir
  <2> QED
    BY <1>m, <2>2
<1>k. /\ Wrapped(tmp.new) \in Image /\ Covers(Wrapped(tmp.new), tmp.new)
      /\ [Wrapped(tmp.new) EXCEPT !.signed = TRUE] \in Image
      /\ Covers([Wrapped(tmp.new) EXCEPT !.signed = TRUE], tmp.new)
      /\ Covers(tmp.new, tmp.new)
  BY <1>0, WrappedType, WrappedCovers
<1>n. pc \in Wrapping => MoveSigned(tmp) = tmp
  BY <1>s, <1>c DEF MoveSigned
<1>6. CASE Futility
  <2>1. CASE pc' = "abort"
    BY <1>6, <2>1, <1>a DEF Futility, given, media
  <2>2. CASE pc' # "abort"
    <3>1. pc \in Wrapping /\ pc' \in Wrapping
      BY <1>6, <2>2 DEF Futility, Goto, Exit, Wrapping
    <3>2. \/ tmp' = tmp
          \/ tmp' = MoveSigned([tmp EXCEPT !.signed = Wrapped(tmp.new)])
      BY <1>6, <2>2 DEF Futility, Exit
    <3>3. /\ tmp'.new \in Image /\ Covers(tmp'.new, tmp.new)
          /\ tmp'.orig = tmp.orig /\ tmp'.key = tmp.key
      BY <3>1, <3>2, <1>0, <1>m, <1>k
    <3> QED
      BY <1>6, <1>c, <3>1, <3>3, WrappingKeeps DEF Futility, given, media
  <2> QED
    BY <2>1, <2>2
<1>7. CASE Avb
  <2>1. CASE pc' = "abort"
    BY <1>7, <2>1, <1>a DEF Avb, given, media
  <2>2. CASE pc' # "abort"
    <3>1. pc \in Wrapping /\ pc' \in Wrapping
      BY <1>7, <2>2 DEF Avb, Goto, Exit, Wrapping
    <3>2. \/ tmp' = tmp \/ tmp' = MoveSigned(tmp)
          \/ tmp' = MoveSigned([tmp EXCEPT !.signed = [Wrapped(tmp.new) EXCEPT !.signed = TRUE]])
      BY <1>7, <2>2 DEF Avb, Exit
    <3>3. /\ tmp'.new \in Image /\ Covers(tmp'.new, tmp.new)
          /\ tmp'.orig = tmp.orig /\ tmp'.key = tmp.key
      BY <3>1, <3>2, <1>0, <1>m, <1>n, <1>k
    <3> QED
      BY <1>7, <1>c, <3>1, <3>3, WrappingKeeps DEF Avb, given, media
  <2> QED
    BY <2>1, <2>2
<1>8. CASE Blobpack
  <2>1. pc \in Wrapping /\ pc' \in Wrapping
    BY <1>8 DEF Blobpack, Goto, Wrapping
  <2>2. \/ tmp' = tmp
        \/ tmp' = MoveSigned([tmp EXCEPT !.signed = Wrapped(tmp.new)])
    BY <1>8 DEF Blobpack, Failed, Harmless
  <2>3. /\ tmp'.new \in Image /\ Covers(tmp'.new, tmp.new)
        /\ tmp'.orig = tmp.orig /\ tmp'.key = tmp.key
    BY <2>1, <2>2, <1>0, <1>m, <1>k
  <2> QED
    BY <1>8, <1>c, <2>1, <2>3, WrappingKeeps DEF Blobpack, given, media
<1>9. CASE UserScript
  <2>1. pc \in Wrapping /\ pc' \in Wrapping
    BY <1>9 DEF UserScript, Goto, Wrapping, Failed, Harmless
  <2> DEFINE g == [tmp.new EXCEPT !.size = @ + PatchSize]
  <2>2. tmp' = tmp \/ tmp' = [tmp EXCEPT !.new = g]
    BY <1>9, <1>0 DEF UserScript, Failed, Harmless, TmpDir
  <2>3. g \in Image /\ Covers(g, tmp.new)
    <3>1. tmp.new.size + PatchSize \in Nat /\ tmp.new.size + PatchSize >= tmp.new.size
      BY <1>0
    <3> QED
      BY <3>1, <1>0 DEF Covers, Image
  <2> HIDE DEF g
  <2>4. /\ tmp'.new \in Image /\ Covers(tmp'.new, tmp.new)
        /\ tmp'.orig = tmp.orig /\ tmp'.key = tmp.key
    BY <2>2, <2>3, <1>0, WrappedCovers DEF TmpDir
  <2> QED
    BY <1>9, <1>c, <2>1, <2>4, WrappingKeeps DEF UserScript, given, media
<1>10. CASE Trailer
  <2> DEFINE t == Tagged(tmp)
             s == [t EXCEPT !.signed = Wrapped(t.new)]
  <2>0. /\ pc \in Wrapping /\ tmp.signed = NoFile /\ tmp.new.fmt # "none"
        /\ ~tmp.new.tag /\ ~tmp.new.key
        /\ tmp.orig.tag = started.tag /\ tmp.key = started.key
        /\ Expected(tmp.new) \/ tmp.new.size > tmp.orig.size
        /\ TagSize \in Nat /\ dev.nookoff \in Nat
    BY <1>10, <1>c, <1>s, <1>0, SizesAssumption DEF Trailer, Wrapping, Came, Device
  <2>1. t \in TmpDir /\ t.orig = tmp.orig /\ t.new \in Image
    BY <1>0, TrailerTypes DEF TmpDir
  <2>2. /\ t.new.fmt = tmp.new.fmt /\ t.new.kernel = tmp.new.kernel
        /\ t.new.rest = tmp.new.rest /\ t.new.key = FALSE /\ t.new.tag = started.tag
        /\ t.new.size >= tmp.new.size
        /\ t.signed = NoFile /\ t.key = tmp.key
    <3>1. tmp.new.size + TagSize >= tmp.new.size /\ tmp.new.size >= tmp.new.size
      BY <1>0, <2>0
    <3>2. tmp.new.tag \in BOOLEAN /\ tmp.orig.tag \in BOOLEAN /\ tmp.new.key \in BOOLEAN
      BY <1>0 DEF Image
    <3> QED
      BY <1>0, <2>0, <3>1, <3>2 DEF Tagged, TmpDir, Image
  <2>3. tmp' \in {Keyed(t), Keyed(MoveSigned(s))}
    BY <1>10 DEF Trailer, Dhtb, Failed, Harmless
  <2> HIDE DEF t
  <2>4. s \in TmpDir /\ MoveSigned(s) \in TmpDir
    <3>1. Wrapped(t.new) \in Image
      BY <2>1, WrappedType
    <3>2. s \in TmpDir
      BY <2>1, <3>1 DEF TmpDir
    <3> QED
      BY <3>2, MoveSignedType
  <2>5. /\ MoveSigned(t) = t
        /\ MoveSigned(s).new = Wrapped(t.new) /\ MoveSigned(s).key = t.key
        /\ MoveSigned(s).orig = t.orig
    <3>1. Wrapped(t.new).fmt # "none"
      BY <2>0, <2>1, <2>2, WrappedCovers DEF Covers
    <3>2. s.signed = Wrapped(t.new) /\ s.key = t.key /\ s.orig = t.orig
      BY <2>1 DEF TmpDir
    <3>3. s.signed # NoFile
      BY <3>1, <3>2 DEF NoFile
    <3> HIDE DEF s
    <3> QED
      BY <2>2, <2>4, <3>2, <3>3, MoveSignedKeeps DEF MoveSigned
  <2>6. PICK u \in TmpDir : /\ tmp' = Keyed(u) /\ Covers(u.new, t.new)
                            /\ u.key = tmp.key /\ u.orig = tmp.orig
    BY <2>1, <2>2, <2>3, <2>4, <2>5, WrappedCovers
  <2> HIDE DEF s
  <2>7. /\ tmp'.orig = tmp.orig
        /\ tmp'.new.fmt = tmp.new.fmt /\ tmp'.new.kernel = tmp.new.kernel
        /\ tmp'.new.rest = tmp.new.rest /\ tmp'.new.tag = started.tag
        /\ tmp'.new.key = tmp.key
    <3>1. u.new \in Image /\ u.key \in BOOLEAN
      BY DEF TmpDir
    <3>2. u.new.key = FALSE /\ u.new.fmt = tmp.new.fmt /\ u.new.kernel = tmp.new.kernel
          /\ u.new.rest = tmp.new.rest /\ u.new.tag = started.tag
      BY <2>2, <2>6 DEF Covers
    <3> QED
      BY <2>6, <3>1, <3>2 DEF Keyed, TmpDir, Image
  <2>8. tmp'.new.size >= u.new.size
    <3>1. u.new \in Image /\ u.new.size \in Nat
      BY DEF TmpDir, Image
    <3>2. u.new.size + dev.nookoff >= u.new.size /\ u.new.size >= u.new.size
      BY <2>0, <3>1
    <3> QED
      BY <2>6, <3>1, <3>2 DEF Keyed, TmpDir, Image
  <2>9. tmp.new.size > tmp.orig.size => tmp'.new.size > tmp.orig.size
    <3>1. u.new.size \in Nat /\ t.new.size \in Nat /\ tmp'.new.size \in Nat
      BY <2>1, <2>6, <1>0, TrailerTypes DEF TmpDir, Image
    <3> QED
      BY <3>1, <2>2, <2>6, <2>8, <1>0 DEF Covers
  <2> QED
    BY <1>10, <1>c, <2>0, <2>7, <2>9
    DEF Trailer, Goto, Came, Wrapping, Expected, SameTrailer, given, media
<1>11. CASE SizeCheck
  <2>1. CASE pc' = "abort"
    BY <1>11, <2>1, <1>a DEF SizeCheck, given, media
  <2>2. CASE pc' # "abort"
    <3>1. pc' = "erase" /\ ~(tmp.new.size > tmp.orig.size)
      BY <1>11, <2>2 DEF SizeCheck, Goto, Exit, TooLarge
    <3> QED
      BY <1>11, <1>c, <3>1
      DEF SizeCheck, Came, Wrapping, Expected, SameTrailer, given, media
  <2> QED
    BY <2>1, <2>2
<1>12. CASE EraseBoot
  BY <1>12, <1>c DEF EraseBoot, Goto, Came, Wrapping, Expected, SameTrailer, given
<1>13. CASE WriteBoot
  <2>1. boot' = tmp.new /\ pc' = "dtbo" /\ UNCHANGED <<pkg, started>>
    BY <1>13 DEF WriteBoot, Goto, Harmless, given
  <2>2. tmp.new.fmt # "none" /\ Expected(tmp.new) /\ SameTrailer(tmp.new) /\ Intact(started)
    BY <1>13, <1>c DEF WriteBoot, Came
  <2>3. Intact(tmp.new)
    BY <2>2, <1>0, ExpectedIsIntact DEF Inv
  <2> QED
    BY <2>1, <2>2, <2>3 DEF Came, Wrapping, Expected, SameTrailer, Intact
<1>14. CASE FindDtbo \/ EraseDtbo \/ WriteDtbo \/ Finish
  <2>1. /\ UNCHANGED <<boot, pkg, started>>
        /\ pc \in {"dtbo", "dtboerase", "dtbowrite", "finish"}
        /\ pc' \in {"dtboerase", "dtbowrite", "finish", "done", "abort"}
    BY <1>14 DEF FindDtbo, EraseDtbo, WriteDtbo, Finish, Goto, Exit, given, media
  <2> QED
    BY <2>1, <1>c DEF Came, Wrapping, Expected, SameTrailer
<1>15. CASE Abort
  BY <1>15, <1>a DEF Abort, Goto, given, media
<1>16. CASE PowerLoss
  <2>1. pc # "write"
    BY <1>16 DEF PowerLoss, Harmless
  <2> QED
    BY <1>16, <2>1, <1>a DEF PowerLoss, given
<1>17. CASE UNCHANGED vars
  BY <1>17, <1>c DEF vars, Came, Wrapping, Expected, SameTrailer
<1> QED
  BY <1>1, <1>2, <1>3, <1>4, <1>5, <1>6, <1>7, <1>8, <1>9, <1>10, <1>11, <1>12, <1>13,
     <1>14, <1>15, <1>16, <1>17 DEF Next, Step, Over

(* Provenance holds in every reachable state.                              *)
LEMMA ProvenanceHolds == Spec => [](Inv /\ Provenance)
<1>1. Init => BootKept /\ Provenance
  <2> SUFFICES ASSUME Init PROVE BootKept /\ Provenance
    OBVIOUS
  <2>1. BootKept
    BY DEF Init, BootKept
  <2>2. dev.fmt # "none"
    BY EnvironmentAssumption DEF Init
  <2> QED
    BY <2>1, <2>2, SourcesAssumption
    DEF Init, Provenance, Came, Wrapping, Intact, StockImage
<1> QED
  BY <1>1, ProvenanceStep, BootKeptStep, Invariance, AlwaysFresh, PTL DEF Spec

(* As long as no medium failed, the user's script did no harm and none of  *)
(* the commands failed whose status fcore.sh ignores (38-41, 72-74, 158,   *)
(* 199, 216-217, 230, 234), the phone always has an intact image.          *)
THEOREM ImageAlwaysSurvives == Spec => []ImageSurvives
<1>1. Inv /\ Provenance => ImageSurvives
  <2> SUFFICES ASSUME Inv, Provenance, Harmless
               PROVE  Intact(boot) \/ (pc = "write" /\ Intact(tmp.new))
    BY DEF ImageSurvives, Harmless
  <2>1. CASE pc = "write"
    <3>1. tmp.new \in Image /\ TypeOK
      BY DEF Inv, TypeOK, TmpDir
    <3> QED
      BY <2>1, <3>1, ExpectedIsIntact DEF Provenance, Came
  <2> QED
    BY <2>1 DEF Provenance, Came
<1> QED
  BY <1>1, ProvenanceHolds, PTL

(* "Done!" under the same conditions means that the package is installed,  *)
(* with the ramdisk, key and tag the phone had before.                     *)
THEOREM InstallIsComplete == Spec => []DoneMeansInstalled
<1>1. Inv /\ Provenance => DoneMeansInstalled
  BY DEF Provenance, Came, Harmless, Expected, SameTrailer, DoneMeansInstalled
<1> QED
  BY <1>1, ProvenanceHolds, PTL
-----------------------------------------------------------------------------
(* The installer implements Flashing.                                      *)

ShownImage == IF pc = "write" THEN tmp.new ELSE NoFile

(* What Flashing sees of the installer.                                    *)
Shown == <<dev.size, Stage, boot, ShownImage>>

(* The commands before the erase and after the write change nothing that   *)
(* Flashing sees: they stay in their stage and leave boot alone.           *)
LEMMA HiddenSteps ==
  ASSUME pc' # "write", pc # "write", Stage' = Stage, UNCHANGED <<dev, boot>>
  PROVE  UNCHANGED Shown
  BY DEF Shown, ShownImage

(* A step of the installer is a step of Flashing or is not seen by it.     *)
LEMMA StepFlashes == Inv /\ [Next]_vars => [Flash!Next]_Shown
<1> SUFFICES ASSUME Inv, [Next]_vars PROVE Flash!Next \/ UNCHANGED Shown
  OBVIOUS
<1>1. ASSUME NEW p \in Packages, StartInstall(p) PROVE Flash!Begin
  <2>1. /\ pc \in {"idle", "done", "aborted"} /\ UNCHANGED <<dev, boot>>
        /\ (pc' = "setup" \/ (pc' = "abort" /\ why' = "unzip"))
    BY <1>1 DEF StartInstall, Exit, media
  <2> QED
    BY <2>1 DEF Flash!Begin, Stage
<1>2. CASE Setup \/ Dump \/ Split \/ Repack \/ Futility \/ Avb
  <2>1. /\ UNCHANGED <<dev, boot>>
        /\ pc \in {"setup", "dump", "split", "repack", "futility", "avb"}
        /\ \/ pc' \in {"dump", "split", "repack", "futility", "avb", "blobpack"}
           \/ /\ pc' = "abort"
              /\ why' \in {"busybox", "partition", "split", "repack", "sign", "avb"}
    BY <1>2 DEF Setup, Dump, Dumped, Split, Repack, Futility, Avb, Goto, Exit, given, media
  <2> QED
    BY <2>1, HiddenSteps DEF Stage
<1>3. CASE Blobpack \/ UserScript \/ Trailer \/ SizeCheck
  <2>1. /\ UNCHANGED <<dev, boot>>
        /\ pc \in {"blobpack", "script", "trailer", "check"}
        /\ \/ pc' \in {"script", "trailer", "check", "erase"}
           \/ pc' = "abort" /\ why' \in {"script", "notfound", "larger"}
    BY <1>3 DEF Blobpack, UserScript, Trailer, SizeCheck, Goto, Exit, given, media
  <2> QED
    BY <2>1, HiddenSteps DEF Stage
<1>4. CASE EraseBoot
  <2>1. /\ pc = "erase" /\ pc' = "write" /\ boot' = NoFile /\ UNCHANGED <<dev, tmp>>
    BY <1>4 DEF EraseBoot, Goto, given
  <2>2. tmp.new \in Image \ {NoFile} /\ FitsIn(tmp.new, dev.size)
    BY <2>1 DEF Inv, TypeOK, TmpDir, FitsPartition, FitsIn
  <2>3. Flash!Erase
    BY <2>1, <2>2 DEF Flash!Erase, Stage
  <2> QED
    BY <2>3 DEF Flash!Next
<1>5. CASE WriteBoot
  <2>1. /\ pc = "write" /\ pc' = "dtbo" /\ UNCHANGED dev
        /\ boot' \in {tmp.new} \cup Prefixes(tmp.new)
    BY <1>5 DEF WriteBoot, Goto, given
  <2>2. Flash!Write
    BY <2>1 DEF Flash!Write, Stage
  <2> QED
    BY <2>2 DEF Flash!Next
<1>6. CASE FindDtbo \/ EraseDtbo \/ WriteDtbo
  <2>1. /\ UNCHANGED <<dev, boot>>
        /\ pc \in {"dtbo", "dtboerase", "dtbowrite"}
        /\ \/ pc' \in {"dtboerase", "dtbowrite", "finish"}
           \/ pc' = "abort" /\ why' \in {"dtbo", "status"}
    BY <1>6 DEF FindDtbo, EraseDtbo, WriteDtbo, Goto, Exit, given, media
  <2> QED
    BY <2>1, HiddenSteps DEF Stage
<1>7. CASE Finish \/ Abort
  <2>1. /\ UNCHANGED <<dev, boot>>
        /\ pc \in {"finish", "abort"} /\ pc' \in {"done", "aborted"}
    BY <1>7 DEF Finish, Abort, Goto, given, media
  <2>2. Flash!End
    BY <2>1 DEF Flash!End, Stage
  <2> QED
    BY <2>2 DEF Flash!Next
<1>8. CASE PowerLoss
  <2>1. /\ pc \in PCs \ {"idle", "done", "aborted"} /\ pc' = "idle" /\ UNCHANGED dev
        /\ boot' \in {boot} \cup (IF pc = "write" THEN Prefixes(tmp.new) ELSE {})
    BY <1>8 DEF PowerLoss, Running, given, Inv, TypeOK
  <2>2. /\ Stage \in {"preparing", "erased", "written"} /\ Stage' = "off"
        /\ (Stage = "erased") <=> (pc = "write")
    BY <2>1 DEF Stage, PCs
  <2>3. Flash!PowerOff
    BY <2>1, <2>2 DEF Flash!PowerOff
  <2> QED
    BY <2>3 DEF Flash!Next
<1>9. CASE Over \/ UNCHANGED vars
  BY <1>9 DEF Over, vars, Shown, ShownImage, Stage
<1> QED
  BY <1>1, <1>2, <1>3, <1>4, <1>5, <1>6, <1>7, <1>8, <1>9 DEF Next, Step, Flash!Next

(* The safety half of Flashes: whatever fails, the partition is touched    *)
(* only by one erase and one write after a complete preparation, or by a   *)
(* cut of the power while writing.                                         *)
THEOREM InstallerFlashes == Spec => Flash!Safety
<1>1. Init => Flash!Init
  <2> SUFFICES ASSUME Init PROVE Flash!Init
    OBVIOUS
  <2>1. boot \in Image
    BY InvInit DEF Inv, TypeOK
  <2> QED
    BY <2>1 DEF Init, Flash!Init, Stage
<1> QED
  BY <1>1, StepFlashes, Invariance, PTL DEF Spec, Flash!Safety, Shown, ShownImage
=============================================================================
