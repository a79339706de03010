------------------------------- MODULE BootImg -------------------------------
(***************************************************************************)
(* mkbootimg and unmkbootimg, run one after the other by a shell: pack a   *)
(* boot image, take it apart, rebuild it with the command that unmkbootimg *)
(* prints, and so on.                                                      *)
(*                                                                         *)
(* A file is what it is a copy of and its size; an image is a header and,  *)
(* for each part, what was written at which offset.  Numbers are kept:     *)
(* Word is 2^32 in the code, the page sizes are 2048 to 16384.             *)
(***************************************************************************)
EXTENDS Integers

CONSTANTS
  Word,        \* range of uint32_t
  PageSizes,   \* accepted by --pagesize
  HdrSize,     \* sizeof(boot_img_hdr)
  ArgsSize, ExtraSize, NameSize,  \* BOOT_ARGS_SIZE and so on
  FileSizes,   \* sizes of the files to pack
  CmdLens, NameLens, Bases, Offsets,  \* lengths and load addresses to pack
  Foreign,     \* TRUE: there may be an image made by another tool
  Faults,      \* TRUE: opening, reading and writing may fail
  MaxPacks,    \* bound: the first runs of mkbootimg may pack new files
  MaxRuns      \* bound on the number of times mkbootimg is run

Parts == {"kernel", "ramdisk", "second"}
Loads == Parts \cup {"tags"}

ASSUME SizesAssumption ==
  /\ Word \in Nat /\ Word > 1 /\ PageSizes \subseteq 1 .. (Word \div 8)
  /\ HdrSize \in Nat /\ \A p \in PageSizes : HdrSize <= p /\ HdrSize > 0
  /\ ArgsSize \in Nat /\ ArgsSize > 1 /\ ExtraSize \in Nat /\ ExtraSize > 1
  /\ NameSize \in Nat
  /\ FileSizes \subseteq 0 .. (Word \div 2 - 1)
  /\ CmdLens \subseteq Nat /\ NameLens \subseteq Nat
  /\ Bases \subseteq 0 .. (Word - 1)
  /\ Offsets \subseteq [Loads -> 0 .. (Word - 1)]
  /\ Foreign \in BOOLEAN /\ Faults \in BOOLEAN /\ MaxPacks \in Nat /\ MaxRuns \in Nat

(* "none": the option is not given; "NONE": --ramdisk NONE.                *)
File == [of : Parts \cup {"garbage", "none", "NONE"}, size : Nat]
Absent == [of |-> "none", size |-> 0]
NONE == [of |-> "NONE", size |-> 0]

(* boot_img_hdr; cmd and extra are the lengths of the two command lines.   *)
Header == [size : [Parts -> Nat], addr : [Loads -> Nat], page : Nat,
           name : Nat, cmd : Nat, extra : Nat, osver : BOOLEAN]

(* A command line for mkbootimg.                                           *)
Args == [file : [Parts -> File], base : Nat, off : [Loads -> Nat], page : Nat,
         name : Nat, cmd : Nat]

NoHeader == [size |-> [x \in Parts |-> 0], addr |-> [x \in Loads |-> 0], page |-> 0,
             name |-> 0, cmd |-> 0, extra |-> 0, osver |-> FALSE]
NoImage == [hdr |-> NoHeader, part |-> [x \in Parts |-> Absent],
            at |-> [x \in Parts |-> 0], size |-> -1]
NoArgs == [file |-> [x \in Parts |-> Absent], base |-> 0, off |-> [x \in Loads |-> 0],
           page |-> 0, name |-> 0, cmd |-> 0]

-----------------------------------------------------------------------------
(* Arithmetic of the two programs *)

U32(n) == n % Word

(* write_padding: the bytes after an item, pagemask being page - 1.        *)
Padding(page, n) == IF n % page = 0 THEN 0 ELSE page - (n % page)

(* Where unmkbootimg looks for the parts.                                  *)
KernelOffset(h) == h.page

(* Mutant: the header page is forgotten.                                   *)
RamdiskOffset_NoHeader(h) == U32((U32(h.size["kernel"] + h.page - 1) \div h.page) * h.page)

RamdiskOffset(h) == U32((U32(h.size["kernel"] + 2 * h.page - 1) \div h.page) * h.page)

(* Mutant: one page too many.                                              *)
SecondOffset_TooFar(h) ==
  U32((U32(h.size["kernel"] + h.size["ramdisk"] + 4 * h.page - 1) \div h.page) * h.page)

SecondOffset(h) ==
  U32((U32(h.size["kernel"] + h.size["ramdisk"] + 2 * h.page - 1) \div h.page) * h.page)

OffsetOf(x, h) ==
  CASE x = "kernel" -> KernelOffset(h)
    [] x = "ramdisk" -> RamdiskOffset(h)
    [] x = "second" -> SecondOffset(h)

(* Mutant: the second half is taken whatever the length.                   *)
ExtraField_Always(n) == n - (ArgsSize - 1)

(* strncpy of the command line into the header.                            *)
CmdField(n) == IF n < ArgsSize - 1 THEN n ELSE ArgsSize - 1
ExtraField(n) == IF n >= ArgsSize - 1 THEN n - (ArgsSize - 1) ELSE 0

HeaderOf(a) ==
  [size |-> [x \in Parts |-> 0],
   addr |-> [x \in Loads |-> U32(a.base + a.off[x])],
   page |-> a.page, name |-> a.name, cmd |-> CmdField(a.cmd), extra |-> ExtraField(a.cmd),
   osver |-> FALSE]

-----------------------------------------------------------------------------
VARIABLES
  pc,      \* which command of which program runs
  runs,    \* how often mkbootimg was started
  args,    \* the command line of mkbootimg
  hdr,     \* the header in memory
  pos,     \* bytes written so far
  img,     \* the image file
  saved,   \* the files unmkbootimg writes
  rebuild, \* the command unmkbootimg printed
  status,  \* exit status of the last program
  orig,    \* history: the image the printed command and the files are from
  late     \* history: data was lost after the last check of a write

vars == <<pc, runs, args, hdr, pos, img, saved, rebuild, status, orig, late>>

Rest == "shell"
PCs == {Rest, "args", "load", "open", "whdr", "wkernel", "wramdisk", "wsecond", "exit",
        "uload", "ukernel", "uramdisk", "usecond", "uprint"}

(* An image of another tool: laid out as bootimg.h says, with os_version.  *)
ForeignImage(p, k, r) ==
  [hdr |-> [NoHeader EXCEPT !.page = p, !.osver = TRUE,
                            !.size = [NoHeader.size EXCEPT !["kernel"] = k, !["ramdisk"] = r]],
   part |-> [x \in Parts |-> IF x = "kernel" THEN [of |-> "kernel", size |-> k]
                             ELSE IF x = "ramdisk" THEN [of |-> "ramdisk", size |-> r]
                             ELSE Absent],
   at |-> [x \in Parts |-> IF x = "kernel" THEN p
                           ELSE IF x = "ramdisk" THEN p + k + Padding(p, k) ELSE 0],
   size |-> p + k + Padding(p, k) + r + Padding(p, r)]

Init ==
  /\ pc = Rest /\ runs = 0 /\ pos = 0 /\ status = 0 /\ late = FALSE
  /\ args = NoArgs /\ rebuild = NoArgs /\ hdr = NoHeader
  /\ saved = [x \in Parts |-> Absent]
  /\ \/ img = NoImage
     \/ Foreign /\ \E p \in PageSizes, k \in FileSizes \ {0}, r \in FileSizes \ {0} :
                      img = ForeignImage(p, k, r)
  /\ orig = NoImage

-----------------------------------------------------------------------------
(* mkbootimg *)

Fail == pc' = Rest /\ status' = 1

(* The user packs files of his own: no second stage, or one.               *)
Pack ==
  /\ pc = Rest /\ runs < MaxPacks
  /\ \E k, r \in FileSizes, s \in FileSizes \cup {-1}, none \in BOOLEAN,
        page \in PageSizes, name \in NameLens, cmd \in CmdLens, base \in Bases, off \in Offsets :
       args' = [file |-> [x \in Parts |->
                            CASE x = "kernel" -> [of |-> "kernel", size |-> k]
                              [] x = "ramdisk" -> IF none THEN NONE ELSE [of |-> "ramdisk", size |-> r]
                              [] x = "second" -> IF s = -1 THEN Absent ELSE [of |-> "second", size |-> s]],
                base |-> base, off |-> off, page |-> page, name |-> name, cmd |-> cmd]
  /\ pc' = "args" /\ runs' = runs + 1
  /\ UNCHANGED <<hdr, pos, img, saved, rebuild, status, orig, late>>

(* The printed command names files: they are read when it is run.          *)
Recalled ==
  [rebuild EXCEPT !.file = [x \in Parts |-> IF rebuild.file[x] = Absent THEN Absent ELSE saved[x]]]

(* The user runs the command that unmkbootimg printed.                     *)
Rebuild ==
  /\ pc = Rest /\ runs < MaxRuns
  /\ rebuild # NoArgs
  /\ args' = Recalled
  /\ pc' = "args" /\ runs' = runs + 1
  /\ UNCHANGED <<hdr, pos, img, saved, rebuild, status, orig, late>>

(* The checks of main up to the command line.                              *)
Accepts(a) ==
  /\ a.page \in PageSizes
  /\ a.file["kernel"].of # "none" /\ a.file["ramdisk"].of # "none"
  /\ a.name < NameSize
  /\ a.cmd <= ArgsSize + ExtraSize - 2

CheckArgs ==
  /\ pc = "args"
  /\ IF Accepts(args)
       THEN hdr' = HeaderOf(args) /\ pc' = "load" /\ UNCHANGED status
       ELSE Fail /\ UNCHANGED hdr
  /\ UNCHANGED <<runs, args, pos, img, saved, rebuild, orig, late>>

(* load_file of kernel, ramdisk and second stage.                          *)
Load ==
  /\ pc = "load"
  /\ \/ /\ hdr' = [hdr EXCEPT !.size = [x \in Parts |-> args.file[x].size]]
        /\ pc' = "open" /\ UNCHANGED status
     \/ Faults /\ Fail /\ UNCHANGED hdr
  /\ UNCHANGED <<runs, args, pos, img, saved, rebuild, orig, late>>

(* fopen with "wb" truncates what was there.                               *)
Open ==
  /\ pc = "open"
  /\ \/ /\ img' = [NoImage EXCEPT !.size = 0]
        /\ pos' = 0 /\ late' = FALSE
        /\ pc' = "whdr" /\ UNCHANGED status
     \/ Faults /\ Fail /\ UNCHANGED <<img, pos, late>>
  /\ UNCHANGED <<runs, args, hdr, saved, rebuild, orig>>

(* Mutant: the partial image stays.                                        *)
Unlink_Missing(i) == i

(* goto fail                                                               *)
Unlink(i) == NoImage

WriteFails ==
  /\ Faults
  /\ Fail
  /\ img' = Unlink(img)
  /\ UNCHANGED pos

WriteHeader ==
  /\ pc = "whdr"
  /\ \/ /\ pos' = HdrSize + Padding(args.page, HdrSize)
        /\ img' = [img EXCEPT !.hdr = hdr, !.size = pos']
        /\ pc' = "wkernel" /\ UNCHANGED status
     \/ WriteFails
  /\ UNCHANGED <<runs, args, hdr, saved, rebuild, orig, late>>

(* fwrite of a part and its padding.                                       *)
Write(x, next) ==
  \/ /\ pos' = pos + hdr.size[x] + Padding(args.page, hdr.size[x])
     /\ img' = [img EXCEPT !.part[x] = args.file[x], !.at[x] = pos, !.size = pos']
     /\ pc' = next /\ UNCHANGED status
  \/ WriteFails

WriteKernel ==
  /\ pc = "wkernel"
  /\ Write("kernel", "wramdisk")
  /\ UNCHANGED <<runs, args, hdr, saved, rebuild, orig, late>>

WriteRamdisk ==
  /\ pc = "wramdisk"
  /\ Write("ramdisk", "wsecond")
  /\ UNCHANGED <<runs, args, hdr, saved, rebuild, orig, late>>

WriteSecond ==
  /\ pc = "wsecond"
  /\ \/ /\ args.file["second"].of = "none"
        /\ pc' = "exit" /\ UNCHANGED <<pos, img, status>>
     \/ args.file["second"].of # "none" /\ Write("second", "exit")
  /\ UNCHANGED <<runs, args, hdr, saved, rebuild, orig, late>>

(* return 0 without fclose: stdio writes what it still holds, and a        *)
(* failure of that goes unnoticed.                                         *)
Exit ==
  /\ pc = "exit"
  /\ pc' = Rest /\ status' = 0
  /\ \/ UNCHANGED <<img, late>>
     \/ /\ Faults
        /\ \E n \in {0, hdr.page} : img' = [img EXCEPT !.size = n]
        /\ late' = TRUE
  /\ UNCHANGED <<runs, args, hdr, pos, saved, rebuild, orig>>

-----------------------------------------------------------------------------
(* unmkbootimg *)

Unpack ==
  /\ pc = Rest /\ img # NoImage
  /\ pc' = "uload"
  /\ UNCHANGED <<runs, args, hdr, pos, img, saved, rebuild, status, orig, late>>

(* load_file keeps the size in an int: an image of 2^31 bytes or more has  *)
(* a negative size, or that of its last bytes.                             *)
LoadedSize(i) ==
  LET sz == U32(i.size) IN IF sz < Word \div 2 THEN sz ELSE sz - Word

Loadable(i) == LoadedSize(i) >= HdrSize

LoadImage ==
  /\ pc = "uload"
  /\ \/ /\ Loadable(img)
        /\ hdr' = img.hdr /\ orig' = NoImage
        /\ pc' = "ukernel" /\ UNCHANGED status
     \/ /\ ~Loadable(img) \/ Faults
        /\ Fail /\ UNCHANGED <<hdr, orig>>
  /\ UNCHANGED <<runs, args, pos, img, saved, rebuild, late>>

(* The bytes at an offset are a part, or something else.                   *)
ReadAt(x, offset) ==
  IF offset = img.at[x] /\ offset + hdr.size[x] <= LoadedSize(img)
    THEN img.part[x]
    ELSE [of |-> "garbage", size |-> hdr.size[x]]

(* save_file, skipped for an empty part.                                   *)
Save(x, next) ==
  /\ \/ /\ hdr.size[x] = 0
        /\ pc' = next /\ UNCHANGED <<saved, status>>
     \/ /\ hdr.size[x] # 0
        /\ saved' = [saved EXCEPT ![x] = ReadAt(x, OffsetOf(x, hdr))]
        /\ pc' = next /\ UNCHANGED status
     \/ /\ hdr.size[x] # 0 /\ Faults
        /\ saved' = [saved EXCEPT ![x] = [of |-> "garbage", size |-> 0]]
        /\ Fail
  /\ UNCHANGED <<runs, args, hdr, pos, img, rebuild, orig, late>>

SaveKernel == pc = "ukernel" /\ Save("kernel", "uramdisk")
SaveRamdisk == pc = "uramdisk" /\ Save("ramdisk", "usecond")
SaveSecond == pc = "usecond" /\ Save("second", "uprint")

(* Mutant: only the first half of the command line is printed.             *)
CommandOf_FirstHalf(h) ==
  [file |-> [x \in Parts |-> IF h.size[x] # 0 THEN saved[x] ELSE Absent],
   base |-> 0, off |-> h.addr, page |-> h.page, name |-> h.name, cmd |-> h.cmd]

(* The command for rebuilding the image: base 0, the load addresses as     *)
(* offsets, an option for every part that is not empty.                    *)
CommandOf(h) ==
  [file |-> [x \in Parts |-> IF h.size[x] # 0 THEN saved[x] ELSE Absent],
   base |-> 0, off |-> h.addr, page |-> h.page, name |-> h.name,
   cmd |-> IF h.cmd # 0 THEN h.cmd + h.extra ELSE 0]

PrintCommand ==
  /\ pc = "uprint"
  /\ rebuild' = CommandOf(hdr) /\ orig' = img
  /\ pc' = Rest /\ status' = 0
  /\ UNCHANGED <<runs, args, hdr, pos, img, saved, late>>

(* The shell session may end after any command.                            *)
Over == pc = Rest /\ UNCHANGED vars

Next ==
  \/ Pack \/ Rebuild \/ CheckArgs \/ Load \/ Open \/ WriteHeader \/ WriteKernel
  \/ WriteRamdisk \/ WriteSecond \/ Exit
  \/ Unpack \/ LoadImage \/ SaveKernel \/ SaveRamdisk \/ SaveSecond \/ PrintCommand
  \/ Over

Spec == Init /\ [][Next]_vars

-----------------------------------------------------------------------------
(* Properties *)

Image == [hdr : Header, part : [Parts -> File], at : [Parts -> Nat], size : Int]

(* Types.  In particular no field of the header mkbootimg writes, and no   *)
(* length that unmkbootimg prints, is negative.                            *)
TypeOK ==
  /\ pc \in PCs /\ runs \in Nat /\ args \in Args /\ hdr \in Header /\ pos \in Nat
  /\ img \in Image /\ saved \in [Parts -> File] /\ rebuild \in Args
  /\ status \in {0, 1} /\ orig \in Image /\ late \in BOOLEAN

(* When unmkbootimg gets to the rebuild command, kernel and ramdisk are    *)
(* byte for byte what mkbootimg packed: its offset arithmetic in 32 bits   *)
(* agrees with mkbootimg's padding, for every image of less than 4 GiB.    *)
SavedAsPacked ==
  pc = "uprint" /\ ~late /\ img.size < Word =>
    \A x \in {"kernel", "ramdisk"} : hdr.size[x] # 0 => saved[x] = img.part[x]

(* unmkbootimg never reads beyond an image that is complete, although it   *)
(* does not compare the sizes in the header with the size of the file.     *)
ReadsInBounds ==
  pc \in {"ukernel", "uramdisk", "usecond"} /\ ~late /\ img.size < Word =>
    \A x \in Parts : hdr.size[x] # 0 => OffsetOf(x, hdr) + hdr.size[x] <= LoadedSize(img)

Padded(i, x) == i.hdr.size[x] + Padding(i.hdr.page, i.hdr.size[x])

(* Header page and parts, each padded to a page.                           *)
Whole(i) ==
  /\ i.hdr.page > 0
  /\ i.size = i.hdr.page + Padded(i, "kernel") + Padded(i, "ramdisk") + Padded(i, "second")
  /\ \A x \in Parts : i.part[x].size = i.hdr.size[x]

(* When mkbootimg has ended, with whatever status, there is no partial     *)
(* image, unless the last flush failed.                                    *)
NoPartialImage == pc = Rest /\ img # NoImage /\ ~late => Whole(img)

SameBytes(i, j) ==
  /\ i.hdr = j.hdr /\ i.size = j.size
  /\ \A x \in Parts : i.hdr.size[x] # 0 => i.part[x] = j.part[x] /\ i.at[x] = j.at[x]

(* The printed command is accepted by mkbootimg and gives the same image   *)
(* again, if both required parts are there, the extracted files are right  *)
(* and the image has no os_version: load addresses (modulo 2^32), the two  *)
(* halves of the command line, name and page size all survive.             *)
RebuildsSame ==
  Whole(orig) /\ ~orig.hdr.osver /\ args = Recalled
    /\ (\A x \in Parts : orig.hdr.size[x] # 0 => saved[x] = orig.part[x])
    /\ orig.hdr.size["kernel"] # 0 /\ orig.hdr.size["ramdisk"] # 0 =>
    /\ pc = "args" => Accepts(args)
    /\ pc = "exit" => SameBytes(img, orig)

-----------------------------------------------------------------------------
(* What a comment says, and the programs do not do.                        *)

(* bootimg.h:66-81: the second stage follows after 1 + n + m pages, and    *)
(* that is where it has to be read from.                                   *)
SecondSavedAsPacked ==
  pc = "uprint" /\ hdr.size["second"] # 0 => saved["second"] = img.part["second"]

-----------------------------------------------------------------------------
(* Instances for TLC.  A word of 128 and pages of 4 bytes keep the         *)
(* proportions of the code: a header shorter than a page, files up to half *)
(* a word, sums that exceed a word.                                        *)
MCOffsets ==
  {[x \in Loads |-> CASE x = "kernel" -> 8 [] x = "ramdisk" -> 16
                      [] x = "second" -> 12 [] x = "tags" -> 1],
   [x \in Loads |-> IF x = "tags" THEN 127 ELSE 100]}
OneOffset == {[x \in Loads |-> 100]}
=============================================================================
