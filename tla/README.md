# Verification of AKB (Automatic Kernel Builder)

TLA+ models of AKB and of the libraries kept with it, the TLC runs that check
them on small instances, and TLAPS proofs for arbitrary ones. Line numbers refer
to the sources in `src/`; `PROJECT.json` gives the lines each definition models.

    tlc -config OtaInstall.cfg MCOtaInstall        # one run (see "Runs")
    tlapm OtaInstallProofs.tla                     # one module of proofs

## 1. Inventory

AKB builds an Android kernel and wraps it into a zip that a recovery flashes. Its
parts, from the phone back to the build machine, and then the libraries:

| part | source | state it keeps | operations | modelled in |
|---|---|---|---|---|
| OTA installer | `sources/otagen/META-INF/.../update-binary`, `flashme.sh`, `tools/fcore.sh` | boot and dtbo partition, `/tmp/otapack`, mounts, exit status | unzip, mount, dump, split, repack, sign and wrap, size check, erase, write, dtbo, abort, cleanup | `OtaInstall`; what it promises: `Flashing` |
| boot image tools | `bootimg_tools/mkbootimg/{mkbootimg,unmkbootimg}.c`, `bootimg.h` | image file, header, extracted files, printed command | pack, extract, rebuild | `BootImg` |
| script compiler | `cc/akb_cc.c` | options, shell description, cipher state, generated program | parse, read, evaluate the shell, encrypt, emit, compile | `AkbProgram`, `AkbData`, `Arc4` |
| compiled programs | the runtime text `RTC` in `cc/akb_cc.c:100-407` | argv, environment, cipher state | `chkenv`, `untraceable`, `xsh` (two passes), exec | `AkbProgram`, `Arc4` |
| release packaging | `makefile`, `btool/*.sh`, `deb_prop` | `tmplib/`, `build/`, `out/`, `tmp/` | compile each script with akb_cc, assemble zip, installer and deb | `Packaging` |
| installer of the tools | `install/installer.sh` | `/usr/bin` | copy | `AkbRelease` |
| tree initialisation | `sources/bin/init.sh` | a kernel tree, `../tmp` | move away, make `sources/`, move back, remove | `KernelTree` |
| kernel build scripts | `sources/bin/{build,prepare,prepare_install,clean}.sh`, `make.prop` | `out/`, exit status | configure, build, clean | `KernelTree` (in part) |
| mkbootfs | `bootimg_tools/cpio/mkbootfs.c` | path buffers, table of modes, byte count | read the table, walk, emit | `Mkbootfs` |
| libmincrypt | `bootimg_tools/libmincrypt` | hash contexts | SHA-1, SHA-256, RSA and ECDSA verification, DER | `P256Int`, `P256Field`, `P256Ecdsa`, `MinHash`, `Sha`, `Signatures` |
| Android system headers | `bootimg_tools/include` | containers, counts, locks | their inline functions | section 2, "Headers" |
| prebuilt tools | `sources/otagen/tools/*` (binaries) | | | only as the environment of `OtaInstall` |

What is really built: the Makefile of `bootimg_tools` compiles mkbootimg,
unmkbootimg and libmincrypt, of which mkbootimg calls SHA-1 only. mkbootfs and
the headers other than `mincrypt/sha.h` are shipped with the sources and compiled
by nothing in the repository. They are modelled because they are most of its C
code and the part with threads and shared memory; what is shown about them is
about the code as it stands, not about something a release of AKB runs.

How the parts interact. AKB's own parts have no messages and no threads:
everything goes through files, exit statuses and the environment. `fcore.sh`
calls unpackbootimg and mkbootimg (ARM builds of the boot image tools). Every
script of a release is compiled by akb_cc, and the compiled scripts call one
another (`akb_prepare` runs `akb_clean` and then `akb_build`), so that compiled
programs start compiled programs and hand them their environment. A release is
made on one machine and its programs run on another one in a kernel tree:
`AkbRelease` composes the two. `make.prop` reaches the phone as `author.prop`.

What is hard, and which properties are about it (with lines: "hazards" in
`PROJECT.json`):

- *Partial failure.* The installer, the packaging scripts and init.sh look at the
  status of only a few of their commands. What matters is which failures do harm:
  `FitsPartition`, `AbortKeepsBoot`, `ImageSurvives`, `DoneMeansInstalled`,
  `DoneMeansDtbo`, `OnlyFailuresHarm`, `TreeKept`; for mkbootimg `NoPartialImage`.
- *Crash.* The power is cut between erase and write; a make or an init is
  interrupted anywhere, and the next one starts from what is left:
  `ImageSurvives`, `Flashes`, `CleanMakeIsFresh`, `TreeKept`.
- *Stale state.* `/tmp/otapack` of an earlier attempt, `tmplib/` and `build/` of an
  earlier make, extracted files of an earlier extraction, a variable in the
  environment, a shell replaced after compilation: `DoneMeansInstalled`,
  `CleanMakeIsFresh`, `RebuildsSame`, `EnvRestored`, `ScriptAsWritten`.
- *Order.* The size check after everything that makes the image longer; some
  twenty cipher operations of writer and reader in the same order; plain memory
  ordered by one atomic load: `FitsPartition`, `RunsScript`, `TextsDecrypt`,
  `AtomicsOrder`.
- *Numbers at their edge.* An image as large as the partition, offsets and sizes in
  32 bits, a command line on the boundary of two header fields, a loop ended by a
  count kept by hand, carries between limbs: `SuitedPackageInstalls`,
  `SavedAsPacked`, `ReadsInBounds`, `RebuildsSame`, `ArgsKept`, `Located`,
  `AllPrinted`, `ArithmeticIsExact`, `SignaturesAreExact`, `DataArrives`.
- *Interleavings.* Programs that fork and exec each other; a file that changes
  while it is archived; threads that release, promote, wait and time out:
  `ArgsKept`, `ArchiveIsRight`, `ObjectsLiveAsPointed`, `LockingIsRight`.
- *Long sequences of calls* on linked and shared memory, with callbacks:
  `LinksAreWhole`, `ContentsAreRight`, `ContainersImplement`.
- *Must happen.* A program that executes itself must get to its script, loops
  without a bound must end: `RunsScript`, `Finishes`, `InverseEnds`.

## 2. Modules

### OtaInstall, Flashing

One variable per medium: `boot` and `dtbo` (partitions), `tmp` (`/tmp/otapack`),
`mounted`; `pc` is the command the script is at and `why` the message of the last
abort. `pkg` and `dev` are the zip and the phone; `started` and `faults` are
history.

A boot image is a record: its format, where its kernel, its other contents and
its dtb come from (the stock phone, a package, damaged, absent), whether it has
the Nook key, the SEANDROIDENFORCE tag and a signature, and its size. Contents
are compared by the scripts nowhere; sizes are, so they are kept.

| action | code |
|---|---|
| `StartInstall` | update-binary:33-41, cleanup and unzip |
| `Setup` | update-binary:42-94, mounts and busybox |
| `Dump`, `Split` | split_boot, fcore.sh:16-78 (Nook key, five splitters, the `$?` of the chain, the plain dtb) |
| `Repack` | fcore.sh:79-175 (choice of files, five packers) |
| `Futility`, `Avb`, `Blobpack`, `UserScript`, `Trailer` | fcore.sh:176-236 |
| `SizeCheck`, `EraseBoot`, `WriteBoot` | fcore.sh:237-248 |
| `FindDtbo`, `EraseDtbo`, `WriteDtbo` | fcore.sh:249-268 |
| `Finish`, `Abort` | update-binary:95-105 and 23-32 |
| `PowerLoss` | external |

Where the code does not look at a status, the action goes on after a failure,
with what the failing command leaves: half a file, an old one, or none. `Failed`
and `MediaFaults` say which failures a run admits, and `faults` records them by
what the script makes of them: "tool" is the failure of a command whose status is
tested, "unnoticed" one of those it goes on from (unpackelf and elftool, 38-41; the
gzip and cat that join kernel and dtb, 72-74; mkmtkhdr, 158; the check of the AVB
signature, 199; blobpack and its cat, 216-217; dhtbsign, whose half of
`boot-new-signed.img` is moved over the image, 230-231; the cat of the Nook key,
234). Left out: the banner, messages and sleeps; the content of
`author.prop` beyond partition and device name; the `lz4` and `xz` tools, which
no script calls.

`Flashing` is what an installer promises whatever its tools do: an attempt first
makes an image that fits without touching the partition, then erases it, then
writes it, and then ends, unless the power is cut. `OtaInstall` implements it
(`Flashes`), its stage being a function of `pc`; the liveness part, that every
attempt ends, is included. `Flashing!Safety` is the rest, and is proved.

### BootImg

A shell session that runs mkbootimg, unmkbootimg and the command unmkbootimg
prints, in any order, starting with no image or with an image of another tool
(`ForeignImage`). `img` is the image file: its header, for each part what was
written and at which offset, and its length. `Word` stands for 2^32, and every
sum the programs keep in a `uint32_t` or an `int` is reduced accordingly
(`U32`, `LoadedSize`). The size of a read is checked against the file by nobody:
`ReadAt` yields garbage unless offset and length are right.

mkbootimg is one action per check, load and write (`CheckArgs`, `Load`, `Open`,
`WriteHeader`, `WriteKernel`, `WriteRamdisk`, `WriteSecond`, `Exit`), any of which
may fail; `WriteFails` is its `fail:` label with the `unlink`. `Exit` returns
without `fclose`: what stdio still holds may be lost with status 0 (`late`).
unmkbootimg is `LoadImage`, three `Save` actions with the offset arithmetic of the
code, and `PrintCommand`. Left out: the SHA-1 `id`, a function of the parts; the
spelling of numbers; quoting of name and command line.

### AkbProgram, AkbData, Arc4

`AkbProgram`: `cc` is akb_cc with its globals, `bin` the program it has made,
`proc` the processes that run it. The cipher is symbolic: its state is the
sequence of `key` and `arc4` operations since `stte_0`, and decryption gives the
plain text exactly if the reader goes through the state the writer encrypted in.
`EncryptOps` is the list in `write_C`, `HeadOps`, `BranchOps`, `TextOps` and
`BodyOps` those of `xsh`. The one thing assumed of RC4 is that two strings
decrypted with a wrong key differ (`Same`). `chkenv`, `DecryptHead`,
`DecryptBody`, `Reexecute` and `Execute` are the runtime, from `main` to the
second `execvp`; with -U `untraceable` comes before, and a fork that fails or a
kernel that lets no child attach ends the program. `Positional` is the shell: the
first word after the command is `$0`, the rest are `$@`. `Start`, `ScriptForks`,
`ScriptExecs`, `Ends`, `ShellChanges` and `Expires` are users, scripts and the
machine; a child inherits the environment, an exec also the process id. A user may
have set the variable that a process of `Taken` will look for (`Foreign`): `chkenv`
then returns -1 and the program ends with "abnormal behavior!". `Execute` fails
without a shell and may fail for a `long` script, which is one argument of execvp:
read_script only warns of it (akb_cc.c:740-748). Left out:
-D, which prints calls, and -B, which puts the words `busybox sh` in front.
`Words` is the set of strings, a parameter because the provers have no fact that
a given literal is a string; in the runs it is `STRING`.

`Arc4` is the cipher itself, `stte_0`, `key` and `arc4` with N bytes, the
compiler's and the program's copies side by side. `key` goes on at the index that
the last `arc4` has left, and may skip the end of a key; `wide`, `mail` and `done`
follow that index at its real size through the calls of `write_C`, for every
length of the message of -m.

`AkbData` is the loop in `write_C` that prints the encrypted arrays, in an order
and with a padding drawn by `rand`, into one array `data[]`, with a `#define` for
each. `numd` is the count that ends the loop, incremented at fifteen places of
`write_C`; `Scan` is the switch that falls through to the first array that is not
printed. `rand_mod` gives every value the C function can return.

### Packaging, KernelTree, AkbRelease

`Packaging` keeps, for every file that the scripts treat differently, what it
holds: nothing, an empty file, or the build of a revision of the sources. `todo`
is what make still has to do. An action is one script (`PrepareTools`, `GenCC`,
`Gen`, `MakeScripts`, `Pack`, `RemoveTmp`), with the outcome of its failing
commands as parameters; `Interrupt` and `InterruptMakej` stop a make between two
scripts and within the compilation of the scripts, which are compiled in the order
of `Turn` to `.x` files that two programs may share (`Script`), `Edit` changes the sources.
`outside` records that a relative path has led beside the repository.

`KernelTree` is init.sh command by command (`MoveAway`, `MakeDirs`, `MoveGit`,
`MoveBack`, `RemoveTmpDir`), with moves that fail, `Halt` between any two, and any
files of somebody else (`Others`) in an existing `../tmp`. The shell's `*` matches
no hidden name (`Star`); a mv onto a file replaces it, onto a directory of the same
name (`Folders`) it is refused (`InTheWay`, `Refused`). A directory `sources/` of
somebody else in `../tmp` is excluded (`TreeNames`). A place is in the tree or in `../tmp` under a
number of nested `sources/`; moving a directory onto one of its name works only
if that one is empty. `PrepareTree`, `Build` and `Clean` are the other scripts,
under `set -e`. `Build` ends with 127 at `exportmkval`, or earlier when make.prop
has a line 19; what follows in build.sh is never reached and is not modelled.

`AkbRelease` composes them: `Install` puts the programs of the zip or the deb on
the user's machine, empty and missing ones included, of whatever is packed at any
moment between two makes, also after interrupted ones; the user runs those. From
then on only the user is followed, and TLC identifies states that differ in what
the developer has (`VIEW Followed`).

### Mkbootfs

The walk of mkbootfs.c with its two path buffers cut back after every entry, a
frame of `stack` for a directory being read, `lstat` and `read` as separate
steps between which the file may change or vanish, the table of -f with its
doubling, and the archive as the sequence of headers and data with the offsets at
which they were written: `pos` counts the bytes, `total_size` is the program's own
count. Owner, times and inode numbers are left out.

### libmincrypt

- `P256Int`: p256.c, integers as sequences of digits; `Ripple` is the loop that
  carries or borrows, `Reduce` a round of `p256_modmul`, `modinv_turn` a turn of
  the inverse.
- `P256Field`: the nine limbs of p256_ec.c with the bounds its comments state:
  sums, products, `felem_reduce_degree` limb by limb, `felem_inv` as a chain,
  conversion to and from Montgomery form.
- `P256Ecdsa`: points, tables, the comb and the windows on residues, and
  `p256_ecdsa_verify` step by step, one action per turn of the inverse.
- `MinHash`: init, update and final of both hashes, over a free transform; `Sha`:
  the two transforms, one action per round, on sets of bits of 32-bit words.
- `Signatures`: rsa.c on words of memory that `modpow` reuses, and dsa_sig.c.

`Loops` has counted loops in a form TLC evaluates eagerly.

### Headers

| module | header | what is modelled |
|---|---|---|
| `LruCache`, abstract `RecencyMap` | `utils/LruCache.h` | entries on a heap, both chains, a listener that calls the cache again |
| `Lists`, abstract `SeqLists` | `utils/List.h`, `sysutils/List.h` (an identical copy; the map gives some definitions the lines of the one and some of the other) | rings of heap nodes, ranges, assignment, an iterator the client keeps |
| `ListNodes` | `cutils/list.h` | embedded nodes, loops whose body removes |
| `Vectors`, abstract `SeqLists` | `utils/{TypeHelpers,Vector,SortedVector,KeyedVector}.h` | construct, copy, move and destroy by traits; shared buffers; sorted and keyed vectors. `VectorImpl.cpp` is external |
| `BitSets` | `utils/BitSet.h`, `cutils/bitops.h` | words as sets of bits |
| `Locks` | `utils/{Mutex,RWLock,Condition,Singleton,Timers}.h` | threads over external pthreads, which may wake a waiter for nothing (`Spurious`); `nsecs_t` wraps at `Limit` |
| `RefCount`, `PointerOrder` | `utils/{StrongPointer,RefBase}.h` | every atomic operation of every call; comparison while addresses are used again. `RefBase.cpp` is external |
| `WeakMemory`, `Atomics`, `Tracing` | `cutils/atomic.h`, `cutils/trace.h` | the operations over a memory with histories and views, in the uses their comments name |
| `LogEntries` | `log/logger.h`, `log/log_read.h`, `private/android_logger.h` | records of four versions as bytes |
| `Flattenables` | `utils/Flattenable.h` | buffers and descriptors passed by reference |
| `Strings` | `utils/{String8,String16}.h` | the comparisons; `String8.cpp` and the like are external |

## 3. Runs

Each run is one question. "Fails" means that the run expects TLC to refute the
property, because a text of the repository says something the code does not do.

| run | cfg | what it shows |
|---|---|---|
| `ota_install` | OtaInstall | two attempts, seven packages on nine phones, all tool and media faults, power cuts: `TypeOK FitsPartition ImageSurvives DoneMeansInstalled AbortKeepsBoot DoneMeansDtbo MountsReleased`; without faults a package on a phone it suits is installed (`SuitedPackageInstalls`); the installer implements Flashing (`Flashes`) |
| `ota_done_means_written` | OtaDoneMeansWritten | *fails*: a failed write of boot ends in "Done!" |
| `bootimg` | BootImg | pack, extract, rebuild, with faults, foreign images: `TypeOK SavedAsPacked ReadsInBounds NoPartialImage RebuildsSame` |
| `bootimg_second` | BootImgSecond | *fails*: the second stage is extracted from the wrong offset |
| `akb_program` | AkbProgram | all options and scripts, two processes, two starts, faults: `TypeOK ScriptAsWritten ArgsKept EnvRestored RunsScript ExpiredEnds` |
| `akb_data` | AkbData | five arrays: `TypeOK Located AllPrinted Finishes` |
| `akb_release` | AkbRelease | makes, failures, interruptions, installation, use in a tree: `OnlyFailuresHarm TreeKept CleanMakeIsFresh PrepareRepeats` |
| `mkbootfs` | Mkbootfs | trees, prefixes, tables, changes meanwhile: `ArchiveIsRight` |
| `mincrypt` | Mincrypt | all of libmincrypt: `ArithmeticIsExact SignaturesAreExact InverseEnds` |
| `containers` | Containers | all call sequences on small heaps: `LinksAreWhole ContentsAreRight ContainersImplement` |
| `concurrency` | Concurrency | threads in all interleavings and memory orders: `LockingIsRight ObjectsLiveAsPointed AtomicsOrder` |
| `formats` | Formats | cipher, log records, flattening, strings: `TextsDecrypt DataArrives` |

In the last five runs a behaviour is about one of the parts (variable `part`), and
a property is the conjunction of named parts that the modules state and explain:
for instance `LinksAreWhole` of `ListIsSet`, `RingsAreWhole`, `NodesStayLinked`,
`VisitsAll` and `CellsLive`.

Bounds, and why they are enough:

- OtaInstall, `MaxAttempts` = 2: an attempt depends on earlier ones through the
  partitions, the mounts and `/tmp/otapack` only, and two attempts already leave
  each of them in every state a first one can. Packages and phones: one of each
  for every branch of `fcore.sh`. Sizes are small numbers such that a repacked
  image is below, at and above the size of the partition, before and after each
  wrapper.
- BootImg, `Word` = 128 with pages of 4: a header shorter than a page, files of
  0, 3, 4, 30 and 63 bytes: empty, just below and at a page, and up to half a
  word, so that images reach and exceed half a word, where the `int` of
  `load_file` turns negative, and a whole word. Command lines of 0, 2, 4 and 5
  characters for fields of 3 and 3: empty, the exact boundary, the maximum, one
  too many. `MaxPacks` = 1, `MaxRuns` = 2: one image packed, extracted any number
  of times, and one rebuild, which may overwrite the image it came from.
- AkbProgram, two process ids and `MaxStarts` = 2: a program that starts another
  as a child and one that execs it with the same id, the two ways in which one
  start can disturb the next. `Taken` is one of the two ids: its process is started
  by a user and by the script of the other one. `MaxChanges` = 1: the shell is replaced or removed
  once, at any moment.
- AkbData, `N` = 5 arrays, `RandMax` = 31: every order and padding, sizes with
  padding of none and of up to two bytes.
- AkbRelease: two revisions, two makes, one failure, one interruption; then three
  calls of init, one failed move, one interruption. A make sees earlier ones
  through the files they leave, and with two makes every target follows every
  other, finished or not. The tree has a file, a directory, `.git` and another
  hidden file; `../tmp` any of a file, a directory and a hidden file of the same
  names and one file of its own.
- Mkbootfs: three names, trees three levels deep, tables of one entry less than,
  as many as and one more than the array holds at first (`FirstSize` = 2 for 8),
  links around `LINKMAX` = 8 (for 1024), one change of the tree.
- libmincrypt, by scaling. `P256Int`: all integers of three two-bit digits, moduli
  with the top bit set, and without. `P256Field`: limbs of 13 and 12 bits in words
  of 16, p = 2^112 - 2^96 + 2^82 + 2^42 - 1, which has the shape of the real p
  with the bits of limbs 3, 6 and 7 at the same kind of place; elements with every
  limb 0 or at the bound its comment states. `P256Ecdsa`: the curve with p = 211,
  n = 197, b = 5, all r around 0 and n, keys on and off the curve, among them the
  one for which p256_is_valid_point leaves a sum above p, with a signature for it
  (r = 43). RSA: two words
  of four bits, every odd modulus with the top bit. At real size: the exponent of
  `felem_inv`, `kR` and `kRInv`, and all rounds of SHA-1 and SHA-256 on "abc" and
  on the paddings whose digests rsa.c has as constants.
- Containers: five addresses, a cache of capacity 2 with three keys, two lists,
  two heads with three items, vectors of up to three and two cells, words of 8
  bits. The addresses are interchangeable (`Symmetry`): `new` takes any free one
  and nothing compares them.
- Concurrency: three threads (`Threads`, and `N` = 3 where they are numbers), two
  of them with pointers (`Users`: one that makes objects and has two strong
  pointers, one with one), two objects; for the order of pointers three things at
  two addresses with two counter blocks, so that both are used again. `WeakMemory` lets a thread read any value not older than what it knows;
  it has no stores before the end of a location's history and no speculation, so
  it is stronger than C11 there. The masks of the bit operations are sets of bits.
  `MaxItems` = 2 for the queue: one item for each of two waiters, and a producer.
  `K` = 2 in place of 1000 for the units of time and `Limit` = 48 for 2^63: sums of
  clock and timeout are below and above it.
- Formats: RC4 of 4 bytes, with the real lengths for `ShellKeyIsWhole`; bytes of 8
  values; buffers of 0 to 20 with parts of 1, 3, 4 and 6; strings of up to two
  units, 0 among them.

Fairness:

- OtaInstall: `WF(Step)`. The recovery runs update-binary to its end and no
  command in it waits for anything but itself. Nobody is obliged to flash a zip
  (`StartInstall`), and power cuts are not fair.
- AkbProgram: `WF(Compile)` and `WF(Run(p))` for each process. The operating
  system runs every process, and none of these steps waits. No fairness for the
  script itself, which may run for ever, nor for users.
- AkbData and the turn of the inverse in libmincrypt: weak fairness of the loop, one
  thread that never waits. None is needed for `rand`: `Finishes` holds for every
  sequence of random numbers that ends each call of `rand_mod`, which the model
  takes as one step.

Deadlock is checked in the runs of installer, boot image tools and compiled
programs, where `Over` is the stuttering of a system that has nothing more to do.
The others say `CHECK_DEADLOCK FALSE`: a user may stop making, a client may stop
calling, a bound may be reached.

## 4. Proofs

What is proved holds for all values of the constants that satisfy the assumptions
named in the modules: any packages and phones, any sizes, number of attempts,
page size, word size, files, options, arguments, processes, arrays, makes, kernel
trees, failures, threads.

**OtaInstallProofs** (`SourcesAssumption`, `SizesAssumption`,
`EnvironmentAssumption`).
`FitsPartition` is not inductive: the size check compares with the dump, not with
the partition. `Inv` adds that the dump is never larger than the partition
(`DumpFits`), even after a read error and after the Nook key was cut off, and
`Invariance`, `TypeCorrect` and `FlashFits` follow. `AbortIsHarmless` needs only
that boot is what it was up to the erase (`BootKept`), `MountsAreReleased` that
`/system_root` is mounted only within `Avb` (`MountInv`). `DoneMeansInstalled`
and `ImageSurvives` need two more: `Fresh`, that from the unzip on
`/tmp/otapack` holds files of this package only, and `Came`, that until the size
check the repacked image has the expected contents *or is too large*. The second
disjunct is the interesting one: on a phone that is not Rockchip, `dd` copies a
whole foreign image as ramdisk, and what stops it is that with the CRC it has
become longer than the dump. The assumption that `RkCrc` is not 0 is used there.
`DtboIsWritten` follows from `Fresh` and the position of the last command.
`InstallerFlashes` is the safety half of the refinement, `Flash!Safety`: by `Inv`
every step is a step of `Flashing` (`StepFlashes`) or one it does not see
(`HiddenSteps`). The erase is where `Inv` is needed: the image that the next step
will write exists and fits. That every attempt ends is in `Flashes` and with TLC.

**BootImgProofs** (`SizesAssumption`). `BInv` says what the writer has put where
at each step, in unbounded arithmetic: positions are multiples of the page, the
kernel is at one page, the ramdisk behind the padded kernel. That the reader,
which computes modulo the word, finds them there is a lemma about `\div` and `%`
which needs that an image of less than a word has sizes that do not wrap.
`ExtractionIsExact`, `ReadsAreInBounds`, `ImagesAreWhole` and `BootTypeCorrect`
follow. The second stage is in bounds too, although at the wrong place.

`RebuildsSame` relates two images with a whole session between them, in which the
first may be overwritten. `RInv` keeps what is needed of it: the header being
written is that of a command line mkbootimg has accepted (`FromArgs`), an image
that is not of another tool has its parts where its header says (`Placing`), and
the printed command is that of the image it came from (`Printed`). Two facts about
the operators carry the step: a command line cut into two header fields and put
together is cut at the same place again (`OwnCommand`), and a load address of an
image of mkbootimg is less than a word, so that it is the same when it is added to
the base 0 of the printed command. `RebuildIsExact` follows.

**AkbProgramProofs** (`ProgramAssumption`). `Passes` says what a process has in
hand at each point: in the first pass its variable and the arguments of the start,
in the second the environment of the start and the arguments with or without the program's name in
front, according to the last option. With `TypeOK` it is inductive, for any
number of processes that fork and exec each other, and gives `ArgumentsAreKept`,
`EnvironmentIsRestored` and `ProgramTypeCorrect`. A variable that somebody else has
set stays in the environment through both passes and never equals that of `chkenv`,
whose count is positive; `Unspoilt` is what the two passes need of it.

`OnlyTheScriptRuns` does not follow the some twenty operations of the cipher. It
rests on their order at the end: `write_C` encrypts the second test right after the
text (`Sealed`), and `xsh` executes only if that test comes out right. Two lists of
operations that agree after the last one agree before it, so the text was decrypted
in the state it was encrypted in, whatever key, shell or date led there (`TextInv`).
That the right key does get there is the liveness property `RunsScript`.

**AkbDataProofs** (`DataAssumption`). `CountAgrees` relates the count to the
number of arrays that are left; with `Located` and the bound on `rand_mod`
(`RandModBound`) it is inductive. `DefinesLeadToArrays`, `EmissionIsComplete` and
`DataTypeCorrect` follow.

**AkbReleaseProofs** (`TreeNames`, `TreeBounds`: `.git` is hidden, the entries of
the tree that `*` matches are not, nothing is called `sources`, and the bounds are
numbers). That of the tree only what a failed or refused move back has left is
deleted with `../tmp`, and of a stranger's files only hidden and same-named ones
besides, needs the shape of the
nested `sources/` (`Nested`: no gaps, and not both a second level in the tree and a
first one in `../tmp`, so that moving `sources/` back never finds a directory in
its way), that a stranger's file at the top of `../tmp` means that the entry of its
name has not left the tree (`Twins`: so that the mv to `sources/` replaces nothing
of the kernel), and, during the moves back, that everything still in `../tmp` but a
stranger's hidden files is on the list or has failed (`Moving`); together they are `LostInv`. Calls without failure
and interruption keep kernel and `.git` together because all entries are at one
place at each step, one level deeper per call (`Undisturbed`), but for directories
whose name is taken in `../tmp` (`Blocked`). `TreeIsKept`
follows. For the packages, `Sound` says what a make without failures has made when
it comes to the command that packs, and `Whole` what is installed then;
`HarmNeedsFailure` and `PrepareIsRepeatable` follow. `Fresh` says for the next
command of a make that found no leftovers which files must be of the current
revision, and only those: `build/` may hold anything until it is filled. It gives
`CleanMakesAreFresh`.

**ConcurrencyProofs** (`LocksAssumption`: a finite set of threads, a null pointer
that is neither a thread nor an object). `LocksAreRight` has four parts in one
invariant, `LockInv`, because a thread moves through one `pc`. `SingletonInv`: the
lock is held from its taking to the return, and nobody else constructs meanwhile.
`WordsInv`: a writer is alone, and the words differ only between its two writes.
`QueueInv` is the one that took thought: "somebody is on the way" is not inductive,
since he may take one of two items. It says that while anybody waits there are at
most as many items as threads that will look at them before they wait, a broadcast
making all waiters look and a timeout or a wake-up for nothing taking nobody off.
`DeadlinesAgree` is
arithmetic, from the uniqueness of quotient and rest (`Division`, `Quotient`,
`Digits`), for every `K`, where the sum of clock and timeout is below `Limit`.

**PointerProofs** (`PointersAssumption`: finite sets of threads, pointers and
objects, objects are numbers in the order of their creation, NULL is none of them;
`OrderAssumption`: addresses are positive numbers). `PointersAreRight`. A call on a
strong or weak pointer is a list of atomic operations, `todo`, and between them the
counts do not agree with the pointers: that is what makes `CountsArePointers`,
which speaks of moments when no thread is in a call, not inductive. `RefInv` counts
references instead of pointers. A reference is held by a slot, unless the call that
will overwrite the slot has given it up already (`Kept`), or by a call that has
counted it for a slot it will still write (`Coming`); `Counted` says that both
counts are the numbers of these holders, at every step. `InOrder` and `Relies` give
the shape of the lists: first the new reference is counted, then the old one given
up, which may begin a chain of deletes as long as there are objects, at last the
slot is written; and only the owner of a slot writes it (`Own`), the member of an
object being its creator's as long as he holds it. `Doomed`: an object that is being
deleted has no reference, lives, and is deleted by one thread, once. `Living`: an
object with a reference lives, and one without is being deleted or was just made by
a thread that is about to count it (`Source`, `Fresh`). That a promotion and a last
release which meet cannot both succeed follows from `Counted` and `Doomed`: the
promotion counts only if the count is not 0, and then nobody is deleting. The part
about comparison is `OrdInv`: strong pointers have the address of a living object,
weak ones what their object had, and addresses tell apart the living while counter
blocks tell apart all that somebody still knows (`Apart`), so that a weak pointer to
an object that is gone never equals one to its successor at the same address. That
is the comparison of two `wp<T>`, which looks at the counter blocks. The one of
`wp<T>` with `wp<U>` (RefBase.h:271-274) looks at addresses only: what `KnowsObjects`
says of it is that equal means same address and no more. And the moves are those of
`Sources`: not from a member of the object that only the destination holds.

**AtomicsProofs** (`AtomicsAssumption`: at least two threads; the words "new" and
"done" are no threads). `AtomicsAreOrdered`. First what the operations of
`WeakMemory` do, as relations between two memories: `Learned` (a load), `Stored`,
`Changed` (a read-modify-write), `Exchanged` (a fence); `Whole` says that all views
are of entries that exist. Each use then has an invariant over histories and views:

- references (`RefsOK`): the last entry of the counter has what is left of them and
  *carries the view of everybody who has given up his*, because a read-modify-write
  goes on with the view of the entry before it. The thread that got 1 has all of
  that in `read` (the decrement only releases), and its fence moves it to `known`.
- counts (`CountOK`): every entry of the counter carries as many data as its value
  says, and a thread that has not added itself knows of its own data only.
- the lock (`LockOK`): a free lock carries the latest data, its holder knows them,
  and there is one; a cas that gives the lock back cannot fail.
- the bit (`BitOK`): it is set while somebody owns it.
- announcements (`AnnounceOK`): who has passed a fence is in the view of the fences,
  so that the later one of two sees the other.
- tracing (`HistOK`, `ThreadOK`): the descriptor is opened once, the setup enables
  tags only if that succeeded (an update may afterwards enable them all the same,
  `Fds`), the entry "ready" carries both, and a thread that goes on knows of both, be
  it from its load or because it ran the setup.

Only model-checked:

- the liveness properties (`SuitedPackageInstalls`, `RunsScript`, `ExpiredEnds`,
  `Finishes`, `InverseEnds`, the other half of `Flashes`): the prover does not
  handle fairness;
- `ArithmeticIsExact`, `SignaturesAreExact`, `TextsDecrypt`, `DataArrives`,
  `ArchiveIsRight`, and `LinksAreWhole`, `ContentsAreRight`, `ContainersImplement`:
  they compare loops and recursive definitions over digits, bytes, paths and linked
  cells with what these compute, which is induction over data.

## 5. Disagreements between the code and its texts

Two are runs (section 3, "findings" in `PROJECT.json`): `ota_done_means_written`
and `bootimg_second`. The others were met while modelling and are only noted:

- "dtbo partition could not be found. Aborting..." comes after boot was written
  (fcore.sh:258); with dumpimage a successful split is reported as failed
  (fcore.sh:66); `do.devicecheck=1` (flashme.sh:5) is read by nobody; `compext` is
  never set, so a package's ramdisk is found only as `ramdisk-new.cpio.`
  (fcore.sh:136); on a Nook the size check compares an image with key against a
  dump without it, and may refuse an image that fits (fcore.sh:239;
  `SuitedPackageInstalls` leaves Nooks out).
- `os_version` does not survive "To rebuild this boot image"
  (unmkbootimg.c:178), and an image with an empty ramdisk gets a command without
  `--ramdisk`, which mkbootimg refuses (unmkbootimg.c:193). `RebuildsSame` asks for
  images without the one and with both parts.
- akb_cc: "shell has changed!" is itself decrypted with the wrong key; -T is
  offered and not accepted; a first line without a slash ends in a null pointer
  (akb_cc.c:679); without -r a program is bound to inode, times and owner of the
  shell on the machine that compiled it, and a release is compiled that way
  (makeproj.sh:15).
- build.sh: `linkvar` declares what it reads as local (line 36), so that `device`,
  `arch` and others are empty where they are used, and `exportmkval`, called under
  `set -e` in line 91, is defined nowhere: "Operation completed successfully!"
  (line 144) is never reached. gen_akb.sh:31 says "DONE!" although a tool has
  failed to compile. The deb takes otagen from `sources/` and not from `build/`.
- p256_is_valid_point does not reduce x^3 - 3x + b when its last sum is p or more
  without a carry (p256.c:355), and so refuses points that its comment, "Verify
  y^2 == x^3 - 3x + b mod p" (338-339), accepts. `AcceptsExactlySignatures` states
  validity over the integers with this one exception, `Unreduced`: without it the run
  fails, on the key <199, 1> of the small curve. On the real curve the sum has to fall
  into the 2^224 numbers or so between p and 2^256: about one key in 2^32.
- StrongPointer.h:177: move assignment reads `other` after `decStrong`, which may
  have destroyed the object that `other` is a member of, as in
  `x = std::move(x->member)`; `Sources` of `RefCount` excludes this, and
  `PointersAreRight` holds only without it.
- RefBase.h:271-274: `wp<T> == wp<U>` compares addresses only, unlike `wp<T> == wp<T>`:
  weak pointers to two objects are equal if the second has taken the address of the
  first.
- fcore.sh goes on after the failure of the commands listed in section 2 and flashes
  what they left; `ImageSurvives` and `DoneMeansInstalled` exclude exactly these.
- init.sh: `rm -rf ../tmp` (14) deletes the hidden files of a `../tmp` that existed
  before, which `../tmp/*` (11) does not match; `mv * ../tmp` replaces its files of the
  same name and leaves a directory of the same name where it is. Hidden files of the
  tree other than `.git` stay at its top.
- trace.h: a tag set other than 0 "indicates setup has succeeded, and tracing is on"
  (122-126), but atrace_update_tags sets the tags "if tracing is ready" (95-97), which
  it is also after a failed setup (115-119): then atrace_begin and atrace_end write to
  descriptor -1. `TracesToMarker` says so.
- Mutex.h:142 adds clock and timeout in signed 64 bits: a timeout near 2^63,
  which waitRelative adds in seconds and nanoseconds (Condition.h:125-130), overflows
  and may become a deadline in the past. `DeadlinesAgree` is about sums that fit.
- akb_cc.c:740-748 warns from 80% of ARG_MAX on; Linux limits a single argument to
  128 KiB, so that execvp may fail for scripts well below the warning.

## 6. Not modelled

- Headers that only declare, or define constants and layouts: `system/graphics.h`,
  `system/window.h`, `utils/Looper.h`, most of `log/log.h`; there is no behaviour in
  them to state. The functions they declare are in files that are not in the
  repository.
- The Win32 branch of `cutils/threads.h`, the hash functions of `TypeHelpers.h`, the
  iterator of `LruCache`.
- What follows `exportmkval` in build.sh, because it cannot be reached; -B and -D of
  akb_cc, which change words and messages of the generated program.
- The prebuilt binaries, which come without source.

## 7. State of the plan

Done: installer, boot image tools, compiled programs and their data and cipher,
packaging, tree scripts, their composition, mkbootfs, libmincrypt, the headers with
code in them; refinements of Flashing, RecencyMap and SeqLists; proofs of every
invariant of installer, boot image tools, compiled programs, their data, releases
and kernel tree, and of everything that threads share: locks, pointers and atomics.

Left, and only with TLC for the reasons section 4 gives: liveness, and what loops
over data compute. What could still be proved are invariants of single steps of
these loops, such as the room in mkbootfs's table of modes (`ConfigFits`) or the
links of a ring between two calls.
