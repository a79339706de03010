---------------------------- MODULE BootImgProofs ----------------------------
(***************************************************************************)
(* Proofs about BootImg: for every page size, file size and word size, and *)
(* any number of runs, unmkbootimg finds kernel and ramdisk where          *)
(* mkbootimg put them.                                                     *)
(***************************************************************************)
EXTENDS BootImg, TLAPS

-----------------------------------------------------------------------------
(* Arithmetic *)

(* Division with remainder.                                                *)
LEMMA DivMod ==
  ASSUME NEW p \in Nat, p > 0, NEW n \in Nat
  PROVE  /\ n = p * (n \div p) + (n % p)
         /\ n % p \in 0 .. (p - 1) /\ n \div p \in Nat
  OBVIOUS

(* Quotient and remainder are determined.                                  *)
LEMMA DivUnique ==
  ASSUME NEW p \in Nat, p > 0, NEW q \in Nat, NEW r \in 0 .. (p - 1)
  PROVE  (p * q + r) \div p = q /\ (p * q + r) % p = r
  OBVIOUS

(* An item and its padding fill whole pages.                               *)
LEMMA PaddedItem ==
  ASSUME NEW p \in Nat, p > 0, NEW n \in Nat
  PROVE  /\ Padding(p, n) \in 0 .. (p - 1)
         /\ \E a \in Nat : n + Padding(p, n) = p * a
<1> DEFINE q == n \div p
           r == n % p
<1>1. n = p * q + r /\ r \in 0 .. (p - 1) /\ q \in Nat
  BY DivMod
<1>2. Padding(p, n) = IF r = 0 THEN 0 ELSE p - r
  BY DEF Padding
<1> HIDE DEF q, r
<1>3. Padding(p, n) \in 0 .. (p - 1)
  BY <1>1, <1>2
<1>4. CASE r = 0
  <2>1. n + Padding(p, n) = p * q
    BY <1>1, <1>2, <1>4
  <2> QED
    BY <1>1, <1>3, <2>1
<1>5. CASE r # 0
  <2>1. n + Padding(p, n) = p * (q + 1)
    BY <1>1, <1>2, <1>5
  <2>2. q + 1 \in Nat
    BY <1>1
  <2> QED
    BY <1>3, <2>1, <2>2
<1> QED
  BY <1>4, <1>5

(* The formula of unmkbootimg rounds up to the end of the padding.         *)
LEMMA RoundUp ==
  ASSUME NEW p \in Nat, p > 0, NEW k \in Nat
  PROVE  ((k + 2 * p - 1) \div p) * p = p + k + Padding(p, k)
<1> DEFINE q == k \div p
           r == k % p
<1>1. k = p * q + r /\ r \in 0 .. (p - 1) /\ q \in Nat
  BY DivMod
<1> HIDE DEF q, r
<1>2. CASE r = 0
  <2>1. k + 2 * p - 1 = p * (q + 1) + (p - 1)
    BY <1>1, <1>2
  <2>2. (k + 2 * p - 1) \div p = q + 1
    BY <2>1, <1>1, DivUnique
  <2> QED
    BY <2>2, <1>1, <1>2 DEF Padding, r
<1>3. CASE r # 0
  <2>1. k + 2 * p - 1 = p * (q + 2) + (r - 1)
    BY <1>1, <1>3
  <2>2. (k + 2 * p - 1) \div p = q + 2
    BY <2>1, <1>1, <1>3, DivUnique
  <2> QED
    BY <2>2, <1>1, <1>3 DEF Padding, r
<1> QED
  BY <1>2, <1>3

(* The offset unmkbootimg computes for the second stage is never beyond    *)
(* the place where mkbootimg wrote it.                                     *)
LEMMA RoundTogether ==
  ASSUME NEW p \in Nat, p > 0, NEW k \in Nat, NEW r \in Nat
  PROVE  ((k + r + 2 * p - 1) \div p) * p <= p + k + Padding(p, k) + r + Padding(p, r)
<1>1. PICK a \in Nat : k + Padding(p, k) = p * a
  BY PaddedItem
<1>2. PICK b \in Nat : r + Padding(p, r) = p * b
  BY PaddedItem
<1>3. Padding(p, k) \in Nat /\ Padding(p, r) \in Nat
  <2>1. Padding(p, k) \in 0 .. (p - 1)
    BY PaddedItem
  <2>2. Padding(p, r) \in 0 .. (p - 1)
    BY PaddedItem
  <2> QED
    BY <2>1, <2>2
<1> DEFINE n == k + r + 2 * p - 1
           q == n \div p
<1>4. n \in Nat
  BY DEF n
<1>5. n = p * q + (n % p) /\ n % p \in 0 .. (p - 1) /\ q \in Nat
  BY <1>4, DivMod
<1>6. n < p * (a + b + 2)
  <2>1. p * (a + b + 2) = p * a + p * b + 2 * p
    OBVIOUS
  <2>2. k <= p * a /\ r <= p * b
    BY <1>1, <1>2, <1>3
  <2>3. p * a \in Nat /\ p * b \in Nat
    OBVIOUS
  <2> QED
    BY <2>1, <2>2, <2>3
<1>7. p * q < p * (a + b + 2)
  <2>1. p * q \in Nat /\ p * (a + b + 2) \in Nat
    BY <1>5
  <2> QED
    BY <1>4, <1>5, <1>6, <2>1
<1> HIDE DEF n, q
<1>8. q < a + b + 2
  <2>1. CASE q >= a + b + 2
    <3>1. p * q >= p * (a + b + 2)
      BY <1>5, <2>1
    <3> QED
      BY <1>5, <1>7, <3>1
  <2> QED
    BY <1>5, <2>1
<1>9. q <= a + b + 1
  BY <1>5, <1>8
<1>10. q * p <= (a + b + 1) * p
  BY <1>5, <1>9
<1> QED
  BY <1>1, <1>2, <1>3, <1>10 DEF n, q

(* The header fills exactly one page.                                      *)
LEMMA HeaderPage ==
  ASSUME NEW p \in PageSizes
  PROVE  HdrSize + Padding(p, HdrSize) = p
<1>1. p \in Nat /\ p > 0 /\ HdrSize \in Nat /\ HdrSize > 0 /\ HdrSize <= p
  BY SizesAssumption
<1>2. CASE HdrSize = p
  <2>1. p = p * 1 + 0
    BY <1>1
  <2>2. p % p = 0
    BY <1>1, <2>1, DivUnique
  <2> QED
    BY <1>1, <1>2, <2>2 DEF Padding
<1>3. CASE HdrSize < p
  <2>1. HdrSize = p * 0 + HdrSize
    BY <1>1
  <2>2. HdrSize % p = HdrSize
    BY <1>1, <1>3, <2>1, DivUnique
  <2> QED
    BY <1>1, <1>3, <2>2 DEF Padding
<1> QED
  BY <1>1, <1>2, <1>3

(* Numbers below the word size are not changed by uint32_t.                *)
LEMMA U32Small ==
  ASSUME NEW n \in Nat, n < Word
  PROVE  U32(n) = n
<1>1. Word \in Nat /\ Word > 0 /\ n = Word * 0 + n
  BY SizesAssumption
<1> QED
  BY <1>1, DivUnique DEF U32

(* uint32_t makes a number no larger.                                      *)
LEMMA U32Le ==
  ASSUME NEW n \in Nat
  PROVE  U32(n) \in Nat /\ U32(n) <= n /\ U32(n) < Word
<1>1. Word \in Nat /\ Word > 0
  BY SizesAssumption
<1>2. n = Word * (n \div Word) + (n % Word) /\ n % Word \in 0 .. (Word - 1) /\ n \div Word \in Nat
  BY <1>1, DivMod
<1>3. Word * (n \div Word) \in Nat
  BY <1>1, <1>2
<1> QED
  BY <1>1, <1>2, <1>3 DEF U32

(* Rounding down to pages is monotonic.                                    *)
LEMMA RoundMono ==
  ASSUME NEW p \in Nat, p > 0, NEW m \in Nat, NEW n \in Nat, m <= n
  PROVE  (m \div p) * p <= (n \div p) * p /\ (m \div p) * p \in Nat
<1> DEFINE a == m \div p
           b == n \div p
<1>1. m = p * a + (m % p) /\ m % p \in 0 .. (p - 1) /\ a \in Nat
  BY DivMod
<1>2. n = p * b + (n % p) /\ n % p \in 0 .. (p - 1) /\ b \in Nat
  BY DivMod
<1> HIDE DEF a, b
<1>3. a <= b
  <2>1. CASE a >= b + 1
    <3>1. p * a >= p * (b + 1)
      BY <1>1, <1>2, <2>1
    <3>2. p * (b + 1) = p * b + p
      BY <1>2
    <3>3. p * a \in Nat /\ p * b \in Nat
      BY <1>1, <1>2
    <3> QED
      BY <1>1, <1>2, <3>1, <3>2, <3>3
  <2> QED
    BY <1>1, <1>2, <2>1
<1>4. a * p <= b * p /\ a * p \in Nat
  BY <1>1, <1>2, <1>3
<1> QED
  BY <1>4 DEF a, b

-----------------------------------------------------------------------------
(* Images *)

Half == Word \div 2

(* Sizes fit an int, and what is not there is empty.                       *)
GoodFile(f) == f.size < Half /\ (f.of = "none" => f.size = 0)

GoodImage(i) == \A x \in Parts : GoodFile(i.part[x]) /\ i.hdr.size[x] < Half

(* The layout of bootimg.h, as mkbootimg writes it.                        *)
Laid(i) ==
  /\ i.hdr.page \in PageSizes
  /\ \A x \in Parts : i.part[x].size = i.hdr.size[x]
  /\ i.at["kernel"] = i.hdr.page
  /\ i.at["ramdisk"] = i.hdr.page + Padded(i, "kernel")
  /\ i.size = i.hdr.page + Padded(i, "kernel") + Padded(i, "ramdisk") + Padded(i, "second")

(* The numbers of a complete image.                                        *)
LEMMA LaidNumbers ==
  ASSUME NEW i \in Image, Laid(i), GoodImage(i)
  PROVE  /\ i.hdr.page \in Nat /\ i.hdr.page > 0 /\ 4 * i.hdr.page <= Half
         /\ \A x \in Parts : /\ i.hdr.size[x] \in Nat
                             /\ i.hdr.size[x] < Half
                             /\ Padding(i.hdr.page, i.hdr.size[x]) \in Nat
         /\ Half \in Nat /\ 2 * Half <= Word /\ i.size \in Nat
<1> DEFINE p == i.hdr.page
<1>1. p \in Nat /\ p > 0 /\ p <= Word \div 8 /\ Word \in Nat
  <2>1. p \in PageSizes
    BY DEF Laid
  <2> HIDE DEF p
  <2> QED
    BY <2>1, SizesAssumption
<1>2. Half \in Nat /\ 2 * Half <= Word /\ 4 * p <= Half
  BY <1>1 DEF Half
<1>3. ASSUME NEW x \in Parts
      PROVE  i.hdr.size[x] \in Nat /\ i.hdr.size[x] < Half /\ Padding(p, i.hdr.size[x]) \in Nat
  <2>1. i.hdr.size[x] \in Nat
    BY DEF Image, Header
  <2>2. Padding(p, i.hdr.size[x]) \in 0 .. (p - 1)
    BY <1>1, <2>1, PaddedItem
  <2> QED
    BY <1>1, <2>1, <2>2 DEF GoodImage
<1>4. i.size \in Nat
  BY <1>1, <1>3 DEF Laid, Padded, Parts
<1> QED
  BY <1>1, <1>2, <1>3, <1>4

(* An image that load_file accepts and that is smaller than 4 GiB is       *)
(* smaller than 2 GiB: its size is the one in the int.                     *)
LEMMA LoadedWhole ==
  ASSUME NEW i \in Image, i.size \in Nat, i.size < Word, Loadable(i)
  PROVE  LoadedSize(i) = i.size
<1>1. U32(i.size) = i.size
  BY U32Small
<1>2. HdrSize \in Nat /\ Word \in Nat
  BY SizesAssumption
<1>3. i.size < Word \div 2
  BY <1>1, <1>2 DEF Loadable, LoadedSize
<1> QED
  BY <1>1, <1>3 DEF LoadedSize

(* unmkbootimg reads kernel and ramdisk where mkbootimg wrote them, and    *)
(* nothing beyond the end.                                                 *)
LEMMA OffsetsAgree ==
  ASSUME NEW i \in Image, Laid(i), GoodImage(i), i.size < Word
  PROVE  /\ \A x \in {"kernel", "ramdisk"} : OffsetOf(x, i.hdr) = i.at[x]
         /\ \A x \in Parts : OffsetOf(x, i.hdr) + i.hdr.size[x] <= i.size
<1> DEFINE p == i.hdr.page
           k == i.hdr.size["kernel"]
           r == i.hdr.size["ramdisk"]
           s == i.hdr.size["second"]
<1>1. /\ p \in Nat /\ p > 0 /\ 4 * p <= Half
      /\ k \in Nat /\ k < Half /\ Padding(p, k) \in Nat
      /\ r \in Nat /\ r < Half /\ Padding(p, r) \in Nat
      /\ s \in Nat /\ s < Half /\ Padding(p, s) \in Nat
      /\ Half \in Nat /\ 2 * Half <= Word /\ i.size \in Nat /\ Word \in Nat
  BY LaidNumbers, SizesAssumption DEF Parts
<1>2. i.size = p + k + Padding(p, k) + r + Padding(p, r) + s + Padding(p, s)
  BY <1>1 DEF Laid, Padded
<1>3. OffsetOf("kernel", i.hdr) = i.at["kernel"] /\ i.at["kernel"] = p
  BY DEF OffsetOf, KernelOffset, Laid
<1>4. OffsetOf("ramdisk", i.hdr) = p + k + Padding(p, k)
  <2>1. U32(k + 2 * p - 1) = k + 2 * p - 1
    <3>1. k + 2 * p - 1 \in Nat /\ k + 2 * p - 1 < Word
      BY <1>1
    <3> QED
      BY <3>1, U32Small
  <2>2. ((k + 2 * p - 1) \div p) * p = p + k + Padding(p, k)
    BY <1>1, RoundUp
  <2>3. U32(p + k + Padding(p, k)) = p + k + Padding(p, k)
    <3>1. p + k + Padding(p, k) \in Nat /\ p + k + Padding(p, k) < Word
      BY <1>1, <1>2
    <3> QED
      BY <3>1, U32Small
  <2> QED
    BY <2>1, <2>2, <2>3 DEF OffsetOf, RamdiskOffset
<1>5. i.at["ramdisk"] = p + k + Padding(p, k)
  BY <1>1 DEF Laid, Padded
<1>6. OffsetOf("second", i.hdr) <= p + k + Padding(p, k) + r + Padding(p, r)
      /\ OffsetOf("second", i.hdr) \in Nat
  <2> DEFINE n == k + r + 2 * p - 1
  <2>1. n \in Nat
    BY <1>1
  <2>2. U32(n) \in Nat /\ U32(n) <= n
    BY <2>1, U32Le
  <2>3. (U32(n) \div p) * p <= (n \div p) * p /\ (U32(n) \div p) * p \in Nat
    BY <1>1, <2>1, <2>2, RoundMono
  <2>4. (n \div p) * p <= p + k + Padding(p, k) + r + Padding(p, r)
    BY <1>1, RoundTogether
  <2>5. (n \div p) * p \in Nat
    BY <1>1, <2>1, RoundMono
  <2>6. U32((U32(n) \div p) * p) \in Nat /\ U32((U32(n) \div p) * p) <= (U32(n) \div p) * p
    BY <2>3, U32Le
  <2>7. OffsetOf("second", i.hdr) = U32((U32(n) \div p) * p)
    BY DEF OffsetOf, SecondOffset
  <2> HIDE DEF n
  <2> QED
    BY <1>1, <2>3, <2>4, <2>5, <2>6, <2>7
<1>7. \A x \in {"kernel", "ramdisk"} : OffsetOf(x, i.hdr) = i.at[x]
  BY <1>3, <1>4, <1>5
<1>8. OffsetOf("kernel", i.hdr) + k <= i.size
  BY <1>1, <1>2, <1>3
<1>9. OffsetOf("ramdisk", i.hdr) + r <= i.size
  BY <1>1, <1>2, <1>4
<1>10. OffsetOf("second", i.hdr) + s <= i.size
  <2> HIDE DEF k, r, s, p
  <2> QED
    BY <1>1, <1>2, <1>6
<1> QED
  BY <1>7, <1>8, <1>9, <1>10 DEF Parts

-----------------------------------------------------------------------------
(* The invariant *)

Writing == {"whdr", "wkernel", "wramdisk", "wsecond", "exit"}
Loaded == {"ukernel", "uramdisk", "usecond", "uprint"}
Quiet == {Rest, "args", "load", "open", "uload"} \cup Loaded

(* Every file, in memory or on disk, has a size that fits an int.          *)
Sizes ==
  /\ \A x \in Parts : GoodFile(args.file[x]) /\ GoodFile(saved[x]) /\ hdr.size[x] < Half
  /\ GoodImage(img)

(* mkbootimg writes with the page size it checked and the sizes it loaded. *)
Checked ==
  /\ pc \in Writing \cup {"load", "open"} => args.page \in PageSizes /\ hdr.page = args.page
  /\ pc \in Writing \cup {"open"} => \A x \in Parts : hdr.size[x] = args.file[x].size

Padd(x) == hdr.size[x] + Padding(hdr.page, hdr.size[x])

Placed(x, at) == img.part[x] = args.file[x] /\ img.at[x] = at

(* How much of the image is written.                                       *)
Progress ==
  /\ pc \in Writing => ~late
  /\ pc = "whdr" => img.part["second"].size = 0
  /\ pc = "wkernel" => img.hdr = hdr /\ pos = hdr.page /\ img.part["second"].size = 0
  /\ pc = "wramdisk" =>
       img.hdr = hdr /\ pos = hdr.page + Padd("kernel") /\ img.part["second"].size = 0
       /\ Placed("kernel", hdr.page)
  /\ pc = "wsecond" =>
       img.hdr = hdr /\ pos = hdr.page + Padd("kernel") + Padd("ramdisk")
       /\ img.part["second"].size = 0 /\ img.size = pos
       /\ Placed("kernel", hdr.page) /\ Placed("ramdisk", hdr.page + Padd("kernel"))
  /\ pc = "exit" => Laid(img)

(* Between runs the image is complete, missing, or known to be torn.       *)
Complete ==
  /\ pc \in Quiet => img = NoImage \/ late \/ Laid(img)
  /\ pc \in Loaded \cup {"uload"} => img # NoImage
  /\ pc \in Loaded => hdr = img.hdr /\ Loadable(img)

Fetched(x) ==
  ~late /\ img.size < Word /\ hdr.size[x] # 0 => saved[x] = img.part[x]

(* What unmkbootimg has extracted so far is what was packed.               *)
Extracted ==
  /\ pc \in {"uramdisk", "usecond", "uprint"} => Fetched("kernel")
  /\ pc \in {"usecond", "uprint"} => Fetched("ramdisk")

BInv == TypeOK /\ Sizes /\ Checked /\ Progress /\ Complete /\ Extracted

(* Constants of the types.                                                 *)
LEMMA Constants ==
  /\ Word \in Nat /\ Half \in Nat /\ 0 < Half /\ 2 * Half <= Word /\ HdrSize \in Nat
  /\ NoHeader \in Header /\ NoImage \in Image /\ NoArgs \in Args /\ Absent \in File /\ NONE \in File
  /\ GoodFile(Absent) /\ GoodFile(NONE) /\ GoodImage(NoImage)
  /\ \A x \in Parts : NoArgs.file[x] = Absent /\ NoHeader.size[x] = 0 /\ NoImage.part[x] = Absent
<1>1. Word \in Nat /\ Half \in Nat /\ 0 < Half /\ 2 * Half <= Word /\ HdrSize \in Nat
  BY SizesAssumption DEF Half
<1>2. Absent \in File /\ NONE \in File /\ GoodFile(Absent) /\ GoodFile(NONE)
  BY <1>1 DEF Absent, NONE, File, GoodFile
<1>3. NoHeader \in Header
  BY DEF NoHeader, Header
<1>4. NoImage \in Image
  BY <1>2, <1>3 DEF NoImage, Image
<1>5. NoArgs \in Args
  BY <1>2 DEF NoArgs, Args
<1>6. \A x \in Parts : NoArgs.file[x] = Absent /\ NoHeader.size[x] = 0 /\ NoImage.part[x] = Absent
  BY DEF NoArgs, NoHeader, NoImage
<1>7. GoodImage(NoImage)
  BY <1>1, <1>2, <1>6 DEF GoodImage, NoImage
<1> QED
  BY <1>1, <1>2, <1>3, <1>4, <1>5, <1>6, <1>7

(* An image of another tool is complete.                                   *)
LEMMA ForeignLaid ==
  ASSUME NEW p \in PageSizes, NEW k \in FileSizes, NEW r \in FileSizes
  PROVE  ForeignImage(p, k, r) \in Image /\ GoodImage(ForeignImage(p, k, r))
         /\ Laid(ForeignImage(p, k, r)) /\ ForeignImage(p, k, r) # NoImage
<1> DEFINE f == ForeignImage(p, k, r)
<1>1. p \in Nat /\ p > 0 /\ k \in Nat /\ k < Half /\ r \in Nat /\ r < Half
  BY SizesAssumption DEF Half
<1>2. Padding(p, k) \in Nat
  <2>1. Padding(p, k) \in 0 .. (p - 1)
    BY <1>1, PaddedItem
  <2> QED
    BY <2>1
<1>3. Padding(p, r) \in Nat
  <2>1. Padding(p, r) \in 0 .. (p - 1)
    BY <1>1, PaddedItem
  <2> QED
    BY <2>1
<1>4. Padding(p, 0) = 0
  <2>1. 0 = p * 0 + 0 /\ 0 \in 0 .. (p - 1)
    BY <1>1
  <2>2. 0 % p = 0
    BY <1>1, <2>1, DivUnique
  <2> QED
    BY <2>2 DEF Padding
<1>5. /\ f.hdr = [NoHeader EXCEPT !.page = p, !.osver = TRUE, !.size = f.hdr.size]
      /\ f.hdr.size = [NoHeader.size EXCEPT !["kernel"] = k, !["ramdisk"] = r]
  BY DEF ForeignImage, NoHeader
<1>6. f.hdr.size \in [Parts -> Nat] /\ f.hdr.size["kernel"] = k /\ f.hdr.size["ramdisk"] = r
      /\ f.hdr.size["second"] = 0
  BY <1>1, <1>5 DEF NoHeader, Parts
<1>7. f.hdr \in Header /\ f.hdr.page = p
  BY <1>1, <1>5, <1>6, Constants, ZenonT(60) DEF Header, NoHeader
<1>8. /\ f.part["kernel"] = [of |-> "kernel", size |-> k]
      /\ f.part["ramdisk"] = [of |-> "ramdisk", size |-> r]
      /\ f.part["second"] = Absent
      /\ f.part \in [Parts -> File]
  BY <1>1, Constants DEF ForeignImage, Parts, File
<1>9. /\ f.at["kernel"] = p /\ f.at["ramdisk"] = p + k + Padding(p, k)
      /\ f.at \in [Parts -> Nat]
      /\ f.size = p + k + Padding(p, k) + r + Padding(p, r)
  BY <1>1, <1>2, <1>3 DEF ForeignImage, Parts
<1>10. f = [hdr |-> f.hdr, part |-> f.part, at |-> f.at, size |-> f.size]
  BY DEF ForeignImage
<1>11. f \in Image
  BY <1>1, <1>2, <1>3, <1>7, <1>8, <1>9, <1>10 DEF Image
<1> HIDE DEF f
<1>12. GoodImage(f)
  BY <1>1, <1>6, <1>8, Constants DEF GoodImage, GoodFile, Parts, Absent
<1>13. Padded(f, "kernel") = k + Padding(p, k) /\ Padded(f, "ramdisk") = r + Padding(p, r)
       /\ Padded(f, "second") = 0
  BY <1>4, <1>6, <1>7 DEF Padded
<1>14. Laid(f)
  BY <1>1, <1>2, <1>3, <1>6, <1>7, <1>8, <1>9, <1>13 DEF Laid, Parts, Absent
<1>15. f # NoImage
  BY <1>1, <1>7 DEF NoImage, NoHeader
<1> QED
  BY <1>11, <1>12, <1>14, <1>15 DEF f

(* The shell starts with no image, or with one of another tool.            *)
LEMMA InitB == Init => BInv
<1> SUFFICES ASSUME Init PROVE BInv
  OBVIOUS
<1>1. img \in Image /\ GoodImage(img) /\ (img = NoImage \/ Laid(img))
  <2>1. CASE img # NoImage
    <3>1. PICK p \in PageSizes, k \in FileSizes \ {0}, r \in FileSizes \ {0} :
            img = ForeignImage(p, k, r)
      BY <2>1 DEF Init
    <3> QED
      BY <3>1, ForeignLaid
  <2>2. CASE img = NoImage
    BY <2>2, Constants DEF Init
  <2> QED
    BY <2>1, <2>2
<1>2. TypeOK
  BY <1>1, Constants DEF Init, TypeOK, PCs
<1>3. Sizes
  BY <1>1, Constants DEF Init, Sizes
<1>4. Checked /\ Progress /\ Complete /\ Extracted
  BY <1>1 DEF Init, Checked, Progress, Complete, Extracted, Rest, Writing, Loaded, Quiet
<1> QED
  BY <1>2, <1>3, <1>4 DEF BInv

(* pc among the programs' commands.                                        *)
LEMMA CheckArgsB == BInv /\ CheckArgs => BInv'
<1> SUFFICES ASSUME BInv, CheckArgs PROVE BInv'
  OBVIOUS
<1> USE DEF Rest, Writing, Loaded, Quiet
<1>1. CASE Accepts(args)
  <2>1. hdr' = HeaderOf(args) /\ pc' = "load" /\ pc = "args"
        /\ UNCHANGED <<runs, args, pos, img, saved, rebuild, orig, late, status>>
    BY <1>1 DEF CheckArgs
  <2>2. \A x \in Loads : U32(args.base + args.off[x]) \in Nat
    BY U32Le DEF BInv, TypeOK, Args
  <2>3. CmdField(args.cmd) \in Nat /\ ExtraField(args.cmd) \in Nat
    BY SizesAssumption DEF BInv, TypeOK, Args, CmdField, ExtraField
  <2>4. hdr' \in Header /\ hdr'.page = args.page /\ \A x \in Parts : hdr'.size[x] = 0
    BY <2>1, <2>2, <2>3 DEF BInv, TypeOK, Args, HeaderOf, Header
  <2>5. TypeOK'
    BY <2>1, <2>4 DEF BInv, TypeOK, PCs
  <2>6. Sizes'
    BY <2>1, <2>4, Constants DEF BInv, Sizes
  <2>7. Checked'
    BY <1>1, <2>1, <2>4 DEF Checked, Accepts
  <2>8. Progress' /\ Complete' /\ Extracted'
    BY <2>1 DEF BInv, Progress, Complete, Extracted
  <2> QED
    BY <2>5, <2>6, <2>7, <2>8 DEF BInv
<1>2. CASE ~Accepts(args)
  <2>1. pc = "args" /\ pc' = "shell" /\ status' = 1
        /\ UNCHANGED <<runs, args, hdr, pos, img, saved, rebuild, orig, late>>
    BY <1>2 DEF CheckArgs, Fail
  <2> QED
    BY <2>1 DEF BInv, TypeOK, PCs, Sizes, Checked, Progress, Complete, Extracted
<1> QED
  BY <1>1, <1>2

(* An error before the output file is opened changes nothing.              *)
LEMMA LoadB == BInv /\ Load => BInv'
<1> SUFFICES ASSUME BInv, Load PROVE BInv'
  OBVIOUS
<1> USE DEF Rest, Writing, Loaded, Quiet
<1>1. CASE hdr' = [hdr EXCEPT !.size = [x \in Parts |-> args.file[x].size]]
           /\ pc' = "open" /\ UNCHANGED status
  <2>1. pc = "load" /\ UNCHANGED <<runs, args, pos, img, saved, rebuild, orig, late>>
    BY DEF Load
  <2>2. hdr' \in Header /\ hdr'.page = hdr.page
        /\ \A x \in Parts : hdr'.size[x] = args.file[x].size
    BY <1>1 DEF BInv, TypeOK, Args, File, Header
  <2>3. TypeOK'
    BY <1>1, <2>1, <2>2 DEF BInv, TypeOK, PCs
  <2>4. Sizes'
    BY <2>1, <2>2 DEF BInv, Sizes, GoodFile
  <2>5. Checked'
    BY <1>1, <2>1, <2>2 DEF BInv, Checked
  <2>6. Progress' /\ Complete' /\ Extracted'
    BY <1>1, <2>1 DEF BInv, Progress, Complete, Extracted
  <2> QED
    BY <2>3, <2>4, <2>5, <2>6 DEF BInv
<1>2. CASE Fail /\ UNCHANGED hdr
  <2>1. pc = "load" /\ pc' = "shell" /\ status' = 1
        /\ UNCHANGED <<runs, args, hdr, pos, img, saved, rebuild, orig, late>>
    BY <1>2 DEF Load, Fail
  <2> QED
    BY <2>1 DEF BInv, TypeOK, PCs, Sizes, Checked, Progress, Complete, Extracted
<1> QED
  BY <1>1, <1>2 DEF Load

(* fopen gives an empty file.                                              *)
LEMMA OpenB == BInv /\ Open => BInv'
<1> SUFFICES ASSUME BInv, Open PROVE BInv'
  OBVIOUS
<1> USE DEF Rest, Writing, Loaded, Quiet
<1>1. CASE img' = [NoImage EXCEPT !.size = 0] /\ pos' = 0 /\ late' = FALSE
           /\ pc' = "whdr" /\ UNCHANGED status
  <2>1. pc = "open" /\ UNCHANGED <<runs, args, hdr, saved, rebuild, orig>>
    BY DEF Open
  <2>2. img' \in Image /\ img'.hdr = NoHeader /\ \A x \in Parts : img'.part[x] = Absent
    BY <1>1, Constants DEF Image, NoImage
  <2>3. TypeOK'
    BY <1>1, <2>1, <2>2 DEF BInv, TypeOK, PCs
  <2>4. Sizes'
    BY <2>1, <2>2, Constants DEF BInv, Sizes, GoodImage
  <2>5. Checked' /\ Complete' /\ Extracted'
    BY <1>1, <2>1 DEF BInv, Checked, Complete, Extracted
  <2>6. Progress'
    BY <1>1, <2>2 DEF Progress, Absent, Parts
  <2> QED
    BY <2>3, <2>4, <2>5, <2>6 DEF BInv
<1>2. CASE Fail /\ UNCHANGED <<img, pos, late>>
  <2>1. pc = "open" /\ pc' = "shell" /\ status' = 1
        /\ UNCHANGED <<runs, args, hdr, pos, img, saved, rebuild, orig, late>>
    BY <1>2 DEF Open, Fail
  <2> QED
    BY <2>1 DEF BInv, TypeOK, PCs, Sizes, Checked, Progress, Complete, Extracted
<1> QED
  BY <1>1, <1>2 DEF Open

(* After a failed write the image is removed.                              *)
LEMMA WriteFailsB ==
  BInv /\ pc \in Writing /\ WriteFails
    /\ UNCHANGED <<runs, args, hdr, saved, rebuild, orig, late>> => BInv'
<1> SUFFICES ASSUME BInv, pc \in Writing, WriteFails,
                    UNCHANGED <<runs, args, hdr, saved, rebuild, orig, late>>
             PROVE  BInv'
  OBVIOUS
<1> USE DEF Rest, Writing, Loaded, Quiet
<1>1. pc' = "shell" /\ status' = 1 /\ img' = NoImage /\ pos' = pos
  BY DEF WriteFails, Fail, Unlink
<1>2. TypeOK'
  BY <1>1, Constants DEF BInv, TypeOK, PCs
<1>3. Sizes'
  BY <1>1, Constants DEF BInv, Sizes
<1>4. Checked' /\ Progress' /\ Complete' /\ Extracted'
  BY <1>1 DEF Checked, Progress, Complete, Extracted
<1> QED
  BY <1>2, <1>3, <1>4 DEF BInv

(* The sizes that mkbootimg adds up are natural numbers.                   *)
LEMMA Addends ==
  ASSUME BInv, pc \in Writing
  PROVE  /\ hdr.page = args.page /\ hdr.page \in PageSizes /\ hdr.page \in Nat /\ hdr.page > 0
         /\ \A x \in Parts : Padd(x) \in Nat /\ hdr.size[x] \in Nat
                             /\ Padding(hdr.page, hdr.size[x]) \in Nat
                             /\ hdr.size[x] = args.file[x].size /\ args.file[x] \in File
<1>1. hdr.page = args.page /\ hdr.page \in PageSizes
  BY DEF BInv, Checked
<1>2. hdr.page \in Nat /\ hdr.page > 0
  <2> DEFINE p == hdr.page
  <2>1. p \in PageSizes
    BY <1>1
  <2> HIDE DEF p
  <2>2. p \in Nat /\ p > 0
    BY <2>1, SizesAssumption
  <2> QED
    BY <2>2 DEF p
<1>3. ASSUME NEW x \in Parts
      PROVE  /\ Padd(x) \in Nat /\ hdr.size[x] \in Nat
             /\ Padding(hdr.page, hdr.size[x]) \in Nat
             /\ hdr.size[x] = args.file[x].size /\ args.file[x] \in File
  <2>1. hdr.size[x] = args.file[x].size /\ args.file[x] \in File /\ hdr.size[x] \in Nat
    BY DEF BInv, Checked, TypeOK, Args, Header
  <2>2. Padding(hdr.page, hdr.size[x]) \in 0 .. (hdr.page - 1)
    BY <1>2, <2>1, PaddedItem
  <2> QED
    BY <1>2, <2>1, <2>2 DEF Padd
<1> QED
  BY <1>1, <1>2, <1>3

(* The header fills the first page.                                        *)
LEMMA WriteHeaderB == BInv /\ WriteHeader => BInv'
<1> SUFFICES ASSUME BInv, WriteHeader PROVE BInv'
  OBVIOUS
<1> USE DEF Rest, Writing, Loaded, Quiet
<1>1. pc = "whdr" /\ UNCHANGED <<runs, args, hdr, saved, rebuild, orig, late>>
  BY DEF WriteHeader
<1>2. CASE pos' = HdrSize + Padding(args.page, HdrSize)
           /\ img' = [img EXCEPT !.hdr = hdr, !.size = pos']
           /\ pc' = "wkernel" /\ UNCHANGED status
  <2>1. hdr.page = args.page /\ hdr.page \in PageSizes /\ hdr.page \in Nat
    BY <1>1, Addends
  <2>2. pos' = hdr.page
    BY <1>2, <2>1, HeaderPage
  <2>3. img' \in Image /\ img'.hdr = hdr /\ img'.part = img.part
    <3>1. img \in Image /\ hdr \in Header /\ pos' \in Int
      BY <2>1, <2>2 DEF BInv, TypeOK
    <3> QED
      BY <1>2, <3>1 DEF Image
  <2>4. TypeOK'
    BY <1>1, <1>2, <2>1, <2>2, <2>3 DEF BInv, TypeOK, PCs
  <2>5. Sizes'
    BY <1>1, <2>3 DEF BInv, Sizes, GoodImage
  <2>6. Checked' /\ Complete' /\ Extracted'
    BY <1>1, <1>2 DEF BInv, Checked, Complete, Extracted
  <2>7. Progress'
    BY <1>1, <1>2, <2>2, <2>3 DEF BInv, Progress
  <2> QED
    BY <2>4, <2>5, <2>6, <2>7 DEF BInv
<1>3. CASE WriteFails
  BY <1>1, <1>3, WriteFailsB
<1> QED
  BY <1>2, <1>3 DEF WriteHeader

(* Writing a part: what is known of the image afterwards.                  *)
LEMMA WriteOne ==
  ASSUME BInv, pc \in Writing, NEW x \in Parts,
         pos' = pos + hdr.size[x] + Padding(args.page, hdr.size[x]),
         img' = [img EXCEPT !.part[x] = args.file[x], !.at[x] = pos, !.size = pos'],
         UNCHANGED <<runs, args, hdr, saved, rebuild, orig, late>>
  PROVE  /\ pos' = pos + Padd(x) /\ pos' \in Nat /\ img' \in Image /\ img'.hdr = img.hdr
         /\ img'.part[x] = args.file[x] /\ img'.at[x] = pos /\ img'.size = pos'
         /\ \A y \in Parts \ {x} : img'.part[y] = img.part[y] /\ img'.at[y] = img.at[y]
         /\ Sizes'
<1>1. pos \in Nat /\ img \in Image
  BY DEF BInv, TypeOK
<1>2. pos' = pos + Padd(x) /\ pos' \in Nat
  BY <1>1, Addends DEF Padd
<1>3. args.file[x] \in File
  BY Addends
<1>4. img' \in Image /\ img'.hdr = img.hdr
      /\ img'.part[x] = args.file[x] /\ img'.at[x] = pos /\ img'.size = pos'
      /\ \A y \in Parts \ {x} : img'.part[y] = img.part[y] /\ img'.at[y] = img.at[y]
  <2>1. img' = [hdr |-> img.hdr, part |-> [img.part EXCEPT ![x] = args.file[x]],
                at |-> [img.at EXCEPT ![x] = pos], size |-> pos']
    BY <1>1 DEF Image
  <2>2. img.part \in [Parts -> File] /\ img.at \in [Parts -> Nat] /\ img.hdr \in Header
    BY <1>1 DEF Image
  <2>3. [img.part EXCEPT ![x] = args.file[x]] \in [Parts -> File]
    BY <1>3, <2>2
  <2>4. [img.at EXCEPT ![x] = pos] \in [Parts -> Nat]
    BY <1>1, <2>2
  <2>5. img' \in Image
    <3> DEFINE q == [img.part EXCEPT ![x] = args.file[x]]
               a == [img.at EXCEPT ![x] = pos]
               n == pos'
               h == img.hdr
    <3>1. q \in [Parts -> File] /\ a \in [Parts -> Nat] /\ n \in Int /\ h \in Header
      BY <1>2, <2>2, <2>3, <2>4
    <3>2. img' = [hdr |-> h, part |-> q, at |-> a, size |-> n]
      BY <2>1
    <3> HIDE DEF q, a, n, h
    <3>3. [hdr |-> h, part |-> q, at |-> a, size |-> n] \in Image
      BY <3>1 DEF Image
    <3> QED
      BY <3>2, <3>3
  <2> QED
    BY <2>1, <2>2, <2>5
<1>5. Sizes'
  BY <1>4 DEF BInv, Sizes, GoodImage
<1> QED
  BY <1>2, <1>4, <1>5

(* The kernel goes to the second page.                                     *)
LEMMA WriteKernelB == BInv /\ WriteKernel => BInv'
<1> SUFFICES ASSUME BInv, WriteKernel PROVE BInv'
  OBVIOUS
<1> USE DEF Rest, Writing, Loaded, Quiet
<1>1. pc = "wkernel" /\ UNCHANGED <<runs, args, hdr, saved, rebuild, orig, late>>
  BY DEF WriteKernel
<1>2. CASE pos' = pos + hdr.size["kernel"] + Padding(args.page, hdr.size["kernel"])
           /\ img' = [img EXCEPT !.part["kernel"] = args.file["kernel"],
                                 !.at["kernel"] = pos, !.size = pos']
           /\ pc' = "wramdisk" /\ UNCHANGED status
  <2>1. /\ pos' = pos + Padd("kernel") /\ pos' \in Nat /\ img' \in Image /\ img'.hdr = img.hdr
        /\ img'.part["kernel"] = args.file["kernel"] /\ img'.at["kernel"] = pos
        /\ \A y \in Parts \ {"kernel"} : img'.part[y] = img.part[y] /\ img'.at[y] = img.at[y]
        /\ Sizes'
    BY <1>1, <1>2, WriteOne DEF Parts
  <2>2. TypeOK'
    BY <1>1, <1>2, <2>1 DEF BInv, TypeOK, PCs
  <2>3. Checked' /\ Complete' /\ Extracted'
    BY <1>1, <1>2 DEF BInv, Checked, Complete, Extracted
  <2>4. Progress'
    <3>1. ~late /\ img.hdr = hdr /\ pos = hdr.page /\ img.part["second"].size = 0
      BY <1>1 DEF BInv, Progress
    <3>2. img'.part["second"] = img.part["second"]
      BY <2>1 DEF Parts
    <3> QED
      BY <1>1, <1>2, <2>1, <3>1, <3>2 DEF Progress, Placed, Padd
  <2> QED
    BY <2>1, <2>2, <2>3, <2>4 DEF BInv
<1>3. CASE WriteFails
  BY <1>1, <1>3, WriteFailsB
<1> QED
  BY <1>2, <1>3 DEF WriteKernel, Write

(* The ramdisk follows the padded kernel.                                  *)
LEMMA WriteRamdiskB == BInv /\ WriteRamdisk => BInv'
<1> SUFFICES ASSUME BInv, WriteRamdisk PROVE BInv'
  OBVIOUS
<1> USE DEF Rest, Writing, Loaded, Quiet
<1>1. pc = "wramdisk" /\ UNCHANGED <<runs, args, hdr, saved, rebuild, orig, late>>
  BY DEF WriteRamdisk
<1>2. CASE pos' = pos + hdr.size["ramdisk"] + Padding(args.page, hdr.size["ramdisk"])
           /\ img' = [img EXCEPT !.part["ramdisk"] = args.file["ramdisk"],
                                 !.at["ramdisk"] = pos, !.size = pos']
           /\ pc' = "wsecond" /\ UNCHANGED status
  <2>1. /\ pos' = pos + Padd("ramdisk") /\ pos' \in Nat /\ img' \in Image /\ img'.hdr = img.hdr
        /\ img'.part["ramdisk"] = args.file["ramdisk"] /\ img'.at["ramdisk"] = pos
        /\ img'.size = pos'
        /\ \A y \in Parts \ {"ramdisk"} : img'.part[y] = img.part[y] /\ img'.at[y] = img.at[y]
        /\ Sizes'
    BY <1>1, <1>2, WriteOne DEF Parts
  <2>2. TypeOK'
    BY <1>1, <1>2, <2>1 DEF BInv, TypeOK, PCs
  <2>3. Checked' /\ Complete' /\ Extracted'
    BY <1>1, <1>2 DEF BInv, Checked, Complete, Extracted
  <2>4. Progress'
    <3>1. ~late /\ img.hdr = hdr /\ pos = hdr.page + Padd("kernel")
          /\ img.part["second"].size = 0 /\ Placed("kernel", hdr.page)
      BY <1>1 DEF BInv, Progress
    <3>2. img'.part["second"] = img.part["second"] /\ img'.part["kernel"] = img.part["kernel"]
          /\ img'.at["kernel"] = img.at["kernel"]
      BY <2>1 DEF Parts
    <3> QED
      BY <1>1, <1>2, <2>1, <3>1, <3>2 DEF Progress, Placed, Padd
  <2> QED
    BY <2>1, <2>2, <2>3, <2>4 DEF BInv
<1>3. CASE WriteFails
  BY <1>1, <1>3, WriteFailsB
<1> QED
  BY <1>2, <1>3 DEF WriteRamdisk, Write

(* With the second stage, or without one, the image is complete.           *)
LEMMA WriteSecondB == BInv /\ WriteSecond => BInv'
<1> SUFFICES ASSUME BInv, WriteSecond PROVE BInv'
  OBVIOUS
<1> USE DEF Rest, Writing, Loaded, Quiet
<1>1. pc = "wsecond" /\ UNCHANGED <<runs, args, hdr, saved, rebuild, orig, late>>
  BY DEF WriteSecond
<1>2. /\ ~late /\ img.hdr = hdr /\ pos = hdr.page + Padd("kernel") + Padd("ramdisk")
      /\ img.part["second"].size = 0 /\ img.size = pos
      /\ img.part["kernel"] = args.file["kernel"] /\ img.at["kernel"] = hdr.page
      /\ img.part["ramdisk"] = args.file["ramdisk"]
      /\ img.at["ramdisk"] = hdr.page + Padd("kernel")
  BY <1>1 DEF BInv, Progress, Placed
<1>3. /\ hdr.page \in PageSizes /\ hdr.page \in Nat /\ hdr.page > 0
      /\ \A x \in Parts : hdr.size[x] = args.file[x].size /\ Padd(x) \in Nat
  BY <1>1, Addends
<1>4. ASSUME img'.hdr = hdr, \A x \in {"kernel", "ramdisk"} : /\ img'.part[x] = img.part[x]
                                                             /\ img'.at[x] = img.at[x],
             img'.part["second"].size = hdr.size["second"],
             img'.size = hdr.page + Padd("kernel") + Padd("ramdisk") + Padd("second")
      PROVE  Laid(img')
  BY <1>2, <1>3, <1>4 DEF Laid, Padded, Padd, Parts
<1>5. CASE args.file["second"].of = "none" /\ pc' = "exit" /\ UNCHANGED <<pos, img, status>>
  <2>1. hdr.size["second"] = 0
    BY <1>3, <1>5 DEF BInv, Sizes, GoodFile, Parts
  <2>2. Padd("second") = 0
    <3>1. 0 = hdr.page * 0 + 0 /\ 0 \in 0 .. (hdr.page - 1)
      BY <1>3
    <3>2. 0 % hdr.page = 0
      BY <1>3, <3>1, DivUnique
    <3> QED
      BY <2>1, <3>2 DEF Padd, Padding
  <2>3. Laid(img')
    BY <1>2, <1>3, <1>4, <1>5, <2>1, <2>2 DEF Parts
  <2> QED
    BY <1>1, <1>2, <1>5, <2>3
       DEF BInv, TypeOK, PCs, Sizes, Checked, Progress, Complete, Extracted
<1>6. CASE pos' = pos + hdr.size["second"] + Padding(args.page, hdr.size["second"])
           /\ img' = [img EXCEPT !.part["second"] = args.file["second"],
                                 !.at["second"] = pos, !.size = pos']
           /\ pc' = "exit" /\ UNCHANGED status
  <2>1. /\ pos' = pos + Padd("second") /\ pos' \in Nat /\ img' \in Image /\ img'.hdr = img.hdr
        /\ img'.part["second"] = args.file["second"] /\ img'.size = pos'
        /\ \A y \in Parts \ {"second"} : img'.part[y] = img.part[y] /\ img'.at[y] = img.at[y]
        /\ Sizes'
    BY <1>1, <1>6, WriteOne DEF Parts
  <2>2. TypeOK'
    BY <1>1, <1>6, <2>1 DEF BInv, TypeOK, PCs
  <2>3. Laid(img')
    BY <1>2, <1>3, <1>4, <2>1 DEF Parts
  <2>4. Checked' /\ Complete' /\ Extracted'
    BY <1>1, <1>6 DEF BInv, Checked, Complete, Extracted
  <2>5. Progress'
    BY <1>1, <1>2, <1>6, <2>3 DEF Progress
  <2> QED
    BY <2>1, <2>2, <2>4, <2>5 DEF BInv
<1>7. CASE WriteFails
  BY <1>1, <1>7, WriteFailsB
<1> QED
  BY <1>5, <1>6, <1>7 DEF WriteSecond, Write

(* Ending without fclose: the image is as written, or known to be torn.    *)
LEMMA ExitB == BInv /\ Exit => BInv'
<1> SUFFICES ASSUME BInv, Exit PROVE BInv'
  OBVIOUS
<1> USE DEF Rest, Writing, Loaded, Quiet
<1>1. pc = "exit" /\ pc' = "shell" /\ status' = 0
      /\ UNCHANGED <<runs, args, hdr, pos, saved, rebuild, orig>>
  BY DEF Exit
<1>2. CASE UNCHANGED <<img, late>>
  BY <1>1, <1>2 DEF BInv, TypeOK, PCs, Sizes, Checked, Progress, Complete, Extracted
<1>3. CASE \E n \in {0, hdr.page} : img' = [img EXCEPT !.size = n] /\ late' = TRUE
  <2>1. PICK n \in {0, hdr.page} : img' = [img EXCEPT !.size = n] /\ late' = TRUE
    BY <1>3
  <2>2. n \in Int /\ img \in Image
    BY DEF BInv, TypeOK, Header
  <2>3. img' \in Image /\ img'.hdr = img.hdr /\ img'.part = img.part
    BY <2>1, <2>2 DEF Image
  <2>4. TypeOK'
    BY <1>1, <2>1, <2>3 DEF BInv, TypeOK, PCs
  <2>5. Sizes'
    BY <1>1, <2>3 DEF BInv, Sizes, GoodImage
  <2>6. Checked' /\ Progress' /\ Complete' /\ Extracted'
    BY <1>1, <2>1 DEF Checked, Progress, Complete, Extracted
  <2> QED
    BY <2>4, <2>5, <2>6 DEF BInv
<1> QED
  BY <1>2, <1>3 DEF Exit

(* Starting mkbootimg with good files.                                     *)
LEMMA StartB ==
  ASSUME BInv, pc = Rest, pc' = "args", runs' = runs + 1, args' \in Args,
         \A x \in Parts : GoodFile(args'.file[x]),
         UNCHANGED <<hdr, pos, img, saved, rebuild, status, orig, late>>
  PROVE  BInv'
<1> USE DEF Rest, Writing, Loaded, Quiet
<1>1. TypeOK'
  BY DEF BInv, TypeOK, PCs
<1>2. Sizes'
  BY DEF BInv, Sizes
<1>3. Checked' /\ Progress' /\ Complete' /\ Extracted'
  BY DEF BInv, Checked, Progress, Complete, Extracted
<1> QED
  BY <1>1, <1>2, <1>3 DEF BInv

(* The user's files are shorter than 2 GiB.                                *)
LEMMA PackB == BInv /\ Pack => BInv'
<1> SUFFICES ASSUME BInv, Pack PROVE BInv'
  OBVIOUS
<1>1. PICK k \in FileSizes, r \in FileSizes, s \in FileSizes \cup {-1}, none \in BOOLEAN,
          page \in PageSizes, name \in NameLens, cmd \in CmdLens, base \in Bases, off \in Offsets :
        args' = [file |-> [x \in Parts |->
                             CASE x = "kernel" -> [of |-> "kernel", size |-> k]
                               [] x = "ramdisk" -> IF none THEN NONE ELSE [of |-> "ramdisk", size |-> r]
                               [] x = "second" -> IF s = -1 THEN Absent ELSE [of |-> "second", size |-> s]],
                 base |-> base, off |-> off, page |-> page, name |-> name, cmd |-> cmd]
  BY DEF Pack
<1> DEFINE f == args'.file
<1>2. k \in Nat /\ k < Half /\ r \in Nat /\ r < Half
  BY SizesAssumption DEF Half
<1>3. s # -1 => s \in Nat /\ s < Half
  BY SizesAssumption DEF Half
<1>4. page \in Nat /\ name \in Nat /\ cmd \in Nat /\ base \in Nat
  BY SizesAssumption
<1>5. off \in [Loads -> Nat]
  BY SizesAssumption
<1>6. f["kernel"] = [of |-> "kernel", size |-> k]
      /\ f["ramdisk"] = (IF none THEN NONE ELSE [of |-> "ramdisk", size |-> r])
      /\ f["second"] = (IF s = -1 THEN Absent ELSE [of |-> "second", size |-> s])
  BY <1>1 DEF Parts
<1>7. \A x \in Parts : f[x] \in File /\ GoodFile(f[x])
  <2>1. f["kernel"] \in File /\ GoodFile(f["kernel"])
    BY <1>2, <1>6 DEF File, GoodFile, Parts
  <2>2. f["ramdisk"] \in File /\ GoodFile(f["ramdisk"])
    <3>1. [of |-> "ramdisk", size |-> r] \in File /\ GoodFile([of |-> "ramdisk", size |-> r])
      BY <1>2 DEF File, GoodFile, Parts
    <3> QED
      BY <1>6, <3>1, Constants
  <2>3. f["second"] \in File /\ GoodFile(f["second"])
    <3>1. s # -1 => [of |-> "second", size |-> s] \in File
                    /\ GoodFile([of |-> "second", size |-> s])
      BY <1>3 DEF File, GoodFile, Parts
    <3> QED
      BY <1>6, <3>1, Constants
  <2> QED
    BY <2>1, <2>2, <2>3 DEF Parts
<1>8. f \in [Parts -> File]
  <2> DEFINE F(x) == CASE x = "kernel" -> [of |-> "kernel", size |-> k]
                       [] x = "ramdisk" -> IF none THEN NONE ELSE [of |-> "ramdisk", size |-> r]
                       [] x = "second" -> IF s = -1 THEN Absent ELSE [of |-> "second", size |-> s]
  <2>1. f = [x \in Parts |-> F(x)]
    BY <1>1
  <2> HIDE DEF F, f
  <2>2. \A x \in Parts : F(x) \in File
    BY <1>7, <2>1
  <2> QED
    BY <2>1, <2>2
<1>9. args' = [file |-> f, base |-> base, off |-> off, page |-> page, name |-> name, cmd |-> cmd]
  BY <1>1
<1>10. args' \in Args
  <2> HIDE DEF f
  <2> QED
    BY <1>4, <1>5, <1>8, <1>9 DEF Args
<1> QED
  BY <1>7, <1>10, StartB DEF Pack

(* The files of the printed command are those that unmkbootimg wrote.      *)
LEMMA RebuildB == BInv /\ Rebuild => BInv'
<1> SUFFICES ASSUME BInv, Rebuild PROVE BInv'
  OBVIOUS
<1>1. rebuild \in Args /\ saved \in [Parts -> File]
  BY DEF BInv, TypeOK
<1>2. args' = [rebuild EXCEPT !.file = [x \in Parts |-> IF rebuild.file[x] = Absent
                                                        THEN Absent ELSE saved[x]]]
  BY DEF Rebuild, Recalled
<1>3. [x \in Parts |-> IF rebuild.file[x] = Absent THEN Absent ELSE saved[x]] \in [Parts -> File]
  BY <1>1, Constants
<1>4. args' \in Args
  BY <1>1, <1>2, <1>3 DEF Args
<1>5. args'.file = [x \in Parts |-> IF rebuild.file[x] = Absent THEN Absent ELSE saved[x]]
  BY <1>1, <1>2 DEF Args
<1>6. \A x \in Parts : GoodFile(args'.file[x])
  BY <1>5, Constants DEF BInv, Sizes
<1> QED
  BY <1>4, <1>6, StartB DEF Rebuild

(* unmkbootimg starts and loads the image.                                 *)
LEMMA UnpackB == BInv /\ (Unpack \/ LoadImage) => BInv'
<1> SUFFICES ASSUME BInv, Unpack \/ LoadImage PROVE BInv'
  OBVIOUS
<1> USE DEF Rest, Writing, Loaded, Quiet
<1>1. CASE Unpack
  BY <1>1 DEF Unpack, BInv, TypeOK, PCs, Sizes, Checked, Progress, Complete, Extracted
<1>2. CASE LoadImage
  <2>1. pc = "uload" /\ UNCHANGED <<runs, args, pos, img, saved, rebuild, late>>
    BY <1>2 DEF LoadImage
  <2>2. CASE Loadable(img) /\ hdr' = img.hdr /\ orig' = NoImage /\ pc' = "ukernel" /\ UNCHANGED status
    <3>1. hdr' \in Header
      BY <2>2 DEF BInv, TypeOK, Image
    <3>2. TypeOK'
      BY <2>1, <2>2, <3>1, Constants DEF BInv, TypeOK, PCs
    <3>3. Sizes'
      BY <2>1, <2>2 DEF BInv, Sizes, GoodImage
    <3>4. Checked' /\ Progress' /\ Extracted'
      BY <2>1, <2>2 DEF Checked, Progress, Extracted
    <3>5. Complete'
      BY <2>1, <2>2 DEF BInv, Complete, Loadable, LoadedSize
    <3> QED
      BY <3>2, <3>3, <3>4, <3>5 DEF BInv
  <2>3. CASE Fail /\ UNCHANGED <<hdr, orig>>
    <3>1. pc' = "shell" /\ status' = 1
      BY <2>3 DEF Fail
    <3> QED
      BY <2>1, <2>3, <3>1 DEF BInv, TypeOK, PCs, Sizes, Checked, Progress, Complete, Extracted
  <2> QED
    BY <1>2, <2>2, <2>3 DEF LoadImage
<1> QED
  BY <1>1, <1>2

(* The bytes at the offsets of unmkbootimg are those of the part.          *)
LEMMA ReadsPart ==
  ASSUME BInv, pc \in Loaded, ~late, img.size < Word
  PROVE  /\ \A x \in {"kernel", "ramdisk"} : ReadAt(x, OffsetOf(x, hdr)) = img.part[x]
         /\ \A x \in Parts : OffsetOf(x, hdr) + hdr.size[x] <= LoadedSize(img)
<1>1. img \in Image /\ Laid(img) /\ GoodImage(img) /\ hdr = img.hdr /\ Loadable(img)
  BY DEF BInv, TypeOK, Sizes, Complete, Quiet
<1>2. LoadedSize(img) = img.size
  BY <1>1, LaidNumbers, LoadedWhole
<1> QED
  BY <1>1, <1>2, OffsetsAgree DEF ReadAt, Parts

(* save_file of one part.                                                  *)
LEMMA SaveB ==
  ASSUME BInv, NEW x \in Parts, NEW next, Save(x, next), pc \in Loaded,
         next \in Loaded, next # "ukernel",
         pc = "ukernel" => x = "kernel" /\ next = "uramdisk",
         pc = "uramdisk" => x = "ramdisk" /\ next = "usecond",
         pc = "usecond" => x = "second" /\ next = "uprint",
         pc # "uprint"
  PROVE  BInv'
<1> USE DEF Rest, Writing, Loaded, Quiet
<1>1. UNCHANGED <<runs, args, hdr, pos, img, rebuild, orig, late>>
  BY DEF Save
<1>2. ReadAt(x, OffsetOf(x, hdr)) \in File /\ GoodFile(ReadAt(x, OffsetOf(x, hdr)))
  <2>1. img.part[x] \in File /\ GoodFile(img.part[x])
    BY DEF BInv, TypeOK, Image, Sizes, GoodImage
  <2>2. hdr.size[x] \in Nat /\ hdr.size[x] < Half
    BY DEF BInv, TypeOK, Header, Sizes
  <2>3. [of |-> "garbage", size |-> hdr.size[x]] \in File
        /\ GoodFile([of |-> "garbage", size |-> hdr.size[x]])
    BY <2>2 DEF File, GoodFile
  <2> QED
    BY <2>1, <2>3 DEF ReadAt
<1>3. [of |-> "garbage", size |-> 0] \in File /\ GoodFile([of |-> "garbage", size |-> 0])
  BY Constants DEF File, GoodFile
<1>4. saved' \in [Parts -> File] /\ (\A y \in Parts : GoodFile(saved'[y]))
      /\ \A y \in Parts \ {x} : saved'[y] = saved[y]
  <2>1. saved \in [Parts -> File] /\ \A y \in Parts : GoodFile(saved[y])
    BY DEF BInv, TypeOK, Sizes
  <2>2. saved' = saved \/ \E f \in File : GoodFile(f) /\ saved' = [saved EXCEPT ![x] = f]
    BY <1>2, <1>3 DEF Save
  <2> QED
    BY <2>1, <2>2
<1>5. Sizes'
  BY <1>1, <1>4 DEF BInv, Sizes
<1>6. CASE pc' = next /\ UNCHANGED status
  <2>1. TypeOK'
    BY <1>1, <1>4, <1>6 DEF BInv, TypeOK, PCs
  <2>2. Checked' /\ Progress'
    BY <1>6 DEF Checked, Progress
  <2>3. Complete'
    BY <1>1, <1>6 DEF BInv, Complete, Loadable, LoadedSize
  <2>4. Extracted'
    <3>1. ~late /\ img.size < Word /\ hdr.size[x] # 0 /\ x \in {"kernel", "ramdisk"}
            => saved'[x] = img.part[x]
      <4> SUFFICES ASSUME ~late, img.size < Word, hdr.size[x] # 0, x \in {"kernel", "ramdisk"}
                   PROVE  saved'[x] = img.part[x]
        OBVIOUS
      <4>1. saved' = [saved EXCEPT ![x] = ReadAt(x, OffsetOf(x, hdr))]
        BY <1>6 DEF Save, Fail
      <4>2. ReadAt(x, OffsetOf(x, hdr)) = img.part[x]
        BY ReadsPart
      <4> QED
        BY <4>1, <4>2 DEF BInv, TypeOK
    <3>2. CASE pc = "ukernel"
      BY <1>1, <1>6, <3>1, <3>2 DEF Extracted, Fetched
    <3>3. CASE pc = "uramdisk"
      BY <1>1, <1>4, <1>6, <3>1, <3>3 DEF BInv, Extracted, Fetched, Parts
    <3>4. CASE pc = "usecond"
      BY <1>1, <1>4, <1>6, <3>4 DEF BInv, Extracted, Fetched, Parts
    <3> QED
      BY <3>2, <3>3, <3>4
  <2> QED
    BY <1>5, <2>1, <2>2, <2>3, <2>4 DEF BInv
<1>7. CASE Fail
  <2>1. pc' = "shell" /\ status' = 1
    BY <1>7 DEF Fail
  <2>2. TypeOK'
    BY <1>1, <1>4, <2>1 DEF BInv, TypeOK, PCs
  <2>3. Checked' /\ Progress' /\ Complete' /\ Extracted'
    BY <1>1, <2>1 DEF BInv, Checked, Progress, Complete, Extracted
  <2> QED
    BY <1>5, <2>2, <2>3 DEF BInv
<1> QED
  BY <1>6, <1>7 DEF Save

(* Printing the command.                                                   *)
LEMMA PrintB == BInv /\ PrintCommand => BInv'
<1> SUFFICES ASSUME BInv, PrintCommand PROVE BInv'
  OBVIOUS
<1> USE DEF Rest, Writing, Loaded, Quiet
<1>1. pc = "uprint" /\ pc' = "shell" /\ status' = 0 /\ orig' = img /\ rebuild' = CommandOf(hdr)
      /\ UNCHANGED <<runs, args, hdr, pos, img, saved, late>>
  BY DEF PrintCommand
<1>2. CommandOf(hdr) \in Args
  <2>1. hdr \in Header /\ saved \in [Parts -> File]
    BY DEF BInv, TypeOK
  <2>2. [x \in Parts |-> IF hdr.size[x] # 0 THEN saved[x] ELSE Absent] \in [Parts -> File]
    BY <2>1, Constants
  <2>3. hdr.addr \in [Loads -> Nat] /\ hdr.page \in Nat /\ hdr.name \in Nat
        /\ (IF hdr.cmd # 0 THEN hdr.cmd + hdr.extra ELSE 0) \in Nat
    BY <2>1 DEF Header
  <2> QED
    BY <2>2, <2>3 DEF CommandOf, Args
<1>3. TypeOK'
  BY <1>1, <1>2 DEF BInv, TypeOK, PCs
<1>4. Sizes' /\ Checked' /\ Progress' /\ Complete' /\ Extracted'
  BY <1>1 DEF BInv, Sizes, Checked, Progress, Complete, Extracted
<1> QED
  BY <1>3, <1>4 DEF BInv

(* The invariant of the two programs: every image at rest is laid out as   *)
(* bootimg.h says, and what unmkbootimg extracted is what was packed.      *)
THEOREM LayoutInvariance == Spec => []BInv
<1>1. Init => BInv
  BY InitB
<1>2. BInv /\ [Next]_vars => BInv'
  <2> SUFFICES ASSUME BInv, [Next]_vars PROVE BInv'
    OBVIOUS
  <2>1. CASE CheckArgs \/ Load \/ Open \/ WriteHeader
    BY <2>1, CheckArgsB, LoadB, OpenB, WriteHeaderB
  <2>2. CASE WriteKernel \/ WriteRamdisk \/ WriteSecond \/ Exit
    BY <2>2, WriteKernelB, WriteRamdiskB, WriteSecondB, ExitB
  <2>3. CASE Pack \/ Rebuild \/ Unpack \/ LoadImage \/ PrintCommand
    BY <2>3, PackB, RebuildB, UnpackB, PrintB
  <2>4. CASE SaveKernel
    BY <2>4, SaveB DEF SaveKernel, Parts, Loaded
  <2>5. CASE SaveRamdisk
    BY <2>5, SaveB DEF SaveRamdisk, Parts, Loaded
  <2>6. CASE SaveSecond
    BY <2>6, SaveB DEF SaveSecond, Parts, Loaded
  <2>7. CASE Over \/ UNCHANGED vars
    <3>1. UNCHANGED vars
      BY <2>7 DEF Over
    <3> QED
      BY <3>1 DEF vars, BInv, TypeOK, Sizes, Checked, Progress, Complete, Extracted, Fetched,
                  Padd, Placed, Loadable, LoadedSize
  <2> QED
    BY <2>1, <2>2, <2>3, <2>4, <2>5, <2>6, <2>7 DEF Next
<1> QED
  BY <1>1, <1>2, PTL DEF Spec

(* The state of mkbootimg and unmkbootimg is well typed: no length in the  *)
(* header is negative, whatever the command line.                          *)
THEOREM BootTypeCorrect == Spec => []TypeOK
  BY LayoutInvariance, PTL DEF BInv

(* Kernel and ramdisk come out as they went in, for every page size and    *)
(* every file size.                                                        *)
THEOREM ExtractionIsExact == Spec => []SavedAsPacked
<1>1. BInv => SavedAsPacked
  BY DEF BInv, Extracted, Fetched, SavedAsPacked
<1> QED
  BY <1>1, LayoutInvariance, PTL

(* unmkbootimg does not read beyond a complete image.                      *)
THEOREM ReadsAreInBounds == Spec => []ReadsInBounds
<1>1. BInv => ReadsInBounds
  BY ReadsPart DEF ReadsInBounds, Loaded
<1> QED
  BY <1>1, LayoutInvariance, PTL

(* mkbootimg leaves a complete image or none.                              *)
THEOREM ImagesAreWhole == Spec => []NoPartialImage
<1>1. BInv => NoPartialImage
  <2> SUFFICES ASSUME BInv, pc = Rest, img # NoImage, ~late PROVE Whole(img)
    BY DEF NoPartialImage
  <2>1. Laid(img) /\ img \in Image /\ GoodImage(img)
    BY DEF BInv, TypeOK, Sizes, Complete, Quiet
  <2>2. img.hdr.page > 0
    BY <2>1, LaidNumbers
  <2> QED
    BY <2>1, <2>2 DEF Laid, Whole
<1> QED
  BY <1>1, LayoutInvariance, PTL

-----------------------------------------------------------------------------
(* Rebuilding.  For the image that the printed command gives again it has  *)
(* to be known how its header came about, also if the image is torn, and   *)
(* that the command and the extracted files still are those of orig.       *)

(* The header of an image that mkbootimg made.                             *)
OwnHeader(h) ==
  /\ h.name < NameSize
  /\ \A x \in Loads : h.addr[x] < Word
  /\ \E n \in 0 .. (ArgsSize + ExtraSize - 2) : h.cmd = CmdField(n) /\ h.extra = ExtraField(n)

(* Page size and places, whatever the size of the file.                    *)
Positioned(i) ==
  /\ i.hdr.page \in PageSizes
  /\ i.at["kernel"] = i.hdr.page
  /\ i.at["ramdisk"] = i.hdr.page + Padded(i, "kernel")
  /\ i.hdr.size["second"] # 0 =>
       i.at["second"] = i.hdr.page + Padded(i, "kernel") + Padded(i, "ramdisk")
  /\ i.hdr.osver \/ OwnHeader(i.hdr)

(* mkbootimg's header is that of the command line it has accepted.         *)
FromArgs ==
  pc \in Writing \cup {"load", "open"} =>
    /\ Accepts(args)
    /\ \A x \in Loads : hdr.addr[x] = U32(args.base + args.off[x])
    /\ hdr.name = args.name /\ ~hdr.osver
    /\ hdr.cmd = CmdField(args.cmd) /\ hdr.extra = ExtraField(args.cmd)

Placing ==
  /\ pc \in Quiet => img = NoImage \/ Positioned(img)
  /\ pc = "exit" =>
       /\ img.hdr = hdr /\ Positioned(img)
       /\ \A x \in Parts : hdr.size[x] # 0 => img.part[x] = args.file[x]

(* The printed command.                                                    *)
CommandFrom(i) ==
  /\ rebuild.base = 0 /\ rebuild.off = i.hdr.addr /\ rebuild.page = i.hdr.page
  /\ rebuild.name = i.hdr.name
  /\ rebuild.cmd = IF i.hdr.cmd # 0 THEN i.hdr.cmd + i.hdr.extra ELSE 0
  /\ \A x \in Parts : rebuild.file[x] = IF i.hdr.size[x] # 0 THEN saved[x] ELSE Absent

Printed ==
  /\ pc \in Loaded => orig = NoImage
  /\ \/ orig = NoImage
     \/ Positioned(orig) /\ GoodImage(orig) /\ CommandFrom(orig)

RInv == FromArgs /\ Placing /\ Printed

(* The two halves of the command line make it up again.                    *)
LEMMA CommandHalves ==
  ASSUME NEW n \in Nat
  PROVE  /\ CmdField(n) \in Nat /\ ExtraField(n) \in Nat
         /\ CmdField(n) + ExtraField(n) = n
         /\ CmdField(n) = 0 <=> n = 0
  BY SizesAssumption DEF CmdField, ExtraField

(* The command line printed for an image of mkbootimg is split as before.  *)
LEMMA OwnCommand ==
  ASSUME NEW h \in Header, OwnHeader(h),
         NEW n, n = IF h.cmd # 0 THEN h.cmd + h.extra ELSE 0
  PROVE  n <= ArgsSize + ExtraSize - 2 /\ CmdField(n) = h.cmd /\ ExtraField(n) = h.extra
<1>1. PICK m \in 0 .. (ArgsSize + ExtraSize - 2) : h.cmd = CmdField(m) /\ h.extra = ExtraField(m)
  BY DEF OwnHeader
<1>2. m \in Nat /\ m <= ArgsSize + ExtraSize - 2
  BY SizesAssumption
<1>3. n = m
  BY <1>1, <1>2, CommandHalves
<1> QED
  BY <1>1, <1>2, <1>3

(* The shell starts with an image of another tool, or with none.           *)
LEMMA InitR == Init => RInv
<1> SUFFICES ASSUME Init PROVE RInv
  OBVIOUS
<1> USE DEF Rest, Writing, Loaded, Quiet
<1>1. img = NoImage \/ Positioned(img)
  <2> SUFFICES ASSUME img # NoImage PROVE Positioned(img)
    OBVIOUS
  <2>1. PICK p \in PageSizes, k \in FileSizes \ {0}, r \in FileSizes \ {0} :
          img = ForeignImage(p, k, r)
    BY DEF Init
  <2>2. Laid(img)
    BY <2>1, ForeignLaid
  <2>3. img.hdr.osver = TRUE /\ img.hdr.size["second"] = 0
    BY <2>1 DEF ForeignImage, NoHeader, Parts
  <2> QED
    BY <2>2, <2>3 DEF Laid, Positioned
<1> QED
  BY <1>1 DEF Init, RInv, FromArgs, Placing, Printed

(* Commands that touch neither the image nor the extracted files.          *)
LEMMA QuietR ==
  ASSUME RInv, UNCHANGED <<img, saved, rebuild, orig>>, pc \in Quiet, pc' \in Quiet,
         pc' \in Loaded => pc \in Loaded, FromArgs'
  PROVE  RInv'
<1>1. Placing'
  BY DEF RInv, Placing, Quiet, Loaded, Rest
<1>2. Printed'
  BY DEF RInv, Printed, CommandFrom
<1> QED
  BY <1>1, <1>2 DEF RInv

(* The header is filled in from a command line that passed the checks.     *)
LEMMA CheckArgsR == BInv /\ RInv /\ CheckArgs => RInv'
<1> SUFFICES ASSUME BInv, RInv, CheckArgs PROVE RInv'
  OBVIOUS
<1> USE DEF Rest, Writing, Loaded, Quiet
<1>1. pc = "args" /\ UNCHANGED <<runs, args, pos, img, saved, rebuild, orig, late>>
  BY DEF CheckArgs
<1>2. FromArgs' /\ pc' \in {Rest, "load"}
  <2>1. CASE Accepts(args)
    <3>1. hdr' = HeaderOf(args) /\ pc' = "load"
      BY <2>1 DEF CheckArgs
    <3>2. Accepts(args)'
      BY <1>1, <2>1 DEF Accepts
    <3> QED
      BY <1>1, <3>1, <3>2 DEF FromArgs, HeaderOf
  <2>2. CASE ~Accepts(args)
    BY <2>2 DEF CheckArgs, Fail, FromArgs
  <2> QED
    BY <2>1, <2>2
<1> QED
  BY <1>1, <1>2, QuietR

(* Loading the files changes only the sizes in the header.                 *)
LEMMA LoadR == BInv /\ RInv /\ Load => RInv'
<1> SUFFICES ASSUME BInv, RInv, Load PROVE RInv'
  OBVIOUS
<1> USE DEF Rest, Writing, Loaded, Quiet
<1>1. pc = "load" /\ UNCHANGED <<runs, args, pos, img, saved, rebuild, orig, late>>
  BY DEF Load
<1>2. FromArgs' /\ pc' \in {Rest, "open"}
  <2>1. CASE hdr' = [hdr EXCEPT !.size = [x \in Parts |-> args.file[x].size]] /\ pc' = "open"
    <3>1. /\ hdr'.addr = hdr.addr /\ hdr'.name = hdr.name /\ hdr'.osver = hdr.osver
          /\ hdr'.cmd = hdr.cmd /\ hdr'.extra = hdr.extra
      BY <2>1 DEF BInv, TypeOK, Header
    <3>2. Accepts(args)'
      BY <1>1 DEF Accepts, RInv, FromArgs
    <3>3. /\ \A x \in Loads : hdr.addr[x] = U32(args.base + args.off[x])
          /\ hdr.name = args.name /\ ~hdr.osver
          /\ hdr.cmd = CmdField(args.cmd) /\ hdr.extra = ExtraField(args.cmd)
      BY <1>1 DEF RInv, FromArgs
    <3> QED
      BY <1>1, <2>1, <3>1, <3>2, <3>3 DEF FromArgs
  <2>2. CASE Fail
    BY <2>2 DEF Fail, FromArgs
  <2> QED
    BY <2>1, <2>2 DEF Load
<1> QED
  BY <1>1, <1>2, QuietR

(* While the image is written, nothing is claimed of it; an error removes  *)
(* it.                                                                     *)
LEMMA WritingR ==
  ASSUME RInv, pc \in Writing \cup {"open"}, UNCHANGED <<args, hdr, saved, rebuild, orig>>,
         \/ pc' \in Writing \ {"exit"}
         \/ pc' = Rest /\ (img' = NoImage \/ (img' = img /\ pc = "open"))
  PROVE  RInv'
<1> USE DEF Rest, Writing, Loaded, Quiet
<1>1. FromArgs'
  BY DEF RInv, FromArgs, Accepts
<1>2. Placing'
  BY DEF RInv, Placing
<1>3. Printed'
  BY DEF RInv, Printed, CommandFrom
<1> QED
  BY <1>1, <1>2, <1>3 DEF RInv

(* After a failed write there is no image.                                 *)
LEMMA WriteFailsR ==
  ASSUME RInv, pc \in Writing, WriteFails, UNCHANGED <<args, hdr, saved, rebuild, orig>>
  PROVE  RInv'
<1>1. pc' = Rest /\ img' = NoImage
  BY DEF WriteFails, Fail, Unlink
<1> QED
  BY <1>1, WritingR

(* fopen either empties the image or leaves it as it was.                  *)
LEMMA OpenR == BInv /\ RInv /\ Open => RInv'
<1> SUFFICES ASSUME RInv, Open PROVE RInv'
  OBVIOUS
<1>1. pc = "open" /\ UNCHANGED <<args, hdr, saved, rebuild, orig>>
  BY DEF Open
<1>2. pc' = "whdr" \/ (pc' = Rest /\ img' = img)
  BY DEF Open, Fail
<1> QED
  BY <1>1, <1>2, WritingR DEF Writing

(* Header, kernel and ramdisk: the image is not complete yet.              *)
LEMMA WriteEarlyR == BInv /\ RInv /\ (WriteHeader \/ WriteKernel \/ WriteRamdisk) => RInv'
<1> SUFFICES ASSUME RInv, WriteHeader \/ WriteKernel \/ WriteRamdisk PROVE RInv'
  OBVIOUS
<1>1. pc \in Writing /\ UNCHANGED <<args, hdr, saved, rebuild, orig>>
  BY DEF WriteHeader, WriteKernel, WriteRamdisk, Writing
<1>2. CASE WriteFails
  BY <1>1, <1>2, WriteFailsR
<1>3. CASE pc' \in {"wkernel", "wramdisk", "wsecond"}
  BY <1>1, <1>3, WritingR DEF Writing
<1> QED
  BY <1>2, <1>3 DEF WriteHeader, WriteKernel, WriteRamdisk, Write

(* The header is one of mkbootimg's.                                       *)
LEMMA HeaderIsOwn ==
  ASSUME BInv, RInv, pc \in Writing
  PROVE  OwnHeader(hdr)
<1>1. /\ Accepts(args) /\ hdr.name = args.name
      /\ \A x \in Loads : hdr.addr[x] = U32(args.base + args.off[x])
      /\ hdr.cmd = CmdField(args.cmd) /\ hdr.extra = ExtraField(args.cmd)
  BY DEF RInv, FromArgs
<1>2. \A x \in Loads : hdr.addr[x] < Word
  BY <1>1, U32Le DEF BInv, TypeOK, Args
<1>3. args.cmd \in 0 .. (ArgsSize + ExtraSize - 2)
  BY <1>1, SizesAssumption DEF BInv, TypeOK, Args, Accepts
<1> QED
  BY <1>1, <1>2, <1>3 DEF OwnHeader, Accepts

(* The last part completes the image.                                      *)
LEMMA WriteSecondR == BInv /\ RInv /\ WriteSecond => RInv'
<1> SUFFICES ASSUME BInv, RInv, WriteSecond PROVE RInv'
  OBVIOUS
<1> USE DEF Rest, Writing, Loaded, Quiet
<1>1. pc = "wsecond" /\ UNCHANGED <<runs, args, hdr, saved, rebuild, orig, late>>
  BY DEF WriteSecond
<1>2. /\ img.hdr = hdr /\ pos = hdr.page + Padd("kernel") + Padd("ramdisk")
      /\ img.part["kernel"] = args.file["kernel"] /\ img.at["kernel"] = hdr.page
      /\ img.part["ramdisk"] = args.file["ramdisk"]
      /\ img.at["ramdisk"] = hdr.page + Padd("kernel")
  BY <1>1 DEF BInv, Progress, Placed
<1>3. hdr.page \in PageSizes /\ hdr.size["second"] = args.file["second"].size
  BY <1>1, Addends DEF Parts
<1>4. OwnHeader(hdr)
  BY <1>1, HeaderIsOwn
<1>5. ASSUME pc' = "exit", img'.hdr = hdr,
             \A x \in {"kernel", "ramdisk"} : img'.part[x] = img.part[x] /\ img'.at[x] = img.at[x],
             hdr.size["second"] # 0 => /\ img'.part["second"] = args.file["second"]
                                       /\ img'.at["second"] = pos
      PROVE  RInv'
  <2>1. FromArgs'
    BY <1>1, <1>5 DEF RInv, FromArgs, Accepts
  <2>2. Positioned(img')
    BY <1>2, <1>3, <1>4, <1>5 DEF Positioned, Padded, Padd
  <2>3. Placing'
    BY <1>1, <1>2, <1>5, <2>2 DEF Placing, Parts
  <2>4. Printed'
    BY <1>1, <1>5 DEF RInv, Printed, CommandFrom
  <2> QED
    BY <2>1, <2>3, <2>4 DEF RInv
<1>6. CASE args.file["second"].of = "none" /\ pc' = "exit" /\ UNCHANGED <<pos, img, status>>
  <2>1. hdr.size["second"] = 0
    BY <1>3, <1>6 DEF BInv, Sizes, GoodFile, Parts
  <2> QED
    BY <1>2, <1>5, <1>6, <2>1
<1>7. CASE pos' = pos + hdr.size["second"] + Padding(args.page, hdr.size["second"])
           /\ img' = [img EXCEPT !.part["second"] = args.file["second"],
                                 !.at["second"] = pos, !.size = pos']
           /\ pc' = "exit" /\ UNCHANGED status
  <2>1. /\ img'.hdr = img.hdr
        /\ img'.part["second"] = args.file["second"] /\ img'.at["second"] = pos
        /\ \A y \in Parts \ {"second"} : img'.part[y] = img.part[y] /\ img'.at[y] = img.at[y]
    BY <1>1, <1>7, WriteOne DEF Parts
  <2> QED
    BY <1>2, <1>5, <1>7, <2>1 DEF Parts
<1>8. CASE WriteFails
  BY <1>1, <1>8, WriteFailsR
<1> QED
  BY <1>6, <1>7, <1>8 DEF WriteSecond, Write

(* A failed last flush shortens the file and moves nothing.                *)
LEMMA ExitR == BInv /\ RInv /\ Exit => RInv'
<1> SUFFICES ASSUME BInv, RInv, Exit PROVE RInv'
  OBVIOUS
<1> USE DEF Rest, Writing, Loaded, Quiet
<1>1. pc = "exit" /\ pc' = "shell" /\ UNCHANGED <<args, hdr, saved, rebuild, orig>>
  BY DEF Exit
<1>2. img'.hdr = img.hdr /\ img'.at = img.at
  BY DEF Exit, BInv, TypeOK, Image
<1>3. Positioned(img')
  BY <1>1, <1>2 DEF RInv, Placing, Positioned, Padded
<1>4. FromArgs' /\ Placing'
  BY <1>1, <1>3 DEF FromArgs, Placing
<1>5. Printed'
  BY <1>1 DEF RInv, Printed, CommandFrom
<1> QED
  BY <1>4, <1>5 DEF RInv

(* Starting a program.                                                     *)
LEMMA StartR == BInv /\ RInv /\ (Pack \/ Rebuild \/ Unpack) => RInv'
<1> SUFFICES ASSUME RInv, Pack \/ Rebuild \/ Unpack PROVE RInv'
  OBVIOUS
<1> USE DEF Rest, Writing, Loaded, Quiet
<1>1. pc = "shell" /\ pc' \in {"args", "uload"} /\ UNCHANGED <<img, saved, rebuild, orig>>
  BY DEF Pack, Rebuild, Unpack
<1> QED
  BY <1>1, QuietR DEF FromArgs

(* With a new image loaded, the old command is not valid any more.         *)
LEMMA LoadImageR == BInv /\ RInv /\ LoadImage => RInv'
<1> SUFFICES ASSUME RInv, LoadImage PROVE RInv'
  OBVIOUS
<1> USE DEF Rest, Writing, Loaded, Quiet
<1>1. pc = "uload" /\ UNCHANGED <<img, saved, rebuild>>
  BY DEF LoadImage
<1>2. CASE orig' = NoImage /\ pc' = "ukernel"
  BY <1>1, <1>2 DEF RInv, FromArgs, Placing, Printed
<1>3. CASE UNCHANGED orig /\ pc' = "shell"
  BY <1>1, <1>3, QuietR DEF FromArgs
<1> QED
  BY <1>2, <1>3 DEF LoadImage, Fail

(* The files are overwritten only while no command is valid.               *)
LEMMA SaveR ==
  ASSUME RInv, pc \in Loaded, NEW x \in Parts, NEW next, Save(x, next),
         next \in Loaded
  PROVE  RInv'
<1> USE DEF Rest, Writing, Loaded, Quiet
<1>1. (pc' = next \/ pc' = "shell") /\ UNCHANGED <<img, rebuild, orig>>
  BY DEF Save, Fail
<1> QED
  BY <1>1 DEF RInv, FromArgs, Placing, Printed

(* The command is that of the image that was taken apart.                  *)
LEMMA PrintR == BInv /\ RInv /\ PrintCommand => RInv'
<1> SUFFICES ASSUME BInv, RInv, PrintCommand PROVE RInv'
  OBVIOUS
<1> USE DEF Rest, Writing, Loaded, Quiet
<1>1. pc = "uprint" /\ pc' = "shell" /\ orig' = img /\ rebuild' = CommandOf(hdr)
      /\ UNCHANGED <<args, hdr, img, saved>>
  BY DEF PrintCommand
<1>2. hdr = img.hdr /\ img # NoImage /\ GoodImage(img)
  BY <1>1 DEF BInv, Complete, Sizes
<1>3. Positioned(img)
  BY <1>1, <1>2 DEF RInv, Placing
<1>4. CommandFrom(img)'
  BY <1>1, <1>2 DEF CommandFrom, CommandOf
<1>5. FromArgs' /\ Placing'
  BY <1>1, <1>3 DEF FromArgs, Placing
<1>6. Printed'
  BY <1>1, <1>2, <1>3, <1>4 DEF Printed, CommandFrom
<1> QED
  BY <1>5, <1>6 DEF RInv

(* The printed command and the files stay those of the image they are      *)
(* from, until unmkbootimg runs again.                                     *)
THEOREM CommandInvariance == Spec => []RInv
<1>1. BInv /\ RInv /\ [Next]_vars => RInv'
  <2> SUFFICES ASSUME BInv, RInv, [Next]_vars PROVE RInv'
    OBVIOUS
  <2>1. CASE CheckArgs \/ Load \/ Open \/ WriteHeader \/ WriteKernel \/ WriteRamdisk
    BY <2>1, CheckArgsR, LoadR, OpenR, WriteEarlyR
  <2>2. CASE WriteSecond \/ Exit \/ LoadImage \/ PrintCommand
    BY <2>2, WriteSecondR, ExitR, LoadImageR, PrintR
  <2>3. CASE Pack \/ Rebuild \/ Unpack
    BY <2>3, StartR
  <2>4. CASE SaveKernel \/ SaveRamdisk \/ SaveSecond
    BY <2>4, SaveR DEF SaveKernel, SaveRamdisk, SaveSecond, Parts, Loaded
  <2>5. CASE Over \/ UNCHANGED vars
    <3>1. UNCHANGED vars
      BY <2>5 DEF Over
    <3> QED
      BY <3>1 DEF vars, RInv, FromArgs, Accepts, Placing, Printed, CommandFrom
  <2> QED
    BY <2>1, <2>2, <2>3, <2>4, <2>5 DEF Next
<1> QED
  BY <1>1, InitR, LayoutInvariance, PTL DEF Spec

(* What the printed command asks for.                                      *)
LEMMA RecalledCommand ==
  ASSUME BInv, RInv, Whole(orig), ~orig.hdr.osver,
         \A x \in Parts : orig.hdr.size[x] # 0 => saved[x] = orig.part[x]
  PROVE  /\ Recalled.base = 0 /\ Recalled.off = orig.hdr.addr
         /\ Recalled.page = orig.hdr.page /\ Recalled.name = orig.hdr.name
         /\ Recalled.cmd = IF orig.hdr.cmd # 0 THEN orig.hdr.cmd + orig.hdr.extra ELSE 0
         /\ \A x \in Parts :
              Recalled.file[x] = IF orig.hdr.size[x] # 0 THEN orig.part[x] ELSE Absent
         /\ Positioned(orig) /\ GoodImage(orig) /\ OwnHeader(orig.hdr)
<1>1. orig # NoImage
  BY DEF Whole, NoImage, NoHeader
<1>2. Positioned(orig) /\ GoodImage(orig) /\ CommandFrom(orig) /\ OwnHeader(orig.hdr)
  BY <1>1 DEF RInv, Printed, Positioned
<1>3. rebuild \in Args
  BY DEF BInv, TypeOK
<1>4. /\ Recalled.base = rebuild.base /\ Recalled.off = rebuild.off
      /\ Recalled.page = rebuild.page /\ Recalled.name = rebuild.name
      /\ Recalled.cmd = rebuild.cmd
      /\ \A x \in Parts :
           Recalled.file[x] = IF rebuild.file[x] = Absent THEN Absent ELSE saved[x]
  BY <1>3 DEF Recalled, Args
<1>5. ASSUME NEW x \in Parts
      PROVE  Recalled.file[x] = IF orig.hdr.size[x] # 0 THEN orig.part[x] ELSE Absent
  <2>1. rebuild.file[x] = IF orig.hdr.size[x] # 0 THEN saved[x] ELSE Absent
    BY <1>2 DEF CommandFrom
  <2>2. orig.hdr.size[x] # 0 => saved[x] = orig.part[x] /\ orig.part[x] # Absent
    BY DEF Whole, Absent
  <2> QED
    BY <1>4, <2>1, <2>2
<1> QED
  BY <1>2, <1>4, <1>5 DEF CommandFrom

(* The printed command is accepted and gives the same image again, for     *)
(* every page size, load address and command line.                         *)
THEOREM RebuildIsExact == Spec => []RebuildsSame
<1>1. BInv /\ RInv => RebuildsSame
  <2> SUFFICES ASSUME BInv, RInv, Whole(orig), ~orig.hdr.osver, args = Recalled,
                      \A x \in Parts : orig.hdr.size[x] # 0 => saved[x] = orig.part[x],
                      orig.hdr.size["kernel"] # 0, orig.hdr.size["ramdisk"] # 0
               PROVE  /\ pc = "args" => Accepts(args)
                      /\ pc = "exit" => SameBytes(img, orig)
    BY DEF RebuildsSame
  <2> DEFINE h == orig.hdr
  <2>1. /\ args.base = 0 /\ args.off = h.addr /\ args.page = h.page /\ args.name = h.name
        /\ args.cmd = IF h.cmd # 0 THEN h.cmd + h.extra ELSE 0
        /\ \A x \in Parts : args.file[x] = IF h.size[x] # 0 THEN orig.part[x] ELSE Absent
        /\ Positioned(orig) /\ GoodImage(orig) /\ OwnHeader(h)
    BY RecalledCommand
  <2>2. orig \in Image /\ h \in Header
    BY DEF BInv, TypeOK, Image
  <2>3. /\ args.cmd <= ArgsSize + ExtraSize - 2
        /\ CmdField(args.cmd) = h.cmd /\ ExtraField(args.cmd) = h.extra
    BY <2>1, <2>2, OwnCommand
  <2>4. \A x \in {"kernel", "ramdisk"} : args.file[x].of # "none"
    BY <2>1, <2>2 DEF GoodImage, GoodFile, Whole, Parts
  <2>5. Accepts(args)
    BY <2>1, <2>3, <2>4 DEF Accepts, Positioned, OwnHeader
  <2>6. ASSUME pc = "exit" PROVE SameBytes(img, orig)
    <3>1. /\ img.hdr = hdr /\ Positioned(img) /\ Laid(img) /\ hdr \in Header
          /\ \A x \in Parts : hdr.size[x] # 0 => img.part[x] = args.file[x]
      BY <2>6 DEF RInv, Placing, BInv, Progress, TypeOK
    <3>2. hdr.size = h.size
      <4>1. \A x \in Parts : hdr.size[x] = h.size[x]
        <5>1. \A x \in Parts : hdr.size[x] = args.file[x].size
          BY <2>6 DEF BInv, Checked, Writing
        <5>2. \A x \in Parts : orig.part[x].size = h.size[x]
          BY DEF Whole
        <5> QED
          BY <2>1, <5>1, <5>2 DEF Absent
      <4>2. hdr.size \in [Parts -> Nat] /\ h.size \in [Parts -> Nat]
        BY <2>2, <3>1 DEF Header
      <4> QED
        BY <4>1, <4>2
    <3>3. hdr.addr = h.addr
      <4>1. ASSUME NEW x \in Loads PROVE hdr.addr[x] = h.addr[x]
        <5>1. hdr.addr[x] = U32(0 + h.addr[x])
          BY <2>1, <2>6 DEF RInv, FromArgs, Writing
        <5>2. h.addr[x] \in Nat /\ h.addr[x] < Word
          BY <2>1, <2>2 DEF Header, OwnHeader
        <5> QED
          BY <5>1, <5>2, U32Small
      <4>2. hdr.addr \in [Loads -> Nat] /\ h.addr \in [Loads -> Nat]
        BY <2>2, <3>1 DEF Header
      <4> QED
        BY <4>1, <4>2
    <3>4. /\ hdr.page = h.page /\ hdr.name = h.name /\ hdr.osver = h.osver
          /\ hdr.cmd = h.cmd /\ hdr.extra = h.extra
      <4>1. hdr.page = h.page
        BY <2>1, <2>6 DEF BInv, Checked, Writing
      <4>2. hdr.name = h.name /\ ~hdr.osver /\ hdr.cmd = h.cmd /\ hdr.extra = h.extra
        BY <2>1, <2>3, <2>6 DEF RInv, FromArgs, Writing
      <4>3. hdr.osver = h.osver
        BY <2>2, <3>1, <4>2, Zenon DEF Header
      <4> QED
        BY <4>1, <4>2, <4>3
    <3>5. img.hdr = h
      BY <2>2, <3>1, <3>2, <3>3, <3>4 DEF Header
    <3>6. img.size = orig.size
      <4>1. \A x \in Parts : Padded(img, x) = Padded(orig, x)
        BY <3>5 DEF Padded
      <4> QED
        BY <3>1, <3>5, <4>1 DEF Whole, Laid, Parts
    <3>7. \A x \in Parts : h.size[x] # 0 => img.part[x] = orig.part[x] /\ img.at[x] = orig.at[x]
      BY <2>1, <3>1, <3>5 DEF Positioned, Padded, Parts
    <3> QED
      BY <3>5, <3>6, <3>7 DEF SameBytes
  <2> QED
    BY <2>5, <2>6
<1> QED
  BY <1>1, LayoutInvariance, CommandInvariance, PTL
==============================================================================
