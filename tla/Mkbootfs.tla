------------------------------ MODULE Mkbootfs ------------------------------
(***************************************************************************)
(* cpio/mkbootfs.c: a cpio archive of directory trees.  A path is a        *)
(* sequence of names, a name a number in strcmp order; the buffers in and  *)
(* out are cut back to ilen and olen after every entry, and a file may     *)
(* change between lstat and read.  The archive is the sequence of its      *)
(* headers and data with the offsets they were written at: pos counts the  *)
(* bytes, total_size is the program's own count.                           *)
(***************************************************************************)
EXTENDS Integers, Sequences, FiniteSets, SequencesExt

CONSTANTS Names,       \* names in the tree, ordered as strcmp orders them
          Hidden,      \* those that begin with a dot, and root
          NameLen(_),  \* strlen of a name
          Trees,       \* trees: function from paths to [kind, size]
          Args,        \* command lines: sequences of [start, prefix]
          Canned,      \* files for -f: sequences of [name, mode]
          FirstSize,   \* entries canned_config is allocated for at first: 8
          LINKMAX,     \* buf of readlink: 1024
          MaxChanges   \* bound: changes of the tree while mkbootfs runs

ASSUME MkbootfsSizes == FirstSize > 0 /\ LINKMAX > 0 /\ MaxChanges \in Nat

VARIABLES tree, args, file, argi, \* the input; argi: the argument at work
          canned, used, allocated, \* canned_config: NoConfig, or its entries
          pc, stack, in, out, s, \* the walk: frames [left, ilen, olen], buffers, struct stat
          total_size, pos, archive,
          changes                \* history: number of changes of the tree
vars == <<tree, args, file, argi, canned, used, allocated, pc, stack, in, out, s,
          total_size, pos, archive, changes>>
input == <<args, file, argi>>
config == <<canned, used, allocated>>

NoConfig == <<[none |-> TRUE]>>
NoFile == NoConfig

(* strlen of a path: the names and the slashes between them.               *)
Chars(p) == LET sum[i \in 0 .. Len(p)] ==
                  IF i = 0 THEN 0 ELSE sum[i - 1] + NameLen(p[i]) + (IF i > 1 THEN 1 ELSE 0)
            IN  sum[Len(p)]
(* buffer[len] = 0 *)
Cut(p, len) == SubSeq(p, 1, CHOOSE k \in 0 .. Len(p) : Chars(SubSeq(p, 1, k)) = len)

Init ==
  /\ tree \in Trees /\ args \in Args /\ file \in Canned /\ argi = 1
  /\ canned = NoConfig /\ used = 0 /\ allocated = 0
  /\ pc = "start" /\ stack = <<>> /\ in = <<>> /\ out = <<>> /\ s = <<>>
  /\ total_size = 0 /\ pos = 0 /\ archive = <<>> /\ changes = 0

Die(how) == pc' = how
-----------------------------------------------------------------------------
(* read_canned_config *)
Open ==
  /\ pc = "start"
  /\ IF file = NoFile THEN pc' = "args" /\ UNCHANGED <<canned, allocated>>
     ELSE pc' = "config" /\ canned' = <<>> /\ allocated' = FirstSize
  /\ UNCHANGED <<tree, input, used, stack, in, out, s, total_size, pos, archive, changes>>

(* One entry more, whose place in the table is used.                       *)
Grown(u, size) == IF u >= size THEN size * 2 ELSE size
ReadLine ==
  /\ pc = "config" /\ used < Len(file)
  /\ allocated' = Grown(used, allocated)
  /\ canned' = Append(canned, file[used + 1])
  /\ used' = used + 1
  /\ UNCHANGED <<tree, input, pc, stack, in, out, s, total_size, pos, archive, changes>>

EndOfConfig ==
  /\ pc = "config" /\ used = Len(file)
  /\ allocated' = IF used >= allocated THEN allocated + 1 ELSE allocated
  /\ pc' = "args"
  /\ UNCHANGED <<tree, input, canned, used, stack, in, out, s, total_size, pos, archive, changes>>
-----------------------------------------------------------------------------
(* fix_stat: the first entry with this path, the last one without a path,  *)
(* a null pointer if there is none.  fs_config is external.                *)
fs_config(path, mode) == IF mode.kind = "dir" THEN 755 ELSE 644
Crash == [kind |-> "crash"]
fix_stat(path, st) ==
  LET exact == {i \in DOMAIN canned : canned[i].name = path}
      empty == {i \in DOMAIN canned : canned[i].name = <<>>}
      With(i) == [st EXCEPT !.perm = canned[i].mode]
  IN  IF canned = NoConfig THEN [st EXCEPT !.perm = fs_config(path, st)]
      ELSE IF exact # {} THEN With(CHOOSE i \in exact : \A j \in exact : i <= j)
      ELSE IF empty # {} THEN With(CHOOSE i \in empty : \A j \in empty : i >= j)
      ELSE Crash

(* Mutant: pads by what is over a word, not by what is missing. *)
Pad_Up(n, to) == n % to
(* _eject: pad, header and name, pad, data.  total_size decides on the     *)
(* padding; pos follows what is written.                                   *)
Pad(n, to) == (to - (n % to)) % to
HEADER == 6 + 8 * 13
Ejected(path, olen, st, datasize) ==
  LET pad1 == Pad(total_size, 4)
      t1 == total_size + pad1 + HEADER + olen + 1
      pad2 == Pad(t1, 4)
      at == pos + pad1
  IN  [total |-> t1 + pad2 + datasize,
       pos |-> at + HEADER + Chars(path) + 1 + pad2 + datasize,
       entry |-> [at |-> at, name |-> path, namesize |-> olen + 1, size |-> datasize,
                  data |-> at + HEADER + Chars(path) + 1 + pad2,
                  st |-> fix_stat(path, st), arg |-> argi]]

_eject(path, olen, st, datasize, then) ==
  LET e == Ejected(path, olen, st, datasize)
  IN  IF e.entry.st = Crash
      THEN Die("crash") /\ UNCHANGED <<total_size, pos, archive>>
      ELSE /\ total_size' = e.total /\ pos' = e.pos /\ archive' = Append(archive, e.entry)
           /\ IF Chars(path) # olen THEN Die("ACK") ELSE pc' = then
-----------------------------------------------------------------------------
(* main: the next argument, then the trailer.                              *)
NextArg ==
  /\ pc = "args" /\ argi <= Len(args)
  /\ in' = args[argi].start /\ out' = args[argi].prefix
  /\ s' = [ilen |-> Chars(in'), olen |-> Chars(out')]
  /\ pc' = "opendir"
  /\ UNCHANGED <<tree, input, config, stack, total_size, pos, archive, changes>>

(* _archive_dir: the names in the directory but the hidden ones, sorted.   *)
qsort(S) == SetToSortSeq(S, <)
Children(dir) == {n \in Names : dir \o <<n>> \in DOMAIN tree}
OpenDir ==
  /\ pc = "opendir"
  /\ IF in # <<>> /\ (in \notin DOMAIN tree \/ tree[in].kind # "dir")
     THEN Die("died") /\ UNCHANGED stack
     ELSE /\ stack' = <<[left |-> qsort(Children(in) \ Hidden),
                         ilen |-> s.ilen, olen |-> s.olen]>> \o stack
          /\ pc' = "entry"
  /\ UNCHANGED <<tree, input, config, in, out, s, total_size, pos, archive, changes>>

(* The next name goes after ilen and olen; lstat.  Paths in `in` are seen  *)
(* from the directory all starts are in.                                   *)
Add(len, n) == IF len > 0 THEN len + NameLen(n) + 1 ELSE NameLen(n)
Entry ==
  /\ pc = "entry" /\ Head(stack).left # <<>>
  /\ LET f == Head(stack)
         n == f.left[1]
         path == in \o <<n>>
     IN  /\ stack' = <<[f EXCEPT !.left = Tail(@)]>> \o Tail(stack)
         /\ in' = path /\ out' = out \o <<n>>
         /\ IF path \notin DOMAIN tree \/ tree[path].kind = "other"
            THEN Die("died") /\ UNCHANGED s
            ELSE /\ s' = [ilen |-> Add(f.ilen, n), olen |-> Add(f.olen, n),
                          kind |-> tree[path].kind, size |-> tree[path].size]
                 /\ pc' = tree[path].kind
  /\ UNCHANGED <<tree, input, config, total_size, pos, archive, changes>>

St(kind) == [kind |-> kind, perm |-> 0]
(* open, malloc(st_size) and read: less than st_size bytes is an error.    *)
Reg ==
  /\ pc = "reg"
  /\ IF in \notin DOMAIN tree \/ tree[in].kind # "reg" \/ tree[in].size < s.size
     THEN Die("died") /\ UNCHANGED <<total_size, pos, archive>>
     ELSE _eject(out, s.olen, St("reg"), s.size, "reset")
  /\ UNCHANGED <<tree, input, config, stack, in, out, s, changes>>
Dir ==
  /\ pc = "dir"
  /\ _eject(out, s.olen, St("dir"), 0, "opendir")
  /\ UNCHANGED <<tree, input, config, stack, in, out, s, changes>>
(* readlink cuts the target at the size of its buffer.                     *)
Lnk ==
  /\ pc = "lnk"
  /\ IF in \notin DOMAIN tree \/ tree[in].kind # "lnk"
     THEN Die("died") /\ UNCHANGED <<total_size, pos, archive>>
     ELSE _eject(out, s.olen, St("lnk"),
                 IF tree[in].size > LINKMAX THEN LINKMAX ELSE tree[in].size, "reset")
  /\ UNCHANGED <<tree, input, config, stack, in, out, s, changes>>

(* in[ilen] = 0; out[olen] = 0 *)
Reset ==
  /\ pc = "reset"
  /\ in' = Cut(in, Head(stack).ilen) /\ out' = Cut(out, Head(stack).olen)
  /\ pc' = "entry"
  /\ UNCHANGED <<tree, input, config, stack, s, total_size, pos, archive, changes>>

EndOfDir ==
  /\ pc = "entry" /\ Head(stack).left = <<>>
  /\ stack' = Tail(stack)
  /\ IF Len(stack) = 1 THEN pc' = "args" /\ argi' = argi + 1 ELSE pc' = "reset" /\ UNCHANGED argi
  /\ UNCHANGED <<tree, args, file, config, in, out, s, total_size, pos, archive, changes>>

(* The name TRAILER!!! is the one-element path <<0>>, of 10 characters.    *)
Trailer ==
  /\ pc = "args" /\ argi > Len(args)
  /\ LET e == Ejected(<<0>>, 10, St("none"), 0)
     IN  IF e.entry.st = Crash
         THEN Die("crash") /\ UNCHANGED <<total_size, pos, archive>>
         ELSE /\ archive' = Append(archive, e.entry)
              /\ total_size' = e.total + Pad(e.total, 256)
              /\ pos' = e.pos + Pad(e.total, 256)
              /\ pc' = "done"
  /\ UNCHANGED <<tree, input, config, stack, in, out, s, changes>>

(* Somebody removes a file or directory, or changes the size of a file.    *)
Change(path) ==
  /\ changes < MaxChanges /\ pc \notin {"start", "config", "done", "died", "crash", "ACK"}
  /\ changes' = changes + 1
  /\ \/ tree' = [p \in {q \in DOMAIN tree : ~ IsPrefix(path, q)} |-> tree[p]]
     \/ /\ tree[path].kind = "reg"
        /\ \E n \in {tree[path].size - 1, tree[path].size + 1} \cap Nat : tree' = [tree EXCEPT ![path].size = n]
  /\ UNCHANGED <<input, config, pc, stack, in, out, s, total_size, pos, archive>>

Next == Open \/ ReadLine \/ EndOfConfig \/ NextArg \/ OpenDir \/ Entry \/ Reg \/ Dir \/ Lnk
        \/ Reset \/ EndOfDir \/ Trailer \/ \E p \in DOMAIN tree : Change(p)
Spec == Init /\ [][Next]_vars
-----------------------------------------------------------------------------
Align4(n) == CHOOSE m \in n .. n + 3 : m % 4 = 0
Less(p, q) == \/ IsStrictPrefix(p, q)
              \/ \E i \in 1 .. Len(p) : /\ i <= Len(q) /\ p[i] < q[i]
                                        /\ \A j \in 1 .. i - 1 : p[j] = q[j]
Visible(p) == \A i \in DOMAIN p : p[i] \notin Hidden
Entries(k) == SelectSeq(archive, LAMBDA e : e.arg = k)

(* A reader finds every header and every file where the format says: the   *)
(* first header at 0, each header 4-aligned after the data before it, and  *)
(* the counter that decides on the padding is the number of bytes written; *)
(* whatever happens to the files meanwhile, each has as much data as its   *)
(* header says.  A complete archive is a multiple of 256 bytes.            *)
ArchiveIsReadable ==
  /\ pc # "ACK" /\ total_size = pos
  /\ \A i \in DOMAIN archive :
       LET e == archive[i]
       IN  /\ e.namesize = Chars(e.name) + 1
           /\ e.data = Align4(e.at + HEADER + e.namesize)
           /\ e.at = IF i = 1 THEN 0 ELSE Align4(archive[i - 1].data + archive[i - 1].size)
  /\ pc = "done" => pos % 256 = 0 /\ archive[Len(archive)].name = <<0>>

(* With no change meanwhile, a complete archive has, for each argument,    *)
(* exactly the visible paths below start, under prefix, sorted, every      *)
(* directory before what is in it, each with its own size.                 *)
ArchiveIsTree ==
  pc = "done" /\ changes = 0 =>
    \A k \in DOMAIN args :
      LET es == Entries(k)
          a == args[k]
          below == {p \in DOMAIN tree : IsStrictPrefix(a.start, p)
                                        /\ Visible(SubSeq(p, Len(a.start) + 1, Len(p)))}
          Out(p) == a.prefix \o SubSeq(p, Len(a.start) + 1, Len(p))
      IN  /\ {es[i].name : i \in DOMAIN es} = {Out(p) : p \in below}
          /\ \A i \in 1 .. Len(es) - 1 : Less(es[i].name, es[i + 1].name)
          /\ \A i \in DOMAIN es : \E p \in below :
               Out(p) = es[i].name /\ es[i].st.kind = tree[p].kind
               /\ es[i].size = IF tree[p].kind = "dir" THEN 0
                               ELSE IF tree[p].kind = "lnk" /\ tree[p].size > LINKMAX
                               THEN LINKMAX ELSE tree[p].size

(* The table of -f always has room for its entries and, once read, for the *)
(* entry without a name that ends it.                                      *)
ConfigFits ==
  canned # NoConfig =>
    Len(canned) + (IF pc = "config" THEN 0 ELSE 1) <= allocated

(* With -f, an archive is completed only if the file has a line without a  *)
(* path (the entry TRAILER!!! needs it too), and then never ends in the    *)
(* null pointer of fix_stat.                                               *)
DefaultNeeded ==
  canned # NoConfig /\ pc \in {"done", "crash"} =>
    (pc = "done" <=> \E i \in DOMAIN file : file[i].name \in {<<>>, <<0>>})

(* Whatever the tree, the arguments and the table of -f: an archive that   *)
(* is complete can be read, it is the tree, and the table never overflows  *)
(* and never sends fix_stat to a null pointer if it has a default.         *)
ArchiveIsRight == ArchiveIsReadable /\ ArchiveIsTree /\ ConfigFits /\ DefaultNeeded

-----------------------------------------------------------------------------
(* Instances for TLC: trees over three names, the last one hidden, two      *)
(* levels deep.                                                            *)
LenOf(n) == IF n = 0 THEN 10 ELSE IF n = 1 THEN 3 ELSE n
Node(kind, size) == [kind |-> kind, size |-> size]
Kinds == {Node("reg", 0), Node("reg", 1), Node("reg", 5), Node("dir", 0), Node("lnk", 2),
          Node("lnk", 9), Node("other", 0)}
Top == {<<1>>, <<2>>, <<3>>}
Sub == {<<1, 1>>, <<1, 2>>, <<3, 1>>}
Deep == {<<1, 2, 1>>}
Paths == Top \cup Sub \cup Deep
Closed(P, f) == \A p \in P : Len(p) > 1 => Front(p) \in P /\ f[Front(p)].kind = "dir"
SomeTrees ==
  UNION {{f \in [P -> {Node("reg", 1), Node("reg", 6), Node("dir", 0)}] : Closed(P, f)}
         : P \in {Q \in SUBSET Paths : \A p \in Q : Len(p) > 1 => Front(p) \in Q}}
  \cup [{<<1>>, <<2>>} -> Kinds]
SomeArgs == {<<[start |-> <<>>, prefix |-> <<>>]>>,
             <<[start |-> <<1>>, prefix |-> <<2>>], [start |-> <<>>, prefix |-> <<>>]>>}
Line(p, m) == [name |-> p, mode |-> m]
SomeCanned == {NoFile, <<>>, <<Line(<<1>>, 600), Line(<<>>, 700)>>,
               <<Line(<<1>>, 600), Line(<<2>>, 604), Line(<<1, 1>>, 606)>>,
               <<Line(<<>>, 1), Line(<<1>>, 2), Line(<<1>>, 3), Line(<<>>, 4), Line(<<2>>, 5)>>}
=============================================================================
