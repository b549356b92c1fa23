------------------------------ MODULE FsProofs ------------------------------
(***************************************************************************)
(* Theorems about Fs: the file system's structures and the contents of its *)
(* files stay apart and in one place, no file loses its contents to an     *)
(* operation on another one, and the editor has a file to write to, for    *)
(* every set of names, every size of the lists and of the memory, and      *)
(* every path.                                                             *)
(*                                                                         *)
(* From "Loops over a range" on, theorems about Helpers, whose split cuts  *)
(* those paths and whose strcmp finds their names: what the functions on   *)
(* strings and memory, printf's numbers and the walk over the firmware's   *)
(* list compute, for every memory, format and list, and every width of a   *)
(* number.                                                                 *)
(***************************************************************************)
EXTENDS Fs, Helpers, SequenceTheorems, FiniteSetTheorems, WellFoundedInduction, TLAPS

-----------------------------------------------------------------------------
(* Searches of a list, and walks along a path. *)

LEMMA SlotsNumbered == \A i \in Slots : i \in Nat
BY SizesAssumption DEF Slots

\* The loops over a list stop at the first entry they look for.
LEMMA FirstIs ==
    ASSUME NEW S, S \subseteq Slots
    PROVE  /\ S = {} => First(S) = 0
           /\ S # {} => First(S) \in S /\ \A x \in S : First(S) <= x
           /\ First(S) # 0 <=> S # {}
           /\ First(S) \in {0} \cup S
<1>1. \A x \in S : x \in Nat /\ x # 0
  BY SizesAssumption DEF Slots
<1>2. CASE S = {}
  BY <1>2 DEF First
<1>3. CASE S # {}
  <2>1. S \subseteq Nat
    BY <1>1
  <2>2. PICK m \in S : \A y \in S : ~(<<y, m>> \in OpToRel(<, Nat))
    BY <1>3, <2>1, NatLessThanWellFounded, WFMin
  <2>3. \A y \in S : m <= y
    <3> TAKE y \in S
    <3>1. y \in Nat /\ m \in Nat
      BY <2>1, <2>2
    <3>2. ~(y < m)
      BY <2>2, <3>1 DEF OpToRel
    <3> QED
      BY <3>1, <3>2
  <2>4. Min(S) \in S /\ \A y \in S : Min(S) <= y
    BY <2>3 DEF Min
  <2> QED
    BY <1>1, <1>3, <2>4 DEF First
<1> QED
  BY <1>2, <1>3

LEMMA Upwards ==
    ASSUME NEW n \in Nat, NEW S, 0 \in S, \A i \in 0..n - 1 : i \in S => i + 1 \in S
    PROVE  0..n \subseteq S
<1> SUFFICES ASSUME NEW k \in 0..n, k \notin S PROVE FALSE
  OBVIOUS
<1> DEFINE D == {d \in Nat : d <= n /\ d \notin S}
<1>1. k \in D
  OBVIOUS
<1>2. PICK d \in D : \A e \in D : ~(<<e, d>> \in OpToRel(<, Nat))
  BY <1>1, NatLessThanWellFounded, WFMin
<1>3. d \in Nat /\ d <= n /\ d \notin S /\ d # 0
  BY <1>2
<1>4. d - 1 \in 0..n - 1 /\ d - 1 \in Nat /\ d - 1 < d /\ (d - 1) + 1 = d
  BY <1>3
<1>5. <<d - 1, d>> \in OpToRel(<, Nat)
  BY <1>3, <1>4 DEF OpToRel
<1>6. d - 1 \notin D
  BY <1>2, <1>5
<1>7. d - 1 \in S
  BY <1>3, <1>4, <1>6
<1> QED
  BY <1>3, <1>4, <1>7

\* The walk along a path, as far as its k-th piece.
Walk(path, k, f) ==
    f = [i \in 0..k |->
            IF i = 0 THEN Root
            ELSE LET d == f[i - 1]
                     slot == IF d = Null THEN 0 ELSE FolderSlot(d, path[i])
                 IN  IF slot = 0 THEN Null ELSE folder[d].folders[slot]]

\* The recursion of Parent defines a function.
LEMMA WalkDefined == ASSUME NEW path, NEW n \in Nat PROVE \E f : Walk(path, n, f)
<1> DEFINE next(i, d) == LET slot == IF d = Null THEN 0 ELSE FolderSlot(d, path[i])
                         IN  IF slot = 0 THEN Null ELSE folder[d].folders[slot]
           S == {k \in 0..n : \E f : Walk(path, k, f)}
<1>1. \A k, f : Walk(path, k, f) <=> f = [i \in 0..k |-> IF i = 0 THEN Root ELSE next(i, f[i - 1])]
  BY DEF Walk
<1> HIDE DEF next
<1>2. 0 \in S
  <2> DEFINE f == [i \in 0..0 |-> Root]
             g == [i \in 0..0 |-> IF i = 0 THEN Root ELSE next(i, f[i - 1])]
  <2>1. f = g
    OBVIOUS
  <2> HIDE DEF f
  <2>2. Walk(path, 0, f)
    BY <1>1, <2>1
  <2> QED
    BY <2>2
<1>3. ASSUME NEW k \in 0..n - 1, k \in S PROVE k + 1 \in S
  <2>1. PICK f : Walk(path, k, f)
    BY <1>3
  <2> DEFINE g == [i \in 0..k + 1 |-> IF i = k + 1 THEN next(i, f[k]) ELSE f[i]]
             h == [i \in 0..k + 1 |-> IF i = 0 THEN Root ELSE next(i, g[i - 1])]
  <2>2. k \in Nat /\ k + 1 \in 0..n /\ k + 1 # 0 /\ (k + 1) - 1 = k
    OBVIOUS
  <2>3. \A i \in 0..k : g[i] = f[i]
    BY <2>2
  <2>4. ASSUME NEW i \in 0..k + 1 PROVE g[i] = h[i]
    <3>1. CASE i = k + 1
      <4>1. g[i] = next(k + 1, f[k]) /\ h[i] = next(k + 1, g[k]) /\ g[k] = f[k]
        BY <2>2, <2>3, <3>1
      <4> QED
        BY <4>1
    <3>2. CASE i # k + 1
      <4>1. i \in 0..k /\ (i # 0 => i - 1 \in 0..k)
        BY <2>2, <3>2
      <4>2. g[i] = f[i] /\ (i # 0 => g[i - 1] = f[i - 1])
        BY <2>3, <4>1
      <4>3. f[i] = IF i = 0 THEN Root ELSE next(i, f[i - 1])
        BY <1>1, <2>1, <4>1
      <4>4. h[i] = IF i = 0 THEN Root ELSE next(i, g[i - 1])
        OBVIOUS
      <4> HIDE DEF g, h
      <4> QED
        BY <4>2, <4>3, <4>4
    <3> QED
      BY <3>1, <3>2
  <2>5. g = h
    BY <2>4
  <2> HIDE DEF g
  <2>6. Walk(path, k + 1, g)
    BY <1>1, <2>5
  <2> QED
    BY <2>2, <2>6
<1>4. n \in S
  <2> HIDE DEF S
  <2> QED
    BY <1>2, <1>3, Upwards
<1> QED
  BY <1>4

-----------------------------------------------------------------------------
(* What lists, lookups and paths lead to. *)

LEMMA Made ==
    ASSUME Placed, NEW d \in DOMAIN folder, NEW i \in Slots
    PROVE  /\ folder[d].files[i] \in DOMAIN file \cup {Null}
           /\ folder[d].folders[i] \in DOMAIN folder \cup {Null}
           /\ Null \notin DOMAIN file \cup DOMAIN folder
<1>1. folder[d] \in FolderInfo
  BY DEF Placed
<1>2. Null \notin Nat
  BY DEF Null
<1> QED
  BY <1>1, <1>2 DEF FolderInfo, Placed

LEMMA SlotsFound ==
    ASSUME NEW d, NEW n
    PROVE  /\ FreeFile(d) # 0 => FreeFile(d) \in Slots /\ folder[d].files[FreeFile(d)] = Null
           /\ FreeFolder(d) # 0 => FreeFolder(d) \in Slots /\ folder[d].folders[FreeFolder(d)] = Null
           /\ FolderSlot(d, n) # 0 => FolderSlot(d, n) \in Slots
           /\ FileSlot(d, n) # 0 =>
                /\ FileSlot(d, n) \in Slots
                /\ Entry(d, FileSlot(d, n)).p # NoData /\ Entry(d, FileSlot(d, n)).name = n
                /\ \A i \in Slots : Entry(d, i).p # NoData /\ Entry(d, i).name = n => FileSlot(d, n) <= i
           /\ NamedSlot(d, n) # 0 =>
                NamedSlot(d, n) \in Slots /\ Entry(d, NamedSlot(d, n)).name = n
<1>1. \A S : S \subseteq Slots /\ First(S) # 0 => First(S) \in S /\ \A x \in S : First(S) <= x
  BY FirstIs
<1>2. FreeFile(d) # 0 => FreeFile(d) \in Slots /\ folder[d].files[FreeFile(d)] = Null
  <2> DEFINE S == {i \in Slots : folder[d].files[i] = Null}
  <2>1. First(S) # 0 => First(S) \in S
    BY <1>1
  <2> QED
    BY <2>1 DEF FreeFile
<1>3. FreeFolder(d) # 0 => FreeFolder(d) \in Slots /\ folder[d].folders[FreeFolder(d)] = Null
  <2> DEFINE S == {i \in Slots : folder[d].folders[i] = Null}
  <2>1. First(S) # 0 => First(S) \in S
    BY <1>1
  <2> QED
    BY <2>1 DEF FreeFolder
<1>4. FolderSlot(d, n) # 0 => FolderSlot(d, n) \in Slots
  <2> DEFINE S == {i \in Slots : folder[d].folders[i] # Null /\ folder[folder[d].folders[i]].name = n}
  <2>1. First(S) # 0 => First(S) \in S
    BY <1>1
  <2> QED
    BY <2>1 DEF FolderSlot
<1>5. FileSlot(d, n) # 0 =>
        /\ FileSlot(d, n) \in Slots
        /\ Entry(d, FileSlot(d, n)).p # NoData /\ Entry(d, FileSlot(d, n)).name = n
        /\ \A i \in Slots : Entry(d, i).p # NoData /\ Entry(d, i).name = n => FileSlot(d, n) <= i
  <2> DEFINE S == {i \in Slots : Entry(d, i).p # NoData /\ Entry(d, i).name = n}
  <2>1. First(S) # 0 => First(S) \in S /\ \A x \in S : First(S) <= x
    BY <1>1
  <2>2. FileSlot(d, n) = First(S)
    BY DEF FileSlot
  <2> QED
    BY <2>1, <2>2
<1>6. NamedSlot(d, n) # 0 => NamedSlot(d, n) \in Slots /\ Entry(d, NamedSlot(d, n)).name = n
  <2> DEFINE S == {i \in Slots : Entry(d, i).name = n}
  <2>1. First(S) # 0 => First(S) \in S
    BY <1>1
  <2> QED
    BY <2>1 DEF NamedSlot
<1> QED
  BY <1>2, <1>3, <1>4, <1>5, <1>6

LEMMA PathIs == ASSUME NEW path \in Path, path # <<>> PROVE Len(path) - 1 \in Nat
<1>1. PICK m \in 0..MaxDepth : path \in [1..m -> Name]
  BY DEF Path, SeqOf
<1>2. m \in Nat
  BY SizesAssumption
<1>3. path \in Seq(Name) /\ Len(path) = m
  BY <1>1, <1>2, IsASeq
<1>4. m # 0
  BY <1>3, EmptySeq
<1> QED
  BY <1>2, <1>3, <1>4

\* A path leads to a folder that was made, or to nothing (fs.c:107-150).
LEMMA ParentMade ==
    ASSUME Placed, NEW path \in Path, path # <<>>
    PROVE  Parent(path) \in DOMAIN folder \cup {Null}
<1> DEFINE n == Len(path) - 1
           f == CHOOSE f : Walk(path, n, f)
           S == {i \in 0..n : f[i] \in DOMAIN folder \cup {Null}}
<1>1. n \in Nat
  BY PathIs
<1>2. Walk(path, n, f)
  <2> HIDE DEF n
  <2> QED
    BY <1>1, WalkDefined
<1>3. Parent(path) = f[n]
  BY DEF Parent, Walk
<1> HIDE DEF n, f
<1>4. f[0] = Root /\ 0 \in 0..n
  BY <1>1, <1>2 DEF Walk
<1>5. 0 \in S
  BY <1>4 DEF Placed
<1>6. ASSUME NEW i \in 0..n - 1, i \in S PROVE i + 1 \in S
  <2>1. i + 1 \in 0..n /\ i + 1 # 0 /\ (i + 1) - 1 = i
    BY <1>1
  <2>2. f[i + 1] = IF f[i] = Null \/ FolderSlot(f[i], path[i + 1]) = 0 THEN Null
                   ELSE folder[f[i]].folders[FolderSlot(f[i], path[i + 1])]
    BY <1>2, <2>1 DEF Walk
  <2>3. f[i] # Null => f[i] \in DOMAIN folder
    BY <1>6
  <2> QED
    BY <2>1, <2>2, <2>3, SlotsFound, Made
<1>7. n \in S
  <2> HIDE DEF S
  <2> QED
    BY <1>1, <1>5, <1>6, Upwards, SMTT(30)
<1> QED
  BY <1>3, <1>7

\* The folder in which path_als looks for the last piece (fs.c:112-136).
Home(path) == IF path = <<>> THEN Root ELSE Parent(path)

LEMMA HomeMade ==
    ASSUME Placed, NEW path \in Path
    PROVE  Home(path) \in DOMAIN folder \cup {Null}
<1> QED
  BY ParentMade DEF Home, Placed

LEMMA FolderAls ==
    ASSUME Placed, NEW path \in Path, NEW d \in PathAls(path, "folder") \ {Null}
    PROVE  d \in DOMAIN folder
<1>1. CASE path = <<>>
  BY <1>1 DEF PathAls, Placed
<1>2. CASE path # <<>>
  <2>1. PICK n : d = IF Home(path) = Null \/ FileSlot(Home(path), n) = 0 THEN Null
                     ELSE folder[Home(path)].folders[FileSlot(Home(path), n)]
    BY <1>2 DEF PathAls, Home
  <2> QED
    BY <2>1, HomeMade, SlotsFound, Made
<1> QED
  BY <1>1, <1>2

\* A file and the folder it is in, as two lookups of one path find them.
LEMMA FileAls ==
    ASSUME Placed, NEW path \in Path,
           NEW f \in PathAls(path, "file") \ {Null}, NEW d \in PathAls(path, "folder of file") \ {Null}
    PROVE  /\ d \in DOMAIN folder /\ f \in DOMAIN file
           /\ \E n : FileSlot(d, n) # 0 /\ f = folder[d].files[FileSlot(d, n)]
<1>1. PICK n : f = IF Home(path) = Null \/ FileSlot(Home(path), n) = 0 THEN Null
                   ELSE folder[Home(path)].files[FileSlot(Home(path), n)]
  BY DEF PathAls, Home
<1>2. PICK m : d = IF Home(path) = Null \/ FileSlot(Home(path), m) = 0 THEN Null
                   ELSE Home(path)
  BY DEF PathAls, Home
<1>3. d = Home(path) /\ d \in DOMAIN folder
  BY <1>2, HomeMade
<1>4. FileSlot(d, n) # 0 /\ f = folder[d].files[FileSlot(d, n)]
  BY <1>1, <1>3
<1> QED
  BY <1>3, <1>4, SlotsFound, Made


-----------------------------------------------------------------------------
(* What the operations are built from. *)

LEMMA InfoMalloc ==
    ASSUME Placed, NEW size \in {FolderSize, FileSize}
    PROVE  /\ FsInfoMalloc(size).next = fs_info_alloc_start + size
           /\ fs_info_alloc_start + size \in Nat /\ size \in Nat \ {0}
           /\ FsInfoMalloc(size).p \in {Null, fs_info_alloc_start}
           /\ fs_info_alloc_start \notin DOMAIN folder \cup DOMAIN file
           /\ fs_info_alloc_start # Null
<1>1. FolderSize \in Nat \ {0} /\ FileSize \in Nat \ {0} /\ size \in Nat \ {0}
  BY SizesAssumption
<1>2. fs_info_alloc_start \in Nat
  BY DEF Placed
<1>3. \A d \in DOMAIN folder : d \in Nat /\ d + FolderSize <= fs_info_alloc_start
  BY DEF Placed
<1>4. \A f \in DOMAIN file : f \in Nat /\ f + FileSize <= fs_info_alloc_start
  BY DEF Placed
<1>5. fs_info_alloc_start \notin DOMAIN folder \cup DOMAIN file
  <2>1. \A d \in DOMAIN folder : d # fs_info_alloc_start
    BY <1>1, <1>2, <1>3
  <2>2. \A f \in DOMAIN file : f # fs_info_alloc_start
    BY <1>1, <1>2, <1>4
  <2> QED
    BY <2>1, <2>2
<1> QED
  BY <1>1, <1>2, <1>5 DEF FsInfoMalloc, Null

\* Contents that were just allocated are behind all others.
LEMMA Malloc ==
    ASSUME Placed
    PROVE  /\ FsMalloc.next = fs_alloc_start + 1 /\ fs_alloc_start + 1 \in Nat
           /\ fs_alloc_start \in Nat
           /\ FsMalloc.p \in {NoData, fs_alloc_start + 1}
BY DEF Placed, FsMalloc

\* An entry of a list that is replaced leaves the folders folders.
LEMMA Relisted ==
    ASSUME NEW F \in [DOMAIN folder -> FolderInfo], NEW d \in DOMAIN folder, NEW i \in Slots
    PROVE  /\ \A x \in DOMAIN file \cup {Null} :
                 [F EXCEPT ![d].files[i] = x] \in [DOMAIN folder -> FolderInfo]
           /\ \A x \in DOMAIN folder \cup {Null} :
                 [F EXCEPT ![d].folders[i] = x] \in [DOMAIN folder -> FolderInfo]
<1>1. F[d] \in FolderInfo
  OBVIOUS
<1>2. ASSUME NEW x \in DOMAIN file \cup {Null}
      PROVE  [F[d] EXCEPT !.files[i] = x] \in FolderInfo
  BY <1>1 DEF FolderInfo
<1>3. ASSUME NEW x \in DOMAIN folder \cup {Null}
      PROVE  [F[d] EXCEPT !.folders[i] = x] \in FolderInfo
  BY <1>1 DEF FolderInfo
<1> HIDE DEF FolderInfo
<1>4. \A x : [F EXCEPT ![d].files[i] = x] = [F EXCEPT ![d] = [F[d] EXCEPT !.files[i] = x]]
  OBVIOUS
<1>5. \A x : [F EXCEPT ![d].folders[i] = x] = [F EXCEPT ![d] = [F[d] EXCEPT !.folders[i] = x]]
  OBVIOUS
<1> QED
  BY <1>2, <1>3, <1>4, <1>5

\* The contents of one entry are given up, or it had none.
LEMMA Cleared ==
    ASSUME Stored, NEW d \in DOMAIN folder, NEW i \in Slots, ClearData(d, i),
           UNCHANGED fs_alloc_start, given_up \subseteq given_up', mishap \subseteq mishap',
           folder[d].files[i] = Null \/ Entry(d, i).p = NoData \/ folder[d].files[i] \in given_up'
    PROVE  /\ file' \in [DOMAIN file -> FileInfo] /\ NullOK'
           /\ ContentsApart' /\ NoneLost'
<1>1. FileInfo' = FileInfo
  BY DEF FileInfo
<1>2. file \in [DOMAIN file -> FileInfo] /\ null \in FileInfo
  BY DEF Stored, Placed, NullOK
<1>3. ContentsApart /\ NoneLost /\ NullOK
  BY DEF Stored, StorageApart
<1>4. CASE folder[d].files[i] = Null
  <2>1. file' = file /\ null' = [null EXCEPT !.p = NoData]
    BY <1>4 DEF ClearData
  <2>2. null' \in FileInfo /\ null'.name = null.name
    BY <1>2, <2>1 DEF FileInfo
  <2>3. NullOK'
    BY <1>1, <1>3, <2>2 DEF NullOK
  <2>4. ContentsApart' /\ NoneLost'
    BY <1>3, <2>1 DEF ContentsApart, NoneLost
  <2> QED
    BY <1>2, <2>1, <2>3, <2>4
<1>5. CASE folder[d].files[i] # Null
  <2> DEFINE g == folder[d].files[i]
  <2>1. g \in DOMAIN file /\ Entry(d, i) = file[g]
    BY <1>5, Made DEF Stored, Entry
  <2>2. file' = [file EXCEPT ![g].p = NoData] /\ null' = null
    BY <1>5 DEF ClearData
  <2>3. NullOK'
    BY <1>1, <1>3, <2>2 DEF NullOK
  <2>4. g \in given_up'
    BY <1>3, <1>5, <2>1 DEF NoneLost, NoData
  <2> HIDE DEF g
  <2>5. file[g] \in FileInfo
    BY <1>2, <2>1
  <2>6. [file[g] EXCEPT !.p = NoData] \in FileInfo
    BY <2>5 DEF FileInfo
  <2>7. file' = [file EXCEPT ![g] = [file[g] EXCEPT !.p = NoData]]
    BY <2>2
  <2>8. file' \in [DOMAIN file -> FileInfo]
    <3> HIDE DEF FileInfo
    <3> QED
      BY <1>2, <2>1, <2>6, <2>7
  <2>9. DOMAIN file' = DOMAIN file
    BY <2>7
  <2>10. \A f \in DOMAIN file : f # g => file'[f] = file[f]
    BY <2>7
  <2>11. file'[g].p = NoData
    BY <2>1, <2>5, <2>7 DEF FileInfo
  <2>12. ~(NoData > 0)
    BY DEF NoData
  <2>13. ContentsApart'
    <3> SUFFICES ASSUME NEW f \in DOMAIN file, NEW h \in DOMAIN file, f # h, file'[f].p > 0
                 PROVE  file'[f].p # file'[h].p
      BY <2>9 DEF ContentsApart
    <3>1. f # g /\ file[f].p > 0 /\ file'[f].p = file[f].p
      BY <2>10, <2>11, <2>12
    <3>2. CASE h = g
      BY <2>11, <2>12, <3>2
    <3>3. CASE h # g
      BY <1>3, <2>10, <3>1, <3>3 DEF ContentsApart
    <3> QED
      BY <3>2, <3>3
  <2>14. NoneLost'
    <3> SUFFICES ASSUME NEW f \in DOMAIN file, file'[f].p <= NoData PROVE f \in given_up'
      BY <2>9 DEF NoneLost
    <3> QED
      BY <1>3, <2>4, <2>10 DEF NoneLost
  <2> QED
    BY <2>3, <2>8, <2>13, <2>14
<1> QED
  BY <1>4, <1>5

\* Nothing new was made, nothing was spent, and the lists hold what was made.
LEMMA Rearranged ==
    ASSUME Placed, RoomApart, UNCHANGED allocators,
           folder' \in [DOMAIN folder -> FolderInfo], file' \in [DOMAIN file -> FileInfo]
    PROVE  Placed' /\ RoomApart'
<1>1. DOMAIN folder' = DOMAIN folder /\ DOMAIN file' = DOMAIN file
  OBVIOUS
<1>2. FolderInfo' = FolderInfo
  BY <1>1 DEF FolderInfo
<1>3. FileInfo' = FileInfo
  BY DEF FileInfo, allocators
<1> QED
  BY <1>1, <1>2, <1>3 DEF Placed, RoomApart, allocators

\* The structure at fs_info_alloc_start that one operation makes, and the one
\* entry that leads to it, keep every structure in one place.
LEMMA OneMore ==
    ASSUME Placed, OnePlace, mishap \subseteq mishap', NEW p, p \notin DOMAIN folder \cup DOMAIN file,
           NEW d, NEW i,
           DOMAIN folder' \cup DOMAIN file' \subseteq DOMAIN folder \cup DOMAIN file \cup {p},
           Null \notin DOMAIN folder' \cup DOMAIN file',
           \A e \in DOMAIN folder', j \in Slots : \A x \in {folder'[e].files[j], folder'[e].folders[j]} :
               \/ x = Null
               \/ e \in DOMAIN folder /\ x \in Listed(e, j)
               \/ e = d /\ j = i /\ x = p
    PROVE  OnePlace'
<1> SUFFICES ASSUME "moved" \notin mishap',
                    NEW x \in DOMAIN folder' \cup DOMAIN file', NEW e \in DOMAIN folder', NEW f \in DOMAIN folder',
                    NEW j \in Slots, NEW k \in Slots, 
                    x \in {folder'[e].files[j], folder'[e].folders[j]},
                    x \in {folder'[f].files[k], folder'[f].folders[k]}
             PROVE  e = f /\ j = k
  BY DEF OnePlace, Listed
<1>1. \A g \in DOMAIN folder, l \in Slots : p \notin Listed(g, l) \/ p = Null
  BY Made DEF Listed
<1>2. CASE x = p
  BY <1>1, <1>2
<1>3. CASE x # p
  BY <1>3 DEF OnePlace
<1> QED
  BY <1>2, <1>3

LEMMA MoreInfo ==
    ASSUME DOMAIN folder \subseteq DOMAIN folder', DOMAIN file \subseteq DOMAIN file',
           fs_alloc_start \in Nat, fs_alloc_start' \in Nat, fs_alloc_start <= fs_alloc_start'
    PROVE  /\ FolderInfo \subseteq FolderInfo'
           /\ FileInfo \subseteq FileInfo'
<1>1. ASSUME NEW x \in FolderInfo PROVE x \in FolderInfo'
  <2>1. /\ x = [name |-> x.name, files |-> x.files, folders |-> x.folders]
        /\ x.name \in Name \cup {Garbled}
        /\ x.files \in [Slots -> DOMAIN file \cup {Null}]
        /\ x.folders \in [Slots -> DOMAIN folder \cup {Null}]
    BY <1>1 DEF FolderInfo
  <2>2. x.files \in [Slots -> DOMAIN file' \cup {Null}] /\ x.folders \in [Slots -> DOMAIN folder' \cup {Null}]
    BY <2>1
  <2> QED
    BY <2>1, <2>2 DEF FolderInfo
<1>2. ASSUME NEW x \in FileInfo PROVE x \in FileInfo'
  <2>1. /\ x = [name |-> x.name, p |-> x.p] /\ x.name \in Name \cup {Garbled}
        /\ x.p \in {Wild, NoData} \cup 1..fs_alloc_start
    BY <1>2 DEF FileInfo
  <2>2. x.p \in {Wild, NoData} \cup 1..fs_alloc_start'
    BY <2>1
  <2> QED
    BY <2>1, <2>2 DEF FileInfo
<1> QED
  BY <1>1, <1>2

-----------------------------------------------------------------------------
(* Creating. *)

\* mkdir, also when there is no room (fs.c:23-47).
LEMMA CreateFolder ==
    ASSUME Stored, NEW d \in DOMAIN folder, NEW n \in Name, create_folder(d, n)
    PROVE  Stored'
<1> DEFINE i == FreeFolder(d)
           p == fs_info_alloc_start
           new == [name |-> n, files |-> NoEntries, folders |-> NoEntries]
<1>1. /\ Placed /\ NullOK /\ ContentsApart /\ RoomApart /\ OnePlace /\ NoneLost
      /\ file' = file /\ fs_alloc_start' = fs_alloc_start /\ given_up' = given_up
      /\ fs_alloc_start \in Nat
  BY DEF Stored, StorageApart, create_folder, Placed
<1>2. /\ i \in Slots /\ folder[d].folders[i] = Null
      /\ fs_info_alloc_start' = p + FolderSize /\ p + FolderSize \in Nat /\ p \in Nat
      /\ FolderSize \in Nat \ {0} /\ FileSize \in Nat \ {0}
  <2>1. i # 0 /\ fs_info_alloc_start' = FsInfoMalloc(FolderSize).next
    BY DEF create_folder
  <2>2. FolderSize \in Nat \ {0} /\ FileSize \in Nat \ {0}
    BY SizesAssumption
  <2>3. FsInfoMalloc(FolderSize).next = p + FolderSize /\ p + FolderSize \in Nat
    BY <1>1, InfoMalloc
  <2>4. p \in Nat
    BY <1>1 DEF Placed
  <2> QED
    BY <2>1, <2>2, <2>3, <2>4, SlotsFound
<1>3. ContentsApart' /\ NoneLost'
  BY <1>1 DEF ContentsApart, NoneLost
<1>4. CASE FsInfoMalloc(FolderSize).p = Null
  <2>1. /\ null' = [name |-> n, p |-> NoData] /\ mishap' = mishap \cup {"folder at null"}
        /\ folder' = folder
    BY <1>4 DEF create_folder
  <2>2. FolderInfo' = FolderInfo /\ FileInfo' = FileInfo
    BY <1>1, <2>1 DEF FolderInfo, FileInfo
  <2>3. NullOK'
    BY <2>1, <2>2 DEF NullOK, FileInfo
  <2>4. RoomApart' /\ OnePlace'
    <3>1. RoomApart'
      BY <1>1, <2>1 DEF RoomApart
    <3>2. /\ mishap \subseteq mishap' /\ p \notin DOMAIN folder \cup DOMAIN file
          /\ DOMAIN folder' \cup DOMAIN file' \subseteq DOMAIN folder \cup DOMAIN file \cup {p}
      BY <1>1, <2>1, InfoMalloc
    <3>3. Null \notin DOMAIN folder' \cup DOMAIN file'
      BY <1>1, <1>2, <2>1, Made
    <3>4. \A e \in DOMAIN folder', j \in Slots : \A x \in {folder'[e].files[j], folder'[e].folders[j]} :
            x = Null \/ (e \in DOMAIN folder /\ x \in Listed(e, j)) \/ (e = d /\ j = i /\ x = p)
      BY <2>1 DEF Listed
    <3>5. OnePlace'
      <4> HIDE DEF i, p
      <4> QED
        BY <1>1, <3>2, <3>3, <3>4, OneMore
    <3> QED
      BY <3>1, <3>5
  <2>5. Placed'
    <3>1. /\ \A e \in DOMAIN folder : e \in Nat /\ e + FolderSize <= p
          /\ \A f \in DOMAIN file : f \in Nat /\ f + FileSize <= p
      BY <1>1 DEF Placed
    <3>2. /\ \A e \in DOMAIN folder : e + FolderSize <= p + FolderSize
          /\ \A f \in DOMAIN file : f + FileSize <= p + FolderSize
      BY <1>2, <3>1
    <3> QED
      BY <1>1, <1>2, <2>1, <2>2, <3>2 DEF Placed
  <2> QED
    BY <1>3, <2>3, <2>4, <2>5 DEF Stored, StorageApart
<1>5. CASE FsInfoMalloc(FolderSize).p # Null
  <2>1. /\ null' = null /\ mishap' = mishap
        /\ folder' = [g \in DOMAIN folder \cup {p} |->
                        IF g = p THEN new
                        ELSE IF g = d THEN [folder[d] EXCEPT !.folders[i] = p]
                        ELSE folder[g]]
    <3>1. FsInfoMalloc(FolderSize).p = p
      BY <1>1, <1>5, InfoMalloc
    <3> QED
      BY <1>5, <3>1 DEF create_folder
  <2>2. p \notin DOMAIN folder \cup DOMAIN file /\ p # Null
    BY <1>1, InfoMalloc
  <2>3. DOMAIN folder' = DOMAIN folder \cup {p}
    BY <2>1
  <2>4. FolderInfo \subseteq FolderInfo' /\ FileInfo \subseteq FileInfo'
    BY <1>1, <2>3, MoreInfo
  <2>5. folder \in [DOMAIN folder -> FolderInfo] /\ file \in [DOMAIN file -> FileInfo]
    BY <1>1 DEF Placed
  <2>6. NullOK'
    BY <1>1, <2>1, <2>4 DEF NullOK
  <2>7. new \in FolderInfo'
    BY DEF NoEntries, FolderInfo
  <2>8. [folder[d] EXCEPT !.folders[i] = p] \in FolderInfo'
    <3>1. folder[d] \in FolderInfo'
      BY <2>4, <2>5
    <3> QED
      BY <1>2, <2>3, <3>1 DEF FolderInfo
  <2>9. folder' \in [DOMAIN folder' -> FolderInfo']
    <3> HIDE DEF new, i, FolderInfo
    <3>1. ASSUME NEW g \in DOMAIN folder' PROVE folder'[g] \in FolderInfo'
      BY <2>1, <2>3, <2>4, <2>5, <2>7, <2>8
    <3> QED
      BY <2>1, <2>3, <3>1
  <2>10. /\ \A e \in DOMAIN folder : e \in Nat /\ e + FolderSize <= p
         /\ \A f \in DOMAIN file : f \in Nat /\ f + FileSize <= p
    BY <1>1 DEF Placed
  <2>11. Placed'
    <3>1. /\ \A e \in DOMAIN folder' : e \in Nat /\ e + FolderSize <= p + FolderSize
          /\ \A f \in DOMAIN file' : f \in Nat /\ f + FileSize <= p + FolderSize
      BY <1>1, <1>2, <2>3, <2>10
    <3>2. file' \in [DOMAIN file' -> FileInfo'] /\ Root \in DOMAIN folder'
      BY <1>1, <2>3, <2>4, <2>5 DEF Placed
    <3> QED
      BY <1>1, <1>2, <2>9, <3>1, <3>2 DEF Placed
  <2>12. RoomApart'
    BY <1>1, <1>2, <2>3, <2>10 DEF RoomApart
  <2>13. OnePlace'
    <3>1. ASSUME NEW e \in DOMAIN folder', NEW j \in Slots, NEW x \in {folder'[e].files[j], folder'[e].folders[j]}
          PROVE  \/ x = Null
                 \/ e \in DOMAIN folder /\ x \in Listed(e, j)
                 \/ e = d /\ j = i /\ x = p
      <4>1. CASE e = p
        BY <2>1, <3>1, <4>1 DEF Listed, NoEntries
      <4>2. CASE e = d
        <5>1. folder[d] \in FolderInfo
          BY <2>5
        <5>2. folder'[e].files = folder[d].files /\ folder'[e].folders = [folder[d].folders EXCEPT ![i] = p]
          BY <2>1, <2>2, <4>2, <5>1 DEF FolderInfo
        <5>3. folder[d].folders \in [Slots -> DOMAIN folder \cup {Null}]
          BY <5>1 DEF FolderInfo
        <5> HIDE DEF i
        <5> QED
          BY <3>1, <4>2, <5>2, <5>3 DEF Listed
      <4>3. CASE e # p /\ e # d
        BY <2>1, <2>3, <3>1, <4>3 DEF Listed
      <4> QED
        BY <4>1, <4>2, <4>3
    <3>2. Null \notin DOMAIN folder' \cup DOMAIN file'
      BY <1>1, <2>2, <2>3, Made DEF Placed, Null
    <3>3. DOMAIN folder' \cup DOMAIN file' \subseteq DOMAIN folder \cup DOMAIN file \cup {p}
      BY <1>1, <2>3
    <3>4. mishap \subseteq mishap'
      BY <2>1
    <3> HIDE DEF i, p, new
    <3> QED
      BY <1>1, <2>2, <3>1, <3>2, <3>3, <3>4, OneMore
  <2> QED
    BY <1>3, <2>6, <2>11, <2>12, <2>13 DEF Stored, StorageApart
<1> QED
  BY <1>4, <1>5

\* touch and vim, also when there is no room for the structure or for the
\* contents (fs.c:49-86).
LEMMA CreateFile ==
    ASSUME Stored, NEW d \in DOMAIN folder, NEW n \in Name, create_file(d, n),
           NEW g, g = folder'[d].files[FreeFile(d)]
    PROVE  /\ Stored'
           /\ g \in DOMAIN file' \cup {Null}
           /\ \/ g # Null /\ file'[g].p > NoData
              \/ g \in given_up'
              \/ "file at null" \in mishap'
<1> DEFINE i == FreeFile(d)
           p == fs_info_alloc_start
<1>1. Placed /\ NullOK /\ ContentsApart /\ RoomApart /\ OnePlace /\ NoneLost
  BY DEF Stored, StorageApart
<1>2. /\ i \in Slots /\ folder[d].files[i] = Null
      /\ fs_info_alloc_start' = p + FileSize /\ p + FileSize \in Nat /\ p \in Nat
      /\ FolderSize \in Nat \ {0} /\ FileSize \in Nat \ {0}
  <2>1. i # 0 /\ fs_info_alloc_start' = FsInfoMalloc(FileSize).next
    BY DEF create_file
  <2>2. FolderSize \in Nat \ {0} /\ FileSize \in Nat \ {0}
    BY SizesAssumption
  <2>3. FsInfoMalloc(FileSize).next = p + FileSize /\ p + FileSize \in Nat
    BY <1>1, InfoMalloc
  <2>4. p \in Nat
    BY <1>1 DEF Placed
  <2> QED
    BY <2>1, <2>2, <2>3, <2>4, SlotsFound
<1>3. /\ fs_alloc_start' = fs_alloc_start + 1 /\ fs_alloc_start + 1 \in Nat /\ fs_alloc_start \in Nat
      /\ FsMalloc.p \in {NoData, fs_alloc_start + 1}
  <2>1. fs_alloc_start' = FsMalloc.next
    BY DEF create_file
  <2> QED
    BY <1>1, <2>1, Malloc
<1>4. PICK wild \in BOOLEAN :
        LET made == [name |-> n, p |-> IF wild THEN Wild ELSE FsMalloc.p]
            new == FsInfoMalloc(FileSize)
        IN  /\ IF new.p = Null
               THEN null' = made /\ UNCHANGED <<folder, file>>
               ELSE /\ SetFile(d, i, new.p)
                    /\ file' = [h \in DOMAIN file \cup {new.p} |-> IF h = new.p THEN made ELSE file[h]]
                    /\ UNCHANGED null
            /\ mishap' = mishap \cup (IF new.p = Null THEN {"file at null"} ELSE {})
            /\ given_up' = given_up \cup (IF made.p = NoData \/ wild THEN {new.p} ELSE {})
  BY DEF create_file
<1> DEFINE made == [name |-> n, p |-> IF wild THEN Wild ELSE FsMalloc.p]
<1>5. given_up' = given_up \cup (IF made.p = NoData \/ wild THEN {FsInfoMalloc(FileSize).p} ELSE {})
  BY <1>4
<1>6. made = [name |-> n, p |-> made.p] /\ made.p \in {Wild, NoData, fs_alloc_start + 1}
      /\ (made.p <= NoData => made.p = NoData \/ wild)
  BY <1>3 DEF Wild, NoData
<1>7. mishap \subseteq mishap' /\ given_up \subseteq given_up'
  BY <1>4, <1>5
<1>8. p \notin DOMAIN folder \cup DOMAIN file /\ p # Null
  BY <1>1, InfoMalloc
<1>9. /\ \A e \in DOMAIN folder : e \in Nat /\ e + FolderSize <= p
      /\ \A f \in DOMAIN file : f \in Nat /\ f + FileSize <= p
  BY <1>1 DEF Placed
<1>10. folder \in [DOMAIN folder -> FolderInfo] /\ file \in [DOMAIN file -> FileInfo] /\ null \in FileInfo
  BY <1>1 DEF Placed, NullOK
<1>11. CASE FsInfoMalloc(FileSize).p = Null
  <2>1. null' = made /\ folder' = folder /\ file' = file /\ mishap' = mishap \cup {"file at null"}
    BY <1>4, <1>11
  <2>2. FolderInfo \subseteq FolderInfo' /\ FileInfo \subseteq FileInfo'
    <3>1. fs_alloc_start' \in Nat /\ fs_alloc_start <= fs_alloc_start'
      BY <1>3
    <3>2. DOMAIN folder \subseteq DOMAIN folder' /\ DOMAIN file \subseteq DOMAIN file'
      BY <2>1
    <3> QED
      BY <1>3, <3>1, <3>2, MoreInfo
  <2>3. made \in FileInfo'
    BY <1>3, <1>6 DEF FileInfo
  <2>4. NullOK'
    BY <2>1, <2>3 DEF NullOK
  <2>5. RoomApart' /\ ContentsApart' /\ NoneLost'
    BY <1>1, <1>7, <2>1 DEF RoomApart, ContentsApart, NoneLost
  <2>6. Null \notin DOMAIN folder' \cup DOMAIN file'
    BY <1>1, <1>2, <2>1, Made
  <2>7. \A e \in DOMAIN folder', j \in Slots : \A x \in {folder'[e].files[j], folder'[e].folders[j]} :
            x = Null \/ (e \in DOMAIN folder /\ x \in Listed(e, j)) \/ (e = d /\ j = i /\ x = p)
    BY <2>1 DEF Listed
  <2>8. DOMAIN folder' \cup DOMAIN file' \subseteq DOMAIN folder \cup DOMAIN file \cup {p}
    BY <2>1
  <2>9. OnePlace'
    <3> HIDE DEF i, p, made
    <3> QED
      BY <1>1, <1>7, <1>8, <2>6, <2>7, <2>8, OneMore
  <2>10. Placed'
    <3>1. /\ \A e \in DOMAIN folder : e \in Nat /\ e + FolderSize <= p + FileSize
          /\ \A f \in DOMAIN file : f \in Nat /\ f + FileSize <= p + FileSize
      BY <1>2, <1>9
    <3>2. folder' \in [DOMAIN folder' -> FolderInfo'] /\ file' \in [DOMAIN file' -> FileInfo']
      BY <1>10, <2>1, <2>2
    <3> QED
      BY <1>1, <1>2, <1>3, <2>1, <3>1, <3>2 DEF Placed
  <2>11. g = Null /\ "file at null" \in mishap'
    BY <1>2, <2>1
  <2> QED
    BY <2>4, <2>5, <2>9, <2>10, <2>11 DEF Stored, StorageApart
<1>12. CASE FsInfoMalloc(FileSize).p # Null
  <2>1. /\ folder' = [folder EXCEPT ![d].files[i] = p]
        /\ file' = [h \in DOMAIN file \cup {p} |-> IF h = p THEN made ELSE file[h]]
        /\ null' = null /\ mishap' = mishap
        /\ given_up' = given_up \cup (IF made.p = NoData \/ wild THEN {p} ELSE {})
    <3>1. FsInfoMalloc(FileSize).p = p
      BY <1>1, <1>12, InfoMalloc
    <3> QED
      BY <1>4, <1>5, <1>12, <3>1 DEF SetFile
  <2>2. DOMAIN folder' = DOMAIN folder /\ DOMAIN file' = DOMAIN file \cup {p}
    BY <2>1
  <2>3. FolderInfo \subseteq FolderInfo' /\ FileInfo \subseteq FileInfo'
    BY <1>3, <2>2, MoreInfo
  <2>4. NullOK'
    BY <1>1, <2>1, <2>3 DEF NullOK
  <2>5. made \in FileInfo'
    BY <1>3, <1>6 DEF FileInfo
  <2> HIDE DEF made, i
  <2>6. file' \in [DOMAIN file' -> FileInfo']
    <3>1. \A h \in DOMAIN file' : file'[h] \in FileInfo'
      BY <1>10, <2>1, <2>2, <2>3, <2>5
    <3> QED
      BY <2>1, <2>2, <3>1
  <2>7. /\ \A f \in DOMAIN file : file'[f] = file[f]
        /\ file'[p] = made
    BY <1>8, <2>1
  <2>8. ASSUME NEW f \in DOMAIN file PROVE file[f].p \in {Wild, NoData} \cup 1..fs_alloc_start
    BY <1>10 DEF FileInfo
  <2>9. ContentsApart'
    <3> SUFFICES ASSUME NEW f \in DOMAIN file', NEW h \in DOMAIN file', f # h, file'[f].p > 0
                 PROVE  file'[f].p # file'[h].p
      BY DEF ContentsApart
    <3>1. CASE f # p /\ h # p
      BY <1>1, <2>2, <2>7, <3>1 DEF ContentsApart
    <3>2. CASE f = p
      BY <1>3, <1>6, <2>2, <2>7, <2>8, <3>2 DEF Wild, NoData
    <3>3. CASE h = p
      BY <1>3, <1>6, <2>2, <2>7, <2>8, <3>3 DEF Wild, NoData
    <3> QED
      BY <3>1, <3>2, <3>3
  <2>10. NoneLost'
    <3> SUFFICES ASSUME NEW f \in DOMAIN file', file'[f].p <= NoData PROVE f \in given_up'
      BY DEF NoneLost
    <3> QED
      BY <1>1, <1>6, <1>7, <2>1, <2>2, <2>7 DEF NoneLost
  <2>11. RoomApart'
    BY <1>1, <1>2, <1>9, <2>2 DEF RoomApart
  <2>12. folder[d].files \in [Slots -> DOMAIN file \cup {Null}] /\ folder[d] \in FolderInfo'
    BY <1>10, <2>3 DEF FolderInfo
  <2>13. /\ folder'[d] = [folder[d] EXCEPT !.files[i] = p]
         /\ \A e \in DOMAIN folder : e # d => folder'[e] = folder[e]
    BY <2>1
  <2>14. folder' \in [DOMAIN folder' -> FolderInfo']
    <3>1. [folder[d] EXCEPT !.files[i] = p] \in FolderInfo'
      BY <1>2, <2>2, <2>12 DEF FolderInfo
    <3>2. \A e \in DOMAIN folder' : folder'[e] \in FolderInfo'
      BY <1>10, <2>2, <2>3, <2>13, <3>1
    <3> QED
      BY <2>1, <3>2
  <2>15. Placed'
    <3>1. /\ \A e \in DOMAIN folder' : e \in Nat /\ e + FolderSize <= p + FileSize
          /\ \A f \in DOMAIN file' : f \in Nat /\ f + FileSize <= p + FileSize
      BY <1>2, <1>9, <2>2
    <3> QED
      BY <1>1, <1>2, <1>3, <2>2, <2>6, <2>14, <3>1 DEF Placed
  <2>16. folder'[d].files = [folder[d].files EXCEPT ![i] = p] /\ folder'[d].folders = folder[d].folders
    BY <2>12, <2>13 DEF FolderInfo
  <2>17. OnePlace'
    <3>1. ASSUME NEW e \in DOMAIN folder', NEW j \in Slots,
                 NEW x \in {folder'[e].files[j], folder'[e].folders[j]}
          PROVE  \/ x = Null
                 \/ e \in DOMAIN folder /\ x \in Listed(e, j)
                 \/ e = d /\ j = i /\ x = p
      <4>1. CASE e = d
        BY <2>2, <2>12, <2>16, <3>1, <4>1 DEF Listed
      <4>2. CASE e # d
        BY <2>2, <2>13, <3>1, <4>2 DEF Listed
      <4> QED
        BY <4>1, <4>2
    <3>2. Null \notin DOMAIN folder' \cup DOMAIN file'
      BY <1>1, <1>2, <1>8, <2>2, Made
    <3>3. DOMAIN folder' \cup DOMAIN file' \subseteq DOMAIN folder \cup DOMAIN file \cup {p}
      BY <2>2
    <3> HIDE DEF p
    <3> QED
      BY <1>1, <1>7, <1>8, <3>1, <3>2, <3>3, OneMore
  <2>18. g = p
    BY <1>2, <2>12, <2>16 DEF i
  <2>19. file'[g].p <= NoData => g \in given_up'
    BY <1>6, <2>1, <2>7, <2>18
  <2>20. file'[g].p \in Int
    BY <1>3, <1>6, <2>7, <2>18 DEF Wild, NoData
  <2>21. file'[g].p > NoData \/ g \in given_up'
    BY <2>19, <2>20 DEF NoData
  <2> QED
    BY <1>8, <2>2, <2>4, <2>9, <2>10, <2>11, <2>15, <2>17, <2>18, <2>21 DEF Stored, StorageApart
<1> QED
  BY <1>11, <1>12

-----------------------------------------------------------------------------
(* Deleting and moving. *)

LEMMA DelFolder ==
    ASSUME Stored, NEW d \in DOMAIN folder, NEW n \in Name, del_folder(d, n)
    PROVE  Stored'
<1> DEFINE i == FolderSlot(d, n)
           p == fs_info_alloc_start
<1>1. Placed /\ NullOK /\ ContentsApart /\ RoomApart /\ OnePlace /\ NoneLost
  BY DEF Stored, StorageApart
<1>2. /\ folder' = [folder EXCEPT ![d].folders[i] = Null] /\ i \in Slots
      /\ file' = file /\ null' = null /\ UNCHANGED allocators /\ mishap' = mishap /\ given_up' = given_up
      /\ fs_alloc_start' = fs_alloc_start
  BY SlotsFound DEF del_folder, allocators
<1> HIDE DEF i
<1>3. folder \in [DOMAIN folder -> FolderInfo] /\ file \in [DOMAIN file -> FileInfo]
  BY <1>1 DEF Placed
<1>4. folder' \in [DOMAIN folder -> FolderInfo]
  BY <1>2, <1>3, Relisted
<1>5. Placed' /\ RoomApart'
  BY <1>1, <1>2, <1>3, <1>4, Rearranged
<1>6. NullOK'
  <2>1. FileInfo' = FileInfo
    BY <1>2 DEF FileInfo
  <2> QED
    BY <1>1, <1>2, <2>1 DEF NullOK
<1>7. ContentsApart' /\ NoneLost'
  BY <1>1, <1>2 DEF ContentsApart, NoneLost
<1>8. OnePlace'
  <2>1. folder[d] \in FolderInfo
    BY <1>3
  <2>2. folder[d].folders \in [Slots -> DOMAIN folder \cup {Null}]
    BY <2>1 DEF FolderInfo
  <2>3. /\ folder'[d].files = folder[d].files /\ folder'[d].folders = [folder[d].folders EXCEPT ![i] = Null]
        /\ \A e \in DOMAIN folder : e # d => folder'[e] = folder[e]
        /\ DOMAIN folder' = DOMAIN folder
    BY <1>2, <2>1 DEF FolderInfo
  <2>4. ASSUME NEW e \in DOMAIN folder', NEW j \in Slots,
               NEW x \in {folder'[e].files[j], folder'[e].folders[j]}
        PROVE  x = Null \/ (e \in DOMAIN folder /\ x \in Listed(e, j)) \/ (e = d /\ j = i /\ x = p)
    <3>1. CASE e = d
      BY <2>2, <2>3, <2>4, <3>1 DEF Listed
    <3>2. CASE e # d
      BY <2>3, <2>4, <3>2 DEF Listed
    <3> QED
      BY <3>1, <3>2
  <2>5. Null \notin DOMAIN folder' \cup DOMAIN file'
    BY <1>1, <1>2, <2>3, Made
  <2>6. DOMAIN folder' \cup DOMAIN file' \subseteq DOMAIN folder \cup DOMAIN file \cup {p}
    BY <1>2, <2>3
  <2>7. p \notin DOMAIN folder \cup DOMAIN file /\ mishap \subseteq mishap'
    BY <1>1, <1>2, InfoMalloc
  <2> HIDE DEF p
  <2> QED
    BY <1>1, <2>4, <2>5, <2>6, <2>7, OneMore
<1> QED
  BY <1>5, <1>6, <1>7, <1>8 DEF Stored, StorageApart

LEMMA DelFile ==
    ASSUME Stored, NEW d \in DOMAIN folder, NEW n \in Name, del_file(d, n)
    PROVE  Stored'
<1> DEFINE i == FileSlot(d, n)
<1>1. Placed /\ RoomApart /\ OnePlace
  BY DEF Stored, StorageApart
<1>2. /\ i \in Slots /\ ClearData(d, i) /\ given_up' = given_up \cup {folder[d].files[i]}
      /\ UNCHANGED allocators /\ folder' = folder /\ mishap' = mishap
      /\ fs_alloc_start' = fs_alloc_start
  BY SlotsFound DEF del_file, allocators
<1>3. given_up \subseteq given_up' /\ mishap \subseteq mishap' /\ folder[d].files[i] \in given_up'
  BY <1>2
<1> HIDE DEF i
<1>4. file' \in [DOMAIN file -> FileInfo] /\ NullOK' /\ ContentsApart' /\ NoneLost'
  BY <1>2, <1>3, Cleared
<1>5. folder' \in [DOMAIN folder -> FolderInfo]
  BY <1>1, <1>2 DEF Placed
<1>6. Placed' /\ RoomApart'
  BY <1>1, <1>2, <1>4, <1>5, Rearranged
<1>7. OnePlace'
  <2>1. DOMAIN file' = DOMAIN file
    BY <1>4
  <2> QED
    BY <1>1, <1>2, <2>1 DEF OnePlace, Listed
<1> QED
  BY <1>4, <1>6, <1>7 DEF Stored, StorageApart

LEMMA HolderAls ==
    ASSUME Placed, NEW path \in Path, NEW d \in PathAls(path, "folder of file") \ {Null}
    PROVE  d \in DOMAIN folder
<1>1. PICK m : d = IF Home(path) = Null \/ FileSlot(Home(path), m) = 0 THEN Null
                   ELSE Home(path)
  BY DEF PathAls, Home
<1> QED
  BY <1>1, HomeMade

\* No entry before the one that FileSlot finds is such a file.
LEMMA FirstFile ==
    ASSUME NEW d, NEW n, FileSlot(d, n) # 0,
           NEW i \in Slots, Entry(d, i).p # NoData, Entry(d, i).name = n, i <= FileSlot(d, n)
    PROVE  i = FileSlot(d, n)
<1>1. FileSlot(d, n) \in Slots /\ FileSlot(d, n) <= i
  BY SlotsFound
<1>2. i \in Nat /\ FileSlot(d, n) \in Nat
  BY <1>1, SlotsNumbered
<1> QED
  BY <1>1, <1>2

\* Of the entries with the moved file's name the first is cleared: the file
\* itself, or one that has no contents any more (fs.c:152-181).
LEMMA MoveFile ==
    ASSUME Stored, NEW dst \in Path, NEW src \in Path, move_file(dst, src)
    PROVE  Stored'
<1>1. Placed /\ RoomApart
  BY DEF Stored, StorageApart
<1>2. PICK d \in PathAls(dst, "folder") \ {Null}, f \in PathAls(src, "file") \ {Null},
           from \in PathAls(src, "folder of file") \ {Null} :
        /\ FreeFile(d) # 0
        /\ ClearData(from, First({j \in Slots : Entry(from, j).name = file[f].name}))
        /\ SetFile(d, FreeFile(d), f)
        /\ given_up' = given_up \cup {f} /\ mishap' = mishap \cup {"moved"}
        /\ UNCHANGED allocators
  BY DEF move_file
<1> DEFINE E == {j \in Slots : Entry(from, j).name = file[f].name}
           i == First(E)
<1>3. d \in DOMAIN folder
  BY <1>1, FolderAls
<1>4. from \in DOMAIN folder /\ f \in DOMAIN file
  BY <1>1, FileAls
<1>5. PICK n : FileSlot(from, n) # 0 /\ f = folder[from].files[FileSlot(from, n)]
  BY <1>1, FileAls
<1> DEFINE s == FileSlot(from, n)
<1>6. s \in Slots /\ Entry(from, s).name = n
  BY <1>5, SlotsFound
<1>7. Entry(from, s) = file[f]
  BY <1>1, <1>4, <1>5, <1>6, Made DEF Entry
<1>8. s \in E
  BY <1>6, <1>7
<1>9. i \in E /\ i <= s
  <2> HIDE DEF s, E
  <2>1. E \subseteq Slots
    BY DEF E
  <2> QED
    BY <1>8, <2>1, FirstIs
<1>10. i \in Slots /\ Entry(from, i).name = n
  BY <1>6, <1>7, <1>9
<1> HIDE DEF i, E
<1>11. Entry(from, i).p = NoData \/ folder[from].files[i] = f
  <2>1. Entry(from, i).p # NoData => i = s
    BY <1>5, <1>9, <1>10, FirstFile
  <2> QED
    BY <1>5, <2>1
<1>12. ClearData(from, i)
  BY <1>2 DEF i, E
<1>13. /\ given_up \subseteq given_up' /\ mishap \subseteq mishap' /\ "moved" \in mishap'
       /\ f \in given_up' /\ fs_alloc_start' = fs_alloc_start
  BY <1>2 DEF allocators
<1>14. file' \in [DOMAIN file -> FileInfo] /\ NullOK' /\ ContentsApart' /\ NoneLost'
  BY <1>4, <1>10, <1>11, <1>12, <1>13, Cleared
<1>15. folder' \in [DOMAIN folder -> FolderInfo]
  <2>1. FreeFile(d) \in Slots /\ folder \in [DOMAIN folder -> FolderInfo]
    BY <1>1, <1>2, SlotsFound DEF Placed
  <2> QED
    BY <1>2, <1>3, <1>4, <2>1, Relisted DEF SetFile
<1>16. Placed' /\ RoomApart'
  BY <1>1, <1>2, <1>14, <1>15, Rearranged
<1>17. OnePlace'
  BY <1>13 DEF OnePlace
<1> QED
  BY <1>14, <1>16, <1>17 DEF Stored, StorageApart

LEMMA MoveFolder ==
    ASSUME Stored, NEW dst \in Path, NEW src \in Path, move_folder(dst, src)
    PROVE  Stored'
<1>1. Placed /\ RoomApart /\ NullOK /\ ContentsApart /\ NoneLost
  BY DEF Stored, StorageApart
<1>2. PICK d \in PathAls(dst, "folder") \ {Null}, g \in PathAls(src, "folder") \ {Null},
           from \in PathAls(src, "folder of file") \ {Null} :
        /\ FreeFolder(d) # 0
        /\ LET i == First({j \in Slots : Entry(from, j).name = folder[g].name})
               cleared == IF i = 0 THEN folder ELSE [folder EXCEPT ![from].folders[i] = Null]
           IN  folder' = [cleared EXCEPT ![d].folders[FreeFolder(d)] = g]
        /\ mishap' = mishap \cup {"moved"}
        /\ UNCHANGED <<allocators, file, null, given_up>>
  BY DEF move_folder
<1> DEFINE E == {j \in Slots : Entry(from, j).name = folder[g].name}
           i == First(E)
           cleared == IF i = 0 THEN folder ELSE [folder EXCEPT ![from].folders[i] = Null]
<1>3. d \in DOMAIN folder /\ g \in DOMAIN folder /\ from \in DOMAIN folder
  BY <1>1, FolderAls, HolderAls
<1>4. folder' = [cleared EXCEPT ![d].folders[FreeFolder(d)] = g] /\ FreeFolder(d) \in Slots
  BY <1>2, SlotsFound
<1>5. i # 0 => i \in Slots
  <2> HIDE DEF E
  <2>1. E \subseteq Slots
    BY DEF E
  <2> QED
    BY <2>1, FirstIs
<1> HIDE DEF i
<1>6. folder \in [DOMAIN folder -> FolderInfo] /\ file \in [DOMAIN file -> FileInfo]
  BY <1>1 DEF Placed
<1>7. cleared \in [DOMAIN folder -> FolderInfo]
  BY <1>3, <1>5, <1>6, Relisted
<1> HIDE DEF cleared
<1>8. folder' \in [DOMAIN folder -> FolderInfo]
  BY <1>3, <1>4, <1>7, Relisted
<1>9. file' = file /\ null' = null /\ UNCHANGED allocators /\ given_up' = given_up /\ "moved" \in mishap'
      /\ mishap \subseteq mishap'
  BY <1>2
<1>10. Placed' /\ RoomApart'
  BY <1>1, <1>6, <1>8, <1>9, Rearranged
<1>11. NullOK'
  <2>1. FileInfo' = FileInfo
    BY <1>9 DEF FileInfo, allocators
  <2> QED
    BY <1>1, <1>9, <2>1 DEF NullOK
<1>12. ContentsApart' /\ NoneLost' /\ OnePlace'
  BY <1>1, <1>9 DEF ContentsApart, NoneLost, OnePlace
<1> QED
  BY <1>10, <1>11, <1>12 DEF Stored, StorageApart

-----------------------------------------------------------------------------
(* The editor. *)

LEMMA PlaceStays ==
    ASSUME OnePlace, UNCHANGED <<folder, file>>, mishap \subseteq mishap' PROVE OnePlace'
<1> SUFFICES ASSUME "moved" \notin mishap',
                    NEW x \in DOMAIN folder' \cup DOMAIN file', NEW e \in DOMAIN folder', NEW f \in DOMAIN folder',
                    NEW j \in Slots, NEW k \in Slots,
                    x \in {folder'[e].files[j], folder'[e].folders[j]},
                    x \in {folder'[f].files[k], folder'[f].folders[k]}
             PROVE  e = f /\ j = k
  BY DEF OnePlace, Listed
<1> QED
  BY DEF OnePlace, Listed

\* An existing file, perhaps one without contents, or a new one, perhaps one
\* there is no room for (vim.c:140-167).
LEMMA VimEntry ==
    ASSUME Stored, NEW n \in Name, vim_entry(Root, n)
    PROVE  Stored' /\ vim_file' \in DOMAIN file' \cup {Null} /\ EditsContents'
<1>1. Placed /\ NullOK /\ NoneLost /\ Root \in DOMAIN folder
  BY DEF Stored, Placed
<1>2. CASE NamedSlot(Root, n) # 0
  <2> DEFINE i == NamedSlot(Root, n)
  <2>1. /\ i \in Slots /\ Entry(Root, i).name = n
        /\ vim_file' = folder[Root].files[i]
        /\ UNCHANGED <<allocators, folder, file, null, given_up, mishap>>
    BY <1>2, SlotsFound DEF vim_entry
  <2> HIDE DEF i
  <2>2. vim_file' \in DOMAIN file \cup {Null} /\ file' = file /\ given_up' = given_up /\ mishap' = mishap
    BY <1>1, <2>1, Made
  <2>3. EditsContents'
    <3>1. CASE vim_file' = Null
      <4>1. null.name = n
        BY <2>1, <3>1 DEF Entry
      <4>2. mishap \cap {"file at null", "folder at null"} # {}
        BY <1>1, <4>1 DEF NullOK
      <4> QED
        BY <2>2, <4>2 DEF EditsContents
    <3>2. CASE vim_file' # Null
      <4>1. file[vim_file'].p <= NoData => vim_file' \in given_up
        BY <1>1, <2>2, <3>2 DEF NoneLost
      <4>2. file[vim_file'] \in FileInfo /\ fs_alloc_start \in Nat
        BY <1>1, <2>2, <3>2 DEF Placed
      <4>3. file[vim_file'].p \in Int
        BY <4>2 DEF FileInfo, Wild, NoData
      <4>4. file[vim_file'].p > NoData \/ vim_file' \in given_up
        BY <4>1, <4>3 DEF NoData
      <4> QED
        BY <2>2, <3>2, <4>4 DEF EditsContents
    <3> QED
      BY <3>1, <3>2
  <2>4. Stored'
    <3>1. FolderInfo' = FolderInfo /\ FileInfo' = FileInfo
      BY <2>1 DEF FolderInfo, FileInfo, allocators
    <3>2. Placed' /\ NullOK' /\ NoneLost'
      BY <1>1, <2>1, <3>1 DEF Placed, NullOK, NoneLost, allocators
    <3>3. ContentsApart' /\ RoomApart'
      BY <2>1 DEF Stored, StorageApart, ContentsApart, RoomApart
    <3>4. OnePlace'
      BY <2>1, PlaceStays DEF Stored, StorageApart
    <3> QED
      BY <3>1, <3>2, <3>3, <3>4 DEF Stored, StorageApart
  <2> QED
    BY <2>2, <2>3, <2>4
<1>3. CASE NamedSlot(Root, n) = 0
  <2>1. create_file(Root, n) /\ vim_file' = folder'[Root].files[FreeFile(Root)]
    BY <1>3 DEF vim_entry
  <2>2. /\ Stored' /\ vim_file' \in DOMAIN file' \cup {Null}
        /\ \/ vim_file' # Null /\ file'[vim_file'].p > NoData
           \/ vim_file' \in given_up'
           \/ "file at null" \in mishap'
    <3> DEFINE g == folder'[Root].files[FreeFile(Root)]
    <3>1. g = folder'[Root].files[FreeFile(Root)] /\ vim_file' = g
      BY <2>1
    <3> HIDE DEF g
    <3>2. /\ Stored' /\ g \in DOMAIN file' \cup {Null}
          /\ (g # Null /\ file'[g].p > NoData) \/ g \in given_up' \/ "file at null" \in mishap'
      BY <1>1, <2>1, <3>1, CreateFile
    <3> QED
      BY <3>1, <3>2
  <2>3. EditsContents'
    BY <2>2 DEF EditsContents
  <2> QED
    BY <2>2, <2>3
<1> QED
  BY <1>2, <1>3

LEMMA SaveFile == ASSUME Stored, save_file PROVE Stored' /\ vim_file' = Closed
<1> DEFINE p == IF vim_file = Null THEN null.p ELSE file[vim_file].p
<1>1. Placed /\ NullOK /\ ContentsApart /\ RoomApart /\ OnePlace /\ NoneLost
  BY DEF Stored, StorageApart
<1>2. /\ folder' = folder /\ file' = file /\ given_up' = given_up /\ vim_file' = Closed
      /\ UNCHANGED allocators
      /\ \/ null' \in [name : {Garbled}, p : {NoData, Wild}] /\ mishap' = mishap \cup {"file at null"}
         \/ null' = null /\ mishap' = mishap
  BY DEF save_file
<1>3. FolderInfo' = FolderInfo /\ FileInfo' = FileInfo
  BY <1>2 DEF FolderInfo, FileInfo, allocators
<1>4. NullOK'
  <2>1. CASE null' = null /\ mishap' = mishap
    BY <1>1, <1>3, <2>1 DEF NullOK
  <2>2. CASE null' \in [name : {Garbled}, p : {NoData, Wild}]
    <3>1. null' = [name |-> null'.name, p |-> null'.p] /\ null'.name = Garbled /\ null'.p \in {NoData, Wild}
      BY <2>2
    <3>2. null' \in FileInfo
      BY <3>1 DEF FileInfo
    <3> QED
      BY <1>3, <3>1, <3>2, NamesAssumption DEF NullOK
  <2> QED
    BY <1>2, <2>1, <2>2
<1>5. Placed' /\ RoomApart'
  <2>1. folder' \in [DOMAIN folder -> FolderInfo] /\ file' \in [DOMAIN file -> FileInfo]
    BY <1>1, <1>2 DEF Placed
  <2> QED
    BY <1>1, <1>2, <2>1, Rearranged
<1>6. ContentsApart' /\ NoneLost'
  BY <1>1, <1>2 DEF ContentsApart, NoneLost
<1>7. OnePlace'
  <2>1. mishap \subseteq mishap'
    BY <1>2
  <2> QED
    BY <1>1, <1>2, <2>1, PlaceStays
<1> QED
  BY <1>2, <1>4, <1>5, <1>6, <1>7 DEF Stored, StorageApart

-----------------------------------------------------------------------------
(* The theorems. *)

LEMMA Initially == Init => IInv
<1> SUFFICES ASSUME Init PROVE IInv
  OBVIOUS
<1> DEFINE root == [name |-> Garbled, files |-> NoEntries, folders |-> NoEntries]
<1>1. /\ fs_info_alloc_start = FolderSize /\ fs_alloc_start = 0
      /\ folder = [d \in {Root} |-> root] /\ file = <<>>
      /\ null \in [name : {Garbled}, p : {NoData, Wild}]
      /\ vim_file = Closed
  BY DEF Init
<1>2. DOMAIN folder = {Root} /\ folder[Root] = root
  BY <1>1
<1>3. DOMAIN file = {}
  BY <1>1
<1>4. FolderSize \in Nat \ {0}
  BY SizesAssumption
<1>5. root \in FolderInfo
  BY DEF FolderInfo, NoEntries
<1>6. folder \in [DOMAIN folder -> FolderInfo]
  <2> HIDE DEF root
  <2> QED
    BY <1>1, <1>5
<1>7. file \in [DOMAIN file -> FileInfo]
  BY <1>1, <1>3
<1>8. Placed
  BY <1>1, <1>2, <1>3, <1>4, <1>6, <1>7 DEF Placed, Root
<1>9. NullOK
  <2>1. null = [name |-> null.name, p |-> null.p] /\ null.name = Garbled /\ null.p \in {NoData, Wild}
    BY <1>1
  <2>2. null \in FileInfo
    BY <2>1 DEF FileInfo
  <2> QED
    BY <2>1, <2>2, NamesAssumption DEF NullOK
<1>10. ContentsApart /\ RoomApart /\ NoneLost
  BY <1>2, <1>3 DEF ContentsApart, RoomApart, NoneLost
<1>11. OnePlace
  <2>1. \A i \in Slots : Listed(Root, i) = {Null}
    BY <1>2 DEF Listed, NoEntries
  <2>2. Null # Root
    BY DEF Null, Root
  <2> QED
    BY <1>2, <1>3, <2>1, <2>2 DEF OnePlace
<1> QED
  BY <1>1, <1>8, <1>9, <1>10, <1>11 DEF IInv, Stored, StorageApart, EditsContents

LEMMA Stutters == IInv /\ UNCHANGED vars => IInv'
<1> SUFFICES ASSUME IInv, UNCHANGED vars PROVE IInv'
  OBVIOUS
<1>1. UNCHANGED <<allocators, folder, file, null, vim_file, given_up, mishap>>
  BY DEF vars
<1>2. FolderInfo' = FolderInfo /\ FileInfo' = FileInfo
  BY <1>1 DEF FolderInfo, FileInfo, allocators
<1>3. Placed' /\ NullOK' /\ NoneLost'
  BY <1>1, <1>2 DEF IInv, Stored, Placed, NullOK, NoneLost, allocators
<1>4. ContentsApart' /\ RoomApart'
  BY <1>1 DEF IInv, Stored, StorageApart, ContentsApart, RoomApart
<1>5. OnePlace'
  BY <1>1, PlaceStays DEF IInv, Stored, StorageApart
<1>6. vim_file' \in DOMAIN file' \cup {Null, Closed} /\ EditsContents'
  BY <1>1 DEF IInv, EditsContents
<1> QED
  BY <1>3, <1>4, <1>5, <1>6 DEF IInv, Stored, StorageApart

LEMMA Step == IInv /\ Next => IInv'
<1> SUFFICES ASSUME IInv, Next PROVE IInv'
  OBVIOUS
<1>1. Stored
  BY DEF IInv
<1>2. Stored' /\ vim_file' = Closed => IInv'
  BY DEF IInv, EditsContents
<1>3. CASE /\ vim_file = Closed
           /\ \E d \in DOMAIN folder, n \in Name :
                create_folder(d, n) \/ (create_file(d, n) /\ UNCHANGED vim_file)
  <2>1. PICK d \in DOMAIN folder, n \in Name :
           create_folder(d, n) \/ (create_file(d, n) /\ UNCHANGED vim_file)
    BY <1>3
  <2>2. CASE create_folder(d, n)
    BY <1>1, <1>2, <1>3, <2>2, CreateFolder DEF create_folder
  <2>3. CASE create_file(d, n) /\ UNCHANGED vim_file
    BY <1>1, <1>2, <1>3, <2>3, CreateFile
  <2> QED
    BY <2>1, <2>2, <2>3
<1>4. CASE /\ vim_file = Closed
           /\ \E d \in DOMAIN folder, n \in Name : del_folder(d, n) \/ del_file(d, n)
  <2>1. PICK d \in DOMAIN folder, n \in Name : del_folder(d, n) \/ del_file(d, n)
    BY <1>4
  <2>2. CASE del_folder(d, n)
    BY <1>1, <1>2, <1>4, <2>2, DelFolder DEF del_folder
  <2>3. CASE del_file(d, n)
    BY <1>1, <1>2, <1>4, <2>3, DelFile DEF del_file
  <2> QED
    BY <2>1, <2>2, <2>3
<1>5. CASE /\ vim_file = Closed
           /\ \E dst, src \in Path : move_file(dst, src) \/ move_folder(dst, src)
  <2>1. PICK dst \in Path, src \in Path : move_file(dst, src) \/ move_folder(dst, src)
    BY <1>5
  <2>2. CASE move_file(dst, src)
    BY <1>1, <1>2, <1>5, <2>2, MoveFile DEF move_file
  <2>3. CASE move_folder(dst, src)
    BY <1>1, <1>2, <1>5, <2>3, MoveFolder DEF move_folder
  <2> QED
    BY <2>1, <2>2, <2>3
<1>6. CASE \E n \in Name : vim_entry(Root, n)
  BY <1>1, <1>6, VimEntry DEF IInv
<1>7. CASE save_file
  BY <1>1, <1>2, <1>7, SaveFile
<1> QED
  BY <1>3, <1>4, <1>5, <1>6, <1>7 DEF Next

\* The inductive invariant holds of every file system the operations build.
THEOREM Invariant == Spec => []IInv
<1> QED
  BY Initially, Stutters, Step, PTL DEF Spec

\* For every size of the memory and of the lists, no two files share contents
\* and no two structures memory; until something was moved a file or folder is
\* in one place (fs.c:8-21, 23-105).
THEOREM StorageStaysApart == Spec => []StorageApart
<1>1. IInv => StorageApart
  BY DEF IInv, Stored
<1> QED
  BY <1>1, Invariant, PTL

\* Whatever names repeat and whatever was moved, a file is without contents of
\* its own only for an operation on itself, or never had any: there was no room
\* or its type ran into file_p (fs.c:70-73, 92-105, 152-181).
THEOREM NoFileLost == Spec => []NoneLost
<1>1. IInv => NoneLost
  BY DEF IInv, Stored
<1> QED
  BY <1>1, Invariant, PTL

\* The file the editor has in hand has contents that fs_malloc gave it and, by
\* StorageStaysApart, no other file, but after the mishaps the property names:
\* a file whose type ran into file_p is among them (vim.c:140-167, fs.c:73).
THEOREM EditorHasFile == Spec => []EditsContents
<1>1. IInv => EditsContents
  BY DEF IInv
<1> QED
  BY <1>1, Invariant, PTL

-----------------------------------------------------------------------------
(* Loops over a range, and the strings of memory. *)

\* What a loop makes of its state in its i-th turn: step[<<i, state>>].
Turns(n, base, step, f) == f = [i \in 0..n |-> IF i = 0 THEN base ELSE step[<<i, f[i - 1]>>]]

\* There is what there is after every turn.
LEMMA Loop ==
    ASSUME NEW n \in Nat, NEW S, NEW base \in S, NEW step \in [(1..n) \X S -> S]
    PROVE  \E f \in [0..n -> S] : Turns(n, base, step, f)
<1> DEFINE T == {k \in 0..n : \E f \in [0..k -> S] : Turns(k, base, step, f)}
<1>2. 0 \in T
  <2> DEFINE f == [i \in 0..0 |-> base]
  <2>1. f \in [0..0 -> S]
    OBVIOUS
  <2>2. \A i \in 0..0 : f[i] = IF i = 0 THEN base ELSE step[<<i, f[i - 1]>>]
    OBVIOUS
  <2>3. f = [i \in 0..0 |-> IF i = 0 THEN base ELSE step[<<i, f[i - 1]>>]]
    <3> HIDE DEF f
    <3> QED
      BY <2>1, <2>2
  <2> HIDE DEF f
  <2>4. Turns(0, base, step, f)
    BY <2>3 DEF Turns
  <2> QED
    BY <2>1, <2>4
<1>3. ASSUME NEW k \in 0..n - 1, k \in T PROVE k + 1 \in T
  <2>1. PICK f \in [0..k -> S] : Turns(k, base, step, f)
    BY <1>3
  <2> DEFINE g == [i \in 0..k + 1 |-> IF i = k + 1 THEN step[<<k + 1, f[k]>>] ELSE f[i]]
  <2>2. k \in Nat /\ k + 1 \in 0..n /\ k + 1 \in 1..n /\ k + 1 # 0 /\ (k + 1) - 1 = k
    OBVIOUS
  <2>3. step[<<k + 1, f[k]>>] \in S
    BY <2>2
  <2>4. g \in [0..k + 1 -> S]
    BY <2>2, <2>3
  <2>5. (\A i \in 0..k : g[i] = f[i]) /\ g[k + 1] = step[<<k + 1, f[k]>>]
    BY <2>2
  <2> HIDE DEF g
  <2>6. ASSUME NEW i \in 0..k + 1 PROVE g[i] = IF i = 0 THEN base ELSE step[<<i, g[i - 1]>>]
    <3>1. CASE i = k + 1
      <4>1. i - 1 = k /\ i # 0 /\ k \in 0..k /\ g[k] = f[k]
        BY <2>2, <2>5, <3>1
      <4>2. g[i] = step[<<i, f[k]>>]
        BY <2>5, <3>1
      <4> QED
        BY <4>1, <4>2
    <3>2. CASE i # k + 1
      <4>1. i \in 0..k /\ (i # 0 => i - 1 \in 0..k)
        BY <2>2, <3>2
      <4>2. g[i] = f[i] /\ (i # 0 => g[i - 1] = f[i - 1])
        BY <2>5, <4>1
      <4>3. f[i] = IF i = 0 THEN base ELSE step[<<i, f[i - 1]>>]
        BY <2>1, <4>1 DEF Turns
      <4> QED
        BY <4>2, <4>3
    <3> QED
      BY <3>1, <3>2
  <2>7. Turns(k + 1, base, step, g)
    <3>1. g = [i \in 0..k + 1 |-> IF i = 0 THEN base ELSE step[<<i, g[i - 1]>>]]
      BY <2>4, <2>6
    <3> QED
      BY <3>1 DEF Turns
  <2> QED
    BY <2>2, <2>4, <2>7
<1>4. n \in T
  <2> HIDE DEF T
  <2> QED
    BY <1>2, <1>3, Upwards
<1> QED
  BY <1>4

\* The least of the numbers that something holds of.
LEMMA Least ==
    ASSUME NEW S, S \subseteq Nat, S # {}
    PROVE  \E m \in S : \A x \in S : m <= x
<1>1. PICK m \in S : \A y \in S : ~(<<y, m>> \in OpToRel(<, Nat))
  BY NatLessThanWellFounded, WFMin
<1>2. ASSUME NEW x \in S PROVE m <= x
  <2>1. x \in Nat /\ m \in Nat
    BY <1>1
  <2>2. ~(x < m)
    BY <1>1, <2>1 DEF OpToRel
  <2> QED
    BY <2>1, <2>2
<1> QED
  BY <1>2

\* Where the first 0 is.
LEMMA StrlenFirst ==
    ASSUME NEW m \in Mem, NEW p \in Addr, NEW n \in Nat, p + n \in Addr, m[p + n] = 0,
           \A i \in 0..n - 1 : m[p + i] # 0
    PROVE  strlen(m, p) = n
<1>1. n \in 0..Size
  BY HelpersAssumption DEF Addr
<1>2. \E k \in 0..Size : m[p + k] = 0 /\ \A i \in 0..k - 1 : m[p + i] # 0
  BY <1>1
<1> DEFINE len == strlen(m, p)
<1>3. len \in 0..Size /\ m[p + len] = 0 /\ \A i \in 0..len - 1 : m[p + i] # 0
  BY <1>2 DEF strlen
<1> HIDE DEF len
<1>4. ~(len < n) /\ ~(n < len)
  BY <1>1, <1>3
<1>5. len = n
  BY <1>1, <1>3, <1>4
<1> QED
  BY <1>5 DEF len

\* A string is as long as there are characters before its first 0.
LEMMA StrlenIs ==
    ASSUME NEW m \in Mem, NEW p \in Addr, HasEnd(m, p)
    PROVE  /\ strlen(m, p) \in Nat /\ p + strlen(m, p) \in Addr /\ m[p + strlen(m, p)] = 0
           /\ \A i \in 0..strlen(m, p) - 1 : p + i \in Addr /\ m[p + i] \in Char /\ m[p + i] # 0
<1> DEFINE S == {n \in Nat : p + n \in Addr /\ m[p + n] = 0}
<1>0. Size \in Nat /\ p \in Nat /\ 0 \notin Char
  BY HelpersAssumption DEF Addr
<1>1. S # {}
  <2>1. PICK e \in Addr : e >= p /\ m[e] = 0
    BY DEF HasEnd
  <2>2. e - p \in Nat /\ p + (e - p) = e
    BY <1>0, <2>1 DEF Addr
  <2> QED
    BY <2>1, <2>2
<1>2. PICK n \in S : \A x \in S : n <= x
  BY <1>1, Least
<1>3. n \in Nat /\ p + n \in Addr /\ m[p + n] = 0
  BY <1>2
<1>4. ASSUME NEW i \in 0..n - 1 PROVE p + i \in Addr /\ m[p + i] # 0 /\ m[p + i] \in Char
  <2>1. i \in Nat /\ ~(n <= i) /\ p + i \in Addr
    BY <1>0, <1>3 DEF Addr
  <2>2. i \notin S
    BY <1>2, <2>1
  <2>3. m[p + i] # 0
    BY <2>1, <2>2
  <2>4. m[p + i] \in Char \cup {0}
    BY <2>1 DEF Mem
  <2> QED
    BY <2>1, <2>3, <2>4
<1>5. strlen(m, p) = n
  BY <1>3, <1>4, StrlenFirst
<1> QED
  BY <1>3, <1>4, <1>5

\* A string's characters.
LEMMA StringIs ==
    ASSUME NEW m \in Mem, NEW p \in Addr, HasEnd(m, p)
    PROVE  /\ StringAt(m, p) \in Seq(Char) /\ Len(StringAt(m, p)) = strlen(m, p)
           /\ \A i \in 1..strlen(m, p) : StringAt(m, p)[i] = m[p + i - 1]
<1> DEFINE n == strlen(m, p)
<1>0. p \in Nat
  BY HelpersAssumption DEF Addr
<1>1. n \in Nat /\ \A i \in 0..n - 1 : m[p + i] \in Char
  BY StrlenIs
<1> HIDE DEF n
<1>2. ASSUME NEW i \in 1..n PROVE m[p + i - 1] \in Char
  <2>1. i - 1 \in 0..n - 1 /\ p + (i - 1) = p + i - 1
    BY <1>0, <1>1
  <2> QED
    BY <1>1, <2>1
<1> DEFINE s == [i \in 1..n |-> m[p + i - 1]]
<1>3. s \in [1..n -> Char]
  BY <1>2
<1>4. s \in Seq(Char) /\ Len(s) = n
  <2> HIDE DEF s
  <2>1. s \in Seq(Char)
    BY <1>1, <1>3
  <2> QED
    BY <1>1, <1>3, <2>1
<1>5. StringAt(m, p) = s
  BY DEF StringAt, n
<1> QED
  BY <1>4, <1>5 DEF n

-----------------------------------------------------------------------------
(* Copies. *)

\* What the definition of Copying chooses from.
CopyTurn(m, d, s, f) ==
    f = [i \in 0..Size |-> IF i = 0 THEN m ELSE CopyByte(f[i - 1], d + i - 1, s + i - 1)]

\* A turn copies the byte it came to, as long as there are both.
LEMMA CopyingIs ==
    ASSUME NEW m \in Mem, NEW d \in Addr, NEW s \in Addr
    PROVE  /\ Copying(m, d, s) \in [0..Size -> Mem] /\ Copying(m, d, s)[0] = m
           /\ \A i \in 1..Size : Copying(m, d, s)[i] = CopyByte(Copying(m, d, s)[i - 1], d + i - 1, s + i - 1)
<1> DEFINE next(i, t) == CopyByte(t, d + i - 1, s + i - 1)
           step == [z \in (1..Size) \X Mem |-> next(z[1], z[2])]
<1>1. \A i \in 1..Size, t \in Mem : next(i, t) \in Mem
  BY DEF Mem, CopyByte
<1>2. \A f : CopyTurn(m, d, s, f) <=> f = [i \in 0..Size |-> IF i = 0 THEN m ELSE next(i, f[i - 1])]
  BY DEF CopyTurn
<1> HIDE DEF next
<1>3. step \in [(1..Size) \X Mem -> Mem]
  BY <1>1
<1>4. \A i \in 1..Size, t \in Mem : step[<<i, t>>] = next(i, t)
  OBVIOUS
<1> HIDE DEF step
<1>5. Size \in Nat
  BY HelpersAssumption
<1>6. PICK f \in [0..Size -> Mem] : Turns(Size, m, step, f)
  BY <1>3, <1>5, Loop
<1>7. \A i \in 1..Size : f[i] = next(i, f[i - 1]) /\ f[i - 1] \in Mem
  <2> TAKE i \in 1..Size
  <2>1. i \in 0..Size /\ i - 1 \in 0..Size /\ i # 0
    BY <1>5
  <2>2. f[i] = step[<<i, f[i - 1]>>]
    BY <1>6, <2>1 DEF Turns
  <2> QED
    BY <1>4, <2>1, <2>2
<1>8. f[0] = m
  BY <1>5, <1>6 DEF Turns
<1>9. CopyTurn(m, d, s, f)
  <2>1. \A i \in 0..Size : f[i] = IF i = 0 THEN m ELSE next(i, f[i - 1])
    BY <1>5, <1>7, <1>8
  <2> QED
    BY <1>2, <2>1
<1> DEFINE g == CHOOSE g : CopyTurn(m, d, s, g)
<1>10. CopyTurn(m, d, s, g)
  BY <1>9
<1>11. Copying(m, d, s) = g
  BY DEF Copying, CopyTurn
<1> HIDE DEF g
<1>12. g = [i \in 0..Size |-> IF i = 0 THEN m ELSE next(i, g[i - 1])]
  BY <1>2, <1>10
<1>13. 0..Size \subseteq {i \in 0..Size : g[i] \in Mem}
  <2> DEFINE S == {i \in 0..Size : g[i] \in Mem}
  <2>1. 0 \in S
    BY <1>5, <1>12
  <2>2. ASSUME NEW i \in 0..Size - 1, i \in S PROVE i + 1 \in S
    <3>1. i + 1 \in 1..Size /\ i + 1 \in 0..Size /\ i + 1 # 0 /\ (i + 1) - 1 = i /\ g[i] \in Mem
      BY <1>5, <2>2
    <3>2. g[i + 1] = next(i + 1, g[i])
      BY <1>12, <3>1
    <3> QED
      BY <1>1, <3>1, <3>2
  <2> HIDE DEF S
  <2>3. 0..Size \subseteq S
    BY <1>5, <2>1, <2>2, Upwards
  <2> QED
    BY <2>3 DEF S
<1>14. g \in [0..Size -> Mem]
  BY <1>12, <1>13
<1>15. \A i \in 1..Size : g[i] = next(i, g[i - 1])
  BY <1>5, <1>12
<1>16. g[0] = m
  BY <1>5, <1>12
<1> QED
  BY <1>11, <1>14, <1>15, <1>16 DEF next

\* After i turns, i bytes from d on may have changed; they are those from s on,
\* where no byte was written before it was read.
LEMMA CopiedSoFar ==
    ASSUME NEW m \in Mem, NEW d \in Addr, NEW s \in Addr, NEW n \in 0..Size
    PROVE  /\ \A a \in Addr \ (d..d + n - 1) : Copying(m, d, s)[n][a] = m[a]
           /\ d <= s \/ d >= s + n =>
                \A j \in 0..n - 1 : {d + j, s + j} \subseteq Addr => Copying(m, d, s)[n][d + j] = m[s + j]
<1> DEFINE f == Copying(m, d, s)
           Kept(i) == \A a \in Addr \ (d..d + i - 1) : f[i][a] = m[a]
           Right(i) == d <= s \/ d >= s + i =>
                        \A j \in 0..i - 1 : {d + j, s + j} \subseteq Addr => f[i][d + j] = m[s + j]
           S == {i \in 0..Size : Kept(i) /\ Right(i)}
<1>1. f \in [0..Size -> Mem] /\ f[0] = m
      /\ \A i \in 1..Size : f[i] = CopyByte(f[i - 1], d + i - 1, s + i - 1)
  BY CopyingIs
<1> HIDE DEF f
<1>2. Size \in Nat /\ d \in Nat /\ s \in Nat /\ \A a \in Addr : a \in Nat
  BY HelpersAssumption DEF Addr
<1>3. 0 \in S
  BY <1>1, <1>2
<1>4. ASSUME NEW i \in 0..Size - 1, i \in S PROVE i + 1 \in S
  <2>1. i \in Nat /\ i \in 0..Size /\ i + 1 \in 0..Size /\ i + 1 \in 1..Size /\ (i + 1) - 1 = i
        /\ d + (i + 1) - 1 = d + i /\ s + (i + 1) - 1 = s + i
    BY <1>2
  <2>2. f[i] \in [Addr -> Char \cup {0}] /\ f[i + 1] \in [Addr -> Char \cup {0}]
    BY <1>1, <2>1 DEF Mem
  <2>3. f[i + 1] = IF {d + i, s + i} \subseteq Addr THEN [f[i] EXCEPT ![d + i] = f[i][s + i]] ELSE f[i]
    BY <1>1, <2>1 DEF CopyByte
  <2>4. Kept(i) /\ Right(i)
    BY <1>4
  <2>5. ASSUME NEW a \in Addr, a # d + i PROVE f[i + 1][a] = f[i][a]
    BY <2>2, <2>3, <2>5
  <2>6. Kept(i + 1)
    <3> SUFFICES ASSUME NEW a \in Addr, a \notin d..d + (i + 1) - 1 PROVE f[i + 1][a] = m[a]
      OBVIOUS
    <3>1. a # d + i /\ a \notin d..d + i - 1
      BY <1>2, <2>1
    <3> QED
      BY <2>4, <2>5, <3>1
  <2>7. Right(i + 1)
    <3> SUFFICES ASSUME d <= s \/ d >= s + (i + 1),
                        NEW j \in 0..i, {d + j, s + j} \subseteq Addr
                 PROVE  f[i + 1][d + j] = m[s + j]
      BY <2>1
    <3>1. j \in Nat /\ (d <= s \/ d >= s + i)
      BY <1>2, <2>1
    <3>2. CASE j = i
      <4>1. s + i \notin d..d + i - 1
        BY <1>2, <2>1
      <4>2. f[i][s + i] = m[s + i]
        BY <2>4, <3>2, <4>1
      <4>3. f[i + 1][d + i] = f[i][s + i]
        BY <2>2, <2>3, <3>2
      <4> QED
        BY <3>2, <4>2, <4>3
    <3>3. CASE j # i
      <4>1. j \in 0..i - 1 /\ d + j # d + i
        BY <1>2, <2>1, <3>1, <3>3
      <4>2. f[i][d + j] = m[s + j]
        BY <2>4, <3>1, <4>1
      <4> QED
        BY <2>5, <4>1, <4>2
    <3> QED
      BY <3>2, <3>3
  <2> QED
    BY <2>1, <2>6, <2>7
<1>5. n \in S
  <2> HIDE DEF S
  <2> QED
    BY <1>2, <1>3, <1>4, Upwards
<1> QED
  BY <1>5 DEF f

\* A string whose copy begins within it is never read to its end.
LEMMA NeverEnds ==
    ASSUME NEW m \in Mem, NEW d \in Addr, NEW s \in Addr, s < d,
           \A a \in s..d - 1 : m[a] # 0, NEW n \in 0..Size
    PROVE  \A a \in Addr : s <= a /\ a <= d + n - 1 => Copying(m, d, s)[n][a] # 0
<1> DEFINE f == Copying(m, d, s)
           S == {i \in 0..Size : \A a \in Addr : s <= a /\ a <= d + i - 1 => f[i][a] # 0}
<1>1. f \in [0..Size -> Mem] /\ f[0] = m
      /\ \A i \in 1..Size : f[i] = CopyByte(f[i - 1], d + i - 1, s + i - 1)
  BY CopyingIs
<1> HIDE DEF f
<1>2. Size \in Nat /\ d \in 0..Size - 1 /\ s \in 0..Size - 1 /\ Addr = 0..Size - 1
  BY HelpersAssumption DEF Addr
<1>3. 0 \in S
  <2>1. \A a \in Addr : s <= a /\ a <= d + 0 - 1 => a \in s..d - 1
    BY <1>2
  <2> QED
    BY <1>1, <1>2, <2>1
<1>4. ASSUME NEW i \in 0..Size - 1, i \in S PROVE i + 1 \in S
  <2>1. i \in Nat /\ i \in 0..Size /\ i + 1 \in 0..Size /\ i + 1 \in 1..Size /\ (i + 1) - 1 = i
        /\ d + (i + 1) - 1 = d + i /\ s + (i + 1) - 1 = s + i
    BY <1>2
  <2>2. f[i] \in [Addr -> Char \cup {0}]
    BY <1>1, <2>1 DEF Mem
  <2>3. f[i + 1] = IF {d + i, s + i} \subseteq Addr THEN [f[i] EXCEPT ![d + i] = f[i][s + i]] ELSE f[i]
    BY <1>1, <2>1 DEF CopyByte
  <2>4. ASSUME NEW a \in Addr, s <= a, a <= d + i PROVE f[i + 1][a] # 0
    <3>1. CASE a = d + i
      <4>1. s + i \in Addr /\ s <= s + i /\ s + i <= d + i - 1 /\ d + i \in Addr
        BY <1>2, <2>1, <3>1
      <4>2. f[i][s + i] # 0
        BY <1>4, <4>1
      <4>3. f[i + 1][d + i] = f[i][s + i]
        BY <2>2, <2>3, <4>1
      <4> QED
        BY <3>1, <4>2, <4>3
    <3>2. CASE a # d + i
      <4>1. a <= d + i - 1
        BY <1>2, <2>1, <2>4, <3>2
      <4>2. f[i][a] # 0
        BY <1>4, <2>4, <4>1
      <4>3. f[i + 1][a] = f[i][a]
        BY <2>2, <2>3, <3>2
      <4> QED
        BY <4>2, <4>3
    <3> QED
      BY <3>1, <3>2
  <2>5. \A a \in Addr : s <= a /\ a <= d + (i + 1) - 1 => f[i + 1][a] # 0
    BY <2>1, <2>4
  <2> QED
    BY <2>1, <2>5
<1>5. n \in S
  <2> HIDE DEF S
  <2> QED
    BY <1>2, <1>3, <1>4, Upwards
<1> QED
  BY <1>5 DEF f

\* A copy that would end in its n-th turn has as many, or leaves the memory.
LEMMA CopyTurnsIs ==
    ASSUME NEW m \in Mem, NEW d \in Addr, NEW s \in Addr, NEW bound \in 0..Size, NEW n \in 0..Size,
           \A i \in 0..n : d + i \in Addr => s + i \in Addr,
           \A i \in 0..n - 1 : d + i \in Addr => i # bound /\ Copying(m, d, s)[i][s + i] # 0,
           d + n \in Addr => n = bound \/ Copying(m, d, s)[n][s + n] = 0
    PROVE  CopyTurns(m, d, s, bound) = IF d + n \in Addr THEN n ELSE Size - d
<1> DEFINE Stops(i) == {d + i, s + i} \subseteq Addr => Copying(m, d, s)[i][s + i] = 0 \/ i = bound
           first(i) == Stops(i) /\ \A j \in 0..i - 1 : ~Stops(j)
           k == IF d + n \in Addr THEN n ELSE Size - d
<1>1. Size \in Nat /\ d \in 0..Size - 1 /\ s \in 0..Size - 1 /\ Addr = 0..Size - 1 /\ n \in Nat
  BY HelpersAssumption DEF Addr
<1>2. k \in 0..Size /\ k <= n
  BY <1>1
<1>3. Stops(k)
  <2>1. CASE d + n \in Addr
    BY <2>1
  <2>2. CASE d + n \notin Addr
    <3>1. d + k \notin Addr
      BY <1>1, <2>2
    <3> QED
      BY <3>1
  <2> QED
    BY <2>1, <2>2
<1>4. ASSUME NEW j \in 0..k - 1 PROVE ~Stops(j)
  <2>1. j \in 0..n - 1 /\ j \in 0..n
    BY <1>1, <1>2
  <2>2. d + j \in Addr
    BY <1>1, <1>2, <2>1
  <2> QED
    BY <2>1, <2>2
<1>5. CopyTurns(m, d, s, bound) = CHOOSE i \in 0..Size : first(i)
  BY DEF CopyTurns
<1> HIDE DEF Stops
<1>6. \A i \in 0..Size : first(i) => i = k
  <2> HIDE DEF k
  <2> SUFFICES ASSUME NEW i \in 0..Size, first(i) PROVE i = k
    OBVIOUS
  <2>1. ~(i < k)
    BY <1>2, <1>4
  <2>2. ~(k < i)
    BY <1>2, <1>3
  <2> QED
    BY <1>1, <1>2, <2>1, <2>2
<1>7. first(k)
  BY <1>3, <1>4
<1> HIDE DEF first, k
<1>8. CopyTurns(m, d, s, bound) = k
  BY <1>2, <1>5, <1>6, <1>7
<1> QED
  BY <1>8 DEF k

-----------------------------------------------------------------------------
\* What memset has set after every turn.
SetTurn(m, p, c, n, f) == f = [i \in 0..n |-> IF i = 0 THEN m ELSE [f[i - 1] EXCEPT ![p + i - 1] = c]]

\* memset fills its range, and nothing else.
LEMMA MemsetIs ==
    ASSUME NEW m \in Mem, NEW p \in Addr, NEW c \in Char \cup {0}, NEW n \in Nat, p + n <= Size
    PROVE  /\ \A a \in Addr \ (p..p + n - 1) : memset(m, p, c, n)[a] = m[a]
           /\ \A j \in 0..n - 1 : memset(m, p, c, n)[p + j] = c
<1> DEFINE next(i, t) == [t EXCEPT ![p + i - 1] = c]
           step == [z \in (1..n) \X Mem |-> next(z[1], z[2])]
<1>1. \A i \in 1..n, t \in Mem : next(i, t) \in Mem
  BY DEF Mem
<1>2. \A f : SetTurn(m, p, c, n, f) <=> f = [i \in 0..n |-> IF i = 0 THEN m ELSE next(i, f[i - 1])]
  BY DEF SetTurn
<1>3. Size \in Nat /\ p \in Nat /\ Addr = 0..Size - 1
  BY HelpersAssumption DEF Addr
<1>4. \A i \in 1..n, t \in Mem, a \in Addr : next(i, t)[a] = IF a = p + i - 1 THEN c ELSE t[a]
  BY DEF Mem
<1> HIDE DEF next
<1>5. step \in [(1..n) \X Mem -> Mem]
  BY <1>1
<1>6. \A i \in 1..n, t \in Mem : step[<<i, t>>] = next(i, t)
  OBVIOUS
<1> HIDE DEF step
<1>7. PICK f \in [0..n -> Mem] : Turns(n, m, step, f)
  BY <1>5, Loop
<1>8. SetTurn(m, p, c, n, f)
  <2>1. \A i \in 0..n : f[i] = IF i = 0 THEN m ELSE next(i, f[i - 1])
    <3> TAKE i \in 0..n
    <3>1. i # 0 => i \in 1..n /\ i - 1 \in 0..n
      OBVIOUS
    <3> QED
      BY <1>6, <1>7, <3>1 DEF Turns
  <2> QED
    BY <1>2, <2>1
<1> DEFINE g == CHOOSE g : SetTurn(m, p, c, n, g)
<1>9. SetTurn(m, p, c, n, g)
  BY <1>8
<1>10. memset(m, p, c, n) = g[n]
  BY DEF memset, SetTurn
<1> HIDE DEF g
<1>11. g = [i \in 0..n |-> IF i = 0 THEN m ELSE next(i, g[i - 1])]
  BY <1>2, <1>9
<1> DEFINE S == {i \in 0..n : /\ g[i] \in Mem
                              /\ \A a \in Addr \ (p..p + i - 1) : g[i][a] = m[a]
                              /\ \A j \in 0..i - 1 : g[i][p + j] = c}
<1>12. 0 \in S
  BY <1>11
<1>13. ASSUME NEW i \in 0..n - 1, i \in S PROVE i + 1 \in S
  <2>1. i \in Nat /\ i + 1 \in 0..n /\ i + 1 \in 1..n /\ i + 1 # 0 /\ (i + 1) - 1 = i /\ p + (i + 1) - 1 = p + i
    OBVIOUS
  <2>2. g[i] \in Mem /\ (\A a \in Addr \ (p..p + i - 1) : g[i][a] = m[a]) /\ \A j \in 0..i - 1 : g[i][p + j] = c
    BY <1>13
  <2>3. g[i + 1] = next(i + 1, g[i])
    BY <1>11, <2>1
  <2>4. g[i + 1] \in Mem
    BY <1>1, <2>1, <2>2, <2>3
  <2>5. \A a \in Addr : g[i + 1][a] = IF a = p + i THEN c ELSE g[i][a]
    BY <1>4, <2>1, <2>2, <2>3
  <2>6. \A a \in Addr \ (p..p + (i + 1) - 1) : g[i + 1][a] = m[a]
    <3> TAKE a \in Addr \ (p..p + (i + 1) - 1)
    <3>1. a # p + i /\ a \notin p..p + i - 1
      BY <1>3, <2>1
    <3> QED
      BY <2>2, <2>5, <3>1
  <2>7. \A j \in 0..(i + 1) - 1 : g[i + 1][p + j] = c
    <3> TAKE j \in 0..(i + 1) - 1
    <3>1. p + j \in Addr /\ (j # i => j \in 0..i - 1 /\ p + j # p + i)
      BY <1>3, <2>1
    <3> QED
      BY <2>2, <2>5, <3>1
  <2> QED
    BY <2>1, <2>4, <2>6, <2>7
<1>14. n \in S
  <2> HIDE DEF S
  <2>1. 0..n \subseteq S
    BY <1>12, <1>13, Upwards
  <2> QED
    BY <2>1
<1> QED
  BY <1>10, <1>14

\* What strncpy leaves behind; strcpy has all of the memory for a bound.
LEMMA StringCopyIs ==
    ASSUME mem \in Mem, call.p \in Addr, call.q \in Addr, HasEnd(mem, call.q), NEW bound \in 0..Size,
           mem' = strncpy(mem, call.p, call.q, bound).m, ret' = <<strncpy(mem, call.p, call.q, bound).off>>
    PROVE  StringCopied(bound)
<1> DEFINE d == call.p
           s == call.q
           str == StringAt(mem, s)
           len == Len(str)
           text == Until(bound, mem, s)
           T == IF bound < len THEN bound ELSE len
           inside == d > s /\ d <= s + T
           n == IF inside THEN bound ELSE T
           f == Copying(mem, d, s)
           k == IF d + n \in Addr THEN n ELSE Size - d
<1>1. Size \in Nat /\ d \in 0..Size - 1 /\ s \in 0..Size - 1 /\ Addr = 0..Size - 1 /\ bound \in Nat
  BY HelpersAssumption DEF Addr
<1>2. /\ len \in Nat /\ s + len \in Addr /\ mem[s + len] = 0
      /\ \A i \in 0..len - 1 : s + i \in Addr /\ mem[s + i] # 0
      /\ str \in Seq(Char) /\ \A i \in 1..len : str[i] = mem[s + i - 1]
  BY StrlenIs, StringIs
<1> HIDE DEF str, len
<1>3. T \in 0..Size /\ T \in Nat /\ T <= len /\ T <= bound /\ (T # bound => T = len)
  BY <1>1, <1>2
<1>4. text \in Seq(Char) /\ Len(text) = T /\ \A i \in 1..T : text[i] = mem[s + i - 1]
  <2>1. text = SubSeq(str, 1, T)
    BY DEF Until, str, len
  <2> HIDE DEF T, text
  <2>2. 1 \in 1..len + 1 /\ T \in 0..len /\ Len(str) = len
    BY <1>2, <1>3 DEF len
  <2>3. SubSeq(str, 1, T) \in Seq(Char) /\ Len(SubSeq(str, 1, T)) = T
        /\ \A i \in 1..T : SubSeq(str, 1, T)[i] = str[i]
    BY <1>2, <1>3, <2>2
  <2>4. \A i \in 1..T : i \in 1..len
    BY <1>2, <1>3
  <2> QED
    BY <1>2, <2>1, <2>3, <2>4
<1> HIDE DEF text, T
<1>5. f \in [0..Size -> Mem] /\ f[0] = mem
  BY CopyingIs
<1>6. \A i \in 0..Size : \A a \in Addr \ (d..d + i - 1) : f[i][a] = mem[a]
  BY CopiedSoFar
<1>7. \A i \in 0..Size : d <= s \/ d >= s + i =>
          \A j \in 0..i - 1 : {d + j, s + j} \subseteq Addr => f[i][d + j] = mem[s + j]
  BY CopiedSoFar
<1>0. d \in Addr /\ s \in Addr
  BY DEF d, s
<1> HIDE DEF d, s
<1>8. ASSUME inside, NEW i \in 0..Size, d + i \in Addr PROVE s + i \in Addr /\ f[i][s + i] # 0
  <2>1. s < d /\ s + i \in Addr /\ s <= s + i /\ s + i <= d + i - 1
    BY <1>1, <1>8
  <2>2. \A a \in s..d - 1 : mem[a] # 0
    <3> TAKE a \in s..d - 1
    <3>1. a - s \in 0..len - 1 /\ s + (a - s) = a
      BY <1>1, <1>2, <1>3, <1>8
    <3> QED
      BY <1>2, <3>1
  <2>3. \A a \in Addr : s <= a /\ a <= d + i - 1 => f[i][a] # 0
    <3> QED
      BY <1>0, <2>1, <2>2, NeverEnds
  <2> QED
    BY <2>1, <2>3
<1>9. ASSUME ~inside, NEW i \in 0..T PROVE s + i \in Addr /\ f[i][s + i] = mem[s + i] /\ i \in 0..Size
  <2>1. s + i \in Addr /\ i \in 0..Size
    BY <1>1, <1>2, <1>3
  <2>2. s + i \notin d..d + i - 1
    BY <1>1, <1>3, <1>9
  <2> QED
    BY <1>6, <2>1, <2>2
<1> HIDE DEF f
<1>10. n \in 0..Size /\ n \in Nat /\ (inside => n = bound) /\ (~inside => n = T)
  BY <1>1, <1>3
<1> HIDE DEF n
<1>11. \A i \in 0..n : d + i \in Addr => s + i \in Addr
  <2> SUFFICES ASSUME NEW i \in 0..n, d + i \in Addr PROVE s + i \in Addr
    OBVIOUS
  <2>1. i \in 0..Size
    BY <1>1, <1>10
  <2>2. CASE inside
    BY <1>8, <2>1, <2>2
  <2>3. CASE ~inside
    BY <1>9, <1>10, <2>3
  <2> QED
    BY <2>2, <2>3
<1>12. ASSUME NEW i \in 0..n - 1, d + i \in Addr PROVE i # bound /\ f[i][s + i] # 0
  <2>1. i \in 0..Size
    BY <1>1, <1>10
  <2>2. CASE inside
    BY <1>1, <1>8, <1>10, <1>12, <2>1, <2>2
  <2>3. CASE ~inside
    <3>1. n = T /\ i \in 0..T /\ i \in 0..len - 1 /\ i < bound
      BY <1>10, <1>1, <1>2, <1>3, <2>3
    <3>2. f[i][s + i] = mem[s + i] /\ mem[s + i] # 0
      BY <1>2, <1>9, <2>3, <3>1
    <3> QED
      BY <1>1, <3>1, <3>2
  <2> QED
    BY <2>2, <2>3
<1>13. d + n \in Addr => n = bound \/ f[n][s + n] = 0
  <2>1. CASE inside
    BY <1>10, <2>1
  <2>2. CASE ~inside
    <3>1. n = T /\ T \in 0..T
      BY <1>3, <1>10, <2>2
    <3>2. f[T][s + T] = mem[s + T]
      BY <1>9, <2>2, <3>1
    <3> QED
      BY <1>2, <1>3, <3>1, <3>2
  <2> QED
    BY <2>1, <2>2
<1>14. CopyTurns(mem, d, s, bound) = k
  <2> QED
    BY <1>0, <1>10, <1>11, <1>12, <1>13, CopyTurnsIs DEF f
<1> DEFINE off == d + n \notin Addr
<1>15. k \in 0..Size /\ (d + k \in Addr <=> ~off) /\ (~off => k = n) /\ k <= n
  BY <1>1, <1>10
<1> HIDE DEF k
<1>16. \A i \in 0..k : d + i \in Addr => s + i \in Addr
  <2>1. \A i \in 0..k : i \in 0..n
    BY <1>10, <1>15
  <2> QED
    BY <1>11, <2>1
<1>17. {d + k, s + k} \subseteq Addr <=> ~off
  <2>1. k \in 0..k
    BY <1>15
  <2> QED
    BY <1>15, <1>16, <2>1
<1>18. strncpy(mem, call.p, call.q, bound) = Ended(mem, d, s, k)
  BY <1>14 DEF strncpy, d, s
<1>19. (ret'[1] <=> off) /\ (~off => mem' = [f[n] EXCEPT ![d + n] = 0])
  <2>1. CASE off
    <3>1. Ended(mem, d, s, k).off = TRUE
      BY <1>17, <2>1 DEF Ended
    <3> QED
      BY <1>18, <2>1, <3>1
  <2>2. CASE ~off
    <3>1. Ended(mem, d, s, k) = [m |-> [f[k] EXCEPT ![d + k] = 0], off |-> FALSE]
      BY <1>17, <2>2 DEF Ended, f
    <3>2. k = n
      BY <1>15, <2>2
    <3>3. Ended(mem, d, s, k).off = FALSE /\ Ended(mem, d, s, k).m = [f[n] EXCEPT ![d + n] = 0]
      BY <3>1, <3>2
    <3>4. mem' = [f[n] EXCEPT ![d + n] = 0] /\ ret'[1] = FALSE
      BY <1>18, <3>3
    <3> QED
      BY <2>2, <3>4
  <2> QED
    BY <2>1, <2>2
<1>20. ret'[1] <=> d + n >= Size
  BY <1>1, <1>10, <1>19
<1>21. ASSUME ~ret'[1] PROVE /\ d + n \in Addr /\ mem' \in Mem /\ mem'[d + n] = 0
                             /\ \A a \in Addr : a # d + n => mem'[a] = f[n][a]
  <2>1. d + n \in Addr /\ mem' = [f[n] EXCEPT ![d + n] = 0] /\ f[n] \in [Addr -> Char \cup {0}]
    BY <1>5, <1>10, <1>19, <1>21 DEF Mem
  <2> QED
    BY <2>1 DEF Mem
<1>22. ASSUME ~ret'[1] PROVE Same(d, d + n)
  <2> SUFFICES ASSUME NEW a \in Addr \ (d..d + n) PROVE mem'[a] = mem[a]
    BY DEF Same
  <2>1. a # d + n /\ a \notin d..d + n - 1
    BY <1>1, <1>10
  <2> QED
    BY <1>6, <1>10, <1>21, <1>22, <2>1
<1>23. ASSUME ~ret'[1], ~inside PROVE StringAt(mem', d) = text
  <2>1. n = T
    BY <1>10, <1>23
  <2>2. ASSUME NEW j \in 0..T - 1 PROVE mem'[d + j] = mem[s + j] /\ mem[s + j] # 0
    <3>1. d + j \in Addr /\ s + j \in Addr /\ d + j # d + n /\ j \in 0..n - 1 /\ j \in 0..len - 1
      BY <1>1, <1>2, <1>3, <1>21, <1>23, <2>1
    <3>2. d <= s \/ d >= s + n
      BY <1>1, <1>3, <1>23, <2>1
    <3>3. f[n][d + j] = mem[s + j]
      BY <1>7, <1>10, <3>1, <3>2
    <3> QED
      BY <1>2, <1>21, <1>23, <3>1, <3>3
  <2>3. strlen(mem', d) = T
    <3>1. \A j \in 0..T - 1 : mem'[d + j] # 0
      BY <2>2
    <3>2. mem' \in Mem /\ d \in Addr /\ T \in Nat /\ d + T \in Addr /\ mem'[d + T] = 0
      BY <1>0, <1>3, <1>21, <1>23, <2>1
    <3> QED
      BY <3>1, <3>2, StrlenFirst
  <2>4. StringAt(mem', d) = [i \in 1..T |-> mem'[d + i - 1]]
    BY <2>3 DEF StringAt
  <2>5. \A i \in 1..T : mem'[d + i - 1] = text[i]
    <3> TAKE i \in 1..T
    <3>1. i - 1 \in 0..T - 1 /\ d + i - 1 = d + (i - 1) /\ s + i - 1 = s + (i - 1)
      BY <1>1, <1>3
    <3> QED
      BY <1>4, <2>2, <3>1
  <2>6. text = [i \in 1..T |-> text[i]]
    BY <1>4
  <2> QED
    BY <2>4, <2>5, <2>6
<1> QED
  <2>1. inside <=> call.p > call.q /\ call.p <= call.q + Len(text)
    BY <1>4 DEF d, s
  <2>2. n = IF inside THEN bound ELSE Len(text)
    BY <1>4, <1>10
  <2> QED
    BY <1>20, <1>22, <1>23, <2>1, <2>2 DEF StringCopied, text, d, s

-----------------------------------------------------------------------------
(* Comparisons. *)

\* A beginning has the same elements, as far as it goes.
LEMMA PrefixIs ==
    ASSUME NEW S, NEW s \in Seq(S), NEW t \in Seq(S)
    PROVE  IsPrefix(s, t) <=> Len(s) <= Len(t) /\ \A i \in 1..Len(s) : s[i] = t[i]
<1>1. Len(s) \in Nat /\ Len(t) \in Nat
  OBVIOUS
<1>2. CASE Len(s) <= Len(t)
  <2> DEFINE u == SubSeq(s, 1, Len(s))
             v == SubSeq(t, 1, Len(s))
  <2>1. u \in Seq(S) /\ Len(u) = Len(s) /\ \A i \in 1..Len(s) : u[i] = s[i]
    BY <1>1
  <2>2. v \in Seq(S) /\ Len(v) = Len(s) /\ \A i \in 1..Len(s) : v[i] = t[i]
    BY <1>1, <1>2
  <2> HIDE DEF u, v
  <2>3. u = v <=> \A i \in 1..Len(s) : u[i] = v[i]
    BY <2>1, <2>2, SeqEqual
  <2>4. IsPrefix(s, t) <=> Len(s) <= Len(t) /\ u = v
    BY DEF IsPrefix, u, v
  <2> QED
    BY <1>2, <2>1, <2>2, <2>3, <2>4
<1>3. CASE ~(Len(s) <= Len(t))
  BY <1>3 DEF IsPrefix
<1> QED
  BY <1>2, <1>3

\* Where two strings differ, they do so for a first time.
LEMMA Differ ==
    ASSUME NEW m \in Mem, NEW p \in Addr, NEW q \in Addr, HasEnd(m, p), HasEnd(m, q),
           NEW k \in Nat, k <= strlen(m, p), k <= strlen(m, q), m[p + k] # m[q + k]
    PROVE  \E j \in 0..k : Alike(m, p, q, j) /\ m[p + j] # m[q + j]
<1> DEFINE S == {j \in 0..k : m[p + j] # m[q + j]}
<1>1. k \in S /\ S \subseteq Nat
  OBVIOUS
<1>2. PICK j \in S : \A i \in S : j <= i
  <2> HIDE DEF S
  <2> QED
    BY <1>1, Least
<1>3. strlen(m, p) \in Nat /\ \A i \in 0..strlen(m, p) - 1 : m[p + i] # 0
  BY StrlenIs
<1>4. strlen(m, q) \in Nat /\ \A i \in 0..strlen(m, q) - 1 : m[q + i] # 0
  BY StrlenIs
<1>5. ASSUME NEW i \in 0..j - 1 PROVE m[p + i] # 0 /\ m[q + i] # 0 /\ m[p + i] = m[q + i]
  <2>1. j \in 0..k
    BY <1>2
  <2>2. i \in 0..k /\ ~(j <= i) /\ i \in 0..strlen(m, p) - 1 /\ i \in 0..strlen(m, q) - 1
    BY <1>3, <1>4, <2>1
  <2>3. i \notin S
    BY <1>2, <2>2
  <2> QED
    BY <1>3, <1>4, <2>2, <2>3
<1>6. Alike(m, p, q, j)
  BY <1>5 DEF Alike
<1> QED
  BY <1>2, <1>6

\* The loops do not go beyond an end.
LEMMA AlikeWithin ==
    ASSUME NEW m \in Mem, NEW p \in Addr, NEW q \in Addr, HasEnd(m, p), HasEnd(m, q),
           NEW i \in Nat, Alike(m, p, q, i)
    PROVE  i <= strlen(m, p) /\ i <= strlen(m, q)
<1>1. strlen(m, p) \in Nat /\ m[p + strlen(m, p)] = 0
  BY StrlenIs
<1>2. strlen(m, q) \in Nat /\ m[q + strlen(m, q)] = 0
  BY StrlenIs
<1>3. \A j \in 0..i - 1 : m[p + j] # 0 /\ m[q + j] # 0
  BY DEF Alike
<1>4. ~(strlen(m, p) < i) /\ ~(strlen(m, q) < i)
  BY <1>1, <1>2, <1>3
<1> QED
  BY <1>1, <1>2, <1>4

\* strncmp finds a difference among the first n characters that both have.
LEMMA StrncmpIs ==
    ASSUME NEW m \in Mem, NEW p \in Addr, NEW q \in Addr, HasEnd(m, p), HasEnd(m, q), NEW n \in Nat
    PROVE  /\ strncmp(m, p, q, n) \in {0, 1}
           /\ strncmp(m, p, q, n) = 1 <=>
                \E i \in 0..n - 1 : i < strlen(m, p) /\ i < strlen(m, q) /\ m[p + i] # m[q + i]
<1> DEFINE found == \E i \in 0..n - 1 : Alike(m, p, q, i) /\ m[p + i] # m[q + i] /\ m[p + i] # 0 /\ m[q + i] # 0
           lp == strlen(m, p)
           lq == strlen(m, q)
<1>1. strncmp(m, p, q, n) = IF found THEN 1 ELSE 0
  BY DEF strncmp
<1>2. lp \in Nat /\ m[p + lp] = 0 /\ \A i \in 0..lp - 1 : m[p + i] # 0
  BY StrlenIs
<1>3. lq \in Nat /\ m[q + lq] = 0 /\ \A i \in 0..lq - 1 : m[q + i] # 0
  BY StrlenIs
<1>4. ASSUME found PROVE \E i \in 0..n - 1 : i < lp /\ i < lq /\ m[p + i] # m[q + i]
  <2>1. PICK i \in 0..n - 1 : Alike(m, p, q, i) /\ m[p + i] # m[q + i] /\ m[p + i] # 0 /\ m[q + i] # 0
    BY <1>4
  <2>2. i \in Nat
    OBVIOUS
  <2>3. i <= lp /\ i <= lq
    BY <2>1, <2>2, AlikeWithin
  <2>4. i # lp /\ i # lq
    BY <1>2, <1>3, <2>1
  <2>5. i < lp /\ i < lq
    <3> HIDE DEF lp, lq
    <3> QED
      BY <1>2, <1>3, <2>2, <2>3, <2>4
  <2> QED
    BY <2>1, <2>5
<1>5. ASSUME NEW i \in 0..n - 1, i < lp, i < lq, m[p + i] # m[q + i] PROVE found
  <2>1. i \in Nat /\ i <= lp /\ i <= lq
    <3> HIDE DEF lp, lq
    <3> QED
      BY <1>2, <1>3, <1>5
  <2>2. PICK j \in 0..i : Alike(m, p, q, j) /\ m[p + j] # m[q + j]
    BY <1>5, <2>1, Differ
  <2>3. j \in 0..n - 1 /\ j \in 0..lp - 1 /\ j \in 0..lq - 1
    <3> HIDE DEF lp, lq
    <3> QED
      BY <1>2, <1>3, <1>5, <2>1, <2>2
  <2> QED
    BY <1>2, <1>3, <2>2, <2>3
<1> HIDE DEF found
<1> QED
  BY <1>1, <1>4, <1>5

\* strcmp tells strings apart.
LEMMA StrcmpIs ==
    ASSUME NEW m \in Mem, NEW p \in Addr, NEW q \in Addr, HasEnd(m, p), HasEnd(m, q)
    PROVE  strcmp(m, p, q) = 0 <=> StringAt(m, p) = StringAt(m, q)
<1> DEFINE found == \E i \in 0..Size : Alike(m, p, q, i) /\ m[p + i] # m[q + i]
           lp == strlen(m, p)
           lq == strlen(m, q)
<1>0. Size \in Nat /\ p \in Nat /\ q \in Nat /\ Addr = 0..Size - 1
  BY HelpersAssumption DEF Addr
<1>1. strcmp(m, p, q) = IF found THEN 1 ELSE 0
  BY DEF strcmp
<1>2. lp \in Nat /\ p + lp \in Addr /\ m[p + lp] = 0 /\ \A i \in 0..lp - 1 : m[p + i] # 0
  BY StrlenIs
<1>3. lq \in Nat /\ q + lq \in Addr /\ m[q + lq] = 0 /\ \A i \in 0..lq - 1 : m[q + i] # 0
  BY StrlenIs
<1>4. StringAt(m, p) \in Seq(Char) /\ Len(StringAt(m, p)) = lp /\ \A i \in 1..lp : StringAt(m, p)[i] = m[p + i - 1]
  BY StringIs
<1>5. StringAt(m, q) \in Seq(Char) /\ Len(StringAt(m, q)) = lq /\ \A i \in 1..lq : StringAt(m, q)[i] = m[q + i - 1]
  BY StringIs
<1>6. ASSUME found, StringAt(m, p) = StringAt(m, q) PROVE FALSE
  <2>1. PICK i \in 0..Size : Alike(m, p, q, i) /\ m[p + i] # m[q + i]
    BY <1>6
  <2>2. i \in Nat /\ i <= lp /\ i <= lq
    BY <1>0, <2>1, AlikeWithin
  <2> HIDE DEF lp, lq
  <2>3. lp = lq
    BY <1>4, <1>5, <1>6
  <2>4. i # lp
    BY <1>2, <1>3, <2>1, <2>3
  <2>5. i + 1 \in 1..lp /\ i + 1 \in 1..lq /\ p + (i + 1) - 1 = p + i /\ q + (i + 1) - 1 = q + i
    BY <1>0, <1>2, <2>2, <2>3, <2>4
  <2>6. m[p + i] = m[q + i]
    BY <1>4, <1>5, <1>6, <2>5
  <2> QED
    BY <2>1, <2>6
<1>7. ASSUME ~found PROVE StringAt(m, p) = StringAt(m, q)
  <2>1. ASSUME NEW i \in Nat, i <= lp, i <= lq PROVE m[p + i] = m[q + i]
    <3> SUFFICES ASSUME m[p + i] # m[q + i] PROVE FALSE
      OBVIOUS
    <3>1. PICK j \in 0..i : Alike(m, p, q, j) /\ m[p + j] # m[q + j]
      BY <2>1, Differ
    <3>2. j \in 0..Size
      <4> HIDE DEF lp
      <4> QED
        BY <1>0, <1>2, <2>1
    <3> QED
      BY <1>7, <3>1, <3>2
  <2> HIDE DEF lp, lq, found
  <2>2. ~(lp < lq)
    BY <1>2, <1>3, <2>1
  <2>3. ~(lq < lp)
    BY <1>2, <1>3, <2>1
  <2>4. lp = lq
    BY <1>2, <1>3, <2>2, <2>3
  <2>5. \A i \in 1..lp : StringAt(m, p)[i] = StringAt(m, q)[i]
    <3> TAKE i \in 1..lp
    <3>1. i - 1 \in Nat /\ i - 1 <= lp /\ p + i - 1 = p + (i - 1) /\ q + i - 1 = q + (i - 1)
      BY <1>0, <1>2
    <3>2. m[p + (i - 1)] = m[q + (i - 1)]
      BY <2>1, <2>4, <3>1
    <3> QED
      BY <1>4, <1>5, <2>4, <3>1, <3>2
  <2> QED
    BY <1>4, <1>5, <2>4, <2>5, SeqEqual
<1> HIDE DEF found
<1> QED
  BY <1>1, <1>6, <1>7

\* The first n characters of a string, or all of them.
LEMMA UntilIs ==
    ASSUME NEW m \in Mem, NEW p \in Addr, HasEnd(m, p), NEW n \in Nat
    PROVE  /\ Until(n, m, p) \in Seq(Char)
           /\ Len(Until(n, m, p)) = IF n < strlen(m, p) THEN n ELSE strlen(m, p)
           /\ \A i \in 1..Len(Until(n, m, p)) : Until(n, m, p)[i] = m[p + i - 1]
<1> DEFINE str == StringAt(m, p)
           len == strlen(m, p)
           k == IF n < len THEN n ELSE len
<1>1. len \in Nat
  BY StrlenIs
<1>2. str \in Seq(Char) /\ Len(str) = len /\ \A i \in 1..len : str[i] = m[p + i - 1]
  BY StringIs
<1>3. Until(n, m, p) = SubSeq(str, 1, k)
  BY <1>2 DEF Until
<1>4. k \in 0..len
  BY <1>1
<1> HIDE DEF str, len, k
<1>5. SubSeq(str, 1, k) \in Seq(Char) /\ Len(SubSeq(str, 1, k)) = k
      /\ \A i \in 1..k : SubSeq(str, 1, k)[i] = str[i]
  BY <1>1, <1>2, <1>4
<1>6. \A i \in 1..k : i \in 1..len
  BY <1>1, <1>4
<1> QED
  BY <1>2, <1>3, <1>5, <1>6 DEF k, len

\* strncmp takes a string and its beginning for equal.
LEMMA StrncmpPrefixes ==
    ASSUME NEW m \in Mem, NEW p \in Addr, NEW q \in Addr, HasEnd(m, p), HasEnd(m, q), NEW n \in Nat
    PROVE  strncmp(m, p, q, n) = 0 <=>
                IsPrefix(Until(n, m, p), Until(n, m, q)) \/ IsPrefix(Until(n, m, q), Until(n, m, p))
<1> DEFINE s == Until(n, m, p)
           t == Until(n, m, q)
           lp == strlen(m, p)
           lq == strlen(m, q)
<1>0. lp \in Nat /\ lq \in Nat /\ p \in Nat /\ q \in Nat
  BY HelpersAssumption, StrlenIs DEF Addr
<1>1. s \in Seq(Char) /\ Len(s) = (IF n < lp THEN n ELSE lp) /\ \A i \in 1..Len(s) : s[i] = m[p + i - 1]
  BY UntilIs
<1>2. t \in Seq(Char) /\ Len(t) = (IF n < lq THEN n ELSE lq) /\ \A i \in 1..Len(t) : t[i] = m[q + i - 1]
  BY UntilIs
<1>3. IsPrefix(s, t) <=> Len(s) <= Len(t) /\ \A i \in 1..Len(s) : s[i] = t[i]
  BY <1>1, <1>2, PrefixIs
<1>4. IsPrefix(t, s) <=> Len(t) <= Len(s) /\ \A i \in 1..Len(t) : t[i] = s[i]
  BY <1>1, <1>2, PrefixIs
<1>5. strncmp(m, p, q, n) \in {0, 1}
      /\ (strncmp(m, p, q, n) = 1 <=> \E i \in 0..n - 1 : i < lp /\ i < lq /\ m[p + i] # m[q + i])
  BY StrncmpIs
<1> HIDE DEF s, t, lp, lq
<1>6. ASSUME NEW i \in 0..n - 1, i < lp, i < lq, m[p + i] # m[q + i] PROVE ~IsPrefix(s, t) /\ ~IsPrefix(t, s)
  <2>0. i \in Nat /\ i < n
    OBVIOUS
  <2>1. i + 1 \in 1..Len(s) /\ i + 1 \in 1..Len(t) /\ p + (i + 1) - 1 = p + i /\ q + (i + 1) - 1 = q + i
    <3>1. Len(s) = (IF n < lp THEN n ELSE lp) /\ Len(t) = (IF n < lq THEN n ELSE lq)
      BY <1>1, <1>2
    <3>2. i < Len(s) /\ Len(s) \in Nat
      BY <1>0, <1>6, <2>0, <3>1
    <3>3. i < Len(t) /\ Len(t) \in Nat
      BY <1>0, <1>6, <2>0, <3>1
    <3> QED
      BY <1>0, <2>0, <3>2, <3>3
  <2>2. s[i + 1] # t[i + 1]
    BY <1>1, <1>2, <1>6, <2>1
  <2> QED
    BY <1>3, <1>4, <2>1, <2>2
<1>7. ASSUME ~IsPrefix(s, t), ~IsPrefix(t, s) PROVE \E i \in 0..n - 1 : i < lp /\ i < lq /\ m[p + i] # m[q + i]
  <2>1. Len(s) \in Nat /\ Len(t) \in Nat
    BY <1>0, <1>1, <1>2
  <2>2. PICK k \in Nat : k \in 1..Len(s) /\ k \in 1..Len(t) /\ s[k] # t[k]
    <3>1. CASE Len(s) <= Len(t)
      <4>1. PICK k \in 1..Len(s) : s[k] # t[k]
        BY <1>3, <1>7, <3>1
      <4> QED
        BY <2>1, <3>1, <4>1
    <3>2. CASE ~(Len(s) <= Len(t))
      <4>1. PICK k \in 1..Len(t) : s[k] # t[k]
        BY <1>4, <1>7, <2>1, <3>2
      <4> QED
        BY <2>1, <3>2, <4>1
    <3> QED
      BY <3>1, <3>2
  <2>3. k - 1 \in 0..n - 1 /\ k - 1 < lp /\ k - 1 < lq /\ p + k - 1 = p + (k - 1) /\ q + k - 1 = q + (k - 1)
    <3>1. Len(s) <= n /\ Len(s) <= lp /\ Len(t) <= lq
      BY <1>0, <1>1, <1>2
    <3>2. 1 <= k /\ k <= Len(s) /\ k <= Len(t)
      BY <2>2
    <3> QED
      BY <1>0, <2>1, <3>1, <3>2
  <2>4. m[p + (k - 1)] # m[q + (k - 1)]
    BY <1>1, <1>2, <2>2, <2>3
  <2> QED
    BY <2>3, <2>4
<1>8. strncmp(m, p, q, n) = 0 <=> IsPrefix(s, t) \/ IsPrefix(t, s)
  BY <1>5, <1>6, <1>7
<1> QED
  BY <1>8 DEF s, t

-----------------------------------------------------------------------------
(* A call returns. *)

\* The functions that work on memory.
OnMemory == {"memset", "memcpy", "strcpy", "strncpy", "strcmp", "strncmp", "split"}

\* What each of them may be called with.
LEMMA MemoryCallIs ==
    ASSUME Called, call.op \in OnMemory
    PROVE  /\ mem \in Mem /\ call.p \in Addr
           /\ call.op \notin {"memset"} => call.q \in Addr
           /\ call.op \in {"memset", "memcpy", "strncpy", "strncmp"} => call.n \in 0..Size
           /\ call.op \in {"memset", "memcpy"} => call.p + call.n <= Size
           /\ call.op \in {"strcpy", "strncpy", "strcmp", "strncmp", "split"} => HasEnd(mem, call.q)
           /\ call.op \in {"strcmp", "strncmp", "split"} => HasEnd(mem, call.p)
           /\ call.op = "split" => mem[call.q] # 0
<1>1. mem \in Mem /\ MemoryCall(call, mem)
  <2>1. call.op \notin {"printint", "printptr", "printf", "list_find"}
    BY DEF OnMemory
  <2> QED
    BY <2>1 DEF Called
<1>2. CASE call \in Calls("memset", Addr, {0}, 0..Size) /\ call.p + call.n <= Size
  BY <1>1, <1>2 DEF Calls
<1>3. CASE call \in Calls("memcpy", Addr, Addr, 0..Size) /\ call.p + call.n <= Size /\ call.q + call.n <= Size
  BY <1>1, <1>3 DEF Calls
<1>4. CASE call \in Calls("strcpy", Addr, Addr, {0}) \cup Calls("strncpy", Addr, Addr, 0..Size) /\ HasEnd(mem, call.q)
  BY <1>1, <1>4 DEF Calls
<1>5. CASE call \in Calls("strcmp", Addr, Addr, {0}) \cup Calls("strncmp", Addr, Addr, 0..Size)
           /\ HasEnd(mem, call.p) /\ HasEnd(mem, call.q)
  BY <1>1, <1>5 DEF Calls
<1>6. CASE call \in Calls("split", Addr, Addr, {0}) /\ HasEnd(mem, call.p) /\ HasEnd(mem, call.q) /\ mem[call.q] # 0
  BY <1>1, <1>6 DEF Calls
<1> QED
  BY <1>1, <1>2, <1>3, <1>4, <1>5, <1>6 DEF MemoryCall

\* What is copied and compared, whatever is called.
LEMMA StringsStep == Called /\ [Returns]_callVars => [Copied /\ Compared]_callVars
<1> SUFFICES ASSUME Called, Returns PROVE Copied /\ Compared
  OBVIOUS
<1> DEFINE op == call.op
<1>1. CASE op = "memset"
  <2>1. Memset
    BY <1>1 DEF Returns, Memcpy, Strcpy, Compare, Split, Format, ListFind
  <2>2. PICK c \in Char \cup {0} : mem' = memset(mem, call.p, c, call.n) /\ ret' = <<c>>
    BY <2>1 DEF Memset
  <2>3. mem \in Mem /\ call.p \in Addr /\ call.n \in Nat /\ call.p + call.n <= Size
    BY <1>1, MemoryCallIs DEF OnMemory
  <2>4. /\ \A a \in Addr \ (call.p..call.p + call.n - 1) : mem'[a] = mem[a]
        /\ \A j \in 0..call.n - 1 : mem'[call.p + j] = c
    BY <2>2, <2>3, MemsetIs
  <2> QED
    BY <1>1, <2>2, <2>4 DEF Copied, Compared, Same
<1>2. CASE op = "memcpy"
  <2>1. mem' = memcpy(mem, call.p, call.q, call.n)
    BY <1>2 DEF Returns, Memset, Memcpy, Strcpy, Compare, Split, Format, ListFind
  <2>2. mem \in Mem /\ call.p \in Addr /\ call.q \in Addr /\ call.n \in 0..Size /\ call.p + call.n <= Size
    BY <1>2, MemoryCallIs DEF OnMemory
  <2>3. /\ \A a \in Addr \ (call.p..call.p + call.n - 1) : mem'[a] = mem[a]
        /\ call.p <= call.q \/ call.p >= call.q + call.n =>
             \A j \in 0..call.n - 1 : {call.p + j, call.q + j} \subseteq Addr => mem'[call.p + j] = mem[call.q + j]
    BY <2>1, <2>2, CopiedSoFar DEF memcpy
  <2>4. call.q + call.n <= Size
    BY <1>2 DEF Called, MemoryCall, Calls
  <2>5. \A j \in 0..call.n - 1 : {call.p + j, call.q + j} \subseteq Addr
    BY <2>2, <2>4, HelpersAssumption DEF Addr
  <2> QED
    BY <1>2, <2>3, <2>5 DEF Copied, Compared, Same
<1>3. CASE op \in {"strcpy", "strncpy"}
  <2> DEFINE bound == IF op = "strcpy" THEN Size ELSE call.n
  <2>1. mem \in Mem /\ call.p \in Addr /\ call.q \in Addr /\ HasEnd(mem, call.q) /\ bound \in 0..Size
    BY <1>3, MemoryCallIs, HelpersAssumption DEF OnMemory
  <2>2. mem' = strncpy(mem, call.p, call.q, bound).m /\ ret' = <<strncpy(mem, call.p, call.q, bound).off>>
    BY <1>3 DEF Returns, Memset, Memcpy, Strcpy, Compare, Split, Format, ListFind, strcpy
  <2> HIDE DEF bound
  <2>3. StringCopied(bound)
    BY <2>1, <2>2, StringCopyIs
  <2> QED
    BY <1>3, <2>3 DEF Copied, Compared, bound
<1>4. CASE op = "strcmp"
  <2>1. ret' = <<strcmp(mem, call.p, call.q)>>
    BY <1>4 DEF Returns, Memset, Memcpy, Strcpy, Compare, Split, Format, ListFind
  <2>2. strcmp(mem, call.p, call.q) = 0 <=> StringAt(mem, call.p) = StringAt(mem, call.q)
    BY <1>4, MemoryCallIs, StrcmpIs DEF OnMemory
  <2> QED
    BY <1>4, <2>1, <2>2 DEF Copied, Compared
<1>5. CASE op = "strncmp"
  <2>1. ret' = <<strncmp(mem, call.p, call.q, call.n)>>
    BY <1>5 DEF Returns, Memset, Memcpy, Strcpy, Compare, Split, Format, ListFind
  <2>2. strncmp(mem, call.p, call.q, call.n) = 0 <=>
            IsPrefix(Until(call.n, mem, call.p), Until(call.n, mem, call.q))
            \/ IsPrefix(Until(call.n, mem, call.q), Until(call.n, mem, call.p))
    <3>1. mem \in Mem /\ call.p \in Addr /\ call.q \in Addr /\ call.n \in Nat /\ HasEnd(mem, call.p) /\ HasEnd(mem, call.q)
      BY <1>5, MemoryCallIs DEF OnMemory
    <3> QED
      BY <3>1, StrncmpPrefixes
  <2> QED
    BY <1>5, <2>1, <2>2 DEF Copied, Compared
<1>6. CASE op \notin {"memset", "memcpy", "strcpy", "strncpy", "strcmp", "strncmp"}
  BY <1>6 DEF Copied, Compared
<1> QED
  BY <1>1, <1>2, <1>3, <1>4, <1>5, <1>6

\* After a call has returned, there is no other.
LEMMA CalledOnce == (ret = <<>> => Called) /\ [Returns]_callVars => (ret = <<>> => Called)'
<1> SUFFICES ASSUME ret = <<>> => Called, [Returns]_callVars, ret' = <<>> PROVE Called'
  OBVIOUS
<1>1. CASE UNCHANGED callVars
  BY <1>1 DEF callVars, Called
<1>2. CASE Returns
  BY <1>2 DEF Returns, Memset, Memcpy, Strcpy, Compare, Split, Format, ListFind, Void
<1> QED
  BY <1>1, <1>2

\* Copies copy exactly and comparisons compare, for every memory and every pair of
\* pointers into it (string.c:3-65, memory.c:4-12, 55-65).
THEOREM StringsAreExact == OneCall => StringsExact
<1>1. (ret = <<>> => Called) /\ [Returns]_callVars => [Copied /\ Compared]_callVars
  <2> SUFFICES ASSUME ret = <<>> => Called, Returns PROVE [Copied /\ Compared]_callVars
    OBVIOUS
  <2>1. Called
    BY DEF Returns
  <2> QED
    BY <2>1, StringsStep
<1>2. Called => (ret = <<>> => Called)
  OBVIOUS
<1> QED
  BY <1>1, <1>2, CalledOnce, PTL DEF OneCall, StringsExact

-----------------------------------------------------------------------------
(* The walk over the firmware's list. *)

Lists == [Headers -> Header]
Anywhere == Headers \cup {NULL}

\* Of the signatures only that of a memory map starts as one does.
LEMMA SignatureTold ==
    ASSUME NEW sig \in Signature \cup {"other"}
    PROVE  memcmp(Text(sig), Text("MEM"), 3) = 1 <=> sig = "MEM"
<1>1. CASE sig = "MEM"
  BY <1>1 DEF memcmp
<1>2. CASE sig # "MEM"
  <2>1. Text(sig) \in {<<"V", "B", "I", "O", "S">>, <<"S", "I", "N", "F", "O">>, <<"x", "x", "x", "x", "x">>}
    BY <1>2 DEF Text, Signature
  <2>2. Text("MEM") = <<"M", "E", "M", "0", "0">>
    BY DEF Text
  <2>3. Text(sig)[1] # Text("MEM")[1]
    BY <2>1, <2>2
  <2>4. 1 \in 1..3
    OBVIOUS
  <2> QED
    BY <1>2, <2>3, <2>4 DEF memcmp
<1> QED
  BY <1>1, <1>2

\* One turn of the walk, and of a walk that only follows the list.
WalkOne(list, s) ==
    LET parsed == parse_mem(list, s.fhead)
    IN  IF s.fhead = NULL \/ s.failed THEN s
        ELSE IF memcmp(Text(list[s.fhead].signature), Text("MEM"), 3) = 1
        THEN [fhead |-> list[s.fhead].next, map |-> s.map, failed |-> FALSE]
        ELSE [fhead |-> IF parsed.failed THEN s.fhead ELSE list[s.fhead].next,
              map |-> parsed.map, failed |-> parsed.failed]
Follow(list, h) == IF h = NULL THEN NULL ELSE list[h].next

WalkTurn(list, head, map, n, f) ==
    f = [k \in 0..n |-> IF k = 0 THEN [fhead |-> head, map |-> map, failed |-> FALSE] ELSE WalkOne(list, f[k - 1])]
FollowTurn(list, head, n, f) == f = [k \in 0..n |-> IF k = 0 THEN head ELSE Follow(list, f[k - 1])]

Walker == [fhead : Anywhere, map : Anywhere, failed : BOOLEAN]

\* There are finitely many headers.
LEMMA HeadersCounted == Cardinality(Headers) \in Nat
BY HelpersAssumption, FS_CardinalityType

\* A turn of the walk goes on to a header, or to the end.
LEMMA WalkOneIs ==
    ASSUME NEW list \in Lists, NEW s \in Walker
    PROVE  /\ s.fhead = NULL \/ s.failed => WalkOne(list, s) = s
           /\ s.fhead # NULL /\ ~s.failed /\ list[s.fhead].signature = "MEM" =>
                WalkOne(list, s) = [fhead |-> list[s.fhead].next, map |-> s.map, failed |-> FALSE]
           /\ s.fhead # NULL /\ ~s.failed /\ list[s.fhead].signature # "MEM" =>
                LET wrong == ext_listhdr_checksum(list[s.fhead]) # 0
                IN  WalkOne(list, s) = [fhead |-> IF wrong THEN s.fhead ELSE list[s.fhead].next,
                                        map |-> s.fhead, failed |-> wrong]
           /\ WalkOne(list, s) \in Walker
<1> DEFINE h == list[s.fhead]
           wrong == ext_listhdr_checksum(h) # 0
<1>1. CASE s.fhead = NULL \/ s.failed
  BY <1>1 DEF WalkOne
<1>2. CASE s.fhead # NULL /\ ~s.failed
  <2>1. s.fhead \in Headers /\ h \in Header
    BY <1>2 DEF Walker, Anywhere, Lists
  <2>2. h.next \in Anywhere /\ (memcmp(Text(h.signature), Text("MEM"), 3) = 1 <=> h.signature = "MEM")
    BY <2>1, SignatureTold DEF Header, Anywhere
  <2>3. CASE h.signature = "MEM"
    <3>1. WalkOne(list, s) = [fhead |-> h.next, map |-> s.map, failed |-> FALSE]
      BY <1>2, <2>2, <2>3 DEF WalkOne
    <3>2. [fhead |-> h.next, map |-> s.map, failed |-> FALSE] \in Walker
      BY <2>2 DEF Walker
    <3> QED
      BY <1>2, <2>3, <3>1, <3>2
  <2>4. CASE h.signature # "MEM"
    <3>1. WalkOne(list, s) = [fhead |-> IF wrong THEN s.fhead ELSE h.next, map |-> s.fhead, failed |-> wrong]
      BY <1>2, <2>2, <2>4 DEF WalkOne, parse_mem
    <3>2. [fhead |-> IF wrong THEN s.fhead ELSE h.next, map |-> s.fhead, failed |-> wrong] \in Walker
      BY <2>1, <2>2 DEF Walker, Anywhere
    <3> QED
      BY <1>2, <2>4, <3>1, <3>2
  <2> QED
    BY <2>3, <2>4
<1> QED
  BY <1>1, <1>2 DEF Walker

\* The walk is what its turns make of its start.
LEMMA WalkingIs ==
    ASSUME NEW list \in Lists, NEW head \in Anywhere, NEW map \in Anywhere
    PROVE  LET f == Walking(list, head, map)
               n == Cardinality(Headers)
           IN  /\ \A k \in 0..n : f[k] \in Walker
               /\ f[0] = [fhead |-> head, map |-> map, failed |-> FALSE]
               /\ \A k \in 1..n : f[k] = WalkOne(list, f[k - 1])
<1> DEFINE n == Cardinality(Headers)
           start == [fhead |-> head, map |-> map, failed |-> FALSE]
           step == [z \in (1..n) \X Walker |-> WalkOne(list, z[2])]
<1>1. n \in Nat
  BY HeadersCounted
<1>2. start \in Walker
  BY DEF Walker
<1>3. step \in [(1..n) \X Walker -> Walker] /\ \A i \in 1..n, s \in Walker : step[<<i, s>>] = WalkOne(list, s)
  BY WalkOneIs
<1> DEFINE g == CHOOSE g : WalkTurn(list, head, map, n, g)
<1>4. Walking(list, head, map) = g
  BY DEF Walking, WalkTurn, WalkOne
<1>5. \A f : WalkTurn(list, head, map, n, f) <=> f = [k \in 0..n |-> IF k = 0 THEN start ELSE WalkOne(list, f[k - 1])]
  BY DEF WalkTurn
<1> HIDE DEF n, start, step
<1>6. PICK f \in [0..n -> Walker] : Turns(n, start, step, f)
  BY <1>1, <1>2, <1>3, Loop
<1>7. \A k \in 0..n : f[k] = IF k = 0 THEN start ELSE WalkOne(list, f[k - 1])
  <2> TAKE k \in 0..n
  <2>1. k # 0 => k \in 1..n /\ k - 1 \in 0..n
    BY <1>1
  <2> QED
    BY <1>3, <1>6, <2>1 DEF Turns
<1>8. WalkTurn(list, head, map, n, f)
  BY <1>5, <1>7
<1>9. WalkTurn(list, head, map, n, g)
  BY <1>8
<1> HIDE DEF g
<1>10. g = [k \in 0..n |-> IF k = 0 THEN start ELSE WalkOne(list, g[k - 1])]
  BY <1>5, <1>9
<1>11. 0..n \subseteq {k \in 0..n : g[k] \in Walker}
  <2> DEFINE S == {k \in 0..n : g[k] \in Walker}
  <2>1. 0 \in S
    BY <1>1, <1>2, <1>10
  <2>2. ASSUME NEW k \in 0..n - 1, k \in S PROVE k + 1 \in S
    <3>1. k + 1 \in 0..n /\ k + 1 # 0 /\ (k + 1) - 1 = k /\ g[k] \in Walker
      BY <1>1, <2>2
    <3>2. g[k + 1] = WalkOne(list, g[k])
      BY <1>10, <3>1
    <3> QED
      BY <3>1, <3>2, WalkOneIs
  <2> HIDE DEF S
  <2>3. 0..n \subseteq S
    BY <1>1, <2>1, <2>2, Upwards
  <2> QED
    BY <2>3 DEF S
<1>12. g[0] = start /\ \A k \in 1..n : g[k] = WalkOne(list, g[k - 1])
  BY <1>1, <1>10
<1> QED
  BY <1>4, <1>11, <1>12 DEF n, start

\* There is what following the list comes to.
LEMMA FollowDefined ==
    ASSUME NEW list \in Lists, NEW head \in Anywhere, NEW n \in Nat
    PROVE  \E f \in [0..n -> Anywhere] : FollowTurn(list, head, n, f)
<1> DEFINE step == [z \in (1..n) \X Anywhere |-> Follow(list, z[2])]
<1>1. \A h \in Anywhere : Follow(list, h) \in Anywhere
  BY DEF Follow, Anywhere, Lists, Header
<1>2. step \in [(1..n) \X Anywhere -> Anywhere] /\ \A i \in 1..n, h \in Anywhere : step[<<i, h>>] = Follow(list, h)
  BY <1>1
<1> HIDE DEF step
<1>3. PICK f \in [0..n -> Anywhere] : Turns(n, head, step, f)
  BY <1>2, Loop
<1>4. \A k \in 0..n : f[k] = IF k = 0 THEN head ELSE Follow(list, f[k - 1])
  <2> TAKE k \in 0..n
  <2>1. k # 0 => k \in 1..n /\ k - 1 \in 0..n
    OBVIOUS
  <2> QED
    BY <1>2, <1>3, <2>1 DEF Turns
<1>5. FollowTurn(list, head, n, f)
  BY <1>4 DEF FollowTurn
<1> QED
  BY <1>5

\* The walk follows the list until it fails; it has failed when the sum of what
\* it remembered last is wrong, and what it remembers is on the list.
LEMMA WalkedSoFar ==
    ASSUME NEW list \in Lists, NEW head \in Anywhere, NEW at,
           FollowTurn(list, head, Cardinality(Headers), at), NEW n \in 0..Cardinality(Headers)
    PROVE  LET s == Walking(list, head, NULL)[n]
           IN  /\ s \in Walker
               /\ s.map # NULL => \E i \in 0..Cardinality(Headers) : at[i] = s.map
               /\ s.failed <=> s.map # NULL /\ ext_listhdr_checksum(list[s.map]) # 0
               /\ ~s.failed => s.fhead = at[n]
<1> DEFINE N == Cardinality(Headers)
           f == Walking(list, head, NULL)
           OK(k) == LET s == f[k]
                    IN  /\ s.map # NULL => \E i \in 0..N : at[i] = s.map
                        /\ s.failed <=> s.map # NULL /\ ext_listhdr_checksum(list[s.map]) # 0
                        /\ ~s.failed => s.fhead = at[k]
           S == {k \in 0..N : OK(k)}
<1>1. N \in Nat
  BY HeadersCounted
<1>0. NULL \in Anywhere
  BY DEF Anywhere
<1>2. \A k \in 0..N : f[k] \in Walker
  BY <1>0, WalkingIs
<1>3. f[0] = [fhead |-> head, map |-> NULL, failed |-> FALSE]
  BY <1>0, WalkingIs
<1>4. \A k \in 1..N : f[k] = WalkOne(list, f[k - 1])
  BY <1>0, WalkingIs
<1> HIDE DEF N, f
<1>5. at = [k \in 0..N |-> IF k = 0 THEN head ELSE Follow(list, at[k - 1])]
  BY DEF FollowTurn, N
<1>6. 0 \in S
  BY <1>1, <1>3, <1>5
<1>7. ASSUME NEW k \in 0..N - 1, k \in S PROVE k + 1 \in S
  <2>1. k \in 0..N /\ k + 1 \in 0..N /\ k + 1 \in 1..N /\ k + 1 # 0 /\ (k + 1) - 1 = k /\ OK(k)
    BY <1>1, <1>7
  <2> DEFINE s == f[k]
  <2>2. s \in Walker /\ f[k + 1] = WalkOne(list, s) /\ at[k + 1] = Follow(list, at[k])
    BY <1>2, <1>4, <1>5, <2>1
  <2>3. CASE s.failed
    <3>1. f[k + 1] = s
      BY <2>2, <2>3, WalkOneIs
    <3> QED
      BY <2>1, <2>3, <3>1
  <2>4. CASE ~s.failed /\ s.fhead = NULL
    <3>1. f[k + 1] = s /\ at[k] = NULL
      BY <2>1, <2>2, <2>4, WalkOneIs
    <3> QED
      BY <2>1, <2>2, <2>4, <3>1 DEF Follow
  <2>5. CASE ~s.failed /\ s.fhead # NULL /\ list[s.fhead].signature = "MEM"
    <3>1. f[k + 1] = [fhead |-> list[s.fhead].next, map |-> s.map, failed |-> FALSE]
      BY <2>2, <2>5, WalkOneIs
    <3>2. at[k + 1] = list[s.fhead].next
      BY <2>1, <2>2, <2>5 DEF Follow
    <3> QED
      BY <2>1, <2>5, <3>1, <3>2
  <2>6. CASE ~s.failed /\ s.fhead # NULL /\ list[s.fhead].signature # "MEM"
    <3> DEFINE wrong == ext_listhdr_checksum(list[s.fhead]) # 0
    <3>1. f[k + 1] = [fhead |-> IF wrong THEN s.fhead ELSE list[s.fhead].next, map |-> s.fhead, failed |-> wrong]
      BY <2>2, <2>6, WalkOneIs
    <3>2. at[k + 1] = list[s.fhead].next
      BY <2>1, <2>2, <2>6 DEF Follow
    <3>3. s.fhead = at[k] /\ k \in 0..N
      BY <2>1, <2>6
    <3> HIDE DEF s
    <3>4. f[k + 1].map = s.fhead /\ f[k + 1].failed = wrong /\ (~wrong => f[k + 1].fhead = list[s.fhead].next)
      BY <3>1
    <3> QED
      BY <2>1, <2>6, <3>2, <3>3, <3>4
  <2> QED
    BY <2>3, <2>4, <2>5, <2>6
<1>8. n \in S
  <2> HIDE DEF S
  <2>1. 0..N \subseteq S
    BY <1>1, <1>6, <1>7, Upwards
  <2> QED
    BY <2>1 DEF N
<1> QED
  BY <1>2, <1>8 DEF f, N

ValueTurn(ds, base, f) == f = [i \in 0..Len(ds) |-> IF i = 0 THEN 0 ELSE f[i - 1] * base + ds[i]]

\* Digits are read from the first on.
LEMMA ValueIs ==
    ASSUME NEW ds \in Seq(Nat), NEW base \in Nat
    PROVE  \E f \in [0..Len(ds) -> Nat] : /\ f[0] = 0 /\ \A i \in 1..Len(ds) : f[i] = f[i - 1] * base + ds[i]
                                          /\ Value(ds, base) = f[Len(ds)]
<1> DEFINE n == Len(ds)
           next(i, v) == v * base + ds[i]
           step == [z \in (1..n) \X Nat |-> next(z[1], z[2])]
<1>1. n \in Nat
  OBVIOUS
<1>2. \A i \in 1..n, v \in Nat : next(i, v) \in Nat
  <2> TAKE i \in 1..n, v \in Nat
  <2>1. ds[i] \in Nat /\ v * base \in Nat
    OBVIOUS
  <2> QED
    BY <2>1
<1>3. \A f : ValueTurn(ds, base, f) <=> f = [i \in 0..n |-> IF i = 0 THEN 0 ELSE next(i, f[i - 1])]
  BY DEF ValueTurn
<1> DEFINE g == CHOOSE g : ValueTurn(ds, base, g)
<1>4. Value(ds, base) = g[n]
  BY DEF Value, ValueTurn
<1> HIDE DEF n, next, g
<1>5. step \in [(1..n) \X Nat -> Nat] /\ \A i \in 1..n, v \in Nat : step[<<i, v>>] = next(i, v)
  BY <1>2
<1> HIDE DEF step
<1>6. PICK f \in [0..n -> Nat] : Turns(n, 0, step, f)
  BY <1>1, <1>5, Loop
<1>7. \A i \in 0..n : f[i] = IF i = 0 THEN 0 ELSE next(i, f[i - 1])
  <2> TAKE i \in 0..n
  <2>1. i # 0 => i \in 1..n /\ i - 1 \in 0..n
    BY <1>1
  <2> QED
    BY <1>5, <1>6, <2>1 DEF Turns
<1>8. ValueTurn(ds, base, f)
  BY <1>3, <1>7
<1>9. ValueTurn(ds, base, g)
  BY <1>8 DEF g
<1>10. g = [i \in 0..n |-> IF i = 0 THEN 0 ELSE next(i, g[i - 1])]
  BY <1>3, <1>9
<1>11. g[0] = 0 /\ \A i \in 1..n : g[i] = next(i, g[i - 1])
  BY <1>1, <1>10
<1> DEFINE S == {i \in 0..n : g[i] \in Nat}
<1>12. 0 \in S
  BY <1>1, <1>11
<1>13. ASSUME NEW i \in 0..n - 1, i \in S PROVE i + 1 \in S
  <2>1. i + 1 \in 0..n /\ i + 1 \in 1..n /\ (i + 1) - 1 = i /\ g[i] \in Nat
    BY <1>1, <1>13
  <2>2. g[i + 1] = next(i + 1, g[i])
    BY <1>11, <2>1
  <2> QED
    BY <1>2, <2>1, <2>2
<1>14. 0..n \subseteq S
  <2> HIDE DEF S
  <2> QED
    BY <1>1, <1>12, <1>13, Upwards
<1>15. g \in [0..n -> Nat]
  BY <1>10, <1>14
<1> QED
  BY <1>4, <1>11, <1>15 DEF n, next

SumTurn(bs, f) == f = [i \in 0..Len(bs) |-> IF i = 0 THEN 0 ELSE (f[i - 1] + bs[i]) % 256]

\* The sum in eight bits is the sum but for multiples of 256.
LEMMA ChecksumIs ==
    ASSUME NEW h \in Header
    PROVE  ext_listhdr_checksum(h) = Total(h.bytes) % 256
<1> DEFINE bs == h.bytes
           n == Len(bs)
           g == CHOOSE g : SumTurn(bs, g)
<1>1. bs \in Seq(Nat) /\ n \in Nat
  <2>1. PICK k \in Nat : bs \in [1..k -> Byte]
    BY HelpersAssumption DEF Header, Bytes
  <2>2. Byte \subseteq Nat
    BY HelpersAssumption
  <2> HIDE DEF bs
  <2>3. bs \in [1..k -> Nat]
    BY <2>1, <2>2
  <2> QED
    BY <2>3
<1>2. ext_listhdr_checksum(h) = g[n]
  BY DEF ext_listhdr_checksum, SumTurn
<1> HIDE DEF bs
<1>3. PICK f \in [0..n -> Nat] : f[0] = 0 /\ (\A i \in 1..n : f[i] = f[i - 1] * 1 + bs[i]) /\ Value(bs, 1) = f[n]
  BY <1>1, ValueIs
<1>4. \A i \in 1..n : f[i] = f[i - 1] + bs[i] /\ f[i - 1] \in Nat /\ bs[i] \in Nat
  <2> TAKE i \in 1..n
  <2>1. i - 1 \in 0..n /\ bs[i] \in Nat
    BY <1>1
  <2> QED
    BY <1>3, <2>1
<1>5. \A x, y \in Nat : ((x % 256) + y) % 256 = (x + y) % 256
  OBVIOUS
<1> HIDE DEF n, g
<1>6. SumTurn(bs, [i \in 0..n |-> f[i] % 256])
  <2> DEFINE w == [i \in 0..n |-> f[i] % 256]
  <2>1. ASSUME NEW i \in 0..n PROVE w[i] = IF i = 0 THEN 0 ELSE (w[i - 1] + bs[i]) % 256
    <3>1. CASE i = 0
      BY <1>3, <3>1
    <3>2. CASE i # 0
      <4>1. i \in 1..n /\ i - 1 \in 0..n
        BY <1>1, <3>2
      <4>2. w[i] = (f[i - 1] + bs[i]) % 256 /\ w[i - 1] = f[i - 1] % 256
        BY <1>4, <4>1
      <4> HIDE DEF w
      <4>3. ((f[i - 1] % 256) + bs[i]) % 256 = (f[i - 1] + bs[i]) % 256
        BY <1>4, <1>5, <4>1
      <4> QED
        BY <3>2, <4>2, <4>3
    <3> QED
      BY <3>1, <3>2
  <2>2. w = [i \in 0..n |-> IF i = 0 THEN 0 ELSE (w[i - 1] + bs[i]) % 256]
    BY <2>1
  <2> QED
    BY <2>2 DEF SumTurn, n
<1>7. SumTurn(bs, g)
  BY <1>6 DEF g
<1>8. \A i \in 0..n : g[i] = IF i = 0 THEN 0 ELSE (g[i - 1] + bs[i]) % 256
  BY <1>7 DEF SumTurn, n
<1> DEFINE S == {i \in 0..n : g[i] = f[i] % 256}
<1>9. 0 \in S
  BY <1>1, <1>3, <1>8
<1>10. ASSUME NEW i \in 0..n - 1, i \in S PROVE i + 1 \in S
  <2>1. i + 1 \in 0..n /\ i + 1 \in 1..n /\ i + 1 # 0 /\ (i + 1) - 1 = i /\ g[i] = f[i] % 256
    BY <1>1, <1>10
  <2>2. g[i + 1] = ((f[i] % 256) + bs[i + 1]) % 256
    BY <1>8, <2>1
  <2>3. f[i + 1] = f[i] + bs[i + 1] /\ f[i] \in Nat /\ bs[i + 1] \in Nat
    BY <1>4, <2>1
  <2> QED
    BY <1>5, <2>1, <2>2, <2>3
<1>11. n \in S
  <2> HIDE DEF S
  <2>1. 0..n \subseteq S
    BY <1>1, <1>9, <1>10, Upwards
  <2> QED
    BY <1>1, <2>1
<1> QED
  BY <1>2, <1>3, <1>11 DEF Total, bs

\* What the walk leaves behind.
LEMMA ScanStep == Called /\ Returns => ScanAnswers'
<1> SUFFICES ASSUME Called, Returns, call'.op = "list_find", ret' # <<>> PROVE ScanAnswers'
  BY DEF ScanAnswers
<1> DEFINE list == call.list
           head == call.fhead
           n == Cardinality(Headers)
           s == Walking(list, head, NULL)[n]
           map == loongson_mem_map'
           sum(h) == Total(list[h].bytes) % 256
           at == CHOOSE f : FollowTurn(list, head, n, f)
<1>1. loongson_mem_map = NULL /\ call.op = "list_find" /\ call' = call
  BY DEF Called, Returns, ListFind
<1>2. list \in Lists /\ head \in Anywhere
  BY <1>1 DEF Called, MemoryCall, Calls, Lists, Anywhere
<1>3. map = s.map /\ ret' = <<IF head = NULL \/ s.failed THEN -1 ELSE 0, s.fhead = NULL \/ s.failed>>
  BY <1>1 DEF Returns, Memset, Memcpy, Strcpy, Compare, Split, Format, ListFind, list_find
<1>4. n \in Nat /\ n \in 0..n
  BY HeadersCounted
<1>5. FollowTurn(list, head, n, at)
  <2> HIDE DEF list, head, n
  <2>1. \E f : FollowTurn(list, head, n, f)
    BY <1>2, <1>4, FollowDefined
  <2> QED
    BY <2>1
<1> HIDE DEF at
<1>6. /\ s \in Walker
      /\ s.map # NULL => \E i \in 0..n : at[i] = s.map
      /\ s.failed <=> s.map # NULL /\ ext_listhdr_checksum(list[s.map]) # 0
      /\ ~s.failed => s.fhead = at[n]
  <2> HIDE DEF list, head
  <2> QED
    BY <1>2, <1>4, <1>5, WalkedSoFar
<1>7. s.map # NULL => ext_listhdr_checksum(list[s.map]) = sum(s.map)
  <2>1. s.map # NULL => s.map \in Headers
    BY <1>6 DEF Walker, Anywhere
  <2>2. s.map # NULL => list[s.map] \in Header
    BY <1>2, <2>1 DEF Lists
  <2> QED
    BY <2>2, ChecksumIs
<1> HIDE DEF s, sum
<1>8. map \in Range(at) \cup {NULL}
  <2>1. DOMAIN at = 0..n
    BY <1>5 DEF FollowTurn
  <2> QED
    BY <1>3, <1>6, <2>1 DEF Range
<1>9. ret'[1] = -1 <=> (map # NULL /\ sum(map) # 0) \/ head = NULL
  BY <1>3, <1>6, <1>7
<1>10. ret'[2] <=> (map # NULL /\ sum(map) # 0) \/ at[n] = NULL
  BY <1>3, <1>6, <1>7
<1> QED
  BY <1>1, <1>8, <1>9, <1>10 DEF ScanAnswers, at, FollowTurn, Follow, sum

\* For every list, cyclic ones included, and whatever the headers consist of, the
\* scan answers what the bytes of the header it remembered last add up to
\* (boot_param.c:43-82, 113-156).
THEOREM ScanIsRight == OneCall => []ScanAnswers
<1>1. Called => (ret = <<>> => Called) /\ ScanAnswers
  BY DEF Called, ScanAnswers
<1>2. (ret = <<>> => Called) /\ ScanAnswers /\ [Returns]_callVars => ScanAnswers'
  <2> SUFFICES ASSUME ret = <<>> => Called, ScanAnswers, [Returns]_callVars PROVE ScanAnswers'
    OBVIOUS
  <2>1. CASE UNCHANGED callVars
    BY <2>1 DEF callVars, ScanAnswers
  <2>2. CASE Returns
    <3>1. Called
      BY <2>2 DEF Returns
    <3> QED
      BY <2>2, <3>1, ScanStep
  <2> QED
    BY <2>1, <2>2
<1> QED
  BY <1>1, <1>2, CalledOnce, PTL DEF OneCall

\* A list that has not ended after as many turns as there are headers never
\* does: the loop of list_find has no other end (boot_param.c:122-146).
THEOREM EndlessList ==
    ASSUME NEW list \in Lists, NEW head \in Anywhere, NEW n \in Nat, NEW at \in [0..n -> Anywhere],
           FollowTurn(list, head, n, at), Cardinality(Headers) <= n, at[Cardinality(Headers)] # NULL
    PROVE  at[n] # NULL
<1> DEFINE N == Cardinality(Headers)
           Ends == {k \in 0..n : at[k] = NULL}
<1>1. N \in Nat
  BY HeadersCounted
<1>2. \A k \in 0..n : k # 0 => at[k] = Follow(list, at[k - 1])
  BY DEF FollowTurn
<1> HIDE DEF N
<1>3. SUFFICES ASSUME Ends # {} PROVE FALSE
  <2>1. n \in 0..n
    OBVIOUS
  <2> QED
    BY <1>3, <2>1
<1>4. PICK K \in Ends : \A k \in Ends : K <= k
  <2>1. Ends \subseteq Nat
    OBVIOUS
  <2> QED
    BY <1>3, <2>1, Least
<1>5. K \in 0..n /\ at[K] = NULL /\ \A k \in 0..n : k < K => at[k] # NULL
  <2>1. K \in 0..n /\ at[K] = NULL
    BY <1>4
  <2>2. ASSUME NEW k \in 0..n, k < K PROVE at[k] # NULL
    <3>1. ~(K <= k)
      BY <2>1, <2>2
    <3> QED
      BY <1>4, <3>1
  <2> QED
    BY <2>1, <2>2
<1>6. N < K
  <2> DEFINE S == {k \in 0..N : K <= k => at[k] = NULL}
  <2>1. SUFFICES ASSUME K <= N PROVE FALSE
    BY <1>1, <1>5
  <2>2. 0 \in S
    <3>1. K <= 0 => K = 0
      BY <1>5
    <3> QED
      BY <1>1, <1>5, <3>1
  <2>3. ASSUME NEW k \in 0..N - 1, k \in S PROVE k + 1 \in S
    <3>1. k + 1 \in 0..N /\ k + 1 \in 0..n /\ k + 1 # 0 /\ (k + 1) - 1 = k
      BY <1>1 DEF N
    <3>2. at[k + 1] = Follow(list, at[k])
      BY <1>2, <3>1
    <3>3. K <= k + 1 => K = k + 1 \/ K <= k
      BY <1>5
    <3> QED
      BY <1>5, <2>3, <3>1, <3>2, <3>3 DEF Follow
  <2> HIDE DEF S
  <2>4. 0..N \subseteq S
    BY <1>1, <2>2, <2>3, Upwards
  <2>5. N \in S
    BY <1>1, <2>4
  <2> QED
    BY <2>1, <2>5 DEF S, N
<1>7. PICK i \in 0..N, j \in 0..N : i < j /\ at[i] = at[j]
  <2> DEFINE f == [k \in 0..N |-> at[k]]
  <2>1. f \in [0..N -> Headers]
    <3>1. \A k \in 0..N : k \in 0..n /\ k < K
      BY <1>1, <1>5, <1>6
    <3>2. \A k \in 0..N : at[k] \in Headers
      BY <1>5, <3>1 DEF Anywhere
    <3> QED
      BY <3>2
  <2>2. IsFiniteSet(0..N) /\ Cardinality(0..N) = N + 1
    <3>1. 0 \in Int /\ N \in Int /\ ~(0 > N) /\ N - 0 + 1 = N + 1
      BY <1>1
    <3>2. IsFiniteSet(0..N) /\ Cardinality(0..N) = IF 0 > N THEN 0 ELSE N - 0 + 1
      BY <3>1, FS_Interval, Zenon
    <3> QED
      BY <3>1, <3>2
  <2>3. Cardinality(Headers) < Cardinality(0..N)
    BY <1>1, <2>2 DEF N
  <2> HIDE DEF f
  <2>4. \E x, y \in 0..N : x # y /\ f[x] = f[y]
    <3>1. IsFiniteSet(Headers)
      BY HelpersAssumption
    <3> QED
      BY <2>1, <2>2, <2>3, <3>1, FS_PigeonHole, ZenonT(60)
  <2>5. PICK x \in 0..N, y \in 0..N : x # y /\ at[x] = at[y]
    BY <2>4 DEF f
  <2>6. CASE x < y
    BY <2>5, <2>6
  <2>7. CASE y < x
    BY <2>5, <2>7
  <2> QED
    BY <2>5, <2>6, <2>7
<1>8. i \in Nat /\ j \in Nat /\ j <= N /\ i < j
  BY <1>1, <1>7
<1> DEFINE T == {d \in 0..K - j : at[i + d] = at[j + d]}
<1>9. 0 \in T
  BY <1>1, <1>5, <1>6, <1>7, <1>8
<1>10. ASSUME NEW d \in 0..(K - j) - 1, d \in T PROVE d + 1 \in T
  <2>1. /\ d + 1 \in 0..K - j
        /\ i + (d + 1) \in 0..n /\ i + (d + 1) # 0 /\ (i + (d + 1)) - 1 = i + d
        /\ j + (d + 1) \in 0..n /\ j + (d + 1) # 0 /\ (j + (d + 1)) - 1 = j + d
    BY <1>1, <1>5, <1>6, <1>8
  <2>2. at[i + (d + 1)] = Follow(list, at[i + d]) /\ at[j + (d + 1)] = Follow(list, at[j + d])
    BY <1>2, <2>1
  <2> QED
    BY <1>10, <2>1, <2>2
<1>11. K - j \in T
  <2> HIDE DEF T
  <2>1. K - j \in Nat
    BY <1>1, <1>5, <1>6, <1>8
  <2>2. 0..K - j \subseteq T
    BY <1>9, <1>10, <2>1, Upwards
  <2> QED
    BY <2>1, <2>2
<1>12. at[i + (K - j)] = at[j + (K - j)] /\ j + (K - j) = K
  BY <1>5, <1>8, <1>11
<1>13. i + (K - j) \in 0..n /\ i + (K - j) < K
  BY <1>1, <1>5, <1>6, <1>8
<1> QED
  BY <1>5, <1>12, <1>13

-----------------------------------------------------------------------------
(* Numbers. *)

\* What the integer division by a base is.
LEMMA DivideIs ==
    ASSUME NEW x \in Nat, NEW w \in Nat, w # 0
    PROVE  x \div w \in Nat /\ x % w \in 0..w - 1 /\ w * (x \div w) + (x % w) = x
<1>1. x % w = x - w * (x \div w)
  OBVIOUS
<1>2. x % w \in 0..w - 1
  OBVIOUS
<1>3. x \div w \in Int
  OBVIOUS
<1>4. ~(x \div w <= -1)
  <2> DEFINE d == x \div w
  <2>1. d \in Int /\ w * d <= x /\ w * d > x - w
    BY <1>1, <1>2, <1>3
  <2> HIDE DEF d
  <2>2. ASSUME d <= -1 PROVE w * d <= -w
    BY <2>1, <2>2
  <2> QED
    BY <2>1, <2>2 DEF d
<1>5. w * (x \div w) \in Int
  BY <1>3
<1>6. w * (x \div w) + (x % w) = x
  <2> DEFINE p == w * (x \div w)
             r == x % w
  <2>1. p \in Int /\ r = x - p
    BY <1>1, <1>5
  <2> HIDE DEF p, r
  <2>2. p + r = x
    BY <2>1
  <2> QED
    BY <2>2 DEF p, r
<1> QED
  BY <1>2, <1>3, <1>4, <1>6
LEMMA QuotientIs ==
    ASSUME NEW y \in Nat, y # 0, NEW b \in {10, 16}
    PROVE  y \div b \in Nat /\ y \div b < y /\ y % b \in 0..b - 1 /\ b * (y \div b) + (y % b) = y
<1>1. b \in Nat /\ b # 0 /\ b > 1
  OBVIOUS
<1> DEFINE d == y \div b
<1>2. d \in Nat /\ y % b \in 0..b - 1 /\ b * d + (y % b) = y
  BY <1>1, DivideIs
<1> HIDE DEF d
<1>3. d < y
  <2> DEFINE r == y % b
  <2>1. r \in Nat
    BY <1>1, <1>2
  <2> HIDE DEF r
  <2>2. b * d + r = y
    BY <1>2 DEF r
  <2>3. CASE b = 10
    BY <1>2, <2>1, <2>2, <2>3
  <2>4. CASE b = 16
    BY <1>2, <2>1, <2>2, <2>4
  <2> QED
    BY <2>3, <2>4
<1> QED BY <1>2, <1>3 DEF d

\* One digit more: the value is multiplied by the base.
LEMMA ValueAppend ==
    ASSUME NEW ds \in Seq(Nat), NEW base \in Nat, NEW c \in Nat
    PROVE  Value(ds, base) \in Nat /\ Value(Append(ds, c), base) = Value(ds, base) * base + c
<1> DEFINE es == Append(ds, c)
           n == Len(ds)
<1>1. n \in Nat /\ es \in Seq(Nat) /\ Len(es) = n + 1 /\ es[n + 1] = c /\ \A i \in 1..n : es[i] = ds[i]
  OBVIOUS
<1>2. PICK f \in [0..n -> Nat] : /\ f[0] = 0 /\ \A i \in 1..n : f[i] = f[i - 1] * base + ds[i]
                                 /\ Value(ds, base) = f[n]
  BY ValueIs
<1> HIDE DEF n, es
<1>3. PICK g \in [0..Len(es) -> Nat] : /\ g[0] = 0 /\ \A i \in 1..Len(es) : g[i] = g[i - 1] * base + es[i]
                                       /\ Value(es, base) = g[Len(es)]
  BY <1>1, ValueIs
<1> DEFINE S == {i \in 0..n : f[i] = g[i]}
<1>4. 0 \in S
  BY <1>1, <1>2, <1>3
<1>5. ASSUME NEW i \in 0..n - 1, i \in S PROVE i + 1 \in S
  <2>1. i + 1 \in 0..n /\ i + 1 \in 1..n /\ i + 1 \in 1..Len(es) /\ (i + 1) - 1 = i /\ f[i] = g[i]
    BY <1>1, <1>5
  <2>2. f[i + 1] = f[i] * base + ds[i + 1] /\ g[i + 1] = g[i] * base + es[i + 1] /\ es[i + 1] = ds[i + 1]
    BY <1>1, <1>2, <1>3, <2>1
  <2> QED
    BY <2>1, <2>2
<1>6. f[n] = g[n]
  <2> HIDE DEF S
  <2>1. 0..n \subseteq S
    BY <1>1, <1>4, <1>5, Upwards
  <2> QED
    BY <1>1, <2>1 DEF S
<1>7. g[n + 1] = g[n] * base + c
  <2>1. n + 1 \in 1..Len(es) /\ (n + 1) - 1 = n
    BY <1>1
  <2> QED
    BY <1>1, <1>3, <2>1
<1>8. f[n] \in Nat
  BY <1>1, <1>2
<1> QED
  BY <1>1, <1>2, <1>3, <1>6, <1>7, <1>8 DEF es

\* The value of a single digit.
LEMMA ValueOne ==
    ASSUME NEW c \in Nat, NEW base \in Nat
    PROVE  Value(<<c>>, base) = c
<1>1. <<c>> \in Seq(Nat) /\ Len(<<c>>) = 1 /\ <<c>>[1] = c
  OBVIOUS
<1>2. PICK f \in [0..1 -> Nat] : f[0] = 0 /\ (\A i \in 1..1 : f[i] = f[i - 1] * base + <<c>>[i]) /\ Value(<<c>>, base) = f[1]
  BY <1>1, ValueIs
<1>3. f[1] = f[0] * base + c
  BY <1>1, <1>2
<1> QED
  BY <1>2, <1>3

-----------------------------------------------------------------------------
\* The digits of everything up to x, from those of less.
DigitOne(y, base, f) == IF y \div base = 0 THEN <<y % base>> ELSE Append(f[y \div base], y % base)
DigitTurn(x, base, f) == f = [y \in 0..x |-> DigitOne(y, base, f)]

\* Every number has its digits: they are those of its quotient, and one more.
LEMMA DigitsDefined ==
    ASSUME NEW x \in Nat, NEW base \in {10, 16}
    PROVE  \E f : DigitTurn(x, base, f)
<1> DEFINE S == {k \in 0..x : \E f : DigitTurn(k, base, f)}
<1>1. ASSUME NEW y \in Nat, y # 0 PROVE y \div base \in 0..y - 1
  BY <1>1, QuotientIs
<1>2. \A f, g : DigitOne(0, base, f) = DigitOne(0, base, g)
  <2>1. 0 \div base = 0
    <3>1. CASE base = 10
      BY <3>1
    <3>2. CASE base = 16
      BY <3>2
    <3> QED
      BY <3>1, <3>2
  <2> QED
    BY <2>1 DEF DigitOne
<1>3. 0 \in S
  <2> DEFINE f == [y \in 0..0 |-> DigitOne(0, base, 0)]
             g == [y \in 0..0 |-> DigitOne(y, base, f)]
  <2>1. \A y \in 0..0 : f[y] = g[y]
    <3> HIDE DEF f
    <3>1. f[0] = DigitOne(0, base, 0)
      BY DEF f
    <3>2. g[0] = DigitOne(0, base, f)
      OBVIOUS
    <3> QED
      BY <1>2, <3>1, <3>2
  <2>2. f = g
    BY <2>1
  <2> HIDE DEF f
  <2>3. DigitTurn(0, base, f)
    BY <2>2 DEF DigitTurn
  <2> QED
    BY <2>3
<1>4. ASSUME NEW k \in 0..x - 1, k \in S PROVE k + 1 \in S
  <2>1. PICK f : DigitTurn(k, base, f)
    BY <1>4
  <2> DEFINE g == [y \in 0..k + 1 |-> IF y = k + 1 THEN DigitOne(k + 1, base, f) ELSE f[y]]
             h == [y \in 0..k + 1 |-> DigitOne(y, base, g)]
  <2>2. k \in Nat /\ k + 1 \in 0..x
    OBVIOUS
  <2>3. (\A y \in 0..k : g[y] = f[y]) /\ g[k + 1] = DigitOne(k + 1, base, f) /\ DOMAIN g = 0..k + 1
    BY <2>2
  <2>4. (\A y \in 0..k + 1 : h[y] = DigitOne(y, base, g)) /\ DOMAIN h = 0..k + 1
    OBVIOUS
  <2>5. g = [y \in 0..k + 1 |-> g[y]] /\ h = [y \in 0..k + 1 |-> h[y]]
    OBVIOUS
  <2> HIDE DEF g, h
  <2>6. \A y \in 0..k + 1 : DigitOne(y, base, f) = DigitOne(y, base, g)
    <3> TAKE y \in 0..k + 1
    <3>1. CASE y = 0
      BY <1>2, <3>1
    <3>2. CASE y # 0
      <4>1. y \div base \in 0..y - 1
        BY <1>1, <2>2, <3>2
      <4>2. y \div base \in 0..k
        BY <2>2, <4>1
      <4> QED
        BY <2>3, <4>2 DEF DigitOne
    <3> QED
      BY <3>1, <3>2
  <2>7. \A y \in 0..k + 1 : g[y] = h[y]
    <3> TAKE y \in 0..k + 1
    <3>1. CASE y = k + 1
      BY <2>3, <2>4, <2>6, <3>1
    <3>2. CASE y # k + 1
      <4>1. y \in 0..k
        BY <2>2, <3>2
      <4>2. f[y] = DigitOne(y, base, f)
        BY <2>1, <4>1 DEF DigitTurn
      <4> QED
        BY <2>3, <2>4, <2>6, <4>1, <4>2
    <3> QED
      BY <3>1, <3>2
  <2>8. g = h
    BY <2>5, <2>7
  <2>9. DigitTurn(k + 1, base, g)
    <3>1. h = [y \in 0..k + 1 |-> DigitOne(y, base, g)]
      BY DEF h
    <3> QED
      BY <2>8, <3>1 DEF DigitTurn
  <2> QED
    BY <2>2, <2>9
<1>5. x \in S
  <2> HIDE DEF S
  <2>1. 0..x \subseteq S
    BY <1>3, <1>4, Upwards
  <2> QED
    BY <2>1
<1> QED
  BY <1>5

\* The digits of a number read as it, and only those of 0 begin with a 0.
LEMMA DigitsRead ==
    ASSUME NEW x \in Nat, NEW base \in {10, 16}
    PROVE  LET ds == Digits(x, base)
           IN  /\ ds \in Seq(Nat) /\ Len(ds) \in Nat \ {0} /\ Value(ds, base) = x
               /\ Head(ds) = 0 => Len(ds) = 1
<1> DEFINE f == CHOOSE f : DigitTurn(x, base, f)
           Read(y) == /\ f[y] \in Seq(Nat) /\ Len(f[y]) \in Nat \ {0} /\ Value(f[y], base) = y
                      /\ y # 0 => f[y][1] # 0
                      /\ y = 0 => Len(f[y]) = 1
           S == {k \in 0..x : \A y \in 0..k : Read(y)}
<1>1. DigitTurn(x, base, f)
  BY DigitsDefined
<1>2. Digits(x, base) = f[x]
  BY DEF Digits, DigitTurn, DigitOne
<1> HIDE DEF f
<1>3. \A y \in 0..x : f[y] = DigitOne(y, base, f)
  BY <1>1 DEF DigitTurn
<1>4. base \in Nat /\ base # 0
  OBVIOUS
<1>5. \A y \in Nat : y % base \in Nat
  BY <1>4, DivideIs
<1>6. ASSUME NEW y \in 0..x, y \div base = 0 PROVE Read(y)
  <2> DEFINE r == y % base
  <2>1. f[y] = <<r>> /\ r \in Nat
    <3>1. r \in Nat
      BY <1>5
    <3>2. f[y] = <<r>>
      BY <1>3, <1>6 DEF DigitOne
    <3> QED
      BY <3>1, <3>2
  <2>2. y = r
    <3>1. base * (y \div base) + (y % base) = y
      BY <1>4, DivideIs
    <3> HIDE DEF r
    <3>2. base * 0 + r = y
      BY <1>6, <3>1 DEF r
    <3> QED
      BY <1>4, <2>1, <3>2
  <2> HIDE DEF r
  <2>3. Value(<<r>>, base) = r
    BY <1>4, <2>1, ValueOne
  <2>4. <<r>> \in Seq(Nat) /\ Len(<<r>>) = 1 /\ <<r>>[1] = r
    BY <2>1
  <2> QED
    BY <2>1, <2>2, <2>3, <2>4
<1>7. ASSUME NEW y \in 0..x, y \div base # 0, Read(y \div base) PROVE Read(y)
  <2> DEFINE q == y \div base
             r == y % base
  <2>1. q \in Nat /\ r \in Nat /\ base * q + r = y
    BY <1>4, DivideIs
  <2>2. f[y] = Append(f[q], r)
    BY <1>3, <1>7 DEF DigitOne
  <2> HIDE DEF q, r
  <2>3. q # 0 /\ Read(q)
    BY <1>7 DEF q
  <2>4. Value(f[y], base) = q * base + r
    BY <1>4, <2>1, <2>2, <2>3, ValueAppend
  <2>5. Value(f[y], base) = y
    BY <1>4, <2>1, <2>4
  <2>6. f[y] \in Seq(Nat) /\ Len(f[y]) = Len(f[q]) + 1 /\ f[y][1] = f[q][1]
    BY <2>1, <2>2, <2>3
  <2>7. y # 0
    BY <1>4, <2>1, <2>3
  <2> QED
    BY <2>3, <2>5, <2>6, <2>7
<1>8. 0 \in S
  <2>1. 0 \div base = 0
    <3>1. CASE base = 10
      BY <3>1
    <3>2. CASE base = 16
      BY <3>2
    <3> QED
      BY <3>1, <3>2
  <2>2. Read(0)
    BY <1>6, <2>1
  <2> HIDE DEF Read
  <2> QED
    BY <2>2
<1>9. ASSUME NEW k \in 0..x - 1, k \in S PROVE k + 1 \in S
  <2>1. k \in Nat /\ k + 1 \in 0..x /\ k + 1 # 0
    OBVIOUS
  <2>2. (k + 1) \div base \in Nat /\ (k + 1) \div base < k + 1
    BY <2>1, QuotientIs
  <2> HIDE DEF Read
  <2>3. Read((k + 1) \div base)
    BY <1>9, <2>1, <2>2
  <2>4. Read(k + 1)
    BY <1>6, <1>7, <2>1, <2>3
  <2>5. \A y \in 0..k + 1 : y = k + 1 \/ y \in 0..k
    BY <2>1
  <2> QED
    BY <1>9, <2>1, <2>4, <2>5
<1>10. Read(x)
  <2> HIDE DEF S, Read
  <2>1. 0..x \subseteq S
    BY <1>8, <1>9, Upwards
  <2>2. x \in S
    BY <2>1
  <2> QED
    BY <2>2 DEF S
<1>11. Head(f[x]) = f[x][1]
  BY <1>10
<1> QED
  BY <1>2, <1>10, <1>11
-----------------------------------------------------------------------------
\* Powers of 16, and how many values an int has.
PowerTurn(f) == f = [i \in 0..Nibbles |-> IF i = 0 THEN 1 ELSE 16 * f[i - 1]]

\* A power of 16 is positive, and the next one is 16 times as much.
LEMMA PowerIs ==
    /\ Power \in [0..Nibbles -> Nat \ {0}] /\ Power[0] = 1
    /\ \A i \in 1..Nibbles : Power[i] = 16 * Power[i - 1]
<1> DEFINE P == Nat \ {0}
           step == [z \in (1..Nibbles) \X P |-> 16 * z[2]]
           g == CHOOSE g : PowerTurn(g)
<1>1. Nibbles \in Nat
  BY HelpersAssumption
<1>2. step \in [(1..Nibbles) \X P -> P] /\ \A i \in 1..Nibbles, v \in P : step[<<i, v>>] = 16 * v
  <2>1. \A v \in P : 16 * v \in P
    OBVIOUS
  <2> QED
    BY <2>1
<1>3. 1 \in P
  OBVIOUS
<1> HIDE DEF step, P
<1>4. PICK f \in [0..Nibbles -> P] : Turns(Nibbles, 1, step, f)
  BY <1>1, <1>2, <1>3, Loop
<1>5. \A i \in 0..Nibbles : f[i] = IF i = 0 THEN 1 ELSE 16 * f[i - 1]
  <2> TAKE i \in 0..Nibbles
  <2>1. i # 0 => i \in 1..Nibbles /\ i - 1 \in 0..Nibbles
    BY <1>1
  <2> QED
    BY <1>2, <1>4, <2>1 DEF Turns
<1>6. PowerTurn(f)
  BY <1>5 DEF PowerTurn
<1>7. PowerTurn(g)
  BY <1>6
<1>8. Power = g
  BY DEF Power, PowerTurn
<1> HIDE DEF g
<1>9. g = [i \in 0..Nibbles |-> IF i = 0 THEN 1 ELSE 16 * g[i - 1]]
  BY <1>7 DEF PowerTurn
<1>10. g[0] = 1 /\ \A i \in 1..Nibbles : g[i] = 16 * g[i - 1]
  BY <1>1, <1>9
<1> DEFINE S == {i \in 0..Nibbles : g[i] \in P}
<1>11. 0 \in S
  BY <1>1, <1>3, <1>10
<1>12. ASSUME NEW i \in 0..Nibbles - 1, i \in S PROVE i + 1 \in S
  <2>1. i + 1 \in 0..Nibbles /\ i + 1 \in 1..Nibbles /\ (i + 1) - 1 = i /\ g[i] \in P
    BY <1>1, <1>12
  <2>2. g[i + 1] = 16 * g[i]
    BY <1>10, <2>1
  <2> QED
    BY <2>1, <2>2 DEF P
<1>13. 0..Nibbles \subseteq S
  <2> HIDE DEF S
  <2> QED
    BY <1>1, <1>11, <1>12, Upwards
<1>14. g \in [0..Nibbles -> P]
  BY <1>9, <1>13
<1> QED
  BY <1>8, <1>10, <1>14 DEF P

\* A number has at least one nibble.
LEMMA WrapIs == Wrap \in Nat \ {0} /\ Wrap \div 16 \in Nat \ {0} /\ Wrap = 16 * (Wrap \div 16)
<1>1. Nibbles \in 0..Nibbles /\ Nibbles \in 1..Nibbles /\ Nibbles - 1 \in 0..Nibbles
  BY HelpersAssumption
<1> DEFINE q == Power[Nibbles - 1]
<1>2. q \in Nat \ {0} /\ Wrap = 16 * q
  BY <1>1, PowerIs DEF Wrap
<1> HIDE DEF q
<1>3. Wrap \div 16 = q
  BY <1>2
<1> QED
  BY <1>2, <1>3

\* An int that is printed reads as that int, the least one included.
LEMMA PrintintRight ==
    ASSUME NEW xx \in IntOf, NEW base \in {10, 16}
    PROVE  LET r == printint(xx, base)
           IN  /\ Value(r.digits, base) = (IF r.sign THEN -xx ELSE xx)
               /\ Head(r.digits) = 0 => Len(r.digits) = 1
<1> DEFINE x == IF xx < 0 THEN Negated(xx) ELSE Unsigned(xx)
<1>1. xx \in Int /\ -xx <= Wrap \div 2 /\ xx < Wrap \div 2
  BY WrapIs DEF IntOf
<1>2. Wrap \div 2 < Wrap
  BY WrapIs
<1>3. x = (IF xx < 0 THEN -xx ELSE xx) /\ x \in Nat
  <2>1. CASE xx < 0
    <3>1. -xx \in Nat /\ -xx < Wrap
      BY <1>1, <1>2, <2>1, WrapIs
    <3>2. (-xx) % Wrap = -xx
      BY <3>1, WrapIs
    <3> QED
      BY <2>1, <3>1, <3>2 DEF Negated
  <2>2. CASE ~(xx < 0)
    <3>1. xx \in Nat /\ xx < Wrap
      BY <1>1, <1>2, <2>2, WrapIs
    <3>2. xx % Wrap = xx
      BY <3>1, WrapIs
    <3> QED
      BY <2>2, <3>1, <3>2 DEF Unsigned
  <2> QED
    BY <2>1, <2>2
<1>4. printint(xx, base) = [sign |-> xx < 0, digits |-> Digits(x, base)]
  BY DEF printint
<1> HIDE DEF x
<1>5. Value(Digits(x, base), base) = x /\ (Head(Digits(x, base)) = 0 => Len(Digits(x, base)) = 1)
  BY <1>3, DigitsRead
<1>6. printint(xx, base).digits = Digits(x, base)
  BY <1>4
<1>7. x = IF printint(xx, base).sign THEN -xx ELSE xx
  <2>1. \A b, d : [sign |-> b, digits |-> d].sign = b
    OBVIOUS
  <2>2. printint(xx, base).sign = (xx < 0)
    BY <1>4, <2>1, ZenonT(40)
  <2> QED
    BY <1>3, <2>2
<1> QED
  BY <1>5, <1>6, <1>7

ShiftTurn(x, f) == f = [i \in 0..Nibbles |-> IF i = 0 THEN x ELSE (f[i - 1] * 16) % Wrap]

\* The highest nibble and what is shifted into its place.
LEMMA ShiftOne ==
    ASSUME NEW s \in 0..Wrap - 1
    PROVE  /\ (s * 16) % Wrap \in 0..Wrap - 1
           /\ s \div (Wrap \div 16) \in Nat
           /\ 16 * s = (s \div (Wrap \div 16)) * Wrap + ((s * 16) % Wrap)
<1> DEFINE q == Wrap \div 16
           d == s \div q
           r == s % q
<1>1. Wrap \in Nat /\ Wrap # 0 /\ q \in Nat /\ q # 0 /\ Wrap = 16 * q
  BY WrapIs
<1> HIDE DEF q
<1>2. s \in Nat /\ d \in Nat /\ r \in 0..q - 1 /\ q * d + r = s
  <2>1. s \in Nat
    BY <1>1
  <2> QED
    BY <1>1, <2>1, DivideIs
<1> HIDE DEF d, r
<1>3. 16 * r \in Nat /\ 16 * r < Wrap
  BY <1>1, <1>2
<1>4. s * 16 = d * Wrap + 16 * r
  <2>1. d * Wrap = 16 * (q * d)
    BY <1>1, <1>2
  <2> DEFINE e == q * d
  <2>2. e \in Nat /\ e + r = s /\ r \in Nat
    BY <1>1, <1>2
  <2>3. d * Wrap = 16 * e
    BY <2>1
  <2> HIDE DEF e
  <2>4. s * 16 = 16 * e + 16 * r
    BY <2>2
  <2> QED
    BY <2>3, <2>4
<1>5. (d * Wrap + 16 * r) % Wrap = 16 * r
  <2> DEFINE t == 16 * r
  <2>1. t \in Nat /\ t < Wrap
    BY <1>3
  <2> HIDE DEF t
  <2>2. (d * Wrap + t) % Wrap = t
    BY <1>1, <1>2, <2>1
  <2> QED
    BY <2>2 DEF t
<1>6. (s * 16) % Wrap = 16 * r
  BY <1>4, <1>5
<1>7. 16 * r \in 0..Wrap - 1
  BY <1>1, <1>3
<1>8. 16 * s = d * Wrap + 16 * r
  <2>1. 16 * s = s * 16
    BY <1>2
  <2> QED
    BY <1>4, <2>1
<1> QED
  BY <1>2, <1>6, <1>7, <1>8 DEF d, q

\* A pointer that is printed reads as that pointer.
LEMMA PrintptrRight ==
    ASSUME NEW x \in 0..Wrap - 1
    PROVE  Value(printptr(x), 16) = x /\ Len(printptr(x)) = Nibbles
<1> DEFINE R == 0..Wrap - 1
           next(s) == (s * 16) % Wrap
           step == [z \in (1..Nibbles) \X R |-> next(z[2])]
           g == CHOOSE g : ShiftTurn(x, g)
<1>1. Nibbles \in Nat /\ Nibbles # 0 /\ Wrap \in Nat /\ Wrap # 0
  BY HelpersAssumption, WrapIs
<1>2. \A s \in R : next(s) \in R
  BY ShiftOne
<1>3. \A f : ShiftTurn(x, f) <=> f = [i \in 0..Nibbles |-> IF i = 0 THEN x ELSE next(f[i - 1])]
  BY DEF ShiftTurn
<1>4. printptr(x) = [i \in 1..Nibbles |-> g[i - 1] \div (Wrap \div 16)]
  BY DEF printptr, ShiftTurn
<1>5. \A s : next(s) = (s * 16) % Wrap
  OBVIOUS
<1> HIDE DEF next, g
<1>6. step \in [(1..Nibbles) \X R -> R] /\ \A i \in 1..Nibbles, s \in R : step[<<i, s>>] = next(s)
  BY <1>2
<1> HIDE DEF step
<1>7. PICK f \in [0..Nibbles -> R] : Turns(Nibbles, x, step, f)
  <2>1. x \in R
    OBVIOUS
  <2> HIDE DEF R
  <2> QED
    BY <1>1, <1>6, <2>1, Loop
<1>8. \A i \in 0..Nibbles : f[i] = IF i = 0 THEN x ELSE next(f[i - 1])
  <2> TAKE i \in 0..Nibbles
  <2>1. i # 0 => i \in 1..Nibbles /\ i - 1 \in 0..Nibbles
    BY <1>1
  <2> HIDE DEF R
  <2> QED
    BY <1>6, <1>7, <2>1 DEF Turns
<1>9. ShiftTurn(x, f)
  BY <1>3, <1>8
<1>10. ShiftTurn(x, g)
  BY <1>9 DEF g
<1>11. g = [i \in 0..Nibbles |-> IF i = 0 THEN x ELSE next(g[i - 1])]
  BY <1>3, <1>10
<1>12. g[0] = x /\ \A i \in 1..Nibbles : g[i] = next(g[i - 1])
  BY <1>1, <1>11
<1> DEFINE S == {i \in 0..Nibbles : g[i] \in R}
<1>13. 0 \in S
  BY <1>1, <1>12
<1>14. ASSUME NEW i \in 0..Nibbles - 1, i \in S PROVE i + 1 \in S
  <2>1. i + 1 \in 0..Nibbles /\ i + 1 \in 1..Nibbles /\ (i + 1) - 1 = i /\ g[i] \in R
    BY <1>1, <1>14
  <2>2. g[i + 1] = next(g[i])
    BY <1>12, <2>1
  <2> HIDE DEF R
  <2> QED
    BY <1>2, <2>1, <2>2
<1>15. \A i \in 0..Nibbles : g[i] \in R
  <2> HIDE DEF S
  <2>1. 0..Nibbles \subseteq S
    BY <1>1, <1>13, <1>14, Upwards
  <2> QED
    BY <2>1 DEF S
<1> DEFINE ds == [i \in 1..Nibbles |-> g[i - 1] \div (Wrap \div 16)]
<1>16. \A i \in 1..Nibbles : ds[i] \in Nat /\ 16 * g[i - 1] = ds[i] * Wrap + g[i]
  <2> TAKE i \in 1..Nibbles
  <2>1. i - 1 \in 0..Nibbles
    BY <1>1
  <2>2. g[i - 1] \in R /\ g[i] = (g[i - 1] * 16) % Wrap
    BY <1>5, <1>12, <1>15, <2>1
  <2>3. ds[i] = g[i - 1] \div (Wrap \div 16)
    OBVIOUS
  <2> HIDE DEF ds
  <2> QED
    BY <2>2, <2>3, ShiftOne
<1>17. ds \in Seq(Nat) /\ Len(ds) = Nibbles
  <2>1. ds \in [1..Nibbles -> Nat]
    BY <1>16
  <2> HIDE DEF ds
  <2>2. ds \in Seq(Nat)
    BY <1>1, <2>1
  <2> QED
    BY <1>1, <2>1, <2>2
<1> HIDE DEF ds
<1>18. PICK v \in [0..Nibbles -> Nat] : /\ v[0] = 0 /\ \A i \in 1..Nibbles : v[i] = v[i - 1] * 16 + ds[i]
                                        /\ Value(ds, 16) = v[Nibbles]
  <2>1. 16 \in Nat
    OBVIOUS
  <2> QED
    BY <1>17, <2>1, ValueIs
<1> DEFINE T == {i \in 0..Nibbles : x * Power[i] = v[i] * Wrap + g[i]}
<1>19. 0 \in T
  <2>1. Power[0] = 1 /\ g[0] = x /\ v[0] = 0 /\ 0 \in 0..Nibbles
    BY <1>1, <1>12, <1>18, PowerIs
  <2>2. x * 1 = 0 * Wrap + x
    BY <1>1
  <2> QED
    BY <2>1, <2>2
<1>20. ASSUME NEW i \in 0..Nibbles - 1, i \in T PROVE i + 1 \in T
  <2>1. i \in 0..Nibbles /\ i + 1 \in 0..Nibbles /\ i + 1 \in 1..Nibbles /\ (i + 1) - 1 = i
    BY <1>1
  <2> DEFINE a == v[i]
             b == g[i]
             c == g[i + 1]
             d == ds[i + 1]
             w == Wrap
             p == Power[i]
  <2>2. a \in Nat /\ b \in Nat /\ c \in Nat /\ d \in Nat /\ w \in Nat /\ p \in Nat /\ x \in Nat
    <3>1. v[i] \in Nat /\ ds[i + 1] \in Nat
      BY <1>16, <1>18, <2>1
    <3>2. g[i] \in Nat /\ g[i + 1] \in Nat
      BY <1>1, <1>15, <2>1
    <3>3. Power[i] \in Nat
      BY <2>1, PowerIs
    <3> QED
      BY <1>1, <3>1, <3>2, <3>3
  <2>3. x * p = a * w + b /\ 16 * b = d * w + c
    BY <1>16, <1>20, <2>1
  <2>4. v[i + 1] = a * 16 + d /\ Power[i + 1] = 16 * p
    BY <1>18, <2>1, PowerIs
  <2> HIDE DEF a, b, c, d, w, p
  <2>5. x * (16 * p) = (a * 16 + d) * w + c
    <3>1. x * (16 * p) = 16 * (x * p)
      BY <2>2
    <3>2. 16 * (a * w + b) = 16 * (a * w) + 16 * b
      BY <2>2
    <3>3. (a * 16 + d) * w = 16 * (a * w) + d * w
      BY <2>2
    <3>4. a * w \in Nat /\ d * w \in Nat
      BY <2>2
    <3> QED
      BY <2>2, <2>3, <3>1, <3>2, <3>3, <3>4
  <2> QED
    BY <2>1, <2>4, <2>5 DEF c, w
<1>21. x * Wrap = v[Nibbles] * Wrap + g[Nibbles]
  <2> HIDE DEF T
  <2>1. 0..Nibbles \subseteq T
    BY <1>1, <1>19, <1>20, Upwards
  <2>2. Nibbles \in T
    BY <1>1, <2>1
  <2> QED
    BY <2>2 DEF T, Wrap
<1>22. x = v[Nibbles]
  <2> DEFINE a == v[Nibbles]
             r == g[Nibbles]
             w == Wrap
  <2>1. a \in Nat /\ r \in Nat /\ r < w /\ w \in Nat /\ x \in Nat /\ x * w = a * w + r
    <3>1. Nibbles \in 0..Nibbles
      BY <1>1
    <3> QED
      BY <1>1, <1>15, <1>18, <1>21, <3>1
  <2> HIDE DEF a, r, w
  <2>2. x = a
    BY <2>1
  <2> QED
    BY <2>2 DEF a
<1> QED
  BY <1>4, <1>17, <1>18, <1>22 DEF ds

-----------------------------------------------------------------------------
(* Formats. *)

\* What printf makes of a character.
PrintOne(c, s) ==
    LET Out(open, args, text) == [open |-> open, args |-> args, out |-> s.out \o text]
    IN  CASE ~s.open /\ c # "%" -> Out(FALSE, s.args, <<Plain(c)>>)
          [] ~s.open /\ c = "%" -> Out(TRUE, s.args, <<>>)
          [] s.open /\ c = "d" -> Out(FALSE, s.args + 1, <<Number(s.args + 1)>>)
          [] s.open /\ c = "%" -> Out(FALSE, s.args, <<Plain("%")>>)
          [] OTHER -> Out(FALSE, s.args, <<Plain("%"), Plain(c)>>)

PrintTurn(fmt, f) ==
    f = [i \in 0..Len(fmt) |-> IF i = 0 THEN [open |-> FALSE, args |-> 0, out |-> <<>>]
                               ELSE PrintOne(fmt[i], f[i - 1])]

Letter == {"%", "d", "t"}
PlainOne == [char : Letter, arg : {0}]
Printed == [char : Letter, arg : Nat]
Printer == [open : BOOLEAN, args : Nat, out : Seq(Printed)]

\* A character is printed, begins or ends a conversion, or takes an argument.
LEMMA PrintOneIs ==
    ASSUME NEW c \in Letter, NEW s \in Printer
    PROVE  LET r == PrintOne(c, s)
           IN  /\ r \in Printer
               /\ r.open <=> ~s.open /\ c = "%"
               /\ s.open /\ c = "d" => r.args = s.args + 1 /\ r.out = Append(s.out, Number(s.args + 1))
               /\ ~(s.open /\ c = "d") =>
                    r.args = s.args /\ \E text \in Seq(PlainOne) : r.out = s.out \o text
<1> DEFINE Texts == Seq(PlainOne)
           r == PrintOne(c, s)
           Out(open, args, text) == [open |-> open, args |-> args, out |-> s.out \o text]
<1>0. s.open \in BOOLEAN /\ s.args \in Nat /\ s.out \in Seq(Printed)
  BY DEF Printer
<1>1. Plain(c) \in PlainOne /\ Plain("%") \in PlainOne
  BY DEF Plain, PlainOne, Letter
<1>2. <<>> \in Texts /\ <<Plain(c)>> \in Texts /\ <<Plain("%")>> \in Texts /\ <<Plain("%"), Plain(c)>> \in Texts
  BY <1>1
<1>3. \A text \in Texts : s.out \o text \in Seq(Printed)
  <2> TAKE text \in Texts
  <2>1. PlainOne \subseteq Printed
    BY DEF Printed, PlainOne
  <2>2. text \in Seq(Printed)
    <3>1. Len(text) \in Nat /\ \A i \in 1..Len(text) : text[i] \in Printed
      <4>1. \A i \in 1..Len(text) : text[i] \in PlainOne
        OBVIOUS
      <4> QED
        BY <2>1, <4>1
    <3>2. text = [i \in 1..Len(text) |-> text[i]]
      OBVIOUS
    <3>3. text \in [1..Len(text) -> Printed]
      BY <3>1, <3>2
    <3> QED
      BY <3>1, <3>3
  <2> QED
    BY <1>0, <2>2
<1>4. ASSUME NEW open \in BOOLEAN, NEW text \in Texts, r = Out(open, s.args, text)
      PROVE  /\ r \in Printer /\ r.open = open /\ r.args = s.args
             /\ \E t \in Texts : r.out = s.out \o t
  <2>1. s.out \o text \in Seq(Printed)
    BY <1>3
  <2> HIDE DEF r, Texts
  <2>2. r.open = open /\ r.args = s.args /\ r.out = s.out \o text
    BY <1>4
  <2>3. r \in Printer
    BY <1>0, <1>4, <2>1 DEF Printer
  <2> QED
    BY <2>2, <2>3
<1>5. CASE s.open /\ c = "d"
  <2> DEFINE n == Number(s.args + 1)
  <2>1. r = Out(FALSE, s.args + 1, <<n>>)
    BY <1>5 DEF PrintOne
  <2>2. n \in Printed
    BY <1>0 DEF Number, Printed, Letter
  <2> HIDE DEF n
  <2>3. s.out \o <<n>> = Append(s.out, n) /\ Append(s.out, n) \in Seq(Printed)
    BY <1>0, <2>2
  <2> HIDE DEF r
  <2>4. r.open = FALSE /\ r.args = s.args + 1 /\ r.out = Append(s.out, n)
    BY <2>1, <2>3
  <2>5. r \in Printer
    BY <1>0, <2>1, <2>3 DEF Printer
  <2> QED
    BY <1>5, <2>4, <2>5 DEF r, n
<1>6. CASE ~s.open /\ c # "%"
  <2>1. r = Out(FALSE, s.args, <<Plain(c)>>)
    BY <1>6 DEF PrintOne
  <2> HIDE DEF r
  <2>2. r \in Printer /\ r.open = FALSE /\ r.args = s.args /\ \E t \in Texts : r.out = s.out \o t
    BY <1>2, <1>4, <2>1
  <2> QED
    BY <1>6, <2>2 DEF r
<1>7. CASE ~s.open /\ c = "%"
  <2>1. r = Out(TRUE, s.args, <<>>)
    BY <1>7 DEF PrintOne
  <2> HIDE DEF r
  <2>2. r \in Printer /\ r.open = TRUE /\ r.args = s.args /\ \E t \in Texts : r.out = s.out \o t
    BY <1>2, <1>4, <2>1
  <2> QED
    BY <1>7, <2>2 DEF r
<1>8. CASE s.open /\ c = "%"
  <2>1. r = Out(FALSE, s.args, <<Plain("%")>>)
    BY <1>8 DEF PrintOne
  <2> HIDE DEF r
  <2>2. r \in Printer /\ r.open = FALSE /\ r.args = s.args /\ \E t \in Texts : r.out = s.out \o t
    BY <1>2, <1>4, <2>1
  <2> QED
    BY <1>8, <2>2 DEF r
<1>9. CASE s.open /\ c \notin {"d", "%"}
  <2>1. r = Out(FALSE, s.args, <<Plain("%"), Plain(c)>>)
    BY <1>9 DEF PrintOne
  <2> HIDE DEF r
  <2>2. r \in Printer /\ r.open = FALSE /\ r.args = s.args /\ \E t \in Texts : r.out = s.out \o t
    BY <1>2, <1>4, <2>1
  <2> QED
    BY <1>9, <2>2 DEF r
<1> QED
  BY <1>5, <1>6, <1>7, <1>8, <1>9

\* printf is what its turns make of its start.
LEMMA PrintingIs ==
    ASSUME NEW fmt \in Seq(Letter)
    PROVE  LET f == Printing(fmt)
               n == Len(fmt)
           IN  /\ \A i \in 0..n : f[i] \in Printer
               /\ f[0] = [open |-> FALSE, args |-> 0, out |-> <<>>]
               /\ \A i \in 1..n : f[i] = PrintOne(fmt[i], f[i - 1])
<1> DEFINE n == Len(fmt)
           start == [open |-> FALSE, args |-> 0, out |-> <<>>]
           step == [z \in (1..n) \X Printer |-> PrintOne(fmt[z[1]], z[2])]
           g == CHOOSE g : PrintTurn(fmt, g)
<1>1. n \in Nat
  OBVIOUS
<1>2. start \in Printer
  BY DEF Printer
<1>3. \A i \in 1..n, s \in Printer : PrintOne(fmt[i], s) \in Printer
  BY PrintOneIs
<1>4. Printing(fmt) = g
  BY DEF Printing, PrintTurn, PrintOne
<1>5. \A f : PrintTurn(fmt, f) <=> f = [i \in 0..n |-> IF i = 0 THEN start ELSE PrintOne(fmt[i], f[i - 1])]
  BY DEF PrintTurn
<1> HIDE DEF n, start, g
<1>6. step \in [(1..n) \X Printer -> Printer]
      /\ \A i \in 1..n, s \in Printer : step[<<i, s>>] = PrintOne(fmt[i], s)
  BY <1>3
<1> HIDE DEF step
<1>7. PICK f \in [0..n -> Printer] : Turns(n, start, step, f)
  BY <1>1, <1>2, <1>6, Loop
<1>8. \A i \in 0..n : f[i] = IF i = 0 THEN start ELSE PrintOne(fmt[i], f[i - 1])
  <2> TAKE i \in 0..n
  <2>1. i # 0 => i \in 1..n /\ i - 1 \in 0..n
    BY <1>1
  <2> QED
    BY <1>6, <1>7, <2>1 DEF Turns
<1>9. PrintTurn(fmt, f)
  <2>1. f = [i \in 0..n |-> IF i = 0 THEN start ELSE PrintOne(fmt[i], f[i - 1])]
    BY <1>8
  <2> QED
    BY <1>5, <2>1
<1>10. PrintTurn(fmt, g)
  BY <1>9 DEF g
<1>11. g = [i \in 0..n |-> IF i = 0 THEN start ELSE PrintOne(fmt[i], g[i - 1])]
  BY <1>5, <1>10
<1>12. g[0] = start /\ \A i \in 1..n : g[i] = PrintOne(fmt[i], g[i - 1])
  BY <1>1, <1>11
<1> DEFINE S == {i \in 0..n : g[i] \in Printer}
<1>13. 0 \in S
  BY <1>1, <1>2, <1>12
<1>14. ASSUME NEW i \in 0..n - 1, i \in S PROVE i + 1 \in S
  <2>1. i + 1 \in 0..n /\ i + 1 \in 1..n /\ (i + 1) - 1 = i /\ g[i] \in Printer
    BY <1>1, <1>14
  <2>2. g[i + 1] = PrintOne(fmt[i + 1], g[i])
    BY <1>12, <2>1
  <2> QED
    BY <1>3, <2>1, <2>2
<1>15. \A i \in 0..n : g[i] \in Printer
  <2> HIDE DEF S
  <2>1. 0..n \subseteq S
    BY <1>1, <1>13, <1>14, Upwards
  <2> QED
    BY <2>1 DEF S
<1> QED
  BY <1>4, <1>12, <1>15 DEF n, start

\* There is one number of "%" before a place.
LEMMA PercentsOnce ==
    ASSUME NEW fmt \in Seq(Letter), NEW i \in 0..Len(fmt), NEW k \in 0..i, NEW l \in 0..i,
           Percents(fmt, i, k), Percents(fmt, i, l)
    PROVE  k = l
<1>1. i \in Nat /\ k \in Nat /\ l \in Nat
  OBVIOUS
<1>2. ASSUME k < l PROVE FALSE
  <2>1. k # i /\ i - k \in i - l + 1..i
    BY <1>1, <1>2
  <2> QED
    BY <2>1 DEF Percents
<1>3. ASSUME l < k PROVE FALSE
  <2>1. l # i /\ i - l \in i - k + 1..i
    BY <1>1, <1>3
  <2> QED
    BY <2>1 DEF Percents
<1> QED
  BY <1>1, <1>2, <1>3

\* Numbers stand for the arguments from the first to the n-th, one for each.
Counted(out, n) == /\ Cardinality(Taken(out)) = n
                   /\ \A j \in Taken(out) : out[j].arg = Cardinality(Taken(out) \cap (1..j))

\* A number of things are printed.
LEMMA TakenFinite ==
    ASSUME NEW out \in Seq(Printed)
    PROVE  IsFiniteSet(Taken(out)) /\ Taken(out) \subseteq 1..Len(out)
<1>1. Len(out) \in Nat /\ DOMAIN out = 1..Len(out)
  OBVIOUS
<1>2. Taken(out) \subseteq 1..Len(out)
  BY <1>1 DEF Taken
<1>3. IsFiniteSet(1..Len(out))
  <2>1. 1 \in Int /\ Len(out) \in Int
    BY <1>1
  <2> QED
    BY <2>1, FS_Interval
<1> QED
  BY <1>2, <1>3, FS_Subset

\* A character that is printed takes no argument.
LEMMA CountedPlain ==
    ASSUME NEW out \in Seq(Printed), NEW n \in Nat, Counted(out, n),
           NEW text \in Seq(PlainOne), out \o text \in Seq(Printed)
    PROVE  Counted(out \o text, n)
<1> DEFINE new == out \o text
           L == Len(out)
           M == Len(text)
<1>1. L \in Nat /\ M \in Nat /\ DOMAIN out = 1..L /\ DOMAIN new = 1..L + M
      /\ (\A j \in 1..L : new[j] = out[j]) /\ \A j \in L + 1..L + M : new[j] = text[j - L]
  BY ConcatProperties
<1>2. \A j \in 1..M : text[j].arg = 0
  <2> TAKE j \in 1..M
  <2>1. text[j] \in PlainOne
    OBVIOUS
  <2> QED
    BY <2>1 DEF PlainOne
<1> HIDE DEF new, L, M
<1>3. ASSUME NEW j \in 1..L + M, j \notin 1..L PROVE new[j].arg = 0
  <2>1. j \in L + 1..L + M /\ j - L \in 1..M
    BY <1>1, <1>3
  <2> QED
    BY <1>1, <1>2, <2>1
<1>4. Taken(new) = Taken(out)
  <2>1. \A j \in 1..L : j \in 1..L + M
    BY <1>1
  <2> QED
    BY <1>1, <1>3, <2>1 DEF Taken
<1>5. \A j \in Taken(out) : new[j] = out[j]
  BY <1>1 DEF Taken
<1> QED
  BY <1>4, <1>5 DEF Counted, new

\* A number that is printed takes the next argument.
LEMMA CountedNumber ==
    ASSUME NEW out \in Seq(Printed), NEW n \in Nat, Counted(out, n)
    PROVE  Counted(Append(out, Number(n + 1)), n + 1)
<1> DEFINE num == Number(n + 1)
           new == Append(out, num)
           L == Len(out)
<1>1. L \in Nat /\ DOMAIN out = 1..L /\ DOMAIN new = 1..L + 1
      /\ (\A j \in 1..L : new[j] = out[j]) /\ new[L + 1] = num
  BY AppendProperties
<1>2. num.arg = n + 1
  BY DEF Number
<1>3. IsFiniteSet(Taken(out)) /\ Taken(out) \subseteq 1..L
  BY TakenFinite
<1> HIDE DEF new, L, num
<1>4. Taken(new) = Taken(out) \cup {L + 1}
  <2>1. \A j : j \in 1..L + 1 <=> j \in 1..L \/ j = L + 1
    BY <1>1
  <2>2. n + 1 # 0
    OBVIOUS
  <2> QED
    BY <1>1, <1>2, <2>1, <2>2 DEF Taken
<1>5. L + 1 \notin Taken(out)
  BY <1>1, <1>3
<1>6. Cardinality(Taken(new)) = n + 1
  BY <1>3, <1>4, <1>5, FS_AddElement DEF Counted
<1>7. ASSUME NEW j \in Taken(new) PROVE new[j].arg = Cardinality(Taken(new) \cap (1..j))
  <2>1. CASE j = L + 1
    <3>1. Taken(new) \cap (1..j) = Taken(new)
      BY <1>1, <1>3, <1>4, <2>1
    <3> QED
      BY <1>1, <1>2, <1>6, <2>1, <3>1
  <2>2. CASE j # L + 1
    <3>1. j \in Taken(out) /\ j \in 1..L
      BY <1>3, <1>4, <2>2
    <3>2. L + 1 \notin 1..j
      BY <1>1, <3>1
    <3>3. Taken(new) \cap (1..j) = Taken(out) \cap (1..j)
      BY <1>4, <3>2
    <3> QED
      BY <1>1, <3>1, <3>3 DEF Counted
  <2> QED
    BY <2>1, <2>2
<1> QED
  BY <1>6, <1>7 DEF Counted, new, num

\* A "%" is open behind an odd number of them, and every conversion that there
\* has been took an argument.
LEMMA FormatSoFar ==
    ASSUME NEW fmt \in Seq(Letter), NEW n \in 0..Len(fmt)
    PROVE  LET s == Printing(fmt)[n]
               past == {j \in Conversions(fmt) : j <= n}
           IN  s \in Printer /\ Cardinality(past) = s.args /\ Counted(s.out, s.args)
<1> DEFINE N == Len(fmt)
           f == Printing(fmt)
           past(i) == {j \in Conversions(fmt) : j <= i}
           OK(i) == /\ \E k \in 0..i : Percents(fmt, i, k) /\ (f[i].open <=> k % 2 = 1)
                    /\ IsFiniteSet(past(i)) /\ Cardinality(past(i)) = f[i].args
                    /\ Counted(f[i].out, f[i].args)
           S == {i \in 0..N : OK(i)}
<1>1. N \in Nat /\ DOMAIN fmt = 1..N /\ \A i \in 1..N : fmt[i] \in Letter
  OBVIOUS
<1>2. (\A i \in 0..N : f[i] \in Printer) /\ f[0] = [open |-> FALSE, args |-> 0, out |-> <<>>]
      /\ \A i \in 1..N : f[i] = PrintOne(fmt[i], f[i - 1])
  BY PrintingIs
<1> HIDE DEF f, N
<1>3. Conversions(fmt) \subseteq 1..N
  BY <1>1 DEF Conversions
<1>4. 0 \in S
  <2>1. Percents(fmt, 0, 0)
    BY DEF Percents
  <2>2. f[0].open = FALSE /\ f[0].args = 0 /\ f[0].out = <<>>
    BY <1>2
  <2>3. 0 % 2 # 1 /\ 0 \in 0..0 /\ 0 \in 0..N
    BY <1>1
  <2>4. past(0) = {}
    BY <1>1, <1>3
  <2>5. Taken(<<>>) = {}
    BY DEF Taken
  <2>6. IsFiniteSet({}) /\ Cardinality({}) = 0
    BY FS_EmptySet
  <2>7. Counted(<<>>, 0)
    BY <2>5, <2>6 DEF Counted
  <2> QED
    BY <2>1, <2>2, <2>3, <2>4, <2>6, <2>7
<1>5. ASSUME NEW i \in 0..N - 1, i \in S PROVE i + 1 \in S
  <2> DEFINE c == fmt[i + 1]
             s == f[i]
             r == f[i + 1]
  <2>1. i \in Nat /\ i \in 0..N /\ i + 1 \in 0..N /\ i + 1 \in 1..N /\ (i + 1) - 1 = i
    BY <1>1
  <2>2. PICK k \in 0..i : Percents(fmt, i, k) /\ (s.open <=> k % 2 = 1)
    BY <1>5
  <2>3. IsFiniteSet(past(i)) /\ Cardinality(past(i)) = s.args /\ Counted(s.out, s.args)
    BY <1>5
  <2>4. c \in Letter /\ s \in Printer /\ r = PrintOne(c, s)
    BY <1>1, <1>2, <2>1
  <2> HIDE DEF c, s, r
  <2>5. /\ r \in Printer
        /\ r.open <=> ~s.open /\ c = "%"
        /\ s.open /\ c = "d" => r.args = s.args + 1 /\ r.out = Append(s.out, Number(s.args + 1))
        /\ ~(s.open /\ c = "d") =>
             r.args = s.args /\ \E text \in Seq(PlainOne) : r.out = s.out \o text
    BY <2>4, PrintOneIs
  <2>6. i + 1 \in Conversions(fmt) <=> s.open /\ c = "d"
    <3>1. i + 1 \in Conversions(fmt) <=> c = "d" /\ \E l \in 0..i : l % 2 = 1 /\ Percents(fmt, i, l)
      BY <1>1, <2>1 DEF Conversions, c
    <3>2. \A l \in 0..i : Percents(fmt, i, l) => l = k
      BY <2>1, <2>2, PercentsOnce DEF N
    <3> QED
      BY <2>2, <3>1, <3>2
  <2>7. \E l \in 0..i + 1 : Percents(fmt, i + 1, l) /\ (r.open <=> l % 2 = 1)
    <3>1. CASE c = "%"
      <4>1. k + 1 \in 0..i + 1 /\ k \in Nat
        BY <2>1
      <4>2. Percents(fmt, i + 1, k + 1)
        <5>1. (i + 1) - (k + 1) = i - k /\ (k = i => k + 1 = i + 1)
          BY <2>1, <4>1
        <5>2. ASSUME NEW j \in (i + 1) - (k + 1) + 1..i + 1 PROVE fmt[j] = "%"
          <6>1. j = i + 1 \/ j \in i - k + 1..i
            BY <2>1, <4>1
          <6> QED
            BY <2>2, <3>1, <6>1 DEF Percents, c
        <5> QED
          BY <2>2, <5>1, <5>2 DEF Percents
      <4>3. (k + 1) % 2 = 1 <=> ~(k % 2 = 1)
        BY <4>1
      <4> QED
        BY <2>2, <2>5, <3>1, <4>1, <4>2, <4>3
    <3>2. CASE c # "%"
      <4>1. Percents(fmt, i + 1, 0)
        BY <2>1, <3>2 DEF Percents, c
      <4>2. 0 \in 0..i + 1 /\ 0 % 2 # 1
        BY <2>1
      <4> QED
        BY <2>5, <3>2, <4>1, <4>2
    <3> QED
      BY <3>1, <3>2
  <2>8. s.args \in Nat /\ s.out \in Seq(Printed) /\ r.out \in Seq(Printed)
    BY <2>4, <2>5 DEF Printer
  <2>9. \A j \in Conversions(fmt) : j <= i + 1 <=> j <= i \/ j = i + 1
    BY <1>1, <1>3, <2>1
  <2>10. CASE s.open /\ c = "d"
    <3>1. past(i + 1) = past(i) \cup {i + 1}
      BY <2>6, <2>9, <2>10
    <3>2. i + 1 \notin past(i)
      BY <2>1
    <3> HIDE DEF past
    <3>3. IsFiniteSet(past(i + 1)) /\ Cardinality(past(i + 1)) = s.args + 1
      BY <2>3, <3>1, <3>2, FS_AddElement
    <3>4. Counted(r.out, s.args + 1)
      BY <2>3, <2>5, <2>8, <2>10, CountedNumber
    <3>5. r.args = s.args + 1
      BY <2>5, <2>10
    <3> QED
      BY <2>1, <2>7, <3>3, <3>4, <3>5 DEF r
  <2>11. CASE ~(s.open /\ c = "d")
    <3>1. past(i + 1) = past(i)
      BY <2>6, <2>9, <2>11
    <3> HIDE DEF past
    <3>2. r.args = s.args
      BY <2>5, <2>11
    <3>3. PICK text \in Seq(PlainOne) : r.out = s.out \o text
      BY <2>5, <2>11
    <3>4. Counted(r.out, s.args)
      BY <2>3, <2>8, <3>3, CountedPlain
    <3> QED
      BY <2>1, <2>3, <2>7, <3>1, <3>2, <3>4 DEF r
  <2> QED
    BY <2>10, <2>11
<1>6. n \in S
  <2> HIDE DEF S
  <2>1. 0..N \subseteq S
    BY <1>1, <1>4, <1>5, Upwards
  <2> QED
    BY <2>1 DEF N
<1>7. f[n] \in Printer
  BY <1>2 DEF N
<1> QED
  BY <1>6, <1>7 DEF f

\* printf takes an argument for every conversion, one after another.
LEMMA PrintfRight ==
    ASSUME NEW fmt \in Seq(Letter)
    PROVE  LET out == printf(fmt)
           IN  /\ Cardinality(Taken(out)) = Cardinality(Conversions(fmt))
               /\ \A i \in Taken(out) : out[i].arg = Cardinality(Taken(out) \cap (1..i))
<1> DEFINE n == Len(fmt)
           s == Printing(fmt)[n]
           past == {j \in Conversions(fmt) : j <= n}
<1>1. n \in Nat /\ n \in 0..n /\ DOMAIN fmt = 1..n
  OBVIOUS
<1>2. Cardinality(past) = s.args /\ Counted(s.out, s.args)
  BY <1>1, FormatSoFar
<1>3. past = Conversions(fmt)
  BY <1>1 DEF Conversions
<1>4. printf(fmt) = s.out
  BY DEF printf
<1> HIDE DEF s, past
<1> QED
  BY <1>2, <1>3, <1>4 DEF Counted

\* What is printed by a call.
LEMMA PrintsStep == Called /\ Returns => PrintsRight'
<1> SUFFICES ASSUME Called, Returns PROVE PrintsRight'
  OBVIOUS
<1>1. CASE call.op = "printint"
  <2>1. call.x \in IntOf /\ call.base \in {10, 16}
    BY <1>1 DEF Called, MemoryCall, Calls
  <2>2. call' = call /\ ret' = <<printint(call.x, call.base)>>
    BY <1>1 DEF Returns, Memset, Memcpy, Strcpy, Compare, Split, Format, ListFind
  <2>3. LET r == printint(call.x, call.base)
        IN  /\ Value(r.digits, call.base) = (IF r.sign THEN -call.x ELSE call.x)
            /\ Head(r.digits) = 0 => Len(r.digits) = 1
    BY <2>1, PrintintRight
  <2> QED
    BY <1>1, <2>2, <2>3 DEF PrintsRight
<1>2. CASE call.op = "printptr"
  <2>1. call.x \in 0..Wrap - 1
    BY <1>2 DEF Called, MemoryCall, Calls
  <2>2. call' = call /\ ret' = <<printptr(call.x)>>
    BY <1>2 DEF Returns, Memset, Memcpy, Strcpy, Compare, Split, Format, ListFind
  <2>3. Value(printptr(call.x), 16) = call.x /\ Len(printptr(call.x)) = Nibbles
    BY <2>1, PrintptrRight
  <2> QED
    BY <1>2, <2>2, <2>3 DEF PrintsRight
<1>3. CASE call.op = "printf"
  <2>1. call.fmt \in Seq(Letter)
    <3>1. call.fmt \in Formats
      BY <1>3 DEF Called, MemoryCall, Calls
    <3>2. PICK n \in 0..MaxFormat : call.fmt \in [1..n -> Letter]
      BY <3>1 DEF Formats, Letter
    <3>3. n \in Nat
      BY HelpersAssumption
    <3> QED
      BY <3>2, <3>3
  <2>2. call' = call /\ ret' = <<printf(call.fmt)>>
    BY <1>3 DEF Returns, Memset, Memcpy, Strcpy, Compare, Split, Format, ListFind
  <2>3. LET out == printf(call.fmt)
        IN  /\ Cardinality(Taken(out)) = Cardinality(Conversions(call.fmt))
            /\ \A i \in Taken(out) : out[i].arg = Cardinality(Taken(out) \cap (1..i))
    BY <2>1, PrintfRight
  <2> QED
    BY <1>3, <2>2, <2>3 DEF PrintsRight
<1>4. CASE call.op \notin {"printint", "printptr", "printf"}
  <2>1. call' = call
    BY DEF Returns, ListFind
  <2> QED
    BY <1>4, <2>1 DEF PrintsRight
<1> QED
  BY <1>1, <1>2, <1>3, <1>4

\* printint prints every int, the least one included, printptr every pointer,
\* and printf takes an argument for every conversion and for nothing else, for
\* every width, every base it is called with, and every format (io.c:27-113).
THEOREM NumbersPrinted == OneCall => []PrintsRight
<1>1. Called => (ret = <<>> => Called) /\ PrintsRight
  BY DEF Called, PrintsRight
<1>2. (ret = <<>> => Called) /\ PrintsRight /\ [Returns]_callVars => PrintsRight'
  <2> SUFFICES ASSUME ret = <<>> => Called, PrintsRight, [Returns]_callVars PROVE PrintsRight'
    OBVIOUS
  <2>1. CASE UNCHANGED callVars
    BY <2>1 DEF callVars, PrintsRight
  <2>2. CASE Returns
    <3>1. Called
      BY <2>2 DEF Returns
    <3> QED
      BY <2>2, <3>1, PrintsStep
  <2> QED
    BY <2>1, <2>2
<1> QED
  BY <1>1, <1>2, CalledOnce, PTL DEF OneCall

-----------------------------------------------------------------------------
(* Pieces of a string. *)

Cell == Char \cup {0}
Rows == {rows \in Seq(Seq(Cell)) : Len(rows) >= 1}
Splitter == [k : Nat, rows : Rows]

\* A turn of split.
SplitOne(m, str, delim, skip, s) ==
    LET last == Len(s.rows)
    IN  IF s.k >= strlen(m, str) THEN s
        ELSE IF strncmp(m, str + s.k, delim, strlen(m, delim)) = 1
        THEN [k |-> s.k + 1, rows |-> [s.rows EXCEPT ![last] = Append(@, m[str + s.k])]]
        ELSE [k |-> s.k + skip, rows |-> Append([s.rows EXCEPT ![last] = Append(@, 0)], <<>>)]

SplitTurn(m, str, delim, skip, f) ==
    f = [t \in 0..Size |-> IF t = 0 THEN [k |-> 0, rows |-> <<<<>>>>] ELSE SplitOne(m, str, delim, skip, f[t - 1])]

\* The last row gets a cell.
LEMMA RowExtended ==
    ASSUME NEW rows \in Rows, NEW c \in Cell
    PROVE  LET last == Len(rows)
               new == [rows EXCEPT ![last] = Append(@, c)]
           IN  /\ last \in Nat \ {0} /\ new \in Rows /\ Len(new) = last
               /\ \A j \in 1..last - 1 : new[j] = rows[j]
               /\ rows[last] \in Seq(Cell) /\ new[last] = Append(rows[last], c)
<1> DEFINE last == Len(rows)
           row == Append(rows[last], c)
           new == [rows EXCEPT ![last] = row]
<1>1. rows \in Seq(Seq(Cell)) /\ last \in Nat /\ last >= 1 /\ DOMAIN rows = 1..last
  BY DEF Rows
<1>2. rows[last] \in Seq(Cell)
  BY <1>1
<1>3. row \in Seq(Cell)
  BY <1>2
<1> HIDE DEF row
<1>4. new \in Seq(Seq(Cell)) /\ Len(new) = last
  <2>1. rows \in [1..last -> Seq(Cell)]
    BY <1>1
  <2>2. new \in [1..last -> Seq(Cell)]
    BY <1>3, <2>1
  <2> HIDE DEF new, last
  <2> QED
    BY <1>1, <2>2
<1>5. new[last] = row /\ \A j \in 1..last - 1 : new[j] = rows[j]
  <2> HIDE DEF last
  <2>1. last \in 1..last /\ \A j \in 1..last - 1 : j \in 1..last /\ j # last
    BY <1>1
  <2> QED
    BY <1>1, <2>1
<1>6. new = [rows EXCEPT ![Len(rows)] = Append(@, c)]
  BY DEF row
<1>7. new \in Rows
  BY <1>1, <1>4 DEF Rows
<1>8. new[last] = Append(rows[last], c)
  BY <1>5 DEF row
<1>9. last \in Nat \ {0}
  BY <1>1
<1> HIDE DEF new
<1> QED
  BY <1>2, <1>4, <1>5, <1>6, <1>7, <1>8, <1>9

\* A row is added.
LEMMA RowAdded ==
    ASSUME NEW rows \in Rows
    PROVE  LET new == Append(rows, <<>>)
           IN  /\ new \in Rows /\ Len(new) = Len(rows) + 1 /\ new[Len(rows) + 1] = <<>>
               /\ \A j \in 1..Len(rows) : new[j] = rows[j]
<1>1. rows \in Seq(Seq(Cell)) /\ Len(rows) \in Nat /\ Len(rows) >= 1 /\ <<>> \in Seq(Cell)
  BY DEF Rows
<1> HIDE DEF Cell
<1>2. Append(rows, <<>>) \in Seq(Seq(Cell)) /\ Len(Append(rows, <<>>)) = Len(rows) + 1
  BY <1>1
<1> QED
  BY <1>1, <1>2 DEF Rows

\* A tail of a string is one.
LEMMA TailIs ==
    ASSUME NEW m \in Mem, NEW p \in Addr, HasEnd(m, p), NEW x \in 0..strlen(m, p)
    PROVE  p + x \in Addr /\ HasEnd(m, p + x) /\ strlen(m, p + x) = strlen(m, p) - x
<1> DEFINE n == strlen(m, p)
<1>1. n \in Nat /\ p + n \in Addr /\ m[p + n] = 0 /\ \A i \in 0..n - 1 : p + i \in Addr /\ m[p + i] # 0
  BY StrlenIs
<1>0. x \in 0..n
  OBVIOUS
<1> HIDE DEF n
<1>2. p \in Nat /\ \A a \in Addr : a \in Nat
  BY HelpersAssumption DEF Addr
<1>3. x \in Nat /\ x <= n /\ n - x \in Nat /\ (p + x) + (n - x) = p + n
  BY <1>0, <1>1, <1>2
<1>4. p + x \in Addr
  <2>1. x = n \/ x \in 0..n - 1
    BY <1>1, <1>3
  <2> QED
    BY <1>1, <2>1
<1>5. HasEnd(m, p + x)
  BY <1>1, <1>2, <1>3 DEF HasEnd
<1>6. \A i \in 0..(n - x) - 1 : m[(p + x) + i] # 0
  <2> TAKE i \in 0..(n - x) - 1
  <2>1. x + i \in 0..n - 1 /\ (p + x) + i = p + (x + i)
    BY <1>1, <1>2, <1>3
  <2> QED
    BY <1>1, <2>1
<1>7. strlen(m, p + x) = n - x
  BY <1>1, <1>3, <1>4, <1>6, StrlenFirst
<1> QED
  BY <1>4, <1>5, <1>7 DEF n

\* split is what its turns make of its start.
LEMMA SplittingIs ==
    ASSUME NEW m \in Mem, NEW p \in Addr, NEW q \in Addr, HasEnd(m, p), HasEnd(m, q)
    PROVE  LET skip == strlen(m, q)
               f == Splitting(m, p, q, skip)
           IN  /\ \A t \in 0..Size : f[t] \in Splitter
               /\ f[0] = [k |-> 0, rows |-> <<<<>>>>]
               /\ \A t \in 1..Size : f[t] = SplitOne(m, p, q, skip, f[t - 1])
<1> DEFINE skip == strlen(m, q)
           start == [k |-> 0, rows |-> <<<<>>>>]
           step == [z \in (1..Size) \X Splitter |-> SplitOne(m, p, q, skip, z[2])]
           g == CHOOSE g : SplitTurn(m, p, q, skip, g)
<1>1. Size \in Nat /\ skip \in Nat
  BY HelpersAssumption, StrlenIs
<1>2. start \in Splitter
  <2>1. <<<<>>>> \in Seq(Seq(Cell)) /\ Len(<<<<>>>>) = 1
    OBVIOUS
  <2> QED
    BY <2>1 DEF Splitter, Rows
<1>3. ASSUME NEW s \in Splitter PROVE SplitOne(m, p, q, skip, s) \in Splitter
  <2>1. s.k \in Nat /\ s.rows \in Rows
    BY DEF Splitter
  <2>2. CASE s.k >= strlen(m, p)
    BY <2>2 DEF SplitOne
  <2>3. CASE s.k < strlen(m, p) /\ strncmp(m, p + s.k, q, skip) = 1
    <3> DEFINE rows == [s.rows EXCEPT ![Len(s.rows)] = Append(@, m[p + s.k])]
    <3>1. m[p + s.k] \in Cell
      <4>1. s.k \in 0..strlen(m, p) - 1
        BY <2>1, <2>3, StrlenIs
      <4> QED
        BY <4>1, StrlenIs DEF Cell
    <3>2. rows \in Rows
      BY <2>1, <3>1, RowExtended
    <3>3. SplitOne(m, p, q, skip, s) = [k |-> s.k + 1, rows |-> rows]
      <4>1. ~(s.k >= strlen(m, p))
        BY <2>1, <2>3, StrlenIs
      <4> QED
        BY <2>3, <4>1 DEF SplitOne
    <3> HIDE DEF rows
    <3> QED
      BY <2>1, <3>2, <3>3 DEF Splitter
  <2>4. CASE s.k < strlen(m, p) /\ strncmp(m, p + s.k, q, skip) # 1
    <3> DEFINE ended == [s.rows EXCEPT ![Len(s.rows)] = Append(@, 0)]
    <3>1. ended \in Rows
      <4>1. 0 \in Cell
        BY DEF Cell
      <4> QED
        BY <2>1, <4>1, RowExtended
    <3>2. SplitOne(m, p, q, skip, s) = [k |-> s.k + skip, rows |-> Append(ended, <<>>)]
      <4>1. ~(s.k >= strlen(m, p))
        BY <2>1, <2>4, StrlenIs
      <4> QED
        BY <2>4, <4>1 DEF SplitOne
    <3> HIDE DEF ended
    <3>3. Append(ended, <<>>) \in Rows
      BY <3>1, RowAdded
    <3> QED
      BY <1>1, <2>1, <3>2, <3>3 DEF Splitter
  <2>5. s.k < strlen(m, p) \/ s.k >= strlen(m, p)
    BY <2>1, StrlenIs
  <2> QED
    BY <2>2, <2>3, <2>4, <2>5
<1>4. Splitting(m, p, q, skip) = g
  BY DEF Splitting, SplitTurn, SplitOne
<1>5. \A f : SplitTurn(m, p, q, skip, f) <=> f = [t \in 0..Size |-> IF t = 0 THEN start ELSE SplitOne(m, p, q, skip, f[t - 1])]
  BY DEF SplitTurn
<1> HIDE DEF skip, start, g
<1>6. step \in [(1..Size) \X Splitter -> Splitter]
      /\ \A t \in 1..Size, s \in Splitter : step[<<t, s>>] = SplitOne(m, p, q, skip, s)
  BY <1>3
<1> HIDE DEF step
<1>7. PICK f \in [0..Size -> Splitter] : Turns(Size, start, step, f)
  BY <1>1, <1>2, <1>6, Loop
<1>8. \A t \in 0..Size : f[t] = IF t = 0 THEN start ELSE SplitOne(m, p, q, skip, f[t - 1])
  <2> TAKE t \in 0..Size
  <2>1. t # 0 => t \in 1..Size /\ t - 1 \in 0..Size
    BY <1>1
  <2> QED
    BY <1>6, <1>7, <2>1 DEF Turns
<1>9. SplitTurn(m, p, q, skip, f)
  BY <1>5, <1>8
<1>10. SplitTurn(m, p, q, skip, g)
  BY <1>9 DEF g
<1>11. g = [t \in 0..Size |-> IF t = 0 THEN start ELSE SplitOne(m, p, q, skip, g[t - 1])]
  BY <1>5, <1>10
<1>12. g[0] = start /\ \A t \in 1..Size : g[t] = SplitOne(m, p, q, skip, g[t - 1])
  BY <1>1, <1>11
<1> DEFINE S == {t \in 0..Size : g[t] \in Splitter}
<1>13. 0 \in S
  BY <1>1, <1>2, <1>12
<1>14. ASSUME NEW t \in 0..Size - 1, t \in S PROVE t + 1 \in S
  <2>1. t + 1 \in 0..Size /\ t + 1 \in 1..Size /\ (t + 1) - 1 = t /\ g[t] \in Splitter
    BY <1>1, <1>14
  <2>2. g[t + 1] = SplitOne(m, p, q, skip, g[t])
    BY <1>12, <2>1
  <2> QED
    BY <1>3, <2>1, <2>2
<1>15. \A t \in 0..Size : g[t] \in Splitter
  <2> HIDE DEF S
  <2>1. 0..Size \subseteq S
    BY <1>1, <1>13, <1>14, Upwards
  <2> QED
    BY <2>1 DEF S
<1> QED
  BY <1>4, <1>12, <1>15 DEF start, skip

\* The pieces begin at "at" in the string, have its characters, which no
\* delimiter begins at, and each but the last one ends at a delimiter.
SplitAt(m, p, q, s, at) ==
    LET n == strlen(m, p)
        skip == strlen(m, q)
        last == Len(s.rows)
    IN  /\ at \in Seq(Nat) /\ Len(at) = last /\ at[1] = 0
        /\ \A j \in 1..last - 1 :
            /\ at[j + 1] = at[j] + PieceSize(s.rows, j) + skip
            /\ Len(s.rows[j]) >= 1 /\ s.rows[j][Len(s.rows[j])] = 0
            /\ at[j] + PieceSize(s.rows, j) < n
            /\ strncmp(m, p + (at[j] + PieceSize(s.rows, j)), q, skip) # 1
        /\ s.k = at[last] + Len(s.rows[last]) /\ s.k < n + skip
        /\ \A j \in 1..last : \A i \in 1..PieceSize(s.rows, j) :
            /\ at[j] + i <= n /\ s.rows[j][i] = m[p + (at[j] + i - 1)]
            /\ strncmp(m, p + (at[j] + i - 1), q, skip) = 1

\* A turn adds a character to the last piece, or ends it and begins another
\* one behind the delimiter; it reads on in both cases.
LEMMA SplitAtStep ==
    ASSUME NEW m \in Mem, NEW p \in Addr, NEW q \in Addr, HasEnd(m, p), HasEnd(m, q), m[q] # 0,
           NEW s \in Splitter, NEW at, SplitAt(m, p, q, s, at)
    PROVE  LET r == SplitOne(m, p, q, strlen(m, q), s)
           IN  /\ \E new : SplitAt(m, p, q, r, new)
               /\ s.k >= strlen(m, p) \/ r.k >= s.k + 1
<1> DEFINE n == strlen(m, p)
           skip == strlen(m, q)
           rows == s.rows
           last == Len(s.rows)
           r == SplitOne(m, p, q, skip, s)
           size(j) == PieceSize(rows, j)
<1>1. n \in Nat /\ \A i \in 0..n - 1 : m[p + i] \in Cell
  BY StrlenIs DEF Cell
<1>2. skip \in Nat /\ skip >= 1
  <2>1. skip \in Nat /\ m[q + skip] = 0 /\ q \in Nat
    BY StrlenIs, HelpersAssumption DEF Addr
  <2>2. skip # 0
    BY <2>1
  <2> QED
    BY <2>1, <2>2
<1>3. s.k \in Nat /\ rows \in Rows /\ rows \in Seq(Seq(Cell)) /\ last \in Nat /\ last >= 1
  BY DEF Splitter, Rows
<1>4. \A j \in 1..last : Len(rows[j]) \in Nat
  BY <1>3
<1> HIDE DEF n, skip
<1>5. /\ at \in Seq(Nat) /\ Len(at) = last /\ at[1] = 0
      /\ \A j \in 1..last - 1 :
            /\ at[j + 1] = at[j] + size(j) + skip
            /\ Len(rows[j]) >= 1 /\ rows[j][Len(rows[j])] = 0
            /\ at[j] + size(j) < n
            /\ strncmp(m, p + (at[j] + size(j)), q, skip) # 1
      /\ s.k = at[last] + Len(rows[last]) /\ s.k < n + skip
      /\ \A j \in 1..last : \A i \in 1..size(j) :
            /\ at[j] + i <= n /\ rows[j][i] = m[p + (at[j] + i - 1)]
            /\ strncmp(m, p + (at[j] + i - 1), q, skip) = 1
  BY DEF SplitAt, n, skip
<1>6. /\ \A j \in 1..last - 1 : size(j) = Len(rows[j]) - 1
      /\ size(last) = Len(rows[last])
      /\ \A j \in 1..last : at[j] \in Nat
  <2>1. \A j \in 1..last - 1 : j < last
    BY <1>3
  <2>2. \A j \in 1..last - 1 : size(j) = Len(rows[j]) - 1
    BY <2>1 DEF PieceSize
  <2>3. ~(last < last)
    BY <1>3
  <2>4. size(last) = Len(rows[last])
    BY <2>3 DEF PieceSize
  <2>5. \A j \in 1..last : at[j] \in Nat
    BY <1>5
  <2> HIDE DEF size, last
  <2> QED
    BY <2>2, <2>4, <2>5
<1> HIDE DEF rows, size
<1>7. CASE s.k >= n
  <2>1. r = s
    BY <1>7 DEF SplitOne, n
  <2> QED
    BY <1>7, <2>1 DEF n, skip
<1>8. CASE ~(s.k >= n) /\ strncmp(m, p + s.k, q, skip) = 1
  <2> DEFINE c == m[p + s.k]
             new == [rows EXCEPT ![last] = Append(@, c)]
  <2>1. c \in Cell
    BY <1>1, <1>3, <1>8
  <2>2. r = [k |-> s.k + 1, rows |-> new]
    BY <1>8 DEF SplitOne, n, skip, rows
  <2>3. r.k = s.k + 1 /\ r.rows = new
    BY <2>2
  <2> HIDE DEF c
  <2>4. /\ new \in Rows /\ Len(new) = last
        /\ \A j \in 1..last - 1 : new[j] = rows[j]
        /\ rows[last] \in Seq(Cell) /\ new[last] = Append(rows[last], c)
    BY <1>3, <2>1, RowExtended DEF rows
  <2> HIDE DEF new, r
  <2>5. /\ Len(new[last]) = Len(rows[last]) + 1 /\ new[last][Len(rows[last]) + 1] = c
        /\ \A i \in 1..Len(rows[last]) : new[last][i] = rows[last][i]
    BY <2>1, <2>4
  <2>6. (\A j \in 1..last - 1 : PieceSize(new, j) = size(j)) /\ PieceSize(new, last) = size(last) + 1
    <3>1. ASSUME NEW j \in 1..last - 1 PROVE PieceSize(new, j) = size(j)
      <4>1. j < Len(new) /\ new[j] = rows[j]
        BY <1>3, <2>4
      <4> QED
        BY <1>6, <4>1 DEF PieceSize
    <3>2. PieceSize(new, last) = Len(new[last])
      <4>1. ~(last < Len(new))
        BY <1>3, <2>4
      <4> QED
        BY <4>1 DEF PieceSize
    <3> QED
      BY <1>6, <2>5, <3>1, <3>2
  <2>7. ASSUME NEW j \in 1..last, NEW i \in 1..PieceSize(new, j)
        PROVE  /\ at[j] + i <= n /\ new[j][i] = m[p + (at[j] + i - 1)]
               /\ strncmp(m, p + (at[j] + i - 1), q, skip) = 1
    <3>1. CASE j # last
      <4>1. j \in 1..last - 1 /\ i \in 1..size(j) /\ new[j] = rows[j]
        BY <1>3, <2>4, <2>6, <3>1
      <4> QED
        BY <1>5, <4>1
    <3>2. CASE j = last /\ i # Len(rows[last]) + 1
      <4>1. i \in 1..size(last) /\ i \in 1..Len(rows[last])
        BY <1>3, <1>4, <1>6, <2>6, <3>2
      <4> QED
        BY <1>5, <2>5, <3>2, <4>1
    <3>3. CASE j = last /\ i = Len(rows[last]) + 1
      <4>0. at[last] \in Nat /\ Len(rows[last]) \in Nat /\ s.k = at[last] + Len(rows[last])
        <5>1. last \in 1..last
          BY <1>3
        <5> QED
          BY <1>4, <1>5, <1>6, <5>1
      <4>1. at[last] + i - 1 = s.k /\ at[last] + i <= n
        BY <1>1, <1>3, <1>8, <3>3, <4>0
      <4> QED
        BY <1>8, <2>5, <3>3, <4>1 DEF c
    <3> QED
      BY <3>1, <3>2, <3>3
  <2>8. r.k = at[last] + Len(new[last]) /\ r.k < n + skip
    <3>1. at[last] \in Nat /\ Len(rows[last]) \in Nat
      BY <1>3, <1>4, <1>6
    <3>2. s.k + 1 <= n
      BY <1>1, <1>3, <1>8
    <3>3. s.k = at[last] + Len(rows[last])
      BY <1>5
    <3>4. r.k = s.k + 1 /\ Len(new[last]) = Len(rows[last]) + 1
      BY <2>3, <2>5
    <3>5. s.k + 1 = at[last] + (Len(rows[last]) + 1)
      BY <3>1, <3>3
    <3>6. s.k + 1 < n + skip
      BY <1>1, <1>2, <1>3, <3>2
    <3> QED
      BY <3>4, <3>5, <3>6
  <2>9. \A j \in 1..last - 1 :
            /\ at[j + 1] = at[j] + PieceSize(new, j) + skip
            /\ Len(new[j]) >= 1 /\ new[j][Len(new[j])] = 0
            /\ at[j] + PieceSize(new, j) < n
            /\ strncmp(m, p + (at[j] + PieceSize(new, j)), q, skip) # 1
    BY <1>5, <2>4, <2>6
  <2>10. SplitAt(m, p, q, r, at)
    BY <1>5, <2>3, <2>4, <2>7, <2>8, <2>9 DEF SplitAt, n, skip
  <2> QED
    BY <1>3, <2>3, <2>10 DEF r, skip
<1>9. CASE ~(s.k >= n) /\ strncmp(m, p + s.k, q, skip) # 1
  <2> DEFINE ended == [rows EXCEPT ![last] = Append(@, 0)]
             new == Append(ended, <<>>)
             to == Append(at, s.k + skip)
  <2>1. r = [k |-> s.k + skip, rows |-> new]
    BY <1>9 DEF SplitOne, n, skip, rows
  <2>2. r.k = s.k + skip /\ r.rows = new
    BY <2>1
  <2>3. /\ ended \in Rows /\ Len(ended) = last
        /\ \A j \in 1..last - 1 : ended[j] = rows[j]
        /\ rows[last] \in Seq(Cell) /\ ended[last] = Append(rows[last], 0)
    <3>1. 0 \in Cell
      BY DEF Cell
    <3> QED
      BY <1>3, <3>1, RowExtended DEF rows
  <2> HIDE DEF ended
  <2>4. new \in Rows /\ Len(new) = last + 1 /\ new[last + 1] = <<>> /\ \A j \in 1..last : new[j] = ended[j]
    BY <2>3, RowAdded
  <2>5. /\ \A j \in 1..last - 1 : new[j] = rows[j]
        /\ Len(new[last]) = Len(rows[last]) + 1 /\ new[last][Len(rows[last]) + 1] = 0
        /\ \A i \in 1..Len(rows[last]) : new[last][i] = rows[last][i]
    <3>1. last \in 1..last /\ \A j \in 1..last - 1 : j \in 1..last
      BY <1>3
    <3>2. new[last] = Append(rows[last], 0)
      BY <2>3, <2>4, <3>1
    <3>3. 0 \in Cell
      BY DEF Cell
    <3> HIDE DEF new
    <3>4. /\ Len(new[last]) = Len(rows[last]) + 1 /\ new[last][Len(rows[last]) + 1] = 0
          /\ \A i \in 1..Len(rows[last]) : new[last][i] = rows[last][i]
      BY <2>3, <3>2, <3>3
    <3> QED
      BY <2>3, <2>4, <3>1, <3>4
  <2>6. to \in Seq(Nat) /\ Len(to) = last + 1 /\ to[last + 1] = s.k + skip /\ \A j \in 1..last : to[j] = at[j]
    <3>1. s.k + skip \in Nat
      BY <1>2, <1>3
    <3> QED
      BY <1>5, <3>1, AppendProperties
  <2> HIDE DEF new, r, to
  <2>7. (\A j \in 1..last : PieceSize(new, j) = size(j)) /\ PieceSize(new, last + 1) = 0 /\ Len(new[last + 1]) = 0
    <3>1. ASSUME NEW j \in 1..last - 1 PROVE PieceSize(new, j) = size(j)
      <4>1. j < last + 1
        BY <1>3
      <4> QED
        BY <1>6, <2>4, <2>5, <4>1 DEF PieceSize
    <3>2. PieceSize(new, last) = size(last)
      <4>1. Len(rows[last]) \in Nat /\ last < last + 1
        BY <1>3, <1>4
      <4> QED
        BY <1>6, <2>4, <2>5, <4>1 DEF PieceSize
    <3>3. PieceSize(new, last + 1) = 0 /\ Len(new[last + 1]) = 0
      BY <1>3, <2>4 DEF PieceSize
    <3>4. \A j \in 1..last : j = last \/ j \in 1..last - 1
      BY <1>3
    <3> QED
      BY <3>1, <3>2, <3>3, <3>4
  <2>8. ASSUME NEW j \in 1..last
        PROVE  /\ to[j + 1] = to[j] + PieceSize(new, j) + skip
               /\ Len(new[j]) >= 1 /\ new[j][Len(new[j])] = 0
               /\ to[j] + PieceSize(new, j) < n
               /\ strncmp(m, p + (to[j] + PieceSize(new, j)), q, skip) # 1
    <3>1. CASE j # last
      <4>1. j \in 1..last - 1 /\ j + 1 \in 1..last
        BY <1>3, <3>1
      <4>2. to[j] = at[j] /\ to[j + 1] = at[j + 1] /\ PieceSize(new, j) = size(j) /\ new[j] = rows[j]
        BY <2>5, <2>6, <2>7, <4>1
      <4>3. /\ at[j + 1] = at[j] + size(j) + skip
            /\ Len(rows[j]) >= 1 /\ rows[j][Len(rows[j])] = 0
            /\ at[j] + size(j) < n
            /\ strncmp(m, p + (at[j] + size(j)), q, skip) # 1
        BY <1>5, <4>1
      <4> QED
        BY <4>2, <4>3
    <3>2. CASE j = last
      <4>1. to[j] + PieceSize(new, j) = s.k /\ to[j + 1] = s.k + skip
        BY <1>5, <1>6, <2>6, <2>7, <3>2
      <4>2. s.k < n
        BY <1>1, <1>3, <1>9
      <4>3. Len(new[j]) >= 1 /\ new[j][Len(new[j])] = 0
        BY <1>4, <2>5, <3>2
      <4> QED
        BY <1>9, <4>1, <4>2, <4>3
    <3> QED
      BY <3>1, <3>2
  <2>9. ASSUME NEW j \in 1..last + 1, NEW i \in 1..PieceSize(new, j)
        PROVE  /\ to[j] + i <= n /\ new[j][i] = m[p + (to[j] + i - 1)]
               /\ strncmp(m, p + (to[j] + i - 1), q, skip) = 1
    <3>1. j \in 1..last
      BY <1>3, <2>7
    <3>2. i \in 1..size(j) /\ to[j] = at[j]
      BY <2>6, <2>7, <3>1
    <3>3. new[j][i] = rows[j][i]
      <4>1. CASE j = last
        BY <1>6, <2>5, <3>2, <4>1
      <4>2. CASE j # last
        <5>1. j \in 1..last - 1
          BY <1>3, <3>1, <4>2
        <5> QED
          BY <2>5, <5>1
      <4> QED
        BY <4>1, <4>2
    <3> QED
      BY <1>5, <3>1, <3>2, <3>3
  <2>10. r.k = to[last + 1] + Len(new[last + 1]) /\ r.k < n + skip
    BY <1>1, <1>2, <1>3, <1>9, <2>2, <2>6, <2>7
  <2>11. to[1] = 0
    BY <1>3, <1>5, <2>6
  <2>12. SplitAt(m, p, q, r, to)
    <3>1. (last + 1) - 1 = last
      BY <1>3
    <3> QED
      BY <2>2, <2>4, <2>6, <2>8, <2>9, <2>10, <2>11, <3>1 DEF SplitAt, n, skip
  <2> QED
    BY <1>2, <1>3, <2>2, <2>12 DEF r, skip
<1> QED
  BY <1>7, <1>8, <1>9

\* Every turn reads on.
LEMMA SplitSoFar ==
    ASSUME NEW m \in Mem, NEW p \in Addr, NEW q \in Addr, HasEnd(m, p), HasEnd(m, q), m[q] # 0
    PROVE  \E s \in Splitter : /\ split(m, p, q).rows = s.rows /\ s.k >= strlen(m, p)
                               /\ \E at : SplitAt(m, p, q, s, at)
<1> DEFINE n == strlen(m, p)
           skip == strlen(m, q)
           f == Splitting(m, p, q, skip)
           OK(t) == /\ \E at : SplitAt(m, p, q, f[t], at)
                    /\ f[t].k >= t \/ f[t].k >= n
           S == {t \in 0..Size : OK(t)}
<1>1. Size \in Nat /\ n \in Nat /\ n < Size /\ skip \in Nat /\ skip # 0
  <2>1. Size \in Nat /\ p \in Nat /\ q \in Nat /\ Addr = 0..Size - 1
    BY HelpersAssumption DEF Addr
  <2>2. n \in Nat /\ p + n \in Addr /\ skip \in Nat /\ m[q + skip] = 0
    BY StrlenIs
  <2> HIDE DEF n, skip
  <2>3. skip # 0
    BY <2>1, <2>2
  <2> QED
    BY <2>1, <2>2, <2>3
<1>2. /\ \A t \in 0..Size : f[t] \in Splitter
      /\ f[0] = [k |-> 0, rows |-> <<<<>>>>]
      /\ \A t \in 1..Size : f[t] = SplitOne(m, p, q, skip, f[t - 1])
  BY SplittingIs
<1>3. split(m, p, q).rows = f[Size].rows
  BY DEF split
<1> HIDE DEF f, n, skip
<1>4. 0 \in S
  <2> DEFINE rows == <<<<>>>>
             at == <<0>>
  <2>1. f[0].k = 0 /\ f[0].rows = rows
    BY <1>2
  <2>2. at \in Seq(Nat) /\ Len(at) = 1 /\ at[1] = 0 /\ Len(rows) = 1 /\ rows[1] = <<>> /\ Len(rows[1]) = 0
    OBVIOUS
  <2>3. PieceSize(rows, 1) = 0
    BY <2>2 DEF PieceSize
  <2> HIDE DEF rows, at
  <2>4. \A j \in 1..1 : \A i \in 1..PieceSize(rows, j) : FALSE
    BY <2>3
  <2>5. 1..1 - 1 = {} /\ 0 < n + skip /\ 0 + 0 = 0
    BY <1>1
  <2>6. SplitAt(m, p, q, f[0], at)
    BY <2>1, <2>2, <2>4, <2>5 DEF SplitAt, n, skip
  <2>7. f[0].k >= 0 /\ 0 \in 0..Size
    BY <1>1, <2>1
  <2> QED
    BY <2>6, <2>7
<1>5. ASSUME NEW t \in 0..Size - 1, t \in S PROVE t + 1 \in S
  <2>1. t \in Nat /\ t \in 0..Size /\ t + 1 \in 0..Size /\ t + 1 \in 1..Size /\ (t + 1) - 1 = t
    BY <1>1
  <2>2. f[t] \in Splitter /\ f[t + 1] = SplitOne(m, p, q, skip, f[t]) /\ f[t + 1] \in Splitter
    BY <1>2, <2>1
  <2>3. PICK at : SplitAt(m, p, q, f[t], at)
    BY <1>5
  <2>4. (\E new : SplitAt(m, p, q, f[t + 1], new)) /\ (f[t].k >= n \/ f[t + 1].k >= f[t].k + 1)
    BY <2>2, <2>3, SplitAtStep DEF n, skip
  <2>5. f[t].k >= n => f[t + 1] = f[t]
    BY <2>2 DEF SplitOne, n
  <2>6. f[t].k \in Nat /\ f[t + 1].k \in Nat
    BY <2>2 DEF Splitter
  <2>7. f[t + 1].k >= t + 1 \/ f[t + 1].k >= n
    <3>1. f[t].k >= t \/ f[t].k >= n
      BY <1>5
    <3> QED
      BY <1>1, <2>1, <2>4, <2>5, <2>6, <3>1
  <2> QED
    BY <2>1, <2>4, <2>7
<1>6. OK(Size)
  <2> HIDE DEF S, OK
  <2>1. 0..Size \subseteq S
    BY <1>1, <1>4, <1>5, Upwards
  <2>2. Size \in S
    BY <1>1, <2>1
  <2> QED
    BY <2>2 DEF S
<1>7. f[Size] \in Splitter /\ f[Size].k \in Nat
  <2>1. Size \in 0..Size
    BY <1>1
  <2> QED
    BY <1>2, <2>1 DEF Splitter
<1>8. f[Size].k >= n
  BY <1>1, <1>6, <1>7
<1> QED
  BY <1>3, <1>6, <1>7, <1>8 DEF n

\* Where the pieces begin is where the loop read them.
FromTurn(rows, gap, f) == f = [j \in DOMAIN rows |-> IF j = 1 THEN 0 ELSE f[j - 1] + PieceSize(rows, j - 1) + gap]

\* PieceFrom is where the loop began the pieces.
LEMMA PieceFromIs ==
    ASSUME NEW rows \in Rows, NEW gap \in Nat, NEW at \in Seq(Nat), Len(at) = Len(rows), at[1] = 0,
           \A j \in 1..Len(rows) - 1 : at[j + 1] = at[j] + PieceSize(rows, j) + gap
    PROVE  \A j \in 1..Len(rows) : PieceFrom(rows, gap)[j] = at[j]
<1> DEFINE last == Len(rows)
           g == CHOOSE g : FromTurn(rows, gap, g)
           S == {i \in 0..last - 1 : g[i + 1] = at[i + 1]}
<1>1. last \in Nat /\ last >= 1 /\ DOMAIN rows = 1..last
  BY DEF Rows
<1>2. PieceFrom(rows, gap) = g
  BY DEF PieceFrom, FromTurn
<1> HIDE DEF last, g
<1>3. FromTurn(rows, gap, at)
  <2> DEFINE h == [j \in 1..last |-> IF j = 1 THEN 0 ELSE at[j - 1] + PieceSize(rows, j - 1) + gap]
  <2>1. \A j \in 1..last : at[j] = h[j]
    <3> TAKE j \in 1..last
    <3>1. CASE j = 1
      BY <3>1
    <3>2. CASE j # 1
      <4>1. j - 1 \in 1..last - 1 /\ (j - 1) + 1 = j
        BY <1>1, <3>2
      <4>2. at[(j - 1) + 1] = at[j - 1] + PieceSize(rows, j - 1) + gap
        BY <4>1 DEF last
      <4> QED
        BY <3>2, <4>1, <4>2
    <3> QED
      BY <3>1, <3>2
  <2>2. at = [j \in 1..last |-> at[j]]
    BY <1>1 DEF last
  <2>3. h = [j \in 1..last |-> h[j]]
    OBVIOUS
  <2>4. at = h
    <3> HIDE DEF h
    <3> QED
      BY <2>1, <2>2, <2>3
  <2> QED
    BY <1>1, <2>4 DEF FromTurn
<1>4. FromTurn(rows, gap, g)
  BY <1>3 DEF g
<1>5. \A j \in 1..last : g[j] = IF j = 1 THEN 0 ELSE g[j - 1] + PieceSize(rows, j - 1) + gap
  BY <1>1, <1>4 DEF FromTurn
<1>6. 0 \in S
  BY <1>1, <1>5
<1>7. ASSUME NEW i \in 0..(last - 1) - 1, i \in S PROVE i + 1 \in S
  <2>1. i + 1 \in 1..last - 1 /\ (i + 1) + 1 \in 1..last /\ (i + 1) + 1 # 1 /\ ((i + 1) + 1) - 1 = i + 1
        /\ i + 1 \in 0..last - 1
    BY <1>1
  <2>2. g[(i + 1) + 1] = g[i + 1] + PieceSize(rows, i + 1) + gap
    BY <1>5, <2>1
  <2>3. at[(i + 1) + 1] = at[i + 1] + PieceSize(rows, i + 1) + gap
    BY <2>1 DEF last
  <2> QED
    BY <1>7, <2>1, <2>2, <2>3
<1>8. \A j \in 1..last : g[j] = at[j]
  <2> HIDE DEF S
  <2>1. last - 1 \in Nat
    BY <1>1
  <2>2. 0..last - 1 \subseteq S
    BY <1>6, <1>7, <2>1, Upwards
  <2> TAKE j \in 1..last
  <2>3. j - 1 \in 0..last - 1 /\ (j - 1) + 1 = j
    BY <1>1
  <2> QED
    BY <2>2, <2>3 DEF S
<1> QED
  BY <1>2, <1>8 DEF last

\* A row begins behind all rows before it.
LEMMA RowsFollow ==
    ASSUME NEW h \in Nat, NEW g \in Nat, h < g
    PROVE  RowAt(h) \in Int /\ RowAt(g) \in Int /\ RowAt(h) + RowSize <= RowAt(g)
<1>1. RowSize \in Nat
  BY HelpersAssumption
<1>2. PICK d \in Nat : g = h + 1 + d
  <2>1. g - h - 1 \in Nat /\ g = h + 1 + (g - h - 1)
    OBVIOUS
  <2> QED
    BY <2>1
<1>3. d * RowSize \in Nat /\ (h - 1) * RowSize \in Int
  BY <1>1
<1>4. (g - 1) * RowSize = (h - 1) * RowSize + RowSize + d * RowSize
  BY <1>1, <1>2
<1> QED
  BY <1>1, <1>3, <1>4 DEF RowAt

\* No later piece writes to the row of a piece: the row has the first bytes of
\* its own.
LEMMA LaidIs ==
    ASSUME NEW rows \in Rows, NEW j \in 1..Len(rows), j <= ResultRows,
           NEW i \in 1..Len(rows[j]), i <= RowSize
    PROVE  Laid(rows)[RowAt(j) + i - 1] = rows[j][i]
<1> DEFINE o == RowAt(j) + i - 1
           W == {h \in DOMAIN rows : o - RowAt(h) \in 0..Len(rows[h]) - 1}
<1>1. RowSize \in Nat /\ ResultRows \in Nat /\ j \in Nat /\ j >= 1 /\ DOMAIN rows = 1..Len(rows)
      /\ Len(rows) \in Nat /\ Len(rows[j]) \in Nat
  BY HelpersAssumption DEF Rows
<1>2. RowAt(j) \in Nat
  <2>1. j - 1 \in Nat
    BY <1>1
  <2>2. (j - 1) * RowSize \in Nat
    BY <1>1, <2>1
  <2> QED
    BY <2>2 DEF RowAt
<1>3. o \in 0..RowAt(ResultRows + 1) - 1
  <2>1. RowAt(ResultRows + 1) \in Int /\ RowAt(j) + RowSize <= RowAt(ResultRows + 1)
    <3>1. ResultRows + 1 \in Nat /\ j < ResultRows + 1
      BY <1>1
    <3> QED
      BY <1>1, <3>1, RowsFollow
  <2> QED
    BY <1>1, <1>2, <2>1
<1>4. j \in W /\ o - RowAt(j) + 1 = i
  BY <1>1, <1>2
<1>5. \A h \in W : h <= j
  <2> SUFFICES ASSUME NEW h \in W, ~(h <= j) PROVE FALSE
    OBVIOUS
  <2>1. h \in Nat /\ j < h /\ o - RowAt(h) >= 0
    BY <1>1
  <2>2. RowAt(h) \in Int /\ RowAt(j) + RowSize <= RowAt(h)
    BY <1>1, <2>1, RowsFollow
  <2> QED
    BY <1>1, <1>2, <2>1, <2>2
<1>6. Max(W) = j
  <2>1. W \subseteq Nat
    BY <1>1
  <2> HIDE DEF W
  <2>2. \A x \in W : (\A y \in W : x >= y) => x = j
    BY <1>1, <1>4, <1>5, <2>1
  <2>3. \A y \in W : j >= y
    BY <1>1, <1>5, <2>1
  <2> QED
    BY <1>4, <2>2, <2>3 DEF Max
<1> HIDE DEF o
<1>7. Laid(rows)[o] = IF W = {} THEN Stale ELSE rows[Max(W)][o - RowAt(Max(W)) + 1]
  BY <1>3 DEF Laid
<1> QED
  BY <1>4, <1>6, <1>7 DEF o

\* What split writes is the string again, cut at the delimiters, and is in its
\* rows as far as they go.
LEMMA SplitRight ==
    ASSUME NEW m \in Mem, NEW p \in Addr, NEW q \in Addr, HasEnd(m, p), HasEnd(m, q), m[q] # 0
    PROVE  LET rows == split(m, p, q).rows
               result == split(m, p, q).result
               text == StringAt(m, p)
               delim == StringAt(m, q)
               size(j) == PieceSize(rows, j)
               from == PieceFrom(rows, Len(delim))
               end == from[Len(rows)] + size(Len(rows))
           IN  /\ Len(text) <= end /\ end < Len(text) + Len(delim)
               /\ \A j \in DOMAIN rows :
                    LET rest == SubSeq(text, from[j] + size(j) + 1, Len(text))
                    IN  /\ (0 \in Range(rows[j])) <=> j < Len(rows)
                        /\ SubSeq(rows[j], 1, size(j)) = SubSeq(text, from[j] + 1, from[j] + size(j))
                        /\ j < Len(rows) => IsPrefix(rest, delim) \/ IsPrefix(delim, rest)
                        /\ \A i \in 1..size(j) - Len(delim) + 1 : SubSeq(rows[j], i, i + Len(delim) - 1) # delim
                        /\ j <= ResultRows =>
                            \A i \in DOMAIN rows[j] : i <= RowSize => result[RowAt(j) + i - 1] = rows[j][i]
<1> DEFINE n == strlen(m, p)
           skip == strlen(m, q)
           rows == split(m, p, q).rows
           result == split(m, p, q).result
           text == StringAt(m, p)
           delim == StringAt(m, q)
           last == Len(rows)
           size(j) == PieceSize(rows, j)
           from == PieceFrom(rows, Len(delim))
           end == from[Len(rows)] + size(Len(rows))
           rest(j) == SubSeq(text, from[j] + size(j) + 1, Len(text))
<1>1. text \in Seq(Char) /\ Len(text) = n /\ (\A i \in 1..n : text[i] = m[p + i - 1]) /\ n \in Nat /\ p \in Nat
  BY StringIs, StrlenIs, HelpersAssumption DEF Addr
<1>2. delim \in Seq(Char) /\ Len(delim) = skip /\ (\A i \in 1..skip : delim[i] = m[q + i - 1])
      /\ skip \in Nat /\ skip >= 1 /\ q \in Nat
  <2>1. skip \in Nat /\ m[q + skip] = 0 /\ q \in Nat
    BY StrlenIs, HelpersAssumption DEF Addr
  <2>2. skip # 0
    BY <2>1
  <2> QED
    BY <2>1, <2>2, StringIs
<1>13. result = Laid(rows)
  BY DEF split
<1> HIDE DEF rows, n, result
<1>12. PICK s \in Splitter : rows = s.rows /\ s.k >= n /\ \E at : SplitAt(m, p, q, s, at)
  BY SplitSoFar DEF rows, n
<1>3. PICK at : SplitAt(m, p, q, s, at)
  BY <1>12
<1> HIDE DEF n, skip, rows, text, delim
<1>4. /\ rows \in Rows /\ rows \in Seq(Seq(Cell)) /\ last \in Nat /\ last >= 1 /\ DOMAIN rows = 1..last
      /\ s.k \in Nat /\ \A j \in 1..last : rows[j] \in Seq(Cell) /\ Len(rows[j]) \in Nat
  BY <1>12 DEF Splitter, Rows
<1>5. /\ at \in Seq(Nat) /\ Len(at) = last /\ at[1] = 0
      /\ \A j \in 1..last - 1 :
            /\ at[j + 1] = at[j] + size(j) + skip
            /\ Len(rows[j]) >= 1 /\ rows[j][Len(rows[j])] = 0
            /\ at[j] + size(j) < n
            /\ strncmp(m, p + (at[j] + size(j)), q, skip) # 1
      /\ s.k = at[last] + Len(rows[last]) /\ s.k < n + skip
      /\ \A j \in 1..last : \A i \in 1..size(j) :
            /\ at[j] + i <= n /\ rows[j][i] = m[p + (at[j] + i - 1)]
            /\ strncmp(m, p + (at[j] + i - 1), q, skip) = 1
  BY <1>3, <1>12 DEF SplitAt, n, skip
<1>6. /\ \A j \in 1..last - 1 : size(j) = Len(rows[j]) - 1
      /\ size(last) = Len(rows[last])
      /\ \A j \in 1..last : at[j] \in Nat /\ size(j) \in Nat
  <2>1. ASSUME NEW j \in 1..last - 1 PROVE size(j) = Len(rows[j]) - 1 /\ size(j) \in Nat
    <3>1. j \in 1..last /\ j < last
      BY <1>4
    <3>2. Len(rows[j]) \in Nat /\ Len(rows[j]) >= 1
      BY <1>4, <1>5, <3>1
    <3> QED
      BY <3>1, <3>2 DEF PieceSize
  <2>2. size(last) = Len(rows[last]) /\ size(last) \in Nat
    BY <1>4 DEF PieceSize
  <2>3. \A j \in 1..last : at[j] \in Nat
    BY <1>5
  <2>4. \A j \in 1..last : j = last \/ j \in 1..last - 1
    <3>1. last \in Nat
      BY <1>4
    <3> HIDE DEF last
    <3> QED
      BY <3>1
  <2> HIDE DEF size
  <2> QED
    BY <2>1, <2>2, <2>3, <2>4
<1>7. \A j \in 1..last : from[j] = at[j]
  BY <1>2, <1>4, <1>5, PieceFromIs
<1> HIDE DEF from, size, last
<1>8. Len(text) <= end /\ end < Len(text) + Len(delim)
  <2>1. end = s.k
    <3>1. last \in 1..last
      BY <1>4
    <3> QED
      BY <1>5, <1>6, <1>7, <3>1 DEF last
  <2> QED
    BY <1>1, <1>2, <1>4, <1>5, <1>12, <2>1
<1>9. \A j \in 1..last : \A i \in 1..size(j) :
        rows[j][i] = text[at[j] + i] /\ rows[j][i] \in Char /\ at[j] + i \in 1..n
  <2> TAKE j \in 1..last
  <2> TAKE i \in 1..size(j)
  <2>1. at[j] + i <= n /\ rows[j][i] = m[p + (at[j] + i - 1)]
    BY <1>5
  <2>2. at[j] + i \in 1..n /\ p + (at[j] + i) - 1 = p + (at[j] + i - 1)
    <3>1. at[j] \in Nat /\ i \in Nat /\ i >= 1
      BY <1>6
    <3> QED
      BY <1>1, <2>1, <3>1
  <2>3. text[at[j] + i] = m[p + (at[j] + i) - 1]
    BY <1>1, <2>2
  <2>4. text[at[j] + i] \in Char
    BY <1>1, <2>2
  <2> QED
    BY <2>1, <2>2, <2>3, <2>4
<1>10. ASSUME NEW j \in 1..last
       PROVE  /\ (0 \in Range(rows[j])) <=> j < last
              /\ SubSeq(rows[j], 1, size(j)) = SubSeq(text, from[j] + 1, from[j] + size(j))
              /\ j < last => IsPrefix(rest(j), delim) \/ IsPrefix(delim, rest(j))
              /\ \A i \in 1..size(j) - Len(delim) + 1 : SubSeq(rows[j], i, i + Len(delim) - 1) # delim
  <2> DEFINE row == rows[j]
             a == at[j]
             k == size(j)
  <2>1. a \in Nat /\ k \in Nat /\ from[j] = a /\ row \in Seq(Cell) /\ DOMAIN row = 1..Len(row) /\ Len(row) \in Nat
    <3>1. at[j] \in Nat /\ size(j) \in Nat /\ from[j] = at[j]
      BY <1>6, <1>7
    <3>2. rows[j] \in Seq(Cell)
      BY <1>4
    <3> QED
      BY <3>1, <3>2, LenProperties
  <2>2. \A i \in 1..k : row[i] = text[a + i] /\ row[i] \in Char /\ a + i \in 1..n
    BY <1>9
  <2>3. j < last => Len(row) = k + 1 /\ row[Len(row)] = 0 /\ a + k < n /\ strncmp(m, p + (a + k), q, skip) # 1
    <3>1. j < last => j \in 1..last - 1
      BY <1>4
    <3> QED
      BY <1>5, <1>6, <2>1, <3>1
  <2>4. ~(j < last) => Len(row) = k
    BY <1>4, <1>6
  <2>5. \A i \in 1..k : strncmp(m, p + (a + i - 1), q, skip) = 1
    BY <1>5
  <2> HIDE DEF row, a, k
  <2>6. (0 \in Range(row)) <=> j < last
    <3>1. CASE j < last
      <4>1. Len(row) \in DOMAIN row
        BY <2>1, <2>3, <3>1
      <4> QED
        BY <2>3, <3>1, <4>1 DEF Range
    <3>2. CASE ~(j < last)
      BY <2>1, <2>2, <2>4, <3>2, HelpersAssumption DEF Range
    <3> QED
      BY <3>1, <3>2
  <2>7. SubSeq(row, 1, k) = SubSeq(text, a + 1, a + k)
    <3> DEFINE u == SubSeq(row, 1, k)
               v == SubSeq(text, a + 1, a + k)
    <3>1. u \in Seq(Char) /\ Len(u) = k /\ \A i \in 1..k : u[i] = row[i]
      <4>1. u \in Seq(Char) /\ Len(u) = (IF 1 <= k THEN k - 1 + 1 ELSE 0) /\ \A i \in 1..k - 1 + 1 : u[i] = row[1 + i - 1]
        BY <2>1, <2>2, SubSeqProperties
      <4> HIDE DEF u
      <4> QED
        BY <2>1, <4>1
    <3>2. v \in Seq(Char) /\ Len(v) = k /\ \A i \in 1..k : v[i] = text[a + i]
      <4>1. \A i \in a + 1..a + k : text[i] \in Char
        <5> TAKE i \in a + 1..a + k
        <5>1. i - a \in 1..k /\ a + (i - a) = i
          BY <2>1
        <5> QED
          BY <1>1, <2>2, <5>1
      <4>2. v \in Seq(Char) /\ Len(v) = (IF a + 1 <= a + k THEN (a + k) - (a + 1) + 1 ELSE 0)
            /\ \A i \in 1..(a + k) - (a + 1) + 1 : v[i] = text[(a + 1) + i - 1]
        <5>1. a + 1 \in Int /\ a + k \in Int
          BY <2>1
        <5> QED
          BY <4>1, <5>1, SubSeqProperties
      <4> HIDE DEF v
      <4>3. (a + k) - (a + 1) + 1 = k /\ (IF a + 1 <= a + k THEN (a + k) - (a + 1) + 1 ELSE 0) = k
        BY <2>1
      <4>4. \A i \in 1..k : (a + 1) + i - 1 = a + i
        BY <2>1
      <4> QED
        BY <4>2, <4>3, <4>4
    <3> HIDE DEF u, v
    <3>3. u = v
      BY <2>2, <3>1, <3>2, SeqEqual
    <3> QED
      BY <3>3 DEF u, v
  <2>8. ASSUME j < last
        PROVE  LET r == SubSeq(text, a + k + 1, Len(text)) IN IsPrefix(r, delim) \/ IsPrefix(delim, r)
    <3> DEFINE r == SubSeq(text, a + k + 1, Len(text))
               x == a + k
    <3>1. x \in 0..n - 1
      BY <1>1, <2>1, <2>3, <2>8
    <3>2. p + x \in Addr /\ HasEnd(m, p + x) /\ strlen(m, p + x) = n - x
      <4>1. x \in 0..strlen(m, p)
        BY <1>1, <3>1 DEF n
      <4> HIDE DEF x
      <4> QED
        BY <4>1, TailIs DEF n
    <3>3. \A i \in 0..skip - 1 : i < n - x => m[(p + x) + i] = m[q + i]
      <4>0. strncmp(m, p + x, q, skip) # 1
        BY <2>3, <2>8
      <4> HIDE DEF x
      <4>5. skip \in Nat
        BY <1>2
      <4>1. strncmp(m, p + x, q, skip) = 1 <=>
                \E i \in 0..skip - 1 : i < strlen(m, p + x) /\ i < strlen(m, q) /\ m[(p + x) + i] # m[q + i]
        BY <3>2, <4>5, StrncmpIs
      <4>2. \A i \in 0..skip - 1 : i < strlen(m, q)
        BY <1>2 DEF skip
      <4> QED
        BY <3>2, <4>0, <4>1, <4>2
    <3>4. r \in Seq(Char) /\ Len(r) = n - x /\ \A i \in 1..n - x : r[i] = text[x + i]
      <4>1. \A i \in x + 1..n : text[i] \in Char
        <5>1. \A i \in x + 1..n : i \in 1..n
          BY <1>1, <2>1
        <5> QED
          BY <1>1, <5>1
      <4>2. x + 1 \in Int /\ n \in Int /\ x + 1 = a + k + 1
        BY <1>1, <2>1
      <4> HIDE DEF x
      <4>3. SubSeq(text, x + 1, n) \in Seq(Char)
            /\ Len(SubSeq(text, x + 1, n)) = (IF x + 1 <= n THEN n - (x + 1) + 1 ELSE 0)
            /\ \A i \in 1..n - (x + 1) + 1 : SubSeq(text, x + 1, n)[i] = text[(x + 1) + i - 1]
        BY <4>1, <4>2, SubSeqProperties
      <4>4. r = SubSeq(text, x + 1, n)
        BY <1>1, <4>2
      <4> HIDE DEF r
      <4>5. n - (x + 1) + 1 = n - x /\ (IF x + 1 <= n THEN n - (x + 1) + 1 ELSE 0) = n - x
        BY <1>1, <3>1
      <4>6. \A i \in 1..n - x : (x + 1) + i - 1 = x + i
        BY <1>1, <3>1
      <4> QED
        BY <4>3, <4>4, <4>5, <4>6
    <3> HIDE DEF r, x
    <3>5. ASSUME NEW i \in 1..n - x, i <= skip PROVE r[i] = delim[i]
      <4>1. x + i \in 1..n /\ p + (x + i) - 1 = (p + x) + (i - 1) /\ i - 1 \in 0..skip - 1 /\ i - 1 < n - x
        BY <1>1, <1>2, <3>1, <3>5
      <4>2. r[i] = m[(p + x) + (i - 1)]
        <5>1. r[i] = text[x + i]
          BY <3>4
        <5>2. text[x + i] = m[p + (x + i) - 1]
          BY <1>1, <4>1
        <5> QED
          BY <4>1, <5>1, <5>2
      <4>3. delim[i] = m[q + (i - 1)]
        <5>1. i \in 1..skip /\ q + i - 1 = q + (i - 1)
          BY <1>1, <1>2, <3>1, <3>5
        <5> QED
          BY <1>2, <5>1
      <4> QED
        BY <3>3, <4>1, <4>2, <4>3
    <3>6. CASE n - x <= skip
      <4>0. Len(r) = n - x /\ \A i \in 1..n - x : i <= skip
        BY <1>1, <1>2, <3>1, <3>4, <3>6
      <4>1. \A i \in 1..Len(r) : r[i] = delim[i]
        BY <3>5, <4>0
      <4> QED
        BY <1>2, <3>4, <3>6, <4>1, PrefixIs DEF r
    <3>7. CASE ~(n - x <= skip)
      <4>0. Len(delim) = skip /\ Len(r) = n - x /\ x \in Nat
        BY <1>2, <3>1, <3>4
      <4>2. skip <= n - x /\ \A i \in 1..skip : i \in 1..n - x /\ i <= skip
        BY <1>1, <1>2, <3>7, <4>0
      <4>1. Len(delim) <= Len(r) /\ \A i \in 1..Len(delim) : delim[i] = r[i]
        BY <3>5, <4>0, <4>2
      <4> QED
        BY <1>2, <3>4, <4>1, PrefixIs DEF r
    <3> QED
      BY <3>6, <3>7 DEF r
  <2>9. ASSUME NEW i \in 1..k - skip + 1 PROVE SubSeq(row, i, i + skip - 1) # delim
    <3> DEFINE u == SubSeq(row, i, i + skip - 1)
               x == a + i - 1
    <3>1. i \in 1..k /\ \A h \in i..i + skip - 1 : h \in 1..k
      BY <1>2, <2>1
    <3>2. x \in 0..n - 1
      BY <1>1, <2>1, <2>2, <3>1
    <3>3. p + x \in Addr /\ HasEnd(m, p + x) /\ strlen(m, p + x) = n - x
      <4>1. x \in 0..strlen(m, p)
        BY <1>1, <3>2 DEF n
      <4> HIDE DEF x
      <4> QED
        BY <4>1, TailIs DEF n
    <3>4. PICK h \in 0..skip - 1 : m[(p + x) + h] # m[q + h]
      <4>0. strncmp(m, p + x, q, skip) = 1
        BY <2>5, <3>1
      <4>1. skip \in Nat
        BY <1>2
      <4> HIDE DEF x
      <4>2. strncmp(m, p + x, q, skip) = 1 <=>
                \E h \in 0..skip - 1 : h < strlen(m, p + x) /\ h < strlen(m, q) /\ m[(p + x) + h] # m[q + h]
        BY <3>3, <4>1, StrncmpIs
      <4> QED
        BY <4>0, <4>2
    <3>5. i + h \in 1..k /\ h + 1 \in 1..skip /\ p + (a + (i + h)) - 1 = (p + x) + h /\ q + (h + 1) - 1 = q + h
      BY <1>1, <1>2, <2>1, <3>1
    <3>6. row[i + h] = m[(p + x) + h]
      <4>1. row[i + h] = text[a + (i + h)] /\ a + (i + h) \in 1..n
        BY <2>2, <3>5
      <4>2. text[a + (i + h)] = m[p + (a + (i + h)) - 1]
        BY <1>1, <4>1
      <4> QED
        BY <3>5, <4>1, <4>2
    <3>7. delim[h + 1] = m[q + h]
      BY <1>2, <3>5
    <3>8. u[h + 1] = row[i + h]
      <4>1. \A g \in i..i + skip - 1 : row[g] \in Char
        BY <2>2, <3>1
      <4>2. i \in Int /\ i + skip - 1 \in Int
        BY <1>2, <3>1
      <4>3. \A g \in 1..(i + skip - 1) - i + 1 : u[g] = row[i + g - 1]
        BY <4>1, <4>2, SubSeqProperties
      <4> HIDE DEF u
      <4>4. h + 1 \in 1..(i + skip - 1) - i + 1 /\ i + (h + 1) - 1 = i + h
        BY <1>2, <3>1, <3>5
      <4> QED
        BY <4>3, <4>4
    <3> QED
      BY <3>4, <3>6, <3>7, <3>8
  <2> QED
    BY <1>2, <2>1, <2>6, <2>7, <2>8, <2>9 DEF row, a, k
<1>14. ASSUME NEW j \in 1..last, j <= ResultRows, NEW i \in DOMAIN rows[j], i <= RowSize
       PROVE  result[RowAt(j) + i - 1] = rows[j][i]
  <2>1. rows[j] \in Seq(Cell) /\ DOMAIN rows[j] = 1..Len(rows[j])
    BY <1>4
  <2> QED
    BY <1>4, <1>13, <1>14, <2>1, LaidIs DEF last
<1>11. /\ Len(text) <= end /\ end < Len(text) + Len(delim)
       /\ \A j \in DOMAIN rows :
            /\ (0 \in Range(rows[j])) <=> j < Len(rows)
            /\ SubSeq(rows[j], 1, size(j)) = SubSeq(text, from[j] + 1, from[j] + size(j))
            /\ j < Len(rows) => IsPrefix(rest(j), delim) \/ IsPrefix(delim, rest(j))
            /\ \A i \in 1..size(j) - Len(delim) + 1 : SubSeq(rows[j], i, i + Len(delim) - 1) # delim
            /\ j <= ResultRows =>
                \A i \in DOMAIN rows[j] : i <= RowSize => result[RowAt(j) + i - 1] = rows[j][i]
  BY <1>4, <1>8, <1>10, <1>14 DEF last
<1> QED
  BY <1>11 DEF rows, text, delim, from, size, result

\* split is called, and returns.
LEMMA SplitStep == Called /\ Returns => SplitKeepsText'
<1> SUFFICES ASSUME Called, Returns, ret' # <<>>, call'.op = "split" PROVE SplitKeepsText'
  BY DEF SplitKeepsText
<1>1. call' = call /\ mem' = mem /\ ret' = <<split(mem, call.p, call.q)>>
  BY DEF Returns, Memset, Memcpy, Strcpy, Compare, Split, Format, ListFind
<1>2. mem \in Mem /\ call.p \in Addr /\ call.q \in Addr /\ HasEnd(mem, call.p) /\ HasEnd(mem, call.q) /\ mem[call.q] # 0
  BY <1>1, MemoryCallIs DEF OnMemory
<1>3. ret'[1] = split(mem', call'.p, call'.q)
  BY <1>1
<1> QED
  BY <1>1, <1>2, <1>3, SplitRight, ZenonT(60) DEF SplitKeepsText

\* For every string and delimiter, what split writes is the string again with the
\* delimiters between the pieces, and each row of the array has as much of its
\* piece as a row can hold: the whole piece only if it fits (string.c:67-102).
THEOREM PiecesKeepText == OneCall => []SplitKeepsText
<1>1. Called => (ret = <<>> => Called) /\ SplitKeepsText
  BY DEF Called, SplitKeepsText
<1>2. (ret = <<>> => Called) /\ SplitKeepsText /\ [Returns]_callVars => SplitKeepsText'
  <2> SUFFICES ASSUME ret = <<>> => Called, SplitKeepsText, [Returns]_callVars PROVE SplitKeepsText'
    OBVIOUS
  <2>1. CASE UNCHANGED callVars
    BY <2>1 DEF callVars, SplitKeepsText
  <2>2. CASE Returns
    <3>1. Called
      BY <2>2 DEF Returns
    <3> QED
      BY <2>2, <3>1, SplitStep
  <2> QED
    BY <2>1, <2>2
<1> QED
  BY <1>1, <1>2, CalledOnce, PTL DEF OneCall

=============================================================================
