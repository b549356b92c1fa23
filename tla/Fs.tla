--------------------------------- MODULE Fs ---------------------------------
(***************************************************************************)
(* The file system in memory (fs.c): folders with a list of files and a    *)
(* list of folders, and the two allocators, which only ever move forward.  *)
(* The shell's mkdir, touch and vim call create_folder and create_file for *)
(* the root; the other operations are a library without callers.           *)
(*                                                                         *)
(* A folder or a file is identified by its offset in the area of           *)
(* fs_info_malloc.  Two kinds of memory that no operation owns decide what *)
(* the code does: what lies at address 0 (null), which the loops over      *)
(* file_list read for every empty entry and a failed creation writes, and  *)
(* what is behind the last piece of a split path or name, which split does *)
(* not terminate (string.c:99).                                            *)
(***************************************************************************)
EXTENDS Integers, Sequences, FiniteSets, SequencesExt

CONSTANTS
    Name,           \* the names of files and folders
    Dotted,         \* those with a dot in them, which a file needs
    Longer,         \* pairs of a name and a name that continues it
    Garbled,        \* a string that is nobody's name
    ListSize,       \* 16
    FolderSize,     \* sizeof(struct file_folder)
    FileSize,       \* sizeof(struct file_info)
    InfoRoom,       \* bytes for folders and files
    DataRoom,       \* files' contents there is room for
    MaxDepth        \* bound: the pieces of a path

ASSUME NamesAssumption == Dotted \subseteq Name /\ Longer \subseteq Name \X Name /\ Garbled \notin Name
ASSUME SizesAssumption ==
    /\ {ListSize, FolderSize, FileSize} \subseteq Nat \ {0}
    /\ InfoRoom \in Nat /\ DataRoom \in Nat /\ MaxDepth \in Nat
    /\ FolderSize <= InfoRoom

VARIABLES
    fs_info_alloc_start, fs_alloc_start,    \* the allocators
    folder,     \* the folders that were made
    file,       \* the files that were made
    null,       \* what a struct file_info at address 0 would hold
    vim_file,   \* the file the editor has open, or Closed
    given_up,   \* history: files deleted, moved, made without room, or overrun by their type
    mishap      \* history: what went wrong, see the properties

allocators == <<fs_info_alloc_start, fs_alloc_start>>
vars == <<allocators, folder, file, null, vim_file, given_up, mishap>>

Slots == 1..ListSize
Null == -1          \* an entry that is empty
NoData == 0         \* file_p of a file that has no contents
Wild == -2          \* file_p after it was overwritten
Closed == -3
Root == 0

NoEntries == [i \in Slots |-> Null]
First(S) == IF S = {} THEN 0 ELSE Min(S)

-----------------------------------------------------------------------------
(* The allocators. *)

\* Mutant of FsInfoMalloc: the allocator does not move.
FsInfoMallocStays(size) ==
    [p |-> IF fs_info_alloc_start + size > InfoRoom THEN Null ELSE fs_info_alloc_start,
     next |-> fs_info_alloc_start]

\* fs_info_malloc returns an offset or Null; what it refuses is spent too.
FsInfoMalloc(size) ==
    LET next == fs_info_alloc_start + size
    IN  [p |-> IF next > InfoRoom THEN Null ELSE fs_info_alloc_start, next |-> next]

\* fs_malloc of one file's contents: the number of a block, or NoData.
FsMalloc ==
    LET next == fs_alloc_start + 1
    IN  [p |-> IF next > DataRoom THEN NoData ELSE next, next |-> next]

-----------------------------------------------------------------------------
(* Entries and paths. *)

\* What the code reads through entry i of d's list of files.
Entry(d, i) == IF folder[d].files[i] = Null THEN null ELSE file[folder[d].files[i]]

FreeFile(d) == First({i \in Slots : folder[d].files[i] = Null})
FreeFolder(d) == First({i \in Slots : folder[d].folders[i] = Null})

FolderSlot(d, n) ==
    First({i \in Slots : folder[d].folders[i] # Null /\ folder[folder[d].folders[i]].name = n})

\* A file counts as there if its file_p is not 0.
FileSlot(d, n) == First({i \in Slots : Entry(d, i).p # NoData /\ Entry(d, i).name = n})

\* What the last piece of a path may read as: split leaves it with whatever
\* the stack had behind it.
ReadsAs(n) == {n, Garbled} \cup {m \in Name : <<n, m>> \in Longer}

\* The folder that all pieces of a path but the last one lead to.
Parent(path) ==
    LET walk[i \in 0..Len(path) - 1] ==
            IF i = 0 THEN Root
            ELSE LET d == walk[i - 1]
                     slot == IF d = Null THEN 0 ELSE FolderSlot(d, path[i])
                 IN  IF slot = 0 THEN Null ELSE folder[d].folders[slot]
    IN  walk[Len(path) - 1]

\* The results path_als may have.  A folder, too, is looked for among the
\* files, and is then the folder at the same place of the other list.  The path
\* / is the root where a folder is asked for; otherwise it has one piece, which
\* split did not write.
PathAls(path, type) ==
    LET d == IF path = <<>> THEN Root ELSE Parent(path)
        reads == IF path = <<>> THEN Name \cup {Garbled} ELSE ReadsAs(Last(path))
        found(n) == IF d = Null THEN 0 ELSE FileSlot(d, n)
        result(i) == IF i = 0 THEN Null
                     ELSE CASE type = "folder" -> folder[d].folders[i]
                            [] type = "file" -> folder[d].files[i]
                            [] type = "folder of file" -> d
    IN  IF path = <<>> /\ type = "folder" THEN {Root} ELSE {result(found(n)) : n \in reads}

-----------------------------------------------------------------------------
(* Creating and deleting. *)

SetFile(d, i, f) == folder' = [folder EXCEPT ![d].files[i] = f]

\* fs_info_malloc's failure is reported and then the name is written to the
\* address it returned; at address 0 the clearing of the lists covers file_p.
create_folder(d, n) ==
    LET i == FreeFolder(d)
        new == FsInfoMalloc(FolderSize)
    IN  /\ i # 0
        /\ fs_info_alloc_start' = new.next
        /\ IF new.p = Null
           THEN /\ null' = [name |-> n, p |-> NoData]
                /\ mishap' = mishap \cup {"folder at null"}
                /\ UNCHANGED folder
           ELSE /\ folder' = [g \in DOMAIN folder \cup {new.p} |->
                                IF g = new.p THEN [name |-> n, files |-> NoEntries, folders |-> NoEntries]
                                ELSE IF g = d THEN [folder[d] EXCEPT !.folders[i] = new.p]
                                ELSE folder[g]]
                /\ UNCHANGED <<null, mishap>>
        /\ UNCHANGED <<fs_alloc_start, file, vim_file, given_up>>

\* The type is copied last, up to the first 0 behind the last piece of the
\* name: when it is longer than file_type it runs into file_p (wild).
create_file(d, n) ==
    LET i == FreeFile(d)
        new == FsInfoMalloc(FileSize)
        data == FsMalloc
    IN  /\ i # 0 /\ n \in Dotted
        /\ fs_info_alloc_start' = new.next /\ fs_alloc_start' = data.next
        /\ \E wild \in BOOLEAN :
            LET made == [name |-> n, p |-> IF wild THEN Wild ELSE data.p]
            IN  /\ IF new.p = Null
                   THEN null' = made /\ UNCHANGED <<folder, file>>
                   ELSE /\ SetFile(d, i, new.p)
                        /\ file' = [g \in DOMAIN file \cup {new.p} |-> IF g = new.p THEN made ELSE file[g]]
                        /\ UNCHANGED null
                /\ mishap' = mishap \cup (IF new.p = Null THEN {"file at null"} ELSE {})
                /\ given_up' = given_up \cup (IF made.p = NoData \/ wild THEN {new.p} ELSE {})

\* The folder's own memory and what is below it stay as they are.
del_folder(d, n) ==
    /\ FolderSlot(d, n) # 0
    /\ folder' = [folder EXCEPT ![d].folders[FolderSlot(d, n)] = Null]
    /\ UNCHANGED <<allocators, file, null, vim_file, given_up, mishap>>

\* file_p = 0 through entry i of d.
ClearData(d, i) ==
    IF folder[d].files[i] = Null
    THEN null' = [null EXCEPT !.p = NoData] /\ UNCHANGED file
    ELSE file' = [file EXCEPT ![folder[d].files[i]].p = NoData] /\ UNCHANGED null

\* Mutant of del_file: every file of that name is deleted.
DelFileAll(d, n) ==
    /\ FileSlot(d, n) # 0
    /\ file' = [f \in DOMAIN file |-> IF file[f].name = n THEN [file[f] EXCEPT !.p = NoData] ELSE file[f]]
    /\ given_up' = given_up \cup {folder[d].files[FileSlot(d, n)]}
    /\ UNCHANGED <<allocators, null, folder, vim_file, mishap>>

\* The entry stays in its list.
del_file(d, n) ==
    /\ FileSlot(d, n) # 0
    /\ ClearData(d, FileSlot(d, n))
    /\ given_up' = given_up \cup {folder[d].files[FileSlot(d, n)]}
    /\ UNCHANGED <<allocators, folder, vim_file, mishap>>

-----------------------------------------------------------------------------
(* Moving: three lookups, each with a last piece of its own. *)

\* The first entry of the moved file's name loses its contents: the file's
\* own, which is also what the destination gets, or one that was deleted.
move_file(dst, src) ==
    \E d \in PathAls(dst, "folder") \ {Null} :
     \E f \in PathAls(src, "file") \ {Null}, from \in PathAls(src, "folder of file") \ {Null} :
        /\ FreeFile(d) # 0
        /\ LET i == First({j \in Slots : Entry(from, j).name = file[f].name})
           IN  ClearData(from, i)
        /\ SetFile(d, FreeFile(d), f)
        /\ given_up' = given_up \cup {f}
        /\ mishap' = mishap \cup {"moved"}
        /\ UNCHANGED <<allocators, vim_file>>

\* The entry to clear is looked for among the names of files.
move_folder(dst, src) ==
    \E d \in PathAls(dst, "folder") \ {Null} :
     \E g \in PathAls(src, "folder") \ {Null}, from \in PathAls(src, "folder of file") \ {Null} :
        /\ FreeFolder(d) # 0
        /\ LET i == First({j \in Slots : Entry(from, j).name = folder[g].name})
               cleared == IF i = 0 THEN folder ELSE [folder EXCEPT ![from].folders[i] = Null]
           IN  folder' = [cleared EXCEPT ![d].folders[FreeFolder(d)] = g]
        /\ mishap' = mishap \cup {"moved"}
        /\ UNCHANGED <<allocators, file, null, vim_file, given_up>>

-----------------------------------------------------------------------------
(* The editor's use of a folder; the shell gives it the root. *)

\* Mutant of NamedSlot: an empty entry is taken, too.
NamedSlotLoose(d, n) == First({i \in Slots : Entry(d, i).name \in {n, null.name}})

\* The first entry with that name, be it a file that was deleted or an empty
\* entry with a name at address 0.
NamedSlot(d, n) == First({i \in Slots : Entry(d, i).name = n})

\* vim_entry up to its wait: an existing file, or a new one.
vim_entry(d, n) ==
    IF NamedSlot(d, n) # 0
    THEN /\ vim_file' = folder[d].files[NamedSlot(d, n)]
         /\ UNCHANGED <<allocators, folder, file, null, given_up, mishap>>
    ELSE create_file(d, n) /\ vim_file' = folder'[d].files[FreeFile(d)]

\* The text is saved where file_p says.  At address 0 it replaces what the
\* loops read there; behind a wild pointer it is outside the model.
save_file ==
    LET p == IF vim_file = Null THEN null.p ELSE file[vim_file].p
    IN  /\ IF p = NoData
           THEN /\ null' \in [name : {Garbled}, p : {NoData, Wild}]
                /\ mishap' = mishap \cup {"file at null"}
           ELSE UNCHANGED <<null, mishap>>
        /\ vim_file' = Closed
        /\ UNCHANGED <<allocators, folder, file, given_up>>

-----------------------------------------------------------------------------
\* After fs_init, with a root that is empty: memory is taken to be zero but at
\* address 0, where the firmware may have left anything.
Init ==
    /\ fs_info_alloc_start = FolderSize /\ fs_alloc_start = 0
    /\ folder = [d \in {Root} |-> [name |-> Garbled, files |-> NoEntries, folders |-> NoEntries]]
    /\ file = <<>>
    /\ null \in [name : {Garbled}, p : {NoData, Wild}]
    /\ vim_file = Closed /\ given_up = {}
    /\ mishap = IF null.p = NoData THEN {} ELSE {"low memory"}

\* The allocators stop once both are exhausted and have shown it.
Bounded == fs_info_alloc_start <= InfoRoom + 1 /\ fs_alloc_start <= DataRoom

Path == SeqOf(Name, MaxDepth)

\* The shell and the editor are one thread: nothing else happens while a file
\* is open.
Next ==
    \/ /\ vim_file = Closed /\ Bounded
       /\ \E d \in DOMAIN folder, n \in Name :
            create_folder(d, n) \/ (create_file(d, n) /\ UNCHANGED vim_file)
    \/ /\ vim_file = Closed
       /\ \E d \in DOMAIN folder, n \in Name : del_folder(d, n) \/ del_file(d, n)
    \/ /\ vim_file = Closed
       /\ \E dst, src \in Path : move_file(dst, src) \/ move_folder(dst, src)
    \/ /\ vim_file = Closed
       /\ \E n \in Name : (Bounded \/ NamedSlot(Root, n) # 0) /\ vim_entry(Root, n)
    \/ vim_file # Closed /\ save_file

Spec == Init /\ [][Next]_vars

-----------------------------------------------------------------------------
\* What the entries at place i of d's two lists hold.
Listed(d, i) == {folder[d].files[i], folder[d].folders[i]}

ContentsApart ==
    \A f, g \in DOMAIN file : f # g /\ file[f].p > 0 => file[f].p # file[g].p

RoomApart ==
    LET Apart(a, m, b, n) == a + m <= b \/ b + n <= a
    IN  /\ \A f \in DOMAIN file, d \in DOMAIN folder : Apart(f, FileSize, d, FolderSize)
        /\ \A f, g \in DOMAIN file : f # g => Apart(f, FileSize, g, FileSize)
        /\ \A d, e \in DOMAIN folder : d # e => Apart(d, FolderSize, e, FolderSize)

OnePlace ==
    "moved" \notin mishap =>
        \A x \in DOMAIN folder \cup DOMAIN file, d, e \in DOMAIN folder, i, j \in Slots :
            x \in Listed(d, i) \cap Listed(e, j) => d = e /\ i = j

\* No two files share contents and no two structures share memory, also after
\* the allocators ran out (fs.c:8-21, 35, 67-71).  Until something was moved, a
\* file or folder is in one place only: the lists form a tree (fs.c:23-105).
StorageApart == ContentsApart /\ RoomApart /\ OnePlace

\* A file is without contents of its own, at 0 or behind a pointer that fs_malloc
\* never gave, only after it was deleted or moved itself, whatever files have its
\* name, or for what happened when it was made: there was no room, or the
\* unterminated last piece of its name, copied as its type, ran into file_p
\* (fs.c:70-73, 92-105, 183-189, string.c:100).
NoneLost ==
    \A f \in DOMAIN file : file[f].p <= NoData => f \in given_up

\* The editor has a file in hand with contents that fs_malloc gave to this file,
\* unless that file was deleted, moved, made without room or overrun by its type
\* before, or a creation failed (vim.c:152-167, fs.c:70-73, 104).
EditsContents ==
    vim_file # Closed =>
        \/ vim_file # Null /\ file[vim_file].p > NoData
        \/ vim_file \in given_up
        \/ mishap \cap {"file at null", "folder at null"} # {}

-----------------------------------------------------------------------------
(* The inductive invariant behind the theorems of FsProofs. *)

FolderInfo == [name : Name \cup {Garbled}, files : [Slots -> DOMAIN file \cup {Null}],
               folders : [Slots -> DOMAIN folder \cup {Null}]]
FileInfo == [name : Name \cup {Garbled}, p : {Wild, NoData} \cup 1..fs_alloc_start]

\* Whatever was made lies behind what the allocators have still to give, and
\* the lists hold what was made (fs.c:8-21).
Placed ==
    /\ fs_info_alloc_start \in Nat /\ fs_alloc_start \in Nat
    /\ folder \in [DOMAIN folder -> FolderInfo] /\ Root \in DOMAIN folder
    /\ file \in [DOMAIN file -> FileInfo]
    /\ \A d \in DOMAIN folder : d \in Nat /\ d + FolderSize <= fs_info_alloc_start
    /\ \A f \in DOMAIN file : f \in Nat /\ f + FileSize <= fs_info_alloc_start

\* Only a creation that failed puts a name at address 0 (fs.c:24-31, 49-65).
NullOK ==
    /\ null \in FileInfo
    /\ null.name \in Name => mishap \cap {"file at null", "folder at null"} # {}

Stored == Placed /\ NullOK /\ StorageApart /\ NoneLost

IInv == Stored /\ vim_file \in DOMAIN file \cup {Null, Closed} /\ EditsContents
=============================================================================
