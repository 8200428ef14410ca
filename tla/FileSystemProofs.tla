--------------------------- MODULE FileSystemProofs ---------------------------
(***************************************************************************)
(* Proofs about FileSystem for every size of the disk and every number of  *)
(* files.  What makes the three invariants inductive is Taken: a block     *)
(* that has been handed out since the last Format stays marked on the      *)
(* disk, whatever is interrupted, and so do the blocks the search has      *)
(* passed.                                                                 *)
(***************************************************************************)
EXTENDS FileSystem, TLAPS

Places == {"new", "format", "formatFirst", "idle", "runaway", "probe", "hung",
           "reread", "mark", "readInode", "writeInode"}

\* Where the table of files is in use.
Mounted == {"idle", "probe", "hung", "reread", "mark", "readInode", "writeInode"}

TypeOK ==
    /\ disk \in [Block -> Contents] /\ disk_buf \in Contents
    /\ files \in [FileIndex -> [id : Nat, inode : Nat]]
    /\ num_files \in Nat /\ current_block \in Nat
    /\ pc \in Places /\ file_id \in Nat /\ inode \in Nat /\ i \in Nat
    /\ granted \subseteq Block

\* Before anything is mounted the table is empty and the search has not begun.
Fresh == pc \notin Mounted \cup {"runaway"} => num_files = 0 /\ current_block = 0

\* While the blocks are cleared none has been handed out.
Formatting ==
    /\ pc \in {"format", "formatFirst"} => granted = {}
    /\ pc = "format" => i \in Block

Taken == \A b \in granted : disk[b].free = 1

Passed == \A b \in Block : b < current_block => disk[b].free = 1

\* get_block holds a block that is not in use, and is about to write that it is.
Holding ==
    /\ pc \in {"reread", "mark"} => current_block \in Block /\ disk[current_block].free # 1
    /\ pc = "mark" => disk_buf.free = 1

\* CreateFile has a block no file of the table has, and an id that none has.
Creating ==
    /\ pc \in {"probe", "reread", "mark", "readInode", "writeInode"} =>
           num_files < MaxFiles
    /\ (pc \in {"probe", "reread", "mark"} /\ call = "create") \/ pc \in {"readInode", "writeInode"} =>
           \A k \in FileIndex : k < num_files => files[k].id # file_id
    /\ pc \in {"readInode", "writeInode"} =>
           /\ inode \in granted
           /\ \A k \in FileIndex : k < num_files => files[k].inode # inode
    /\ pc = "writeInode" => disk_buf = [id |-> file_id, free |-> 1, size |-> 0]

IInv == TypeOK /\ Fresh /\ Formatting /\ Taken /\ Passed /\ Holding /\ Creating
            /\ TableSound /\ HungOnlyWhenFull

-----------------------------------------------------------------------------
LEMMA InitIInv == Init => IInv
<1> SUFFICES ASSUME Init PROVE IInv
  OBVIOUS
<1> USE DiskAssumption
<1>1. TypeOK
  <2>1. disk \in [Block -> Contents]
    BY DEF Init, Foreign, Contents
  <2>2. disk_buf \in Contents /\ NoFile \in [id : Nat, inode : Nat]
    BY DEF Init, NewMachine, ZeroBlock, Contents, NoFile
  <2> QED BY <2>1, <2>2 DEF TypeOK, Init, NewMachine, Places
<1>2. Fresh /\ Formatting /\ Taken /\ Passed /\ Holding /\ Creating /\ TableSound /\ HungOnlyWhenFull
  BY DEF Init, NewMachine, Fresh, Formatting, Taken, Passed, Holding, Creating, TableSound,
         HungOnlyWhenFull, Mounted, Block, FileIndex
<1> QED BY <1>1, <1>2 DEF IInv

\* The steps that write to the disk, and those that change the table, one by one.

LEMMA RestartIInv == IInv /\ Restart => IInv'
<1> SUFFICES ASSUME IInv, Restart PROVE IInv'
  OBVIOUS
<1> USE DiskAssumption
<1>1. TypeOK'
  <2>1. ZeroBlock \in Contents /\ NoFile \in [id : Nat, inode : Nat]
    BY DEF ZeroBlock, Contents, NoFile
  <2> QED BY <2>1 DEF IInv, TypeOK, Restart, Places
<1>2. (Fresh /\ Formatting /\ Taken /\ Passed /\ Holding /\ Creating /\ TableSound /\ HungOnlyWhenFull)'
  BY DEF IInv, Restart, Fresh, Formatting, Taken, Passed, Holding, Creating, TableSound,
         HungOnlyWhenFull, Mounted, Block, FileIndex
<1> QED BY <1>1, <1>2 DEF IInv

LEMMA FormatIInv == IInv /\ (Format \/ FormatBlock \/ FormatFirst) => IInv'
<1> SUFFICES ASSUME IInv, Format \/ FormatBlock \/ FormatFirst PROVE IInv'
  OBVIOUS
<1> USE DiskAssumption
<1>1. CASE Format
  <2>1. TypeOK'
    <3>1. ZeroBlock \in Contents
      BY DEF ZeroBlock, Contents
    <3> QED BY <1>1, <3>1 DEF IInv, TypeOK, Format, Places
  <2>2. (Fresh /\ Formatting /\ Taken /\ Passed /\ Holding /\ Creating /\ TableSound /\ HungOnlyWhenFull)'
    BY <1>1 DEF IInv, TypeOK, Format, Fresh, Formatting, Taken, Passed, Holding, Creating,
       TableSound, HungOnlyWhenFull, Mounted, Block, FileIndex
  <2> QED BY <2>1, <2>2 DEF IInv
<1>2. CASE FormatBlock
  <2>1. TypeOK'
    <3>1. [disk_buf EXCEPT !.free = 1, !.size = 0] \in Contents
      BY DEF IInv, TypeOK, Contents
    <3>2. i \in Block /\ i + 1 \in Nat /\ disk' = [disk EXCEPT ![i] = disk_buf]
      BY <1>2 DEF IInv, TypeOK, Formatting, FormatBlock
    <3> QED BY <1>2, <3>1, <3>2 DEF IInv, TypeOK, FormatBlock, Places
  <2>2. Formatting'
    BY <1>2 DEF IInv, TypeOK, FormatBlock, Formatting, Block
  <2>3. num_files = 0 /\ current_block = 0 /\ num_files' = 0 /\ current_block' = 0
    BY <1>2 DEF IInv, FormatBlock, Fresh, Mounted
  <2>4. pc' \in {"format", "formatFirst"} /\ granted' = {}
    BY <1>2 DEF IInv, FormatBlock, Formatting
  <2>5. (Fresh /\ Taken /\ Passed /\ Holding)'
    BY <2>3, <2>4 DEF Fresh, Taken, Passed, Holding, Block
  <2>6. (Creating /\ TableSound /\ HungOnlyWhenFull)'
    BY <2>3, <2>4 DEF Creating, TableSound, HungOnlyWhenFull, FileIndex
  <2> QED BY <2>1, <2>2, <2>5, <2>6 DEF IInv
<1>3. CASE FormatFirst
  <2>1. TypeOK'
    BY <1>3 DEF IInv, TypeOK, FormatFirst, Places
  <2>2. num_files = 0 /\ current_block = 0 /\ num_files' = 0 /\ current_block' = 0
    BY <1>3 DEF IInv, FormatFirst, Fresh, Mounted
  <2>3. (Fresh /\ Formatting /\ Taken /\ Passed /\ Holding /\ Creating /\ TableSound /\ HungOnlyWhenFull)'
    BY <1>3, <2>2 DEF IInv, FormatFirst, Fresh, Formatting, Taken, Passed, Holding, Creating,
       TableSound, HungOnlyWhenFull, Mounted, Block, FileIndex
  <2> QED BY <2>1, <2>3 DEF IInv
<1> QED BY <1>1, <1>2, <1>3

LEMMA MountIInv == IInv /\ Mount => IInv'
<1> SUFFICES ASSUME IInv, Mount PROVE IInv'
  OBVIOUS
<1> USE DiskAssumption
<1>1. 0 \in Block /\ disk[0] \in Contents
  BY DEF IInv, TypeOK, Block
<1>2. TypeOK'
  BY <1>1 DEF IInv, TypeOK, Mount, Places, Contents
<1>3. (Fresh /\ Formatting /\ Taken /\ Passed /\ Holding)'
  BY DEF IInv, Mount, Fresh, Formatting, Taken, Passed, Holding, Mounted
<1>4. (Creating /\ TableSound /\ HungOnlyWhenFull)'
  BY <1>1 DEF IInv, Mount, Creating, TableSound, HungOnlyWhenFull, FileIndex
<1> QED BY <1>2, <1>3, <1>4 DEF IInv

LEMMA CallIInv ==
    ASSUME IInv, NEW id \in Ids,
           CreateFile(id) \/ Open(id) \/ DeleteFile(id) \/ Transfer
    PROVE  IInv'
<1> USE DiskAssumption
<1>1. CASE \E a \in {"false", "none", "nothing"} : Idle /\ Answer(a)
  BY <1>1 DEF IInv, TypeOK, Answer, Fresh, Formatting, Taken, Passed, Holding, Creating,
              TableSound, HungOnlyWhenFull
<1>2. CASE Idle /\ ~LookupFile(id) /\ \E c \in {"create", "delete"} : NeedBlock(c, id)
  <2>1. TypeOK'
    BY <1>2 DEF IInv, TypeOK, NeedBlock, Places
  <2>2. (Fresh /\ Formatting /\ Taken /\ Passed /\ Holding)'
    BY <1>2 DEF IInv, Idle, NeedBlock, Fresh, Formatting, Taken, Passed, Holding, Mounted
  <2>3. \A k \in FileIndex : k < num_files => files[k].id # id
    BY <1>2 DEF LookupFile, IInv, TypeOK, FileIndex
  <2>4. (Creating /\ TableSound /\ HungOnlyWhenFull)'
    BY <1>2, <2>3 DEF IInv, Idle, NeedBlock, Creating, TableSound, HungOnlyWhenFull
  <2> QED BY <2>1, <2>2, <2>4 DEF IInv
<1> QED BY <1>1, <1>2 DEF CreateFile, Open, DeleteFile, Transfer

\* The search: it passes only blocks in use, and stops at one that is not.
LEMMA SearchIInv == IInv /\ (Probe \/ ProbeBeyond \/ Reread) => IInv'
<1> SUFFICES ASSUME IInv, Probe \/ ProbeBeyond \/ Reread PROVE IInv'
  OBVIOUS
<1> USE DiskAssumption
<1>1. CASE Probe
  <2>1. current_block \in Block /\ disk[current_block] \in Contents
    BY <1>1 DEF IInv, TypeOK, Probe, Block
  <2>2. TypeOK'
    BY <1>1, <2>1 DEF IInv, TypeOK, Probe, Places
  <2>3. Passed'
    BY <1>1, <2>1 DEF IInv, TypeOK, Probe, Passed, Block
  <2>4. (Fresh /\ Formatting /\ Taken /\ Holding)'
    BY <1>1, <2>1 DEF IInv, Probe, Fresh, Formatting, Taken, Holding, Mounted
  <2>5. (Creating /\ TableSound /\ HungOnlyWhenFull)'
    BY <1>1 DEF IInv, Probe, Creating, TableSound, HungOnlyWhenFull
  <2> QED BY <2>2, <2>3, <2>4, <2>5 DEF IInv
<1>2. CASE ProbeBeyond
  <2>1. \A b \in Block : b < current_block
    BY <1>2 DEF IInv, TypeOK, ProbeBeyond, Block
  <2>2. HungOnlyWhenFull'
    BY <1>2, <2>1 DEF IInv, Passed, ProbeBeyond, HungOnlyWhenFull
  <2>3. (TypeOK /\ Fresh /\ Formatting /\ Taken /\ Passed /\ Holding /\ Creating /\ TableSound)'
    BY <1>2 DEF IInv, ProbeBeyond, memory, TypeOK, Places, Fresh, Formatting, Taken, Passed,
                Holding, Creating, TableSound, Mounted
  <2> QED BY <2>2, <2>3 DEF IInv
<1>3. CASE Reread
  <2>1. current_block \in Block /\ disk[current_block] \in Contents
    BY <1>3 DEF IInv, TypeOK, Reread, Holding
  <2>2. [disk[current_block] EXCEPT !.free = 1] \in Contents
        /\ [disk[current_block] EXCEPT !.free = 1].free = 1
    BY <2>1 DEF Contents
  <2>3. TypeOK'
    BY <1>3, <2>2 DEF IInv, TypeOK, Reread, Places
  <2>4. (Fresh /\ Formatting /\ Taken /\ Passed /\ Holding)'
    BY <1>3, <2>2 DEF IInv, Reread, Fresh, Formatting, Taken, Passed, Holding, Mounted
  <2>5. (Creating /\ TableSound /\ HungOnlyWhenFull)'
    BY <1>3 DEF IInv, Reread, Creating, TableSound, HungOnlyWhenFull
  <2> QED BY <2>3, <2>4, <2>5 DEF IInv
<1> QED BY <1>1, <1>2, <1>3

\* get_block writes to a block that nobody has been given.
LEMMA MarkIInv == IInv /\ Mark => IInv'
<1> SUFFICES ASSUME IInv, Mark PROVE IInv'
  OBVIOUS
<1> USE DiskAssumption
<1>1. /\ current_block \in Block /\ current_block \notin granted
      /\ disk_buf.free = 1 /\ disk_buf \in Contents
  BY DEF IInv, Mark, Holding, Taken, TypeOK
<1>2. /\ \A b \in Block : disk'[b] = IF b = current_block THEN disk_buf ELSE disk[b]
      /\ disk' \in [Block -> Contents]
  BY <1>1 DEF IInv, TypeOK, Mark
<1>3. TypeOK'
  BY <1>1, <1>2 DEF IInv, TypeOK, Mark, memory, Places, Block
<1>4. (Fresh /\ Formatting)'
  BY DEF IInv, Mark, memory, Fresh, Formatting, Mounted
<1>5. (Taken /\ Passed)'
  BY <1>1, <1>2 DEF IInv, TypeOK, Mark, memory, Taken, Passed
<1>6. (Holding /\ HungOnlyWhenFull)'
  BY DEF Mark, Holding, HungOnlyWhenFull
<1>7. TableSound'
  <2>1. \A k \in FileIndex : k < num_files =>
            files[k].inode \in granted /\ disk'[files[k].inode] = disk[files[k].inode]
    <3>1. \A k \in FileIndex : k < num_files => files[k].inode \in granted
      BY DEF IInv, TableSound, Mark
    <3> QED BY <3>1, <1>1, <1>2 DEF IInv, TypeOK
  <2> QED BY <2>1 DEF IInv, TableSound, Mark, memory
<1>8. Creating'
  <2>1. \A k \in FileIndex : k < num_files => files[k].inode # current_block
    BY <1>1 DEF IInv, TableSound, Mark
  <2> QED BY <2>1 DEF IInv, Creating, Mark, memory
<1> QED BY <1>3, <1>4, <1>5, <1>6, <1>7, <1>8 DEF IInv

LEMMA InodeIInv == IInv /\ (ReadInode \/ WriteInode) => IInv'
<1> SUFFICES ASSUME IInv, ReadInode \/ WriteInode PROVE IInv'
  OBVIOUS
<1> USE DiskAssumption
<1>1. CASE ReadInode
  <2>1. TypeOK'
    BY <1>1 DEF IInv, TypeOK, ReadInode, Places, Contents
  <2>2. (Fresh /\ Formatting /\ Taken /\ Passed /\ Holding)'
    BY <1>1 DEF IInv, ReadInode, Fresh, Formatting, Taken, Passed, Holding, Mounted
  <2>3. (Creating /\ TableSound /\ HungOnlyWhenFull)'
    BY <1>1 DEF IInv, ReadInode, Creating, TableSound, HungOnlyWhenFull
  <2> QED BY <2>1, <2>2, <2>3 DEF IInv
<1>2. CASE WriteInode
  <2>1. /\ inode \in Block /\ inode \in granted /\ num_files \in FileIndex
        /\ disk_buf = [id |-> file_id, free |-> 1, size |-> 0]
    BY <1>2 DEF IInv, TypeOK, WriteInode, Creating, FileIndex
  <2>2. /\ \A b \in Block : disk'[b] = IF b = inode THEN disk_buf ELSE disk[b]
        /\ disk' \in [Block -> Contents]
    BY <1>2, <2>1 DEF IInv, TypeOK, WriteInode
  <2>3. /\ \A k \in FileIndex : files'[k] = IF k = num_files THEN [id |-> file_id, inode |-> inode]
                                            ELSE files[k]
        /\ files' \in [FileIndex -> [id : Nat, inode : Nat]]
    BY <1>2, <2>1 DEF IInv, TypeOK, WriteInode
  <2>4. TypeOK'
    BY <1>2, <2>2, <2>3 DEF IInv, TypeOK, WriteInode, Places
  <2>5. (Fresh /\ Formatting /\ Holding /\ Creating /\ HungOnlyWhenFull)'
    BY <1>2 DEF IInv, WriteInode, Fresh, Formatting, Holding, Creating, HungOnlyWhenFull, Mounted
  <2>6. disk_buf.free = 1 /\ disk_buf.id = file_id
    BY <2>1
  <2>7. (Taken /\ Passed)'
    BY <1>2, <2>2, <2>6 DEF IInv, TypeOK, WriteInode, Taken, Passed
  <2>8. TableSound'
    <3>1. \A k \in FileIndex : k < num_files =>
              /\ files[k].inode \in granted /\ files[k].inode # inode /\ files[k].id # file_id
              /\ disk'[files[k].inode] = [id |-> files[k].id, free |-> 1, size |-> 0]
      BY <1>2, <2>2 DEF IInv, TypeOK, TableSound, Creating, WriteInode
    <3>2. \A k, l \in FileIndex : k < num_files /\ l < num_files /\ k # l =>
              files[k].id # files[l].id /\ files[k].inode # files[l].inode
      BY <1>2 DEF IInv, TableSound, WriteInode
    <3>3. \A k \in FileIndex : k < num_files' => k < num_files \/ k = num_files
      BY <1>2 DEF IInv, TypeOK, WriteInode, FileIndex
    <3>4. /\ files'[num_files].inode = inode /\ files'[num_files].id = file_id
          /\ disk'[inode] = [id |-> file_id, free |-> 1, size |-> 0]
      BY <2>1, <2>2, <2>3
    <3>5. \A k \in FileIndex : k < num_files => files'[k] = files[k]
      BY <2>3 DEF IInv, TypeOK, FileIndex
    <3>6. granted' = granted
      BY <1>2 DEF WriteInode
    <3>7. \A k \in FileIndex : k < num_files' =>
              /\ files'[k].inode \in granted'
              /\ disk'[files'[k].inode] = [id |-> files'[k].id, free |-> 1, size |-> 0]
      BY <2>1, <3>1, <3>3, <3>4, <3>5, <3>6
    <3>8. ASSUME NEW k \in FileIndex, NEW l \in FileIndex, k < num_files', l < num_files', k # l
          PROVE  files'[k].id # files'[l].id /\ files'[k].inode # files'[l].inode
      <4>1. CASE k < num_files /\ l < num_files
        BY <4>1, <3>2, <3>5, <3>8
      <4>2. CASE k = num_files /\ l < num_files
        BY <4>2, <3>1, <3>4, <3>5
      <4>3. CASE k < num_files /\ l = num_files
        BY <4>3, <3>1, <3>4, <3>5
      <4> QED BY <4>1, <4>2, <4>3, <3>3, <3>8
    <3> QED BY <3>7, <3>8 DEF TableSound
  <2> QED BY <2>4, <2>5, <2>7, <2>8 DEF IInv
<1> QED BY <1>1, <1>2

LEMMA NextIInv == IInv /\ [Next]_vars => IInv'
<1> SUFFICES ASSUME IInv, [Next]_vars PROVE IInv'
  OBVIOUS
<1>1. CASE Transfer
  BY <1>1 DEF IInv, Transfer, Answer, TypeOK, Fresh, Formatting, Taken, Passed, Holding, Creating,
              TableSound, HungOnlyWhenFull
<1>2. CASE UNCHANGED vars
  BY <1>2 DEF vars, memory, IInv, TypeOK, Fresh, Formatting, Taken, Passed, Holding, Creating,
              TableSound, HungOnlyWhenFull
<1> QED
  BY <1>1, <1>2, RestartIInv, FormatIInv, MountIInv, CallIInv, SearchIInv, MarkIInv, InodeIInv
     DEF Next, Access

\* The members of FileSystem, the buffer and the blocks keep their types.
THEOREM TypeCorrect == Spec => []TypeOK
<1> QED BY InitIInv, NextIInv, PTL DEF Spec, IInv

\* For every disk and through every restart, get_block hands out a block once
\* between two formats (file_system.C 273 to 290).
THEOREM GrantedCorrect == Spec => []GrantedOnce
<1>1. IInv => GrantedOnce
  BY DEF IInv, GrantedOnce, Holding, Taken
<1> QED BY <1>1, InitIInv, NextIInv, PTL DEF Spec

\* Files of the table have ids and inodes of their own, and the disk agrees
\* (file_system.C 216 to 239).
THEOREM TableCorrect == Spec => []TableSound
<1> QED BY InitIInv, NextIInv, PTL DEF Spec, IInv

\* get_block runs past the end of the disk only when no block is free
\* (file_system.C 277 to 280).
THEOREM HungCorrect == Spec => []HungOnlyWhenFull
<1> QED BY InitIInv, NextIInv, PTL DEF Spec, IInv
=============================================================================
