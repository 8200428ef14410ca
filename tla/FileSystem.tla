------------------------------ MODULE FileSystem ------------------------------
(***************************************************************************)
(* The file system of P5, file_system.C, on a disk that outlives the       *)
(* machine.  Every access to the disk is one step, and the machine may be  *)
(* restarted between any two: memory is then new and the disk as it was.   *)
(*                                                                         *)
(* A block says whether it is in use (free is 1 when it is), which file    *)
(* it is the inode of and how large the file is.  Of a file no more than   *)
(* its inode is ever stored; block_nums is always null, so that reads and  *)
(* writes of up to 500 bytes return without a look at the disk (longer     *)
(* writes go through the null pointer and are not modelled).               *)
(*                                                                         *)
(* The module takes member disk to be the mounted disk, though Mount does  *)
(* not set it, and one thread to use it at a time (see BlockingKernel).    *)
(* granted is an auxiliary variable: the blocks that get_block returned    *)
(* since the disk was formatted.                                           *)
(***************************************************************************)
EXTENDS Integers, FiniteSets

CONSTANTS
    Blocks,         \* number of blocks of the disk
    FormatCount,    \* blocks that Format clears, 10000
    Ids,            \* file ids the client uses
    MaxFiles        \* bound on the files: MAX_FILES, which the code does not check

ASSUME DiskAssumption ==
    /\ Blocks \in Nat /\ FormatCount \in 1 .. Blocks
    /\ MaxFiles \in Nat /\ Ids \subseteq Nat

Block == 0 .. Blocks - 1
FileIndex == 0 .. MaxFiles
Contents == [id : Nat, free : Nat, size : Nat]

ZeroBlock == [id |-> 0, free |-> 0, size |-> 0]
NoFile == [id |-> 0, inode |-> 0]       \* memory nobody has written to

VARIABLES
    disk,           \* contents of the blocks
    disk_buf,       \* the buffer all disk accesses go through
    files, num_files, current_block,    \* members of FileSystem
    pc,             \* where the call is
    call, file_id, inode,   \* the call, its argument and its inode_block_num
    i,              \* the loop counter of Format
    answer,         \* what the last call returned
    granted

memory == <<disk_buf, files, num_files, current_block, i, answer>>
vars == <<disk, memory, pc, call, file_id, inode, granted>>

\* What a disk may hold that has not been formatted: blocks in use or not, the
\* first one with some files or none.
Foreign == {d \in [Block -> {[id |-> 0, free |-> f, size |-> n] : f, n \in {0, 1}}] :
              \A b \in Block \ {0} : d[b].size = 0}

NewMachine ==
    /\ disk_buf = ZeroBlock
    /\ files = [k \in FileIndex |-> NoFile] /\ num_files = 0
    /\ current_block = 0 /\ i = 0 /\ answer = "none"
    /\ pc = "new" /\ call = "none" /\ file_id = 0 /\ inode = 0

Init == NewMachine /\ disk \in Foreign /\ granted = {}

\* Power fails, the machine starts again and constructs its FileSystem.
Restart ==
    /\ disk_buf' = ZeroBlock
    /\ files' = [k \in FileIndex |-> NoFile] /\ num_files' = 0
    /\ current_block' = 0 /\ i' = 0 /\ answer' = "none"
    /\ pc' = "new" /\ call' = "none" /\ file_id' = 0 /\ inode' = 0
    /\ UNCHANGED <<disk, granted>>

-----------------------------------------------------------------------------
Format ==
    /\ pc = "new"
    /\ disk_buf' = ZeroBlock
    /\ i' = 0
    /\ pc' = "format"
    /\ granted' = {}
    /\ UNCHANGED <<disk, files, num_files, current_block, answer, call, file_id, inode>>

FormatBlock ==
    /\ pc = "format"
    /\ disk' = [disk EXCEPT ![i] = disk_buf]
    /\ i' = i + 1
    /\ IF i + 1 < FormatCount
       THEN pc' = "format" /\ UNCHANGED disk_buf
       ELSE pc' = "formatFirst" /\ disk_buf' = [disk_buf EXCEPT !.free = 1, !.size = 0]
    /\ UNCHANGED <<files, num_files, current_block, answer, call, file_id, inode, granted>>

FormatFirst ==
    /\ pc = "formatFirst"
    /\ disk' = [disk EXCEPT ![0] = disk_buf]
    /\ pc' = "new"
    /\ answer' = "false"
    /\ UNCHANGED <<disk_buf, files, num_files, current_block, i, call, file_id, inode, granted>>

\* num_files counts up with the loop's own counter, so that a first block with
\* files in it makes Mount run over the table and on for ever.
Mount ==
    /\ pc \in {"new", "idle"}
    /\ disk_buf' = disk[0]
    /\ num_files' = disk[0].size
    /\ pc' = IF disk[0].size = 0 THEN "idle" ELSE "runaway"
    /\ UNCHANGED <<disk, files, current_block, i, answer, call, file_id, inode, granted>>

-----------------------------------------------------------------------------
\* Mutant of LookupFile: the loop stops one file early.
LookupFileShort(id) == \E k \in FileIndex : k < num_files - 1 /\ files[k].id = id

\* The loop looks at one file more than there are.
LookupFile(id) == \E k \in FileIndex : k <= num_files /\ files[k].id = id

\* A call that the table answers without the disk.
Answer(a) ==
    /\ answer' = a
    /\ UNCHANGED <<disk, disk_buf, files, num_files, current_block, pc, call, file_id,
                   inode, i, granted>>

\* A call that goes on to get_block.
NeedBlock(c, id) ==
    /\ call' = c /\ file_id' = id
    /\ pc' = "probe"
    /\ UNCHANGED <<disk, disk_buf, files, num_files, current_block, inode, i, answer, granted>>

Idle == pc = "idle" /\ num_files < MaxFiles

CreateFile(id) ==
    /\ Idle
    /\ IF LookupFile(id) THEN Answer("false") ELSE NeedBlock("create", id)

\* The constructor of File, for a file that may exist.
Open(id) ==
    /\ Idle
    /\ IF LookupFile(id) THEN Answer("none") ELSE NeedBlock("create", id)

\* A file that exists is not deleted; for one that does not, a block is taken.
\* Rewrite has nothing to release, as the size is 0.
DeleteFile(id) ==
    /\ Idle
    /\ IF LookupFile(id) THEN Answer("false") ELSE NeedBlock("delete", id)

\* Read of a file, and Write of up to 500 bytes.
Transfer ==
    /\ Idle
    /\ Answer("nothing")

-----------------------------------------------------------------------------
\* Mutant of Probe: the loop does not go on to the next block.
ProbeSame ==
    /\ pc = "probe"
    /\ current_block < Blocks
    /\ disk_buf' = disk[current_block]
    /\ pc' = IF disk[current_block].free = 1 THEN "probe" ELSE "reread"
    /\ UNCHANGED <<disk, files, num_files, current_block, call, file_id, inode, i,
                   answer, granted>>

\* Mutant of Probe: the loop goes on by two blocks.
ProbePast ==
    /\ pc = "probe"
    /\ current_block < Blocks
    /\ disk_buf' = disk[current_block]
    /\ IF disk[current_block].free = 1
       THEN current_block' = current_block + 2 /\ UNCHANGED pc
       ELSE pc' = "reread" /\ UNCHANGED current_block
    /\ UNCHANGED <<disk, files, num_files, call, file_id, inode, i, answer, granted>>

\* get_block reads blocks until one is not in use.
Probe ==
    /\ pc = "probe"
    /\ current_block < Blocks
    /\ disk_buf' = disk[current_block]
    /\ IF disk[current_block].free = 1
       THEN current_block' = current_block + 1 /\ UNCHANGED pc
       ELSE pc' = "reread" /\ UNCHANGED current_block
    /\ UNCHANGED <<disk, files, num_files, call, file_id, inode, i, answer, granted>>

\* Nothing stops the loop at the last block: the disk never gets ready.
ProbeBeyond ==
    /\ pc = "probe"
    /\ current_block >= Blocks
    /\ pc' = "hung"
    /\ UNCHANGED <<disk, memory, call, file_id, inode, granted>>

Reread ==
    /\ pc = "reread"
    /\ disk_buf' = [disk[current_block] EXCEPT !.free = 1]
    /\ pc' = "mark"
    /\ UNCHANGED <<disk, files, num_files, current_block, call, file_id, inode, i,
                   answer, granted>>

\* The block is in use, and get_block returns to its caller.
Mark ==
    /\ pc = "mark"
    /\ disk' = [disk EXCEPT ![current_block] = disk_buf]
    /\ granted' = granted \cup {current_block}
    /\ inode' = current_block
    /\ pc' = IF call = "create" THEN "readInode" ELSE "idle"
    /\ call' = "none"
    /\ UNCHANGED <<memory, file_id>>

\* Mutant of ReadInode: the inode is written as a block that is not in use.
ReadInodeFree ==
    /\ pc = "readInode"
    /\ disk_buf' = [id |-> file_id, free |-> 0, size |-> 0]
    /\ pc' = "writeInode"
    /\ UNCHANGED <<disk, files, num_files, current_block, call, file_id, inode, i,
                   answer, granted>>

\* CreateFile reads the inode and overwrites what the model keeps of it.
ReadInode ==
    /\ pc = "readInode"
    /\ disk_buf' = [id |-> file_id, free |-> 1, size |-> 0]
    /\ pc' = "writeInode"
    /\ UNCHANGED <<disk, files, num_files, current_block, call, file_id, inode, i,
                   answer, granted>>

WriteInode ==
    /\ pc = "writeInode"
    /\ disk' = [disk EXCEPT ![inode] = disk_buf]
    /\ files' = [files EXCEPT ![num_files] = [id |-> file_id, inode |-> inode]]
    /\ num_files' = num_files + 1
    /\ pc' = "idle" /\ answer' = "true"
    /\ UNCHANGED <<disk_buf, current_block, call, file_id, inode, i, granted>>

Access == FormatBlock \/ FormatFirst \/ Probe \/ ProbeBeyond \/ Reread \/ Mark
            \/ ReadInode \/ WriteInode

Next ==
    \/ Restart \/ Format \/ Mount \/ Transfer
    \/ \E id \in Ids : CreateFile(id) \/ Open(id) \/ DeleteFile(id)
    \/ Access

Spec == Init /\ [][Next]_vars

\* Every access to the disk ends (OperationEnds of BlockingKernel).
FairSpec == Spec /\ WF_vars(Access)

-----------------------------------------------------------------------------
\* get_block never hands out a block a second time, whatever has been mounted,
\* interrupted and restarted since the disk was formatted (lines 273 to 290).
GrantedOnce == pc \in {"reread", "mark"} => current_block \notin granted

\* The files of the table have ids and inodes of their own, and the disk says
\* of each inode that it is in use, and by whom (CreateFile, LookupFile).
TableSound ==
    pc # "runaway" =>
    \A k, l \in FileIndex : k < num_files /\ l < num_files =>
        /\ files[k].inode \in granted
        /\ disk[files[k].inode] = [id |-> files[k].id, free |-> 1, size |-> 0]
        /\ k # l => files[k].id # files[l].id /\ files[k].inode # files[l].inode

\* The search runs past the end of the disk only when every block is in use.
HungOnlyWhenFull == pc = "hung" => \A b \in Block : disk[b].free = 1

\* Format, and the search for a block, which both take many accesses to the disk,
\* come to an end, unless the search is at the end of a full disk.  (Mount of a disk
\* with files never returns; it has no part in the formula.)
CallsEnd == pc \in {"format", "probe"} ~> pc \in {"new", "idle", "hung"}
=============================================================================
