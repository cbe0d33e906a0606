-------------------------------- MODULE MkKfs --------------------------------
(***************************************************************************)
(* tools/mkkfs/mkkfs.c: a KFS image is written from a list of files, block *)
(* by block: data, the indirect blocks that index them, an inode for each  *)
(* file, the superblock at the end.  Each read and each pwrite may fail,   *)
(* which ends the program, and other programs may write to the files       *)
(* meanwhile.  What k/include/k/kfs.h defines of the format is the reader  *)
(* at the end of this module.                                              *)
(*                                                                         *)
(* Abstracted: a file is its length, its byte k is <<file, k>>; checksums, *)
(* names and times are left out.  A pwrite is done or fails as a whole.    *)
(***************************************************************************)
EXTENDS Integers, Sequences, SequencesExt

CONSTANTS NbFiles,      \* files on the command line
          Direct,       \* KFS_DIRECT_BLK
          Indirect,     \* KFS_INDIRECT_BLK
          IndirectCnt,  \* KFS_INDIRECT_BLK_CNT
          DataSize,     \* KFS_BLK_DATA_SZ
          MaxLength     \* bound: length of a file

ASSUME SizesAssumption ==
    /\ {NbFiles, Direct, Indirect, IndirectCnt, DataSize} \subseteq Nat \ {0}
    /\ MaxLength \in Nat

Files == 1 .. NbFiles
MaxFileSize == (Direct + Indirect * IndirectCnt) * DataSize

VARIABLES
    length,   \* length of the open file, 0 between two files
    changed,  \* files another program changed after their fstat
    image,    \* the blocks written so far
    pc,       \* what the program does next
    file,     \* the file being written (i + 1; its inode's block too)
    blk_idx,  \* the next block to write data to
    offset,   \* read position in the file
    inode,    \* the inode under construction
    iblock,   \* blks of the indirect block under construction
    taken     \* history: how much of each file was read

vars == <<length, changed, image, pc, file, blk_idx, offset, inode, iblock, taken>>

Running == {"open", "direct", "indirect", "inode", "super"}

EmptyInode == [file_sz |-> 0, blk_cnt |-> 0, next_inode |-> 0,
               d_blks |-> <<>>, i_blks |-> <<>>]

Init ==
    /\ length = 0 /\ changed = {}
    /\ image = [b \in {} |-> 0]
    /\ pc = "open" /\ file = 1 /\ blk_idx = NbFiles + 1
    /\ offset = 0 /\ inode = EmptyInode /\ iblock = <<>>
    /\ taken = [f \in Files |-> 0]

kfs_write(b, content) ==
    image' = [i \in DOMAIN image \cup {b} |-> IF i = b THEN content ELSE image[i]]

-----------------------------------------------------------------------------
(* The blocks of a file of that size.  Fault: a last, partial block is lost.*)
BlkCntRoundedDown(size) == size \div DataSize
BlkCnt(size) == (size + DataSize - 1) \div DataSize

(* kfs_write_files: open, fstat, the inode's fields.  A size beyond what   *)
(* an inode can hold is refused.                                           *)
Open ==
    /\ pc = "open"
    /\ \E size \in 0 .. MaxLength :
          /\ length' = size
          /\ \/ size > MaxFileSize /\ pc' = "failed" /\ UNCHANGED inode
             \/ /\ size <= MaxFileSize
                /\ pc' = "direct"
                /\ inode' = [EmptyInode EXCEPT
                       !.file_sz = size,
                       !.blk_cnt = BlkCnt(size),
                       !.next_inode = IF file = NbFiles THEN 0 ELSE file + 1]
    /\ offset' = 0
    /\ UNCHANGED <<changed, image, file, blk_idx, iblock, taken>>

(* kfs_read_block, and the block of what was read.                         *)
Remaining == length - offset
ReadSize == IF Remaining < DataSize THEN Remaining ELSE DataSize
Eof == Remaining <= 0
DataBlock == [kind |-> "data", first |-> offset, usage |-> ReadSize, of |-> file]

WriteData ==
    /\ ~Eof
    /\ kfs_write(blk_idx, DataBlock)
    /\ blk_idx' = blk_idx + 1
    /\ offset' = offset + ReadSize
    /\ taken' = [taken EXCEPT ![file] = @ + ReadSize]
    /\ UNCHANGED <<length, changed, pc, file>>

(* kfs_write_inode: the direct blocks...                                   *)
DirectBlock ==
    /\ pc = "direct" /\ Len(inode.d_blks) < Direct
    /\ WriteData
    /\ inode' = [inode EXCEPT !.d_blks = Append(@, blk_idx)]
    /\ UNCHANGED iblock

DirectDone ==
    /\ pc = "direct"
    /\ \/ Len(inode.d_blks) < Direct /\ Eof /\ pc' = "inode"
       \/ Len(inode.d_blks) = Direct /\ pc' = "indirect"
    /\ UNCHANGED <<length, changed, image, file, blk_idx, offset, inode, iblock,
                   taken>>

(* ... then the indirect ones: as many data blocks as fit, the block that  *)
(* indexes them behind them; an indirect block without data ends the file. *)
IndirectBlock ==
    /\ pc = "indirect" /\ Len(iblock) < IndirectCnt
    /\ WriteData
    /\ iblock' = Append(iblock, blk_idx)
    /\ UNCHANGED inode

\* Faults: the index block's own number is not taken; its entries are kept.
IndirectLinkKeepsIndex ==
    /\ pc = "indirect" /\ iblock # <<>>
    /\ Len(iblock) = IndirectCnt \/ Eof
    /\ kfs_write(blk_idx, [kind |-> "indirect", blks |-> iblock])
    /\ inode' = [inode EXCEPT !.i_blks = Append(@, blk_idx)]
    /\ pc' = IF Len(inode.i_blks) + 1 = Indirect THEN "inode" ELSE "indirect"
    /\ iblock' = <<>>
    /\ UNCHANGED <<length, changed, file, blk_idx, offset, taken>>
IndirectLinkKeepsEntries ==
    /\ pc = "indirect" /\ iblock # <<>>
    /\ Len(iblock) = IndirectCnt \/ Eof
    /\ kfs_write(blk_idx, [kind |-> "indirect", blks |-> iblock])
    /\ blk_idx' = blk_idx + 1
    /\ inode' = [inode EXCEPT !.i_blks = Append(@, blk_idx)]
    /\ pc' = IF Len(inode.i_blks) + 1 = Indirect THEN "inode" ELSE "indirect"
    /\ iblock' = IF pc' = "inode" THEN <<>> ELSE iblock
    /\ UNCHANGED <<length, changed, file, offset, taken>>

IndirectLink ==
    /\ pc = "indirect" /\ iblock # <<>>
    /\ Len(iblock) = IndirectCnt \/ Eof
    /\ kfs_write(blk_idx, [kind |-> "indirect", blks |-> iblock])
    /\ blk_idx' = blk_idx + 1
    /\ inode' = [inode EXCEPT !.i_blks = Append(@, blk_idx)]
    /\ pc' = IF Len(inode.i_blks) + 1 = Indirect THEN "inode" ELSE "indirect"
    /\ iblock' = <<>>
    /\ UNCHANGED <<length, changed, file, offset, taken>>

IndirectDone ==
    /\ pc = "indirect" /\ iblock = <<>> /\ Eof
    /\ pc' = "inode"
    /\ UNCHANGED <<length, changed, image, file, blk_idx, offset, inode, iblock,
                   taken>>

WriteInode ==
    /\ pc = "inode"
    /\ kfs_write(file, [kind |-> "inode", inode |-> inode])
    /\ file' = file + 1
    /\ pc' = IF file = NbFiles THEN "super" ELSE "open"
    /\ length' = 0
    /\ UNCHANGED <<changed, blk_idx, offset, inode, iblock, taken>>

(* main, once every file is written.  Fault: blk_cnt without the inodes.   *)
WriteSuperblockDataOnly ==
    /\ pc = "super"
    /\ kfs_write(0, [kind |-> "super", inode_idx |-> 1, inode_cnt |-> NbFiles,
                     blk_cnt |-> blk_idx - NbFiles])
    /\ pc' = "done"
    /\ UNCHANGED <<length, changed, file, blk_idx, offset, inode, iblock, taken>>
WriteSuperblock ==
    /\ pc = "super"
    /\ kfs_write(0, [kind |-> "super", inode_idx |-> 1, inode_cnt |-> NbFiles,
                     blk_cnt |-> blk_idx])
    /\ pc' = "done"
    /\ UNCHANGED <<length, changed, file, blk_idx, offset, inode, iblock, taken>>

(* An open, a read or a pwrite fails: err() exits, the image stays as it   *)
(* is.  (open's result is not tested, but the read that follows fails.)    *)
Fail ==
    /\ pc \in Running
    /\ pc' = "failed"
    /\ UNCHANGED <<length, changed, image, file, blk_idx, offset, inode, iblock,
                   taken>>

(* Another program appends to the file being read or truncates it.  (What  *)
(* is done to a file before its turn is in Open, later it is not seen.)    *)
(* Bound: once for each file.                                              *)
Change ==
    /\ pc \in {"direct", "indirect"} /\ file \notin changed
    /\ length' \in 0 .. MaxLength \ {length}
    /\ changed' = changed \cup {file}
    /\ UNCHANGED <<image, pc, file, blk_idx, offset, inode, iblock, taken>>

Next ==
    \/ Open \/ DirectBlock \/ DirectDone \/ IndirectBlock \/ IndirectLink
    \/ IndirectDone \/ WriteInode \/ WriteSuperblock \/ Fail \/ Change

Spec == Init /\ [][Next]_vars

-----------------------------------------------------------------------------
(* Reading an image, as kfs.h lays it out: the inodes from inode_idx along *)
(* next_inode, of each the data of its direct and its indirect blocks.     *)
DataOf(blks) ==
    FlattenSeq([i \in DOMAIN blks |->
        LET b == image[blks[i]]
        IN  [k \in 1 .. b.usage |-> <<b.of, b.first + k - 1>>]])
Contents(ino) ==
    DataOf(ino.d_blks)
      \o FlattenSeq([i \in DOMAIN ino.i_blks |-> DataOf(image[ino.i_blks[i]].blks)])
InodeChain ==
    LET chain[i \in 0 .. NbFiles + 1] ==
          IF i = 0 THEN <<>>
          ELSE LET seq == chain[i - 1]
                   next == IF seq = <<>> THEN image[0].inode_idx
                           ELSE image[Last(seq)].inode.next_inode
               IN  IF next = 0 THEN seq ELSE Append(seq, next)
    IN  chain[NbFiles + 1]

Complete == 0 \in DOMAIN image

(* An image that has a superblock is readable: its inodes are one chain in *)
(* the order of the command line, and each gives back the bytes read from  *)
(* its file, in order, through direct and indirect blocks.                 *)
Readable ==
    Complete =>
        /\ InodeChain = [f \in Files |-> f]
        /\ \A f \in Files :
              Contents(image[f].inode) = [k \in 1 .. taken[f] |-> <<f, k - 1>>]

(* The sizes in the inode are those of its blocks, for every file that no  *)
(* other program touched while it was written: the inode is filled in from *)
(* fstat, the blocks from read.                                            *)
SizesAgree ==
    \A f \in Files \ changed :
        f \in DOMAIN image =>
            LET ino == image[f].inode
                indirect == FlattenSeq([i \in DOMAIN ino.i_blks |-> image[ino.i_blks[i]].blks])
            IN  /\ ino.file_sz = taken[f]
                /\ ino.blk_cnt = Len(ino.d_blks) + Len(indirect)

(* The superblock's blk_cnt counts every block of the image, itself too,   *)
(* the inodes, data and index blocks, and there is no hole among them.     *)
Dense == Complete => DOMAIN image = 0 .. image[0].blk_cnt - 1

(* A block once written is never written again: the blocks of one file,    *)
(* its index blocks and the inodes share nothing.                          *)
WriteOnce ==
    [][\A b \in DOMAIN image : b \in DOMAIN image' /\ image'[b] = image[b]]_vars

(* Where blocks are: each inode at its file's number, data and index       *)
(* blocks behind the inodes, nothing else.                                 *)
Layout ==
    /\ blk_idx \in Nat /\ blk_idx > NbFiles
    /\ file \in 1 .. NbFiles + 1
    /\ pc \in Running \cup {"done", "failed"}
    /\ pc \in {"open", "direct", "indirect", "inode"} => file \in Files
    /\ pc \in {"super", "done"} => file = NbFiles + 1
    /\ DOMAIN image = (1 .. file - 1) \cup (NbFiles + 1 .. blk_idx - 1)
                        \cup (IF pc = "done" THEN {0} ELSE {})
    /\ pc = "done" => image[0].blk_cnt = blk_idx
=============================================================================
