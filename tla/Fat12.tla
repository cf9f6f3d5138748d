-------------------------------- MODULE Fat12 --------------------------------
(***************************************************************************)
(* Reading a file from the FAT12 floppy (kernel/fs/fs.c): fs_read_file()   *)
(* follows the chain of clusters in the file allocation table, a sector to *)
(* a cluster, and copies each one into a buffer of the size the directory  *)
(* entry gives.  The table is kept in memory as it is on disk, two entries *)
(* of 12 bits in three bytes.                                              *)
(*                                                                         *)
(* The volume is whatever is on the disk, damaged tables included: chains  *)
(* may be too short, too long, meet, go round, or run into a free cluster. *)
(* Who calls fs_read_file(), and on which volumes, is in FileSystem.       *)
(***************************************************************************)
EXTENDS Naturals, Sequences

CONSTANTS
  Clusters,       \* data clusters on the volume; they are numbered from 2
  EntryValues,    \* values of the table's entries
  FatBytes,       \* bytes of the table: sectors_per_fat * bytes_per_sector
  ClusterBytes,   \* bytes of a cluster: one sector
  MaxSize         \* bound: size of the file

ASSUME FatAssumption ==
  /\ Clusters \in Nat \ {0} /\ ClusterBytes \in Nat \ {0}
  /\ FatBytes \in Nat /\ MaxSize \in Nat
  /\ EntryValues \subseteq 0 .. 4095
  /\ Clusters + 1 < 4088    \* FAT12: the numbers of clusters are below the end marks

VARIABLES
  table,            \* the entries as the formatting tool wrote them
  entry,            \* the file's directory entry
  current_cluster,
  file_buffer,      \* the bytes copied so far
  pc                \* where fs_read_file is, or how it returned

readVars == << table, entry, current_cluster, file_buffer, pc >>

DataClusters == 2 .. Clusters + 1
Numbers == 0 .. Clusters + 1

\* The media descriptor and the filler that stand before the first entry.
Entry(n) == IF n = 0 THEN 4080 ELSE IF n = 1 THEN 4095 ELSE table[n]

\* The bytes of fat_buffer: entries 2k and 2k+1 share bytes 3k, 3k+1 and 3k+2.
fat_buffer(i) ==
  LET k == i \div 3
      lo == IF 2 * k \in Numbers THEN Entry(2 * k) ELSE 0
      hi == IF 2 * k + 1 \in Numbers THEN Entry(2 * k + 1) ELSE 0
  IN  CASE i % 3 = 0 -> lo % 256
        [] i % 3 = 1 -> lo \div 256 + 16 * (hi % 16)
        [] i % 3 = 2 -> hi \div 16

\* The entry of a cluster from two bytes of the table, by parity.
Unpack(cluster, even) ==
  LET fat_offset == (cluster * 3) \div 2
      raw == 256 * fat_buffer(fat_offset + 1) + fat_buffer(fat_offset)
  IN  IF fat_offset + 1 >= FatBytes THEN 4095
      ELSE IF cluster % 2 = even THEN raw % 4096 ELSE raw \div 16

\* Mutant: the halves of the shared byte are swapped.
fs_get_fat_entry_Swapped(cluster) == Unpack(cluster, 1)

\* fs_get_fat_entry()
fs_get_fat_entry(cluster) == Unpack(cluster, 0)

\* The bytes of a cluster, as read_disk_sector() brings them.
Sector(cluster) == [k \in 1 .. ClusterBytes |-> << cluster, k >>]

\* An empty file: a dummy buffer of one byte is returned.
ReadEmpty ==
  /\ pc = "start"
  /\ entry.file_size = 0
  /\ pc' = "done"
  /\ UNCHANGED << table, entry, current_cluster, file_buffer >>

\* malloc fails, for the dummy too.
ReadNoMemory ==
  /\ pc = "start"
  /\ pc' = "null"
  /\ UNCHANGED << table, entry, current_cluster, file_buffer >>

ReadStart ==
  /\ pc = "start"
  /\ entry.file_size > 0
  /\ current_cluster' = entry.first_cluster_low
  /\ pc' = "loop"
  /\ UNCHANGED << table, entry, file_buffer >>

\* Mutant: a whole cluster is always copied.
ToCopy_Whole(remaining) == ClusterBytes

ToCopy(remaining) == IF remaining > ClusterBytes THEN ClusterBytes ELSE remaining

\* The body of the loop: one sector is read and copied, and the entry of `from'
\* gives the next one.
CopyThenFollow(from) ==
  /\ pc = "loop"
  /\ current_cluster < 4088
  /\ file_buffer' = file_buffer \o SubSeq(Sector(current_cluster), 1,
                                          ToCopy(entry.file_size - Len(file_buffer)))
  /\ current_cluster' = fs_get_fat_entry(from)
  /\ UNCHANGED << table, entry, pc >>

\* Mutant: the entry of the first cluster is looked up every time.
ReadCluster_FromFirst == CopyThenFollow(entry.first_cluster_low)

ReadCluster == CopyThenFollow(current_cluster)

ReadDone ==
  /\ pc = "loop"
  /\ current_cluster >= 4088
  /\ pc' = "done"
  /\ UNCHANGED << table, entry, current_cluster, file_buffer >>

ReadStep == ReadEmpty \/ ReadNoMemory \/ ReadStart \/ ReadCluster \/ ReadDone
-------------------------------------------------------------------------------
(* Properties *)

\* The cluster numbers that are followed are 12 bits wide, and "our buffer is
\* large enough": on any table, damaged or not, no more is copied than the
\* directory entry's file_size, for which the buffer was allocated.
TypeOK ==
  /\ current_cluster \in 0 .. 4095
  /\ Len(file_buffer) <= entry.file_size
  /\ pc \in {"start", "loop", "done", "null"}

\* The n-th cluster of the file, from the entries as they were written; past
\* the end of the chain, or off the volume, it is the end mark.
Chain ==
  LET C[n \in 0 .. Clusters] ==
        IF n = 0 THEN entry.first_cluster_low
        ELSE IF C[n - 1] \in DataClusters THEN table[C[n - 1]] ELSE 4095
  IN  C

\* The number of clusters a file of this size takes.
Needed == (entry.file_size + ClusterBytes - 1) \div ClusterBytes

\* The chain reaches an end mark after visiting only data clusters.
Ends == \E n \in 0 .. Clusters : /\ Chain[n] >= 4088
                                 /\ \A m \in 0 .. n - 1 : Chain[m] \in DataClusters
Sound == /\ Ends
         /\ Needed <= Clusters
         /\ \A n \in 0 .. Needed - 1 : Chain[n] \in DataClusters

\* The file, from the entries as they were written: the clusters in the order of
\* the chain, byte by byte.
FileBytes ==
  [k \in 1 .. entry.file_size |->
     << Chain[(k - 1) \div ClusterBytes], ((k - 1) % ClusterBytes) + 1 >>]

=============================================================================
