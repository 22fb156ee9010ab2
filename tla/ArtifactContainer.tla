-------------------------- MODULE ArtifactContainer --------------------------
(***************************************************************************)
(* The packed artifact: what write_artifact lays out (compiler.rs), what   *)
(* ArtifactView::parse accepts, and what a parsed view reads back          *)
(* (artifact.rs).  Records point into one shared table of emissions, and   *)
(* a bucket of the region index is the range between two positions of a    *)
(* shared list of entries.                                                 *)
(*                                                                         *)
(* Offsets are in bytes with the record sizes of the format.  Magic,       *)
(* version, shape and the digest only meet bytes nobody changed here.      *)
(***************************************************************************)
EXTENDS Artifact

CONSTANT Limits  (* MAX_EXACT_RECORDS, MAX_REGION_RECORDS, MAX_EMISSION_    *)
                 (* RECORDS, MAX_REGION_INDEX_ENTRIES, MAX_ARTIFACT_BYTES   *)

ASSUME LimitsAssumption ==
  Limits \in [exact : Nat, regions : Nat, emissions : Nat, entries : Nat, bytes : Nat]

HeaderBytes == 256
ExactRecordBytes == 256
RegionRecordBytes == 128
EmissionRecordBytes == 8

(* The buckets in the order of their positions, and the bytes of the       *)
(* position table: one more than the buckets.                              *)
BucketOrder == SetToSeq(Buckets)
IndexTableBytes == 4 * (Len(BucketOrder) + 1)

-----------------------------------------------------------------------------
(* Mutant: the start is taken after the list was added.                    *)
StartsAfter(lists) ==
  [k \in DOMAIN lists |-> Len(FlattenSeq(SubSeq(lists, 1, k)))]

(* Where each of the lists starts in their concatenation.                  *)
Starts(lists) ==
  [k \in DOMAIN lists |-> Len(FlattenSeq(SubSeq(lists, 1, k - 1)))]

(* The two loops that attach emissions, and the record fields written.     *)
PackRecords(records, starts) ==
  [k \in DOMAIN records |->
     [record |-> [records[k] EXCEPT !.emissions = << >>],
      emission_start |-> starts[k], emission_len |-> Len(records[k].emissions)]]

(* attach_exact_emissions, attach_region_emissions and write_artifact: the *)
(* regions' emissions follow those of the exact records.  An entry of the  *)
(* index is the zero-based number of a region.                             *)
Pack(artifact) ==
  LET Lists(records) == [k \in DOMAIN records |-> records[k].emissions]
      exact_lists == Lists(artifact.exact)
      starts == Starts(exact_lists \o Lists(artifact.regions))
      emissions == FlattenSeq(exact_lists \o Lists(artifact.regions))
      entries == [b \in DOMAIN BucketOrder |-> artifact.index[BucketOrder[b]]]
      all_entries == FlattenSeq(entries)
      exact_end == HeaderBytes + ExactRecordBytes * Len(artifact.exact)
      region_end == exact_end + RegionRecordBytes * Len(artifact.regions)
      emission_end == region_end + EmissionRecordBytes * Len(emissions)
      index_bytes == IndexTableBytes + 4 * Len(all_entries)
  IN  [exact |-> PackRecords(artifact.exact, starts),
       regions |-> PackRecords(artifact.regions,
                     SubSeq(starts, Len(exact_lists) + 1, Len(starts))),
       emissions |-> emissions,
       positions |-> Append(Starts(entries), Len(all_entries)),
       entries |-> [p \in DOMAIN all_entries |-> all_entries[p] - 1],
       exact_offset |-> HeaderBytes, region_offset |-> exact_end,
       emission_offset |-> region_end, index_offset |-> emission_end,
       index_bytes |-> index_bytes, total |-> emission_end + index_bytes]

(* The limits write_artifact and build_region_index test as they write, and*)
(* parse tests again.                                                      *)
WithinLimits(file) ==
  /\ Len(file.exact) <= Limits.exact
  /\ Len(file.regions) <= Limits.regions
  /\ Len(file.emissions) <= Limits.emissions
  /\ Len(file.entries) <= Limits.entries
  /\ file.total <= Limits.bytes

-----------------------------------------------------------------------------
(* parse: the sections follow each other, and the index ends the file.     *)
SectionsAccepted(file) ==
  /\ file.exact_offset >= HeaderBytes
  /\ file.region_offset >= file.exact_offset + ExactRecordBytes * Len(file.exact)
  /\ file.emission_offset >= file.region_offset + RegionRecordBytes * Len(file.regions)
  /\ file.index_offset = file.emission_offset + EmissionRecordBytes * Len(file.emissions)
  /\ file.index_bytes >= IndexTableBytes
  /\ file.index_offset + file.index_bytes = file.total
  /\ (file.index_bytes - IndexTableBytes) % 4 = 0

(* validate_index: positions never decrease, none is past the entries, and *)
(* every entry is a region.                                                *)
IndexAccepted(file) ==
  /\ \A b \in DOMAIN file.positions :
       /\ file.positions[b] <= Len(file.entries)
       /\ b > 1 => file.positions[b - 1] <= file.positions[b]
  /\ \A p \in DOMAIN file.entries : file.entries[p] < Len(file.regions)

(* validate_records; the recorded length of a region's path is its depth.  *)
RecordsAccepted(file, max_depth) ==
  LET InTable(r) == r.emission_start + r.emission_len <= Len(file.emissions)
  IN  /\ \A k \in DOMAIN file.exact :
           /\ Len(file.exact[k].record.context) <= MaxContext
           /\ InTable(file.exact[k])
           /\ k > 1 => file.exact[k - 1].record.hash <= file.exact[k].record.hash
      /\ \A k \in DOMAIN file.regions :
           file.regions[k].record.depth <= max_depth /\ InTable(file.regions[k])

FileAccepted(file, max_depth) ==
  /\ WithinLimits(file)
  /\ SectionsAccepted(file)
  /\ IndexAccepted(file)
  /\ RecordsAccepted(file, max_depth)

(* What the accessors of a parsed view read: records with the emissions    *)
(* they point at, and the entries of each bucket as regions.               *)
View(file) ==
  LET Read(records) ==
        [k \in DOMAIN records |->
           [records[k].record EXCEPT !.emissions =
              SubSeq(file.emissions, records[k].emission_start + 1,
                     records[k].emission_start + records[k].emission_len)]]
      NumberOf(bucket) == CHOOSE b \in DOMAIN BucketOrder : BucketOrder[b] = bucket
      Entries(b) == SubSeq(file.entries, file.positions[b] + 1, file.positions[b + 1])
  IN  [exact |-> Read(file.exact), regions |-> Read(file.regions),
       index |-> [bucket \in Buckets |->
                    LET entries == Entries(NumberOf(bucket))
                    IN  [p \in DOMAIN entries |-> entries[p] + 1]]]
=============================================================================
