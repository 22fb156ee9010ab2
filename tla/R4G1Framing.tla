----------------------------- MODULE R4G1Framing -----------------------------
(***************************************************************************)
(* The section carrier around an R4G1 graph: the layout emit_container     *)
(* gives a list of sections (r4g1_export.rs), and the section tables that  *)
(* R4G1Identity::parse and validate_structure accept (r4g1.rs).  A section *)
(* is its ID and its length in bytes; the bodies are module R4G1Graph.     *)
(***************************************************************************)
EXTENDS Integers, Sequences

HeaderBytes == 88
SectionEntryBytes == 16
HeadBytes == 224
Alignment == 8

Section == [id : Nat, length : Nat]
Placed == [id : Nat, offset : Nat, length : Nat]

TableEnd(count) == HeaderBytes + SectionEntryBytes * count

AlignUp(value) == ((value + Alignment - 1) \div Alignment) * Alignment

(* Mutant: the cursor is not aligned after a section.                      *)
PlaceUnaligned(carrier, section) ==
  [table  |-> Append(carrier.table,
                [id |-> section.id, offset |-> carrier.cursor, length |-> section.length]),
   cursor |-> carrier.cursor + section.length,
   total  |-> carrier.cursor + section.length]

(* A section is placed at the cursor, which moves to the next aligned byte;*)
(* the file ends with the last section and not with its padding.           *)
Place(carrier, section) ==
  [table  |-> Append(carrier.table,
                [id |-> section.id, offset |-> carrier.cursor, length |-> section.length]),
   cursor |-> AlignUp(carrier.cursor + section.length),
   total  |-> carrier.cursor + section.length]

(* emit_container places the sections one after the other behind the table.*)
Laid(sections) ==
  LET placed[k \in 0 .. Len(sections)] ==
        IF k = 0
        THEN [table |-> << >>, cursor |-> AlignUp(TableEnd(Len(sections))),
              total |-> TableEnd(Len(sections))]
        ELSE Place(placed[k - 1], sections[k])
  IN  placed[Len(sections)]

-----------------------------------------------------------------------------
(* R4G1Identity::parse: the table fits, IDs ascend, sections are aligned   *)
(* and between the table and the end of the file, and HEAD has its size.   *)
IdentityAccepted(table, total) ==
  /\ TableEnd(Len(table)) <= total
  /\ \A k \in DOMAIN table :
       /\ k > 1 => table[k - 1].id < table[k].id
       /\ table[k].offset % Alignment = 0
       /\ table[k].offset >= TableEnd(Len(table))
       /\ table[k].offset + table[k].length <= total
       /\ table[k].id = 1 => table[k].length = HeadBytes
  /\ \E k \in DOMAIN table : table[k].id = 1

(* validate_structure: known IDs or bit 31 set, the mandatory ones present,*)
(* and no byte in two sections.                                            *)
Known == 1 .. 12
OptionalBit(id) == id \div 1073741824 > 1
Mandatory == (1 .. 6) \cup {8}

Overlap(left, right) ==
  /\ left.length # 0 /\ right.length # 0
  /\ left.offset < right.offset + right.length
  /\ right.offset < left.offset + left.length

StructureAccepted(table) ==
  /\ \A k \in DOMAIN table : table[k].id \in Known \/ OptionalBit(table[k].id)
  /\ Mandatory \subseteq {table[k].id : k \in DOMAIN table}
  /\ \A k, l \in DOMAIN table : k < l => ~ Overlap(table[k], table[l])

CarrierAccepted(table, total) ==
  IdentityAccepted(table, total) /\ StructureAccepted(table)
=============================================================================
