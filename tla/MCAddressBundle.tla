--------------------------- MODULE MCAddressBundle --------------------------
(***************************************************************************)
(* A small instance of AddressBundle: binary slots, paths of depth two and *)
(* three margins, so that equal paths at different margins, prefixes of    *)
(* one another and a full bundle all occur.                                *)
(***************************************************************************)
EXTENDS AddressBundle

MCSlots == {0, 1}
MCMargins == {0, 1, 2}
=============================================================================
