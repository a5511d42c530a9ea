----------------------------- MODULE MCListing ------------------------------
(* The instructions of MCSweep one by one, and whole programs.               *)
EXTENDS Listing, MCSweep, ReferencePrograms

Singles == First256 + Group128 + Len(MessageTypes)

ListingImages ==
  [i \in 0 .. Singles + Len(Programs) - 1 |->
     IF i < Singles THEN MCImages[i] ELSE Programs[i - Singles + 1]]

\* The program whose reference listing shows a shift.
Sixth == << Program6 >>

Both == {"INTERPRET", "DISSASSEMBLE"}

ListingOnly == {"DISSASSEMBLE"}

\* Bound: an image of one instruction that jumps back to 0 runs it only once.
OnceOnly == prog < Singles => Once
=============================================================================
