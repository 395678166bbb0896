------------------------------ MODULE MCCapped ------------------------------
(***************************************************************************)
(* Layouts of extents and record lengths for model checking Capped.        *)
(* Lengths are in bytes with headers, multiples of 4 as alloc rounds them; *)
(* with the reserve of 24 bytes an extent of 96 holds two or three of the  *)
(* short records, so that extents fill, wrap and fragment within a few     *)
(* inserts.                                                                *)
(***************************************************************************)
EXTENDS Capped

\* Three extents of one size: every record fits every extent.
UniformExtents == <<96, 96, 96>>
\* Two larger ones, for four records to an extent.
TwoExtents == <<128, 128>>
\* A last extent smaller than the first, as the remainder of a size that is
\* no multiple of the extent size.
ShrinkingExtents == <<160, 64>>
\* A small extent between two larger ones.
NarrowMiddle == <<96, 64, 96>>

\* Records that fit every extent of the layouts above.
SmallLens == {28, 40}
\* 48 + 24 > 64: the longer record does not fit the small extents.
MixedLens == {28, 48}
\* 108 + 24 > 128: the longest record fits no extent of TwoExtents.
WithTooLargeFor128 == {28, 48, 108}
\* 140 + 24 > 160: the longest record fits no extent of ShrinkingExtents.
WithTooLargeFor160 == {28, 48, 140}

=============================================================================
