------------------------------- MODULE MCEdid -------------------------------
(***************************************************************************)
(* EDIDs for TLC, in blocks of 20 bytes: every sequence of up to two data  *)
(* blocks from a set with one of each kind, in one or two extensions, with *)
(* right and wrong offsets and lengths.                                    *)
(***************************************************************************)
EXTENDS Edid

Header(tag, len) == tag * 32 + len

SomeBlocks ==
  { <<Header(2, 2), 128 + 16, 4>>,        \* 1080p60 native, 720p
    <<Header(2, 4), 44, 2, 3, 20>>,       \* two of one name
    <<Header(2, 1), 1>>,                  \* a VIC in no table
    <<Header(1, 6), 9, 7, 7, 1, 7, 7>>,   \* stereo, in two formats
    <<Header(1, 6), 9, 7, 7, 15, 7, 1>>,  \* stereo, then eight channels
    <<Header(3, 3), 70, 208, 0>>,         \* Dolby
    <<Header(7, 3), 6, 4 + 1, 0>>,        \* HDR10
    <<Header(7, 2), 5, 4>>,               \* colorimetry
    <<Header(4, 0)>> }                    \* empty

Zeros(n) == [i \in 1 .. n |-> 0]
Padded(s) == s \o Zeros(BlockSize - Len(s))
Base(extensions) == Padded(Zeros(BlockSize - 2) \o <<extensions, 0>>)
Collection(s, cut) == Padded(<<CtaTag, 3, DataStart + Len(s) - cut, 0>> \o s)

Contents == {<< >>} \cup SomeBlocks \cup {a \o b : a, b \in SomeBlocks}

OneExtension ==
  {Base(1) \o Collection(s, cut) : s \in Contents, cut \in {0, 1}}
TwoExtensions ==
  {Base(2) \o Collection(a, 0) \o Collection(b, 0) : a, b \in SomeBlocks}
Odd ==
  {<<1, 2>>, Base(0), Base(3) \o Collection(<<Header(2, 1), 16>>, 0),
   Base(1) \o Padded(<<1, 3, 10, 0, Header(2, 1), 16>>),
   Base(1) \o Padded(<<CtaTag, 3, 0, 0, Header(2, 1), 16>>),
   Base(1) \o Padded(<<CtaTag, 3, 200, 0, Header(2, 1), 16>>),
   Base(1) \o SubSeq(Collection(<<Header(2, 1), 16>>, 0), 1, BlockSize - 1),
   Base(1) \o Padded(<<CtaTag, 3, 19, 0, Header(2, 14)>>),
   Base(1) \o Padded(<<CtaTag, 3, 19, 0, Header(2, 15)>>)}

MCEdids == OneExtension \cup TwoExtensions \cup Odd
=============================================================================
