-------------------------------- MODULE Edid --------------------------------
(***************************************************************************)
(* What the HAL reads out of the EDID of a display: the walk over the CTA  *)
(* data blocks (dshalEdidParser.c) and its four visitors, which collect    *)
(* the resolutions of dsGetEDID (dsDisplay.c) and the TV resolutions, the  *)
(* HDR standards and surround sound of dsVideoPort.c.                      *)
(*                                                                         *)
(* A step is one extension block, or one data block with the call of the   *)
(* visitor for it.  Each walk is one call of the API; all four read one    *)
(* EDID, in any order.                                                     *)
(***************************************************************************)
EXTENDS Naturals, Sequences, Resolutions

CONSTANTS
  Edids,      \* the EDIDs a display can have
  BlockSize   \* DSHAL_EDID_BLOCK_SIZE

Byte == 0 .. 255
ASSUME EdidAssumption == BlockSize \in 8 .. 128 /\ Edids \subseteq Seq(Byte)

NumExtensionsOffset == BlockSize - 2
DtdOffsetIndex == 2
DataStart == 4               \* DSHAL_EDID_CTA_DATA_BLOCK_COLLECTION_START
MaxOffset == BlockSize - 1   \* DSHAL_EDID_CTA_MAX_OFFSET
CtaTag == 2
AudioTag == 1
VideoTag == 2
VendorTag == 3
ExtendedTag == 7
HdrStaticMetadata == 6
DolbyOui == <<70, 208, 0>>
Hdr10PlusOui == <<139, 132, 144>>
DescriptorLen == 3           \* of a short audio descriptor

Queries == {"list", "mask", "hdr", "surround"}

VARIABLES
  edid,      \* the bytes
  query,     \* the walk that goes on, or "none"
  answered,  \* the walks that have ended
  ext, pos,  \* ext; pos, 0 between two extension blocks
  list,      \* HdmiSupportedResolution[0 .. numSupportedResn - 1]
  mask,      \* *resolutions
  hdr,       \* *capabilities
  surround,  \* *surround
  visited    \* history: the data blocks the walk has visited

results == <<list, mask, hdr, surround>>
vars == <<edid, query, answered, ext, pos, results, visited>>

TvNames == {VicMapTable[i].tv : i \in 1 .. Len(VicMapTable)}
SettingNames == {Settings[i] : i \in 1 .. Len(Settings)}
HdrStandards == {"SDR", "TechnicolorPrime", "HDR10", "HLG", "DolbyVision", "HDR10PLUS"}

TypeOK ==
  /\ edid \in Edids
  /\ query \in Queries \cup {"none"} /\ answered \subseteq Queries
  /\ ext \in Byte /\ pos \in 0 .. BlockSize
  /\ list \in Seq(SettingNames)
  /\ mask \subseteq TvNames
  /\ hdr \subseteq HdrStandards
  /\ surround \in BOOLEAN
  /\ visited \subseteq [ext : Byte, at : 0 .. BlockSize, len : 0 .. 31]

Init ==
  /\ edid \in Edids
  /\ query = "none" /\ answered = {} /\ ext = 0 /\ pos = 0
  /\ list = << >> /\ mask = {} /\ hdr = {} /\ surround = FALSE
  /\ visited = {}

(***************************************************************************)
(* The bytes                                                               *)
(***************************************************************************)

\* The buffer is longer than the EDID and starts as zeros (calloc).
At(i) == IF i < Len(edid) THEN edid[i + 1] ELSE 0

NumExtensions == At(NumExtensionsOffset)
BlockStart(x) == (x + 1) * BlockSize
There(x) == BlockStart(x) + BlockSize - 1 < Len(edid)
Dtd(x) == At(BlockStart(x) + DtdOffsetIndex)
IsCta(x) == At(BlockStart(x)) = CtaTag /\ Dtd(x) \in DataStart .. MaxOffset

TagAt(x, p) == At(BlockStart(x) + p) \div 32
LengthAt(x, p) == At(BlockStart(x) + p) % 32

\* Mutant: the header byte is forgotten.
DataEndEarly(x, p) == p + LengthAt(x, p)
DataEnd(x, p) == p + 1 + LengthAt(x, p)

\* Mutant: a data block may run past the collection.
WithinBlock(x, p) == DataEnd(x, p) <= BlockSize
Within(x, p) == DataEnd(x, p) <= Dtd(x) /\ DataEnd(x, p) <= BlockSize

Data(x, p) == [i \in 1 .. LengthAt(x, p) |-> At(BlockStart(x) + p + i)]

(***************************************************************************)
(* The visitors                                                            *)
(***************************************************************************)

\* parseHdmiResolutionsFromCtaDataBlock: names that are not in the list yet.
Append1 ==
  [name \in SettingNames \cup {None} |->
     [names \in Seq(SettingNames) |->
        IF name = None \/ \E i \in 1 .. Len(names) : names[i] = name
        THEN names ELSE Append(names, name)]]
AppendAll(names, more) ==
  LET after[i \in 0 .. Len(more)] ==
        IF i = 0 THEN names ELSE Append1[ResolutionInfo(more[i])][after[i - 1]]
  IN  after[Len(more)]
VisitList(tag, data) ==
  list' = IF tag = VideoTag
          THEN AppendAll(list, [i \in 1 .. Len(data) |-> NameOf(data[i] % 128)])
          ELSE list

\* parseSupportedResolutionsFromCtaDataBlock.
TvVic(byte) == byte % 128
\* Mutant: a VIC that is in no row gives a resolution too.
TvOfAll(data) == {getResolutionFromVic(TvVic(data[i])) : i \in 1 .. Len(data)}
TvOf(data) == {getResolutionFromVic(TvVic(data[i])) : i \in 1 .. Len(data)} \ {None}
VisitMask(tag, data) == mask' = IF tag = VideoTag THEN mask \cup TvOf(data) ELSE mask

\* parseHdrFromCtaDataBlock.
Eotf(flags) ==
  {s \in {"SDR", "TechnicolorPrime", "HDR10", "HLG"} :
     LET bit == CASE s = "SDR" -> 1 [] s = "TechnicolorPrime" -> 2
                  [] s = "HDR10" -> 4 [] s = "HLG" -> 8
     IN  (flags \div bit) % 2 = 1}
Vendor(oui) ==
  (IF oui = DolbyOui THEN {"DolbyVision"} ELSE {})
    \cup (IF oui = Hdr10PlusOui THEN {"HDR10PLUS"} ELSE {})
HdrOf(tag, data) ==
  CASE tag = ExtendedTag /\ Len(data) >= 2 ->
         IF data[1] = HdrStaticMetadata THEN Eotf(data[2]) ELSE {}
    [] tag = VendorTag /\ Len(data) >= 3 -> Vendor(SubSeq(data, 1, 3))
    [] OTHER -> {}
VisitHdr(tag, data) == hdr' = hdr \cup HdrOf(tag, data)

\* parseSurroundFromCtaDataBlock: one descriptor with more than two channels.
Descriptor(data, i) == i + DescriptorLen - 1 <= Len(data) /\ i % DescriptorLen = 1
VisitSurround(tag, data) ==
  surround' =
    (surround \/ (tag = AudioTag /\ \E i \in 1 .. Len(data) :
                                      Descriptor(data, i) /\ (data[i] % 8) + 1 > 2))

Visit(tag, data) ==
  /\ IF query = "list" THEN VisitList(tag, data) ELSE UNCHANGED list
  /\ IF query = "mask" THEN VisitMask(tag, data) ELSE UNCHANGED mask
  /\ IF query = "hdr" THEN VisitHdr(tag, data) ELSE UNCHANGED hdr
  /\ IF query = "surround" THEN VisitSurround(tag, data) ELSE UNCHANGED surround

(***************************************************************************)
(* The calls, and the walk                                                 *)
(***************************************************************************)

\* dsGetEDID, dsSupportedTvResolutions, dsGetTVHDRCapabilities and
\* dsIsDisplaySurround.  All but the first end at once when there is not even
\* a base block.
Begin(q) ==
  /\ query = "none" /\ q \notin answered
  /\ q = "list" \/ Len(edid) >= BlockSize
  /\ query' = q /\ ext' = 0 /\ pos' = 0 /\ visited' = {}
  /\ hdr' = IF q = "hdr" THEN {"SDR"} ELSE hdr
  /\ UNCHANGED <<edid, answered, list, mask, surround>>

\* dsQueryHdmiResolution lists every name of the table when the walk found none.
Static ==
  AppendAll(<< >>, [j \in 1 .. Len(ResolutionMap) |-> ResolutionMap[j].name])
Fallback == list' = IF list = << >> THEN Static ELSE list

End ==
  /\ query' = "none" /\ answered' = answered \cup {query}
  /\ ext' = 0 /\ pos' = 0

Finish ==
  /\ query # "none" /\ pos = 0
  /\ Len(edid) < BlockSize \/ ext = NumExtensions \/ ~There(ext)
  /\ End
  /\ IF query = "list" THEN Fallback ELSE UNCHANGED list
  /\ UNCHANGED <<edid, mask, hdr, surround, visited>>

Extension ==
  /\ query # "none" /\ pos = 0
  /\ Len(edid) >= BlockSize /\ ext < NumExtensions /\ There(ext)
  /\ IF IsCta(ext) THEN pos' = DataStart /\ UNCHANGED ext
                   ELSE ext' = ext + 1 /\ UNCHANGED pos
  /\ UNCHANGED <<edid, query, answered, results, visited>>

InCollection(x, p) == p < Dtd(x) /\ p < MaxOffset /\ Within(x, p)

DataBlock ==
  /\ query # "none" /\ pos > 0
  /\ InCollection(ext, pos)
  /\ visited' = visited \cup {[ext |-> ext, at |-> pos, len |-> LengthAt(ext, pos)]}
  /\ Visit(TagAt(ext, pos), Data(ext, pos))
  /\ IF query = "surround" /\ surround' THEN End
     ELSE pos' = DataEnd(ext, pos) /\ UNCHANGED <<query, answered, ext>>
  /\ UNCHANGED edid

\* The end of the collection, or a header that cannot be one.
LeaveExtension ==
  /\ query # "none" /\ pos > 0
  /\ ~InCollection(ext, pos)
  /\ ext' = ext + 1 /\ pos' = 0
  /\ UNCHANGED <<edid, query, answered, results, visited>>

Walk == Finish \/ Extension \/ DataBlock \/ LeaveExtension
Next == (\E q \in Queries : Begin(q)) \/ Walk
Spec == Init /\ [][Next]_vars
FairSpec == Spec /\ WF_vars(Walk)

(***************************************************************************)
(* Properties, against the EDID as a whole                                 *)
(***************************************************************************)

\* The extension blocks that count: those before the first that is cut off.
Extensions ==
  {x \in 0 .. NumExtensions - 1 :
     Len(edid) >= (x + 2) * BlockSize /\ IsCta(x)}

\* Where data blocks start: at the start of the collection, and behind one.
IsHead(x) ==
  LET head[p \in DataStart .. MaxOffset] ==
        \/ p = DataStart
        \/ \E q \in DataStart .. p - 1 : head[q] /\ q + 1 + LengthAt(x, q) = p
  IN  head
Heads(x) ==
  LET head == IsHead(x)
  IN  {p \in DataStart .. Dtd(x) - 1 : head[p] /\ p + 1 + LengthAt(x, p) <= Dtd(x)}
Blocks == UNION {{[ext |-> x, at |-> p, len |-> LengthAt(x, p)] : p \in Heads(x)} :
                  x \in Extensions}
BlocksOf(tag) == {b \in Blocks : TagAt(b.ext, b.at) = tag}
Content(b) == Data(b.ext, b.at)
Vics == UNION {{Content(b)[i] % 128 : i \in 1 .. b.len} : b \in BlocksOf(VideoTag)}

\* What a visitor is given lies in the EDID, inside its extension block and
\* before the detailed timings, even if lengths and offsets are wrong.
InBounds ==
  \A b \in visited :
    /\ BlockStart(b.ext) + b.at + b.len < Len(edid)
    /\ b.at + b.len < Dtd(b.ext) /\ Dtd(b.ext) < BlockSize

\* A walk that ends has visited every data block of the EDID and nothing else,
\* unless the visitor stopped it.
EveryBlock ==
  query = "none" /\ answered # {} /\ ~surround => visited = Blocks

\* dshalEdidVisitCtaDataBlocks gives a visitor the data blocks of the EDID, the
\* bytes of each and nothing beyond, whatever the lengths in it.
WalkExact == InBounds /\ EveryBlock

\* dsGetEDID lists the name of every advertised VIC that resolutionMap has,
\* once and no other, or else every name that the table can list; there is
\* room for them.
Listed == {list[i] : i \in 1 .. Len(list)}
Advertised == {NameOf(v) : v \in Vics} \ {None}
ListExact ==
  "list" \in answered =>
    /\ Listed = IF Advertised = {} THEN SettingNames ELSE Advertised
    /\ \A i, j \in 1 .. Len(list) : list[i] = list[j] => i = j
    /\ Len(list) <= noOfItemsInResolutionMap

\* dsGetEDID and dsSupportedTvResolutions agree: a resolution in the list that
\* the TV advertises is in the mask, with the same lines, scan and rate.
Rate(n) == CASE n.rate # 0 -> n.rate [] n.lines = 576 -> 50 [] OTHER -> 60
ListAgreesMask ==
  {"list", "mask"} \subseteq answered /\ Advertised # {} =>
    \A i \in 1 .. Len(list) : \E tv \in mask :
      tv.lines = list[i].lines /\ tv.scan = list[i].scan /\ Rate(tv) = Rate(list[i])

\* dsGetTVHDRCapabilities reports HDR10 when and only when an HDR metadata
\* block has its bit, and Dolby Vision for the OUI of a vendor block.
HdrExact ==
  "hdr" \in answered =>
    /\ "SDR" \in hdr
    /\ "HDR10" \in hdr <=>
         \E b \in BlocksOf(ExtendedTag) :
           b.len >= 2 /\ Content(b)[1] = 6 /\ (Content(b)[2] \div 4) % 2 = 1
    /\ "DolbyVision" \in hdr <=>
         \E b \in BlocksOf(VendorTag) :
           b.len >= 3 /\ \A i \in 1 .. 3 : Content(b)[i] = DolbyOui[i]

\* dsIsDisplaySurround finds a descriptor of more than two channels wherever
\* it is, and takes no other byte for one.
SurroundExact ==
  "surround" \in answered =>
    (surround <=>
       \E b \in BlocksOf(AudioTag) : \E k \in 0 .. b.len \div 3 - 1 :
         Content(b)[3 * k + 1] % 8 >= 2)

\* What the four calls answer is what the EDID says.
AnswersExact ==
  ListExact /\ ListAgreesMask /\ HdrExact /\ SurroundExact

\* Every walk ends, whatever the lengths in the EDID.
WalkEnds == query # "none" ~> query = "none"
=============================================================================
