----------------------------- MODULE Resolutions ----------------------------
(***************************************************************************)
(* The resolution tables of dshalUtils.c and dsVideoResolutionSettingsData *)
(* and the lookups in them.  A name is what its text says: lines, scan and *)
(* rate, 0 for a text without one.  The order of the rows is kept: every   *)
(* lookup returns the first row that matches.                              *)
(***************************************************************************)
LOCAL INSTANCE Naturals
LOCAL INSTANCE Sequences

None == [lines |-> 0, scan |-> "p", rate |-> 0]
Name(lines, scan, rate) == [lines |-> lines, scan |-> scan, rate |-> rate]

\* The first row of a table that matches, 0 for none.
FirstRow(table, Matches(_)) ==
  IF \E i \in 1 .. Len(table) : Matches(table[i])
  THEN CHOOSE i \in 1 .. Len(table) :
         Matches(table[i]) /\ \A j \in 1 .. i - 1 : ~Matches(table[j])
  ELSE 0

\* Mutant: the rates of 1080p and 2160p in descending order, those without a
\* rate at the end.
SettingsReordered ==
  << Name(480, "p", 0), Name(480, "i", 0), Name(576, "i", 50), Name(576, "p", 50),
     Name(720, "p", 50), Name(720, "p", 0),
     Name(1080, "p", 24), Name(1080, "p", 25), Name(1080, "p", 30),
     Name(1080, "p", 50), Name(1080, "p", 60), Name(1080, "i", 50), Name(1080, "i", 0),
     Name(2160, "p", 24), Name(2160, "p", 25), Name(2160, "p", 30),
     Name(2160, "p", 50), Name(2160, "p", 60) >>
\* kResolutionsSettings: the names.
Settings ==
  << Name(480, "p", 0), Name(480, "i", 0), Name(576, "i", 50), Name(576, "p", 50),
     Name(720, "p", 0), Name(720, "p", 50),
     Name(1080, "p", 24), Name(1080, "p", 25), Name(1080, "p", 30),
     Name(1080, "p", 50), Name(1080, "p", 60), Name(1080, "i", 0), Name(1080, "i", 50),
     Name(2160, "p", 24), Name(2160, "p", 25), Name(2160, "p", 30),
     Name(2160, "p", 50), Name(2160, "p", 60) >>

\* dsgetResolutionInfo compares as many characters as the name has: a name
\* without a rate also matches one with a rate.
StartsWith(text, name) ==
  text.lines = name.lines /\ text.scan = name.scan /\ name.rate \in {0, text.rate}
ResolutionInfo(name) ==
  LET row == FirstRow(Settings, LAMBDA text : StartsWith(text, name))
  IN  IF row = 0 THEN None ELSE Settings[row]

\* resolutionMap, the rows of one name together where they are so.
ResolutionMap ==
  << [name |-> Name(480, "p", 0), vics |-> {2, 3}],
     [name |-> Name(480, "i", 0), vics |-> {6, 7}],
     [name |-> Name(576, "p", 50), vics |-> {17, 18}],
     [name |-> Name(576, "i", 50), vics |-> {21, 22}],
     [name |-> Name(720, "p", 0), vics |-> {4}],
     [name |-> Name(720, "p", 50), vics |-> {19}],
     [name |-> Name(1080, "i", 0), vics |-> {5}],
     [name |-> Name(1080, "i", 50), vics |-> {20}],
     [name |-> Name(1080, "p", 24), vics |-> {32}],
     [name |-> Name(1080, "p", 25), vics |-> {33}],
     [name |-> Name(1080, "p", 30), vics |-> {34}],
     [name |-> Name(1080, "p", 50), vics |-> {31}],
     [name |-> Name(1080, "p", 60), vics |-> {16}],
     [name |-> Name(2160, "p", 24), vics |-> {93}],
     [name |-> Name(2160, "p", 25), vics |-> {94}],
     [name |-> Name(2160, "p", 30), vics |-> {95}],
     [name |-> Name(2160, "p", 24), vics |-> {98}],
     [name |-> Name(2160, "p", 25), vics |-> {99}],
     [name |-> Name(2160, "p", 30), vics |-> {100}],
     [name |-> Name(2160, "p", 50), vics |-> {101}],
     [name |-> Name(2160, "p", 60), vics |-> {102}] >>
noOfItemsInResolutionMap == 25

\* vicMapTable, the rows of one resolution together: only VIC 44 is in two.
VicMapTable ==
  << [tv |-> Name(480, "i", 0), vics |-> {6, 7, 48, 49, 56, 57}],
     [tv |-> Name(480, "p", 0), vics |-> {2, 3, 46, 47, 54, 55}],
     [tv |-> Name(576, "i", 0), vics |-> {21, 22, 42, 43, 52, 53}],
     [tv |-> Name(576, "p", 0), vics |-> {17, 18, 40, 41, 50, 51}],
     [tv |-> Name(720, "p", 0), vics |-> {4, 39, 45} \cup 58 .. 60 \cup 63 .. 65
                                         \cup 67 .. 69],
     [tv |-> Name(720, "p", 50), vics |-> {19, 66}],
     [tv |-> Name(1080, "i", 0), vics |-> {5, 38, 44}],
     [tv |-> Name(1080, "i", 50), vics |-> {20, 37}],
     [tv |-> Name(1080, "p", 0), vics |-> {16, 44, 61, 62, 75, 76}],
     [tv |-> Name(1080, "p", 50), vics |-> {31, 73}],
     [tv |-> Name(1080, "p", 24), vics |-> {32, 70}],
     [tv |-> Name(1080, "p", 25), vics |-> {33, 71}],
     [tv |-> Name(1080, "p", 30), vics |-> {34, 72}],
     [tv |-> Name(1080, "p", 60), vics |-> {74}],
     [tv |-> Name(2160, "p", 24), vics |-> {77, 82, 87, 93, 98}],
     [tv |-> Name(2160, "p", 25), vics |-> {78, 83, 88, 94, 99}],
     [tv |-> Name(2160, "p", 30), vics |-> {79, 84, 89, 95, 100}],
     [tv |-> Name(2160, "p", 50), vics |-> {80, 85, 90, 101}],
     [tv |-> Name(2160, "p", 60), vics |-> {81, 86, 91, 102}] >>

getResolutionFromVic(vic) ==
  LET row == FirstRow(VicMapTable, LAMBDA entry : vic \in entry.vics)
  IN  IF row = 0 THEN None ELSE VicMapTable[row].tv

\* The name that resolutionMap has for a VIC: no VIC is in two of its rows.
NameOf(vic) ==
  LET row == FirstRow(ResolutionMap, LAMBDA entry : vic \in entry.vics)
  IN  IF row = 0 THEN None ELSE ResolutionMap[row].name
=============================================================================
