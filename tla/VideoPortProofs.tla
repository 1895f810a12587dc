-------------------------- MODULE VideoPortProofs ---------------------------
(***************************************************************************)
(* Proofs about VideoPort, for any set of requests, of modes of the        *)
(* compositor and any number of looks at it, and about PortQueries, for    *)
(* any number of connectors and displays.                                  *)
(***************************************************************************)
EXTENDS VideoPort, PortQueries, TLAPS

(***************************************************************************)
(* Names                                                                   *)
(***************************************************************************)

\* A height and a scan are in the table without a rate or with 60, never both.
LEMMA RdkFacts ==
  ASSUME NEW r \in RdkNames
  PROVE  /\ r \in Fields /\ r.w = 0 /\ r.scan \in Scans
         /\ r = [w |-> 0, h |-> r.h, scan |-> r.scan, rate |-> r.rate]
         /\ r.rate = 60 => r.scan = "p" /\ r.h \in {1080, 2160}
         /\ r.rate = 0 => r.h \in {480, 720} \/ (r.h = 1080 /\ r.scan = "i")
<1>1. PICK h \in {480, 576, 720, 1080, 2160}, s \in Scans, t \in {0, 24, 25, 30, 50, 60} :
        /\ r = RdkName(h, s, t)
        /\ t = 60 => s = "p" /\ h \in {1080, 2160}
        /\ t = 0 => h \in {480, 720} \/ (h = 1080 /\ s = "i")
  BY DEF RdkNames, Scans
<1>2. r.w = 0 /\ r.h = h /\ r.scan = s /\ r.rate = t
  BY <1>1 DEF RdkName
<1>3. r \in Fields
  BY <1>1 DEF RdkName, Fields
<1>. QED BY <1>1, <1>2, <1>3 DEF RdkName

\* What a mode or a name is called by is in one form for both.
LEMMA NormalFacts ==
  ASSUME NEW n \in Fields
  PROVE  /\ Normalized(n) \in Fields
         /\ Normalized(n).h = n.h /\ Normalized(n).rate = n.rate
         /\ Plain(n) => Normalized(n).scan = n.scan
         /\ n.rate > 0 /\ n.scan \in Scans =>
              Normalized(n) = [w |-> 0, h |-> n.h, scan |-> n.scan, rate |-> n.rate]
<1>1. /\ Plain(n) => Lower(n.scan) = n.scan
      /\ n.scan \in Scans => Plain(n)
  BY DEF Plain, Lower, Fields, Scans, Capitals
<1>2. n = [w |-> n.w, h |-> n.h, scan |-> n.scan, rate |-> n.rate]
  BY DEF Fields
<1>3. CASE n.w > 0 /\ n.rate > 0 /\ Lower(n.scan) \in Scans
  <2>1. Normalized(n) = [w |-> 0, h |-> n.h, scan |-> Lower(n.scan), rate |-> n.rate]
    BY <1>2, <1>3 DEF Normalized
  <2>. QED BY <1>1, <1>3, <2>1 DEF Fields
<1>4. CASE ~(n.w > 0 /\ n.rate > 0 /\ Lower(n.scan) \in Scans)
  <2>1. Normalized(n) = n
    BY <1>4 DEF Normalized
  <2>2. n.rate > 0 /\ n.scan \in Scans => n.w = 0
    BY <1>1, <1>4 DEF Fields, Plain, Lower
  <2>. QED BY <1>2, <2>1, <2>2
<1>. QED BY <1>3, <1>4

\* How a name and the table name that stands for it compare.
LEMMA NamedFacts ==
  ASSUME NEW n \in Fields, NEW r \in RdkNames, Named(n, r)
  PROVE  /\ n.h = r.h /\ Normalized(n).scan = r.scan
         /\ Plain(n) => n.scan = r.scan
         /\ n.rate = r.rate \/ (r.rate = 0 /\ n.rate = 60)
<1>1. /\ Normalized(n).h = n.h /\ Normalized(n).rate = n.rate
      /\ Plain(n) => Normalized(n).scan = n.scan
  BY NormalFacts
<1>2. r \in Fields  BY RdkFacts
<1>. QED BY <1>1, <1>2 DEF Named, Fields

LEMMA NamedUnique ==
  ASSUME NEW n \in Fields, NEW r1 \in RdkNames, NEW r2 \in RdkNames,
         Named(n, r1), Named(n, r2)
  PROVE  r1 = r2
<1>1. /\ r1.h = n.h /\ r2.h = n.h /\ r1.scan = r2.scan
      /\ n.rate = r1.rate \/ (r1.rate = 0 /\ n.rate = 60)
      /\ n.rate = r2.rate \/ (r2.rate = 0 /\ n.rate = 60)
  BY NamedFacts
<1>2. r1.rate = r2.rate
  <2>1. ~(r1.rate = 0 /\ r2.rate = 60)  BY <1>1, RdkFacts
  <2>2. ~(r2.rate = 0 /\ r1.rate = 60)  BY <1>1, RdkFacts
  <2>. QED BY <1>1, <2>1, <2>2
<1>3. /\ r1 = [w |-> 0, h |-> r1.h, scan |-> r1.scan, rate |-> r1.rate]
      /\ r2 = [w |-> 0, h |-> r2.h, scan |-> r2.scan, rate |-> r2.rate]
  BY RdkFacts
<1>. QED BY <1>1, <1>2, <1>3

\* A table name stands for itself.
LEMMA NamedItself ==
  ASSUME NEW r \in RdkNames
  PROVE  r \in Fields /\ Named(r, r)
BY RdkFacts DEF Named, Normalized

LEMMA CanonicalFacts ==
  ASSUME NEW n \in Fields, NEW r \in RdkNames
  PROVE  Canonical(n) = r <=> Named(n, r)
<1>1. ASSUME Named(n, r) PROVE Canonical(n) = r
  <2>1. PICK c \in RdkNames : Named(n, c) /\ Canonical(n) = c
    BY <1>1 DEF Canonical
  <2>. QED BY <1>1, <2>1, NamedUnique
<1>2. ASSUME Canonical(n) = r PROVE Named(n, r)
  BY <1>2 DEF Canonical, Named
<1>. QED BY <1>1, <1>2

\* Two names are equivalent to the code, one of them of the table, when the
\* table name stands for the other.
LEMMA EquivalentFacts ==
  ASSUME NEW n \in Fields, NEW r \in RdkNames
  PROVE  Equivalent(n, r) <=> Named(n, r)
<1>1. Canonical(r) = r  BY NamedItself, CanonicalFacts
<1>. QED BY <1>1, CanonicalFacts DEF Equivalent

LEMMA ModeFacts ==
  ASSUME NEW m \in Modes
  PROVE  /\ m \in Fields /\ m.scan \in Scans /\ m.rate > 0
         /\ NameOf[m] \in RdkNames \cup {NULL}
         /\ NameOf[m] # NULL => NameOf[m] \in RdkNames /\ Named(m, NameOf[m])
<1>1. m \in Fields /\ m.scan \in Scans /\ m.rate > 0
  BY VideoAssumption
<1>2. NameOf[m] = IF \E rdk \in RdkNames : Named(m, rdk)
                    THEN CHOOSE rdk \in RdkNames : Named(m, rdk)
                    ELSE NULL
  BY DEF NameOf
<1>. QED BY <1>1, <1>2

LEMMA NullNoName == NULL \notin RdkNames
BY RdkFacts, VideoAssumption

\* How the parser reads a name without a capital letter.
LEMMA ParseFacts ==
  ASSUME NEW n \in Fields
  PROVE  /\ Parse(n).h = n.h
         /\ Parse(n).rate \in Nat \ {0}
         /\ Plain(n) => Parse(n).rate = IF n.rate = 0 THEN 60 ELSE n.rate
         /\ Plain(n) /\ (n.w = 0 \/ (n.rate # 0 /\ n.scan \in Scans)) =>
              Parse(n).scan = n.scan
<1>1. Plain(n) => Lower(n.scan) = n.scan
  BY DEF Plain, Lower, Fields, Scans, Capitals
<1>. QED BY <1>1 DEF Parse, Plain, Fields

\* Names of the table and names with a scan of their own are plain.
LEMMA PlainFacts ==
  /\ \A n \in Fields : n.scan \in Scans => Plain(n)
  /\ \A r \in RdkNames : Plain(r)
  /\ \A m \in Modes : Plain(m)
<1>1. \A n \in Fields : n.scan \in Scans => Plain(n)
  BY DEF Plain, Scans, Capitals
<1>. QED BY <1>1, RdkFacts, ModeFacts

\* A request that a table name stands for is read as what the name says.
LEMMA NamedAlike ==
  ASSUME NEW n \in Fields, Plain(n), NEW m \in Modes, NEW r \in RdkNames,
         Named(n, r), Named(m, r)
  PROVE  Alike(Parse(n), m)
<1>1. /\ n.h = m.h /\ n.scan = m.scan
      /\ n.rate = r.rate \/ (r.rate = 0 /\ n.rate = 60)
      /\ m.rate = r.rate \/ (r.rate = 0 /\ m.rate = 60)
  BY NamedFacts, ModeFacts, PlainFacts
<1>2. m.rate > 0 /\ m.scan \in Scans
  BY ModeFacts
<1>3. Parse(n).rate = m.rate
  BY <1>1, <1>2, ParseFacts
<1>4. n.w = 0 \/ (n.rate # 0 /\ n.scan \in Scans)
  <2>1. CASE n.rate = 0
    <3>1. Normalized(n) = n  BY <2>1 DEF Normalized
    <3>2. Normalized(n) = r \/ Normalized(n) = [r EXCEPT !.rate = 60]  BY DEF Named
    <3>3. r \in Fields /\ r.w = 0  BY RdkFacts
    <3>. QED BY <3>1, <3>2, <3>3 DEF Fields
  <2>2. CASE n.rate # 0
    BY <1>1, <1>2, <2>2
  <2>. QED BY <2>1, <2>2
<1>. QED BY <1>1, <1>3, <1>4, ParseFacts DEF Alike

\* The verification is right when it says that the mode matches, for a name
\* without a capital letter.
LEMMA MatchedAlike ==
  ASSUME NEW n \in Requests, Plain(n), NEW m \in Modes, NameOf[m] \in Accepted[n]
  PROVE  Alike(Parse(n), m)
<1>1. n \in Fields  BY VideoAssumption
<1>2. NameOf[m] \in RdkNames /\ Equivalent(n, NameOf[m])
  BY DEF Accepted
<1>3. Named(n, NameOf[m])  BY <1>1, <1>2, EquivalentFacts
<1>4. Named(m, NameOf[m])  BY <1>2, ModeFacts, NullNoName
<1>. QED BY <1>1, <1>2, <1>3, <1>4, NamedAlike

\* The verification is right when it says that it does not.
LEMMA AlikeMatched ==
  ASSUME NEW n \in Requests, NEW m \in Modes, NameOf[m] # NULL,
         n \in RdkNames \/ (n.rate > 0 /\ n.scan \in Scans),
         Alike(Parse(n), m)
  PROVE  NameOf[m] \in Accepted[n]
<1>1. n \in Fields /\ m \in Fields  BY VideoAssumption
<1>2. NameOf[m] \in RdkNames /\ Named(m, NameOf[m])  BY ModeFacts
<1>3. SUFFICES Named(n, NameOf[m])
  BY <1>1, <1>2, EquivalentFacts DEF Accepted
<1>4. m.rate > 0 /\ m.scan \in Scans  BY ModeFacts
<1>5. CASE n.rate > 0 /\ n.scan \in Scans
  <2>1. n.h = m.h /\ n.scan = m.scan /\ n.rate = m.rate
    BY <1>1, <1>5, ParseFacts, PlainFacts DEF Alike, Fields
  <2>2. Normalized(n) = Normalized(m)
    BY <1>1, <1>4, <1>5, <2>1, NormalFacts
  <2>. QED BY <1>2, <2>2 DEF Named
<1>6. CASE n \in RdkNames /\ ~(n.rate > 0 /\ n.scan \in Scans)
  <2>1. n.w = 0 /\ n.scan \in Scans /\ n.rate = 0
    BY <1>1, <1>6, RdkFacts DEF Fields
  <2>2. m.h = n.h /\ m.scan = n.scan /\ m.rate = 60
    BY <1>1, <2>1, ParseFacts, PlainFacts DEF Alike
  <2>3. Normalized(m) = [n EXCEPT !.rate = 60]
    BY <1>1, <1>4, <1>6, <2>1, <2>2, NormalFacts, RdkFacts DEF Fields
  <2>4. Named(m, n)
    BY <2>1, <2>3 DEF Named
  <2>. QED BY <1>1, <1>2, <1>6, <2>4, NamedUnique, NamedItself
<1>. QED BY <1>5, <1>6

(***************************************************************************)
(* The invariant of VideoPort                                              *)
(***************************************************************************)

\* A call knows what it was asked for, and what is queued in it is what it
\* has told the compositor.
Asked ==
  /\ pc # "idle" => request \in Requests
  /\ pc \in {"look", "post", "postCall"} =>
       queued \in {Parse(request), NULL}

\* A listener has been told of the change before the compositor is, and so
\* knows no rate until the call has told it one.
Forgotten ==
  preCb /\ (pc \in {"command", "look", "post", "postCall"} \/ (pc = "preCall" /\ ~cb))
    => known = 0

\* Once the mode has matched, what is shown and what may still be queued have
\* the rate that the listener is going to be told.
Promised ==
  pc \in {"post", "postCall"} /\ ~moved /\ Plain(request) =>
    /\ mode.rate = Parse(request).rate
    /\ queued # NULL => queued.rate = Parse(request).rate

\* A switch that comes late is to a mode of the rate that was told.
LateKnown ==
  preCb /\ postCb /\ known # 0 /\ ~moved /\ queued # NULL => queued.rate = known

IInv == TypeOK /\ Asked /\ Forgotten /\ Promised /\ LateKnown /\ RateKnown

LEMMA IInvInit == Init => IInv
<1>. SUFFICES ASSUME Init PROVE IInv
  OBVIOUS
<1>1. 0 \in 0 .. MaxLooks - 1  BY VideoAssumption
<1>2. TypeOK  BY <1>1 DEF Init, TypeOK
<1>3. Asked /\ Forgotten /\ Promised /\ LateKnown /\ RateKnown
  BY DEF Init, Asked, Forgotten, Promised, LateKnown, RateKnown
<1>. QED BY <1>2, <1>3 DEF IInv

\* The rates that are compared are numbers.
LEMMA RateFacts ==
  /\ \A m \in Modes : m \in Fields /\ m.rate \in Nat \ {0} /\ m # NULL
  /\ \A n \in Requests : Parse(n).rate \in Nat \ {0} /\ n # NULL
<1>1. \A m \in Modes : m \in Fields /\ m.rate \in Nat \ {0} /\ m # NULL
  BY VideoAssumption DEF Fields
<1>2. \A n \in Requests : n \in Fields /\ n # NULL  BY VideoAssumption
<1>. QED BY <1>1, <1>2, ParseFacts

\* What every step leaves of the types, with the names it may store.
LEMMA TypeStep == TypeOK /\ Asked /\ [Next]_vars => TypeOK'
<1>. SUFFICES ASSUME TypeOK, Asked, [Next]_vars PROVE TypeOK'
  OBVIOUS
<1>. USE DEF TypeOK, callbacks, screen, call
<1>1. MaxLooks \in Nat \ {0} /\ 0 \in 0 .. MaxLooks - 1  BY VideoAssumption
<1>2. CASE UNCHANGED vars  BY <1>2 DEF vars
<1>3. CASE dsVideoPortInit \/ dsVideoPortTerm
  BY <1>3 DEF dsVideoPortInit, dsVideoPortTerm
<1>4. ASSUME NEW n \in Requests, dsSetResolution(n) PROVE TypeOK'
  BY <1>4 DEF dsSetResolution
<1>5. CASE Pre \/ Post
  BY <1>5 DEF Pre, Post
<1>6. CASE PreCall
  BY <1>6 DEF PreCall, PreTold
<1>7. CASE Command
  <2>1. queued' \in Modes \cup {NULL}  BY <1>7 DEF Command
  <2>2. looks' \in 0 .. MaxLooks - 1  BY <1>1, <1>7 DEF Command, Return
  <2>3. UNCHANGED <<request, cb, active>> \/ Return  BY <1>7 DEF Command
  <2>. QED BY <1>7, <2>1, <2>2, <2>3 DEF Command, Return
<1>8. CASE LookMatched
  BY <1>8, ModeFacts DEF LookMatched
<1>9. ASSUME NEW name \in Seen, LookAgain(name) \/ LookFailed(name) PROVE TypeOK'
  <2>1. name \in RdkNames \cup {NULL}  BY ModeFacts DEF Seen
  <2>2. CASE LookAgain(name)
    <3>1. looks' \in 0 .. MaxLooks - 1  BY <1>1, <2>2 DEF LookAgain, MoreLooks
    <3>. QED BY <2>1, <2>2, <3>1 DEF LookAgain
  <2>3. CASE LookFailed(name)
    BY <1>1, <2>3 DEF LookFailed, Return
  <2>. QED BY <1>9, <2>2, <2>3
<1>10. CASE PostCall
  <2>1. known' \in Nat  BY <1>10, RateFacts DEF PostCall, Asked
  <2>2. looks' \in 0 .. MaxLooks - 1  BY <1>1, <1>10 DEF PostCall, Return
  <2>. QED BY <1>10, <2>1, <2>2 DEF PostCall, Return
<1>11. CASE \/ dsVideoDeviceInit \/ dsVideoDeviceTerm
            \/ dsRegisterFrameratePreChangeCB \/ dsRegisterFrameratePostChangeCB
  <2>1. UNCHANGED <<inited, screen, call>>
    BY <1>11 DEF dsVideoDeviceInit, dsVideoDeviceTerm, dsRegisterFrameratePreChangeCB,
                 dsRegisterFrameratePostChangeCB
  <2>2. known' = known \/ known' = 0
    BY <1>11 DEF dsVideoDeviceInit, dsVideoDeviceTerm, dsRegisterFrameratePreChangeCB,
                 dsRegisterFrameratePostChangeCB
  <2>3. deviceInited' \in BOOLEAN /\ preCb' \in BOOLEAN /\ postCb' \in BOOLEAN
    BY <1>11, Zenon DEF dsVideoDeviceInit, dsVideoDeviceTerm,
         dsRegisterFrameratePreChangeCB, dsRegisterFrameratePostChangeCB
  <2>. QED BY <2>1, <2>2, <2>3
<1>12. CASE Apply \/ Switch
  BY <1>12 DEF Apply, Switch
<1>. QED BY <1>2, <1>3, <1>4, <1>5, <1>6, <1>7, <1>8, <1>9, <1>10, <1>11, <1>12
        DEF Next, SetStep

Known == Asked /\ Forgotten /\ Promised /\ LateKnown /\ RateKnown

\* The steps of a call up to the command.
LEMMA KnownBegins ==
  ASSUME IInv, \/ \E n \in Requests : dsSetResolution(n)
               \/ Pre \/ PreCall \/ Command
  PROVE  Known'
<1>. USE DEF IInv, TypeOK, Known, Asked, Forgotten, Promised, LateKnown, RateKnown,
             callbacks, screen
<1>1. CASE \E n \in Requests : dsSetResolution(n)
  BY <1>1 DEF dsSetResolution
<1>2. CASE Pre
  BY <1>2 DEF Pre
<1>3. CASE PreCall
  BY <1>3 DEF PreCall, PreTold
<1>4. CASE Command
  BY <1>4 DEF Command, Return
<1>. QED BY <1>1, <1>2, <1>3, <1>4

\* The look that matches: the mode is of the rate that was asked for.
LEMMA KnownMatches ==
  ASSUME IInv, LookMatched
  PROVE  Known'
<1>1. /\ pc = "look" /\ NameOf[mode] \in Accepted[request]
      /\ request \in Requests /\ mode \in Modes
  BY DEF LookMatched, Matched, IInv, TypeOK, Asked
<1>2. Plain(request) => mode.rate = Parse(request).rate
  BY <1>1, MatchedAlike DEF Alike
<1>3. queued \in {Parse(request), NULL}
  BY <1>1 DEF IInv, Asked
<1>. QED BY <1>1, <1>2, <1>3 DEF LookMatched, IInv, Known, Asked, Forgotten, Promised,
                 LateKnown, RateKnown, callbacks

\* The other steps of the verification and the end of the call.
LEMMA KnownEnds ==
  ASSUME IInv, \/ \E name \in Seen : LookAgain(name) \/ LookFailed(name)
               \/ Post \/ PostCall
  PROVE  Known'
<1>. USE DEF IInv, TypeOK, Known, Asked, Forgotten, Promised, LateKnown, RateKnown,
             callbacks, screen
<1>1. CASE \E name \in Seen : LookAgain(name) \/ LookFailed(name)
  BY <1>1 DEF LookAgain, LookFailed, Return
<1>2. CASE Post
  BY <1>2 DEF Post
<1>3. CASE PostCall
  BY <1>3 DEF PostCall, Return
<1>. QED BY <1>1, <1>2, <1>3

\* The video device, the compositor and the TV.
LEMMA KnownAround ==
  ASSUME IInv, \/ dsVideoPortInit \/ dsVideoPortTerm
               \/ dsVideoDeviceInit \/ dsVideoDeviceTerm
               \/ dsRegisterFrameratePreChangeCB \/ dsRegisterFrameratePostChangeCB
               \/ Apply \/ Switch
  PROVE  Known'
<1>. USE DEF IInv, TypeOK, Known, Asked, Forgotten, Promised, LateKnown, RateKnown,
             callbacks, screen, call
<1>1. CASE dsVideoPortInit \/ dsVideoPortTerm
  BY <1>1 DEF dsVideoPortInit, dsVideoPortTerm
<1>2. CASE dsVideoDeviceInit \/ dsVideoDeviceTerm
  BY <1>2 DEF dsVideoDeviceInit, dsVideoDeviceTerm
<1>3. CASE dsRegisterFrameratePreChangeCB \/ dsRegisterFrameratePostChangeCB
  BY <1>3 DEF dsRegisterFrameratePreChangeCB, dsRegisterFrameratePostChangeCB
<1>4. CASE Apply
  BY <1>4 DEF Apply
<1>5. CASE Switch
  BY <1>5 DEF Switch
<1>. QED BY <1>1, <1>2, <1>3, <1>4, <1>5

LEMMA IInvStep == IInv /\ [Next]_vars => IInv'
<1>. SUFFICES ASSUME IInv, [Next]_vars PROVE IInv'
  OBVIOUS
<1>1. TypeOK'  BY TypeStep DEF IInv
<1>2. Known'
  <2>1. CASE UNCHANGED vars
    BY <2>1 DEF IInv, Known, Asked, Forgotten, Promised, LateKnown, RateKnown, vars,
                callbacks, screen, call
  <2>2. CASE Next
    BY <2>2, KnownBegins, KnownMatches, KnownEnds, KnownAround DEF Next, SetStep
  <2>. QED BY <2>1, <2>2
<1>. QED BY <1>1, <1>2 DEF IInv, Known

LEMMA Inductive == Spec => []IInv
BY IInvInit, IInvStep, PTL DEF Spec

(***************************************************************************)
(* Theorems about VideoPort                                                *)
(***************************************************************************)

\* The looks are counted within verifyAttempts, and every name the code takes
\* from the compositor is one of resolutionMap.
THEOREM WellTyped == Spec => []TypeOK
<1>1. IInv => TypeOK  BY DEF IInv
<1>. QED BY <1>1, Inductive, PTL

\* The frame-rate callbacks do not deceive their listener, however many calls
\* fail, time out or are followed by a switch that comes late, in calls for names
\* without a capital letter.
THEOREM ListenerKnowsRate == Spec => []RateKnown
<1>1. IInv => RateKnown  BY DEF IInv
<1>. QED BY <1>1, Inductive, PTL

\* What dsSetResolution says of a mode is so, a match for every name without a
\* capital letter, a mismatch for every name of the table or with its scan and
\* rate spelled out in small letters; and the name that dsGetResolution answers
\* with can be set again; for all modes there are.
THEOREM VerdictsTrue == Spec => VerdictIsReal
<1>1. IInv /\ [Next]_vars =>
        [LookMatched /\ Plain(request) => Alike(Parse(request), mode)]_vars
  BY MatchedAlike DEF IInv, TypeOK, Asked, LookMatched, Matched
<1>2. IInv /\ [Next]_vars =>
        [LookFailed(NameOf[mode]) /\ NameOf[mode] # NULL
           /\ (request \in RdkNames \/ (request.rate > 0 /\ request.scan \in Scans))
           => ~Alike(Parse(request), mode)]_vars
  BY AlikeMatched DEF IInv, TypeOK, Asked, LookFailed, Matched
<1>3. IInv => RoundTrip
  <2>. SUFFICES ASSUME IInv, NameOf[mode] # NULL PROVE Alike(Parse(NameOf[mode]), mode)
    BY DEF RoundTrip
  <2>1. NameOf[mode] \in RdkNames /\ Named(mode, NameOf[mode]) /\ mode \in Modes
    BY ModeFacts DEF IInv, TypeOK
  <2>. QED BY <2>1, NamedItself, NamedAlike, PlainFacts
<1>. QED BY <1>1, <1>2, <1>3, Inductive, PTL
        DEF Spec, VerdictIsReal, MatchIsReal, MismatchIsReal

(***************************************************************************)
(* The invariant of PortQueries                                            *)
(***************************************************************************)

\* Which calls stand where.
PortCalls == EdidQueries \cup OutputQueries \cup
  {"dsIsVideoPortEnabled", "dsIsDisplayConnected", "dsIsVideoPortActive",
   "dsGetSurroundMode"}
BytesCalls == EdidQueries \cup {"dsGetEDID", "dsGetEDIDBytes"}
Placed ==
  /\ at = "port" => op \in PortCalls
  /\ at = "display" => op \in {"dsGetEDID", "dsGetDisplayAspectRatio"}
  /\ at \in {"bytes", "status", "file"} => op \in BytesCalls
  /\ at \in {"mode", "preferred"} => op = "dsGetDisplayAspectRatio"
  /\ at = "send" => op = "dsEnableVideoPort"
  /\ at = "audio" => op = "dsGetSurroundMode"

\* A call that runs has written no display yet, and remembers those that were
\* there.
Watched == at # "idle" => val \notin TVs /\ Tv \in seen

\* With nothing changed since the call began, one that has gone on past the
\* state of the connector knows that there is a display.
Learned ==
  /\ at = "preferred" => ~steady
  /\ /\ Alone /\ steady
     /\ at \in {"status", "file", "mode"} \/ (at = "bytes" /\ op # "dsGetEDIDBytes")
     => Tv # NoTv

QueriesInv ==
  /\ QueriesTypeOK /\ Placed /\ Watched /\ Learned
  /\ NeverOtherTv /\ AnswersReal /\ EnabledRemembered

LEMMA QueriesBegin == QueriesInit => QueriesInv
<1>. SUFFICES ASSUME QueriesInit PROVE QueriesInv
  OBVIOUS
<1>1. QueriesTypeOK
  BY DEF QueriesInit, QueriesTypeOK, Errors, Values, PlainValues
<1>2. "untouched" \notin TVs
  BY PortsAssumption DEF PlainValues
<1>. QED BY <1>1, <1>2 DEF QueriesInit, QueriesInv, Placed, Watched, Learned, NeverOtherTv,
               AnswersReal, EdidIsReal, StateIsReal, AspectIsReal, Answered,
               EnabledRemembered

\* With one connector in use DRM tells about that one.
LEMMA ToldAlone ==
  ASSUME QueriesTypeOK, Alone
  PROVE  Told = Hdmi0
<1>1. ASSUME NEW S \in SUBSET Connectors, Hdmi0 \in S PROVE First(S) = Hdmi0
  <2>1. \A d \in S : d \in Nat \ {0}  BY PortsAssumption
  <2>2. \A d \in S : Hdmi0 <= d  BY <2>1 DEF Hdmi0
  <2>3. First(S) \in S /\ First(S) <= Hdmi0  BY <1>1, <2>2 DEF First
  <2>. QED BY <2>1, <2>3 DEF Hdmi0
<1>2. Best \subseteq {Hdmi0}
  BY DEF Best, Connected, Alone
<1>3. CASE Best = {}
  BY <1>1, <1>3, PortsAssumption DEF Told
<1>4. CASE Best # {}
  <2>1. Hdmi0 \in Best /\ Best \subseteq Connectors  BY <1>2, <1>4 DEF Best
  <2>. QED BY <1>1, <1>4, <2>1 DEF Told
<1>. QED BY <1>3, <1>4

\* What a reading says, and that it says the truth of the one connector.
LEMMA ReadingFacts ==
  ASSUME QueriesTypeOK, NEW r \in Reading \cup Failure
  PROVE  /\ r.ok \in BOOLEAN /\ r.connected \in BOOLEAN /\ r.enabled \in BOOLEAN
         /\ r.connected => r.ok
         /\ Alone /\ r.ok => r.connected = Connected(Hdmi0) /\ r.enabled = Enabled(Hdmi0)
<1>1. CASE r \in Reading
  <2>1. r.ok = TRUE /\ r.connected = Connected(Told) /\ r.enabled = Enabled(Told)
    BY <1>1 DEF Reading
  <2>. QED BY <2>1, ToldAlone DEF Connected, Enabled
<1>2. CASE r \in Failure
  BY <1>2 DEF Failure
<1>. QED BY <1>1, <1>2

LEMMA YesNoFacts ==
  /\ \A b \in BOOLEAN : YesNo(b) \in PlainValues
  /\ \A v \in PlainValues : v \notin TVs
  /\ \A m : AspectOf(m) \in PlainValues
BY PortsAssumption DEF YesNo, PlainValues, AspectOf

\* A call that goes on, or during which something changed, answers nothing
\* that has to be true.
LEMMA NothingSaid ==
  ASSUME at' # "idle" \/ ~steady'
  PROVE  AnswersReal'
BY DEF AnswersReal, EdidIsReal, StateIsReal, AspectIsReal, Answered

(***************************************************************************)
(* The beginning of a call                                                 *)
(***************************************************************************)

LEMMA CallKeeps ==
  ASSUME QueriesInv, NEW o \in Calls, NEW ready \in BOOLEAN,
         NEW arg \in Arguments \cup {"not HDMI"}, NEW place,
         Call(o, ready, arg, place), want' \in BOOLEAN,
         \/ place = "port" /\ o \in PortCalls
         \/ place = "display" /\ o \in {"dsGetEDID", "dsGetDisplayAspectRatio"}
         \/ place = "bytes" /\ o = "dsGetEDIDBytes"
         \/ place = "send" /\ o = "dsEnableVideoPort"
         \/ /\ place = "answer"
            /\ o \in {"dsGetVideoPort", "dsGetDisplay", "dsGetVideoEOTF",
                      "dsGetColorDepth", "dsGetColorSpace"}
  PROVE  QueriesInv'
<1>1. /\ at = "idle" /\ op' = o /\ steady' = TRUE /\ seen' = {plugged[Hdmi0]}
      /\ UNCHANGED <<world, modules, isEnabled, settled>>
  BY DEF Call
<1>2. \/ /\ at' = "idle" /\ err' \in {"NOT_INITIALIZED", "INVALID_PARAM",
                                      "OPERATION_NOT_SUPPORTED"}
         /\ val' = "untouched"
      \/ at' = "idle" /\ place = "answer" /\ err' = "NONE" /\ val' = "known"
      \/ at' = place /\ place # "answer" /\ err' = "NONE" /\ val' = "untouched"
  BY DEF Call, Refusal, Answer
<1>3. val' \in PlainValues /\ val' \notin TVs
  BY <1>2, YesNoFacts DEF PlainValues
<1>4. plugged[Hdmi0] \in TVs \cup {NoTv}
  BY PortsAssumption DEF QueriesInv, QueriesTypeOK
<1>5. QueriesTypeOK'
  BY <1>1, <1>2, <1>3, <1>4 DEF QueriesInv, QueriesTypeOK, world, modules, Errors, Values
<1>6. Placed'
  BY <1>1, <1>2 DEF Placed, BytesCalls
<1>7. Watched' /\ Learned' /\ NeverOtherTv'
  BY <1>1, <1>2, <1>3 DEF Watched, Learned, NeverOtherTv, Tv, world
<1>8. AnswersReal'
  BY <1>1, <1>2 DEF AnswersReal, EdidIsReal, StateIsReal, AspectIsReal, Answered, EdidQueries
<1>9. EnabledRemembered'
  BY <1>1 DEF QueriesInv, EnabledRemembered, Alone, Enabled, Connected, world
<1>. QED BY <1>5, <1>6, <1>7, <1>8, <1>9 DEF QueriesInv

LEMMA EnterKeeps ==
  ASSUME QueriesInv,
         \/ \E arg \in Arguments : Enter(arg)
         \/ \E arg \in Arguments \cup {"not HDMI"} : dsGetVideoPort(arg) \/ dsGetDisplay(arg)
  PROVE  QueriesInv'
<1>1. portInit \in BOOLEAN /\ dispInit \in BOOLEAN /\ want \in BOOLEAN
  BY DEF QueriesInv, QueriesTypeOK
<1>2. ASSUME NEW arg \in Arguments \cup {"not HDMI"}, NEW o \in PortCalls,
             Query(o, portInit, arg, "port")
      PROVE  QueriesInv'
  <2>1. o \in Calls  BY DEF PortCalls, Calls
  <2>. QED BY <1>1, <1>2, <2>1, CallKeeps DEF Query
<1>3. ASSUME NEW arg \in Arguments \cup {"not HDMI"},
             NEW o \in {"dsGetVideoPort", "dsGetDisplay", "dsGetVideoEOTF",
                        "dsGetColorDepth", "dsGetColorSpace"},
             Query(o, portInit, arg, "answer") \/ Query(o, dispInit, arg, "answer")
      PROVE  QueriesInv'
  <2>1. o \in Calls  BY DEF Calls, OutputQueries
  <2>. QED BY <1>1, <1>3, <2>1, CallKeeps DEF Query
<1>4. ASSUME NEW arg \in Arguments,
             dsGetEDID(arg) \/ dsGetDisplayAspectRatio(arg) \/ dsGetEDIDBytes(arg)
      PROVE  QueriesInv'
  <2>1. {"dsGetEDID", "dsGetDisplayAspectRatio", "dsGetEDIDBytes"} \subseteq Calls
    BY DEF Calls
  <2>. QED BY <1>1, <1>4, <2>1, CallKeeps
          DEF Query, dsGetEDID, dsGetDisplayAspectRatio, dsGetEDIDBytes
<1>5. ASSUME NEW arg \in Arguments, NEW enabled \in BOOLEAN, dsEnableVideoPort(arg, enabled)
      PROVE  QueriesInv'
  <2>1. "dsEnableVideoPort" \in Calls  BY DEF Calls
  <2>. QED BY <1>1, <1>5, <2>1, CallKeeps DEF dsEnableVideoPort
<1>6. ASSUME NEW arg \in Arguments,
             \/ dsIsVideoPortEnabled(arg) \/ dsIsDisplayConnected(arg)
             \/ dsIsVideoPortActive(arg) \/ dsGetTVHDRCapabilities(arg)
             \/ dsSupportedTvResolutions(arg) \/ dsIsDisplaySurround(arg)
             \/ dsGetSurroundMode(arg) \/ dsGetMatrixCoefficients(arg)
             \/ dsGetQuantizationRange(arg) \/ dsGetCurrentOutputSettings(arg)
      PROVE  QueriesInv'
  <2>1. \E o \in PortCalls : Query(o, portInit, arg, "port")
    BY <1>6 DEF PortCalls, EdidQueries, OutputQueries, dsIsVideoPortEnabled,
       dsIsDisplayConnected, dsIsVideoPortActive, dsGetTVHDRCapabilities,
       dsSupportedTvResolutions, dsIsDisplaySurround, dsGetSurroundMode,
       dsGetMatrixCoefficients, dsGetQuantizationRange, dsGetCurrentOutputSettings
  <2>. QED BY <1>2, <2>1
<1>7. ASSUME NEW arg \in Arguments \cup {"not HDMI"},
             \/ dsGetVideoEOTF(arg) \/ dsGetColorDepth(arg) \/ dsGetColorSpace(arg)
             \/ dsGetVideoPort(arg) \/ dsGetDisplay(arg)
      PROVE  QueriesInv'
  BY <1>3, <1>7 DEF dsGetVideoEOTF, dsGetColorDepth, dsGetColorSpace, dsGetVideoPort,
                    dsGetDisplay
<1>. QED BY <1>4, <1>5, <1>6, <1>7 DEF Enter

(***************************************************************************)
(* The steps of a call                                                     *)
(***************************************************************************)

Places == {"port", "display", "bytes", "status", "file", "mode", "preferred", "send",
           "audio"}

\* What is the same in every step that goes on with a call or ends it.
InCall ==
  /\ at # "idle"
  /\ UNCHANGED <<world, modules, op, want, seen>>
  /\ isEnabled' \in BOOLEAN /\ settled' \in BOOLEAN /\ steady' \in BOOLEAN
  /\ EnabledRemembered'

LEMMA GoesOn ==
  ASSUME QueriesInv, InCall, NEW place \in Places, Goto(place), Placed', Learned'
  PROVE  QueriesInv'
<1>1. at' = place /\ at' # "idle" /\ UNCHANGED <<err, val>>
  BY DEF Goto, answer, Places
<1>2. QueriesTypeOK'
  BY <1>1 DEF InCall, QueriesInv, QueriesTypeOK, world, modules, Places
<1>3. Watched' /\ NeverOtherTv'
  BY <1>1 DEF InCall, QueriesInv, Watched, NeverOtherTv, Tv, world
<1>4. AnswersReal'  BY <1>1, NothingSaid
<1>. QED BY <1>2, <1>3, <1>4 DEF InCall, QueriesInv

LEMMA Ends ==
  ASSUME QueriesInv, InCall, NEW e \in Errors, NEW v \in PlainValues \cup (TVs \cap {Tv}),
         Answer(e, v), AnswersReal'
  PROVE  QueriesInv'
<1>1. at' = "idle" /\ err' = e /\ val' = v
  BY DEF Answer
<1>2. QueriesTypeOK'
  BY <1>1 DEF InCall, QueriesInv, QueriesTypeOK, world, modules, Values
<1>3. Watched' /\ Placed' /\ Learned'
  BY <1>1 DEF Watched, Placed, Learned
<1>4. NeverOtherTv'
  BY <1>1, YesNoFacts DEF InCall, QueriesInv, Watched, NeverOtherTv
<1>. QED BY <1>2, <1>3, <1>4 DEF InCall, QueriesInv

\* What is learned from a reading is true of the port.
LEMMA LearnKeeps ==
  ASSUME QueriesInv, NEW r \in Reading \cup Failure, Learn(r), UNCHANGED world
  PROVE  isEnabled' \in BOOLEAN /\ settled' \in BOOLEAN /\ EnabledRemembered'
<1>1. QueriesTypeOK /\ EnabledRemembered  BY DEF QueriesInv
<1>2. /\ isEnabled' = IF r.ok THEN r.enabled ELSE isEnabled
      /\ settled' = (settled \/ r.ok)
  BY DEF Learn, NowEnabled
<1>3. isEnabled \in BOOLEAN /\ settled \in BOOLEAN
  BY <1>1 DEF QueriesTypeOK
<1>4. /\ r.ok \in BOOLEAN /\ r.enabled \in BOOLEAN
      /\ Alone /\ r.ok => r.enabled = Enabled(Hdmi0)
  BY <1>1, ReadingFacts
<1>5. Alone' = Alone /\ Enabled(Hdmi0)' = Enabled(Hdmi0)
  BY DEF Alone, Enabled, Connected, world
<1>. QED BY <1>1, <1>2, <1>3, <1>4, <1>5 DEF EnabledRemembered

LEMMA NotLearned ==
  ASSUME QueriesInv, UNCHANGED <<world, isEnabled, settled>>
  PROVE  isEnabled' \in BOOLEAN /\ settled' \in BOOLEAN /\ EnabledRemembered'
BY DEF QueriesInv, QueriesTypeOK, EnabledRemembered, Alone, Enabled, Connected, world

\* The display, the port and the modules are the same when a step has ended.
LEMMA SameWorld ==
  ASSUME UNCHANGED <<world, modules, op>>
  PROVE  /\ Alone' = Alone /\ Tv' = Tv /\ op' = op /\ dispInit' = dispInit
         /\ crtc' = crtc /\ shown' = shown /\ plugged' = plugged
BY DEF Alone, Tv, world, modules

\* The three calls that tell the state of the port.
LEMMA StateKeeps ==
  ASSUME QueriesInv, at = "port", NEW r \in Reading \cup Failure, Noted(r),
         UNCHANGED <<world, modules, op, want, seen>>,
         AnswerEnabled(r) \/ AnswerConnected(r) \/ AnswerActive(r)
  PROVE  QueriesInv'
<1>1. /\ r.ok \in BOOLEAN /\ r.connected \in BOOLEAN /\ r.enabled \in BOOLEAN
      /\ Alone /\ r.ok => r.connected = Connected(Hdmi0) /\ r.enabled = Enabled(Hdmi0)
  BY ReadingFacts DEF QueriesInv
<1>2. steady' = (steady /\ r.ok) /\ steady' \in BOOLEAN
  BY <1>1 DEF Noted, QueriesInv, QueriesTypeOK
<1>3. op \notin BytesCalls /\ op # "dsGetDisplayAspectRatio"
  BY DEF AnswerEnabled, AnswerConnected, AnswerActive, BytesCalls, EdidQueries
<1>4. ASSUME StateIsReal' PROVE AnswersReal'
  BY <1>3, <1>4, SameWorld
     DEF AnswersReal, EdidIsReal, AspectIsReal, Answered, BytesCalls
<1>5. CASE AnswerEnabled(r)
  <2>1. InCall
    BY <1>2, <1>5, LearnKeeps DEF AnswerEnabled, InCall
  <2>2. NowEnabled(r) \in BOOLEAN
    BY <1>1 DEF NowEnabled, QueriesInv, QueriesTypeOK
  <2>3. StateIsReal' \/ ~Alone'
    BY <1>1, <1>2, <1>5, SameWorld
       DEF AnswerEnabled, Answer, NowEnabled, StateIsReal, Answered, Enabled, Connected, Tv
  <2>4. AnswersReal'  BY <1>4, <2>3 DEF AnswersReal
  <2>. QED BY <1>5, <2>1, <2>2, <2>4, Ends, YesNoFacts DEF AnswerEnabled, Errors
<1>6. CASE AnswerConnected(r)
  <2>1. InCall
    BY <1>2, <1>6, LearnKeeps DEF AnswerConnected, InCall
  <2>2. StateIsReal' \/ ~Alone'
    BY <1>1, <1>2, <1>6, SameWorld
       DEF AnswerConnected, Answer, StateIsReal, Answered, Connected, Tv
  <2>3. AnswersReal'  BY <1>4, <2>2 DEF AnswersReal
  <2>4. YesNo(r.connected) \in PlainValues /\ "no" \in PlainValues
    BY <1>1, YesNoFacts DEF PlainValues
  <2>. QED BY <1>6, <2>1, <2>3, <2>4, Ends DEF AnswerConnected, Errors
<1>7. CASE AnswerActive(r)
  <2>1. InCall
    BY <1>2, <1>7, NotLearned DEF AnswerActive, InCall
  <2>2. Hdmi0 \in Connectors /\ crtc[Hdmi0] \in {"none", "encoder", "mode"}
    BY PortsAssumption DEF QueriesInv, QueriesTypeOK
  <2>3. StateIsReal' \/ ~Alone'
    BY <1>1, <1>2, <1>7, <2>2, SameWorld
       DEF AnswerActive, Answer, StateIsReal, Answered, Connected, Enabled, Tv
  <2>4. AnswersReal'  BY <1>4, <2>3 DEF AnswersReal
  <2>5. YesNo(r.connected /\ r.enabled) \in PlainValues /\ "no" \in PlainValues
    BY <1>1, YesNoFacts DEF PlainValues
  <2>. QED BY <1>7, <2>1, <2>4, <2>5, Ends DEF AnswerActive, Errors
<1>. QED BY <1>5, <1>6, <1>7

\* The calls that ask whether there is a display first.
LEMMA AskKeeps ==
  ASSUME QueriesInv, at = "port", NEW r \in Reading \cup Failure, Noted(r),
         UNCHANGED <<world, modules, op, want, seen>>,
         AskHdr(r) \/ AskResolutions(r) \/ AskSurround(r) \/ AskAudio(r)
  PROVE  QueriesInv'
<1>1. /\ r.ok \in BOOLEAN /\ r.connected \in BOOLEAN
      /\ Alone /\ r.ok => r.connected = Connected(Hdmi0)
  BY ReadingFacts DEF QueriesInv
<1>2. steady' = (steady /\ r.ok) /\ steady' \in BOOLEAN
  BY <1>1 DEF Noted, QueriesInv, QueriesTypeOK
<1>3. InCall
  BY <1>2, LearnKeeps
     DEF AskHdr, AskResolutions, AskSurround, AskAudio, IfConnected, InCall
<1>4. /\ op \in EdidQueries \cup {"dsGetSurroundMode"}
      /\ r.ok /\ r.connected /\ op \in EdidQueries /\ dispInit => Goto("bytes")
      /\ r.ok /\ r.connected /\ op \in EdidQueries /\ ~dispInit =>
           \E e \in {"NONE", "GENERAL"} : Answer(e, "zero")
      /\ r.ok /\ r.connected /\ op = "dsGetSurroundMode" => Goto("audio")
      /\ ~(r.ok /\ r.connected) => \E v \in {"untouched", "zero"} : Answer("GENERAL", v)
  BY DEF AskHdr, AskResolutions, AskSurround, AskAudio, IfConnected, MayAsk, AskEdid,
         EdidMissing, EdidQueries
<1>5. op # "dsGetDisplayAspectRatio" /\ op \notin {"dsIsDisplayConnected",
        "dsIsVideoPortActive", "dsIsVideoPortEnabled", "dsGetEDIDBytes", "dsGetEDID"}
  BY <1>4 DEF EdidQueries
<1>6. Alone /\ steady' => (r.ok /\ r.connected <=> Tv # NoTv)
  BY <1>1, <1>2 DEF Connected, Tv
<1>7. CASE r.ok /\ r.connected /\ op \in EdidQueries /\ dispInit
  <2>1. at' = "bytes" /\ Goto("bytes")  BY <1>4, <1>7 DEF Goto
  <2>2. Placed'  BY <1>7, <2>1, SameWorld DEF Placed, BytesCalls
  <2>3. Learned'  BY <1>6, <1>7, <2>1, SameWorld DEF Learned
  <2>. QED BY <1>3, <2>1, <2>2, <2>3, GoesOn DEF Places
<1>8. CASE r.ok /\ r.connected /\ op = "dsGetSurroundMode"
  <2>1. at' = "audio" /\ Goto("audio")  BY <1>4, <1>8 DEF Goto
  <2>2. Placed' /\ Learned'  BY <1>8, <2>1, SameWorld DEF Placed, Learned
  <2>. QED BY <1>3, <2>1, <2>2, GoesOn DEF Places
<1>9. CASE ~(r.ok /\ r.connected) \/ (op \in EdidQueries /\ ~dispInit)
  <2>1. PICK e \in {"NONE", "GENERAL"}, v \in {"untouched", "zero"} :
          Answer(e, v) /\ (dispInit \/ op = "dsGetSurroundMode" => e = "GENERAL")
    <3>1. CASE ~(r.ok /\ r.connected)
      BY <1>4, <3>1
    <3>2. CASE op \in EdidQueries /\ ~dispInit /\ r.ok /\ r.connected
      BY <1>4, <3>2 DEF EdidQueries
    <3>. QED BY <1>9, <3>1, <3>2
  <2>2. AnswersReal'
    <3>1. err' = e  BY <2>1 DEF Answer
    <3>2. ASSUME Alone', steady', dispInit' PROVE err' = "GENERAL" /\ Tv' = NoTv
      <4>1. Alone /\ dispInit  BY <3>2, SameWorld
      <4>2. Tv = NoTv  BY <1>6, <1>9, <3>2, <4>1
      <4>. QED BY <2>1, <3>1, <4>1, <4>2, SameWorld
    <3>3. Alone' => EdidIsReal'
      BY <3>2 DEF EdidIsReal
    <3>4. StateIsReal' /\ AspectIsReal'
      BY <1>5, SameWorld DEF StateIsReal, AspectIsReal, Answered
    <3>. QED BY <3>3, <3>4 DEF AnswersReal
  <2>3. e \in Errors /\ v \in PlainValues
    BY <2>1 DEF Errors, PlainValues
  <2>. QED BY <1>3, <2>1, <2>2, <2>3, Ends
<1>. QED BY <1>4, <1>7, <1>8, <1>9

\* The calls whose answer stands for an unknown display as well.
LEMMA OutputKeeps ==
  ASSUME QueriesInv, at = "port", NEW r \in Reading \cup Failure, Noted(r),
         UNCHANGED <<world, modules, op, want, seen>>,
         AnswerMatrix(r) \/ AnswerQuantization(r) \/ AnswerSettings(r)
  PROVE  QueriesInv'
<1>1. r.ok \in BOOLEAN
  BY ReadingFacts DEF QueriesInv
<1>2. steady' \in BOOLEAN
  BY <1>1 DEF Noted, QueriesInv, QueriesTypeOK
<1>3. InCall
  BY <1>2, NotLearned DEF AnswerMatrix, AnswerQuantization, AnswerSettings, InCall
<1>4. op \in OutputQueries
  BY DEF AnswerMatrix, AnswerQuantization, AnswerSettings, OutputQueries
<1>5. AnswersReal'
  BY <1>4, SameWorld DEF AnswersReal, EdidIsReal, StateIsReal, AspectIsReal, Answered,
                         EdidQueries, OutputQueries
<1>6. \E e \in {"NONE", "GENERAL"}, v \in {"known", "UNKNOWN", "untouched"} : Answer(e, v)
  BY DEF AnswerMatrix, AnswerQuantization, AnswerSettings, Output
<1>7. /\ {"NONE", "GENERAL"} \subseteq Errors
      /\ {"known", "UNKNOWN", "untouched"} \subseteq PlainValues
  BY DEF Errors, PlainValues
<1>. QED BY <1>3, <1>5, <1>6, <1>7, Ends

\* The command of dsEnableVideoPort, whether it is carried out or answered.
LEMMA CommandKeeps ==
  ASSUME QueriesInv, NEW done \in BOOLEAN, NEW answered \in BOOLEAN,
         CommandPort(done, answered)
  PROVE  QueriesInv'
<1>. USE DEF QueriesInv
<1>1. /\ at = "send" /\ op = "dsEnableVideoPort" /\ at' = "idle" /\ val' = "untouched"
      /\ err' \in {"NONE", "GENERAL"}
      /\ UNCHANGED <<plugged, shown, modules, op, want, seen>>
  BY DEF CommandPort, Placed, Answer
<1>2. /\ crtc' = IF done THEN [crtc EXCEPT ![Hdmi0] = IF want THEN "mode" ELSE "none"]
                         ELSE crtc
      /\ isEnabled' = IF answered THEN want ELSE isEnabled
      /\ settled' = ((done /\ answered) \/ (settled /\ ~done /\ ~answered))
      /\ steady' = (steady /\ answered)
  BY DEF CommandPort, Remembered
<1>3. /\ want \in BOOLEAN /\ isEnabled \in BOOLEAN /\ settled \in BOOLEAN
      /\ steady \in BOOLEAN /\ crtc \in [Connectors -> {"none", "encoder", "mode"}]
      /\ Hdmi0 \in Connectors
  BY PortsAssumption DEF QueriesTypeOK
<1>4. QueriesTypeOK'
  <2>1. isEnabled' \in BOOLEAN /\ settled' \in BOOLEAN /\ steady' \in BOOLEAN
    BY <1>2, <1>3
  <2>2. crtc' \in [Connectors -> {"none", "encoder", "mode"}]
    BY <1>2, <1>3
  <2>. QED BY <1>1, <2>1, <2>2 DEF QueriesTypeOK, modules, Errors, Values, PlainValues
<1>5. val' \notin TVs  BY <1>1, YesNoFacts DEF PlainValues
<1>6. Placed' /\ Watched' /\ Learned' /\ NeverOtherTv'
  BY <1>1, <1>5 DEF Placed, Watched, Learned, NeverOtherTv
<1>7. AnswersReal'
  BY <1>1 DEF AnswersReal, EdidIsReal, StateIsReal, AspectIsReal, Answered, EdidQueries
<1>8. EnabledRemembered'
  <2>1. CASE done /\ answered
    <3>1. isEnabled' = want /\ crtc'[Hdmi0] = IF want THEN "mode" ELSE "none"
      BY <1>2, <1>3, <2>1
    <3>. QED BY <1>1, <1>3, <3>1 DEF EnabledRemembered, Enabled
  <2>2. CASE ~done /\ ~answered
    BY <1>1, <1>2, <2>2 DEF EnabledRemembered, Enabled, Connected, Alone
  <2>3. CASE done # answered
    BY <1>2, <2>3 DEF EnabledRemembered
  <2>. QED BY <2>1, <2>2, <2>3
<1>. QED BY <1>4, <1>6, <1>7, <1>8

LEMMA DisplayKeeps ==
  ASSUME QueriesInv, ReadDisplay
  PROVE  QueriesInv'
<1>1. PICK r \in Reading \cup Failure :
        /\ Noted(r)
        /\ CASE r.connected /\ op = "dsGetEDID" -> Goto("bytes")
             [] r.connected /\ op = "dsGetDisplayAspectRatio" -> Goto("mode")
             [] ~r.connected /\ op = "dsGetEDID" -> Answer("NONE", "untouched")
             [] OTHER -> Answer("GENERAL", "untouched")
  BY DEF ReadDisplay
<1>2. /\ r.ok \in BOOLEAN /\ r.connected \in BOOLEAN
      /\ Alone /\ r.ok => r.connected = Connected(Hdmi0)
  BY ReadingFacts DEF QueriesInv
<1>3. /\ at = "display" /\ op \in {"dsGetEDID", "dsGetDisplayAspectRatio"}
      /\ UNCHANGED <<world, modules, isEnabled, op, want, seen, settled>>
  BY DEF ReadDisplay, QueriesInv, Placed
<1>4. steady' = (steady /\ r.ok) /\ steady' \in BOOLEAN
  BY <1>1, <1>2 DEF Noted, QueriesInv, QueriesTypeOK
<1>5. InCall  BY <1>3, <1>4, NotLearned DEF InCall
<1>6. Alone /\ steady' => (r.connected <=> Tv # NoTv)
  BY <1>2, <1>4 DEF Connected, Tv
<1>7. CASE r.connected
  <2>1. PICK place \in {"bytes", "mode"} :
          Goto(place) /\ op = IF place = "bytes" THEN "dsGetEDID" ELSE "dsGetDisplayAspectRatio"
    BY <1>1, <1>3, <1>7
  <2>2. Placed'  BY <1>3, <2>1 DEF Goto, Placed, BytesCalls
  <2>3. Learned'  BY <1>3, <1>6, <1>7, <2>1, SameWorld DEF Goto, Learned
  <2>. QED BY <1>5, <2>1, <2>2, <2>3, GoesOn DEF Places
<1>8. CASE ~r.connected
  <2>1. PICK e \in {"NONE", "GENERAL"} :
          Answer(e, "untouched") /\ (op = "dsGetDisplayAspectRatio" => e = "GENERAL")
    BY <1>1, <1>3, <1>8
  <2>2. err' = e /\ val' = "untouched"  BY <2>1 DEF Answer
  <2>3. Alone' /\ steady' => Tv' = NoTv
    BY <1>3, <1>6, <1>8, SameWorld
  <2>4. AnswersReal'
    <3>1. Alone' => EdidIsReal'
      BY <1>3, <2>2, <2>3 DEF EdidIsReal, EdidQueries
    <3>2. StateIsReal' /\ AspectIsReal'
      BY <1>3, <2>1, <2>2 DEF StateIsReal, AspectIsReal, Answered
    <3>. QED BY <3>1, <3>2 DEF AnswersReal
  <2>. QED BY <1>5, <2>1, <2>4, Ends DEF Errors, PlainValues
<1>. QED BY <1>2, <1>7, <1>8

\* The calls that go for the EDID answer no state and no aspect ratio.
LEMMA BytesSay ==
  ASSUME UNCHANGED op, op \in BytesCalls, Alone' => EdidIsReal'
  PROVE  AnswersReal'
BY DEF AnswersReal, StateIsReal, AspectIsReal, Answered, BytesCalls, EdidQueries

\* The ways in which they end without an EDID.
LEMMA FailEnds ==
  ASSUME op \in BytesCalls, BytesFail
  PROVE  \E e \in Errors : Answer(e, "zero") /\ (op \notin EdidQueries => e = "GENERAL")
BY DEF BytesFail, EdidMissing, BytesCalls, EdidQueries, Errors

LEMMA NothingEnds ==
  ASSUME op \in BytesCalls, BytesNothing
  PROVE  \E e \in Errors, v \in PlainValues :
           Answer(e, v) /\ (op = "dsGetEDIDBytes" => e = "NONE" /\ v = "untouched")
BY DEF BytesNothing, EdidMissing, BytesCalls, EdidQueries, Errors, PlainValues

LEMMA ShortEnds ==
  ASSUME op \in BytesCalls, BytesShort \/ NoDirectory
  PROVE  \E e \in Errors, v \in PlainValues : Answer(e, v)
BY DEF BytesShort, NoDirectory, EdidMissing, BytesCalls, EdidQueries, Errors, PlainValues

LEMMA BytesKeeps ==
  ASSUME QueriesInv, ReadBytes
  PROVE  QueriesInv'
<1>1. PICK r \in Reading \cup Failure :
        Noted(r) /\ IF r.connected THEN Goto("status") ELSE BytesNothing
  BY DEF ReadBytes
<1>2. /\ r.ok \in BOOLEAN /\ r.connected \in BOOLEAN
      /\ Alone /\ r.ok => r.connected = Connected(Hdmi0)
  BY ReadingFacts DEF QueriesInv
<1>3. /\ at = "bytes" /\ op \in BytesCalls
      /\ UNCHANGED <<world, modules, isEnabled, op, want, seen, settled>>
  BY DEF ReadBytes, QueriesInv, Placed
<1>4. steady' = (steady /\ r.ok) /\ steady' \in BOOLEAN /\ (steady' => steady)
  BY <1>1, <1>2 DEF Noted, QueriesInv, QueriesTypeOK
<1>5. InCall  BY <1>3, <1>4, NotLearned DEF InCall
<1>6. Alone /\ steady' => (r.connected <=> Tv # NoTv)
  BY <1>2, <1>4 DEF Connected, Tv
<1>7. CASE r.connected
  <2>1. Goto("status") /\ at' = "status"  BY <1>1, <1>7 DEF Goto
  <2>2. Placed'  BY <1>3, <2>1 DEF Placed
  <2>3. Learned'  BY <1>3, <1>6, <1>7, <2>1, SameWorld DEF Learned
  <2>. QED BY <1>5, <2>1, <2>2, <2>3, GoesOn DEF Places
<1>8. CASE ~r.connected
  <2>1. PICK e \in Errors, v \in PlainValues :
          Answer(e, v) /\ (op = "dsGetEDIDBytes" => e = "NONE" /\ v = "untouched")
    BY <1>1, <1>3, <1>8, NothingEnds
  <2>2. err' = e /\ val' = v  BY <2>1 DEF Answer
  <2>3. Alone' /\ steady' => Tv' = NoTv /\ op = "dsGetEDIDBytes"
    <3>. SUFFICES ASSUME Alone', steady' PROVE Tv' = NoTv /\ op = "dsGetEDIDBytes"
      OBVIOUS
    <3>1. Alone /\ steady  BY <1>3, <1>4, SameWorld
    <3>2. Tv = NoTv  BY <1>6, <1>8, <3>1
    <3>. QED BY <1>3, <3>1, <3>2, SameWorld DEF QueriesInv, Learned
  <2>4. Alone' => EdidIsReal'
    BY <1>3, <2>1, <2>2, <2>3 DEF EdidIsReal, EdidQueries
  <2>5. AnswersReal'  BY <1>3, <2>4, BytesSay
  <2>. QED BY <1>5, <2>1, <2>5, Ends
<1>. QED BY <1>2, <1>7, <1>8

\* The files of HDMI-A-1: what the code does with them when nothing has
\* changed, and when something has failed.
LEMMA SysfsKeeps ==
  ASSUME QueriesInv, ReadStatus \/ ReadFile
  PROVE  QueriesInv'
<1>1. /\ at \in {"status", "file"} /\ op \in BytesCalls
      /\ UNCHANGED <<world, modules, isEnabled, op, want, seen, settled>>
  BY DEF ReadStatus, ReadFile, QueriesInv, Placed
<1>2. steady' = steady \/ steady' = FALSE
  BY DEF ReadStatus, ReadFile
<1>3. InCall
  <2>1. steady' \in BOOLEAN  BY <1>2 DEF QueriesInv, QueriesTypeOK
  <2>. QED BY <1>1, <2>1, NotLearned DEF InCall
<1>4. Alone /\ steady => Tv # NoTv
  BY <1>1 DEF QueriesInv, Learned
<1>5. CASE Goto("file") /\ Connected(Sysfs)
  <2>1. at' = "file" /\ Tv # NoTv  BY <1>5 DEF Goto, Connected, Sysfs, Tv
  <2>2. Placed' /\ Learned'  BY <1>1, <2>1, SameWorld DEF Placed, Learned
  <2>. QED BY <1>3, <1>5, <2>2, GoesOn DEF Places
<1>6. CASE Readable /\ BytesOf(plugged[Sysfs])
  <2>1. Tv # NoTv /\ Tv \in TVs
    BY <1>6, PortsAssumption DEF Readable, Connected, Sysfs, Tv, QueriesInv, QueriesTypeOK
  <2>2. Answer("NONE", Tv) /\ err' = "NONE" /\ val' = Tv
    BY <1>6 DEF BytesOf, Sysfs, Tv, Answer
  <2>3. AnswersReal'  BY <1>1, <2>1, <2>2, SameWorld, BytesSay DEF EdidIsReal
  <2>. QED BY <1>3, <2>1, <2>2, <2>3, Ends DEF Errors
<1>7. CASE BytesFail /\ ~Connected(Sysfs) /\ UNCHANGED steady
  <2>1. PICK e \in Errors :
          Answer(e, "zero") /\ (op \notin EdidQueries => e = "GENERAL")
    BY <1>1, <1>7, FailEnds
  <2>2. Tv = NoTv  BY <1>7 DEF Connected, Sysfs, Tv
  <2>3. AnswersReal'
    <3>1. ~(Alone' /\ steady')  BY <1>1, <1>4, <1>7, <2>2, SameWorld
    <3>. QED BY <1>1, <3>1, BytesSay DEF EdidIsReal
  <2>. QED BY <1>3, <2>1, <2>3, Ends DEF PlainValues
<1>8. CASE (BytesFail \/ BytesShort \/ NoDirectory) /\ steady' = FALSE
  <2>1. PICK e \in Errors, v \in PlainValues : Answer(e, v)
    BY <1>1, <1>8, FailEnds, ShortEnds DEF PlainValues
  <2>2. AnswersReal'  BY <1>8, NothingSaid
  <2>. QED BY <1>3, <2>1, <2>2, Ends
<1>. QED BY <1>5, <1>6, <1>7, <1>8 DEF ReadStatus, ReadFile, Readable

LEMMA AspectKeeps ==
  ASSUME QueriesInv, AskMode \/ ReadPreferred
  PROVE  QueriesInv'
<1>1. /\ at \in {"mode", "preferred"} /\ op = "dsGetDisplayAspectRatio"
      /\ UNCHANGED <<world, modules, isEnabled, op, want, seen, settled>>
  BY DEF AskMode, ReadPreferred, QueriesInv, Placed, history
<1>2. steady' = steady \/ steady' = FALSE
  BY DEF AskMode, ReadPreferred, history
<1>3. InCall
  <2>1. steady' \in BOOLEAN  BY <1>2 DEF QueriesInv, QueriesTypeOK
  <2>. QED BY <1>1, <2>1, NotLearned DEF InCall
<1>4. CASE Goto("preferred") /\ steady' = FALSE
  <2>1. Placed' /\ Learned'  BY <1>1, <1>4 DEF Goto, Placed, Learned
  <2>. QED BY <1>3, <1>4, <2>1, GoesOn DEF Places
<1>5. CASE at = "mode" /\ Answer("NONE", AspectOf(shown)) /\ UNCHANGED steady
  <2>1. Alone /\ steady => Tv # NoTv  BY <1>5 DEF QueriesInv, Learned
  <2>2. val' = AspectOf(shown)  BY <1>5 DEF Answer
  <2>3. shown.w \in Nat /\ shown.h \in Nat
    BY PortsAssumption DEF QueriesInv, QueriesTypeOK
  <2>4. AspectOf(shown) = "16x9" <=> 3 * shown.w > 4 * shown.h
    BY <2>3 DEF AspectOf
  <2>5. Alone' => AspectIsReal'
    BY <1>1, <1>5, <2>1, <2>2, <2>4, SameWorld DEF AspectIsReal, Answered
  <2>6. EdidIsReal' /\ StateIsReal'
    BY <1>1 DEF EdidIsReal, StateIsReal, Answered, EdidQueries
  <2>7. AnswersReal'  BY <2>5, <2>6 DEF AnswersReal
  <2>. QED BY <1>3, <1>5, <2>7, Ends, YesNoFacts DEF Errors
<1>6. CASE /\ ~steady'
           /\ \E v \in {"16x9"} \cup {AspectOf(m) : m \in PreferredMode} : Answer("NONE", v)
  <2>1. PICK v \in PlainValues : Answer("NONE", v)
    BY <1>6, YesNoFacts DEF PlainValues
  <2>2. AnswersReal'  BY <1>6, NothingSaid
  <2>. QED BY <1>3, <2>1, <2>2, Ends DEF Errors
<1>7. CASE AskMode
  BY <1>4, <1>5, <1>6, <1>7 DEF AskMode
<1>8. CASE ReadPreferred
  <2>1. ~steady'  BY <1>8 DEF ReadPreferred, history, QueriesInv, Learned
  <2>. QED BY <1>6, <1>8, <2>1 DEF ReadPreferred
<1>. QED BY <1>7, <1>8

LEMMA EncodingKeeps ==
  ASSUME QueriesInv, ReadEncoding
  PROVE  QueriesInv'
<1>1. /\ at = "audio" /\ op = "dsGetSurroundMode"
      /\ UNCHANGED <<world, modules, isEnabled, op, want, steady, seen, settled>>
  BY DEF ReadEncoding, QueriesInv, Placed, history
<1>2. InCall
  BY <1>1, NotLearned DEF InCall, QueriesInv, QueriesTypeOK
<1>3. PICK v \in PlainValues : Answer("NONE", v)
  BY DEF ReadEncoding, PlainValues
<1>4. AnswersReal'
  BY <1>1 DEF AnswersReal, EdidIsReal, StateIsReal, AspectIsReal, Answered, EdidQueries
<1>. QED BY <1>2, <1>3, <1>4, Ends DEF Errors

(***************************************************************************)
(* What happens between the calls and during them                          *)
(***************************************************************************)

LEMMA ModulesKeep ==
  ASSUME QueriesInv, InitVideoPort \/ TermVideoPort \/ dsDisplayInit \/ dsDisplayTerm
  PROVE  QueriesInv'
<1>. USE DEF QueriesInv, InitVideoPort, TermVideoPort, dsDisplayInit, dsDisplayTerm
<1>1. /\ at = "idle" /\ UNCHANGED <<world, op, at, want, answer, seen>>
      /\ \/ UNCHANGED <<steady, dispInit>>
         \/ steady' = FALSE
      /\ \/ settled' = FALSE
         \/ UNCHANGED <<isEnabled, settled>>
  OBVIOUS
<1>2. /\ portInit' \in BOOLEAN /\ dispInit' \in BOOLEAN /\ isEnabled' \in BOOLEAN
      /\ steady' \in BOOLEAN /\ settled' \in BOOLEAN
  BY DEF QueriesTypeOK
<1>3. QueriesTypeOK'
  BY <1>1, <1>2 DEF QueriesTypeOK, world, answer
<1>4. Placed' /\ Watched' /\ Learned' /\ NeverOtherTv'
  BY <1>1 DEF Placed, Watched, Learned, NeverOtherTv, answer
<1>5. AnswersReal'
  <2>1. CASE UNCHANGED <<steady, dispInit>>
    BY <1>1, <2>1 DEF AnswersReal, EdidIsReal, StateIsReal, AspectIsReal, Answered, Alone, Tv,
                      world, answer
  <2>2. CASE steady' = FALSE
    BY <2>2, NothingSaid
  <2>. QED BY <1>1, <2>1, <2>2
<1>6. EnabledRemembered'
  BY <1>1 DEF EnabledRemembered, Alone, Enabled, Connected, world
<1>. QED BY <1>3, <1>4, <1>5, <1>6

LEMMA WorldKeeps ==
  ASSUME QueriesInv,
         Compositor \/ \E c \in Connectors, tv \in TVs \cup {NoTv} : Plug(c, tv)
  PROVE  QueriesInv'
<1>. USE DEF QueriesInv
<1>1. /\ steady' = FALSE /\ settled' = FALSE
      /\ UNCHANGED <<modules, isEnabled, op, at, want, answer>>
  BY DEF Compositor, Plug
<1>2. /\ plugged' \in [Connectors -> TVs \cup {NoTv}]
      /\ crtc' \in [Connectors -> {"none", "encoder", "mode"}]
      /\ shown' \in ShownModes
  BY DEF QueriesTypeOK, Compositor, Plug
<1>3. /\ seen \subseteq seen' /\ seen' \subseteq TVs \cup {NoTv}
      /\ Tv \in seen => Tv' \in seen'
  BY PortsAssumption DEF QueriesTypeOK, Compositor, Plug, Tv
<1>4. QueriesTypeOK'
  BY <1>1, <1>2, <1>3 DEF QueriesTypeOK, modules, answer
<1>5. Placed' /\ Watched' /\ Learned' /\ NeverOtherTv'
  BY <1>1, <1>3 DEF Placed, Watched, Learned, NeverOtherTv, answer
<1>6. AnswersReal' /\ EnabledRemembered'
  BY <1>1, NothingSaid DEF EnabledRemembered
<1>. QED BY <1>4, <1>5, <1>6

LEMMA QueriesStep == QueriesInv /\ [QueriesNext]_queryVars => QueriesInv'
<1>. SUFFICES ASSUME QueriesInv, [QueriesNext]_queryVars PROVE QueriesInv'
  OBVIOUS
<1>1. CASE UNCHANGED queryVars
  BY <1>1 DEF queryVars, world, modules, answer, history, QueriesInv, QueriesTypeOK, Placed,
     Watched, Learned, NeverOtherTv, AnswersReal, EdidIsReal, StateIsReal, AspectIsReal,
     Answered, EnabledRemembered, Alone, Enabled, Connected, Tv
<1>2. CASE ReadPort
  <2>1. PICK r \in Reading \cup Failure :
          /\ Noted(r)
          /\ \/ AnswerEnabled(r) \/ AnswerConnected(r) \/ AnswerActive(r)
             \/ AskHdr(r) \/ AskResolutions(r) \/ AskSurround(r) \/ AskAudio(r)
             \/ AnswerMatrix(r) \/ AnswerQuantization(r) \/ AnswerSettings(r)
    BY <1>2 DEF ReadPort
  <2>2. at = "port" /\ UNCHANGED <<world, modules, op, want, seen>>
    BY <1>2 DEF ReadPort
  <2>. QED BY <2>1, <2>2, StateKeeps, AskKeeps, OutputKeeps
<1>3. CASE CallStep /\ ~ReadPort
  BY <1>3, DisplayKeeps, BytesKeeps, SysfsKeeps, AspectKeeps, EncodingKeeps, CommandKeeps
     DEF CallStep
<1>4. CASE QueriesNext /\ ~CallStep
  BY <1>4, EnterKeeps, ModulesKeep, WorldKeeps DEF QueriesNext
<1>. QED BY <1>1, <1>2, <1>3, <1>4

LEMMA QueriesInductive == QueriesSpec => []QueriesInv
BY QueriesBegin, QueriesStep, PTL DEF QueriesSpec

(***************************************************************************)
(* Theorems about PortQueries                                              *)
(***************************************************************************)

\* Every query returns one of the errors it has, and one of the values.
THEOREM QueriesTyped == QueriesSpec => []QueriesTypeOK
<1>1. QueriesInv => QueriesTypeOK  BY DEF QueriesInv
<1>. QED BY <1>1, QueriesInductive, PTL

\* What a query answers while nothing changes is true of the display, the port
\* and the mode, however many connectors and displays there are, as long as
\* only HDMI-A-1 is in use.
THEOREM AnswersTrue == QueriesSpec => []AnswersReal
<1>1. QueriesInv => AnswersReal  BY DEF QueriesInv
<1>. QED BY <1>1, QueriesInductive, PTL

\* Without any condition on the connectors: no query answers with a display
\* that was not at HDMI-A-1 during the call.
THEOREM OwnDisplayOnly == QueriesSpec => []NeverOtherTv
<1>1. QueriesInv => NeverOtherTv  BY DEF QueriesInv
<1>. QED BY <1>1, QueriesInductive, PTL

\* What dsIsVideoPortEnabled falls back on is right until something changes.
THEOREM FallbackTrue == QueriesSpec => []EnabledRemembered
<1>1. QueriesInv => EnabledRemembered  BY DEF QueriesInv
<1>. QED BY <1>1, QueriesInductive, PTL
=============================================================================
